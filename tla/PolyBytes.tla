----------------------------- MODULE PolyBytes -----------------------------
(***************************************************************************)
(* What ML-KEM and ML-DSA share: polynomials of N coefficients as tables,  *)
(* their packing into bytes, and digests and drawn numbers in the place of *)
(* SHA-3 and SHAKE.                                                        *)
(***************************************************************************)
EXTENDS Integers, Sequences, FiniteSets, SequencesExt, FiniteSetsExt, TLC

CONSTANTS N, K       \* 256 coefficients; vectors of 3 or 4

Coefs == 0 .. (N - 1)
Vec   == 0 .. (K - 1)

Total(Term(_), set) == FoldSet(LAMBDA i, s : s + Term(i), 0, set)
Stored(f)           == f @@ <<>>      \* a table, not a rule
Listed(f, n)        == [i \in 1 .. n |-> f[i - 1]]
EachPoly(Op(_), v)  == Stored([i \in Vec |-> Op(v[i])])
EachPair(Op(_, _), v, w) == Stored([i \in Vec |-> Op(v[i], w[i])])

(* A number for a sequence of them, and numbers drawn from a number.       *)
Digest(seq) == FoldLeft(LAMBDA h, x : (h * 127 + x + 1) % 65521, 7, seq)
Draw(seed, k, m) == ((seed * 31 + k * 7919 + k * k * (seed % 251) + (seed % 97) * k * 613) % 65521) % m

(* Numbers of w bits one after the other, the first bit first, in bytes.   *)
Bit(bytes, k) == (bytes[k \div 8] \div 2 ^ (k % 8)) % 2
PackedSize(w) == (N * w) \div 8
Packed(r, w) ==
    Stored([i \in 0 .. (PackedSize(w) - 1) |->
        Total(LAMBDA b : ((r[(8 * i + b) \div w] \div 2 ^ ((8 * i + b) % w)) % 2) * 2 ^ b, 0 .. 7)])
Unpacked(bytes, w) ==
    Stored([j \in Coefs |-> Total(LAMBDA b : Bit(bytes, j * w + b) * 2 ^ b, 0 .. (w - 1))])
VecDigest(v, w) == Digest([i \in 1 .. K |-> Digest(Listed(v[i - 1], PackedSize(w)))])

(* Polynomials are multiplied modulo X^N + 1.                              *)
Product(a, b, q) ==
    [k \in Coefs |-> Total(LAMBDA i : (IF i > k THEN -1 ELSE 1) * ((a[i] * b[(k - i) % N]) % q), Coefs) % q]
=============================================================================
