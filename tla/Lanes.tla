------------------------------- MODULE Lanes -------------------------------
(***************************************************************************)
(* Vector registers as sequences of words of Bits bits, the first lane     *)
(* first, and the instructions the vectorised code is written with.  The   *)
(* word 32-bit code works on is a register of one lane.                    *)
(***************************************************************************)
EXTENDS Integers, Sequences, SequencesExt, Bitwise, TLC

CONSTANT Bits                             \* 32

Word        == 2 ^ Bits
Stored(f)   == f @@ <<>>                  \* a table, not a rule
Add(a, b)   == Stored([l \in DOMAIN a |-> (a[l] + b[l]) % Word])
Rot(w, n)   == ((w * 2 ^ n) % Word) + (w \div 2 ^ (Bits - n))
XorRot(a, b, n) == Stored([l \in DOMAIN a |-> Rot(a[l] ^^ b[l], n)])
TurnInto(a, b, n) == Stored([l \in DOMAIN a |-> a[l] ^^ Rot(b[l], n)])
Broadcast(w, lanes) == [l \in 1 .. lanes |-> w]
SetLane(a, l, w)    == [a EXCEPT ![l + 1] = w]

(* A 64-bit number in two words, the low one first, and sums of them.      *)
Low64(n)      == <<n % Word, (n \div Word) % Word>>
From64(lo, hi) == lo + hi * Word
Counters(n, set) == FlattenSeq([k \in DOMAIN set |-> Low64(n + set[k])])

(* Lanes of a and b taken by index, in each group of four (128 bits) ...   *)
InGroups(a, b, idx) ==
    Stored([l \in DOMAIN a |->
        LET g == 4 * ((l - 1) \div 4)  i == idx[((l - 1) % 4) + 1]
        IN IF i < 4 THEN a[g + i + 1] ELSE b[g + i - 3]])
(* ... and whole groups of them, numbered through both.                    *)
Groups(a, b, idx) ==
    Stored([l \in 1 .. (4 * Len(idx)) |-> (a \o b)[4 * idx[((l - 1) \div 4) + 1] + ((l - 1) % 4) + 1]])

unpacklo32(a, b) == InGroups(a, b, <<0, 4, 1, 5>>)
unpackhi32(a, b) == InGroups(a, b, <<2, 6, 3, 7>>)
unpacklo64(a, b) == InGroups(a, b, <<0, 1, 4, 5>>)
unpackhi64(a, b) == InGroups(a, b, <<2, 3, 6, 7>>)
vtrn1_32(a, b)   == InGroups(a, b, <<0, 4, 2, 6>>)
vtrn2_32(a, b)   == InGroups(a, b, <<1, 5, 3, 7>>)
vuzp1(a, b)      == InGroups(a, b, <<0, 2, 4, 6>>)
vuzp2(a, b)      == InGroups(a, b, <<1, 3, 5, 7>>)
vext1(a)         == InGroups(a, a, <<1, 2, 3, 0>>)
vext2(a)         == InGroups(a, a, <<2, 3, 0, 1>>)
vext3(a)         == InGroups(a, a, <<3, 0, 1, 2>>)

(* _mm_shuffle_epi32 with the immediates 0x39, 0x4e and 0x93               *)
shuffle39(a) == InGroups(a, a, <<1, 2, 3, 0>>)
shuffle4e(a) == InGroups(a, a, <<2, 3, 0, 1>>)
shuffle93(a) == InGroups(a, a, <<3, 0, 1, 2>>)
permutevar8(a, idx)   == Stored([l \in 1 .. 8 |-> a[idx[l] + 1]])
=============================================================================
