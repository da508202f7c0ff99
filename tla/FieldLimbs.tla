---------------------------- MODULE FieldLimbs ----------------------------
(***************************************************************************)
(* The two representations of the field of 2^255 - 19 that a build can     *)
(* choose: five unsigned limbs of 51 bits (fe_51), or ten signed limbs of  *)
(* 26 and 25 bits in turn (fe_25_5).  The widths of limbs are parameters;  *)
(* a machine word keeps its distance from them, so that what overflows     *)
(* here is what overflows there.  An element is a function on limbs.       *)
(***************************************************************************)
EXTENDS Integers, Sequences, FiniteSets, SequencesExt, FiniteSetsExt

CONSTANTS
    W,     \* 51: the bits of a limb of fe_51
    V,     \* 25: the bits of an odd limb of fe_25_5; even ones have V + 1
    C,     \* 19
    Spare  \* 13: the bits uint64_t has beyond a limb of fe_51

VARIABLES input, at, mem

Total(Term(_), set) == FoldSet(LAMBDA i, s : s + Term(i), 0, set)

-----------------------------------------------------------------------------
(* fe_51: uint64_t has W + Spare bits, uint128_t is never filled.          *)
Limbs5 == 0 .. 4
U64(x) == x % 2 ^ (W + Spare)

Carry5(t, i)  == [t EXCEPT ![i] = @ % 2 ^ W, ![i + 1] = @ + t[i] \div 2 ^ W]
Carries5(t)   == FoldLeft(Carry5, t, <<0, 1, 2, 3>>)
CarryTop5(t)  == [t EXCEPT ![4] = @ % 2 ^ W, ![0] = U64(@ + U64(C * U64(t[4] \div 2 ^ W)))]

fe51_frombytes(s) == [i \in Limbs5 |-> (s \div 2 ^ (W * i)) % 2 ^ W]
fe51_add(f, g) == [i \in Limbs5 |-> U64(f[i] + g[i])]

TwoP(i) == 2 ^ (W + 1) - (IF i = 0 THEN 2 * C ELSE 2)
fe51_sub_lazy(f, g) == [i \in Limbs5 |-> U64(f[i] + TwoP(i) - g[i])]
fe51_sub(f, g) == fe51_sub_lazy(f, CarryTop5(Carries5(g)))
fe51_neg(f) == fe51_sub([i \in Limbs5 |-> 0], f)

fe51_cmov(f, g, b)  == IF b = 1 THEN g ELSE f
fe51_cswap(f, g, b) == IF b = 1 THEN <<g, f>> ELSE <<f, g>>

(* Mutant: what comes back to the bottom is not carried.                   *)
Settle5Early(r) == CarryTop5(Carries5(r))

(* The carry out of the top comes back to the bottom, and stops at r02.    *)
Settle5(r) == Carry5(Carry5(CarryTop5(Carries5(r)), 0), 1)

fe51_mul(f, g) ==
    Settle5([k \in Limbs5 |->
        Total(LAMBDA i : IF i <= k THEN f[i] * g[k - i] ELSE U64(C * f[i]) * g[k + 5 - i], Limbs5)])

Squares5(f) ==
    [k \in Limbs5 |->
        Total(LAMBDA i : LET j == (k - i) % 5
                             a == IF i = j THEN f[i] ELSE U64(2 * f[i])
                         IN  IF i > j THEN 0 ELSE IF i + j < 5 THEN a * f[j]
                             ELSE U64(C * a) * f[j], Limbs5)]

fe51_sq(f)  == Settle5(Squares5(f))
fe51_sq2(f) == Settle5([k \in Limbs5 |-> 2 * Squares5(f)[k]])
fe51_mul32(f, n) == CarryTop5(Carries5([i \in Limbs5 |-> f[i] * n]))

fe51_reduce(f) ==
    LET pass(t) == CarryTop5(Carries5(t))
        t == pass([pass(pass(f)) EXCEPT ![0] = @ + C])
        u == Carries5([i \in Limbs5 |-> t[i] + 2 ^ W - (IF i = 0 THEN C ELSE 1)])
    IN  [u EXCEPT ![4] = @ % 2 ^ W]

-----------------------------------------------------------------------------
(* fe_25_5: int32_t has V + 6 bits and a sign, int64_t 2V + 13.            *)
Limbs10 == 0 .. 9
Width(i) == IF i % 2 = 0 THEN V + 1 ELSE V
From(i)  == i * V + (i + 1) \div 2

Signed(x, bits) == ((x + 2 ^ bits) % 2 ^ (bits + 1)) - 2 ^ bits
S32(x) == Signed(x, V + 6)
S64(x) == Signed(x, 2 * V + 13)

Up(h, i, c) == IF i = 9 THEN [h EXCEPT ![0] = @ + C * c] ELSE [h EXCEPT ![i + 1] = @ + c]

(* A rounding carry, that leaves a limb between -2^(w-1) and 2^(w-1).      *)
Carry10(h, i) ==
    LET c == (h[i] + 2 ^ (Width(i) - 1)) \div 2 ^ Width(i)
    IN  Up([h EXCEPT ![i] = @ - c * 2 ^ Width(i)], i, c)

Balance(h) == FoldLeft(Carry10, h, <<9, 1, 3, 5, 7, 0, 2, 4, 6, 8>>)

(* A limb is loaded from the first byte that begins in it; bytes have two  *)
(* bits here.                                                              *)
ByteFrom(i) == 2 * ((From(i) + 1) \div 2)

fe25_frombytes(s) ==
    Balance([i \in Limbs10 |->
        LET end == IF i = 9 THEN From(10) ELSE ByteFrom(i + 1)
        IN  ((s \div 2 ^ ByteFrom(i)) % 2 ^ (end - ByteFrom(i))) * 2 ^ (ByteFrom(i) - From(i))])

fe25_add(f, g) == [i \in Limbs10 |-> S32(f[i] + g[i])]
fe25_sub(f, g) == [i \in Limbs10 |-> S32(f[i] - g[i])]
fe25_neg(f)    == [i \in Limbs10 |-> S32(-f[i])]

fe25_cmov(f, g, b)  == IF b = 1 THEN g ELSE f
fe25_cswap(f, g, b) == IF b = 1 THEN <<g, f>> ELSE <<f, g>>

Settle10(h) == FoldLeft(Carry10, h, <<0, 4, 1, 5, 2, 6, 3, 7, 4, 8, 9, 0>>)

(* Two odd limbs have half a bit each to give back.                        *)
fe25_mul(f, g) ==
    Settle10([k \in Limbs10 |->
        S64(Total(LAMBDA i :
            LET j == (k - i) % 10
                a == IF i % 2 = 1 /\ j % 2 = 1 THEN S32(2 * f[i]) ELSE f[i]
            IN  a * (IF i > k THEN S32(C * g[j]) ELSE g[j]), Limbs10))])

Squares10(f) ==
    [k \in Limbs10 |->
        S64(Total(LAMBDA i :
            LET j == (k - i) % 10
                twice(x) == S32(2 * x)
                odd(n) == n % 2 = 1
            IN  IF i > j THEN 0
                ELSE IF i + j >= 10
                THEN (IF i = j \/ (odd(j) /\ ~odd(i)) THEN f[i] ELSE twice(f[i]))
                        * S32((IF odd(j) THEN 2 * C ELSE C) * f[j])
                ELSE (IF i = j THEN f[i] ELSE twice(f[i])) * (IF odd(i) /\ odd(j) THEN twice(f[j]) ELSE f[j]),
            Limbs10))]

fe25_sq(f)  == Settle10(Squares10(f))
fe25_sq2(f) == Settle10([k \in Limbs10 |-> S64(2 * Squares10(f)[k])])
fe25_mul32(f, n) == Balance([i \in Limbs10 |-> S64(f[i] * n)])

Floor10(h, i) ==
    LET c == h[i] \div 2 ^ Width(i)
    IN  [Up(h, i, IF i = 9 THEN 0 ELSE c) EXCEPT ![i] = h[i] - c * 2 ^ Width(i)]

(* The quotient by the prime, estimated with the top limb alone, is exact. *)
Quotient10(h) ==
    FoldLeft(LAMBDA q, i : (h[i] + q) \div 2 ^ Width(i),
             (C * h[9] + 2 ^ (V - 1)) \div 2 ^ V, <<0, 1, 2, 3, 4, 5, 6, 7, 8, 9>>)

fe25_reduce(f) ==
    FoldLeft(Floor10, [f EXCEPT ![0] = @ + C * Quotient10(f)], <<0, 1, 2, 3, 4, 5, 6, 7, 8, 9>>)

-----------------------------------------------------------------------------
Value5(t)  == Total(LAMBDA i : t[i] * 2 ^ (W * i), Limbs5)

fe51_tobytes(h) == Value5(fe51_reduce(h))
fe51_isnegative(f) == fe51_tobytes(f) % 2
fe51_iszero(f) == IF fe51_tobytes(f) = 0 THEN 1 ELSE 0

Return(result) == mem' = result /\ at' = "returned" /\ UNCHANGED input

Fe51 ==
    /\ input.call = "fe51"
    /\ LET f == input.f
           g == input.g
       IN  Return([add |-> fe51_add(f, g), sub |-> fe51_sub(f, g), neg |-> fe51_neg(f), mul |-> fe51_mul(f, g),
                   sq |-> fe51_sq(f), sq2 |-> fe51_sq2(f), mul32 |-> fe51_mul32(f, input.n),
                   cmov |-> fe51_cmov(f, g, input.n % 2), cswap |-> fe51_cswap(f, g, input.n % 2),
                   lazy |-> fe51_sub_lazy(f, fe51_mul32(g, 1)), bytes |-> fe51_tobytes(f),
                   negative |-> fe51_isnegative(f), zero |-> fe51_iszero(f)])

Fe25 ==
    /\ input.call = "fe25"
    /\ LET f == input.f
           g == input.g
       IN  Return([add |-> fe25_add(f, g), sub |-> fe25_sub(f, g), neg |-> fe25_neg(f), mul |-> fe25_mul(f, g),
                   sq |-> fe25_sq(f), sq2 |-> fe25_sq2(f), mul32 |-> fe25_mul32(f, input.n),
                   cmov |-> fe25_cmov(f, g, input.n % 2), cswap |-> fe25_cswap(f, g, input.n % 2)])

FromBytes ==
    /\ input.call = "frombytes"
    /\ Return([five |-> fe51_frombytes(input.s), ten |-> fe25_frombytes(input.s)])

(* The reduced limbs, with times the prime added and some limbs borrowing. *)
Reduce10 ==
    /\ input.call = "reduce10"
    /\ LET start == [input.r EXCEPT ![0] = @ - C * input.times, ![9] = @ + input.times * 2 ^ V]
           Lent(h, i) == IF i \in input.borrow THEN [h EXCEPT ![i] = @ + 2 ^ Width(i), ![i + 1] = @ - 1] ELSE h
       IN  Return(fe25_reduce(FoldLeft(Lent, start, <<0, 1, 2, 3, 4, 5, 6, 7, 8>>)))

Next == at = "called" /\ (Fe51 \/ Fe25 \/ FromBytes \/ Reduce10)

-----------------------------------------------------------------------------
P == 2 ^ (5 * W) - C

Mod10(h) == FoldLeft(LAMBDA v, k : (v * 2 ^ Width(10 - k) + h[10 - k]) % P, 0, [k \in 1 .. 10 |-> k])

(* f * g modulo P, in five bits of f at a time                             *)
Product(f, g) ==
    FoldLeft(LAMBDA s, k : (((s * 32) % P) + ((f \div 32 ^ (5 - k)) % 32) * g) % P, 0, <<1, 2, 3, 4, 5>>)

(* Every operation computes modulo the prime what its name says, for all   *)
(* limbs its comment allows (54 bits; 1.65 * 2^26 and 1.65 * 2^25), and    *)
(* nothing overflows on the way; products of fe_51 have limbs of 52 bits;  *)
(* numbers are written in one way only.                                    *)
(* (With 54 bits the last carry of fe_51's fe25519_sq2() would overflow:   *)
(* its operands in the code are products or decoded numbers, of 52.)       *)
FieldsAreExact ==
    /\ at = "returned" /\ input.call \in {"fe51", "fe25"} =>
          LET value(h) == IF input.call = "fe51" THEN Value5(h) % P ELSE Mod10(h)
              f == value(input.f)
              g == value(input.g)
          IN  /\ value(mem.add) = (f + g) % P /\ value(mem.sub) = (f - g) % P /\ value(mem.neg) = (-f) % P
              /\ value(mem.mul) = Product(f, g)
              /\ value(mem.sq) = Product(f, f)
              /\ (input.call = "fe25" \/ \A i \in Limbs5 : input.f[i] < 2 ^ (W + 2))
                    => value(mem.sq2) = (2 * Product(f, f)) % P
              /\ value(mem.mul32) = Product(f, input.n)
              /\ mem.cmov = mem.cswap[1]
              /\ mem.cswap = IF input.n % 2 = 1 THEN <<input.g, input.f>> ELSE <<input.f, input.g>>
              /\ input.call = "fe51" =>
                    /\ \A i \in Limbs5 : mem.mul[i] < 2 ^ (W + 1) /\ mem.sq[i] < 2 ^ (W + 1)
                    /\ value(mem.lazy) = (f - g) % P
                    /\ mem.bytes = f /\ mem.negative = f % 2 /\ (mem.zero = 1 <=> f = 0)
    /\ at = "returned" /\ input.call = "frombytes" =>
          /\ Value5(mem.five) = input.s % 2 ^ (5 * W)
          /\ Mod10(mem.ten) = (input.s % 2 ^ (5 * W)) % P
    /\ at = "returned" /\ input.call = "reduce10" => mem = input.r
=============================================================================
