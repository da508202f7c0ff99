------------------------------ MODULE Scalars ------------------------------
(***************************************************************************)
(* Arithmetic modulo the order of the group, on 12 limbs of 21 bits (S     *)
(* here), and inversion modulo a prime by safegcd.h, in both its sizes.    *)
(* A scalar is a number below 2^Size, one to be reduced a pair of them.    *)
(***************************************************************************)
EXTENDS Integers, Sequences, FiniteSets, SequencesExt, FiniteSetsExt, TLC

CONSTANTS
    S,         \* 21: the bits of a limb
    Size,      \* 256: the bits of 32 bytes
    Digits,    \* 0 .. 5: the signed limbs of 2^252 modulo L
    Moduli,    \* safegcd moduli: [limbs, inv, bits, half, batches]
    Order      \* the one that is L

VARIABLES input, at, mem

Total(Term(_), set) == FoldSet(LAMBDA i, s : s + Term(i), 0, set)

L   == 2 ^ (12 * S) - Total(LAMBDA j : Digits[j] * 2 ^ (S * j), 0 .. 5)
Big == 2 ^ Size

-----------------------------------------------------------------------------
Load(a) == [i \in 0 .. 11 |-> (a \div 2 ^ (S * i)) % (IF i = 11 THEN Big ELSE 2 ^ S)]

LoadPair(lo, hi) ==
    LET low == Size \div S
    IN  [i \in 0 .. 23 |->
            IF i < low THEN (lo \div 2 ^ (S * i)) % 2 ^ S
            ELSE (hi \div 2 ^ (S * (i - low))) % (IF i = 23 THEN Big ELSE 2 ^ S)]

(* Each of limbs, to the nearest 2^S; the rest is carried to the next one.  *)
Round(s, limbs) ==
    LET c(k) == (s[k] + 2 ^ (S - 1)) \div 2 ^ S
    IN  [k \in limbs |-> s[k] - c(k) * 2 ^ S] @@ [k \in {j + 1 : j \in limbs} |-> s[k] + c(k - 1)] @@ s

(* Limb i is 2^252 times limb i - 12: the digits of that are added.        *)
Fold(s, limbs) ==
    LET down(k) == Total(LAMBDA i : IF k - i + 12 \in 0 .. 5 THEN Digits[k - i + 12] * s[i] ELSE 0, limbs)
    IN  [k \in limbs |-> 0] @@ [k \in DOMAIN s |-> s[k] + down(k)]

Evens(from, to) == {k \in from .. to : (k - from) % 2 = 0}

FoldHigh(s)    == Fold(s, 18 .. 23)
CarryMiddle(s) == Round(Round(FoldHigh(s), Evens(6, 16)), Evens(7, 15))
FoldLow(s)     == Fold(CarryMiddle(s), 12 .. 17)
CarryLow(s)    == Round(Round(FoldLow(s), Evens(0, 10)), Evens(1, 11))

(* Limbs 0 to n become digits, the rest of each carried to the next.       *)
Floor(s, n) ==
    LET carry[i \in -1 .. n] == IF i < 0 THEN 0 ELSE (s[i] + carry[i - 1]) \div 2 ^ S
    IN  [i \in 0 .. n |-> (s[i] + carry[i - 1]) % 2 ^ S] @@ [s EXCEPT ![n + 1] = @ + carry[n]]

(* Twice the twelfth limb comes back; then the limbs are digits.           *)
Reduced(s) ==
    LET once  == Floor(Fold(CarryLow(s), {12}), 11)
        twice == Floor(Fold(once, {12}), 10)
    IN  Total(LAMBDA i : twice[i] * 2 ^ (S * i), 0 .. 11) % Big

Spread(s) == Round(Round(s, Evens(0, 22)), Evens(1, 21))

Products(a, b, c) ==
    LET x == Load(a)
        y == Load(b)
        z == Load(c)
    IN  [k \in 0 .. 23 |->
            Total(LAMBDA i : IF k - i \in 0 .. 11 THEN x[i] * y[k - i] ELSE 0, 0 .. 11) + (IF k < 12 THEN z[k] ELSE 0)]

sc25519_mul(a, b)       == Reduced(Spread(Products(a, b, 0)))
sc25519_muladd(a, b, c) == Reduced(Spread(Products(a, b, c)))
sc25519_reduce(lo, hi)  == Reduced(LoadPair(lo, hi))

(* From the last byte: c once one is smaller, n while all were equal.      *)
sc25519_is_canonical(s) ==
    LET byte(x, i) == (x \div 256 ^ i) % 256
        cn == FoldLeft(LAMBDA st, i : [c |-> st.c \/ (byte(s, i) < byte(L, i) /\ st.n),
                                       n |-> st.n /\ byte(s, i) = byte(L, i)],
                       [c |-> FALSE, n |-> TRUE], [i \in 1 .. (Size \div 8 + 1) |-> Size \div 8 + 1 - i])
    IN  cn.c

-----------------------------------------------------------------------------
(* safegcd.h: limbs of m.bits, in words of two more; the last is signed.   *)
Word(m)  == 2 ^ (m.bits + 2)
Mask(m)  == 2 ^ m.bits
ToSigned(x, mod) == ((x + mod \div 2) % mod) - mod \div 2
Top(m)   == Len(m.limbs)
Negate(x, mod)   == (-x) % mod

Normalized(x, m) ==
    FoldLeft(LAMBDA y, i : [y EXCEPT ![i] = @ % Mask(m), ![i + 1] = @ + y[i] \div Mask(m)],
             x, [i \in 1 .. (Top(m) - 1) |-> i])

AddModulusIfNegative(x, m) ==
    Normalized([i \in 1 .. Top(m) |-> x[i] + (IF x[Top(m)] < 0 THEN m.limbs[i] ELSE 0)], m)

safegcd_normalize(x, negative, m) ==
    LET y == AddModulusIfNegative(x, m)
    IN  AddModulusIfNegative(Normalized([i \in 1 .. Top(m) |-> IF negative THEN -y[i] ELSE y[i]], m), m)

(* The matrix is applied to x and y, which are then divided by 2^bits;     *)
(* md multiplies the modulus so that the division is exact.                *)
UpdateRow(x, y, t, m, reduce) ==
    LET wide(c) == ToSigned(c, Word(m) * Word(m))
        c0  == t[1] * x[1] + t[2] * y[1]
        md0 == (IF x[Top(m)] < 0 THEN t[1] ELSE 0) + (IF y[Top(m)] < 0 THEN t[2] ELSE 0)
        md  == IF reduce THEN md0 - ((m.inv * (c0 % Mask(m)) + md0) % Mask(m)) ELSE 0
        carry[i \in 0 .. Top(m)] ==
            IF i = 0 THEN 0
            ELSE wide(carry[i - 1] \div (IF i = 1 THEN 1 ELSE Mask(m))
                        + t[1] * x[i] + t[2] * y[i] + m.limbs[i] * md)
    IN  [i \in 1 .. (Top(m) - 1) |-> carry[i + 1] % Mask(m)] \o <<carry[Top(m)] \div Mask(m)>>

safegcd_update(xy, t, m, reduce) ==
    <<UpdateRow(xy[1], xy[2], t[1], m, reduce), UpdateRow(xy[1], xy[2], t[2], m, reduce)>>

(* A step: swap when zeta is negative and g odd, make g even, halve it.    *)
(* u, v and q, r are the rows so far; the 64-bit code packs a row in one.  *)
Step(st, mod) ==
    LET odd  == st.g % 2 = 1
        swap == st.zeta < 0 /\ odd
        x(n) == IF ~odd THEN 0 ELSE IF st.zeta < 0 THEN Negate(n, mod) ELSE n
    IN  [zeta |-> IF swap THEN -st.zeta - 2 ELSE st.zeta - 1,
         f |-> IF swap THEN st.g ELSE st.f,
         g |-> ((st.g + x(st.f)) % mod) \div 2,
         u |-> (2 * (IF swap THEN st.q ELSE st.u)) % mod,
         v |-> (2 * (IF swap THEN st.r ELSE st.v)) % mod,
         q |-> (st.q + x(st.u)) % mod,
         r |-> (st.r + x(st.v)) % mod]

Steps(st, n, mod) ==
    LET after[k \in 0 .. n] == IF k = 0 THEN st ELSE Step(after[k - 1], mod)
    IN  after[n]

DivstepsNarrow(zeta, f, g, m) ==
    LET st == Steps([zeta |-> zeta, f |-> f, g |-> g, u |-> 1, v |-> 0, q |-> 0, r |-> 1], m.bits, Word(m))
        signed(n) == ToSigned(n, Word(m))
    IN  [zeta |-> st.zeta, t |-> <<<<signed(st.u), signed(st.v)>>, <<signed(st.q), signed(st.r)>>>>]

(* Two halves, of half - 2 and half - 3 steps, in one word each; scaled by *)
(* eight to divide by 2^bits.                                              *)
Unpack(x, m) ==
    LET lo == ToSigned(x % 2 ^ m.half, 2 ^ m.half)
    IN  <<lo, ToSigned((x - lo) % Word(m), Word(m)) \div 2 ^ m.half>>

DivstepsPacked(zeta, f, g, m) ==
    LET pack == [u |-> 1, v |-> 0, q |-> 2 ^ m.half, r |-> 0]
        one == Steps([zeta |-> zeta, f |-> f, g |-> g] @@ pack, m.half - 2, Word(m))
        two == Steps(pack @@ one, m.half - 3, Word(m))
        h(st) == <<Unpack(st.u, m), Unpack(st.q, m)>>
        times(s, t, c) == <<<<c * (s[1][1] * t[1][1] + s[1][2] * t[2][1]), c * (s[1][1] * t[1][2] + s[1][2] * t[2][2])>>,
                            <<c * (s[2][1] * t[1][1] + s[2][2] * t[2][1]), c * (s[2][1] * t[1][2] + s[2][2] * t[2][2])>>>>
    IN  [zeta |-> two.zeta, t |-> times(h(two), h(one), 8)]

Divsteps(zeta, fg, m) ==
    IF m.half > 0 THEN DivstepsPacked(zeta, fg[1][1] % Word(m), fg[2][1] % Word(m), m)
    ELSE DivstepsNarrow(zeta, fg[1][1] % Word(m), fg[2][1] % Word(m), m)

(* Words, two bits wider than limbs, to limbs and back.                    *)
safegcd_from_bytes(s, m) ==
    LET w(i) == (s \div Word(m) ^ (i - 1)) % Word(m)
        n == Top(m)
    IN  [i \in 1 .. n |->
            IF i = 1 THEN w(1) % Mask(m)
            ELSE IF i = n THEN w(n - 1) \div 2 ^ (m.bits + 2 - 2 * (n - 1))
            ELSE ((w(i - 1) \div 2 ^ (m.bits + 4 - 2 * i)) + w(i) * 4 ^ (i - 1)) % Mask(m)]

safegcd_to_bytes(x, m) ==
    Total(LAMBDA i : (((x[i] \div 4 ^ (i - 1)) + x[i + 1] * 2 ^ (m.bits - 2 * (i - 1))) % Word(m)) * Word(m) ^ (i - 1),
          1 .. (Top(m) - 1))

safegcd_invert(s, m) ==
    LET zero  == [i \in 1 .. Top(m) |-> 0]
        batch(st) ==
            LET fg  == safegcd_update(st.fg, st.t, m, FALSE)
                nxt == Divsteps(st.zeta, fg, m)
            IN  [fg |-> fg, zeta |-> nxt.zeta, t |-> nxt.t, de |-> safegcd_update(st.de, st.t, m, TRUE)]
        start == <<m.limbs, safegcd_from_bytes(s, m)>>
        first == Divsteps(-1, start, m)
        after[k \in 1 .. m.batches] ==
            IF k = 1 THEN [fg |-> start, de |-> <<zero, [zero EXCEPT ![1] = 1]>>] @@ first ELSE batch(after[k - 1])
        last == after[m.batches]
        f == safegcd_update(last.fg, last.t, m, FALSE)[1]
        d == safegcd_update(last.de, last.t, m, TRUE)[1]
    IN  safegcd_to_bytes(safegcd_normalize(d, f[Top(m)] < 0, m), m)

sc25519_invert(s) == safegcd_invert(sc25519_reduce(s, 0), Order)

-----------------------------------------------------------------------------
(* core_ed25519.c, on scalars                                              *)
scalar_invert(s) == [recip |-> sc25519_invert(s), ret |-> IF s = 0 THEN -1 ELSE 0]
scalar_add(x, y) == sc25519_reduce((x + y) % Big, 0)

(* L * 2^256, plus what is below, minus s: then reduced.                   *)
LessThan(below, s) ==
    IF s <= below THEN sc25519_reduce(below - s, L) ELSE sc25519_reduce(Big + below - s, L - 1)

scalar_negate(s)     == LessThan(0, s)
scalar_complement(s) == LessThan(1, s)
scalar_sub(x, y)     == scalar_add(x, scalar_negate(y))

(* Draws until one is in range, of as many bits as L.                      *)
scalar_random(draws) ==
    LET drawn(k) == draws[k] % 2 ^ (12 * S + 1)
        good == {k \in DOMAIN draws : sc25519_is_canonical(drawn(k)) /\ drawn(k) # 0}
    IN  drawn(Min(good))

-----------------------------------------------------------------------------
Return(result) == mem' = result /\ at' = "returned" /\ UNCHANGED input

Arithmetic ==
    /\ input.call = "scalars"
    /\ LET a == input.a
           b == input.b
       IN  Return([mul |-> sc25519_mul(a, b), muladd |-> sc25519_muladd(a, b, input.c), reduce |-> sc25519_reduce(a, b),
                   add |-> scalar_add(a, b), sub |-> scalar_sub(a, b), negate |-> scalar_negate(a),
                   complement |-> scalar_complement(a), canonical |-> sc25519_is_canonical(a),
                   invert |-> scalar_invert(a), random |-> scalar_random(<<a, b, input.c, 1>>)])

Invert ==
    /\ input.call = "invert"
    /\ Return(safegcd_invert(input.s, Moduli[input.m]))

Next == at = "called" /\ (Arithmetic \/ Invert)

-----------------------------------------------------------------------------
Times(a, b, p) ==
    LET times[k \in Nat] == IF k = 0 THEN 0 ELSE (2 * times[k \div 2] + (IF k % 2 = 1 THEN a ELSE 0)) % p
    IN  times[b]

ModulusOf(m) == Total(LAMBDA i : m.limbs[i] * Mask(m) ^ (i - 1), 1 .. Top(m))

(* Whatever the scalars, reduced or not, the result is the number it       *)
(* should be and the only one below L; sums may not pass 2^256.  An        *)
(* inverse is one, and zero's is zero, with either size of limb.           *)
ScalarsAreExact ==
    /\ at = "returned" /\ input.call = "scalars" =>
          LET a == input.a % L
              b == input.b % L
          IN  /\ mem.mul = Times(a, b, L) /\ mem.muladd = (mem.mul + input.c) % L
              /\ mem.reduce = (a + Times(b, Big % L, L)) % L
              /\ input.a + input.b < Big => mem.add = (a + b) % L
              /\ mem.negate = (-a) % L /\ mem.complement = (1 - a) % L
              /\ input.a + L <= Big => mem.sub = (a - b) % L
              /\ mem.canonical <=> input.a < L
              /\ Times(mem.invert.recip, a, L) = (IF a = 0 THEN 0 ELSE 1)
              /\ mem.invert.recip < L /\ (mem.invert.ret = 0 <=> input.a # 0)
              /\ mem.random \in 1 .. (L - 1)
    /\ at = "returned" /\ input.call = "invert" =>
          /\ mem \in 0 .. (ModulusOf(Moduli[input.m]) - 1)
          /\ Times(mem, input.s, ModulusOf(Moduli[input.m])) = (IF input.s = 0 THEN 0 ELSE 1)
=============================================================================
