------------------------------- MODULE Points -------------------------------
(***************************************************************************)
(* The longer functions of ed25519_ref10.c on the groups of Edwards: the   *)
(* decoders, scalar multiplication with three kinds of digits, the maps    *)
(* from field elements to points (Elligator), and Ristretto, where a point *)
(* stands for its sums with the points of order 4.                         *)
(***************************************************************************)
EXTENDS Edwards

CONSTANTS
    sqrtam2, invsqrtamd, sqrtadm1,   \* fe_*/constants.h
    BaseTable,   \* fe_*/base.h: the multiples j * 256^i of Base
    Bi           \* fe_*/base2.h: its odd multiples up to 15

(* The first decoder does not branch on what it decodes.                   *)
ge25519_frombytes(s) ==
    LET y == fe25519_frombytes(s)
        u == NumOfX(y)
        v == DenOfX(y)
        root == Mul(u, fe25519_pow22523(Mul(u, v)))
        vxx  == Mul(Sq(root), v)
        x    == IF Sub(vxx, u) # 0 THEN Mul(root, sqrtm1) ELSE root
        X    == fe25519_cneg(x, fe25519_isnegative(x) # (Sign(s) = 1))
    IN  [h |-> p3(X, y, 1, Mul(X, y)), ret |-> IF Sub(vxx, u) = 0 \/ Add(vxx, u) = 0 THEN 0 ELSE -1]

ge25519_frombytes_negate_vartime(s) ==
    LET y == fe25519_frombytes(s)
        u == NumOfX(y)
        v == DenOfX(y)
        v3   == Mul(Sq(v), v)
        root == Mul(Mul(fe25519_pow22523(Mul(Mul(Sq(v3), v), u)), v3), u)
        vxx  == Mul(Sq(root), v)
        x    == IF Sub(vxx, u) # 0 THEN Mul(root, sqrtm1) ELSE root
        X    == fe25519_cneg(x, fe25519_isnegative(x) = (Sign(s) = 1))
    IN  IF Sub(vxx, u) # 0 /\ Add(vxx, u) # 0 THEN [h |-> ge25519_p3_0, ret |-> -1]
        ELSE [h |-> p3(X, y, 1, Mul(X, y)), ret |-> 0]

(* The addition chain is written as the binary digits of L.                *)
BitLength(a) == CHOOSE n \in 0 .. 30 : 2 ^ n > a /\ (n = 0 \/ 2 ^ (n - 1) <= a)

ge25519_mul_l(p) ==
    FoldLeft(LAMBDA r, i : IF Bit(L, BitLength(L) - 1 - i) = 1 THEN ge25519_p3_dbladd(r, 1, p) ELSE ge25519_p3p3_dbl(r),
             p, [i \in 1 .. (BitLength(L) - 1) |-> i])

ge25519_is_on_main_subgroup(p) ==
    LET pl == ge25519_mul_l(p)
    IN  pl.X = 0 /\ Sub(pl.Y, pl.Z) = 0

-----------------------------------------------------------------------------
(* Scalars: signed digits in radix 16, ...                                 *)
Digits == 2 * N

SignedDigits(a) ==
    LET nibble(i) == (a \div 16 ^ i) % 16
        carry[i \in 0 .. (Digits - 1)] ==
            IF i = 0 THEN 0 ELSE (nibble(i - 1) + carry[i - 1] + 8) \div 16
    IN  [i \in 0 .. (Digits - 1) |->
            nibble(i) + carry[i] - (IF i < Digits - 1 THEN 16 * carry[i + 1] ELSE 0)]

(* ... taken from a table of the first eight multiples.                    *)
Abs(b) == IF b < 0 THEN -b ELSE b

ge25519_cmov8(precomp, b) ==
    LET t == IF b = 0 THEN ge25519_precomp_0 ELSE precomp[Abs(b)]
    IN  IF b < 0 THEN [yplusx |-> t.yminusx, yminusx |-> t.yplusx, xy2d |-> Neg(t.xy2d)] ELSE t

ge25519_cmov8_cached(cached, b) ==
    LET t == IF b = 0 THEN ge25519_cached_0 ELSE cached[Abs(b)]
    IN  IF b < 0 THEN [YplusX |-> t.YminusX, YminusX |-> t.YplusX, Z |-> t.Z, T2d |-> Neg(t.T2d)] ELSE t

MultiplesTo8(p) ==
    FoldLeft(LAMBDA m, i : Append(m, IF i % 2 = 0 THEN ge25519_p3p3_dbl(m[i \div 2])
                                     ELSE ge25519_p1p1_to_p3(ge25519_add_cached(p, ge25519_p3_to_cached(m[i - 1])))),
             <<p>>, <<2, 3, 4, 5, 6, 7, 8>>)

ge25519_scalarmult(a, p) ==
    LET pi == LET m == MultiplesTo8(p) IN [i \in 1 .. 8 |-> ge25519_p3_to_cached(m[i])]
        e  == SignedDigits(a)
        times16(sum) == Doubled(ge25519_p1p1_to_p2(sum), 4)
        shifted(sum, i) == ge25519_p1p1_to_p3(IF i = 0 THEN sum ELSE times16(sum))
    IN  FoldLeft(LAMBDA h, i : shifted(ge25519_add_cached(h, ge25519_cmov8_cached(pi, e[i])), i),
                 ge25519_p3_0, Downwards(Digits))

(* With the table of the base point the odd digits come first.             *)
ge25519_scalarmult_base(a) ==
    LET e == SignedDigits(a)
        plus(h, i) == ge25519_p1p1_to_p3(ge25519_add_precomp(h, ge25519_cmov8(BaseTable[i \div 2], e[i])))
        odd == FoldLeft(LAMBDA h, j : plus(h, 2 * j + 1), ge25519_p3_0, [j \in 1 .. N |-> j - 1])
    IN  FoldLeft(LAMBDA h, j : plus(h, 2 * j),
                 ge25519_p1p1_to_p3(Doubled(ge25519_p3_to_p2(odd), 4)), [j \in 1 .. N |-> j - 1])

(* Mutant: a carry that passes over ones leaves them.                      *)
CarryUpKeepsOnes(r, from) ==
    LET free == {k \in from .. (8 * N - 1) : r[k] = 0}
        stop == IF free = {} THEN 8 * N ELSE CHOOSE k \in free : \A j \in free : k <= j
    IN  [k \in DOMAIN r |-> IF k = stop THEN 1 ELSE r[k]]

(* slide_vartime(): odd digits up to 15, each followed by zeros.           *)
CarryUp(r, from) ==
    LET free == {k \in from .. (8 * N - 1) : r[k] = 0}
        stop == IF free = {} THEN 8 * N ELSE CHOOSE k \in free : \A j \in free : k <= j
    IN  [k \in DOMAIN r |-> IF k \in from .. (stop - 1) THEN 0 ELSE IF k = stop THEN 1 ELSE r[k]]

SlideStep(st, i, b) ==
    LET r    == st.r
        ribs == r[i + b] * 2 ^ b
    IN  IF st.stop \/ i + b >= 8 * N THEN st
        ELSE IF r[i + b] = 0 THEN st
        ELSE IF r[i] + ribs <= 15 THEN [st EXCEPT !.r[i] = @ + ribs, !.r[i + b] = 0]
        ELSE IF r[i] - ribs < -15 THEN [st EXCEPT !.stop = TRUE]
        ELSE [st EXCEPT !.r = CarryUp([r EXCEPT ![i] = @ - ribs], i + b)]

slide_vartime(a) ==
    FoldLeft(LAMBDA r, i :
        IF r[i] = 0 THEN r
        ELSE FoldLeft(LAMBDA st, b : SlideStep(st, i, b), [r |-> r, stop |-> FALSE], <<1, 2, 3, 4, 5, 6>>).r,
        [i \in 0 .. (8 * N - 1) |-> Bit(a, i)], [i \in 1 .. 8 * N |-> i - 1])

OddMultiples(p) ==
    FoldLeft(LAMBDA m, i : Append(m, ge25519_p1p1_to_p3(
                 ge25519_add_cached(ge25519_p3p3_dbl(p), ge25519_p3_to_cached(m[Len(m)])))),
             <<p>>, <<2, 3, 4, 5, 6, 7, 8>>)

ge25519_double_scalarmult_vartime(a, p, b) ==
    LET aslide == slide_vartime(a)
        bslide == slide_vartime(b)
        Ai == LET m == OddMultiples(p) IN [i \in 1 .. 8 |-> ge25519_p3_to_cached(m[i])]
        withA(t, i) ==
            IF aslide[i] > 0 THEN ge25519_add_cached(ge25519_p1p1_to_p3(t), Ai[aslide[i] \div 2 + 1])
            ELSE IF aslide[i] < 0 THEN ge25519_sub_cached(ge25519_p1p1_to_p3(t), Ai[(-aslide[i]) \div 2 + 1])
            ELSE t
        withB(t, i) ==
            IF bslide[i] > 0 THEN ge25519_add_precomp(ge25519_p1p1_to_p3(t), Bi[bslide[i] \div 2 + 1])
            ELSE IF bslide[i] < 0 THEN ge25519_sub_precomp(ge25519_p1p1_to_p3(t), Bi[(-bslide[i]) \div 2 + 1])
            ELSE t
        used == {i \in DOMAIN aslide : aslide[i] # 0 \/ bslide[i] # 0}
    IN  FoldLeft(LAMBDA r, i : ge25519_p1p1_to_p2(withB(withA(ge25519_p2_dbl(r), i), i)), ge25519_p2_0,
                 Downwards(IF used = {} THEN 0 ELSE 1 + CHOOSE i \in used : \A j \in used : j <= i))

-----------------------------------------------------------------------------
(* Elligator: from field elements to points of the Montgomery curve.       *)
ge25519_xmont_to_ymont(x) == fe25519_sqrt(Add(Add(Mul(x, Sq(x)), x), Mul(Sq(x), A)))

OnMontgomery(x, notsquare) ==
    LET y == ge25519_xmont_to_ymont(x)
    IN  [x |-> x, y |-> y.x, notsquare |-> notsquare, aborts |-> y.ret # 0]

EitherRoot(x1, notsquare) == OnMontgomery(IF notsquare = 1 THEN Sub(Neg(x1), A) ELSE x1, notsquare)

ge25519_elligator2(r) ==
    LET x1 == Neg(Mul(fe25519_invert(Add(Add(Sq(r), Sq(r)), 1)), A))
    IN  EitherRoot(x1, fe25519_notsquare(Add(Add(Mul(x1, Sq(x1)), x1), Mul(Sq(x1), A))))

ge25519_mont_to_ed(x, y) ==
    LET inv == fe25519_invert(Mul(Add(x, 1), y))
    IN  [x |-> Mul(Mul(Mul(x, sqrtam2), inv), Add(x, 1)),
         y |-> IF inv = 0 THEN 1 ELSE Mul(Mul(inv, y), Sub(x, 1))]

Cleared(x, y) == ge25519_p3_tobytes(ge25519_clear_cofactor(p3(x, y, 1, Mul(x, y))))

WithSign(e, sign) == Cleared(fe25519_cneg(e.x, fe25519_isnegative(e.x) # sign), e.y)
WithSignOfY(y, notsquare) == fe25519_cneg(y, fe25519_isnegative(y) # (notsquare = 0))

ge25519_from_uniform(r) ==
    LET mapped(m) == [s |-> WithSign(ge25519_mont_to_ed(m.x, m.y), Sign(r) = 1), aborts |-> m.aborts]
    IN  mapped(ge25519_elligator2(fe25519_frombytes(r)))

ge25519_from_hash(lo, hi) ==
    LET cleared(e) == Cleared(e.x, e.y)
        mapped(m) == [s |-> cleared(ge25519_mont_to_ed(m.x, WithSignOfY(m.y, m.notsquare))), aborts |-> m.aborts]
    IN  mapped(ge25519_elligator2(fe25519_reduce64(lo, hi)))

-----------------------------------------------------------------------------
(* Ristretto                                                               *)
ristretto255_sqrt_ratio_m1(u, v) ==
    LET v3   == Mul(Sq(v), v)
        root == Mul(Mul(fe25519_pow22523(Mul(Mul(Sq(v3), u), v)), v3), u)
        vxx  == Mul(Sq(root), v)
        has_p_root == Add(vxx, u) = 0
        has_f_root == Add(vxx, Mul(u, sqrtm1)) = 0
    IN  [x |-> fe25519_abs(IF has_p_root \/ has_f_root THEN Mul(root, sqrtm1) ELSE root),
         square |-> Sub(vxx, u) = 0 \/ has_p_root]

ristretto255_is_canonical(s) == ~(NotReduced(s) \/ Sign(s) = 1 \/ s % 2 = 1)

Decoded(X, Y, square) ==
    [h |-> p3(X, Y, 1, Mul(X, Y)), ret |-> IF ~square \/ fe25519_isnegative(Mul(X, Y)) \/ Y = 0 THEN -1 ELSE 0]

ristretto255_frombytes(s) ==
    LET ss   == Sq(fe25519_frombytes(s))
        u1   == Sub(1, ss)
        u2   == Add(1, ss)
        v    == Sub(Neg(Mul(d, Sq(u1))), Sq(u2))
        X(ix)     == fe25519_abs(Mul(Mul(2, ix), fe25519_frombytes(s)))
        Y(x, ix)  == Mul(u1, Mul(Mul(x, ix), v))
        decoded(inv, ix) == Decoded(X(ix), Y(inv.x, ix), inv.square)
        from(inv) == decoded(inv, Mul(inv.x, u2))
    IN  IF ~ristretto255_is_canonical(s) THEN [h |-> ge25519_p3_0, ret |-> -1]
        ELSE from(ristretto255_sqrt_ratio_m1(1, Mul(v, Sq(u2))))

(* A point is replaced by its sum with one of order 4 if that makes x * y  *)
(* not negative.                                                           *)
Rotated(h, den, z_inv, rotate) ==
    LET x == IF rotate THEN Mul(h.Y, sqrtm1) ELSE h.X
        y == fe25519_cneg(IF rotate THEN Mul(h.X, sqrtm1) ELSE h.Y, fe25519_isnegative(Mul(x, z_inv)))
    IN  fe25519_abs(Mul(den, Sub(h.Z, y)))

ristretto255_p3_tobytes(h) ==
    LET u1    == Mul(Add(h.Z, h.Y), Sub(h.Z, h.Y))
        u2    == Mul(h.X, h.Y)
        either(den1, den2, z_inv, rotate) == Rotated(h, IF rotate THEN Mul(den1, invsqrtamd) ELSE den2, z_inv, rotate)
        with(den1, den2, z_inv) == either(den1, den2, z_inv, fe25519_isnegative(Mul(h.T, z_inv)))
        from(inv) == with(Mul(inv, u1), Mul(inv, u2), Mul(Mul(Mul(inv, u1), Mul(inv, u2)), h.T))
    IN  from(ristretto255_sqrt_ratio_m1(1, Mul(u1, Sq(u2))).x)

ElligatorPoint(s, n, v) ==
    ge25519_p1p1_to_p3(p3(Mul(Mul(2, s), v), Sub(1, Sq(s)), Mul(n, sqrtadm1), Add(1, Sq(s))))

ristretto255_elligator(t) ==
    LET r     == Mul(sqrtm1, Sq(t))
        u     == Mul(Add(r, 1), Sub(1, Sq(d)))
        v     == Mul(Sub(Neg(1), Mul(r, d)), Add(r, d))
        n(c)  == Sub(Mul(Mul(Sub(r, 1), c), Sq(Sub(d, 1))), v)
        point(rt) == IF rt.square THEN ElligatorPoint(rt.x, n(Neg(1)), v)
                     ELSE ElligatorPoint(Neg(fe25519_abs(Mul(rt.x, t))), n(r), v)
    IN  point(ristretto255_sqrt_ratio_m1(u, v))

ristretto255_from_hash(lo, hi) ==
    ristretto255_p3_tobytes(ge25519_p3_add(ristretto255_elligator(fe25519_frombytes(lo)),
                                           ristretto255_elligator(fe25519_frombytes(hi))))
=============================================================================
