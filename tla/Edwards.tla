------------------------------ MODULE Edwards ------------------------------
(***************************************************************************)
(* The groups of ed25519_ref10.c: the curve -x^2 + y^2 = 1 + d*x^2*y^2 in  *)
(* its four kinds of coordinates.  The field is a parameter: its elements  *)
(* are the numbers below P = 2^(8N-1) - 19, encoded in N bytes, and the    *)
(* code's constants are numbers too.  An encoding is below 2^(8N).         *)
(***************************************************************************)
EXTENDS Integers, Sequences, FiniteSets, SequencesExt

CONSTANTS
    N,           \* 32: the bytes of an encoding
    d,           \* ed25519_d; the curve constant
    A,           \* ed25519_A, of the Montgomery form y^2 = x^3 + A*x^2 + x
    L,           \* the prime order of the main subgroup
    sqrtm1,      \* fe_*/constants.h
    Base,        \* the affine base point <<x, y>>, of order L
    Inverses     \* what fe25519_invert() gives: 0 for 0

Half == 2 ^ (8 * N - 1)
P    == Half - 19

Add(f, g) == (f + g) % P
Sub(f, g) == (f - g) % P
Mul(f, g) == (f * g) % P
Sq(f)     == (f * f) % P
Neg(f)    == (-f) % P

Power(f, n) ==
    LET pow[k \in Nat] ==
            IF k = 0 THEN 1
            ELSE IF k % 2 = 1 THEN Mul(f, Sq(pow[k \div 2])) ELSE Sq(pow[k \div 2])
    IN  pow[n]

InverseTable == [f \in 0 .. (P - 1) |-> Power(f, P - 2)]

fe25519_invert(f)     == Inverses[f]
fe25519_pow22523(f)   == Power(f, (P - 5) \div 8)
fe25519_isnegative(f) == f % 2 = 1
fe25519_cneg(f, b)    == IF b THEN Neg(f) ELSE f
fe25519_abs(f)        == fe25519_cneg(f, fe25519_isnegative(f))

(* One root if there is one: the exponent finds it or sqrt(-1) times it.   *)
fe25519_unchecked_sqrt(x2) ==
    LET p_root == Mul(fe25519_pow22523(x2), x2)
        m_root == Mul(p_root, sqrtm1)
    IN  IF Sub(x2, Sq(m_root)) = 0 THEN m_root ELSE p_root

fe25519_sqrt(x2) ==
    LET x == fe25519_unchecked_sqrt(x2)
    IN  [x |-> x, ret |-> IF Sub(Sq(x), x2) = 0 THEN 0 ELSE -1]

(* The second byte of the Legendre symbol tells P - 1 from 1 and 0.        *)
fe25519_notsquare(x) == (Power(x, (P - 1) \div 2) \div 256) % 2

-----------------------------------------------------------------------------
(* Additions and doublings give a completed point (p1p1), from which the   *)
(* other coordinates are computed.                                         *)

p3(X, Y, Z, T) == [X |-> X, Y |-> Y, Z |-> Z, T |-> T]
ge25519_p3_0     == p3(0, 1, 1, 0)
ge25519_p2_0     == [X |-> 0, Y |-> 1, Z |-> 1]
ge25519_cached_0 == [YplusX |-> 1, YminusX |-> 1, Z |-> 1, T2d |-> 0]
ge25519_precomp_0 == [yplusx |-> 1, yminusx |-> 1, xy2d |-> 0]

ge25519_p1p1_to_p2(p) == [X |-> Mul(p.X, p.T), Y |-> Mul(p.Y, p.Z), Z |-> Mul(p.Z, p.T)]
ge25519_p1p1_to_p3(p) == p3(Mul(p.X, p.T), Mul(p.Y, p.Z), Mul(p.Z, p.T), Mul(p.X, p.Y))
ge25519_p3_to_p2(p)   == [X |-> p.X, Y |-> p.Y, Z |-> p.Z]
ge25519_p2_to_p3(p)   == p3(p.X, p.Y, p.Z, Mul(p.X, p.Y))

ge25519_p3_to_cached(p) ==
    [YplusX |-> Add(p.Y, p.X), YminusX |-> Sub(p.Y, p.X), Z |-> p.Z, T2d |-> Mul(p.T, Add(d, d))]

ge25519_p3_to_precomp(p) ==
    LET recip == fe25519_invert(p.Z)
        x == Mul(p.X, recip)
        y == Mul(p.Y, recip)
    IN  [yplusx |-> Add(y, x), yminusx |-> Sub(y, x), xy2d |-> Mul(Mul(x, y), Add(d, d))]

(* From the product b of Y+X and that a of Y-X with the other's, twice the *)
(* product of the Z, and the product of the T by 2d.                       *)
Completed(b, a, zz2, t2d) == p3(Sub(b, a), Add(b, a), Add(zz2, t2d), Sub(zz2, t2d))

ge25519_add_cached(p, q) ==
    Completed(Mul(Add(p.Y, p.X), q.YplusX), Mul(Sub(p.Y, p.X), q.YminusX),
              Add(Mul(p.Z, q.Z), Mul(p.Z, q.Z)), Mul(q.T2d, p.T))

ge25519_sub_cached(p, q) ==
    Completed(Mul(Add(p.Y, p.X), q.YminusX), Mul(Sub(p.Y, p.X), q.YplusX),
              Add(Mul(p.Z, q.Z), Mul(p.Z, q.Z)), Neg(Mul(q.T2d, p.T)))

ge25519_add_precomp(p, q) ==
    Completed(Mul(Add(p.Y, p.X), q.yplusx), Mul(Sub(p.Y, p.X), q.yminusx),
              Add(p.Z, p.Z), Mul(q.xy2d, p.T))

ge25519_sub_precomp(p, q) ==
    Completed(Mul(Add(p.Y, p.X), q.yminusx), Mul(Sub(p.Y, p.X), q.yplusx),
              Add(p.Z, p.Z), Neg(Mul(q.xy2d, p.T)))

ge25519_p2_dbl(p) ==
    LET xx == Sq(p.X)
        yy == Sq(p.Y)
        zz2 == Add(Sq(p.Z), Sq(p.Z))
    IN  p3(Sub(Sq(Add(p.X, p.Y)), Add(yy, xx)), Add(yy, xx), Sub(yy, xx), Sub(zz2, Sub(yy, xx)))

ge25519_p3_dbl(p)    == ge25519_p2_dbl(ge25519_p3_to_p2(p))
ge25519_p3p3_dbl(p)  == ge25519_p1p1_to_p3(ge25519_p3_dbl(p))
ge25519_p3_neg(p)    == p3(Neg(p.X), p.Y, p.Z, Neg(p.T))
ge25519_p3_add(p, q) == ge25519_p1p1_to_p3(ge25519_add_cached(p, ge25519_p3_to_cached(q)))
ge25519_p3_sub(p, q) == ge25519_p3_add(p, ge25519_p3_neg(q))

(* n doublings of a p2, up to the last completed point                     *)
Doubled(p, n) ==
    FoldLeft(LAMBDA r, i : ge25519_p2_dbl(ge25519_p1p1_to_p2(r)), ge25519_p2_dbl(p),
             [i \in 1 .. (n - 1) |-> i])

ge25519_p3_dbladd(r, n, q) ==
    ge25519_p3_add(ge25519_p1p1_to_p3(Doubled(ge25519_p3_to_p2(r), n)), q)

ge25519_clear_cofactor(p) == ge25519_p1p1_to_p3(Doubled(ge25519_p3_to_p2(p), 3))

-----------------------------------------------------------------------------
(* Encodings: y, and the parity of x in the top bit.                       *)

Sign(s) == s \div Half
fe25519_frombytes(s) == (s % Half) % P

ge25519_p3_tobytes(h) ==
    LET recip == fe25519_invert(h.Z)
    IN  Mul(h.Y, recip) + (IF fe25519_isnegative(Mul(h.X, recip)) THEN Half ELSE 0)

(* x^2 = u/v                                                               *)
NumOfX(y) == Sub(Sq(y), 1)
DenOfX(y) == Add(Mul(Sq(y), d), 1)

(* 2N bytes are reduced with 2^(8N) = 38: lo, hi are its halves.           *)
fe25519_reduce64(lo, hi) ==
    (fe25519_frombytes(lo) + 19 * Sign(lo) + 722 * Sign(hi) + 38 * fe25519_frombytes(hi)) % P

(* All ones but for the first byte, and that one at least 2^8 - 19.        *)
NotReduced(s) == (s % Half) \div 256 = Half \div 256 - 1 /\ s % 256 >= 256 - 19
ge25519_is_canonical(s) == ~NotReduced(s)

ge25519_is_on_curve(p) ==
    LET x2 == Sq(p.X)
        y2 == Sq(p.Y)
        z2 == Sq(p.Z)
    IN  Mul(Sub(y2, x2), z2) = Add(Mul(Mul(x2, y2), d), Sq(z2))

ge25519_has_small_order(p) ==
    LET y_sqrtm1 == Mul(p.Y, sqrtm1)
    IN  0 \in {p.X, p.Y, p.Z, Sub(y_sqrtm1, p.X), Add(y_sqrtm1, p.X)}

Bit(a, i) == (a \div 2 ^ i) % 2
Downwards(n) == [i \in 1 .. n |-> n - i]

-----------------------------------------------------------------------------
(* The law of the affine curve, as a definition, and the first 8 * L       *)
(* multiples of a point.                                                   *)
RefAdd(p, q) ==
    LET t == Mul(Mul(d, Mul(p[1], q[1])), Mul(p[2], q[2]))
    IN  <<Mul(Add(Mul(p[1], q[2]), Mul(q[1], p[2])), Inverses[Add(1, t)]),
          Mul(Add(Mul(p[2], q[2]), Mul(p[1], q[1])), Inverses[Sub(1, t)])>>

MultiplesOf(g) ==
    FoldLeft(LAMBDA m, k : LET last == RefAdd(m[Len(m)], g)
                           IN  m \o [i \in 1 .. (IF k = 16 THEN 8 * L - Len(m) ELSE Len(m)) |-> RefAdd(m[i], last)],
             <<<<0, 1>>>>, [k \in 1 .. 16 |-> k])
=============================================================================
