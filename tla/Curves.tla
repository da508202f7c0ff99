------------------------------- MODULE Curves -------------------------------
(***************************************************************************)
(* What is computed on the groups of Edwards: X25519, the operations on    *)
(* encoded points and Ed25519 signatures.  A behaviour is one call.        *)
(* SHA-512 is a parameter of the call: the values its outputs have.  The   *)
(* functions of Points are parameters of the module.                       *)
(***************************************************************************)
EXTENDS Edwards

CONSTANTS
    Order8,      \* the u coordinates of the points of order 8
    Multiples,   \* the multiples of a generator of the whole group, in order
    ge25519_frombytes(_), ge25519_frombytes_negate_vartime(_), ge25519_is_on_main_subgroup(_),
    ge25519_scalarmult(_, _), ge25519_scalarmult_base(_), ge25519_double_scalarmult_vartime(_, _, _),
    ge25519_from_uniform(_), ge25519_from_hash(_, _),
    ristretto255_frombytes(_), ristretto255_p3_tobytes(_), ristretto255_from_hash(_, _)

VARIABLES input, at, mem

-----------------------------------------------------------------------------
(* x25519_ref10.c                                                          *)
Clamped(n) == ((n % (Half \div 2)) \div 8) * 8 + Half \div 2

has_small_order(s) == s % Half \in {0, 1, P - 1, P, P + 1} \cup Order8

LadderStep(st, bit, x1) ==
    LET swap == st.swap # bit
        x2 == IF swap THEN st.x3 ELSE st.x2
        z2 == IF swap THEN st.z3 ELSE st.z2
        x3 == IF swap THEN st.x2 ELSE st.x3
        z3 == IF swap THEN st.z2 ELSE st.z3
        aa == Sq(Add(x2, z2))
        bb == Sq(Sub(x2, z2))
        e  == Sub(aa, bb)
        da == Mul(Sub(x3, z3), Add(x2, z2))
        cb == Mul(Add(x3, z3), Sub(x2, z2))
    IN  [x2 |-> Mul(aa, bb), z2 |-> Mul(Add(Mul(e, (A + 2) \div 4), bb), e),
         x3 |-> Sq(Add(da, cb)), z3 |-> Mul(Sq(Sub(da, cb)), x1), swap |-> bit]

Ladder(t, x1) ==
    LET st == FoldLeft(LAMBDA r, pos : LadderStep(r, Bit(t, pos), x1),
                       [x2 |-> 1, z2 |-> 0, x3 |-> x1, z3 |-> 1, swap |-> 0], Downwards(8 * N - 1))
    IN  IF st.swap = 1 THEN Mul(st.x3, fe25519_invert(st.z3)) ELSE Mul(st.x2, fe25519_invert(st.z2))

Refused == [q |-> 0, ret |-> -1]
Unless(bad, q) == [q |-> q, ret |-> IF bad THEN -1 ELSE 0]

crypto_scalarmult_curve25519(n, p) ==
    LET q == Ladder(Clamped(n), fe25519_frombytes(p))
    IN  IF has_small_order(p) THEN Refused ELSE Unless(q = 0, q)

edwards_to_montgomery(Y, Z) == Mul(Add(Z, Y), fe25519_invert(Sub(Z, Y)))

crypto_scalarmult_curve25519_base(n) ==
    LET q == ge25519_scalarmult_base(Clamped(n)) IN edwards_to_montgomery(q.Y, q.Z)

-----------------------------------------------------------------------------
(* core_ed25519.c and scalarmult_ed25519_ref10.c, on encoded points        *)
OnMainSubgroup(p) ==
    LET P3 == ge25519_frombytes(p)
    IN  ge25519_is_canonical(p) /\ P3.ret = 0 /\ ~ge25519_has_small_order(P3.h) /\ ge25519_is_on_main_subgroup(P3.h)

crypto_core_ed25519_is_valid_point(p) ==
    OnMainSubgroup(p) /\ ge25519_is_on_curve(ge25519_frombytes(p).h)

Decodes(p) == ge25519_frombytes(p).ret = 0 /\ ge25519_is_on_curve(ge25519_frombytes(p).h)

crypto_core_ed25519_add(p, q) ==
    IF ~Decodes(p) \/ ~Decodes(q) THEN Refused
    ELSE Unless(FALSE, ge25519_p3_tobytes(ge25519_p3_add(ge25519_frombytes(p).h, ge25519_frombytes(q).h)))

crypto_core_ed25519_sub(p, q) ==
    IF ~Decodes(p) \/ ~Decodes(q) THEN Refused
    ELSE Unless(FALSE, ge25519_p3_tobytes(ge25519_p3_sub(ge25519_frombytes(p).h, ge25519_frombytes(q).h)))

EdClamped(n, clamp) == IF clamp THEN Clamped(n) ELSE n % Half

(* It is the identity whatever its sign, or the scalar was zero.           *)
IsInf(q) == q % Half = 1

crypto_scalarmult_ed25519(n, p, clamp) ==
    LET q == ge25519_p3_tobytes(ge25519_scalarmult(EdClamped(n, clamp), ge25519_frombytes(p).h))
    IN  IF ~OnMainSubgroup(p) THEN Refused ELSE Unless(IsInf(q) \/ n = 0, q)

crypto_scalarmult_ed25519_base(n, clamp) ==
    LET q == ge25519_p3_tobytes(ge25519_scalarmult_base(EdClamped(n, clamp)))
    IN  Unless(IsInf(q) \/ n = 0, q)

(* core_ristretto255.c and scalarmult_ristretto255_ref10.c                 *)
crypto_core_ristretto255_add(p, q) ==
    LET a == ristretto255_frombytes(p)
        b == ristretto255_frombytes(q)
    IN  IF a.ret # 0 \/ b.ret # 0 THEN Refused
        ELSE Unless(FALSE, ristretto255_p3_tobytes(ge25519_p3_add(a.h, b.h)))

crypto_core_ristretto255_sub(p, q) ==
    LET a == ristretto255_frombytes(p)
        b == ristretto255_frombytes(q)
    IN  IF a.ret # 0 \/ b.ret # 0 THEN Refused
        ELSE Unless(FALSE, ristretto255_p3_tobytes(ge25519_p3_sub(a.h, b.h)))

crypto_scalarmult_ristretto255(n, p) ==
    LET a == ristretto255_frombytes(p)
        q == ristretto255_p3_tobytes(ge25519_scalarmult(n % Half, a.h))
    IN  IF a.ret # 0 THEN Refused ELSE Unless(q = 0, q)

crypto_scalarmult_ristretto255_base(n) ==
    LET q == ristretto255_p3_tobytes(ge25519_scalarmult_base(n % Half)) IN Unless(q = 0, q)

-----------------------------------------------------------------------------
(* Signatures: az is the key hashed, nonce and hram the two other hashes.  *)
PublicKey(az) == ge25519_p3_tobytes(ge25519_scalarmult_base(Clamped(az)))

crypto_sign_ed25519_detached(az, nonce, hram) ==
    [R |-> ge25519_p3_tobytes(ge25519_scalarmult_base(nonce % L)),
     S |-> ((hram % L) * (Clamped(az) % L) + (nonce % L)) % L]

crypto_sign_ed25519_verify_detached(R, S, pk, hram) ==
    LET a        == ge25519_frombytes_negate_vartime(pk)
        expected == ge25519_frombytes(R)
        sb_ah    == ge25519_p2_to_p3(ge25519_double_scalarmult_vartime(hram % L, a.h, S))
    IN  IF \/ S >= 2 ^ (8 * N - 4) /\ S >= L
           \/ ~ge25519_is_canonical(pk)
           \/ a.ret # 0 \/ ge25519_has_small_order(a.h)
           \/ expected.ret # 0 \/ ge25519_has_small_order(expected.h)
        THEN -1
        ELSE IF ge25519_has_small_order(ge25519_p3_sub(expected.h, sb_ah)) THEN 0 ELSE -1

crypto_sign_ed25519_pk_to_curve25519(pk) ==
    LET a == ge25519_frombytes_negate_vartime(pk)
    IN  IF a.ret # 0 \/ ge25519_has_small_order(a.h) \/ ~ge25519_is_on_main_subgroup(a.h) THEN Refused
        ELSE Unless(FALSE, Mul(Add(1, a.h.Y), fe25519_invert(Sub(1, a.h.Y))))

-----------------------------------------------------------------------------
Return(result) == mem' = result /\ at' = "returned" /\ UNCHANGED input

(* The i-th multiple of the generator, in the coordinates of the code      *)
(* with any z.                                                             *)
Multiple(i) == Multiples[(i % (8 * L)) + 1]
Point(i, z) == LET q == Multiple(i) IN p3(Mul(q[1], z), Mul(q[2], z), z, Mul(Mul(q[1], q[2]), z))
Encoding(i) == LET q == Multiple(i) IN q[2] + (IF q[1] % 2 = 1 THEN Half ELSE 0)

AddPoints ==
    /\ input.call = "points"
    /\ LET p == Point(input.i, input.z)
           q == Point(input.j, 1 + (input.z % 7))
       IN  Return([add |-> ge25519_p3_add(p, q), sub |-> ge25519_p3_sub(p, q), dbl |-> ge25519_p3p3_dbl(p),
                   dbladd |-> ge25519_p3_dbladd(p, 3, q), clear |-> ge25519_clear_cofactor(p),
                   bytes |-> ge25519_p3_tobytes(p), small |-> ge25519_has_small_order(p),
                   main |-> ge25519_is_on_main_subgroup(p),
                   on |-> {x \in {p.X, q.X, 1} : ge25519_is_on_curve(p3(x, p.Y, p.Z, p.T))},
                   ristretto |-> <<ristretto255_p3_tobytes(p), ristretto255_p3_tobytes(q)>>])

Decode ==
    /\ input.call = "decode"
    /\ Return([ed |-> ge25519_frombytes(input.s), vartime |-> ge25519_frombytes_negate_vartime(input.s),
               canonical |-> ge25519_is_canonical(input.s), ristretto |-> ristretto255_frombytes(input.s)])

Multiply ==
    /\ input.call = "multiply"
    /\ Return([single |-> ge25519_scalarmult(input.a, Point(input.i, input.b + 1)),
               base |-> ge25519_scalarmult_base(input.a),
               double |-> ge25519_double_scalarmult_vartime(input.a % L, Point(input.i, 1), input.b)])

Map ==
    /\ input.call = "map"
    /\ Return([uniform |-> ge25519_from_uniform(input.lo), hash |-> ge25519_from_hash(input.lo, input.hi),
               field |-> fe25519_reduce64(input.lo, input.hi), ristretto |-> ristretto255_from_hash(input.lo, input.hi)])

Agree ==
    /\ input.call = "agree"
    /\ LET one == crypto_scalarmult_curve25519(input.a, input.s)
           two == crypto_scalarmult_curve25519(input.b, input.s)
       IN  Return([one |-> one, two |-> two, onetwo |-> crypto_scalarmult_curve25519(input.b, one.q),
                   twoone |-> crypto_scalarmult_curve25519(input.a, two.q),
                   base |-> crypto_scalarmult_curve25519_base(input.a),
                   nine |-> crypto_scalarmult_curve25519(input.a, edwards_to_montgomery(Base[2], 1)),
                   key |-> crypto_sign_ed25519_pk_to_curve25519(PublicKey(input.a))])

Encoded ==
    /\ input.call = "encoded"
    /\ Return([valid |-> crypto_core_ed25519_is_valid_point(input.p),
               add |-> crypto_core_ed25519_add(input.p, input.q), sub |-> crypto_core_ed25519_sub(input.p, input.q),
               mult |-> crypto_scalarmult_ed25519(input.n, input.p, input.clamp),
               base |-> crypto_scalarmult_ed25519_base(input.n, input.clamp)])

EncodedRistretto ==
    /\ input.call = "ristretto"
    /\ LET p == ristretto255_p3_tobytes(Point(2 * input.i, 1))
           q == ristretto255_p3_tobytes(Point(2 * input.j, 1))
       IN  Return([add |-> crypto_core_ristretto255_add(p, q), sub |-> crypto_core_ristretto255_sub(p, q),
                   mult |-> crypto_scalarmult_ristretto255(input.n, p),
                   base |-> crypto_scalarmult_ristretto255_base(input.n)])

SignAndVerify ==
    /\ input.call = "sign"
    /\ LET sig == crypto_sign_ed25519_detached(input.az, input.nonce, input.hram)
           verify(R, S, h) == crypto_sign_ed25519_verify_detached(R, S, PublicKey(input.az), h)
       IN  Return([sig |-> sig, ret |-> verify(sig.R, sig.S, input.hram),
                   others |-> {S \in {sig.S + L, sig.S + 1, 0, sig.S + 2 * L} : verify(sig.R, S, input.hram) = 0}])

Verify ==
    /\ input.call = "verify"
    /\ Return(crypto_sign_ed25519_verify_detached(Encoding(input.r), input.S, Encoding(input.i), input.h))

Next ==
    /\ at = "called"
    /\ \/ AddPoints
       \/ Decode
       \/ Multiply
       \/ Map
       \/ Agree
       \/ Encoded
       \/ EncodedRistretto
       \/ SignAndVerify
       \/ Verify

-----------------------------------------------------------------------------
(* Properties.                                                             *)

Is(p, i) ==
    LET q == Multiple(i)
    IN  /\ p.Z # 0
        /\ p.X = Mul(q[1], p.Z) /\ p.Y = Mul(q[2], p.Z) /\ Mul(p.X, p.Y) = Mul(p.T, p.Z)

IsP2(p, i) == p.Z # 0 /\ p.X = Mul(Multiple(i)[1], p.Z) /\ p.Y = Mul(Multiple(i)[2], p.Z)

(* The coordinates follow the group law, points of small order and points  *)
(* outside of the main subgroup included; an encoding does not depend on   *)
(* the coordinates, and a Ristretto one not on the torsion of the point.   *)
CoordinatesFollowTheLaw ==
    at = "returned" /\ input.call = "points" =>
        /\ Is(mem.add, input.i + input.j) /\ Is(mem.sub, input.i - input.j)
        /\ Is(mem.dbl, 2 * input.i) /\ Is(mem.dbladd, 8 * input.i + input.j)
        /\ Is(mem.clear, 8 * input.i)
        /\ mem.bytes = Encoding(input.i)
        /\ mem.small <=> input.i % L = 0
        /\ mem.main <=> input.i % 8 = 0
        /\ Point(input.i, input.z).X \in mem.on
        /\ \A x \in mem.on : Sq(x) = Sq(Point(input.i, input.z).X)
        /\ input.i % 2 = 0 /\ input.j % 2 = 0 =>
              (mem.ristretto[1] = mem.ristretto[2] <=> (input.i - input.j) % (2 * L) = 0)

(* Exactly the y of points are decoded; what is decoded is a point, with   *)
(* the sign that was asked for, and encodes to the same bytes unless they  *)
(* were not canonical.  A Ristretto encoding is always the only one.       *)
DecodingInvertsEncoding ==
    at = "returned" /\ input.call = "decode" =>
        LET y == fe25519_frombytes(input.s)
            h == mem.ed.h
            r == mem.ristretto
        IN  /\ mem.ed.ret = mem.vartime.ret
            /\ mem.ed.ret = 0 <=> Power(Mul(NumOfX(y), DenOfX(y)), (P - 1) \div 2) # P - 1
            /\ mem.ed.ret = 0 =>
                  /\ ge25519_is_on_curve(h) /\ h.T = Mul(h.X, h.Y) /\ h.Y = y
                  /\ ge25519_p3_neg(h) = mem.vartime.h
                  /\ ge25519_p3_tobytes(h) = input.s <=> mem.canonical /\ ~(h.X = 0 /\ Sign(input.s) = 1)
            /\ mem.canonical <=> input.s % Half < P
            /\ r.ret = 0 =>
                  /\ ristretto255_p3_tobytes(r.h) = input.s
                  /\ ge25519_is_on_curve(r.h) /\ r.h.T = Mul(r.h.X, r.h.Y)

(* Every way to multiply adds as many times as the scalar says.            *)
MultiplicationIsRepeatedAddition ==
    at = "returned" /\ input.call = "multiply" =>
        /\ Is(mem.single, input.a * input.i)
        /\ Is(mem.base, 8 * input.a)
        /\ IsP2(mem.double, (input.a % L) * input.i + 8 * input.b)

(* Whatever the bytes, the map to points neither aborts nor leaves the     *)
(* main subgroup, and a Ristretto hash can be decoded.                     *)
MapsReachTheGroup ==
    at = "returned" /\ input.call = "map" =>
        /\ ~mem.uniform.aborts /\ ~mem.hash.aborts
        /\ \A s \in {mem.uniform.s, mem.hash.s} :
              ge25519_frombytes(s).ret = 0 /\ ge25519_is_on_main_subgroup(ge25519_frombytes(s).h)
        /\ mem.field = (input.lo + 38 * input.hi) % P
        /\ ristretto255_frombytes(mem.ristretto).ret = 0

(* Both ends of an exchange get one secret, and never zero, whatever the   *)
(* other's key is; what is refused has small order on the curve or on its  *)
(* twist.  Keys of signatures convert to keys of exchanges.                *)
SecretsAgree ==
    at = "returned" /\ input.call = "agree" =>
        LET u == fe25519_frombytes(input.s)
        IN  /\ mem.one.ret = mem.two.ret
            /\ mem.one.ret = 0 =>
                  mem.onetwo.ret = 0 /\ mem.onetwo = mem.twoone /\ mem.one.q # 0 /\ mem.two.q # 0
            /\ mem.one.ret = -1 <=> u \in {0, 1, P - 1} \cup Order8
            /\ mem.nine.q = mem.base /\ mem.key = Unless(FALSE, mem.base)

(* The interfaces accept what is in their group and compute its law on     *)
(* encodings: ip and iq are the points the encodings stand for.            *)
InterfacesFollowTheLaw ==
    at = "returned" /\ input.call = "encoded" =>
        LET n == EdClamped(input.n, input.clamp)
            known == input.ip >= 0 /\ input.iq >= 0
            inf(i) == i % (8 * L) = 0 \/ input.n = 0
        IN  /\ known =>
                  /\ mem.add = Unless(FALSE, Encoding(input.ip + input.iq))
                  /\ mem.sub = Unless(FALSE, Encoding(input.ip - input.iq))
            /\ mem.valid => input.ip >= 0
            /\ mem.valid <=> input.ip % 8 = 0 /\ input.ip % (8 * L) # 0 /\ input.p = Encoding(input.ip)
            /\ mem.mult = IF mem.valid THEN Unless(inf(n * input.ip), Encoding(n * input.ip)) ELSE Refused
            /\ mem.base = Unless(inf(8 * n), Encoding(8 * n))

RistrettoEncoding(i) == ristretto255_p3_tobytes(Point(i, 1))

RistrettoFollowsTheLaw ==
    at = "returned" /\ input.call = "ristretto" =>
        LET n == input.n % Half
            Mult(i) == Unless(i % L = 0, RistrettoEncoding(2 * i))
        IN  /\ mem.add = Unless(FALSE, RistrettoEncoding(2 * (input.i + input.j)))
            /\ mem.sub = Unless(FALSE, RistrettoEncoding(2 * (input.i - input.j)))
            /\ mem.mult = Mult(n * input.i)
            /\ mem.base = Mult(4 * n)

(* What was signed verifies, and no other number below 2^(8N) can take the *)
(* place of S; in general what verifies are the solutions of the equation  *)
(* of RFC 8032 up to a point of order 4, with points that are not of small *)
(* order.  (A difference of order 8 is refused: ge25519_p2_to_p3() does    *)
(* not divide T by Z, and only the test of the other orders ignores T.)    *)
SignaturesVerify ==
    /\ at = "returned" /\ input.call = "sign" =>
          /\ mem.sig.S \in 0 .. (L - 1)
          /\ mem.ret = 0 <=> input.nonce % L # 0
          /\ mem.others = {}
    /\ at = "returned" /\ input.call = "verify" =>
          (mem = 0 <=> /\ input.S < L /\ input.i % L # 0 /\ input.r % L # 0
                       /\ (8 * input.S - (input.h % L) * input.i - input.r) % (2 * L) = 0)

CurvesFollowTheLaw ==
    /\ CoordinatesFollowTheLaw
    /\ DecodingInvertsEncoding
    /\ MultiplicationIsRepeatedAddition
    /\ MapsReachTheGroup
    /\ SecretsAgree
    /\ InterfacesFollowTheLaw
    /\ RistrettoFollowsTheLaw
    /\ SignaturesVerify
=============================================================================
