------------------------------- MODULE MlDsa -------------------------------
(***************************************************************************)
(* ML-DSA-44 (mldsa44_ref) with a smaller field: 2^11 - 2^5 + 1 for        *)
(* 2^23 - 2^13 + 1, words of 17 bits for 32, N = 8 coefficients for 256.   *)
(* Each layer of a transform adds 2 * Q to a coefficient: words hold Q *   *)
(* W / Q = 64 of a product of two, 7 * 7, as they do 512 of 17 * 17.       *)
(***************************************************************************)
EXTENDS PolyBytes

CONSTANTS
    zetas,          \* powers of a root of unity times W, 0 .. N - 1
    MaxIterations   \* 821: the attempts at a signature

VARIABLES input, at, mem

Q    == 2017
W    == 2 ^ 17      \* 2^32
QINV == 99295
f    == 1901         \* 41978
ETA  == 2
D    == 6           \* 13
TAU  == 3           \* 39
BETA == TAU * ETA
GAMMA1 == 256       \* 2^17
GAMMA2 == 72        \* (Q - 1) / 88
Highest == 13       \* 43
OMEGA   == 4        \* 80
ContextMax == 2     \* 255

Word(x) == x % W
Top(x)  == Word(x) \div (W \div 2)      \* the sign bit of a word

-----------------------------------------------------------------------------
montgomery_reduce(a) ==
    LET t == Word((a % 512) * QINV + (((Word(a) \div 512) * QINV) % 256) * 512)      \* of 32 bits here
    IN  Word((a + t * Q) \div W)

reduce_le2q(a) == (a % 2048) + 31 * (a \div 2048)
csubq(a)       == Word(a - Q + Top(a - Q) * Q)

NttLayer(r, len) ==
    LET t(j) == montgomery_reduce(zetas[N \div (2 * len) + j \div (2 * len)] * r[j])
    IN  Stored([j \in Coefs |-> IF (j \div len) % 2 = 0 THEN Word(r[j] + t(j + len)) ELSE Word(r[j - len] + 2 * Q - t(j))])

poly_ntt(r) ==
    LET after[len \in Nat] == IF len = N THEN r ELSE NttLayer(after[2 * len], len)
    IN  after[1]

InvLayer(r, len) ==
    LET zeta(j) == Q - zetas[N \div len - 1 - j \div (2 * len)]
    IN  Stored([j \in Coefs |->
            IF (j \div len) % 2 = 0 THEN Word(r[j] + r[j + len])
            ELSE montgomery_reduce(zeta(j) * Word(r[j - len] + N * Q - r[j]))])

poly_invntt(r) ==
    LET after[len \in Nat] == IF len = 0 THEN r ELSE InvLayer(after[len \div 2], len)
    IN  Stored([j \in Coefs |-> montgomery_reduce(f * after[N \div 2][j])])

poly_basemul(a, b) == Stored([j \in Coefs |-> montgomery_reduce(a[j] * b[j])])
poly_reduce(r)     == Stored([j \in Coefs |-> reduce_le2q(r[j])])
poly_csubq(r)      == Stored([j \in Coefs |-> csubq(r[j])])
poly_add(a, b)     == Stored([j \in Coefs |-> Word(a[j] + b[j])])
poly_sub(a, b)     == Stored([j \in Coefs |-> Word(a[j] + 2 * Q - b[j])])
poly_shiftl(r)     == Stored([j \in Coefs |-> Word(r[j] * 2 ^ D)])

Within(a, bound) ==
    LET d == Word((Q - 1) \div 2 - a)
        t == Word((Q - 1) \div 2 - (IF Top(d) = 1 THEN W - 1 - d ELSE d))
    IN  Top(bound - 1 - t) = 0
poly_chknorm(r, bound) == \A j \in Coefs : Within(r[j], bound)

power2round(a) ==
    LET t0 == (a % 2 ^ D) - 2 ^ (D - 1) - 1
        t  == t0 + Top(t0) * 2 ^ D - 2 ^ (D - 1) + 1
    IN  [low |-> Word(Q + t), high |-> (a - t) \div 2 ^ D]

decompose(a) ==
    LET r1 == ((((a + 7) \div 8) * 455) + 4096) \div 8192
        a1 == IF Top(Highest - r1) = 1 THEN 0 ELSE r1
        a0 == Word(a - a1 * 2 * GAMMA2)
    IN  [high |-> a1, low |-> Word(a0 + Top(a0 - (Q - 1) \div 2) * Q)]

(* Mutant: no case of its own for the lowest low part.                     *)
MakeHintWithoutTheEdge(a0, a1) == IF Top(GAMMA2 - a0) = 0 \/ Top(Q - GAMMA2 - a0) = 1 THEN 0 ELSE 1

make_hint(a0, a1) ==
    IF Top(GAMMA2 - a0) = 0 \/ Top(Q - GAMMA2 - a0) = 1 \/ (a0 = Q - GAMMA2 /\ a1 = 0) THEN 0 ELSE 1

use_hint(a, hint) ==
    LET r == decompose(a)
    IN  IF hint = 0 THEN r.high
        ELSE IF r.low > Q THEN (IF r.high = Highest THEN 0 ELSE r.high + 1)
        ELSE IF r.high = 0 THEN Highest ELSE r.high - 1

-----------------------------------------------------------------------------
polyvec_ntt(v)    == EachPoly(poly_ntt, v)
polyvec_invntt(v) == EachPoly(poly_invntt, v)
polyvec_reduce(v) == EachPoly(poly_reduce, v)
polyvec_csubq(v)  == EachPoly(poly_csubq, v)
polyvec_shiftl(v) == EachPoly(poly_shiftl, v)
polyvec_add(v, w) == EachPair(poly_add, v, w)
polyvec_sub(v, w) == EachPair(poly_sub, v, w)
polyvec_basemul_poly(a, v) == Stored([i \in Vec |-> poly_basemul(a, v[i])])
polyvec_basemul_acc(v, w)  ==
    LET sum[i \in Nat] == IF i = 0 THEN poly_basemul(v[0], w[0]) ELSE poly_add(sum[i - 1], poly_basemul(v[i], w[i]))
    IN  poly_reduce(sum[K - 1])

polyvec_chknorm(v, bound) == \A i \in Vec : poly_chknorm(v[i], bound)
High(r) == Stored([j \in Coefs |-> r[j].high])
Low(r)  == Stored([j \in Coefs |-> r[j].low])
poly_power2round(r) == LET s == Stored([j \in Coefs |-> power2round(r[j])]) IN [high |-> High(s), low |-> Low(s)]
poly_decompose(r)   == LET s == Stored([j \in Coefs |-> decompose(r[j])]) IN [high |-> High(s), low |-> Low(s)]
polyvec_make_hint(w0, w1) == Stored([i \in Vec |-> Stored([j \in Coefs |-> make_hint(w0[i][j], w1[i][j])])])
polyvec_use_hint(v, h)    == Stored([i \in Vec |-> Stored([j \in Coefs |-> use_hint(v[i][j], h[i][j])])])
Ones(h) == Cardinality({p \in Vec \X Coefs : h[p[1]][p[2]] = 1})

(* Centred coefficients are packed as their distance below a bound.        *)
poly_pack_eta(r)   == Packed([j \in Coefs |-> Q + ETA - r[j]], 3)
poly_unpack_eta(b) ==
    LET t == Unpacked(b, 3)
    IN  [bad |-> \E j \in Coefs : t[j] > 2 * ETA, poly |-> Stored([j \in Coefs |-> Q + ETA - t[j]])]
poly_pack_t1(r)    == Packed(r, 11 - D)
poly_unpack_t1(b)  == Unpacked(b, 11 - D)
poly_pack_t0(r)    == Packed([j \in Coefs |-> Q + 2 ^ (D - 1) - r[j]], D)
poly_unpack_t0(b)  == LET t == Unpacked(b, D) IN Stored([j \in Coefs |-> Q + 2 ^ (D - 1) - t[j]])
FromGamma1(t)      == Word(GAMMA1 - t + Top(GAMMA1 - t) * Q)
poly_pack_z(r)     == Packed([j \in Coefs |-> FromGamma1(r[j])], 9)
poly_unpack_z(b)   == LET t == Unpacked(b, 9) IN Stored([j \in Coefs |-> FromGamma1(t[j])])
poly_pack_w1(r)    == Packed(r, 4)

(* The places of the ones, then for each polynomial where its own end.     *)
polyvec_pack_hint(h) ==
    LET places(i) == SetToSortSeq({j \in Coefs : h[i][j] = 1}, <)
        all       == FlattenSeq([i \in 1 .. K |-> places(i - 1)])
        ends      == [i \in 1 .. K |-> Cardinality({p \in (0 .. (i - 1)) \X Coefs : h[p[1]][p[2]] = 1})]
    IN  all \o [j \in 1 .. (OMEGA - Len(all)) |-> 0] \o ends

polyvec_unpack_hint(a) ==
    LET end(i) == IF i = 0 THEN 0 ELSE a[OMEGA + i]
        own(i) == end(i) + 1 .. end(i + 1)
        good   == /\ \A i \in Vec : end(i) <= end(i + 1) /\ end(i + 1) <= OMEGA
                  /\ \A i \in Vec : \A j \in own(i) : j > end(i) + 1 => a[j] > a[j - 1]
                  /\ \A j \in end(K) + 1 .. OMEGA : a[j] = 0
    IN  IF ~good THEN [ret |-> -1]
        ELSE [ret |-> 0, h |-> Stored([i \in Vec |-> Stored([c \in Coefs |-> IF \E j \in own(i) : a[j] = c THEN 1 ELSE 0])])]

-----------------------------------------------------------------------------
(* The first draws that are in range, however many are squeezed.           *)
Drawn(seed, m, Good(_), Of(_)) ==
    LET good == SelectSeq([k \in 1 .. (4 * N) |-> Draw(seed, k, m)], Good)
    IN  Stored([j \in Coefs |-> Of(good[j + 1])])

poly_getnoise_eta(seed, nonce) ==
    Drawn(Digest(<<seed, nonce>>), 16, LAMBDA t : t < 15, LAMBDA t : Q + ETA - (t - ((205 * t) \div 1024) * 5))

rej_uniform(seed) == Drawn(seed, 2048, LAMBDA t : t < Q, LAMBDA t : t)
gen_matrix(seed)  == Stored([i \in Vec |-> Stored([j \in Vec |-> rej_uniform(Digest(<<seed, j, i>>))])])

poly_uniform_gamma1(seed, nonce) == poly_unpack_z([i \in 0 .. (PackedSize(9) - 1) |-> Draw(Digest(<<seed, nonce>>), i, 256)])
polyvec_uniform_gamma1(seed, nonce) == Stored([i \in Vec |-> poly_uniform_gamma1(seed, nonce + i)])

(* A polynomial of TAU ones, of either sign, by a shuffle.                 *)
poly_challenge(seed) ==
    LET signs      == Draw(seed, 0, 2 ^ TAU)
        b(pos)     == Draw(seed, pos, N)
        Next(p, i) == CHOOSE k \in p + 1 .. p + 9 * N : b(k) <= i /\ \A l \in p + 1 .. k - 1 : b(l) > i
        sign(k)    == IF (signs \div 2 ^ k) % 2 = 1 THEN Q - 1 ELSE 1
        after[k \in Nat] ==
            IF k = 0 THEN [c |-> Stored([j \in Coefs |-> 0]), pos |-> 0]
            ELSE LET i   == N - TAU + k - 1
                     pos == Next(after[k - 1].pos, i)
                 IN  [c |-> [after[k - 1].c EXCEPT ![i] = after[k - 1].c[b(pos)], ![b(pos)] = sign(k - 1)], pos |-> pos]
    IN  after[TAU].c

PkDigest(pk)              == Digest(<<pk.rho, VecDigest(pk.t1, 11 - D)>>)
hash_message(tr, ctx, m)  == Digest(<<tr, 0, Len(ctx)>> \o ctx \o m)
hash_w1(digest, w1)       == Digest(<<digest, VecDigest(EachPoly(poly_pack_w1, w1), 4)>>)

-----------------------------------------------------------------------------
Times(mat, v) == Stored([i \in Vec |-> polyvec_basemul_acc(mat[i], v)])

seed_keypair(seed) ==
    LET rho == Digest(<<seed, K, K, 1>>)
        s(k) == Stored([i \in Vec |-> poly_getnoise_eta(Digest(<<seed, K, K, 2>>), k + i)])
        t   == polyvec_csubq(polyvec_reduce(polyvec_add(polyvec_invntt(Times(gen_matrix(rho), polyvec_ntt(s(0)))), s(K))))
        r   == EachPoly(poly_power2round, t)
        pk  == [rho |-> rho, t1 |-> Stored([i \in Vec |-> poly_pack_t1(r[i].high)])]
    IN  [pk |-> pk,
         sk |-> [rho |-> rho, key |-> Digest(<<seed, K, K, 3>>), tr |-> PkDigest(pk),
                 s1 |-> EachPoly(poly_pack_eta, s(0)), s2 |-> EachPoly(poly_pack_eta, s(K)),
                 t0 |-> Stored([i \in Vec |-> poly_pack_t0(r[i].low)])]]

Secrets(packed) ==
    LET v == EachPoly(poly_unpack_eta, packed)
    IN  [bad |-> \E i \in Vec : v[i].bad, vec |-> Stored([i \in Vec |-> v[i].poly])]

ZeroedSignature ==
    [ctilde |-> 0, z |-> Stored([i \in Vec |-> Stored([j \in 0 .. (PackedSize(9) - 1) |-> 0])]), h |-> [i \in 1 .. (OMEGA + K) |-> 0]]

(* One turn of the loop: a signature, or none if a norm or the number of   *)
(* hints would tell something or could not be verified.                    *)
SignOnce(sk, digest, rhoprime, n) ==
    LET y  == polyvec_uniform_gamma1(rhoprime, n * K)
        w  == EachPoly(poly_decompose, polyvec_csubq(polyvec_invntt(Times(gen_matrix(sk.rho), polyvec_ntt(y)))))
        w1 == Stored([i \in Vec |-> w[i].high])
        ctilde == hash_w1(digest, w1)
        cp == poly_ntt(poly_challenge(ctilde))
        c(v) == polyvec_invntt(polyvec_basemul_poly(cp, polyvec_ntt(v)))
        w0 == polyvec_csubq(polyvec_reduce(polyvec_sub(Stored([i \in Vec |-> w[i].low]), c(Secrets(sk.s2).vec))))
        z  == polyvec_csubq(polyvec_reduce(polyvec_add(c(Secrets(sk.s1).vec), y)))
        ct0 == polyvec_csubq(c(EachPoly(poly_unpack_t0, sk.t0)))
        h   == polyvec_make_hint(polyvec_csubq(polyvec_add(w0, ct0)), w1)
    IN  IF ~polyvec_chknorm(w0, GAMMA2 - BETA) \/ ~polyvec_chknorm(z, GAMMA1 - BETA)
            \/ ~polyvec_chknorm(ct0, GAMMA2) \/ Ones(h) > OMEGA THEN {}
        ELSE {[ctilde |-> ctilde, z |-> EachPoly(poly_pack_z, z), h |-> polyvec_pack_hint(h)]}

verify_detached(sig, m, ctx, pk) ==
    LET z   == EachPoly(poly_unpack_z, sig.z)
        h   == polyvec_unpack_hint(sig.h)
        digest == hash_message(PkDigest(pk), ctx, m)
        cp  == poly_ntt(poly_challenge(sig.ctilde))
        t1  == polyvec_ntt(polyvec_shiftl(EachPoly(poly_unpack_t1, pk.t1)))
        w   == polyvec_sub(Times(gen_matrix(pk.rho), polyvec_ntt(z)), polyvec_basemul_poly(cp, t1))
        w1  == polyvec_use_hint(polyvec_csubq(polyvec_invntt(polyvec_reduce(w))), h.h)
    IN  IF Len(ctx) > ContextMax \/ ~polyvec_chknorm(z, GAMMA1 - BETA) \/ h.ret # 0 THEN -1
        ELSE IF hash_w1(digest, w1) = sig.ctilde THEN 0 ELSE -1

-----------------------------------------------------------------------------
Return(result) == mem' = result /\ at' = "returned" /\ UNCHANGED input

Coefficient ==
    /\ input.call = "coefficient" /\ at = "called"
    /\ LET a == input.a
           r == decompose(a)
       IN  Return([montgomery |-> montgomery_reduce(a * input.b), reduced |-> reduce_le2q(input.b),
                   power |-> power2round(a), parts |-> r, within |-> Within(a, GAMMA2 - BETA),
                   hinted |-> use_hint(csubq(a + csubq(input.change + Q)), make_hint(csubq(reduce_le2q(r.low + input.change + Q)), r.high))])

Multiply ==
    /\ input.call = "multiply" /\ at = "called"
    /\ Return([product |-> poly_csubq(poly_invntt(poly_basemul(poly_ntt(input.a), poly_ntt(input.b))))])

Hint ==
    /\ input.call = "hint" /\ at = "called"
    /\ Return(polyvec_unpack_hint(input.h))

KeyPair ==
    /\ input.call = "sign" /\ at = "called"
    /\ mem' = [pair |-> seed_keypair(input.seed)] /\ at' = "keyed" /\ UNCHANGED input

Signed(result) == mem' = [pair |-> mem.pair] @@ result /\ at' = "signed" /\ UNCHANGED input
SignFails      == Signed([ret |-> -1, sig |-> ZeroedSignature, siglen |-> 0])

(* The application's secret key may be damaged.                            *)
SignBegins ==
    /\ at = "keyed"
    /\ LET sk == IF input.damaged THEN [mem.pair.sk EXCEPT !.s2[0][0] = 255] ELSE mem.pair.sk
           digest == hash_message(sk.tr, input.ctx, input.m)
       IN  IF Len(input.ctx) > ContextMax \/ Secrets(sk.s1).bad \/ Secrets(sk.s2).bad THEN SignFails
           ELSE /\ mem' = [pair |-> mem.pair, n |-> 0, digest |-> digest, rhoprime |-> Digest(<<sk.key, input.random, digest>>)]
                /\ at' = "signing" /\ UNCHANGED input

SignTurn ==
    /\ at = "signing" /\ mem.n < MaxIterations
    /\ LET found == SignOnce(mem.pair.sk, mem.digest, mem.rhoprime, mem.n)
       IN  \/ found = {} /\ mem' = [mem EXCEPT !.n = @ + 1] /\ UNCHANGED <<input, at>>
           \/ \E sig \in found : Signed([ret |-> 0, sig |-> sig, siglen |-> 1])

SignGivesUp == at = "signing" /\ mem.n = MaxIterations /\ SignFails

(* What else may be presented: another message, the end of the context     *)
(* moved, and a signature changed anywhere.                                *)
Others(sig) ==
    {[sig |-> sig, m |-> m, ctx |-> input.ctx] : m \in {<<>>, Append(input.m, 0), <<input.m[1] + 1>> \o Tail(input.m)}}
        \cup {[sig |-> sig, m |-> Tail(input.m), ctx |-> Append(input.ctx, input.m[1])]}
        \cup {[sig |-> s, m |-> input.m, ctx |-> input.ctx] :
                 s \in {[sig EXCEPT !.ctilde = (@ + 1) % 65521], ZeroedSignature}
                         \cup {[sig EXCEPT !.z[i][j] = (@ + c) % 256] : i \in Vec, j \in {0, 8}, c \in {1, 128}}
                         \cup {[sig EXCEPT !.h[i] = (@ + 1) % N] : i \in 1 .. (OMEGA + K)}}

Verify ==
    /\ at = "signed"
    /\ mem' = mem @@ [verified |-> verify_detached(mem.sig, input.m, input.ctx, mem.pair.pk),
                      others   |-> {o \in Others(mem.sig) : verify_detached(o.sig, o.m, o.ctx, mem.pair.pk) = 0}]
    /\ at' = "returned" /\ UNCHANGED input

Next ==
    \/ Coefficient \/ Multiply \/ Hint
    \/ KeyPair \/ SignBegins \/ SignTurn \/ SignGivesUp \/ Verify

-----------------------------------------------------------------------------
Centred(x) == IF x % Q > (Q - 1) \div 2 THEN (x % Q) - Q ELSE x % Q

(* Rounding takes a number apart, a hint gives back the high part before a *)
(* small change, packed hints are the only ones read; what is signed is    *)
(* verified and nothing else is, and a signature that fails is all zeros.  *)
SignaturesVerify ==
    /\ at = "returned" /\ input.call = "coefficient" =>
          LET a   == input.a
              low == a - mem.parts.high * 2 * GAMMA2
          IN  /\ (mem.montgomery * W) % Q = (a * input.b) % Q /\ mem.montgomery < 2 * Q
              /\ mem.reduced % Q = input.b % Q /\ mem.reduced < 2 * Q
              /\ a = mem.power.high * 2 ^ D + (mem.power.low - Q)
              /\ mem.power.low - Q \in -(2 ^ (D - 1)) + 1 .. 2 ^ (D - 1)
              /\ mem.parts.high \in 0 .. Highest /\ mem.parts.low - Q \in -GAMMA2 .. GAMMA2
              /\ (mem.parts.low - low) % Q = 0
              /\ mem.within <=> Centred(a) \in -(GAMMA2 - BETA) + 1 .. GAMMA2 - BETA - 1
              /\ mem.parts.low - Q \in -(GAMMA2 - BETA) + 1 .. GAMMA2 - BETA - 1 => mem.hinted = mem.parts.high
    /\ at = "returned" /\ input.call = "multiply" => mem.product = Product(input.a, input.b, Q)
    /\ at = "returned" /\ input.call = "hint" /\ mem.ret = 0 => polyvec_pack_hint(mem.h) = input.h
    /\ at = "returned" /\ input.call = "sign" =>
          /\ mem.ret = 0 <=> mem.verified = 0
          /\ mem.ret = -1 => mem.sig = ZeroedSignature /\ mem.siglen = 0
          /\ mem.others = {}
=============================================================================
