------------------------------- MODULE MlKem -------------------------------
(***************************************************************************)
(* ML-KEM-768 (mlkem768_ref), with the real modulus, words and reductions, *)
(* and polynomials of N coefficients.  SHAKE and SHA-3 are a digest and a  *)
(* stream of draws from it; the keys they output are kept as terms.        *)
(***************************************************************************)
EXTENDS PolyBytes

CONSTANTS
    zetas,     \* powers of a root of unity, as N / 2 numbers from 0
    Half       \* 1441: 2^32 divided by N / 2, modulo Q

VARIABLES input, at, mem

Q == 3329
S16(x) == ((x + 32768) % 65536) - 32768
-----------------------------------------------------------------------------
montgomery_reduce(a) ==
    LET t == S16((a % 65536) * (62209 - 65536))
    IN  S16((a - t * Q) \div 65536)

barrett_reduce(a) == S16(a - S16((a * 20159) \div 2 ^ 26) * Q)
csubq(a) == (a - Q) + (IF a < Q THEN Q ELSE 0)

NttLayer(r, len) ==
    LET t(j) == montgomery_reduce(zetas[N \div (2 * len) + j \div (2 * len)] * r[j])
    IN  Stored([j \in Coefs |-> IF (j \div len) % 2 = 0 THEN S16(r[j] + t(j + len)) ELSE S16(r[j - len] - t(j))])

poly_ntt(poly) ==
    LET after[len \in Nat] == IF len = N THEN poly ELSE NttLayer(after[2 * len], len)
    IN  after[2]

InvLayer(r, len) ==
    LET zeta(j) == zetas[N \div len - 1 - j \div (2 * len)]
    IN  Stored([j \in Coefs |->
            IF (j \div len) % 2 = 0 THEN barrett_reduce(S16(r[j] + r[j + len]))
            ELSE montgomery_reduce(zeta(j) * (r[j] - r[j - len]))])

poly_invntt(poly) ==
    LET after[len \in Nat] == IF len = 1 THEN poly ELSE InvLayer(after[len \div 2], len)
    IN  Stored([j \in Coefs |-> montgomery_reduce(Half * after[N \div 2][j])])

(* Pairs of coefficients are multiplied modulo X^2 - zeta and X^2 + zeta.  *)
poly_basemul(a, b) ==
    LET m(i, j)  == montgomery_reduce(a[i] * b[j])
        zeta(j)  == zetas[N \div 4 + j \div 4] * (IF j % 4 < 2 THEN 1 ELSE -1)
    IN  Stored([j \in Coefs |-> IF j % 2 = 0 THEN S16(montgomery_reduce(m(j + 1, j + 1) * zeta(j)) + m(j, j))
                               ELSE S16(m(j - 1, j) + m(j, j - 1))])

poly_tomont(r) == Stored([j \in Coefs |-> montgomery_reduce(1353 * r[j])])
poly_reduce(r) == Stored([j \in Coefs |-> barrett_reduce(r[j])])
poly_csubq(r)  == Stored([j \in Coefs |-> csubq(r[j])])
poly_add(a, b) == Stored([j \in Coefs |-> S16(a[j] + b[j])])
poly_sub(a, b) == Stored([j \in Coefs |-> S16(a[j] - b[j])])

polyvec_ntt(v)       == EachPoly(poly_ntt, v)
polyvec_invntt(v)    == EachPoly(poly_invntt, v)
polyvec_reduce(v)    == EachPoly(poly_reduce, v)
polyvec_csubq(v)     == EachPoly(poly_csubq, v)
polyvec_add(v, w)    == EachPair(poly_add, v, w)
polyvec_basemul_acc(v, w) ==
    poly_reduce(FoldLeft(LAMBDA r, i : poly_add(r, poly_basemul(v[i], w[i])), poly_basemul(v[0], w[0]),
                         [i \in 1 .. (K - 1) |-> i]))

-----------------------------------------------------------------------------
poly_cbd_eta2(buf) ==
    Stored([j \in Coefs |-> Bit(buf, 4 * j) + Bit(buf, 4 * j + 1) - Bit(buf, 4 * j + 2) - Bit(buf, 4 * j + 3)])
poly_getnoise_eta2(seed, nonce) ==
    poly_cbd_eta2([i \in 0 .. (N \div 2 - 1) |-> Draw(Digest(<<seed, nonce>>), i, 256)])

poly_tobytes(r)   == Packed(r, 12)
poly_frombytes(a) == Unpacked(a, 12)
poly_frommsg(m)   == Stored([j \in Coefs |-> IF m[j] = 1 THEN (Q + 1) \div 2 ELSE 0])

Positive(c) == IF c < 0 THEN c + Q ELSE c
TimesShifted(x, m, shift) ==            \* x * m >> shift, of 64 bits
    ((x \div 2048) * m + ((x % 2048) * m) \div 2048) \div 2 ^ (shift - 11)

MessageBit(c) == TimesShifted(2 * Positive(c) + Q \div 2, 80635, 28) % 2
CompressDu(c)  == TimesShifted(Positive(c) * 1024 + Q \div 2, 161271, 29) % 1024
CompressDv(c)  == TimesShifted(Positive(c) * 16 + Q \div 2, 161271, 29) % 16
poly_tomsg(r)         == Stored([j \in Coefs |-> MessageBit(r[j])])
poly_compress_du(r)   == Packed([j \in Coefs |-> CompressDu(r[j])], 10)
poly_compress_dv(r)   == Packed([j \in Coefs |-> CompressDv(r[j])], 4)
poly_decompress_du(a) == Stored([j \in Coefs |-> (Unpacked(a, 10)[j] * Q + 512) \div 1024])
poly_decompress_dv(a) == Stored([j \in Coefs |-> (Unpacked(a, 4)[j] * Q + 8) \div 16])

polyvec_tobytes(v)    == EachPoly(poly_tobytes, v)
polyvec_frombytes(v)  == EachPoly(poly_frombytes, v)
polyvec_compress(v)   == EachPoly(poly_compress_du, v)
polyvec_decompress(v) == EachPoly(poly_decompress_du, v)
polyvec_is_canonical(v) == \A i \in Vec, j \in Coefs : v[i][j] < Q

(* The first draws of 12 bits below Q, however many are squeezed.          *)
rej_uniform(seed) ==
    LET good == SelectSeq([k \in 1 .. (6 * N) |-> Draw(seed, k, 4096)], LAMBDA v : v < Q)
    IN  Stored([j \in Coefs |-> good[j + 1]])
gen_matrix(seed, transposed) ==
    Stored([i \in Vec |-> Stored([j \in Vec |->
        rej_uniform(IF transposed THEN Digest(<<seed, i, j>>) ELSE Digest(<<seed, j, i>>))])])

Noise(seed, nonce) == Stored([i \in Vec |-> poly_getnoise_eta2(seed, nonce + i)])

indcpa_keypair(seed) ==
    LET public == Digest(<<seed, K>>)
        noise  == Digest(<<seed, K, 1>>)
        A  == gen_matrix(public, FALSE)
        s  == polyvec_ntt(Noise(noise, 0))
        e  == polyvec_ntt(Noise(noise, K))
        pk == polyvec_add([i \in Vec |-> poly_tomont(polyvec_basemul_acc(A[i], s))], e)
    IN  [pk |-> [t |-> polyvec_tobytes(polyvec_csubq(polyvec_reduce(pk))), seed |-> public],
         sk |-> polyvec_tobytes(polyvec_csubq(polyvec_reduce(s)))]

indcpa_enc(m, pk, coins) ==
    LET A == gen_matrix(pk.seed, TRUE)
        r == polyvec_reduce(polyvec_ntt(Noise(coins, 0)))
        u == polyvec_add(polyvec_invntt([i \in Vec |-> polyvec_basemul_acc(A[i], r)]), Noise(coins, K))
        v == poly_add(poly_add(poly_invntt(polyvec_basemul_acc(polyvec_frombytes(pk.t), r)),
                               poly_getnoise_eta2(coins, 2 * K)), poly_frommsg(m))
    IN  [u |-> polyvec_compress(polyvec_csubq(polyvec_reduce(u))), v |-> poly_compress_dv(poly_csubq(poly_reduce(v)))]

indcpa_dec(ct, sk) ==
    LET u == polyvec_reduce(polyvec_ntt(polyvec_decompress(ct.u)))
        m == poly_invntt(polyvec_basemul_acc(polyvec_frombytes(sk), u))
    IN  poly_tomsg(poly_csubq(poly_reduce(poly_sub(poly_decompress_dv(ct.v), m))))

-----------------------------------------------------------------------------
PkDigest(pk) == Digest(<<VecDigest(pk.t, 12), pk.seed>>)

(* The key and the coins that a message and a hashed public key give.      *)
KeyAndCoins(m, hpk) == [key |-> <<"shared", m, hpk>>, coins |-> Digest(Listed(m, N) \o <<hpk>>)]

seed_keypair(seed, z) ==
    LET pair == indcpa_keypair(seed)
    IN  [pk |-> pair.pk, sk |-> [s |-> pair.sk, pk |-> pair.pk, hpk |-> PkDigest(pair.pk), z |-> z]]

enc_deterministic(pk, m) ==
    IF ~polyvec_is_canonical(polyvec_frombytes(pk.t)) THEN [ret |-> -1]
    ELSE LET kr == KeyAndCoins(m, PkDigest(pk))
         IN  [ret |-> 0, ct |-> indcpa_enc(m, pk, kr.coins), ss |-> kr.key]

(* A ciphertext that is not what its message encrypts to gives a key that  *)
(* depends on it and on z only.                                            *)
dec(ct, sk) ==
    LET m  == indcpa_dec(ct, sk.s)
        kr == KeyAndCoins(m, sk.hpk)
    IN  IF indcpa_enc(m, sk.pk, kr.coins) = ct THEN kr.key ELSE <<"rejected", sk.z, ct>>

-----------------------------------------------------------------------------
Return(result) == mem' = result /\ at' = "returned" /\ UNCHANGED input

Coefficient ==
    /\ input.call = "coefficient" /\ at = "called"
    /\ LET x == input.x
       IN  Return([montgomery |-> montgomery_reduce(x * input.y), barrett |-> barrett_reduce(x),
                   csubq |-> csubq(barrett_reduce(x)), du |-> CompressDu(barrett_reduce(x)),
                   dv |-> CompressDv(barrett_reduce(x)), bit |-> MessageBit(barrett_reduce(x))])

Multiply ==
    /\ input.call = "multiply" /\ at = "called"
    /\ LET a == poly_ntt(input.a)
           b == poly_ntt(input.b)
       IN  Return([ntt |-> a, product |-> poly_invntt(poly_reduce(poly_basemul(poly_reduce(a), poly_reduce(b))))])

KeyPair ==
    /\ input.call = "exchange" /\ at = "called"
    /\ mem' = [pair |-> seed_keypair(input.seed, input.z)] /\ at' = "keyed" /\ UNCHANGED input

(* A secret for the key, and for the key with a coefficient of Q.          *)
Encapsulate ==
    /\ at = "keyed"
    /\ LET high == [mem.pair.pk EXCEPT !.t[0] = [@ EXCEPT ![0] = Q % 256, ![1] = (@ \div 16) * 16 + Q \div 256]]
       IN  mem' = [pair |-> mem.pair, sent |-> enc_deterministic(mem.pair.pk, input.m), high |-> enc_deterministic(high, input.m)]
    /\ at' = "sent" /\ UNCHANGED input

(* The ciphertext, and the one with a byte changed, come to the key.       *)
Decapsulate ==
    /\ at = "sent"
    /\ LET off == [mem.sent.ct EXCEPT !.v[input.n] = (@ + input.change) % 256]
       IN  mem' = mem @@ [off |-> off, got |-> dec(mem.sent.ct, mem.pair.sk), other |-> dec(off, mem.pair.sk)]
    /\ at' = "returned" /\ UNCHANGED input

Next == Coefficient \/ Multiply \/ KeyPair \/ Encapsulate \/ Decapsulate

-----------------------------------------------------------------------------
Power(b, e) ==
    LET p[k \in Nat] == IF k = 0 THEN 1 ELSE (p[k - 1] * b) % Q
    IN  p[e]

(* The transform: remainders modulo X^2 - r for the odd powers r of the    *)
(* root; zetas, divided by 2^16, are those in their order.                 *)
Remainders(a) ==
    [j \in Coefs |->
        LET r == zetas[N \div 4 + j \div 4] * 169 * (IF j % 4 < 2 THEN 1 ELSE -1)
        IN  Total(LAMBDA i : (a[2 * i + (j % 2)] * Power(r % Q, i)) % Q, 0 .. (N \div 2 - 1)) % Q]

Rounded(c, m) == (((c % Q) * 2 * m + Q) \div (2 * Q)) % m

(* Reductions are congruent and in range, rounding is to the nearest (but  *)
(* for the message bit of 2497, which has 1 where 0 is nearer), the        *)
(* transforms multiply; a secret arrives if its ciphertext does, another   *)
(* ciphertext gives an unrelated one, a key out of range none.             *)
SecretsArrive ==
    /\ at = "returned" /\ input.call = "coefficient" =>
          LET x == input.x
          IN  /\ ((mem.montgomery % Q) * 2285) % Q = (x * input.y) % Q
              /\ x * input.y < Q * 32768 /\ x * input.y > -Q * 32768 => mem.montgomery \in (-Q + 1) .. (Q - 1)
              /\ (mem.barrett - x) % Q = 0 /\ mem.barrett \in 0 .. Q /\ mem.csubq = x % Q
              /\ mem.du = Rounded(x, 1024) /\ mem.dv = Rounded(x, 16) /\ (mem.bit = Rounded(x, 2) \/ x % Q = 2497)
    /\ at = "returned" /\ input.call = "multiply" =>
          /\ [j \in Coefs |-> mem.ntt[j] % Q] = Remainders(input.a)
          /\ [j \in Coefs |-> mem.product[j] % Q] = Product(input.a, input.b, Q)
    /\ at = "returned" /\ input.call = "exchange" =>
          /\ polyvec_is_canonical(polyvec_frombytes(mem.pair.pk.t))
          /\ mem.got = mem.sent.ss
          /\ mem.other = <<"rejected", input.z, mem.off>>
          /\ mem.high.ret = -1
=============================================================================
