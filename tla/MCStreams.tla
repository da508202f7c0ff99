----------------------------- MODULE MCStreams -----------------------------
(***************************************************************************)
(* The hashes, one at a time, the lattice schemes made with them, and the  *)
(* ciphers and authenticators that have several implementations: alg says  *)
(* which one a behaviour is about.                                         *)
(***************************************************************************)
EXTENDS Hashes

(* Both moduli allow roots of unity for N = 8.                             *)
Kem == INSTANCE MlKem WITH N <- 8, K <- 3, Half <- 2835, zetas <- [k \in 0 .. 3 |-> <<2285, 2571, 2970, 1812>>[k + 1]]
Hybrid == INSTANCE XWing WITH seed_keypair <- Kem!seed_keypair, enc_deterministic <- Kem!enc_deterministic,
            dec <- Kem!dec, Digest <- Kem!Digest
Dsa == INSTANCE MlDsa WITH N <- 8, K <- 2, MaxIterations <- 20,
         zetas <- [k \in 0 .. 7 |-> <<1984, 511, 335, 69, 470, 729, 1891, 1401>>[k + 1]]

(* Words of four bits, four rounds, and turns that fit them.               *)
Vec == INSTANCE VectorStreams WITH Bits <- 4, ROUNDS <- 4, ChachaTurns <- <<2, 1, 3, 1>>, SalsaTurns <- <<3, 1, 2, 1>>

(* 2^35 - 5 is 9 * 79 * 3359 * 14387.                                      *)
Mac == INSTANCE PolyLanes WITH Limb <- 7, Wide <- 12, Factors <- {9, 79, 3359, 14387}

Gcm == INSTANCE AesGcm WITH ROUNDS <- 4

-----------------------------------------------------------------------------
Seeded(k, i, m) == ((k * 7919 + i * 10473 + k * k * 31 + i * i * 653 + k * i * 613) % 65521) % m
Poly8(k, m) == [i \in 0 .. 7 |-> Seeded(k, i, m)]

KemInit ==
    \/ \E x \in {-32768, 32767} \cup {k * 13 : k \in -2519 .. 2519}, y \in {1, -1, 1353, -3329, 32767, -32768} :
          input = [call |-> "coefficient", x |-> x, y |-> y]
    \/ \E x \in 0 .. 3329 : input = [call |-> "coefficient", x |-> x, y |-> 3328]
    \/ \E k \in 1 .. 100 : input = [call |-> "multiply", a |-> Poly8(k, 3329), b |-> Poly8(k + 100, 3329)]
    \/ \E k \in 1 .. 60 :
          input = [call |-> "exchange", seed |-> k * 31, z |-> 77, m |-> Poly8(k, 2), n |-> k % 4, change |-> 1 + k]
    \/ \E k \in 1 .. 4, off \in {0, 1, 31, 239} :
          input = [call |-> "hybrid", seed |-> k * 31, m |-> Poly8(k, 2), e |-> k * 77, off |-> off]

DsaInit ==
    \/ \E a \in 0 .. 2016, c \in {0, 1, -1, 36, -36, 70, -70, 71, -71} :
          input = [call |-> "coefficient", a |-> a, b |-> 16 * a + c + 100, change |-> c]
    \/ \E k \in 1 .. 100 : input = [call |-> "multiply", a |-> Poly8(k, 2017), b |-> Poly8(k + 100, 2017)]
    \/ \E h \in [1 .. 4 -> {0, 1, 2, 7}], d, e \in 0 .. 5 : input = [call |-> "hint", h |-> h \o <<d, e>>]
    \/ \E k \in 1 .. 50, ctx \in {<<>>, <<1, 2>>} :
          input = [call |-> "sign", seed |-> k * 31, m |-> <<k, 2>>, ctx |-> ctx, random |-> 5, damaged |-> FALSE]
    \/ \E ctx \in {<<1>>, <<1, 2, 3>>} :
          input = [call |-> "sign", seed |-> 31, m |-> <<1, 2>>, ctx |-> ctx, random |-> 5, damaged |-> ctx = <<1>>]

(* Counters that carry in a batch and between them; lengths that take every *)
(* kernel, and leave a block or a part of one for the last.                *)
VectorInit ==
    \E c \in {"chacha20", "salsa20"}, ic \in {0, 13, 251}, n \in {1, 15, 31, 32, 40, 84, 213, 467}, i \in BOOLEAN :
       /\ i => c = "chacha20"
       /\ input = [cipher |-> c, build |-> "ref", ic |-> ic, length |-> n, ietf |-> i]

MacInit ==
    \E b \in {"donna32", "donna64", "sse2", "sse2 at once", "neon"}, text \in {"ones", "mixed"},
       r \in {<<1, 0, 0>>, <<4095, 4095, 511>>, <<1234, 3333, 401>>},
       n \in {0, 5, 6, 10, 11, 20, 27, 30, 45, 85, 93}, k \in {0, 7, 40} :
       /\ k <= n /\ (b = "sse2 at once" => k = 0)
       /\ input = [build |-> b, text |-> text, r |-> r, cuts |-> IF k = 0 THEN <<n>> ELSE <<k, n - k>>]

(* Texts of every remainder after the widest groups, and of the most and   *)
(* one more than the most blocks; keys whose H carries when doubled or not *)
GcmInit ==
    \E b \in {"aesni", "armcrypto"}, op \in {"encrypt", "decrypt", "verify"}, damage \in {"none", "text", "mac", "ad", "cut"},
       n \in {0, 3, 4, 13, 28, 45, 56, 79, 141, 244, 245}, a \in {0, 11, 61} :
       /\ a = 11 \/ n \in {0, 45}
       /\ damage # "none" => op # "encrypt" /\ n \in {3, 45} /\ a = 11
       /\ n = 244 => b = "aesni" /\ op = "encrypt"
       /\ n = 245 => b = "aesni"
       /\ input = [build |-> b, op |-> op, length |-> n, ad_len |-> a, damage |-> damage, key |-> IF a = 0 THEN 5 ELSE 6]

-----------------------------------------------------------------------------
Init ==
    \/ HashInit
    \/ alg = "kem" /\ KemInit /\ at = "called" /\ mem = 0 /\ NoStream
    \/ alg = "dsa" /\ DsaInit /\ at = "called" /\ mem = 0 /\ NoStream
    \/ alg = "vector" /\ VectorInit /\ at = "called" /\ mem = 0 /\ NoStream
    \/ alg = "mac" /\ MacInit /\ at = "called" /\ mem = 0 /\ NoStream
    \/ alg = "gcm" /\ GcmInit /\ at = "called" /\ mem = 0 /\ NoStream

Next ==
    \/ HashNext
    \/ alg = "kem" /\ Kem!Next /\ UNCHANGED <<alg, stream>>
    \/ alg = "kem" /\ Hybrid!Next /\ UNCHANGED <<alg, stream>>
    \/ alg = "dsa" /\ Dsa!Next /\ UNCHANGED <<alg, stream>>
    \/ alg = "vector" /\ Vec!Next /\ UNCHANGED <<alg, stream>>
    \/ alg = "mac" /\ Mac!Next /\ UNCHANGED <<alg, stream>>
    \/ alg = "gcm" /\ Gcm!Next /\ UNCHANGED <<alg, stream>>

Spec == Init /\ [][Next]_vars

(* Secrets encapsulated with ML-KEM and X-Wing arrive, messages signed     *)
(* with ML-DSA are verified, nothing else is; rounding and the transforms  *)
(* are exact.                                                              *)
LatticesAreExact ==
    /\ alg = "kem" => Kem!SecretsArrive /\ Hybrid!HybridSecretsArrive
    /\ alg = "dsa" => Dsa!SignaturesVerify

(* Whichever implementation runs, the result is that of the definition.    *)
VariantsAgree ==
    /\ alg = "vector" => Vec!StreamsAgree
    /\ alg = "mac" => Mac!TagsAreExact
    /\ alg = "gcm" => Gcm!GcmIsGcm
=============================================================================
