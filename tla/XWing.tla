------------------------------- MODULE XWing -------------------------------
(***************************************************************************)
(* X-Wing: ML-KEM-768 and X25519 (Curves models it) side by side, both     *)
(* secrets in one.  Here X25519 is a group of 8 * 31 elements whose        *)
(* multiplication refuses the neutral element, as the function does.       *)
(***************************************************************************)
EXTENDS Integers, TLC

CONSTANTS
    seed_keypair(_, _), enc_deterministic(_, _), dec(_, _),     \* of MlKem
    Digest(_)

VARIABLES input, at, mem

Order == 8 * 31
crypto_scalarmult_curve25519(n, p) ==
    LET q == (8 * (1 + (n % 30)) * p) % Order
    IN  IF q = 0 THEN [ret |-> -1] ELSE [ret |-> 0, q |-> q]
crypto_scalarmult_curve25519_base(n) == crypto_scalarmult_curve25519(n, 9).q

expand_decaps_key(seed) ==
    LET sk == Digest(<<seed, 96, 64>>)
    IN  [mlkem |-> seed_keypair(Digest(<<seed, 96, 0>>), Digest(<<seed, 96, 32>>)),
         sk_x25519 |-> sk, pk_x25519 |-> crypto_scalarmult_curve25519_base(sk)]

combiner(ss_mlkem, ss_x25519, ct_x25519, pk_x25519) == <<ss_mlkem, ss_x25519, ct_x25519, pk_x25519, "\\.//^\\">>

xwing_seed_keypair(seed) ==
    LET keys == expand_decaps_key(seed)
    IN  [pk |-> [mlkem |-> keys.mlkem.pk, x25519 |-> keys.pk_x25519], sk |-> seed]

xwing_enc_deterministic(pk, m, sk_e_x25519) ==
    LET mlkem == enc_deterministic(pk.mlkem, m)
        ct_x25519 == crypto_scalarmult_curve25519_base(sk_e_x25519)
        shared == crypto_scalarmult_curve25519(sk_e_x25519, pk.x25519)
    IN  IF mlkem.ret # 0 \/ shared.ret # 0 THEN [ret |-> -1]
        ELSE [ret |-> 0, ct |-> [mlkem |-> mlkem.ct, x25519 |-> ct_x25519],
              ss |-> combiner(mlkem.ss, shared.q, ct_x25519, pk.x25519)]

xwing_dec(ct, sk) ==
    LET keys   == expand_decaps_key(sk)
        shared == crypto_scalarmult_curve25519(keys.sk_x25519, ct.x25519)
    IN  IF shared.ret # 0 THEN [ret |-> -1]
        ELSE [ret |-> 0, ss |-> combiner(dec(ct.mlkem, keys.mlkem.sk), shared.q, ct.x25519, keys.pk_x25519)]

-----------------------------------------------------------------------------
HybridKeyPair ==
    /\ input.call = "hybrid" /\ at = "called"
    /\ mem' = [pair |-> xwing_seed_keypair(input.seed)] /\ at' = "hybrid keyed" /\ UNCHANGED input

(* The sender may hold another point than the key's.                       *)
HybridEncapsulate ==
    /\ at = "hybrid keyed"
    /\ mem' = mem @@ [sent |-> xwing_enc_deterministic([mem.pair.pk EXCEPT !.x25519 = (@ + input.off) % Order], input.m, input.e)]
    /\ at' = "hybrid sent" /\ UNCHANGED input

HybridDecapsulate ==
    /\ at = "hybrid sent" /\ mem.sent.ret = 0
    /\ LET ct == mem.sent.ct
       IN  mem' = mem @@ [got   |-> xwing_dec(ct, mem.pair.sk),
                          other |-> xwing_dec([ct EXCEPT !.mlkem.v[0] = (@ + 1) % 256], mem.pair.sk),
                          twist |-> [p \in {0, 31, 62, 4, 5, 9, (ct.x25519 + 31) % Order} |-> xwing_dec([ct EXCEPT !.x25519 = p], mem.pair.sk)]]
    /\ at' = "returned" /\ UNCHANGED input

Next == HybridKeyPair \/ HybridEncapsulate \/ HybridDecapsulate

(* The two ends agree exactly on the ciphertext that was sent for the key  *)
(* that was published; a point of small order is refused at both ends.     *)
HybridSecretsArrive ==
    at = "returned" /\ input.call = "hybrid" =>
        /\ mem.got.ret = 0
        /\ mem.got.ss = mem.sent.ss <=> input.off = 0
        /\ mem.other.ss # mem.sent.ss
        /\ \A p \in DOMAIN mem.twist :
              /\ mem.twist[p].ret = -1 <=> (8 * p) % Order = 0
              /\ mem.twist[p].ret = 0 /\ p # mem.sent.ct.x25519 => mem.twist[p].ss # mem.sent.ss
=============================================================================
