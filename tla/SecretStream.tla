---------------------------- MODULE SecretStream ----------------------------
(***************************************************************************)
(* crypto_secretstream_xchacha20poly1305: one process pushes an encrypted  *)
(* stream of messages, another one pulls it, over a network that loses,    *)
(* duplicates, reorders, splices and forges packets.                       *)
(*                                                                         *)
(* The primitives are idealised.  `oracle' is the list of distinct calls   *)
(* made so far to HChaCha20, to the rekeying keystream and to Poly1305,    *)
(* and the answer of a call is its position in that list: equal calls get  *)
(* equal answers, different calls get different ones, and nobody can name  *)
(* an answer before the call is made.  A key is such an answer; the inonce *)
(* half of a nonce is a XOR of random values and answers, that is, the set *)
(* of the atoms that occur in it an odd number of times.                   *)
(***************************************************************************)
EXTENDS Integers, Sequences, FiniteSets

SSE == INSTANCE FiniteSetsExt

CONSTANTS
    Rand,         \* the values randombytes_buf() can return
    Msgs,         \* the plaintexts
    Size,         \* Size[m] is the length of m in bytes
    Ads,          \* the additional data strings
    Tags,         \* the tag bytes the application uses
    CounterMod,   \* 2^32: the counter has COUNTERBYTES = 4 bytes
    BlockBytes,   \* 64: bytes per ChaCha20 block
    BlockMod,     \* 2^32: the block counter of ChaCha20-IETF
    MaxOps,       \* bound: operations in one stream, at each end
    MaxRekeys     \* bound: explicit calls to rekey() in one stream

ASSUME RandAssumption == Rand \cap Nat = {}
ASSUME SizeAssumption == Size \in [Msgs -> Nat]
ASSUME TagsAssumption == Tags \subseteq 0 .. 255
ASSUME ModAssumption  == /\ CounterMod \in Nat \ {0, 1}
                         /\ BlockBytes \in Nat \ {0}
                         /\ BlockMod \in Nat \ {0, 1}
ASSUME BoundAssumption == MaxOps \in Nat /\ MaxRekeys \in Nat

VARIABLES
    oracle,   \* the calls made to the primitives, in order
    seen,     \* random values that have appeared anywhere
    snd,      \* the state of the pushing end
    session,  \* the header it sent
    sent,     \* sent[h]: what was done to the stream with header h, in order
    used,     \* the uses of the keystream by the pushing end, in order
    rcv,      \* the state of the pulling end
    joined,   \* the header it was given
    got,      \* what its application was given and did, in order
    aborted   \* the ends whose process called sodium_misuse()

vars == <<oracle, seen, snd, session, sent, used, rcv, joined, got, aborted>>

Header == Rand \X Rand      \* the HChaCha20 input and the first inonce
None   == [k |-> 0, ctr |-> 0, inonce |-> {}]    \* not initialised

TAG_MESSAGE == 0
TAG_PUSH    == 1
TAG_REKEY   == 2
TAG_FINAL   == 3            \* TAG_PUSH | TAG_REKEY

(* Mutant: FINAL is not understood as containing REKEY.                     *)
RekeyTagOnly(tag) == tag = TAG_REKEY

HasRekeyBit(tag) == (tag \div 2) % 2 = 1

MESSAGEBYTES_MAX == BlockBytes * (BlockMod - 2)

-----------------------------------------------------------------------------
(* The primitives.                                                         *)

HChaCha20(in)          == [fn |-> "hchacha20", in |-> in]
RekeyStream(s)         == [fn |-> "rekey", k |-> s.k, ctr |-> s.ctr, inonce |-> s.inonce]

(* Mutant: a MAC that depends on the key and not on the nonce.             *)
MacWithoutNonce(s, ad, tag, m) ==
    [fn |-> "poly1305", k |-> s.k, ctr |-> 1, inonce |-> {}, ad |-> ad, tag |-> tag, m |-> m]

Poly1305(s, ad, tag, m) ==
    [fn |-> "poly1305", k |-> s.k, ctr |-> s.ctr, inonce |-> s.inonce,
     ad |-> ad, tag |-> tag, m |-> m]

Asked(o, q)  == \E i \in DOMAIN o : o[i] = q
Answer(o, q) == IF Asked(o, q) THEN CHOOSE i \in DOMAIN o : o[i] = q ELSE Len(o) + 1
Ask(o, q)    == IF Asked(o, q) THEN o ELSE Append(o, q)

Xor(a, b) == SSE!SymDiff(a, b)

(* The block counters under which push() encrypts m: 0 makes the Poly1305  *)
(* key, 1 hides the tag, 2 and up hide the message.                        *)
MessageBlocks(m) == (Size[m] + BlockBytes - 1) \div BlockBytes
Blocks(m)        == [j \in 1 .. (MessageBlocks(m) + 2) |-> (j - 1) % BlockMod]

-----------------------------------------------------------------------------
(* The functions on a stream's state.                                      *)

CounterReset(s) == [s EXCEPT !.ctr = 1]

(* Mutant: the last eight bytes of the header are ignored.                 *)
StartHalfHeader(o, header) ==
    CounterReset([k |-> Answer(o, HChaCha20(header[1])), ctr |-> 0, inonce |-> {header[1]}])

Start(o, header) ==
    CounterReset([k |-> Answer(o, HChaCha20(header[1])), ctr |-> 0, inonce |-> {header[2]}])

(* Mutant: rekeying refreshes the nonce and keeps the key.                 *)
RekeyedNonceOnly(o, s) ==
    CounterReset([s EXCEPT !.inonce = Xor(@, {Answer(o, RekeyStream(s))})])

Rekeyed(o, s) ==
    LET r == Answer(o, RekeyStream(s))
    IN  CounterReset([k |-> r, ctr |-> s.ctr, inonce |-> Xor(s.inonce, {r})])

Advance(s, mac) ==
    [k |-> s.k, ctr |-> (s.ctr + 1) % CounterMod, inonce |-> Xor(s.inonce, {mac})]

(* Mutant: a wrapped counter goes unnoticed.                               *)
MustRekeyOnTag(s, tag) == HasRekeyBit(tag)

MustRekey(s, tag) == HasRekeyBit(tag) \/ s.ctr = 0

(* The state and the oracle after the message with this tag and mac: both  *)
(* ends run the same code.                                                 *)
After(o, s, tag, mac) ==
    LET a == Advance(s, mac)
    IN  IF MustRekey(a, tag) THEN Rekeyed(o, a) ELSE a

OracleAfter(o, s, tag, mac) ==
    LET a == Advance(s, mac)
    IN  IF MustRekey(a, tag) THEN Ask(o, RekeyStream(a)) ELSE o

RekeyUse(s) == [k |-> s.k, ctr |-> s.ctr, inonce |-> s.inonce, blocks |-> <<0>>]

UsesAfter(s, tag, mac, m) ==
    LET a == Advance(s, mac)
    IN  <<[k |-> s.k, ctr |-> s.ctr, inonce |-> s.inonce, blocks |-> Blocks(m)]>>
        \o (IF MustRekey(a, tag) THEN <<RekeyUse(a)>> ELSE <<>>)

MessageOp(ad, tag, m, mac) == [kind |-> "message", ad |-> ad, tag |-> tag, m |-> m, mac |-> mac]
Rekey                    == [kind |-> "rekey"]
Rekeys(log)              == Cardinality({i \in DOMAIN log : log[i] = Rekey})

-----------------------------------------------------------------------------
Init ==
    /\ oracle = <<>> /\ seen = {} /\ used = <<>>
    /\ snd = None /\ session = <<>> /\ sent = [h \in Header |-> <<>>]
    /\ rcv = None /\ joined = <<>>  /\ got = <<>>
    /\ aborted = {}

(* init_push(): the header is 24 random bytes, which nobody has seen.      *)
InitPush(r) ==
    /\ "sender" \notin aborted
    /\ r \notin seen
    /\ seen' = seen \cup {r}
    /\ session' = <<r, r>>
    /\ snd' = Start(oracle, <<r, r>>)
    /\ oracle' = Ask(oracle, HChaCha20(r))
    /\ UNCHANGED <<sent, used, rcv, joined, got, aborted>>

(* push()                                                                  *)
Push(m, ad, tag) ==
    /\ snd # None /\ "sender" \notin aborted
    /\ Len(sent[session]) < MaxOps
    /\ Size[m] <= MESSAGEBYTES_MAX
    /\ LET q   == Poly1305(snd, ad, tag, m)
           mac == Answer(oracle, q)
           o   == Ask(oracle, q)
       IN  /\ oracle' = OracleAfter(o, snd, tag, mac)
           /\ snd' = After(o, snd, tag, mac)
           /\ used' = used \o UsesAfter(snd, tag, mac, m)
           /\ sent' = [sent EXCEPT ![session] = Append(@, MessageOp(ad, tag, m, mac))]
    /\ UNCHANGED <<seen, session, rcv, joined, got, aborted>>

(* push() of a message it cannot encrypt: sodium_misuse().                 *)
PushTooLong(m) ==
    /\ snd # None /\ "sender" \notin aborted
    /\ Size[m] > MESSAGEBYTES_MAX
    /\ aborted' = aborted \cup {"sender"}
    /\ UNCHANGED <<oracle, seen, snd, session, sent, used, rcv, joined, got>>

(* rekey(), called by the pushing application.                             *)
RekeySender ==
    /\ snd # None /\ "sender" \notin aborted
    /\ Len(sent[session]) < MaxOps /\ Rekeys(sent[session]) < MaxRekeys
    /\ oracle' = Ask(oracle, RekeyStream(snd))
    /\ snd' = Rekeyed(oracle, snd)
    /\ used' = Append(used, RekeyUse(snd))
    /\ sent' = [sent EXCEPT ![session] = Append(@, Rekey)]
    /\ UNCHANGED <<seen, session, rcv, joined, got, aborted>>

(* init_pull() on whatever header arrived: possibly an old one, or one     *)
(* spliced from two.                                                       *)
InitPull(header) ==
    /\ "receiver" \notin aborted
    /\ seen' = seen \cup {header[1], header[2]}
    /\ joined' = header
    /\ got' = <<>>
    /\ rcv' = Start(oracle, header)
    /\ oracle' = Ask(oracle, HChaCha20(header[1]))
    /\ UNCHANGED <<snd, session, sent, used, aborted>>

(* pull() recomputes the MAC over its own key, nonce and additional data   *)
(* and the packet's tag and text, and compares it with the packet's mac.   *)
Verifies(s, m, ad, tag, mac) ==
    mac \in DOMAIN oracle /\ oracle[mac] = Poly1305(s, ad, tag, m)

PullAccepts(m, ad, tag, mac) ==
    /\ rcv # None /\ "receiver" \notin aborted
    /\ Len(got) < MaxOps
    /\ Size[m] <= MESSAGEBYTES_MAX
    /\ Verifies(rcv, m, ad, tag, mac)
    /\ oracle' = OracleAfter(oracle, rcv, tag, mac)
    /\ rcv' = After(oracle, rcv, tag, mac)
    /\ got' = Append(got, MessageOp(ad, tag, m, mac))
    /\ UNCHANGED <<seen, snd, session, sent, used, joined, aborted>>

(* Mutant: the counter moves before the MAC is compared.                   *)
PullRejectsAdvancing(m, ad, tag, mac) ==
    /\ rcv # None /\ "receiver" \notin aborted
    /\ Size[m] <= MESSAGEBYTES_MAX
    /\ ~ Verifies(rcv, m, ad, tag, mac)
    /\ rcv' = [rcv EXCEPT !.ctr = (@ % (CounterMod - 1)) + 1]
    /\ UNCHANGED <<oracle, seen, snd, session, sent, used, joined, got, aborted>>

(* The packet does not verify, or is shorter than ABYTES: pull() returns   *)
(* -1 and reports an empty message with tag 0xff.                          *)
PullRejects(m, ad, tag, mac) ==
    /\ rcv # None /\ "receiver" \notin aborted
    /\ Size[m] <= MESSAGEBYTES_MAX
    /\ ~ Verifies(rcv, m, ad, tag, mac)
    /\ UNCHANGED vars

PullTooLong(m) ==
    /\ rcv # None /\ "receiver" \notin aborted
    /\ Size[m] > MESSAGEBYTES_MAX
    /\ aborted' = aborted \cup {"receiver"}
    /\ UNCHANGED <<oracle, seen, snd, session, sent, used, rcv, joined, got>>

(* Mutant: the pulling end keeps its counter when it rekeys.               *)
RekeyReceiverNoReset ==
    /\ rcv # None /\ "receiver" \notin aborted
    /\ Len(got) < MaxOps /\ Rekeys(got) < MaxRekeys
    /\ oracle' = Ask(oracle, RekeyStream(rcv))
    /\ rcv' = [Rekeyed(oracle, rcv) EXCEPT !.ctr = rcv.ctr]
    /\ got' = Append(got, Rekey)
    /\ UNCHANGED <<seen, snd, session, sent, used, joined, aborted>>

(* rekey(), called by the pulling application.                             *)
RekeyReceiver ==
    /\ rcv # None /\ "receiver" \notin aborted
    /\ Len(got) < MaxOps /\ Rekeys(got) < MaxRekeys
    /\ oracle' = Ask(oracle, RekeyStream(rcv))
    /\ rcv' = Rekeyed(oracle, rcv)
    /\ got' = Append(got, Rekey)
    /\ UNCHANGED <<seen, snd, session, sent, used, joined, aborted>>

(* A packet is any text and any MAC ever computed, or 0, a forged one.     *)
Pull ==
    \E m \in Msgs, ad \in Ads, tag \in Tags, mac \in {0} \cup DOMAIN oracle :
        PullAccepts(m, ad, tag, mac) \/ PullRejects(m, ad, tag, mac)

Next ==
    \/ \E r \in Rand : InitPush(r)
    \/ \E m \in Msgs, ad \in Ads, tag \in Tags : Push(m, ad, tag)
    \/ \E m \in Msgs : PushTooLong(m)
    \/ RekeySender
    \/ \E header \in Header : InitPull(header)
    \/ Pull
    \/ \E m \in Msgs : PullTooLong(m)
    \/ RekeyReceiver

Spec == Init /\ [][Next]_vars

-----------------------------------------------------------------------------
(* Properties.                                                             *)

Stateful == [k : Nat, ctr : 1 .. (CounterMod - 1), inonce : SUBSET (Rand \cup Nat)]
Op       == [kind : {"message"}, ad : Ads, tag : Tags, m : Msgs, mac : Nat] \cup {Rekey}

(* Types.  It also says that no call leaves a state whose counter is 0,    *)
(* the value that the rekeying of a wrapped counter uses.                  *)
TypeOK ==
    /\ DOMAIN oracle = 1 .. Len(oracle)
    /\ seen \subseteq Rand
    /\ snd \in Stateful \cup {None} /\ rcv \in Stateful \cup {None}
    /\ session \in Header \cup {<<>>} /\ joined \in Header \cup {<<>>}
    /\ snd # None <=> session # <<>>
    /\ rcv # None <=> joined # <<>>
    /\ DOMAIN sent = Header /\ \A h \in Header : \A i \in DOMAIN sent[h] : sent[h][i] \in Op
    /\ \A i \in DOMAIN got : got[i] \in Op
    /\ aborted \subseteq {"sender", "receiver"}

(* The pushing end never encrypts two things with one keystream block: no  *)
(* key and counter serve twice, in one stream or across streams, whether   *)
(* for a message or for a new key, and no block counter comes back within  *)
(* one message.  A repetition would reveal the XOR of two plaintexts, or   *)
(* the next key.                                                           *)
KeystreamNeverReused ==
    /\ \A i, j \in DOMAIN used :
          i # j => <<used[i].k, used[i].ctr>> # <<used[j].k, used[j].ctr>>
    /\ \A i \in DOMAIN used : \A a, b \in DOMAIN used[i].blocks :
          a # b => used[i].blocks[a] # used[i].blocks[b]

IsMessage(op) == op.kind = "message"

(* Where the receiver accepts a message, it has done so far exactly what   *)
(* the sender had done in the stream of that header: nothing was skipped,  *)
(* repeated, reordered, altered or moved from another stream.              *)
AcceptsOnlyThePrefix ==
    \A i \in DOMAIN got :
        IsMessage(got[i]) =>
            /\ i <= Len(sent[joined])
            /\ SubSeq(got, 1, i) = SubSeq(sent[joined], 1, i)

(* A receiver that is in step accepts the sender's next packet, whatever   *)
(* it was fed and refused before, and however many automatic rekeyings     *)
(* the two went through.                                                   *)
InStepAccepts ==
    (joined # <<>> /\ Len(got) < Len(sent[joined]) /\ got = SubSeq(sent[joined], 1, Len(got)))
        => LET op == sent[joined][Len(got) + 1]
           IN  IsMessage(op) => Verifies(rcv, op.m, op.ad, op.tag, op.mac)

(* When both ends have done the same, they hold the same state: the next   *)
(* packet, in either role, is processed identically.                       *)
EndsAgree ==
    (joined = session /\ joined # <<>> /\ got = sent[joined]) => rcv = snd

(* A tag with the REKEY bit (FINAL has it) and an explicit rekey() discard *)
(* the key: neither end's state can decrypt what came before.              *)
LastRekey(log) ==
    SSE!Max({0} \cup {i \in DOMAIN log :
                        log[i] = Rekey \/ (IsMessage(log[i]) /\ log[i].tag \in {TAG_REKEY, TAG_FINAL})})

Discards(s, log) ==
    \A i \in 1 .. LastRekey(log) : IsMessage(log[i]) => oracle[log[i].mac].k # s.k

RekeyDiscardsPastKeys ==
    /\ session # <<>> => Discards(snd, sent[session])
    /\ joined # <<>>  => Discards(rcv, got)

-----------------------------------------------------------------------------
(* The stream implements AuthStream: drop the cryptography from the logs.  *)

Plain(op)   == IF IsMessage(op) THEN [ad |-> op.ad, tag |-> op.tag, m |-> op.m] ELSE op
PlainLog(l) == [i \in DOMAIN l |-> Plain(l[i])]

Auth == INSTANCE AuthStream WITH
            Stream   <- Header,
            Message  <- [ad : Ads, tag : Tags, m : Msgs],
            Rekey    <- Rekey,
            Nobody   <- <<>>,
            sender   <- session,
            sent     <- [h \in Header |-> PlainLog(sent[h])],
            receiver <- joined,
            received <- PlainLog(got)

(* Every behaviour of the code, seen without the cryptography, is one that *)
(* AuthStream allows.                                                      *)
ImplementsAuthStream == Auth!Spec
=============================================================================
