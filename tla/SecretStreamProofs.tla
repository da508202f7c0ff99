------------------------- MODULE SecretStreamProofs -------------------------
(***************************************************************************)
(* Theorems about SecretStream, for every set of messages and headers,     *)
(* every counter width and every length of stream.                         *)
(***************************************************************************)
EXTENDS SecretStream, TLAPS, WellFoundedInduction

(* What an end holds between two calls.                                    *)
State == [k : Nat, ctr : Nat, inonce : SUBSET (Rand \cup Nat)]

(* A query of an ideal primitive. *)
Query ==
    [fn : {"hchacha20"}, in : Rand]
    \cup [fn : {"rekey"}, k : Nat, ctr : Nat, inonce : SUBSET (Rand \cup Nat)]
    \cup [fn : {"poly1305"}, k : Nat, ctr : Nat, inonce : SUBSET (Rand \cup Nat),
          ad : Ads, tag : Tags, m : Msgs]

(* A use of the keystream, for a new key or for a message that is not too  *)
(* long.                                                                   *)
Fits == {m \in Msgs : Size[m] <= MESSAGEBYTES_MAX}
Use == [k : Nat, ctr : Nat, inonce : SUBSET (Rand \cup Nat),
        blocks : {<<0>>} \cup {Blocks(m) : m \in Fits}]

-----------------------------------------------------------------------------
(* The oracle.                                                             *)

(* An answer is the place of the query in the list after asking.           *)
LEMMA AskAnswers ==
    ASSUME NEW o \in Seq(Query), NEW q \in Query
    PROVE  /\ Ask(o, q) \in Seq(Query)
           /\ Answer(o, q) \in 1 .. Len(Ask(o, q))
           /\ Ask(o, q)[Answer(o, q)] = q
           /\ Len(o) <= Len(Ask(o, q)) /\ Len(Ask(o, q)) <= Len(o) + 1
           /\ \A i \in 1 .. Len(o) : Ask(o, q)[i] = o[i]
           /\ \A i \in DOMAIN Ask(o, q) : i \in DOMAIN o \/ (i = Len(o) + 1 /\ Ask(o, q)[i] = q)
<1>1. CASE Asked(o, q)
  BY <1>1 DEF Ask, Answer, Asked
<1>2. CASE ~ Asked(o, q)
  BY <1>2 DEF Ask, Answer, Asked
<1> QED BY <1>1, <1>2

LEMMA XorType ==
    ASSUME NEW S, NEW a \in SUBSET S, NEW b \in SUBSET S
    PROVE  Xor(a, b) \in SUBSET S
  BY DEF Xor, SSE!SymDiff

-----------------------------------------------------------------------------
(* Keys grow: a query for a new key names a key that is an earlier answer. *)

OracleInv(o, known) ==
    /\ o \in Seq(Query)
    /\ \A i \in DOMAIN o : o[i].fn = "hchacha20" => o[i].in \in known
    /\ \A i \in DOMAIN o : o[i].fn = "rekey" => o[i].k < i

Holds(s, o) == s \in State /\ s.k \in 1 .. Len(o) /\ s.ctr \in 1 .. CounterMod - 1

(* Asking keeps that, if the new query does.                               *)
LEMMA AskKeeps ==
    ASSUME NEW o, NEW known, OracleInv(o, known), NEW more, known \subseteq more,
           NEW q \in Query, q.fn = "hchacha20" => q.in \in more,
           q.fn = "rekey" => q.k <= Len(o)
    PROVE  /\ OracleInv(Ask(o, q), more)
           /\ Len(o) \in Nat /\ Len(Ask(o, q)) \in Nat /\ Len(o) <= Len(Ask(o, q))
           /\ Answer(o, q) \in 1 .. Len(Ask(o, q))
           /\ q.fn = "rekey" => q.k < Answer(o, q)
<1> DEFINE p == Ask(o, q)
           r == Answer(o, q)
<1>1. o \in Seq(Query)
  BY DEF OracleInv
<1>2. /\ p \in Seq(Query)
      /\ r \in 1 .. Len(p) /\ p[r] = q
      /\ Len(o) <= Len(p)
      /\ \A i \in 1 .. Len(o) : p[i] = o[i]
      /\ \A i \in DOMAIN p : i \in DOMAIN o \/ (i = Len(o) + 1 /\ p[i] = q)
  BY <1>1, AskAnswers
<1> HIDE DEF r, p
<1>3. DOMAIN o = 1 .. Len(o) /\ DOMAIN p = 1 .. Len(p) /\ Len(o) \in Nat /\ Len(p) \in Nat
  BY <1>1, <1>2
<1>4. OracleInv(p, more)
  <2> SUFFICES ASSUME NEW i \in DOMAIN p
               PROVE  /\ p[i].fn = "hchacha20" => p[i].in \in more
                      /\ p[i].fn = "rekey" => p[i].k < i
    BY <1>2 DEF OracleInv
  <2>1. CASE i \in DOMAIN o
    BY <2>1, <1>2, <1>3 DEF OracleInv
  <2>2. CASE i = Len(o) + 1 /\ p[i] = q
    <3>1. q.fn = "rekey" => q.k < i
      <4>1. SUFFICES ASSUME q.fn = "rekey" PROVE q.k < i
        OBVIOUS
      <4>2. q.k \in Nat
        BY <4>1 DEF Query
      <4> QED BY <4>1, <4>2, <2>2, <1>3
    <3> QED BY <3>1, <2>2
  <2> QED BY <2>1, <2>2, <1>2
<1>5. q.fn = "rekey" => q.k < r
  BY <1>2, <1>3, <1>4 DEF OracleInv
<1> QED BY <1>2, <1>3, <1>4, <1>5 DEF p, r

(* Rekeying yields a larger key, an answer of the new oracle.              *)
LEMMA RekeyGrows ==
    ASSUME NEW o, NEW known, OracleInv(o, known), NEW s \in State, s.k \in 1 .. Len(o)
    PROVE  /\ OracleInv(Ask(o, RekeyStream(s)), known)
           /\ Holds(Rekeyed(o, s), Ask(o, RekeyStream(s)))
           /\ s.k < Rekeyed(o, s).k
           /\ Len(o) <= Len(Ask(o, RekeyStream(s)))
<1> DEFINE q == RekeyStream(s)
           r == Answer(o, q)
           p == Ask(o, q)
<1>1. q \in Query /\ q.fn = "rekey" /\ q.k = s.k
  BY DEF RekeyStream, Query, State
<1>2. Rekeyed(o, s) = [k |-> r, ctr |-> 1, inonce |-> Xor(s.inonce, {r})]
  BY DEF Rekeyed, CounterReset
<1> HIDE DEF q
<1>3. q.k <= Len(o)
  <2>1. o \in Seq(Query)
    BY DEF OracleInv
  <2> QED BY <1>1, <2>1
<1>4. /\ OracleInv(p, known)
      /\ Len(o) \in Nat /\ Len(p) \in Nat /\ Len(o) <= Len(p)
      /\ r \in 1 .. Len(p) /\ s.k < r
  BY <1>1, <1>3, AskKeeps
<1> HIDE DEF r, p
<1>5. Xor(s.inonce, {r}) \in SUBSET (Rand \cup Nat)
  <2>1. s.inonce \in SUBSET (Rand \cup Nat)
    BY DEF State
  <2>2. r \in Nat
    BY <1>4
  <2>3. {r} \in SUBSET (Rand \cup Nat)
    BY ONLY <2>2
  <2> QED BY ONLY <2>1, <2>3, XorType
<1>6. Holds(Rekeyed(o, s), p)
  <2>1. r \in Nat /\ 1 \in Nat
    BY <1>4
  <2>2. Rekeyed(o, s) \in State
    <3> DEFINE inonce == Xor(s.inonce, {r})
    <3>1. inonce \in SUBSET (Rand \cup Nat) /\ Rekeyed(o, s) = [k |-> r, ctr |-> 1, inonce |-> inonce]
      BY <1>2, <1>5
    <3> HIDE DEF inonce
    <3> QED BY <2>1, <3>1 DEF State
  <2>3. Rekeyed(o, s).k = r /\ Rekeyed(o, s).ctr = 1
    BY <1>2
  <2>4. 1 \in 1 .. CounterMod - 1
    BY ModAssumption
  <2> QED BY <1>4, <2>2, <2>3, <2>4 DEF Holds
<1> QED BY <1>2, <1>4, <1>6 DEF p, q

(* The counter wraps to 0, or grows.                                       *)
LEMMA Wraps ==
    ASSUME NEW M \in Nat \ {0, 1}, NEW c \in 1 .. M - 1
    PROVE  /\ (c + 1) % M \in Nat
           /\ (c + 1) % M # 0 => (c + 1) % M = c + 1 /\ c + 1 \in 1 .. M - 1
  OBVIOUS

(* A message yields a larger key, or the same key with a larger counter.   *)
LEMMA MessageGrows ==
    ASSUME NEW o, NEW known, OracleInv(o, known), NEW s, Holds(s, o), NEW mac \in Nat, NEW tag
    PROVE  /\ OracleInv(OracleAfter(o, s, tag, mac), known)
           /\ Holds(After(o, s, tag, mac), OracleAfter(o, s, tag, mac))
           /\ \/ s.k < After(o, s, tag, mac).k
              \/ /\ ~ MustRekey(Advance(s, mac), tag)
                 /\ After(o, s, tag, mac).k = s.k
                 /\ After(o, s, tag, mac).ctr = s.ctr + 1
           /\ Len(o) <= Len(OracleAfter(o, s, tag, mac))
           /\ Advance(s, mac).k = s.k
           /\ Advance(s, mac).ctr \in {0, s.ctr + 1}
<1> DEFINE a == Advance(s, mac)
<1>1. a = [k |-> s.k, ctr |-> (s.ctr + 1) % CounterMod, inonce |-> Xor(s.inonce, {mac})]
  BY DEF Advance
<1>2. s \in State /\ s.k \in Nat /\ s.k \in 1 .. Len(o) /\ s.ctr \in 1 .. CounterMod - 1
  BY DEF Holds, State
<1>3. /\ (s.ctr + 1) % CounterMod \in Nat
      /\ (s.ctr + 1) % CounterMod # 0
            => (s.ctr + 1) % CounterMod = s.ctr + 1 /\ s.ctr + 1 \in 1 .. CounterMod - 1
  BY <1>2, Wraps, ModAssumption
<1>4. Xor(s.inonce, {mac}) \in SUBSET (Rand \cup Nat)
  <2>1. s.inonce \in SUBSET (Rand \cup Nat) /\ {mac} \in SUBSET (Rand \cup Nat)
    BY <1>2 DEF State
  <2> QED BY ONLY <2>1, XorType
<1>5. a \in State /\ a.k = s.k /\ a.ctr = (s.ctr + 1) % CounterMod
  <2> DEFINE c == (s.ctr + 1) % CounterMod
             x == Xor(s.inonce, {mac})
  <2>1. a = [k |-> s.k, ctr |-> c, inonce |-> x] /\ c \in Nat /\ x \in SUBSET (Rand \cup Nat)
    BY <1>1, <1>3, <1>4
  <2> HIDE DEF a, c, x
  <2>2. a \in State /\ a.k = s.k /\ a.ctr = c
    BY <1>2, <2>1 DEF State
  <2> QED BY <2>2 DEF c
<1> HIDE DEF a
<1>6. a.ctr \in {0, s.ctr + 1}
  BY <1>3, <1>5
<1>7. CASE MustRekey(a, tag)
  <2>1. After(o, s, tag, mac) = Rekeyed(o, a) /\ OracleAfter(o, s, tag, mac) = Ask(o, RekeyStream(a))
    BY <1>7 DEF After, OracleAfter, a
  <2>2. a.k \in 1 .. Len(o)
    BY <1>2, <1>5
  <2>3. /\ OracleInv(Ask(o, RekeyStream(a)), known)
        /\ Holds(Rekeyed(o, a), Ask(o, RekeyStream(a)))
        /\ a.k < Rekeyed(o, a).k
        /\ Len(o) <= Len(Ask(o, RekeyStream(a)))
    BY <1>5, <2>2, RekeyGrows
  <2> QED BY <1>5, <1>6, <2>1, <2>3 DEF a
<1>8. CASE ~ MustRekey(a, tag)
  <2>1. After(o, s, tag, mac) = a /\ OracleAfter(o, s, tag, mac) = o
    BY <1>8 DEF After, OracleAfter, a
  <2>2. a.ctr # 0
    BY <1>8 DEF MustRekey
  <2>3. a.ctr = s.ctr + 1 /\ a.ctr \in 1 .. CounterMod - 1
    BY <1>3, <1>5, <2>2
  <2>4. Holds(a, o)
    BY <1>2, <1>5, <2>3 DEF Holds
  <2>5. Len(o) <= Len(o)
    BY DEF OracleInv
  <2> QED BY <1>5, <1>6, <1>8, <2>1, <2>3, <2>4, <2>5 DEF a
<1> QED BY <1>7, <1>8

-----------------------------------------------------------------------------
(* The uses of the keystream.                                              *)

(* No block counter comes back within a message that push() accepts.       *)
LEMMA BlocksDiffer ==
    ASSUME NEW m \in Msgs, Size[m] <= MESSAGEBYTES_MAX,
           NEW a \in DOMAIN Blocks(m), NEW b \in DOMAIN Blocks(m), a # b
    PROVE  Blocks(m)[a] # Blocks(m)[b]
<1> DEFINE n == MessageBlocks(m)
<1>1. Size[m] \in Nat /\ BlockBytes \in Nat \ {0} /\ BlockMod \in Nat \ {0, 1}
  BY SizeAssumption, ModAssumption
<1>2. n \in Nat /\ n * BlockBytes <= Size[m] + BlockBytes - 1
  BY <1>1 DEF MessageBlocks
<1>3. n <= BlockMod - 2
  <2>1. Size[m] <= BlockBytes * (BlockMod - 2)
    BY DEF MESSAGEBYTES_MAX
  <2>2. SUFFICES ASSUME n > BlockMod - 2 PROVE FALSE
    BY <1>1, <1>2
  <2> HIDE DEF n
  <2>3. n >= BlockMod - 1
    BY <1>1, <1>2, <2>2
  <2>4. n * BlockBytes >= (BlockMod - 1) * BlockBytes
    BY <1>1, <1>2, <2>3
  <2>5. (BlockMod - 1) * BlockBytes = BlockBytes * (BlockMod - 2) + BlockBytes
    BY <1>1
  <2> QED BY <1>1, <1>2, <2>1, <2>4, <2>5
<1>4. DOMAIN Blocks(m) = 1 .. n + 2 /\ \A j \in 1 .. n + 2 : Blocks(m)[j] = (j - 1) % BlockMod
  BY DEF Blocks
<1> HIDE DEF n
<1>5. \A j \in 1 .. n + 2 : (j - 1) % BlockMod = j - 1
  <2>1. ASSUME NEW M \in Nat \ {0, 1}, NEW x \in 0 .. M - 1 PROVE x % M = x
    OBVIOUS
  <2>2. \A j \in 1 .. n + 2 : j - 1 \in 0 .. BlockMod - 1
    BY <1>1, <1>2, <1>3
  <2> QED BY <1>1, <2>1, <2>2
<1> QED BY <1>2, <1>4, <1>5

Below(u, s) == u.k < s.k \/ (u.k = s.k /\ 1 <= u.ctr /\ u.ctr < s.ctr)

Uses(us) ==
    /\ us \in Seq(Use)
    /\ \A i, j \in DOMAIN us : i # j => <<us[i].k, us[i].ctr>> # <<us[j].k, us[j].ctr>>

(* A use of a new key and counter can be added.                            *)
LEMMA NewUse ==
    ASSUME NEW us, Uses(us), NEW u \in Use,
           \A i \in DOMAIN us : us[i].k # u.k \/ us[i].ctr # u.ctr
    PROVE  /\ Uses(Append(us, u))
           /\ \A i \in DOMAIN Append(us, u) : (i \in DOMAIN us /\ Append(us, u)[i] = us[i])
                                              \/ Append(us, u)[i] = u
<1> DEFINE v == Append(us, u)
<1>1. us \in Seq(Use)
  BY DEF Uses
<1>2. /\ v \in Seq(Use) /\ DOMAIN us = 1 .. Len(us) /\ DOMAIN v = 1 .. Len(us) + 1
      /\ v[Len(us) + 1] = u /\ \A i \in 1 .. Len(us) : v[i] = us[i]
      /\ Len(us) \in Nat
  BY <1>1
<1> HIDE DEF v
<1>3. ASSUME NEW i \in DOMAIN v, NEW j \in DOMAIN v, i # j
      PROVE  <<v[i].k, v[i].ctr>> # <<v[j].k, v[j].ctr>>
  <2>1. CASE i \in DOMAIN us /\ j \in DOMAIN us
    BY <1>2, <1>3, <2>1 DEF Uses
  <2>2. CASE i \in DOMAIN us /\ j = Len(us) + 1
    BY <1>2, <2>2
  <2>3. CASE j \in DOMAIN us /\ i = Len(us) + 1
    BY <1>2, <2>3
  <2> QED BY <1>2, <1>3, <2>1, <2>2, <2>3
<1>4. \A i \in DOMAIN v : (i \in DOMAIN us /\ v[i] = us[i]) \/ v[i] = u
  BY <1>2
<1> QED BY <1>2, <1>3, <1>4 DEF Uses, v

LEMMA AppendTwo ==
    ASSUME NEW us \in Seq(Use), NEW u \in Use, NEW w \in Use
    PROVE  /\ us \o (<<u>> \o <<>>) = Append(us, u)
           /\ us \o (<<u>> \o <<w>>) = Append(Append(us, u), w)
  OBVIOUS

-----------------------------------------------------------------------------
(* The inductive invariant: an end that is initialised holds an answer as  *)
(* key, and what the pushing end used is older than what it holds.         *)
KeyInv ==
    /\ OracleInv(oracle, seen)
    /\ snd = None \/ Holds(snd, oracle)
    /\ rcv = None \/ Holds(rcv, oracle)
    /\ snd = None => used = <<>>
    /\ Uses(used)
    /\ \A i \in DOMAIN used : Below(used[i], snd)

(* The state that init_push() and init_pull() make of a header.            *)
LEMMA StartHolds ==
    ASSUME NEW o, NEW known, OracleInv(o, known), NEW more, known \subseteq more,
           NEW h \in Header, h[1] \in more
    PROVE  /\ OracleInv(Ask(o, HChaCha20(h[1])), more)
           /\ Holds(Start(o, h), Ask(o, HChaCha20(h[1])))
           /\ Start(o, h).k = Answer(o, HChaCha20(h[1]))
           /\ Len(o) \in Nat /\ Len(o) <= Len(Ask(o, HChaCha20(h[1])))
<1> DEFINE q == HChaCha20(h[1])
           r == Answer(o, q)
           p == Ask(o, q)
<1>1. q \in Query /\ q.fn = "hchacha20" /\ q.in = h[1] /\ h[1] \in Rand /\ h[2] \in Rand
  BY DEF HChaCha20, Query, Header
<1>2. Start(o, h) = [k |-> r, ctr |-> 1, inonce |-> {h[2]}]
  BY DEF Start, CounterReset
<1> HIDE DEF q
<1>3. OracleInv(p, more) /\ r \in 1 .. Len(p) /\ Len(p) \in Nat /\ Len(o) \in Nat /\ Len(o) <= Len(p)
  BY <1>1, AskKeeps
<1> HIDE DEF r, p
<1>4. Holds(Start(o, h), p)
  <2>1. r \in Nat /\ {h[2]} \in SUBSET (Rand \cup Nat) /\ 1 \in 1 .. CounterMod - 1
    BY <1>1, <1>3, ModAssumption
  <2>2. Start(o, h) \in State /\ Start(o, h).k = r /\ Start(o, h).ctr = 1
    BY <1>2, <2>1 DEF State
  <2> QED BY <1>3, <2>1, <2>2 DEF Holds
<1> QED BY <1>2, <1>3, <1>4 DEF p, q, r

(* init_push() starts with a key that is younger than every other.         *)
LEMMA InitPushKeeps ==
    ASSUME KeyInv, NEW r \in Rand, InitPush(r) PROVE KeyInv'
<1> DEFINE h == <<r, r>>
<1>1. h \in Header /\ h[1] = r /\ r \in seen' /\ seen \subseteq seen'
  BY DEF Header, InitPush
<1>2. /\ OracleInv(oracle', seen') /\ Holds(snd', oracle')
      /\ snd'.k = Answer(oracle, HChaCha20(r))
      /\ Len(oracle) \in Nat /\ Len(oracle) <= Len(oracle')
  BY <1>1, StartHolds DEF InitPush, KeyInv
<1>3. ~ Asked(oracle, HChaCha20(r))
  BY DEF InitPush, KeyInv, OracleInv, Asked, HChaCha20
<1>4. snd'.k = Len(oracle) + 1
  BY <1>2, <1>3 DEF Answer
<1>5. ASSUME NEW i \in DOMAIN used PROVE used[i].k < snd'.k
  <2>1. used[i] \in Use /\ Below(used[i], snd)
    BY DEF KeyInv, Uses
  <2>2. snd # None
    BY DEF KeyInv
  <2>3. snd.k \in 1 .. Len(oracle)
    BY <2>2 DEF KeyInv, Holds
  <2>4. used[i].k \in Nat /\ used[i].k <= snd.k
    BY <2>1, <2>3, <1>2 DEF Below, Use
  <2> QED BY <1>2, <1>4, <2>3, <2>4
<1>6. rcv' = rcv /\ used' = used
  BY DEF InitPush
<1>7. rcv' = None \/ Holds(rcv', oracle')
  BY <1>2, <1>6 DEF KeyInv, Holds
<1>8. snd' # None
  BY <1>2 DEF Holds, None
<1> QED BY <1>2, <1>5, <1>6, <1>7, <1>8 DEF KeyInv, Below

(* What holds of an end still holds when the oracle has grown.             *)
LEMMA StillHolds ==
    ASSUME NEW s, NEW o, NEW p, Len(o) \in Nat, Len(p) \in Nat, Len(o) <= Len(p),
           s = None \/ Holds(s, o)
    PROVE  s = None \/ Holds(s, p)
  BY DEF Holds

LEMMA MacKeeps ==
    ASSUME KeyInv, NEW s, Holds(s, oracle), NEW m \in Msgs, NEW ad \in Ads, NEW tag \in Tags
    PROVE  /\ OracleInv(Ask(oracle, Poly1305(s, ad, tag, m)), seen)
           /\ Answer(oracle, Poly1305(s, ad, tag, m)) \in Nat
           /\ Holds(s, Ask(oracle, Poly1305(s, ad, tag, m)))
           /\ Len(oracle) \in Nat
           /\ Len(oracle) <= Len(Ask(oracle, Poly1305(s, ad, tag, m)))
<1> DEFINE q == Poly1305(s, ad, tag, m)
<1>1. q \in Query /\ q.fn = "poly1305"
  BY DEF Poly1305, Query, Holds, State
<1> HIDE DEF q
<1>2. /\ OracleInv(Ask(oracle, q), seen)
      /\ Answer(oracle, q) \in 1 .. Len(Ask(oracle, q))
      /\ Len(oracle) \in Nat /\ Len(Ask(oracle, q)) \in Nat /\ Len(oracle) <= Len(Ask(oracle, q))
  BY <1>1, AskKeeps DEF KeyInv
<1> QED BY <1>2 DEF Holds, q

(* push() uses the keystream at a place that is newer than every earlier   *)
(* one, for the message and, when it rekeys, for the new key.              *)
LEMMA PushKeeps ==
    ASSUME KeyInv, NEW m \in Msgs, NEW ad \in Ads, NEW tag \in Tags, Push(m, ad, tag)
    PROVE  KeyInv'
<1> DEFINE q   == Poly1305(snd, ad, tag, m)
           mac == Answer(oracle, q)
           o   == Ask(oracle, q)
           a   == Advance(snd, mac)
           u   == [k |-> snd.k, ctr |-> snd.ctr, inonce |-> snd.inonce, blocks |-> Blocks(m)]
           w   == RekeyUse(a)
<1>1. Holds(snd, oracle) /\ Size[m] <= MESSAGEBYTES_MAX
  BY DEF Push, KeyInv
<1>2. /\ OracleInv(o, seen) /\ mac \in Nat /\ Holds(snd, o)
      /\ Len(oracle) \in Nat /\ Len(oracle) <= Len(o)
  BY <1>1, MacKeeps
<1>3. /\ oracle' = OracleAfter(o, snd, tag, mac) /\ snd' = After(o, snd, tag, mac)
      /\ used' = used \o (<<u>> \o (IF MustRekey(a, tag) THEN <<w>> ELSE <<>>))
      /\ seen' = seen /\ rcv' = rcv
  BY DEF Push, UsesAfter
<1>4. /\ OracleInv(oracle', seen') /\ Holds(snd', oracle')
      /\ \/ snd.k < snd'.k
         \/ ~ MustRekey(a, tag) /\ snd'.k = snd.k /\ snd'.ctr = snd.ctr + 1
      /\ Len(o) <= Len(oracle')
      /\ a.k = snd.k /\ a.ctr \in {0, snd.ctr + 1}
  <2> HIDE DEF mac, o
  <2> QED BY <1>2, <1>3, MessageGrows
<1>5. u \in Use /\ u.k = snd.k /\ u.ctr = snd.ctr
  <2>1. Blocks(m) \in {<<0>>} \cup {Blocks(x) : x \in Fits}
    BY <1>1 DEF Fits
  <2> QED BY <1>1, <2>1 DEF Use, Holds, State
<1>6. w \in Use /\ w.k = snd.k /\ w.ctr = a.ctr
  <2>1. a.inonce \in SUBSET (Rand \cup Nat)
    <3>1. snd.inonce \in SUBSET (Rand \cup Nat) /\ {mac} \in SUBSET (Rand \cup Nat)
      BY <1>1, <1>2 DEF Holds, State
    <3> HIDE DEF mac
    <3>2. a.inonce = Xor(snd.inonce, {mac})
      BY DEF Advance
    <3>3. Xor(snd.inonce, {mac}) \in SUBSET (Rand \cup Nat)
      BY ONLY <3>1, XorType
    <3> QED BY <3>2, <3>3
  <2>2. a.k \in Nat /\ a.ctr \in Nat
    BY <1>1, <1>4 DEF Holds, State
  <2> HIDE DEF a
  <2> QED BY <1>4, <2>1, <2>2 DEF Use, RekeyUse
<1>7. snd.k \in Nat /\ snd.ctr \in Nat /\ 1 <= snd.ctr /\ snd'.k \in Nat /\ snd'.ctr \in Nat
  BY <1>1, <1>4 DEF Holds, State
<1> HIDE DEF a, u, w, o, mac, q
<1>8. ASSUME NEW i \in DOMAIN used
      PROVE  /\ used[i].k \in Nat /\ used[i].ctr \in Nat
             /\ Below(used[i], snd) /\ Below(used[i], snd')
             /\ used[i].k # snd.k \/ used[i].ctr # snd.ctr
             /\ used[i].k # snd.k \/ used[i].ctr # a.ctr
  <2>1. used[i] \in Use /\ Below(used[i], snd)
    BY DEF KeyInv, Uses
  <2>2. used[i].k \in Nat /\ used[i].ctr \in Nat
    BY <2>1 DEF Use
  <2> QED BY <1>4, <1>7, <2>1, <2>2 DEF Below
<1>9. Below(u, snd') /\ (snd.k < snd'.k => Below(w, snd'))
  BY <1>4, <1>5, <1>6, <1>7 DEF Below
<1>10. /\ Uses(Append(used, u))
       /\ \A i \in DOMAIN Append(used, u) : (i \in DOMAIN used /\ Append(used, u)[i] = used[i])
                                            \/ Append(used, u)[i] = u
  BY <1>5, <1>8, NewUse DEF KeyInv
<1>11. Uses(used') /\ \A i \in DOMAIN used' : Below(used'[i], snd')
  <2>1. CASE ~ MustRekey(a, tag)
    <3>1. used' = Append(used, u)
      BY <1>3, <1>5, <1>6, <2>1, AppendTwo DEF KeyInv, Uses
    <3> QED BY <1>8, <1>9, <1>10, <3>1
  <2>2. CASE MustRekey(a, tag)
    <3> DEFINE v == Append(used, u)
    <3>1. used' = Append(v, w)
      BY <1>3, <1>5, <1>6, <2>2, AppendTwo DEF KeyInv, Uses
    <3>2. snd.k < snd'.k
      BY <1>4, <2>2
    <3> HIDE DEF v
    <3>3. Uses(v) /\ \A i \in DOMAIN v : (i \in DOMAIN used /\ v[i] = used[i]) \/ v[i] = u
      BY <1>10 DEF v
    <3>4. \A i \in DOMAIN v : v[i].k # w.k \/ v[i].ctr # w.ctr
      BY <3>3, <1>4, <1>5, <1>6, <1>7, <1>8
    <3>5. /\ Uses(Append(v, w))
          /\ \A i \in DOMAIN Append(v, w) : (i \in DOMAIN v /\ Append(v, w)[i] = v[i])
                                           \/ Append(v, w)[i] = w
      BY <3>3, <3>4, <1>6, NewUse
    <3> QED BY <3>1, <3>2, <3>3, <3>5, <1>8, <1>9
  <2> QED BY <2>1, <2>2
<1>12. rcv' = None \/ Holds(rcv', oracle')
  <2>1. Len(oracle') \in Nat /\ Len(o) \in Nat
    BY <1>2, <1>4 DEF OracleInv
  <2>2. Len(oracle) <= Len(oracle')
    BY <1>2, <1>4, <2>1
  <2> QED BY <1>2, <1>3, <2>1, <2>2, StillHolds DEF KeyInv
<1>13. snd' # None
  BY <1>4 DEF Holds, None
<1> QED BY <1>4, <1>11, <1>12, <1>13 DEF KeyInv

LEMMA RekeySenderKeeps ==
    ASSUME KeyInv, RekeySender PROVE KeyInv'
<1> DEFINE w == RekeyUse(snd)
<1>1. Holds(snd, oracle) /\ snd.k \in Nat /\ snd.ctr \in Nat /\ snd \in State
  BY DEF RekeySender, KeyInv, Holds, State
<1>2. /\ OracleInv(oracle', seen') /\ Holds(snd', oracle') /\ snd.k < snd'.k
      /\ Len(oracle) <= Len(oracle')
  BY <1>1, RekeyGrows DEF RekeySender, KeyInv, Holds
<1>3. w \in Use /\ w.k = snd.k /\ w.ctr = snd.ctr
  BY <1>1 DEF RekeyUse, Use, State
<1>4. used' = Append(used, w) /\ rcv' = rcv
  BY DEF RekeySender
<1> HIDE DEF w
<1>5. ASSUME NEW i \in DOMAIN used
      PROVE  /\ Below(used[i], snd')
             /\ used[i].k # w.k \/ used[i].ctr # w.ctr
  <2>1. used[i] \in Use /\ Below(used[i], snd)
    BY DEF KeyInv, Uses
  <2>2. used[i].k \in Nat /\ used[i].ctr \in Nat /\ snd'.k \in Nat
    BY <1>2, <2>1 DEF Use, Holds, State
  <2> QED BY <1>1, <1>2, <1>3, <2>1, <2>2 DEF Below
<1>6. Below(w, snd')
  BY <1>2, <1>3 DEF Below
<1>7. /\ Uses(used')
      /\ \A i \in DOMAIN used' : (i \in DOMAIN used /\ used'[i] = used[i]) \/ used'[i] = w
  BY <1>3, <1>4, <1>5, NewUse DEF KeyInv
<1>8. rcv' = None \/ Holds(rcv', oracle')
  <2>1. Len(oracle) \in Nat /\ Len(oracle') \in Nat
    BY <1>2 DEF OracleInv, KeyInv
  <2> QED BY <1>2, <1>4, <2>1, StillHolds DEF KeyInv
<1>9. snd' # None
  BY <1>2 DEF Holds, None
<1> QED BY <1>2, <1>5, <1>6, <1>7, <1>8, <1>9 DEF KeyInv

(* The pulling end only makes the oracle grow.                             *)
LEMMA ReceiverKeeps ==
    ASSUME KeyInv, OracleInv(oracle', seen'), Len(oracle) <= Len(oracle'),
           rcv' = None \/ Holds(rcv', oracle'), snd' = snd, used' = used
    PROVE  KeyInv'
<1>1. Len(oracle) \in Nat /\ Len(oracle') \in Nat
  BY DEF OracleInv, KeyInv
<1>2. snd' = None \/ Holds(snd', oracle')
  BY <1>1, StillHolds DEF KeyInv
<1> QED BY <1>2 DEF KeyInv

LEMMA KeyStep == KeyInv /\ [Next]_vars => KeyInv'
<1> SUFFICES ASSUME KeyInv, [Next]_vars PROVE KeyInv'
  OBVIOUS
<1>1. ASSUME NEW r \in Rand, InitPush(r) PROVE KeyInv'
  BY <1>1, InitPushKeeps
<1>2. ASSUME NEW m \in Msgs, NEW ad \in Ads, NEW tag \in Tags, Push(m, ad, tag) PROVE KeyInv'
  BY <1>2, PushKeeps
<1>3. ASSUME NEW m \in Msgs, PushTooLong(m) PROVE KeyInv'
  BY <1>3 DEF PushTooLong, KeyInv
<1>4. ASSUME RekeySender PROVE KeyInv'
  BY <1>4, RekeySenderKeeps
<1>5. ASSUME NEW header \in Header, InitPull(header) PROVE KeyInv'
  <2>1. seen \subseteq seen' /\ header[1] \in seen'
    BY <1>5 DEF InitPull
  <2>2. OracleInv(oracle', seen') /\ Holds(rcv', oracle') /\ Len(oracle) <= Len(oracle')
    BY <1>5, <2>1, StartHolds DEF InitPull, KeyInv
  <2> QED BY <1>5, <2>2, ReceiverKeeps DEF InitPull
<1>6. ASSUME NEW m \in Msgs, NEW ad \in Ads, NEW tag \in Tags, NEW mac \in {0} \cup DOMAIN oracle,
             PullAccepts(m, ad, tag, mac)
      PROVE  KeyInv'
  <2>1. Holds(rcv, oracle) /\ mac \in Nat
    <3>1. DOMAIN oracle = 1 .. Len(oracle)
      BY DEF KeyInv, OracleInv
    <3> QED BY <1>6, <3>1 DEF PullAccepts, KeyInv
  <2>2. OracleInv(oracle', seen') /\ Holds(rcv', oracle') /\ Len(oracle) <= Len(oracle')
    BY <1>6, <2>1, MessageGrows DEF PullAccepts, KeyInv
  <2> QED BY <1>6, <2>2, ReceiverKeeps DEF PullAccepts
<1>7. ASSUME NEW m \in Msgs, NEW ad \in Ads, NEW tag \in Tags, NEW mac \in {0} \cup DOMAIN oracle,
             PullRejects(m, ad, tag, mac)
      PROVE  KeyInv'
  BY <1>7 DEF PullRejects, KeyInv, vars
<1>8. ASSUME NEW m \in Msgs, PullTooLong(m) PROVE KeyInv'
  BY <1>8 DEF PullTooLong, KeyInv
<1>9. ASSUME RekeyReceiver PROVE KeyInv'
  <2>1. Holds(rcv, oracle)
    BY <1>9 DEF RekeyReceiver, KeyInv
  <2>2. OracleInv(oracle', seen') /\ Holds(rcv', oracle') /\ Len(oracle) <= Len(oracle')
    BY <1>9, <2>1, RekeyGrows DEF RekeyReceiver, KeyInv, Holds
  <2> QED BY <1>9, <2>2, ReceiverKeeps DEF RekeyReceiver
<1>10. CASE UNCHANGED vars
  BY <1>10 DEF vars, KeyInv
<1> QED BY <1>1, <1>2, <1>3, <1>4, <1>5, <1>6, <1>7, <1>8, <1>9, <1>10 DEF Next, Pull


(* However long its streams, and however many, the pushing end uses each   *)
(* block of each keystream once, for any width of the counter.             *)
THEOREM KeystreamOnce == Spec => []KeystreamNeverReused
<1>1. Init => KeyInv
  <2> SUFFICES ASSUME Init PROVE KeyInv
    OBVIOUS
  <2>1. OracleInv(<<>>, {}) /\ Uses(<<>>)
    BY DEF OracleInv, Uses
  <2> QED BY <2>1 DEF Init, KeyInv
<1>2. KeyInv => KeystreamNeverReused
  <2> SUFFICES ASSUME KeyInv PROVE KeystreamNeverReused
    OBVIOUS
  <2>1. ASSUME NEW i \in DOMAIN used, NEW a \in DOMAIN used[i].blocks,
               NEW b \in DOMAIN used[i].blocks, a # b
        PROVE  used[i].blocks[a] # used[i].blocks[b]
    <3>1. used[i] \in Use
      BY DEF KeyInv, Uses
    <3>2. used[i].blocks = <<0>> \/ \E m \in Fits : used[i].blocks = Blocks(m)
      BY <3>1 DEF Use
    <3>3. CASE used[i].blocks = <<0>>
      BY <2>1, <3>3
    <3>4. CASE \E m \in Fits : used[i].blocks = Blocks(m)
      BY <2>1, <3>4, BlocksDiffer DEF Fits
    <3> QED BY <3>2, <3>3, <3>4
  <2> QED BY <2>1 DEF KeyInv, Uses, KeystreamNeverReused
<1> QED BY <1>1, <1>2, KeyStep, PTL DEF Spec

-----------------------------------------------------------------------------
(* The two ends agree: what the receiver accepts is what the sender sent,  *)
(* in its order, and what they hold is the same as long as they have done  *)
(* the same, for every number of streams, of messages and of rekeyings,    *)
(* and every width of the counter.  Hence SecretStream implements          *)
(* AuthStream.                                                             *)

(* A set of natural numbers has a least element: induction, for what       *)
(* follows.                                                                *)
LEMMA Least ==
    ASSUME NEW T \in SUBSET Nat, T # {}
    PROVE  \E x \in T : \A y \in T : x <= y
<1>1. IsWellFoundedOn(OpToRel(<, Nat), Nat)
  BY NatLessThanWellFounded
<1>2. PICK x \in T : \A y \in T : ~ (<<y, x>> \in OpToRel(<, Nat))
  BY ONLY <1>1, WFMin, T \in SUBSET Nat, T # {}, Zenon
<1>3. \A y \in T : ~ (y < x)
  BY <1>2 DEF OpToRel
<1> QED BY <1>3

-----------------------------------------------------------------------------
(* The answers of the primitives are in the order of the questions.        *)

Number(inonce) == inonce \cap Nat

(* No query is there twice, and a query is younger than its parts.         *)
Distinct(o) == \A i, j \in DOMAIN o : o[i] = o[j] => i = j
Older(q, n) == q.fn # "hchacha20" => q.k < n /\ \A x \in Number(q.inonce) : x < n
Good(o)     == o \in Seq(Query) /\ Distinct(o) /\ \A i \in DOMAIN o : Older(o[i], i)

(* The oracle p knows what o knows.                                        *)
Grows(o, p) == /\ Good(o) /\ Good(p) /\ Len(o) \in Nat /\ Len(p) \in Nat /\ Len(o) <= Len(p)
               /\ \A i \in 1 .. Len(o) : p[i] = o[i]

Knows(o, q, i) == i \in 1 .. Len(o) /\ o[i] = q

LEMMA AskGood ==
    ASSUME NEW o, Good(o), NEW q \in Query, Older(q, Len(o) + 1)
    PROVE  /\ Grows(o, Ask(o, q))
           /\ Knows(Ask(o, q), q, Answer(o, q))
           /\ \A i \in DOMAIN Ask(o, q) : i \in DOMAIN o \/ (i = Len(o) + 1 /\ Ask(o, q)[i] = q)
<1> DEFINE p == Ask(o, q)
<1>1. o \in Seq(Query)
  BY DEF Good
<1>2. /\ p \in Seq(Query)
      /\ Answer(o, q) \in 1 .. Len(p) /\ p[Answer(o, q)] = q
      /\ Len(o) <= Len(p)
      /\ \A i \in 1 .. Len(o) : p[i] = o[i]
      /\ \A i \in DOMAIN p : i \in DOMAIN o \/ (i = Len(o) + 1 /\ p[i] = q)
  BY <1>1, AskAnswers
<1>3. Good(p)
  <2>1. CASE Asked(o, q)
    BY <2>1 DEF Ask
  <2>2. CASE ~ Asked(o, q)
    <3> HIDE DEF p
    <3>1. DOMAIN o = 1 .. Len(o) /\ DOMAIN p = 1 .. Len(p) /\ Len(o) \in Nat
      BY <1>1, <1>2
    <3>2. ASSUME NEW i \in DOMAIN p PROVE Older(p[i], i)
      BY <1>2, <3>1 DEF Good
    <3>3. ASSUME NEW i \in DOMAIN p, NEW j \in DOMAIN p, p[i] = p[j] PROVE i = j
      BY <1>2, <2>2, <3>1, <3>3 DEF Good, Distinct, Asked
    <3> QED BY <1>2, <3>2, <3>3 DEF Good, Distinct
  <2> QED BY <2>1, <2>2
<1> HIDE DEF p
<1>4. Len(o) \in Nat /\ Len(p) \in Nat
  BY <1>1, <1>2
<1> QED BY <1>2, <1>3, <1>4 DEF Grows, Knows, p

LEMMA GrowsKnows ==
    ASSUME NEW o, NEW p, Grows(o, p), NEW q, NEW i, Knows(o, q, i)
    PROVE  Knows(p, q, i)
  BY DEF Grows, Knows

LEMMA GrowsMore ==
    ASSUME NEW o, NEW p, NEW r, Grows(o, p), Grows(p, r) PROVE Grows(o, r)
<1>1. ASSUME NEW i \in 1 .. Len(o) PROVE r[i] = o[i]
  BY DEF Grows
<1> QED BY <1>1 DEF Grows

LEMMA KnowsOnce ==
    ASSUME NEW o, Good(o), NEW q, NEW i, NEW j, Knows(o, q, i), Knows(o, q, j) PROVE i = j
  BY DEF Good, Distinct, Knows

-----------------------------------------------------------------------------
(* The last atom of a nonce tells what was done last.                      *)

Top(inonce, x) == x \in Number(inonce) /\ \A y \in Number(inonce) : y <= x

(* The last operation was a rekeying, or a message that did not cause one. *)
Settled(q) == q.fn = "rekey" \/ (q.fn = "poly1305" /\ ~ HasRekeyBit(q.tag))

Legit(s, o) ==
    /\ Holds(s, o)
    /\ \A x \in Number(s.inonce) : x \in 1 .. Len(o)
    /\ \A x : Top(s.inonce, x) => Settled(o[x])

LEMMA XorOne ==
    ASSUME NEW a \in SUBSET (Rand \cup Nat), NEW x \in Nat
    PROVE  Xor(a, {x}) \in SUBSET (Rand \cup Nat)
  BY DEF Xor, SSE!SymDiff

LEMMA OneTop ==
    ASSUME NEW a, NEW x, NEW y, Top(a, x), Top(a, y) PROVE x = y
  BY DEF Top, Number

LEMMA NewTop ==
    ASSUME NEW a, NEW x \in Nat, \A y \in Number(a) : y < x
    PROVE  /\ Top(Xor(a, {x}), x)
           /\ \A y \in Number(Xor(a, {x})) : y = x \/ y \in Number(a)
  BY DEF Top, Number, Xor, SSE!SymDiff

LEMMA NoTop ==
    ASSUME NEW r \in Rand PROVE Number({r}) = {} /\ \A x : ~ Top({r}, x)
  BY RandAssumption DEF Top, Number

LEMMA LegitStays ==
    ASSUME NEW s, NEW o, NEW p, Legit(s, o), Grows(o, p) PROVE Legit(s, p)
<1>1. Holds(s, p)
  BY DEF Legit, Holds, Grows
<1>2. ASSUME NEW x, Top(s.inonce, x) PROVE Settled(p[x])
  <2>1. x \in 1 .. Len(o) /\ Settled(o[x])
    BY <1>2 DEF Legit, Top
  <2> QED BY <2>1 DEF Grows
<1> QED BY <1>1, <1>2 DEF Legit, Grows

-----------------------------------------------------------------------------
(* What an operation makes of a state, in terms of what the oracle knows.  *)

RekeyedTo(s, r) == [k |-> r, ctr |-> 1, inonce |-> Xor(s.inonce, {r})]

RekeysTo(o, s, t) == \E r \in Nat : Knows(o, RekeyStream(s), r) /\ t = RekeyedTo(s, r)

Computed(o, s, op) == Knows(o, Poly1305(s, op.ad, op.tag, op.m), op.mac)

StepsQuietly(o, s, op, t) ==
    /\ IsMessage(op) /\ Computed(o, s, op)
    /\ ~ MustRekey(Advance(s, op.mac), op.tag)
    /\ t = Advance(s, op.mac)

StepsRekeying(o, s, op, t) ==
    /\ IsMessage(op) /\ Computed(o, s, op)
    /\ MustRekey(Advance(s, op.mac), op.tag)
    /\ RekeysTo(o, Advance(s, op.mac), t)

StepsExplicitly(o, s, op, t) == op = Rekey /\ RekeysTo(o, s, t)

Steps(o, s, op, t) ==
    /\ op \in Op
    /\ StepsQuietly(o, s, op, t) \/ StepsRekeying(o, s, op, t) \/ StepsExplicitly(o, s, op, t)

LEMMA StepsStay ==
    ASSUME NEW o, NEW p, Grows(o, p), NEW s, NEW op, NEW t, Steps(o, s, op, t)
    PROVE  Steps(p, s, op, t)
<1>1. ASSUME NEW a, RekeysTo(o, a, t) PROVE RekeysTo(p, a, t)
  BY <1>1, GrowsKnows DEF RekeysTo
<1>2. ASSUME Computed(o, s, op) PROVE Computed(p, s, op)
  BY <1>2, GrowsKnows DEF Computed
<1> QED BY <1>1, <1>2 DEF Steps, StepsQuietly, StepsRekeying, StepsExplicitly

(* One operation makes one state of a state.                               *)
LEMMA StepsOneWay ==
    ASSUME NEW o, Good(o), NEW s, NEW op, NEW t, NEW u, Steps(o, s, op, t), Steps(o, s, op, u)
    PROVE  t = u
<1>1. ASSUME NEW a, RekeysTo(o, a, t), RekeysTo(o, a, u) PROVE t = u
  <2>1. PICK r \in Nat : Knows(o, RekeyStream(a), r) /\ t = RekeyedTo(a, r)
    BY <1>1 DEF RekeysTo
  <2>2. PICK q \in Nat : Knows(o, RekeyStream(a), q) /\ u = RekeyedTo(a, q)
    BY <1>1 DEF RekeysTo
  <2>3. r = q
    BY <2>1, <2>2, KnowsOnce
  <2> QED BY <2>1, <2>2, <2>3
<1>2. ~ IsMessage(Rekey)
  BY DEF IsMessage, Rekey
<1> QED BY <1>1, <1>2 DEF Steps, StepsQuietly, StepsRekeying, StepsExplicitly

(* What the queries say of the states they were made from.                 *)
LEMMA QueriesDiffer ==
    ASSUME NEW s, NEW t, NEW ad, NEW tag, NEW m, NEW ad2, NEW tag2, NEW m2
    PROVE  /\ RekeyStream(s).fn = "rekey" /\ Poly1305(s, ad, tag, m).fn = "poly1305"
           /\ Poly1305(s, ad, tag, m).tag = tag
           /\ Poly1305(s, ad, tag, m) = Poly1305(t, ad2, tag2, m2) =>
                s.k = t.k /\ s.ctr = t.ctr /\ s.inonce = t.inonce /\ ad = ad2 /\ tag = tag2 /\ m = m2
<1>1. Poly1305(s, ad, tag, m) = Poly1305(t, ad2, tag2, m2) =>
        s.k = t.k /\ s.ctr = t.ctr /\ s.inonce = t.inonce /\ ad = ad2 /\ tag = tag2 /\ m = m2
  <2> DEFINE a == Poly1305(s, ad, tag, m)
             b == Poly1305(t, ad2, tag2, m2)
  <2>1. /\ a.k = s.k /\ a.ctr = s.ctr /\ a.inonce = s.inonce /\ a.ad = ad /\ a.tag = tag /\ a.m = m
        /\ b.k = t.k /\ b.ctr = t.ctr /\ b.inonce = t.inonce /\ b.ad = ad2 /\ b.tag = tag2 /\ b.m = m2
    BY DEF Poly1305
  <2> QED BY <2>1
<1> QED BY <1>1 DEF RekeyStream, Poly1305

LEMMA SameState ==
    ASSUME NEW s \in State, NEW t \in State, s.k = t.k, s.ctr = t.ctr, s.inonce = t.inonce
    PROVE  s = t
  BY DEF State

(* A message adds its MAC, the youngest atom, to the nonce.                *)
LEMMA AdvanceTop ==
    ASSUME NEW o, Good(o), NEW s, Legit(s, o), NEW op, op \in Op, IsMessage(op), Computed(o, s, op)
    PROVE  /\ Advance(s, op.mac) \in State /\ Advance(s, op.mac).k = s.k
           /\ Advance(s, op.mac).ctr # 0 => Advance(s, op.mac).ctr \in 1 .. CounterMod - 1
           /\ Top(Advance(s, op.mac).inonce, op.mac)
           /\ \A x \in Number(Advance(s, op.mac).inonce) : x \in 1 .. Len(o)
           /\ o[op.mac] = Poly1305(s, op.ad, op.tag, op.m)
<1> DEFINE t == Advance(s, op.mac)
<1>1. /\ op.mac \in 1 .. Len(o) /\ o[op.mac] = Poly1305(s, op.ad, op.tag, op.m)
      /\ Len(o) \in Nat /\ DOMAIN o = 1 .. Len(o)
  BY DEF Computed, Knows, Good
<1>2. t = [k |-> s.k, ctr |-> (s.ctr + 1) % CounterMod, inonce |-> Xor(s.inonce, {op.mac})]
  BY DEF Advance
<1> HIDE DEF t
<1>3. /\ s \in State /\ s.k \in 1 .. Len(o) /\ s.ctr \in 1 .. CounterMod - 1
      /\ \A x \in Number(s.inonce) : x \in 1 .. Len(o)
  BY DEF Legit, Holds
<1>4. \A y \in Number(s.inonce) : y < op.mac
  <2>1. Older(o[op.mac], op.mac) /\ o[op.mac].fn = "poly1305" /\ o[op.mac].inonce = s.inonce
    BY <1>1 DEF Good, Poly1305
  <2> QED BY <2>1 DEF Older
<1>5. /\ Top(t.inonce, op.mac)
      /\ \A y \in Number(t.inonce) : y = op.mac \/ y \in Number(s.inonce)
  <2> DEFINE x == op.mac
             a == s.inonce
  <2>1. x \in Nat /\ (\A y \in Number(a) : y < x) /\ t.inonce = Xor(a, {x})
    BY <1>1, <1>2, <1>4
  <2> HIDE DEF x, a
  <2>2. Top(t.inonce, x) /\ \A y \in Number(t.inonce) : y = x \/ y \in Number(a)
    BY <2>1, NewTop
  <2> QED BY <2>2 DEF x, a
<1>6. t.ctr \in Nat /\ (t.ctr # 0 => t.ctr \in 1 .. CounterMod - 1)
  BY <1>2, <1>3, Wraps, ModAssumption
<1>7. t.inonce \in SUBSET (Rand \cup Nat)
  <2>1. s.inonce \in SUBSET (Rand \cup Nat) /\ op.mac \in Nat
    BY <1>1, <1>3 DEF State
  <2> QED BY <1>2, <2>1, XorOne
<1>8. t \in State /\ t.k = s.k
  <2>1. t = [k |-> t.k, ctr |-> t.ctr, inonce |-> t.inonce] /\ t.k = s.k
    BY <1>2
  <2> QED BY <1>3, <1>6, <1>7, <2>1 DEF State
<1>9. \A x \in Number(t.inonce) : x \in 1 .. Len(o)
  BY <1>1, <1>3, <1>5
<1> QED BY <1>1, <1>5, <1>6, <1>8, <1>9 DEF t

(* A message that rekeys nothing leaves its MAC last in the nonce.         *)
LEMMA QuietTop ==
    ASSUME NEW o, Good(o), NEW s, Legit(s, o), NEW op, NEW t, op \in Op, StepsQuietly(o, s, op, t)
    PROVE  /\ Legit(t, o) /\ t.k = s.k
           /\ Top(t.inonce, op.mac)
           /\ o[op.mac] = Poly1305(s, op.ad, op.tag, op.m)
           /\ ~ HasRekeyBit(op.tag)
<1>1. /\ IsMessage(op) /\ Computed(o, s, op) /\ t = Advance(s, op.mac)
      /\ ~ HasRekeyBit(op.tag) /\ t.ctr # 0
  BY DEF StepsQuietly, MustRekey
<1>2. /\ t \in State /\ t.k = s.k /\ t.ctr \in 1 .. CounterMod - 1
      /\ Top(t.inonce, op.mac)
      /\ \A x \in Number(t.inonce) : x \in 1 .. Len(o)
      /\ o[op.mac] = Poly1305(s, op.ad, op.tag, op.m)
  BY <1>1, AdvanceTop
<1>3. ASSUME NEW x, Top(t.inonce, x) PROVE Settled(o[x])
  <2>1. x = op.mac
    BY <1>2, <1>3, OneTop
  <2>2. o[x].fn = "poly1305" /\ o[x].tag = op.tag
    BY <1>2, <2>1 DEF Poly1305
  <2> QED BY <1>1, <2>2 DEF Settled
<1> QED BY <1>1, <1>2, <1>3 DEF Legit, Holds

(* A rekeying leaves its answer last in the nonce.                         *)
LEMMA RekeyTop ==
    ASSUME NEW o, Good(o), NEW s \in State, \A x \in Number(s.inonce) : x \in 1 .. Len(o),
           NEW t, RekeysTo(o, s, t)
    PROVE  /\ Legit(t, o) /\ s.k < t.k
           /\ Top(t.inonce, t.k)
           /\ o[t.k] = RekeyStream(s) /\ o[t.k].fn = "rekey"
<1>1. PICK r \in Nat : Knows(o, RekeyStream(s), r) /\ t = RekeyedTo(s, r)
  BY DEF RekeysTo
<1>2. /\ r \in 1 .. Len(o) /\ o[r] = RekeyStream(s) /\ Len(o) \in Nat /\ DOMAIN o = 1 .. Len(o)
      /\ t = [k |-> r, ctr |-> 1, inonce |-> Xor(s.inonce, {r})]
  BY <1>1 DEF Knows, Good, RekeyedTo
<1>3. Older(o[r], r) /\ o[r].fn = "rekey" /\ o[r].inonce = s.inonce /\ o[r].k = s.k
  BY <1>2 DEF Good, RekeyStream
<1>4. s.k < r /\ \A y \in Number(s.inonce) : y < r
  BY <1>3 DEF Older
<1>5. /\ Top(t.inonce, r)
      /\ \A y \in Number(t.inonce) : y = r \/ y \in Number(s.inonce)
  BY <1>2, <1>4, NewTop
<1>6. t.inonce \in SUBSET (Rand \cup Nat)
  <2>1. s.inonce \in SUBSET (Rand \cup Nat)
    BY DEF State
  <2> QED BY <1>2, <2>1, XorOne
<1>7. t \in State /\ t.k = r /\ t.ctr = 1
  <2>1. t = [k |-> r, ctr |-> 1, inonce |-> t.inonce]
    BY <1>2
  <2> QED BY <1>6, <2>1 DEF State
<1>8. \A x : Top(t.inonce, x) => Settled(o[x])
  BY <1>3, <1>5, OneTop DEF Settled
<1>9. \A x \in Number(t.inonce) : x \in 1 .. Len(o)
  BY <1>2, <1>5
<1>10. Holds(t, o)
  BY <1>2, <1>7, ModAssumption DEF Holds
<1>11. Legit(t, o)
  BY <1>8, <1>9, <1>10 DEF Legit
<1> QED BY <1>2, <1>3, <1>4, <1>5, <1>7, <1>11

(* An operation that discards the key.                                     *)
Discarding(op) == op = Rekey \/ (IsMessage(op) /\ HasRekeyBit(op.tag))

(* An operation makes a state of a state, with an atom in its nonce; the   *)
(* key does not get older, and it does get younger where it is discarded.  *)
LEMMA StepsTop ==
    ASSUME NEW o, Good(o), NEW s, Legit(s, o), NEW op, NEW t, Steps(o, s, op, t)
    PROVE  /\ Legit(t, o) /\ s.k <= t.k /\ (Discarding(op) => s.k < t.k)
           /\ \E x : Top(t.inonce, x)
<1>1. op \in Op /\ s \in State /\ s.k \in Nat
  BY DEF Steps, Legit, Holds, State
<1>2. CASE StepsQuietly(o, s, op, t)
  <2>1. /\ Legit(t, o) /\ t.k = s.k /\ Top(t.inonce, op.mac) /\ ~ HasRekeyBit(op.tag)
    BY <1>1, <1>2, QuietTop
  <2>2. op # Rekey
    BY <1>2 DEF StepsQuietly, IsMessage, Rekey
  <2> QED BY <1>1, <2>1, <2>2 DEF Discarding
<1>3. CASE StepsRekeying(o, s, op, t)
  <2> DEFINE a == Advance(s, op.mac)
  <2>1. /\ a \in State /\ a.k = s.k /\ \A x \in Number(a.inonce) : x \in 1 .. Len(o)
    BY <1>1, <1>3, AdvanceTop DEF StepsRekeying
  <2>2. RekeysTo(o, a, t)
    BY <1>3 DEF StepsRekeying
  <2> HIDE DEF a
  <2>3. Legit(t, o) /\ a.k < t.k /\ Top(t.inonce, t.k)
    BY <2>1, <2>2, RekeyTop
  <2>4. t.k \in Nat
    BY <2>3 DEF Legit, Holds, State
  <2> QED BY <1>1, <2>1, <2>3, <2>4
<1>4. CASE StepsExplicitly(o, s, op, t)
  <2>1. RekeysTo(o, s, t) /\ \A x \in Number(s.inonce) : x \in 1 .. Len(o)
    BY <1>4 DEF StepsExplicitly, Legit
  <2>2. Legit(t, o) /\ s.k < t.k /\ Top(t.inonce, t.k)
    BY <1>1, <2>1, RekeyTop
  <2>3. t.k \in Nat
    BY <2>2 DEF Legit, Holds, State
  <2> QED BY <1>1, <2>2, <2>3
<1> QED BY <1>2, <1>3, <1>4 DEF Steps

(* A MAC tells the state and the message it was computed from.             *)
LEMMA MacTells ==
    ASSUME NEW o, NEW s \in State, NEW u \in State, NEW op \in Op, NEW oq \in Op,
           IsMessage(op), IsMessage(oq), op.mac = oq.mac,
           o[op.mac] = Poly1305(s, op.ad, op.tag, op.m),
           o[oq.mac] = Poly1305(u, oq.ad, oq.tag, oq.m)
    PROVE  s = u /\ op = oq
<1>1. Poly1305(s, op.ad, op.tag, op.m) = Poly1305(u, oq.ad, oq.tag, oq.m)
  OBVIOUS
<1>2. /\ s.k = u.k /\ s.ctr = u.ctr /\ s.inonce = u.inonce
      /\ op.ad = oq.ad /\ op.tag = oq.tag /\ op.m = oq.m
  BY ONLY <1>1, QueriesDiffer
<1>3. s = u
  BY <1>2, SameState
<1>4. op # Rekey /\ oq # Rekey
  BY DEF IsMessage, Rekey
<1>5. op = oq
  BY <1>2, <1>4 DEF Op
<1> QED BY <1>3, <1>5

(* A new key tells the state it was made from.                             *)
LEMMA KeyTells ==
    ASSUME NEW o, Good(o), NEW s \in State, NEW u \in State, NEW t,
           \A x \in Number(s.inonce) : x \in 1 .. Len(o),
           \A x \in Number(u.inonce) : x \in 1 .. Len(o),
           RekeysTo(o, s, t), RekeysTo(o, u, t)
    PROVE  s = u
<1>1. o[t.k] = RekeyStream(s) /\ o[t.k] = RekeyStream(u)
  BY RekeyTop
<1>2. s.k = u.k /\ s.ctr = u.ctr /\ s.inonce = u.inonce
  <2> DEFINE a == RekeyStream(s)
             b == RekeyStream(u)
  <2>1. /\ a.k = s.k /\ a.ctr = s.ctr /\ a.inonce = s.inonce
        /\ b.k = u.k /\ b.ctr = u.ctr /\ b.inonce = u.inonce
    BY DEF RekeyStream
  <2>2. a = b
    BY <1>1
  <2> QED BY <2>1, <2>2
<1> QED BY <1>2, SameState

(* A state tells what it was made from, and by which operation: neither a  *)
(* tag nor a rekeying can be mistaken for another, and automatic rekeying  *)
(* cannot be mistaken for an explicit one.                                 *)
LEMMA StepsBack ==
    ASSUME NEW o, Good(o), NEW s, Legit(s, o), NEW u, Legit(u, o), NEW op, NEW oq, NEW t,
           Steps(o, s, op, t), Steps(o, u, oq, t)
    PROVE  s = u /\ op = oq
<1>1. /\ op \in Op /\ oq \in Op /\ s \in State /\ u \in State
      /\ \A x \in Number(s.inonce) : x \in 1 .. Len(o)
      /\ \A x \in Number(u.inonce) : x \in 1 .. Len(o)
  BY DEF Steps, Legit, Holds
<1>2. ASSUME NEW v, Legit(v, o), NEW p \in Op, StepsRekeying(o, v, p, t)
      PROVE  /\ IsMessage(p) /\ Advance(v, p.mac) \in State /\ RekeysTo(o, Advance(v, p.mac), t)
             /\ \A x \in Number(Advance(v, p.mac).inonce) : x \in 1 .. Len(o)
             /\ Top(Advance(v, p.mac).inonce, p.mac)
             /\ o[p.mac] = Poly1305(v, p.ad, p.tag, p.m)
             /\ HasRekeyBit(p.tag) \/ Advance(v, p.mac).ctr = 0
  BY <1>2, AdvanceTop DEF StepsRekeying, MustRekey
<1>3. ASSUME NEW v \in State, \A x \in Number(v.inonce) : x \in 1 .. Len(o),
             NEW w, Legit(w, o), NEW p \in Op, RekeysTo(o, v, t), StepsQuietly(o, w, p, t)
      PROVE  FALSE
  <2>1. Top(t.inonce, t.k) /\ o[t.k].fn = "rekey"
    BY <1>3, RekeyTop
  <2>2. Top(t.inonce, p.mac) /\ o[p.mac].fn = "poly1305"
    BY <1>3, QuietTop, QueriesDiffer
  <2>3. t.k = p.mac
    BY <2>1, <2>2, OneTop
  <2> QED BY <2>1, <2>2, <2>3
<1>4. ASSUME NEW v, Legit(v, o), NEW p \in Op, NEW w, Legit(w, o),
             StepsRekeying(o, v, p, t), RekeysTo(o, w, t)
      PROVE  FALSE
  <2> DEFINE a == Advance(v, p.mac)
  <2>1. /\ a \in State /\ RekeysTo(o, a, t)
        /\ \A x \in Number(a.inonce) : x \in 1 .. Len(o)
        /\ Top(a.inonce, p.mac)
        /\ o[p.mac] = Poly1305(v, p.ad, p.tag, p.m)
        /\ HasRekeyBit(p.tag) \/ a.ctr = 0
    BY <1>2, <1>4
  <2> HIDE DEF a
  <2>2. w \in State /\ (\A x \in Number(w.inonce) : x \in 1 .. Len(o)) /\ w.ctr # 0
    BY <1>4 DEF Legit, Holds
  <2>3. a = w
    BY <1>4, <2>1, <2>2, KeyTells
  <2>4. Settled(o[p.mac])
    BY <1>4, <2>1, <2>3 DEF Legit
  <2>5. o[p.mac].fn = "poly1305" /\ o[p.mac].tag = p.tag
    BY <2>1, QueriesDiffer
  <2> QED BY <2>1, <2>2, <2>3, <2>4, <2>5 DEF Settled
<1>5. CASE StepsQuietly(o, s, op, t) /\ StepsQuietly(o, u, oq, t)
  <2>1. /\ Top(t.inonce, op.mac) /\ o[op.mac] = Poly1305(s, op.ad, op.tag, op.m)
        /\ Top(t.inonce, oq.mac) /\ o[oq.mac] = Poly1305(u, oq.ad, oq.tag, oq.m)
    BY <1>1, <1>5, QuietTop
  <2>2. op.mac = oq.mac /\ IsMessage(op) /\ IsMessage(oq)
    BY <1>5, <2>1, OneTop DEF StepsQuietly
  <2> QED BY <1>1, <2>1, <2>2, MacTells
<1>6. CASE StepsRekeying(o, s, op, t) /\ StepsRekeying(o, u, oq, t)
  <2> DEFINE a == Advance(s, op.mac)
             b == Advance(u, oq.mac)
  <2>1. /\ IsMessage(op) /\ a \in State /\ RekeysTo(o, a, t)
        /\ \A x \in Number(a.inonce) : x \in 1 .. Len(o)
        /\ Top(a.inonce, op.mac)
        /\ o[op.mac] = Poly1305(s, op.ad, op.tag, op.m)
    BY <1>1, <1>2, <1>6
  <2>2. /\ IsMessage(oq) /\ b \in State /\ RekeysTo(o, b, t)
        /\ \A x \in Number(b.inonce) : x \in 1 .. Len(o)
        /\ Top(b.inonce, oq.mac)
        /\ o[oq.mac] = Poly1305(u, oq.ad, oq.tag, oq.m)
    BY <1>1, <1>2, <1>6
  <2> HIDE DEF a, b
  <2>3. a = b
    BY <2>1, <2>2, KeyTells
  <2>4. op.mac = oq.mac
    BY <2>1, <2>2, <2>3, OneTop
  <2> QED BY <1>1, <2>1, <2>2, <2>4, MacTells
<1>7. CASE StepsExplicitly(o, s, op, t) /\ StepsExplicitly(o, u, oq, t)
  BY <1>1, <1>7, KeyTells DEF StepsExplicitly
<1>8. ASSUME NEW v, Legit(v, o), NEW p \in Op, StepsRekeying(o, v, p, t) \/ StepsExplicitly(o, v, p, t)
      PROVE  \E w \in State : RekeysTo(o, w, t) /\ \A x \in Number(w.inonce) : x \in 1 .. Len(o)
  <2>1. v \in State /\ \A x \in Number(v.inonce) : x \in 1 .. Len(o)
    BY <1>8 DEF Legit, Holds
  <2> QED BY <1>2, <1>8, <2>1 DEF StepsExplicitly
<1>9. ASSUME NEW v, Legit(v, o), NEW p \in Op, NEW w, Legit(w, o), NEW pq \in Op,
             StepsRekeying(o, v, p, t) \/ StepsExplicitly(o, v, p, t), StepsQuietly(o, w, pq, t)
      PROVE  FALSE
  BY <1>3, <1>8, <1>9
<1>10. ASSUME NEW v, Legit(v, o), NEW p \in Op, NEW w, Legit(w, o), NEW pq \in Op,
              StepsRekeying(o, v, p, t), StepsExplicitly(o, w, pq, t)
       PROVE  FALSE
  BY <1>4, <1>10 DEF StepsExplicitly
<1> QED BY <1>1, <1>5, <1>6, <1>7, <1>9, <1>10 DEF Steps

-----------------------------------------------------------------------------
(* The states a stream goes through.                                       *)

Begins(o, h, s) ==
    /\ Knows(o, HChaCha20(h[1]), s.k)
    /\ s = [k |-> s.k, ctr |-> 1, inonce |-> {h[2]}]

Chain(o, h, log, st) ==
    /\ log \in Seq(Op)
    /\ st \in [Nat -> State]
    /\ Begins(o, h, st[0])
    /\ \A i \in 1 .. Len(log) : Steps(o, st[i - 1], log[i], st[i])
    /\ \A i \in 0 .. Len(log) : Legit(st[i], o)
    /\ \A i, j \in 0 .. Len(log) : i <= j => st[i].k <= st[j].k

(* The operations of log, on the stream of header h, end in state s.       *)
Reaches(o, h, log, s) == \E st \in [Nat -> State] : Chain(o, h, log, st) /\ st[Len(log)] = s

LEMMA BeginsTells ==
    ASSUME NEW o, Good(o), NEW h \in Header, NEW g \in Header, NEW s, NEW t,
           Begins(o, h, s), Begins(o, g, t)
    PROVE  /\ s = t => h = g
           /\ h = g => s = t
           /\ \A x : ~ Top(s.inonce, x)
<1>1. /\ h[1] \in Rand /\ h[2] \in Rand /\ g[1] \in Rand /\ g[2] \in Rand
      /\ h = <<h[1], h[2]>> /\ g = <<g[1], g[2]>>
  BY DEF Header
<1>2. ASSUME s = t PROVE h = g
  <2>1. HChaCha20(h[1]) = HChaCha20(g[1])
    BY <1>2 DEF Begins, Knows
  <2>2. h[1] = g[1]
    BY <2>1 DEF HChaCha20
  <2>3. s.inonce = {h[2]} /\ t.inonce = {g[2]}
    BY DEF Begins
  <2> QED BY <1>1, <1>2, <2>2, <2>3
<1>3. ASSUME h = g PROVE s = t
  <2>1. s.k = t.k
    BY <1>3, KnowsOnce DEF Begins
  <2> QED BY <1>3, <2>1 DEF Begins
<1>4. s.inonce = {h[2]}
  BY DEF Begins
<1> QED BY <1>1, <1>2, <1>3, <1>4, NoTop

LEMMA BeginsLegit ==
    ASSUME NEW o, Good(o), NEW h \in Header, NEW s, Begins(o, h, s) PROVE Legit(s, o)
<1>1. h[2] \in Rand /\ Len(o) \in Nat /\ s.k \in 1 .. Len(o) /\ s = [k |-> s.k, ctr |-> 1, inonce |-> {h[2]}]
  BY DEF Header, Begins, Knows, Good
<1>2. s.inonce = {h[2]} /\ s.ctr = 1
  BY <1>1
<1>3. {h[2]} \in SUBSET (Rand \cup Nat)
  BY <1>1
<1>4. s \in State
  BY <1>1, <1>3 DEF State
<1>5. Number(s.inonce) = {} /\ \A x : ~ Top(s.inonce, x)
  BY <1>1, <1>2, NoTop
<1>6. Holds(s, o)
  BY <1>1, <1>2, <1>4, ModAssumption DEF Holds
<1> QED BY <1>5, <1>6 DEF Legit

LEMMA NothingOnTop ==
    ASSUME NEW o, Good(o), NEW h \in Header, NEW s, Begins(o, h, s)
    PROVE  \A x : ~ Top(s.inonce, x)
BY BeginsTells

(* Two streams that are ever in the same state are the same stream, at the *)
(* same place, with the same past.                                         *)
LEMMA Meet ==
    ASSUME NEW o, Good(o), NEW h \in Header, NEW g \in Header, NEW log, NEW lug, NEW st, NEW su,
           Chain(o, h, log, st), Chain(o, g, lug, su),
           NEW i \in 0 .. Len(log), NEW j \in 0 .. Len(lug), st[i] = su[j]
    PROVE  h = g /\ i = j /\ \A z \in 1 .. i : log[z] = lug[z]
<1> DEFINE Same(x, y) == h = g /\ x = y /\ \A z \in 1 .. x : log[z] = lug[z]
           T == {x \in 0 .. Len(log) : \E y \in 0 .. Len(lug) : st[x] = su[y] /\ ~ Same(x, y)}
<1>1. Len(log) \in Nat /\ Len(lug) \in Nat
  BY DEF Chain
<1>2. SUFFICES ASSUME ~ Same(i, j) PROVE FALSE
  OBVIOUS
<1>3. T \in SUBSET Nat /\ T # {}
  BY <1>1, <1>2
<1>4. PICK x \in T : \A y \in T : x <= y
  BY <1>3, Least
<1>5. PICK y \in 0 .. Len(lug) : st[x] = su[y] /\ ~ Same(x, y)
  BY <1>4
<1>6. x \in 0 .. Len(log) /\ Legit(st[x], o)
  BY <1>4 DEF Chain
<1>7. CASE x = 0 /\ y = 0
  <2>1. h = g
    BY <1>5, <1>7, BeginsTells DEF Chain
  <2> QED BY <1>5, <1>7, <2>1
<1>8. ASSUME x # 0 PROVE x - 1 \in 0 .. Len(log) /\ x \in 1 .. Len(log) /\ x - 1 < x
                         /\ Legit(st[x - 1], o) /\ Steps(o, st[x - 1], log[x], st[x])
  <2>1. x - 1 \in 0 .. Len(log) /\ x \in 1 .. Len(log) /\ x - 1 < x
    BY <1>1, <1>6, <1>8
  <2> QED BY <2>1 DEF Chain
<1>9. ASSUME y # 0 PROVE y - 1 \in 0 .. Len(lug) /\ y \in 1 .. Len(lug)
                         /\ Legit(su[y - 1], o) /\ Steps(o, su[y - 1], lug[y], su[y])
  <2>1. y - 1 \in 0 .. Len(lug) /\ y \in 1 .. Len(lug)
    BY <1>1, <1>5, <1>9
  <2> QED BY <2>1 DEF Chain
<1>10. CASE x = 0 /\ y # 0
  <2>1. \E z : Top(su[y].inonce, z)
    BY <1>9, <1>10, StepsTop
  <2>2. \A z : ~ Top(st[0].inonce, z)
    <3>1. Begins(o, h, st[0])
      BY DEF Chain
    <3> QED BY <3>1, NothingOnTop
  <2> QED BY <1>5, <1>10, <2>1, <2>2
<1>11. CASE x # 0 /\ y = 0
  <2>1. \E z : Top(st[x].inonce, z)
    BY <1>8, <1>11, StepsTop
  <2>2. \A z : ~ Top(su[0].inonce, z)
    <3>1. Begins(o, g, su[0])
      BY DEF Chain
    <3> QED BY <3>1, NothingOnTop
  <2> QED BY <1>5, <1>11, <2>1, <2>2
<1>12. CASE x # 0 /\ y # 0
  <2> HIDE DEF T
  <2>1. /\ x - 1 \in 0 .. Len(log) /\ x \in 1 .. Len(log) /\ x - 1 < x
        /\ Legit(st[x - 1], o) /\ Steps(o, st[x - 1], log[x], st[x])
    BY <1>8, <1>12
  <2>2. /\ y - 1 \in 0 .. Len(lug) /\ y \in 1 .. Len(lug)
        /\ Legit(su[y - 1], o) /\ Steps(o, su[y - 1], lug[y], st[x])
    BY <1>5, <1>9, <1>12
  <2>3. st[x - 1] = su[y - 1] /\ log[x] = lug[y]
    BY <2>1, <2>2, StepsBack
  <2>4. x - 1 \notin T
    <3>1. x \in Int
      BY <2>1
    <3>2. ~ (x <= x - 1)
      BY <3>1
    <3> QED BY <1>4, <3>2
  <2>5. Same(x - 1, y - 1)
    BY <2>1, <2>2, <2>3, <2>4 DEF T
  <2>6. x = y /\ h = g /\ \A z \in 1 .. x - 1 : log[z] = lug[z]
    BY <2>1, <2>2, <2>5
  <2>7. ASSUME NEW z \in 1 .. x PROVE log[z] = lug[z]
    <3>1. CASE z = x
      BY <2>3, <2>6, <3>1
    <3>2. CASE z # x
      BY <2>1, <2>6, <3>2
    <3> QED BY <3>1, <3>2
  <2> QED BY <1>5, <2>6, <2>7
<1> QED BY <1>7, <1>10, <1>11, <1>12

(* Two ends that did the same from the same header hold the same.          *)
LEMMA Follow ==
    ASSUME NEW o, Good(o), NEW h \in Header, NEW log, NEW lug, NEW st, NEW su,
           Chain(o, h, log, st), Chain(o, h, lug, su),
           NEW j \in Nat, j <= Len(log), j <= Len(lug), \A z \in 1 .. j : log[z] = lug[z]
    PROVE  st[j] = su[j]
<1> DEFINE T == {x \in 0 .. j : st[x] # su[x]}
<1>1. SUFFICES ASSUME st[j] # su[j] PROVE FALSE
  OBVIOUS
<1>2. T \in SUBSET Nat /\ T # {}
  BY <1>1
<1>3. PICK x \in T : \A y \in T : x <= y
  BY <1>2, Least
<1>4. x \in 0 .. j /\ st[x] # su[x] /\ Len(log) \in Nat /\ Len(lug) \in Nat
  BY <1>3 DEF Chain
<1>5. x # 0
  BY <1>4, BeginsTells DEF Chain
<1>6. /\ x - 1 \in 0 .. j /\ ~ (x <= x - 1)
      /\ x \in 1 .. Len(log) /\ x \in 1 .. Len(lug) /\ x \in 1 .. j
  BY <1>4, <1>5
<1>7. x - 1 \notin T
  BY <1>3, <1>6
<1>8. st[x - 1] = su[x - 1]
  BY <1>6, <1>7
<1>9. Steps(o, st[x - 1], log[x], st[x]) /\ Steps(o, su[x - 1], lug[x], su[x]) /\ log[x] = lug[x]
  BY <1>6 DEF Chain
<1> QED BY <1>4, <1>8, <1>9, StepsOneWay

(* A stream keeps its past when the oracle grows, and one more operation   *)
(* takes it one state further.                                             *)
LEMMA ReachesLegit ==
    ASSUME NEW o, NEW h, NEW log, NEW s, Reaches(o, h, log, s)
    PROVE  Legit(s, o) /\ log \in Seq(Op)
<1>1. PICK st \in [Nat -> State] : Chain(o, h, log, st) /\ st[Len(log)] = s
  BY DEF Reaches
<1>2. Len(log) \in 0 .. Len(log) /\ log \in Seq(Op)
  BY <1>1 DEF Chain
<1> QED BY <1>1, <1>2 DEF Chain

LEMMA ChainStays ==
    ASSUME NEW o, NEW p, Grows(o, p), NEW h, NEW log, NEW st, Chain(o, h, log, st)
    PROVE  Chain(p, h, log, st)
<1>1. Begins(p, h, st[0])
  BY GrowsKnows DEF Chain, Begins
<1>2. \A i \in 1 .. Len(log) : Steps(p, st[i - 1], log[i], st[i])
  BY StepsStay DEF Chain
<1>3. \A i \in 0 .. Len(log) : Legit(st[i], p)
  BY LegitStays DEF Chain
<1> QED BY <1>1, <1>2, <1>3 DEF Chain

LEMMA ReachesStays ==
    ASSUME NEW o, NEW p, Grows(o, p), NEW h, NEW log, NEW s, Reaches(o, h, log, s)
    PROVE  Reaches(p, h, log, s)
  BY ChainStays DEF Reaches

LEMMA ReachesBegin ==
    ASSUME NEW o, Good(o), NEW h \in Header, NEW s, Begins(o, h, s)
    PROVE  Reaches(o, h, <<>>, s)
<1> DEFINE st == [n \in Nat |-> s]
<1>1. Legit(s, o) /\ s \in State /\ s.k \in Nat
  BY BeginsLegit DEF Legit, Holds, State
<1>2. st \in [Nat -> State] /\ \A i \in 0 .. 0 : st[i] = s
  BY <1>1
<1>3. Len(<<>>) = 0 /\ <<>> \in Seq(Op) /\ 1 .. 0 = {}
  OBVIOUS
<1> HIDE DEF st
<1>4. /\ \A i \in 0 .. 0 : Legit(st[i], o)
      /\ \A i, j \in 0 .. 0 : i <= j => st[i].k <= st[j].k
  BY <1>1, <1>2
<1>5. st[0] = s
  BY <1>2
<1>6. Chain(o, h, <<>>, st)
  BY <1>2, <1>3, <1>4, <1>5 DEF Chain
<1> QED BY <1>2, <1>3, <1>5, <1>6 DEF Reaches

LEMMA ReachesMore ==
    ASSUME NEW o, NEW p, Grows(o, p), NEW h, NEW log, NEW s, NEW op, NEW t,
           Reaches(o, h, log, s), Steps(p, s, op, t)
    PROVE  Reaches(p, h, Append(log, op), t)
<1>1. PICK st \in [Nat -> State] : Chain(o, h, log, st) /\ st[Len(log)] = s
  BY DEF Reaches
<1>2. Chain(p, h, log, st) /\ Good(p)
  BY <1>1, ChainStays DEF Grows
<1> DEFINE n  == Len(log)
           lg == Append(log, op)
           su == [x \in Nat |-> IF x = n + 1 THEN t ELSE st[x]]
<1>3. /\ n \in Nat /\ op \in Op /\ lg \in Seq(Op) /\ Len(lg) = n + 1
      /\ lg[n + 1] = op /\ \A i \in 1 .. n : lg[i] = log[i]
  BY <1>2 DEF Chain, Steps
<1>4. Legit(s, p) /\ s.k \in Nat
  <2>1. n \in 0 .. n
    BY <1>3
  <2> QED BY <1>1, <1>2, <2>1 DEF Chain, Legit, Holds, State
<1>5. Legit(t, p) /\ s.k <= t.k /\ t \in State /\ t.k \in Nat
  <2>1. Legit(t, p) /\ s.k <= t.k
    BY <1>2, <1>4, StepsTop
  <2> QED BY <2>1 DEF Legit, Holds, State
<1>6. /\ su \in [Nat -> State]
      /\ su[n + 1] = t /\ \A i \in 0 .. n : su[i] = st[i]
  BY <1>3, <1>5
<1> HIDE DEF lg, su
<1>7. Begins(p, h, su[0])
  BY <1>2, <1>3, <1>6 DEF Chain
<1>8. ASSUME NEW i \in 1 .. n + 1 PROVE Steps(p, su[i - 1], lg[i], su[i])
  <2>1. CASE i = n + 1
    <3>1. i - 1 = n /\ n \in 0 .. n
      BY <1>3, <2>1
    <3> QED BY <1>1, <1>3, <1>6, <2>1, <3>1
  <2>2. CASE i # n + 1
    <3>1. i \in 1 .. n /\ i - 1 \in 0 .. n /\ i \in 0 .. n
      BY <1>3, <2>2
    <3> QED BY <1>2, <1>3, <1>6, <3>1 DEF Chain
  <2> QED BY <2>1, <2>2
<1>9. ASSUME NEW i \in 0 .. n + 1
      PROVE  Legit(su[i], p) /\ su[i].k \in Nat /\ su[i].k <= t.k
  <2>1. CASE i = n + 1
    BY <1>5, <1>6, <2>1
  <2>2. CASE i # n + 1
    <3>1. i \in 0 .. n /\ n \in 0 .. n /\ i <= n
      BY <1>3, <2>2
    <3>2. Legit(st[i], p) /\ st[i].k <= st[n].k
      BY <1>2, <3>1 DEF Chain
    <3>3. st[i].k \in Nat /\ st[n] = s
      BY <1>1, <3>2 DEF Legit, Holds, State
    <3> QED BY <1>4, <1>5, <1>6, <3>1, <3>2, <3>3
  <2> QED BY <2>1, <2>2
<1>10. ASSUME NEW i \in 0 .. n + 1, NEW j \in 0 .. n + 1, i <= j PROVE su[i].k <= su[j].k
  <2>1. CASE j = n + 1
    BY <1>6, <1>9, <2>1
  <2>2. CASE j # n + 1
    <3>1. i \in 0 .. n /\ j \in 0 .. n
      BY <1>3, <1>10, <2>2
    <3> QED BY <1>2, <1>6, <1>10, <3>1 DEF Chain
  <2> QED BY <2>1, <2>2
<1>11. Chain(p, h, lg, su)
  BY <1>3, <1>6, <1>7, <1>8, <1>9, <1>10 DEF Chain
<1> QED BY <1>3, <1>6, <1>11 DEF Reaches, lg

-----------------------------------------------------------------------------
(* What the functions of the two ends do, in these terms.                  *)

Macs(o) == {i \in DOMAIN o : o[i].fn = "poly1305"}

LEMMA AskMacs ==
    ASSUME NEW o, Good(o), NEW q \in Query, Older(q, Len(o) + 1)
    PROVE  /\ q.fn # "poly1305" => Macs(Ask(o, q)) \subseteq Macs(o)
           /\ Macs(Ask(o, q)) \subseteq Macs(o) \cup {Answer(o, q)}
<1> DEFINE p == Ask(o, q)
<1>1. /\ Good(p) /\ Knows(p, q, Answer(o, q)) /\ \A i \in 1 .. Len(o) : p[i] = o[i]
      /\ \A i \in DOMAIN p : i \in DOMAIN o \/ (i = Len(o) + 1 /\ p[i] = q)
      /\ DOMAIN o = 1 .. Len(o) /\ DOMAIN p = 1 .. Len(p)
  BY AskGood DEF Grows, Good
<1>2. \A i \in DOMAIN p : p[i] = q => i = Answer(o, q)
  BY <1>1 DEF Good, Distinct, Knows
<1> HIDE DEF p
<1>3. q.fn # "poly1305" => Macs(p) \subseteq Macs(o)
  BY <1>1 DEF Macs
<1>4. Macs(p) \subseteq Macs(o) \cup {Answer(o, q)}
  BY <1>1, <1>2 DEF Macs
<1> QED BY <1>3, <1>4 DEF p

(* rekey()                                                                 *)
LEMMA RekeyedKnown ==
    ASSUME NEW o, Good(o), NEW s \in State, s.k <= Len(o), \A x \in Number(s.inonce) : x \in 1 .. Len(o)
    PROVE  /\ Grows(o, Ask(o, RekeyStream(s)))
           /\ RekeysTo(Ask(o, RekeyStream(s)), s, Rekeyed(o, s))
           /\ Macs(Ask(o, RekeyStream(s))) \subseteq Macs(o)
<1> DEFINE q == RekeyStream(s)
<1>1. /\ q \in Query /\ q.fn = "rekey" /\ q.k = s.k /\ q.inonce = s.inonce
      /\ Len(o) \in Nat /\ s.k \in Nat
  BY DEF RekeyStream, Query, State, Good
<1>2. Rekeyed(o, s) = RekeyedTo(s, Answer(o, q))
  BY DEF Rekeyed, RekeyedTo, CounterReset
<1> HIDE DEF q
<1>3. Older(q, Len(o) + 1)
  BY <1>1 DEF Older
<1>4. Grows(o, Ask(o, q)) /\ Knows(Ask(o, q), q, Answer(o, q))
  BY <1>1, <1>3, AskGood
<1>5. Macs(Ask(o, q)) \subseteq Macs(o)
  BY <1>1, <1>3, AskMacs
<1>6. Answer(o, q) \in Nat
  BY <1>4 DEF Knows, Grows
<1> QED BY <1>2, <1>4, <1>5, <1>6 DEF RekeysTo, q

LEMMA RekeySteps ==
    ASSUME NEW o, Good(o), NEW s, Legit(s, o)
    PROVE  /\ Grows(o, Ask(o, RekeyStream(s)))
           /\ Steps(Ask(o, RekeyStream(s)), s, Rekey, Rekeyed(o, s))
           /\ Macs(Ask(o, RekeyStream(s))) \subseteq Macs(o)
<1>1. s \in State /\ s.k <= Len(o) /\ \A x \in Number(s.inonce) : x \in 1 .. Len(o)
  BY DEF Legit, Holds, Good
<1>2. Rekey \in Op
  BY DEF Op
<1> QED BY <1>1, <1>2, RekeyedKnown DEF Steps, StepsExplicitly

(* push() and pull(), once the MAC is known.                               *)
LEMMA MessageSteps ==
    ASSUME NEW o, Good(o), NEW s, Legit(s, o), NEW ad \in Ads, NEW tag \in Tags, NEW m \in Msgs,
           NEW mac, Knows(o, Poly1305(s, ad, tag, m), mac)
    PROVE  /\ Grows(o, OracleAfter(o, s, tag, mac))
           /\ Steps(OracleAfter(o, s, tag, mac), s, MessageOp(ad, tag, m, mac), After(o, s, tag, mac))
           /\ Macs(OracleAfter(o, s, tag, mac)) \subseteq Macs(o)
<1> DEFINE op == MessageOp(ad, tag, m, mac)
           a  == Advance(s, mac)
           p  == OracleAfter(o, s, tag, mac)
<1>1. Len(o) \in Nat /\ mac \in Nat
  BY DEF Good, Knows
<1>2. /\ op \in Op /\ IsMessage(op)
      /\ op.ad = ad /\ op.tag = tag /\ op.m = m /\ op.mac = mac
  BY <1>1 DEF MessageOp, Op, IsMessage
<1> HIDE DEF op
<1>3. Computed(o, s, op)
  BY <1>2 DEF Computed
<1>4. /\ a \in State /\ a.k = s.k /\ \A x \in Number(a.inonce) : x \in 1 .. Len(o)
  BY <1>2, <1>3, AdvanceTop
<1>5. a.k <= Len(o)
  BY <1>1, <1>4 DEF Legit, Holds
<1>6. CASE MustRekey(a, tag)
  <2>1. p = Ask(o, RekeyStream(a)) /\ After(o, s, tag, mac) = Rekeyed(o, a)
    BY <1>6 DEF After, OracleAfter
  <2> HIDE DEF a, p
  <2>2. /\ Grows(o, p) /\ RekeysTo(p, a, Rekeyed(o, a)) /\ Macs(p) \subseteq Macs(o)
    BY <1>4, <1>5, <2>1, RekeyedKnown
  <2>3. Computed(p, s, op)
    BY <1>3, <2>2, GrowsKnows DEF Computed
  <2>4. StepsRekeying(p, s, op, Rekeyed(o, a))
    BY <1>2, <1>6, <2>2, <2>3 DEF StepsRekeying, a
  <2> QED BY <1>2, <2>1, <2>2, <2>4 DEF Steps, p, op
<1>7. CASE ~ MustRekey(a, tag)
  <2>1. p = o /\ After(o, s, tag, mac) = a
    BY <1>7 DEF After, OracleAfter
  <2>2. Grows(o, o)
    BY <1>1 DEF Grows
  <2>3. StepsQuietly(o, s, op, a)
    BY <1>2, <1>3, <1>7 DEF StepsQuietly
  <2> QED BY <1>2, <2>1, <2>2, <2>3 DEF Steps, op
<1> QED BY <1>6, <1>7

(* The MAC of push().                                                      *)
LEMMA MacKnown ==
    ASSUME NEW o, Good(o), NEW s, Legit(s, o), NEW ad \in Ads, NEW tag \in Tags, NEW m \in Msgs
    PROVE  /\ Grows(o, Ask(o, Poly1305(s, ad, tag, m)))
           /\ Knows(Ask(o, Poly1305(s, ad, tag, m)), Poly1305(s, ad, tag, m),
                    Answer(o, Poly1305(s, ad, tag, m)))
           /\ Macs(Ask(o, Poly1305(s, ad, tag, m)))
                  \subseteq Macs(o) \cup {Answer(o, Poly1305(s, ad, tag, m))}
<1> DEFINE q == Poly1305(s, ad, tag, m)
<1>1. /\ q \in Query /\ q.fn = "poly1305" /\ q.k = s.k /\ q.inonce = s.inonce
      /\ Len(o) \in Nat /\ s.k \in Nat /\ s.k <= Len(o)
      /\ \A x \in Number(s.inonce) : x \in 1 .. Len(o)
  BY DEF Poly1305, Query, State, Good, Legit, Holds
<1> HIDE DEF q
<1>2. Older(q, Len(o) + 1)
  BY <1>1 DEF Older
<1> QED BY <1>1, <1>2, AskGood, AskMacs DEF q

(* The states that init_push() and init_pull() make.                       *)
LEMMA StartBegins ==
    ASSUME NEW o, Good(o), NEW h \in Header
    PROVE  /\ Grows(o, Ask(o, HChaCha20(h[1])))
           /\ Begins(Ask(o, HChaCha20(h[1])), h, Start(o, h))
           /\ Macs(Ask(o, HChaCha20(h[1]))) \subseteq Macs(o)
<1> DEFINE q == HChaCha20(h[1])
<1>1. q \in Query /\ q.fn = "hchacha20"
  BY DEF HChaCha20, Query, Header
<1>2. Start(o, h) = [k |-> Answer(o, q), ctr |-> 1, inonce |-> {h[2]}]
  BY DEF Start, CounterReset
<1> HIDE DEF q
<1>3. Older(q, Len(o) + 1)
  BY <1>1 DEF Older
<1>4. Grows(o, Ask(o, q)) /\ Knows(Ask(o, q), q, Answer(o, q)) /\ Macs(Ask(o, q)) \subseteq Macs(o)
  BY <1>1, <1>3, AskGood, AskMacs
<1>5. Begins(Ask(o, q), h, Start(o, h))
  BY <1>2, <1>4 DEF Begins, q
<1> QED BY <1>4, <1>5 DEF q

-----------------------------------------------------------------------------
(* The inductive invariant: the log of each stream leads from its header   *)
(* to the state its end holds, in terms of what the oracle knows, and no   *)
(* MAC was computed but for a message that was sent.                       *)

Typed ==
    /\ seen \subseteq Rand /\ aborted \subseteq {"sender", "receiver"}
    /\ session \in Header \cup {<<>>} /\ joined \in Header \cup {<<>>}
    /\ sent \in [Header -> Seq(Op)] /\ got \in Seq(Op)
    /\ snd = None <=> session = <<>>
    /\ rcv = None <=> joined = <<>>
    /\ joined = <<>> => got = <<>>

SenderReaches ==
    session # <<>> => Reaches(oracle, session, sent[session], snd) /\ session[1] \in seen

ReceiverReaches ==
    joined # <<>> => Reaches(oracle, joined, got, rcv) /\ joined[1] \in seen

OldOnesReach ==
    \A h \in Header : sent[h] # <<>> => h[1] \in seen /\ \E s : Reaches(oracle, h, sent[h], s)

IsSent(x) == \E h \in Header : \E i \in DOMAIN sent[h] : IsMessage(sent[h][i]) /\ sent[h][i].mac = x

MacsAreSent == \A x \in Macs(oracle) : IsSent(x)

AgreeInv ==
    Good(oracle) /\ Typed /\ SenderReaches /\ ReceiverReaches /\ OldOnesReach /\ MacsAreSent

LEMMA NoHeader == <<>> \notin Header
  BY DEF Header

(* What the receiving end does leaves the sender's side alone.             *)
LEMMA ReceiverStep ==
    ASSUME AgreeInv, UNCHANGED <<snd, session, sent, aborted>>,
           Grows(oracle, oracle'), Macs(oracle') \subseteq Macs(oracle),
           seen \subseteq seen', seen' \subseteq Rand,
           joined' \in Header, joined'[1] \in seen', Reaches(oracle', joined', got', rcv')
    PROVE  AgreeInv'
<1>1. Good(oracle')
  BY DEF Grows
<1>2. Typed'
  <2>1. Legit(rcv', oracle') /\ got' \in Seq(Op)
    BY ReachesLegit
  <2>2. rcv' # None
    BY <2>1 DEF Legit, Holds, None
  <2>3. joined' # <<>>
    BY NoHeader
  <2> QED BY <2>1, <2>2, <2>3 DEF AgreeInv, Typed
<1>3. SenderReaches'
  BY ReachesStays DEF AgreeInv, SenderReaches
<1>4. ReceiverReaches'
  BY DEF ReceiverReaches
<1>5. OldOnesReach'
  BY ReachesStays DEF AgreeInv, OldOnesReach
<1>6. MacsAreSent'
  BY DEF AgreeInv, MacsAreSent, IsSent
<1> QED BY <1>1, <1>2, <1>3, <1>4, <1>5, <1>6 DEF AgreeInv

(* What the sending end does to its stream leaves the receiver alone.      *)
LEMMA SenderStep ==
    ASSUME AgreeInv, snd # None, UNCHANGED <<seen, session, rcv, joined, got, aborted>>,
           Grows(oracle, oracle'), NEW op, Steps(oracle', snd, op, snd'),
           sent' = [sent EXCEPT ![session] = Append(@, op)],
           \A x \in Macs(oracle') : x \in Macs(oracle) \/ (IsMessage(op) /\ op.mac = x)
    PROVE  AgreeInv'
<1>1. Good(oracle')
  BY DEF Grows
<1>2. /\ session \in Header /\ sent[session] \in Seq(Op) /\ op \in Op
      /\ sent'[session] = Append(sent[session], op)
      /\ \A h \in Header : h # session => sent'[h] = sent[h]
      /\ sent' \in [Header -> Seq(Op)]
      /\ Reaches(oracle, session, sent[session], snd) /\ session[1] \in seen
  <2>1. session \in Header /\ sent \in [Header -> Seq(Op)] /\ session # <<>> /\ op \in Op
    BY DEF AgreeInv, Typed, Steps
  <2>2. Append(sent[session], op) \in Seq(Op)
    BY <2>1
  <2> QED BY <2>1, <2>2 DEF AgreeInv, SenderReaches
<1>3. Reaches(oracle', session, sent'[session], snd')
  BY <1>2, ReachesMore
<1>4. Typed'
  <2>1. snd' # None
    BY <1>3, ReachesLegit DEF Legit, Holds, None
  <2> QED BY <1>2, <2>1 DEF AgreeInv, Typed
<1>5. SenderReaches'
  BY <1>2, <1>3 DEF SenderReaches
<1>6. ReceiverReaches'
  BY ReachesStays DEF AgreeInv, ReceiverReaches
<1>7. OldOnesReach'
  <2> SUFFICES ASSUME NEW h \in Header, sent'[h] # <<>>
               PROVE  h[1] \in seen /\ \E s : Reaches(oracle', h, sent'[h], s)
    BY DEF OldOnesReach
  <2>1. CASE h = session
    BY <1>2, <1>3, <2>1
  <2>2. CASE h # session
    BY <1>2, <2>2, ReachesStays DEF AgreeInv, OldOnesReach
  <2> QED BY <2>1, <2>2
<1>8. MacsAreSent'
  <2>1. ASSUME NEW h \in Header, NEW i \in DOMAIN sent[h]
        PROVE  i \in DOMAIN sent'[h] /\ sent'[h][i] = sent[h][i]
    <3>1. CASE h = session
      BY <1>2, <3>1
    <3>2. CASE h # session
      BY <1>2, <3>2
    <3> QED BY <3>1, <3>2
  <2>2. ASSUME NEW x, IsSent(x) PROVE IsSent(x)'
    BY <2>1, <2>2 DEF IsSent
  <2>3. ASSUME NEW x, IsMessage(op), op.mac = x PROVE IsSent(x)'
    <3>1. Len(sent[session]) + 1 \in DOMAIN sent'[session] /\ sent'[session][Len(sent[session]) + 1] = op
      BY <1>2
    <3> QED BY <1>2, <2>3, <3>1 DEF IsSent
  <2> QED BY <2>2, <2>3 DEF AgreeInv, MacsAreSent
<1> QED BY <1>1, <1>4, <1>5, <1>6, <1>7, <1>8 DEF AgreeInv

LEMMA InitPushStep ==
    ASSUME AgreeInv, NEW r \in Rand, InitPush(r) PROVE AgreeInv'
<1> DEFINE h == <<r, r>>
<1>1. h \in Header /\ h[1] = r /\ h # <<>>
  BY NoHeader DEF Header
<1>2. /\ r \notin seen /\ seen' = seen \cup {r} /\ session' = h
      /\ oracle' = Ask(oracle, HChaCha20(h[1])) /\ snd' = Start(oracle, h)
      /\ UNCHANGED <<sent, rcv, joined, got, aborted>>
  BY DEF InitPush
<1> HIDE DEF h
<1>3. Grows(oracle, oracle') /\ Begins(oracle', h, snd') /\ Macs(oracle') \subseteq Macs(oracle)
  BY <1>1, <1>2, StartBegins DEF AgreeInv
<1>4. Good(oracle')
  BY <1>3 DEF Grows
<1>5. sent[h] = <<>>
  BY <1>1, <1>2 DEF AgreeInv, OldOnesReach
<1>6. Reaches(oracle', h, sent'[h], snd')
  BY <1>1, <1>2, <1>3, <1>4, <1>5, ReachesBegin
<1>7. Typed'
  <2>1. snd' # None
    BY <1>6, ReachesLegit DEF Legit, Holds, None
  <2> QED BY <1>1, <1>2, <2>1 DEF AgreeInv, Typed
<1>8. SenderReaches'
  BY <1>1, <1>2, <1>6 DEF SenderReaches
<1>9. ReceiverReaches'
  BY <1>2, <1>3, ReachesStays DEF AgreeInv, ReceiverReaches
<1>10. OldOnesReach'
  BY <1>2, <1>3, ReachesStays DEF AgreeInv, OldOnesReach
<1>11. MacsAreSent'
  BY <1>2, <1>3 DEF AgreeInv, MacsAreSent, IsSent
<1> QED BY <1>4, <1>7, <1>8, <1>9, <1>10, <1>11 DEF AgreeInv

LEMMA PushStep ==
    ASSUME AgreeInv, NEW m \in Msgs, NEW ad \in Ads, NEW tag \in Tags, Push(m, ad, tag)
    PROVE  AgreeInv'
<1> DEFINE q   == Poly1305(snd, ad, tag, m)
           mac == Answer(oracle, q)
           o   == Ask(oracle, q)
           op  == MessageOp(ad, tag, m, mac)
<1>1. /\ oracle' = OracleAfter(o, snd, tag, mac) /\ snd' = After(o, snd, tag, mac)
      /\ sent' = [sent EXCEPT ![session] = Append(@, op)] /\ snd # None
      /\ UNCHANGED <<seen, session, rcv, joined, got, aborted>>
  BY DEF Push
<1>2. Legit(snd, oracle)
  <2>1. session # <<>>
    BY <1>1 DEF AgreeInv, Typed
  <2> QED BY <2>1, ReachesLegit DEF AgreeInv, SenderReaches
<1>3. Grows(oracle, o) /\ Knows(o, q, mac) /\ Macs(o) \subseteq Macs(oracle) \cup {mac}
  BY <1>2, MacKnown DEF AgreeInv
<1>4. Good(o) /\ Legit(snd, o)
  BY <1>2, <1>3, LegitStays DEF Grows
<1>5. /\ Grows(o, oracle') /\ Steps(oracle', snd, op, snd') /\ Macs(oracle') \subseteq Macs(o)
  <2> HIDE DEF o, mac
  <2> QED BY <1>1, <1>3, <1>4, MessageSteps
<1>6. Grows(oracle, oracle')
  BY <1>3, <1>5, GrowsMore
<1>7. IsMessage(op) /\ op.mac = mac
  BY DEF MessageOp, IsMessage
<1> HIDE DEF op, o, mac, q
<1>8. \A x \in Macs(oracle') : x \in Macs(oracle) \/ (IsMessage(op) /\ op.mac = x)
  BY <1>3, <1>5, <1>7
<1> QED BY <1>1, <1>5, <1>6, <1>8, SenderStep

LEMMA RekeySenderStep == ASSUME AgreeInv, RekeySender PROVE AgreeInv'
<1>1. /\ oracle' = Ask(oracle, RekeyStream(snd)) /\ snd' = Rekeyed(oracle, snd)
      /\ sent' = [sent EXCEPT ![session] = Append(@, Rekey)] /\ snd # None
      /\ UNCHANGED <<seen, session, rcv, joined, got, aborted>>
  BY DEF RekeySender
<1>2. Legit(snd, oracle)
  <2>1. session # <<>>
    BY <1>1 DEF AgreeInv, Typed
  <2> QED BY <2>1, ReachesLegit DEF AgreeInv, SenderReaches
<1>3. /\ Grows(oracle, oracle') /\ Steps(oracle', snd, Rekey, snd')
      /\ Macs(oracle') \subseteq Macs(oracle)
  BY <1>1, <1>2, RekeySteps DEF AgreeInv
<1> QED BY <1>1, <1>3, SenderStep

LEMMA InitPullStep == ASSUME AgreeInv, NEW h \in Header, InitPull(h) PROVE AgreeInv'
<1>1. /\ seen' = seen \cup {h[1], h[2]} /\ joined' = h /\ got' = <<>> /\ rcv' = Start(oracle, h)
      /\ oracle' = Ask(oracle, HChaCha20(h[1]))
      /\ UNCHANGED <<snd, session, sent, aborted>>
  BY DEF InitPull
<1>2. h[1] \in Rand /\ h[2] \in Rand
  BY DEF Header
<1>3. Grows(oracle, oracle') /\ Begins(oracle', h, rcv') /\ Macs(oracle') \subseteq Macs(oracle)
  BY <1>1, StartBegins DEF AgreeInv
<1>4. Reaches(oracle', joined', got', rcv')
  BY <1>1, <1>3, ReachesBegin DEF Grows
<1>5. seen \subseteq seen' /\ seen' \subseteq Rand
  BY <1>1, <1>2 DEF AgreeInv, Typed
<1> QED BY <1>1, <1>3, <1>4, <1>5, ReceiverStep

LEMMA PullStep ==
    ASSUME AgreeInv, NEW m \in Msgs, NEW ad \in Ads, NEW tag \in Tags, NEW mac,
           PullAccepts(m, ad, tag, mac)
    PROVE  AgreeInv'
<1> DEFINE op == MessageOp(ad, tag, m, mac)
<1>1. /\ oracle' = OracleAfter(oracle, rcv, tag, mac) /\ rcv' = After(oracle, rcv, tag, mac)
      /\ got' = Append(got, op) /\ rcv # None
      /\ UNCHANGED <<seen, snd, session, sent, joined, aborted>>
      /\ mac \in DOMAIN oracle /\ oracle[mac] = Poly1305(rcv, ad, tag, m)
  BY DEF PullAccepts, Verifies
<1>2. /\ joined \in Header /\ joined[1] \in seen /\ seen \subseteq Rand
      /\ Reaches(oracle, joined, got, rcv)
  BY <1>1 DEF AgreeInv, Typed, ReceiverReaches
<1>3. Legit(rcv, oracle) /\ Knows(oracle, Poly1305(rcv, ad, tag, m), mac)
  BY <1>1, <1>2, ReachesLegit DEF Knows, AgreeInv, Good
<1>4. /\ Grows(oracle, oracle') /\ Steps(oracle', rcv, op, rcv') /\ Macs(oracle') \subseteq Macs(oracle)
  BY <1>1, <1>3, MessageSteps DEF AgreeInv
<1> HIDE DEF op
<1>5. Reaches(oracle', joined', got', rcv')
  BY <1>1, <1>2, <1>4, ReachesMore
<1> QED BY <1>1, <1>2, <1>4, <1>5, ReceiverStep

LEMMA RekeyReceiverStep == ASSUME AgreeInv, RekeyReceiver PROVE AgreeInv'
<1>1. /\ oracle' = Ask(oracle, RekeyStream(rcv)) /\ rcv' = Rekeyed(oracle, rcv)
      /\ got' = Append(got, Rekey) /\ rcv # None
      /\ UNCHANGED <<seen, snd, session, sent, joined, aborted>>
  BY DEF RekeyReceiver
<1>2. /\ joined \in Header /\ joined[1] \in seen /\ seen \subseteq Rand
      /\ Reaches(oracle, joined, got, rcv)
  BY <1>1 DEF AgreeInv, Typed, ReceiverReaches
<1>3. Legit(rcv, oracle)
  BY <1>2, ReachesLegit
<1>4. /\ Grows(oracle, oracle') /\ Steps(oracle', rcv, Rekey, rcv')
      /\ Macs(oracle') \subseteq Macs(oracle)
  BY <1>1, <1>3, RekeySteps DEF AgreeInv
<1>5. Reaches(oracle', joined', got', rcv')
  BY <1>1, <1>2, <1>4, ReachesMore
<1> QED BY <1>1, <1>2, <1>4, <1>5, ReceiverStep

LEMMA AgreeUnchanged ==
    ASSUME AgreeInv, UNCHANGED <<oracle, seen, snd, session, sent, rcv, joined, got>>,
           aborted' \subseteq {"sender", "receiver"}
    PROVE  AgreeInv'
  BY DEF AgreeInv, Typed, SenderReaches, ReceiverReaches, OldOnesReach, MacsAreSent, IsSent

LEMMA AgreeStep == ASSUME AgreeInv, [Next]_vars PROVE AgreeInv'
<1>1. ASSUME NEW m \in Msgs, PushTooLong(m) \/ PullTooLong(m) PROVE AgreeInv'
  BY <1>1, AgreeUnchanged DEF PushTooLong, PullTooLong, AgreeInv, Typed
<1>2. ASSUME UNCHANGED vars PROVE AgreeInv'
  BY <1>2, AgreeUnchanged DEF vars, AgreeInv, Typed
<1>3. ASSUME NEW m \in Msgs, NEW ad \in Ads, NEW tag \in Tags, NEW mac, PullRejects(m, ad, tag, mac)
      PROVE  AgreeInv'
  BY <1>2, <1>3 DEF PullRejects
<1>4. ASSUME Pull PROVE AgreeInv'
  BY <1>3, <1>4, PullStep DEF Pull
<1> QED BY <1>1, <1>2, <1>4, InitPushStep, PushStep, RekeySenderStep, InitPullStep,
           RekeyReceiverStep DEF Next

LEMMA AgreeInitially == Init => AgreeInv
<1> SUFFICES ASSUME Init PROVE AgreeInv
  OBVIOUS
<1>1. Good(<<>>) /\ Macs(<<>>) = {}
  BY DEF Good, Distinct, Macs
<1>2. Typed
  BY DEF Init, Typed
<1>3. \A h \in Header : sent[h] = <<>>
  BY DEF Init
<1> QED BY <1>1, <1>2, <1>3 DEF Init, AgreeInv, SenderReaches, ReceiverReaches, OldOnesReach, MacsAreSent

LEMMA Agreed == Spec => []AgreeInv
<1>1. AgreeInv /\ [Next]_vars => AgreeInv'
  BY AgreeStep
<1> QED BY <1>1, AgreeInitially, PTL DEF Spec

-----------------------------------------------------------------------------
(* Types: in particular no counter is ever left at 0.                      *)
THEOREM Types == Spec => []TypeOK
<1>1. AgreeInv => TypeOK
  <2> SUFFICES ASSUME AgreeInv PROVE TypeOK
    OBVIOUS
  <2>1. DOMAIN oracle = 1 .. Len(oracle)
    BY DEF AgreeInv, Good
  <2>2. ASSUME NEW s, Legit(s, oracle) PROVE s \in Stateful
    BY <2>2 DEF Legit, Holds, State, Stateful
  <2>3. snd \in Stateful \cup {None}
    <3>1. CASE session = <<>>
      BY <3>1 DEF AgreeInv, Typed
    <3>2. CASE session # <<>>
      BY <2>2, <3>2, ReachesLegit DEF AgreeInv, SenderReaches
    <3> QED BY <3>1, <3>2
  <2>4. rcv \in Stateful \cup {None}
    <3>1. CASE joined = <<>>
      BY <3>1 DEF AgreeInv, Typed
    <3>2. CASE joined # <<>>
      BY <2>2, <3>2, ReachesLegit DEF AgreeInv, ReceiverReaches
    <3> QED BY <3>1, <3>2
  <2>5. \A h \in Header : \A i \in DOMAIN sent[h] : sent[h][i] \in Op
    <3> SUFFICES ASSUME NEW h \in Header, NEW i \in DOMAIN sent[h] PROVE sent[h][i] \in Op
      OBVIOUS
    <3>1. sent[h] \in Seq(Op)
      BY DEF AgreeInv, Typed
    <3> QED BY <3>1
  <2>6. \A i \in DOMAIN got : got[i] \in Op
    <3>1. got \in Seq(Op)
      BY DEF AgreeInv, Typed
    <3> QED BY <3>1
  <2> QED BY <2>1, <2>3, <2>4, <2>5, <2>6 DEF AgreeInv, Typed, TypeOK
<1> QED BY <1>1, Agreed, PTL

(* Two sequences start alike when their elements do.                       *)
LEMMA StartAlike ==
    ASSUME NEW a \in Seq(Op), NEW b \in Seq(Op), NEW i \in Nat, i <= Len(a), i <= Len(b)
    PROVE  SubSeq(a, 1, i) = SubSeq(b, 1, i) <=> \A j \in 1 .. i : a[j] = b[j]
<1>1. /\ SubSeq(a, 1, i) = [j \in 1 .. i |-> a[j]]
      /\ SubSeq(b, 1, i) = [j \in 1 .. i |-> b[j]]
  OBVIOUS
<1>2. ASSUME \A j \in 1 .. i : a[j] = b[j] PROVE SubSeq(a, 1, i) = SubSeq(b, 1, i)
  BY <1>1, <1>2
<1>3. ASSUME SubSeq(a, 1, i) = SubSeq(b, 1, i), NEW j \in 1 .. i PROVE a[j] = b[j]
  <2>1. [n \in 1 .. i |-> a[n]][j] = [n \in 1 .. i |-> b[n]][j]
    BY <1>1, <1>3
  <2> QED BY <2>1
<1> QED BY <1>2, <1>3

LEMMA MessageComputed ==
    ASSUME NEW o, NEW s, NEW op, NEW t, Steps(o, s, op, t), IsMessage(op)
    PROVE  op \in Op /\ Computed(o, s, op)
<1>1. op # Rekey
  BY DEF IsMessage, Rekey
<1> QED BY <1>1 DEF Steps, StepsQuietly, StepsRekeying, StepsExplicitly

(* A message whose MAC is right for the receiver, or was when it accepted  *)
(* it, is the one the sender put in that place of that stream.             *)
LEMMA Accepted ==
    ASSUME AgreeInv, joined \in Header, NEW st, Chain(oracle, joined, got, st),
           NEW n \in 0 .. Len(got), NEW op \in Op, IsMessage(op), Computed(oracle, st[n], op)
    PROVE  /\ n + 1 \in 1 .. Len(sent[joined]) /\ sent[joined][n + 1] = op
           /\ \A z \in 1 .. n : got[z] = sent[joined][z]
<1>1. op.mac \in Macs(oracle) /\ oracle[op.mac] = Poly1305(st[n], op.ad, op.tag, op.m)
  BY DEF Computed, Knows, Macs, Poly1305, AgreeInv, Good
<1>2. PICK h \in Header : \E i \in DOMAIN sent[h] : IsMessage(sent[h][i]) /\ sent[h][i].mac = op.mac
  BY <1>1 DEF AgreeInv, MacsAreSent, IsSent
<1>3. PICK i \in DOMAIN sent[h] : IsMessage(sent[h][i]) /\ sent[h][i].mac = op.mac
  BY <1>2
<1>4. sent[h] \in Seq(Op) /\ sent[h] # <<>>
  BY <1>3 DEF AgreeInv, Typed
<1>5. PICK su \in [Nat -> State] : Chain(oracle, h, sent[h], su)
  BY <1>4 DEF AgreeInv, OldOnesReach, Reaches
<1>6. i \in 1 .. Len(sent[h]) /\ i - 1 \in 0 .. Len(sent[h]) /\ i \in Int /\ n \in Int
  BY <1>4
<1>7. Steps(oracle, su[i - 1], sent[h][i], su[i])
  BY <1>5, <1>6 DEF Chain
<1>8. sent[h][i] \in Op /\ Computed(oracle, su[i - 1], sent[h][i])
  BY <1>3, <1>7, MessageComputed
<1>9. st[n] \in State /\ su[i - 1] \in State
  <2>1. Legit(st[n], oracle) /\ Legit(su[i - 1], oracle)
    BY <1>5, <1>6 DEF Chain
  <2> QED BY <2>1 DEF Legit, Holds
<1>10. su[i - 1] = st[n] /\ sent[h][i] = op
  <2>1. oracle[sent[h][i].mac] = Poly1305(su[i - 1], sent[h][i].ad, sent[h][i].tag, sent[h][i].m)
    BY <1>8 DEF Computed, Knows
  <2> DEFINE oq == sent[h][i]
             u == su[i - 1]
             s == st[n]
  <2>2. /\ s \in State /\ u \in State /\ oq \in Op /\ IsMessage(oq) /\ op.mac = oq.mac
        /\ oracle[op.mac] = Poly1305(s, op.ad, op.tag, op.m)
        /\ oracle[oq.mac] = Poly1305(u, oq.ad, oq.tag, oq.m)
    BY <1>1, <1>3, <1>8, <1>9, <2>1
  <2> HIDE DEF oq, u, s
  <2>3. s = u /\ op = oq
    BY <2>2, MacTells
  <2> QED BY <2>3 DEF oq, u, s
<1>11. h = joined /\ i - 1 = n /\ \A z \in 1 .. i - 1 : sent[h][z] = got[z]
  <2> DEFINE x == i - 1
  <2>1. x \in 0 .. Len(sent[h]) /\ su[x] = st[n]
    BY <1>6, <1>10
  <2> HIDE DEF x
  <2>2. h = joined /\ x = n /\ \A z \in 1 .. x : sent[h][z] = got[z]
    BY <1>5, <2>1, Meet DEF AgreeInv
  <2> QED BY <2>2 DEF x
<1>12. i = n + 1
  BY <1>6, <1>11
<1> QED BY <1>6, <1>10, <1>11, <1>12

(* What was accepted is a prefix of what was sent: whatever the network    *)
(* lost, repeated, reordered or spliced, and however the ends rekeyed.     *)
THEOREM PrefixOnly == Spec => []AcceptsOnlyThePrefix
<1>1. AgreeInv => AcceptsOnlyThePrefix
  <2> SUFFICES ASSUME AgreeInv, NEW i \in DOMAIN got, IsMessage(got[i])
               PROVE  /\ i <= Len(sent[joined])
                      /\ SubSeq(got, 1, i) = SubSeq(sent[joined], 1, i)
    BY DEF AcceptsOnlyThePrefix
  <2>1. got \in Seq(Op) /\ got # <<>> /\ i \in 1 .. Len(got) /\ i \in Nat /\ Len(got) \in Nat
    BY DEF AgreeInv, Typed
  <2>2. joined \in Header /\ sent[joined] \in Seq(Op) /\ Reaches(oracle, joined, got, rcv)
    BY <2>1 DEF AgreeInv, Typed, ReceiverReaches
  <2>3. PICK st \in [Nat -> State] : Chain(oracle, joined, got, st)
    BY <2>2 DEF Reaches
  <2> DEFINE n == i - 1
  <2>4. n \in 0 .. Len(got) /\ i = n + 1
    BY <2>1
  <2>5. Steps(oracle, st[n], got[i], st[i])
    BY <2>1, <2>3 DEF Chain
  <2> HIDE DEF n
  <2>6. got[i] \in Op /\ Computed(oracle, st[n], got[i])
    BY <2>5, MessageComputed
  <2>7. /\ n + 1 \in 1 .. Len(sent[joined]) /\ sent[joined][n + 1] = got[i]
        /\ \A z \in 1 .. n : got[z] = sent[joined][z]
    BY <2>2, <2>3, <2>4, <2>6, Accepted
  <2>8. i <= Len(sent[joined]) /\ \A z \in 1 .. i : got[z] = sent[joined][z]
    BY <2>1, <2>2, <2>4, <2>7
  <2> QED BY <2>1, <2>2, <2>8, StartAlike
<1> QED BY <1>1, Agreed, PTL

(* Ends that did the same hold the same.                                   *)
LEMMA SameLogs ==
    ASSUME NEW o, Good(o), NEW h \in Header, NEW log, NEW lug, NEW s, NEW su,
           Reaches(o, h, log, s), Chain(o, h, lug, su), Len(log) <= Len(lug),
           \A z \in 1 .. Len(log) : log[z] = lug[z]
    PROVE  s = su[Len(log)]
<1>1. PICK st \in [Nat -> State] : Chain(o, h, log, st) /\ st[Len(log)] = s
  BY DEF Reaches
<1>2. Len(log) \in Nat /\ Len(log) <= Len(log)
  BY <1>1 DEF Chain
<1> QED BY <1>1, <1>2, Follow

(* A receiver that is in step accepts the next packet: no automatic        *)
(* rekeying puts the two ends apart.                                       *)
THEOREM InStep == Spec => []InStepAccepts
<1>1. AgreeInv => InStepAccepts
  <2> DEFINE n == Len(got)
             l == sent[joined]
  <2> SUFFICES ASSUME AgreeInv, joined # <<>>, n < Len(l), got = SubSeq(l, 1, n), IsMessage(l[n + 1])
               PROVE  Verifies(rcv, l[n + 1].m, l[n + 1].ad, l[n + 1].tag, l[n + 1].mac)
    BY DEF InStepAccepts
  <2>1. /\ joined \in Header /\ l \in Seq(Op) /\ got \in Seq(Op)
        /\ Reaches(oracle, joined, got, rcv) /\ Good(oracle)
    BY DEF AgreeInv, Typed, ReceiverReaches
  <2>2. n \in Nat /\ n + 1 \in 1 .. Len(l) /\ l # <<>> /\ n <= Len(l)
    BY <2>1
  <2>3. \A z \in 1 .. n : got[z] = l[z]
    BY <2>1, <2>2
  <2>4. PICK su \in [Nat -> State] : Chain(oracle, joined, l, su)
    BY <2>1, <2>2 DEF AgreeInv, OldOnesReach, Reaches
  <2>5. rcv = su[n]
    BY <2>1, <2>2, <2>3, <2>4, SameLogs
  <2>6. Steps(oracle, su[n], l[n + 1], su[n + 1])
    <3>1. (n + 1) - 1 = n
      BY <2>2
    <3> QED BY <2>2, <2>4, <3>1 DEF Chain
  <2> HIDE DEF n, l
  <2>7. Computed(oracle, su[n], l[n + 1])
    BY <2>6, MessageComputed
  <2> QED BY <2>1, <2>5, <2>7 DEF Verifies, Computed, Knows, Good
<1> QED BY <1>1, Agreed, PTL

(* When both ends have done the same, they hold the same state.            *)
THEOREM BothEnds == Spec => []EndsAgree
<1>1. AgreeInv => EndsAgree
  <2> SUFFICES ASSUME AgreeInv, joined = session, joined # <<>>, got = sent[joined] PROVE rcv = snd
    BY DEF EndsAgree
  <2>1. /\ joined \in Header /\ got \in Seq(Op) /\ Good(oracle)
        /\ Reaches(oracle, joined, got, rcv) /\ Reaches(oracle, joined, got, snd)
    BY DEF AgreeInv, Typed, ReceiverReaches, SenderReaches
  <2>2. PICK su \in [Nat -> State] : Chain(oracle, joined, got, su) /\ su[Len(got)] = snd
    BY <2>1 DEF Reaches
  <2>3. Len(got) <= Len(got) /\ \A z \in 1 .. Len(got) : got[z] = got[z]
    BY <2>1
  <2> QED BY <2>1, <2>2, <2>3, SameLogs
<1> QED BY <1>1, Agreed, PTL

-----------------------------------------------------------------------------
(* Rekeying discards the key.                                              *)

LEMMA Greatest ==
    ASSUME NEW T \in SUBSET Nat, T # {}, NEW N \in Nat, \A x \in T : x <= N
    PROVE  /\ SSE!Max(T) \in T
           /\ \A x \in T : SSE!Max(T) >= x
<1> DEFINE U == {N - x : x \in T}
<1>1. U \in SUBSET Nat /\ U # {}
  <2>1. \A x \in T : x \in Nat /\ x <= N
    OBVIOUS
  <2>2. \A x \in T : N - x \in Nat
    BY <2>1
  <2> QED BY <2>2
<1> HIDE DEF U
<1>2. PICK u \in U : \A v \in U : u <= v
  BY <1>1, Least
<1>3. PICK x \in T : u = N - x
  BY DEF U
<1>4. ASSUME NEW y \in T PROVE x >= y
  <2>1. N - y \in U
    BY DEF U
  <2>2. u <= N - y /\ x \in Nat /\ y \in Nat
    BY <1>2, <2>1
  <2> QED BY <1>3, <2>2
<1>5. \E z \in T : \A y \in T : z >= y
  BY <1>4
<1> QED BY <1>5 DEF SSE!Max

LEMMA Tag23 == HasRekeyBit(TAG_REKEY) /\ HasRekeyBit(TAG_FINAL)
  BY DEF HasRekeyBit, TAG_REKEY, TAG_FINAL

(* The keys of the messages up to the last rekeying are older than the one *)
(* the log leads to.                                                       *)
LEMMA Discarded ==
    ASSUME Good(oracle), NEW h, NEW log, NEW s, Reaches(oracle, h, log, s)
    PROVE  Discards(s, log)
<1>1. PICK st \in [Nat -> State] : Chain(oracle, h, log, st) /\ st[Len(log)] = s
  BY DEF Reaches
<1> DEFINE n == Len(log)
           T == {0} \cup {i \in DOMAIN log :
                            log[i] = Rekey \/ (IsMessage(log[i]) /\ log[i].tag \in {TAG_REKEY, TAG_FINAL})}
           L == LastRekey(log)
<1>2. n \in Nat /\ DOMAIN log = 1 .. n /\ log \in Seq(Op)
  BY <1>1 DEF Chain
<1>3. T \in SUBSET Nat /\ T # {} /\ \A x \in T : x <= n
  BY <1>2
<1>4. L \in T
  <2>1. L = SSE!Max(T)
    BY DEF LastRekey
  <2> HIDE DEF T, L
  <2> QED BY <1>2, <1>3, <2>1, Greatest
<1> HIDE DEF L
<1>5. SUFFICES ASSUME NEW i \in 1 .. L, IsMessage(log[i]) PROVE oracle[log[i].mac].k # s.k
  BY DEF Discards, L
<1>6. /\ L \in 1 .. n /\ i \in 1 .. n /\ i - 1 \in 0 .. n /\ L - 1 \in 0 .. n /\ i - 1 <= L - 1
      /\ L \in 0 .. n /\ n \in 0 .. n /\ L <= n
  BY <1>2, <1>4
<1>7. Discarding(log[L])
  <2>1. L # 0
    BY <1>6
  <2>2. log[L] = Rekey \/ (IsMessage(log[L]) /\ log[L].tag \in {TAG_REKEY, TAG_FINAL})
    BY <1>4, <2>1
  <2> QED BY <2>2, Tag23 DEF Discarding
<1>8. /\ Steps(oracle, st[i - 1], log[i], st[i]) /\ Steps(oracle, st[L - 1], log[L], st[L])
      /\ Legit(st[i - 1], oracle) /\ Legit(st[L - 1], oracle) /\ Legit(st[L], oracle)
      /\ Legit(st[n], oracle)
      /\ st[i - 1].k <= st[L - 1].k /\ st[L].k <= st[n].k
  BY <1>1, <1>6 DEF Chain
<1>9. st[L - 1].k < st[L].k
  BY <1>7, <1>8, StepsTop
<1>10. oracle[log[i].mac].k = st[i - 1].k
  <2>1. Computed(oracle, st[i - 1], log[i])
    BY <1>5, <1>8, MessageComputed
  <2> QED BY <2>1 DEF Computed, Knows, Poly1305
<1>11. st[i - 1].k \in Nat /\ st[L - 1].k \in Nat /\ st[L].k \in Nat /\ st[n].k \in Nat
  <2>1. ASSUME NEW t, Legit(t, oracle) PROVE t.k \in Nat
    BY <2>1 DEF Legit, Holds, State
  <2> QED BY <1>8, <2>1
<1> QED BY <1>1, <1>8, <1>9, <1>10, <1>11

(* After a tag with the REKEY bit, or rekey(), neither end holds a key that*)
(* opens what came before: no later key is ever equal to an earlier one.   *)
THEOREM PastKeysGone == Spec => []RekeyDiscardsPastKeys
<1>1. AgreeInv => RekeyDiscardsPastKeys
  BY Discarded DEF AgreeInv, SenderReaches, ReceiverReaches, RekeyDiscardsPastKeys
<1> QED BY <1>1, Agreed, PTL

-----------------------------------------------------------------------------
(* The refinement of AuthStream.                                           *)

PlainMessage == [ad : Ads, tag : Tags, m : Msgs]
PlainOp      == PlainMessage \cup {Rekey}

LEMMA PlainType ==
    ASSUME NEW op \in Op PROVE Plain(op) \in PlainOp /\ (IsMessage(op) => Plain(op) \in PlainMessage)
<1>1. CASE op = Rekey
  <2>1. ~ IsMessage(op)
    BY <1>1 DEF IsMessage, Rekey
  <2> QED BY <1>1, <2>1 DEF Plain, PlainOp
<1>2. CASE op \in [kind : {"message"}, ad : Ads, tag : Tags, m : Msgs, mac : Nat]
  <2>1. IsMessage(op) /\ op.ad \in Ads /\ op.tag \in Tags /\ op.m \in Msgs
    BY <1>2 DEF IsMessage
  <2> QED BY <2>1 DEF Plain, PlainOp, PlainMessage
<1> QED BY <1>1, <1>2 DEF Op

LEMMA PlainLogType ==
    ASSUME NEW log \in Seq(Op)
    PROVE  /\ PlainLog(log) \in Seq(PlainOp) /\ Len(PlainLog(log)) = Len(log)
           /\ DOMAIN PlainLog(log) = 1 .. Len(log)
           /\ \A i \in 1 .. Len(log) : PlainLog(log)[i] = Plain(log[i])
<1>1. DOMAIN log = 1 .. Len(log) /\ Len(log) \in Nat /\ \A i \in 1 .. Len(log) : log[i] \in Op
  OBVIOUS
<1>2. PlainLog(log) = [i \in 1 .. Len(log) |-> Plain(log[i])]
  BY <1>1 DEF PlainLog
<1>3. \A i \in 1 .. Len(log) : Plain(log[i]) \in PlainOp
  BY <1>1, PlainType
<1> QED BY <1>1, <1>2, <1>3

LEMMA PlainAppend ==
    ASSUME NEW log \in Seq(Op), NEW op \in Op
    PROVE  PlainLog(Append(log, op)) = Append(PlainLog(log), Plain(op))
<1> DEFINE lg == Append(log, op)
           a  == PlainLog(lg)
           p  == Plain(op)
           l  == PlainLog(log)
           b  == Append(l, p)
<1>1. /\ lg \in Seq(Op) /\ Len(lg) = Len(log) + 1 /\ Len(log) \in Nat
      /\ lg[Len(log) + 1] = op /\ \A i \in 1 .. Len(log) : lg[i] = log[i]
  OBVIOUS
<1>2. /\ a \in Seq(PlainOp) /\ Len(a) = Len(log) + 1
      /\ \A i \in 1 .. Len(log) + 1 : a[i] = Plain(lg[i])
  <2> HIDE DEF lg
  <2> QED BY <1>1, PlainLogType
<1>3. /\ l \in Seq(PlainOp) /\ Len(l) = Len(log) /\ p \in PlainOp
      /\ \A i \in 1 .. Len(log) : l[i] = Plain(log[i])
  BY PlainLogType, PlainType
<1> HIDE DEF l, p, a, lg
<1>4. /\ b \in Seq(PlainOp) /\ Len(b) = Len(log) + 1 /\ b[Len(log) + 1] = p
      /\ \A i \in 1 .. Len(log) : b[i] = l[i]
  BY <1>1, <1>3
<1> HIDE DEF b
<1>5. \A i \in 1 .. Len(log) + 1 : a[i] = b[i]
  <2> SUFFICES ASSUME NEW i \in 1 .. Len(log) + 1 PROVE a[i] = b[i]
    OBVIOUS
  <2>1. CASE i = Len(log) + 1
    BY <1>1, <1>2, <1>4, <2>1 DEF p
  <2>2. CASE i \in 1 .. Len(log)
    BY <1>1, <1>2, <1>3, <1>4, <2>2
  <2> QED BY <1>1, <2>1, <2>2
<1>6. a = b
  BY <1>2, <1>4, <1>5
<1> QED BY <1>6 DEF a, b, l, p, lg

LEMMA PlainPrefix ==
    ASSUME NEW a \in Seq(Op), NEW b \in Seq(Op), Len(a) <= Len(b), \A z \in 1 .. Len(a) : a[z] = b[z]
    PROVE  PlainLog(a) = SubSeq(PlainLog(b), 1, Len(PlainLog(a)))
<1> DEFINE x == PlainLog(a)
           y == PlainLog(b)
<1>1. /\ x \in Seq(PlainOp) /\ Len(x) = Len(a) /\ \A i \in 1 .. Len(a) : x[i] = Plain(a[i])
      /\ y \in Seq(PlainOp) /\ Len(y) = Len(b) /\ \A i \in 1 .. Len(b) : y[i] = Plain(b[i])
  BY PlainLogType
<1>2. Len(a) \in Nat /\ Len(b) \in Nat
  OBVIOUS
<1> HIDE DEF x, y
<1>3. \A i \in 1 .. Len(x) : x[i] = y[i]
  BY <1>1, <1>2
<1>4. x = SubSeq(y, 1, Len(x))
  BY <1>1, <1>2, <1>3
<1> QED BY <1>4 DEF x, y

PlainSent == [h \in Header |-> PlainLog(sent[h])]

LEMMA NothingIsPlain == PlainLog(<<>>) = <<>>
<1>1. <<>> \in Seq(Op) /\ Len(<<>>) = 0
  OBVIOUS
<1>2. PlainLog(<<>>) \in Seq(PlainOp) /\ Len(PlainLog(<<>>)) = 0
  BY <1>1, PlainLogType
<1> QED BY <1>2

LEMMA OpenRefines ==
    ASSUME AgreeInv, NEW r \in Rand, InitPush(r) PROVE Auth!Open(<<r, r>>)
<1> DEFINE h == <<r, r>>
<1>1. h \in Header /\ h[1] = r /\ h # <<>>
  BY NoHeader DEF Header
<1>2. r \notin seen /\ session' = h /\ UNCHANGED <<sent, joined, got>>
  BY DEF InitPush
<1> HIDE DEF h
<1>3. h # session /\ sent[h] = <<>>
  BY <1>1, <1>2 DEF AgreeInv, SenderReaches, OldOnesReach
<1>4. PlainSent[h] = <<>>
  BY <1>1, <1>3, NothingIsPlain DEF PlainSent
<1> QED BY <1>2, <1>3, <1>4 DEF Auth!Open, PlainSent, h

LEMMA SendRefines ==
    ASSUME AgreeInv, snd # None, NEW op \in Op, sent' = [sent EXCEPT ![session] = Append(@, op)],
           UNCHANGED <<session, joined, got>>
    PROVE  Auth!Send(Plain(op))
<1>1. session \in Header /\ session # <<>> /\ sent \in [Header -> Seq(Op)] /\ sent[session] \in Seq(Op)
  BY DEF AgreeInv, Typed
<1>2. \A h \in Header : PlainSent'[h] = IF h = session THEN Append(PlainSent[h], Plain(op)) ELSE PlainSent[h]
  <2> SUFFICES ASSUME NEW h \in Header
               PROVE PlainSent'[h] = IF h = session THEN Append(PlainSent[h], Plain(op)) ELSE PlainSent[h]
    OBVIOUS
  <2>1. PlainSent'[h] = PlainLog(sent'[h]) /\ PlainSent[h] = PlainLog(sent[h])
    BY DEF PlainSent, PlainLog, Plain, IsMessage
  <2>2. CASE h = session
    BY <1>1, <2>1, <2>2, PlainAppend
  <2>3. CASE h # session
    BY <1>1, <2>1, <2>3
  <2> QED BY <2>2, <2>3
<1>3. PlainSent' = [PlainSent EXCEPT ![session] = Append(@, Plain(op))]
  <2>1. DOMAIN PlainSent = Header /\ DOMAIN PlainSent' = Header
    BY DEF PlainSent
  <2>2. PlainSent = [h \in Header |-> PlainSent[h]] /\ PlainSent' = [h \in Header |-> PlainSent'[h]]
    BY DEF PlainSent
  <2> QED BY <1>1, <1>2, <2>1, <2>2
<1> QED BY <1>1, <1>3 DEF Auth!Send, PlainSent

LEMMA DeliverRefines ==
    ASSUME AgreeInv, NEW m \in Msgs, NEW ad \in Ads, NEW tag \in Tags, NEW mac,
           PullAccepts(m, ad, tag, mac)
    PROVE  Auth!Deliver
<1> DEFINE op == MessageOp(ad, tag, m, mac)
           n  == Len(got)
           l  == sent[joined]
<1>1. /\ got' = Append(got, op) /\ rcv # None
      /\ UNCHANGED <<session, sent, joined>>
      /\ mac \in DOMAIN oracle /\ oracle[mac] = Poly1305(rcv, ad, tag, m)
  BY DEF PullAccepts, Verifies
<1>2. /\ joined \in Header /\ joined # <<>> /\ got \in Seq(Op) /\ l \in Seq(Op)
      /\ Reaches(oracle, joined, got, rcv) /\ Good(oracle) /\ DOMAIN oracle = 1 .. Len(oracle)
      /\ mac \in Nat
  BY <1>1 DEF AgreeInv, Typed, ReceiverReaches, Good
<1>3. PICK st \in [Nat -> State] : Chain(oracle, joined, got, st) /\ st[n] = rcv
  BY <1>2 DEF Reaches
<1>4. /\ op \in Op /\ IsMessage(op)
      /\ op.ad = ad /\ op.tag = tag /\ op.m = m /\ op.mac = mac
  BY <1>2 DEF MessageOp, Op, IsMessage
<1> HIDE DEF op
<1>5. n \in Nat /\ n \in 0 .. n /\ Len(l) \in Nat
  BY <1>2
<1>6. Computed(oracle, st[n], op)
  BY <1>1, <1>2, <1>3, <1>4 DEF Computed, Knows
<1>7. n + 1 \in 1 .. Len(l) /\ l[n + 1] = op /\ \A z \in 1 .. n : got[z] = l[z]
  BY <1>2, <1>3, <1>4, <1>5, <1>6, Accepted
<1>8. /\ PlainLog(got) = SubSeq(PlainLog(l), 1, Len(PlainLog(got)))
      /\ Len(PlainLog(got)) = n /\ Len(PlainLog(l)) = Len(l)
      /\ PlainLog(l)[n + 1] = Plain(op) /\ Plain(op) \in PlainMessage
      /\ PlainLog(got') = Append(PlainLog(got), Plain(op))
  <2>1. n <= Len(l)
    BY <1>5, <1>7
  <2>2. PlainLog(got) = SubSeq(PlainLog(l), 1, Len(PlainLog(got)))
    BY <1>2, <1>7, <2>1, PlainPrefix
  <2>3. /\ Len(PlainLog(got)) = n /\ Len(PlainLog(l)) = Len(l)
        /\ PlainLog(l)[n + 1] = Plain(l[n + 1])
    BY <1>2, <1>7, PlainLogType
  <2>4. PlainLog(got') = Append(PlainLog(got), Plain(op))
    BY <1>1, <1>2, <1>4, PlainAppend
  <2> QED BY <1>4, <1>7, <2>2, <2>3, <2>4, PlainType
<1>9. PlainSent[joined] = PlainLog(l)
  BY <1>2 DEF PlainSent
<1> HIDE DEF n, l
<1>10. n < Len(l)
  BY <1>5, <1>7
<1>11. Auth!InStep
  BY <1>2, <1>8, <1>9, <1>10 DEF Auth!InStep, PlainSent
<1>12. PlainLog(got)' = PlainLog(got')
  BY DEF PlainLog, Plain, IsMessage
<1> QED BY <1>1, <1>8, <1>9, <1>11, <1>12 DEF Auth!Deliver, PlainSent, PlainMessage

LEMMA RekeyRefines == ASSUME AgreeInv, RekeyReceiver PROVE Auth!ReceiverRekeys
<1>1. got' = Append(got, Rekey) /\ rcv # None /\ UNCHANGED <<session, sent, joined>>
  BY DEF RekeyReceiver
<1>2. joined # <<>> /\ got \in Seq(Op) /\ Rekey \in Op
  BY <1>1 DEF AgreeInv, Typed, Op
<1>3. Plain(Rekey) = Rekey
  BY DEF Plain, IsMessage, Rekey
<1>4. PlainLog(got') = Append(PlainLog(got), Rekey)
  BY <1>1, <1>2, <1>3, PlainAppend
<1> QED BY <1>1, <1>2, <1>4 DEF Auth!ReceiverRekeys, PlainLog, Plain, IsMessage

(* Every step of the code is a step of AuthStream, or changes nothing that *)
(* AuthStream sees.                                                        *)
LEMMA AuthSimulation == ASSUME AgreeInv, [Next]_vars PROVE [Auth!Next]_Auth!vars
<1>1. ASSUME NEW r \in Rand, InitPush(r) PROVE Auth!Next
  <2>1. <<r, r>> \in Header
    BY DEF Header
  <2> QED BY <1>1, <2>1, OpenRefines DEF Auth!Next
<1>2. ASSUME NEW m \in Msgs, NEW ad \in Ads, NEW tag \in Tags, Push(m, ad, tag) PROVE Auth!Next
  <2> DEFINE q   == Poly1305(snd, ad, tag, m)
             mac == Answer(oracle, q)
             op  == MessageOp(ad, tag, m, mac)
  <2>1. /\ sent' = [sent EXCEPT ![session] = Append(@, op)] /\ snd # None
        /\ UNCHANGED <<session, joined, got>>
    BY <1>2 DEF Push
  <2>2. Legit(snd, oracle)
    <3>1. session # <<>>
      BY <2>1 DEF AgreeInv, Typed
    <3> QED BY <3>1, ReachesLegit DEF AgreeInv, SenderReaches
  <2>3. mac \in Nat
    BY <2>2, MacKnown DEF AgreeInv, Knows, Grows
  <2> HIDE DEF mac
  <2>4. op \in Op /\ IsMessage(op)
    BY <2>3 DEF MessageOp, Op, IsMessage
  <2> HIDE DEF op
  <2>5. Auth!Send(Plain(op)) /\ Plain(op) \in PlainMessage
    BY <2>1, <2>4, SendRefines, PlainType
  <2> QED BY <2>5 DEF Auth!Next, PlainMessage
<1>3. ASSUME RekeySender PROVE Auth!Next
  <2>1. Plain(Rekey) = Rekey /\ Rekey \in Op
    BY DEF Plain, IsMessage, Rekey, Op
  <2>2. /\ sent' = [sent EXCEPT ![session] = Append(@, Rekey)] /\ snd # None
        /\ UNCHANGED <<session, joined, got>>
    BY <1>3 DEF RekeySender
  <2>3. Auth!Send(Plain(Rekey))
    BY <2>1, <2>2, SendRefines
  <2> QED BY <2>1, <2>3 DEF Auth!Next
<1>4. ASSUME NEW h \in Header, InitPull(h) PROVE Auth!Next
  <2>1. joined' = h /\ got' = <<>> /\ UNCHANGED <<session, sent>>
    BY <1>4 DEF InitPull
  <2>2. Auth!Join(h)
    BY <2>1, NothingIsPlain DEF Auth!Join, PlainLog, Plain, IsMessage
  <2> QED BY <2>2 DEF Auth!Next
<1>5. ASSUME NEW m \in Msgs, NEW ad \in Ads, NEW tag \in Tags, NEW mac, PullAccepts(m, ad, tag, mac)
      PROVE  Auth!Next
  BY <1>5, DeliverRefines DEF Auth!Next
<1>6. ASSUME RekeyReceiver PROVE Auth!Next
  BY <1>6, RekeyRefines DEF Auth!Next
<1>7. ASSUME UNCHANGED <<session, sent, joined, got>> PROVE UNCHANGED Auth!vars
  BY <1>7 DEF Auth!vars, PlainLog, Plain, IsMessage
<1>8. ASSUME NEW m \in Msgs, PushTooLong(m) \/ PullTooLong(m) PROVE UNCHANGED Auth!vars
  BY <1>7, <1>8 DEF PushTooLong, PullTooLong
<1>9. ASSUME UNCHANGED vars PROVE UNCHANGED Auth!vars
  BY <1>7, <1>9 DEF vars
<1>10. ASSUME Pull PROVE [Auth!Next]_Auth!vars
  <2>1. PICK m \in Msgs, ad \in Ads, tag \in Tags, mac \in {0} \cup DOMAIN oracle :
            PullAccepts(m, ad, tag, mac) \/ PullRejects(m, ad, tag, mac)
    BY <1>10 DEF Pull
  <2>2. CASE PullAccepts(m, ad, tag, mac)
    BY <1>5, <2>2
  <2>3. CASE PullRejects(m, ad, tag, mac)
    BY <1>9, <2>3 DEF PullRejects
  <2> QED BY <2>1, <2>2, <2>3
<1> QED BY <1>1, <1>2, <1>3, <1>4, <1>6, <1>8, <1>9, <1>10 DEF Next

(* The code, seen without its cryptography, is an authenticated stream:    *)
(* nothing but the next message of the stream that was joined is delivered.*)
THEOREM Implementation == Spec => ImplementsAuthStream
<1>1. Init => Auth!Init
  <2> SUFFICES ASSUME Init PROVE Auth!Init
    OBVIOUS
  <2>1. session = <<>> /\ joined = <<>> /\ got = <<>> /\ \A h \in Header : sent[h] = <<>>
    BY DEF Init
  <2>2. PlainLog(got) = <<>>
    BY <2>1, NothingIsPlain
  <2>3. \A h \in Header : PlainLog(sent[h]) = <<>>
    BY <2>1, NothingIsPlain
  <2> QED BY <2>1, <2>2, <2>3 DEF Auth!Init
<1>2. AgreeInv /\ [Next]_vars => [Auth!Next]_Auth!vars
  BY AuthSimulation
<1> QED BY <1>1, <1>2, Agreed, PTL DEF Spec, ImplementsAuthStream, Auth!Spec
=============================================================================
