-------------------------- MODULE AuthStreamProofs --------------------------
(***************************************************************************)
(* What a secret stream promises implies that what the receiver accepted   *)
(* is a prefix of what the sender sent.                                    *)
(***************************************************************************)
EXTENDS AuthStream, TLAPS

Operation == Message \cup {Rekey}

TypeOK ==
    /\ sender \in Stream \cup {Nobody} /\ receiver \in Stream \cup {Nobody}
    /\ sent \in [Stream -> Seq(Operation)]
    /\ received \in Seq(Operation)
    /\ receiver = Nobody => received = <<>>

LEMMA TypeStep == ASSUME Distinct, TypeOK, [Next]_vars PROVE TypeOK'
<1> USE DEF Distinct, TypeOK, Operation
<1>1. ASSUME NEW s \in Stream, Open(s) PROVE TypeOK'
  BY <1>1 DEF Open
<1>2. ASSUME NEW s \in Stream, Join(s) PROVE TypeOK'
  BY <1>2 DEF Join
<1>3. ASSUME NEW op \in Message \cup {Rekey}, Send(op) PROVE TypeOK'
  <2>1. sender \in Stream /\ sent' = [sent EXCEPT ![sender] = Append(@, op)]
    BY <1>3 DEF Send
  <2>2. Append(sent[sender], op) \in Seq(Operation)
    BY <2>1
  <2> QED BY <1>3, <2>1, <2>2 DEF Send
<1>4. CASE Deliver
  BY <1>4 DEF Deliver, InStep
<1>5. CASE ReceiverRekeys
  BY <1>5 DEF ReceiverRekeys
<1>6. CASE UNCHANGED vars
  BY <1>6 DEF vars
<1> QED BY <1>1, <1>2, <1>3, <1>4, <1>5, <1>6 DEF Next

(* Two sequences start alike when their elements do.                       *)
LEMMA AlikePrefixes ==
    ASSUME NEW a \in Seq(Operation), NEW b \in Seq(Operation), NEW i \in Nat,
           i <= Len(a), i <= Len(b)
    PROVE  SubSeq(a, 1, i) = SubSeq(b, 1, i) <=> \A j \in 1 .. i : a[j] = b[j]
<1>1. /\ SubSeq(a, 1, i) = [j \in 1 .. i |-> a[j]]
      /\ SubSeq(b, 1, i) = [j \in 1 .. i |-> b[j]]
  OBVIOUS
<1>2. ASSUME \A j \in 1 .. i : a[j] = b[j] PROVE SubSeq(a, 1, i) = SubSeq(b, 1, i)
  BY <1>1, <1>2
<1>3. ASSUME SubSeq(a, 1, i) = SubSeq(b, 1, i), NEW j \in 1 .. i PROVE a[j] = b[j]
  <2>1. [n \in 1 .. i |-> a[n]][j] = [n \in 1 .. i |-> b[n]][j]
    BY <1>1, <1>3
  <2> QED BY <2>1
<1> QED BY <1>2, <1>3

(* Agreement, element by element.                                          *)
Alike(r, s) ==
    \A i \in 1 .. Len(r) :
        r[i] \in Message => i <= Len(s) /\ \A j \in 1 .. i : r[j] = s[j]


AgreementInv == receiver # Nobody => Alike(received, sent[receiver])

LEMMA AgreementStep ==
    ASSUME Distinct, TypeOK, AgreementInv, [Next]_vars PROVE AgreementInv'
<1> USE DEF Distinct, AgreementInv, Operation
<1>1. ASSUME NEW s \in Stream, Open(s) PROVE AgreementInv'
  BY <1>1 DEF Open
<1>2. ASSUME NEW s \in Stream, Join(s) PROVE AgreementInv'
  BY <1>2 DEF Join, Alike
<1>3. ASSUME NEW op \in Message \cup {Rekey}, Send(op) PROVE AgreementInv'
  <2>1. UNCHANGED <<receiver, received>> /\ sender \in Stream
    BY <1>3 DEF Send, TypeOK
  <2>2. CASE receiver = sender
    <3>1. /\ sent[sender] \in Seq(Operation) /\ received \in Seq(Operation)
          /\ sent'[sender] = Append(sent[sender], op)
      BY <1>3, <2>1 DEF Send, TypeOK
    <3>2. /\ Len(sent'[sender]) = Len(sent[sender]) + 1
          /\ \A j \in 1 .. Len(sent[sender]) : sent'[sender][j] = sent[sender][j]
          /\ Len(sent[sender]) \in Nat /\ Len(received) \in Nat
      BY <3>1
    <3>3. ASSUME NEW i \in 1 .. Len(received), received[i] \in Message
          PROVE  i <= Len(sent'[sender]) /\ \A j \in 1 .. i : received[j] = sent'[sender][j]
      <4>1. i <= Len(sent[sender]) /\ \A j \in 1 .. i : received[j] = sent[sender][j]
        BY <2>1, <2>2, <3>3 DEF Alike
      <4> QED BY <3>2, <4>1
    <3> QED BY <2>1, <2>2, <3>3 DEF Alike
  <2>3. CASE receiver # sender
    BY <1>3, <2>1, <2>3 DEF Send, TypeOK
  <2> QED BY <2>2, <2>3
<1>4. CASE Deliver
  <2> DEFINE n == Len(received)
             s == sent[receiver]
  <2>1. /\ received \in Seq(Operation) /\ s \in Seq(Operation) /\ n \in Nat /\ Len(s) \in Nat
        /\ n < Len(s) /\ received = SubSeq(s, 1, n) /\ UNCHANGED <<receiver, sent>>
        /\ received' = Append(received, s[n + 1])
    BY <1>4 DEF Deliver, InStep, TypeOK
  <2> HIDE DEF s
  <2>2. \A j \in 1 .. n : received[j] = s[j]
    BY <2>1
  <2>3. Len(received') = n + 1 /\ \A j \in 1 .. n + 1 : received'[j] = s[j]
    BY <2>1, <2>2
  <2>4. Alike(received', s)
    BY <2>1, <2>3 DEF Alike
  <2> QED BY <2>1, <2>4 DEF s
<1>5. CASE ReceiverRekeys
  <2>1. /\ received \in Seq(Operation) /\ received' = Append(received, Rekey)
        /\ UNCHANGED <<receiver, sent>> /\ Rekey \notin Message
    BY <1>5 DEF ReceiverRekeys, TypeOK
  <2>2. /\ Len(received') = Len(received) + 1 /\ received'[Len(received) + 1] = Rekey
        /\ \A j \in 1 .. Len(received) : received'[j] = received[j]
        /\ Len(received) \in Nat
    BY <2>1
  <2>3. ASSUME NEW i \in 1 .. Len(received'), received'[i] \in Message
        PROVE  i \in 1 .. Len(received) /\ received[i] \in Message
    BY <2>1, <2>2, <2>3
  <2> QED BY <2>1, <2>2, <2>3 DEF Alike
<1>6. CASE UNCHANGED vars
  BY <1>6 DEF vars
<1> QED BY <1>1, <1>2, <1>3, <1>4, <1>5, <1>6 DEF Next

(* The receiver accepted a prefix: no message was lost, repeated,          *)
(* reordered, altered or taken from another stream.                        *)
THEOREM Prefix == ASSUME Distinct PROVE Spec => []Agreement
<1>1. Init => TypeOK /\ AgreementInv
  BY DEF Init, TypeOK, AgreementInv
<1>2. TypeOK /\ AgreementInv => Agreement
  <2> SUFFICES ASSUME TypeOK, AgreementInv, NEW i \in DOMAIN received, received[i] \in Message
               PROVE  /\ i <= Len(sent[receiver])
                      /\ SubSeq(received, 1, i) = SubSeq(sent[receiver], 1, i)
    BY DEF Agreement
  <2>1. received \in Seq(Operation) /\ i \in 1 .. Len(received) /\ receiver \in Stream
    BY DEF TypeOK
  <2>2. sent[receiver] \in Seq(Operation) /\ receiver # Nobody
    BY <2>1 DEF Distinct, TypeOK
  <2>3. i <= Len(sent[receiver]) /\ \A j \in 1 .. i : received[j] = sent[receiver][j]
    BY <2>1, <2>2 DEF AgreementInv, Alike
  <2> QED BY <2>1, <2>2, <2>3, AlikePrefixes
<1>3. TypeOK /\ AgreementInv /\ [Next]_vars => TypeOK' /\ AgreementInv'
  BY TypeStep, AgreementStep
<1> QED BY <1>1, <1>2, <1>3, PTL DEF Spec
=============================================================================
