----------------------------- MODULE AuthStream -----------------------------
(***************************************************************************)
(* What a secret stream promises, with no cryptography in it: whatever     *)
(* the network does, the receiver of a stream accepts only the next        *)
(* message the sender put in that very stream, and only if it has          *)
(* rekeyed exactly where the sender has.                                   *)
(***************************************************************************)
EXTENDS Sequences, Naturals

CONSTANTS Stream,    \* identities of streams
          Message,   \* messages, with their tag and additional data
          Rekey,     \* an explicit rekeying, agreed out of band
          Nobody     \* not a stream

(* What the constants must be; a theorem that needs it says so.            *)
Distinct == Rekey \notin Message /\ Nobody \notin Stream

VARIABLES sender,    \* the stream being sent
          sent,      \* sent[s]: the operations on stream s, in order
          receiver,  \* the stream being received
          received   \* the operations on it at the receiving end, in order

vars == <<sender, sent, receiver, received>>

Init ==
    /\ sender = Nobody   /\ sent = [s \in Stream |-> <<>>]
    /\ receiver = Nobody /\ received = <<>>

(* A stream is opened once.                                                *)
Open(s) ==
    /\ s # sender /\ sent[s] = <<>>
    /\ sender' = s
    /\ UNCHANGED <<sent, receiver, received>>

Send(op) ==
    /\ sender # Nobody
    /\ sent' = [sent EXCEPT ![sender] = Append(@, op)]
    /\ UNCHANGED <<sender, receiver, received>>

Join(s) ==
    /\ receiver' = s /\ received' = <<>>
    /\ UNCHANGED <<sender, sent>>

(* The receiver has done a strict prefix of what the sender has, and the   *)
(* next operation is a message: it is the only one that can be accepted.   *)
InStep ==
    /\ receiver # Nobody
    /\ Len(received) < Len(sent[receiver])
    /\ received = SubSeq(sent[receiver], 1, Len(received))

Deliver ==
    /\ InStep
    /\ sent[receiver][Len(received) + 1] \in Message
    /\ received' = Append(received, sent[receiver][Len(received) + 1])
    /\ UNCHANGED <<sender, sent, receiver>>

ReceiverRekeys ==
    /\ receiver # Nobody
    /\ received' = Append(received, Rekey)
    /\ UNCHANGED <<sender, sent, receiver>>

Next ==
    \/ \E s \in Stream : Open(s) \/ Join(s)
    \/ \E op \in Message \cup {Rekey} : Send(op)
    \/ Deliver
    \/ ReceiverRekeys

Spec == Init /\ [][Next]_vars

(* What follows from Spec alone: if the last operation of the receiver is  *)
(* a message, everything it did is what the sender did first.              *)
Agreement ==
    \A i \in DOMAIN received :
        received[i] \in Message =>
            /\ i <= Len(sent[receiver])
            /\ SubSeq(received, 1, i) = SubSeq(sent[receiver], 1, i)
=============================================================================
