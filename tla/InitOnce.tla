------------------------------ MODULE InitOnce ------------------------------
(***************************************************************************)
(* What sodium_init() promises to concurrent callers: the library becomes  *)
(* ready once; the caller that made it ready gets 0, every later one 1,    *)
(* and nobody gets either before it is ready.                              *)
(***************************************************************************)
CONSTANTS Caller, Nobody

VARIABLES ready,    \* the library can be used
          winner,   \* who made it ready
          zero,     \* the callers that were told 0
          one       \* the callers that were told 1

vars == <<ready, winner, zero, one>>

Init == ready = FALSE /\ winner = Nobody /\ zero = {} /\ one = {}

MakeReady(c) ==
    /\ ~ ready
    /\ ready' = TRUE /\ winner' = c
    /\ UNCHANGED <<zero, one>>

TellZero(c) == ready /\ c = winner /\ zero' = zero \cup {c} /\ UNCHANGED <<ready, winner, one>>
TellOne(c)  == ready /\ one' = one \cup {c} /\ UNCHANGED <<ready, winner, zero>>

Next == \E c \in Caller : MakeReady(c) \/ TellZero(c) \/ TellOne(c)

Spec == Init /\ [][Next]_vars
=============================================================================
