-------------------------- MODULE MCInternalRandom --------------------------
(* Finite instances of InternalRandom: two threads in each of a process    *)
(* and its child.                                                          *)
EXTENDS InternalRandom

CONSTANTS t1, t2

MCMaxOps == [a \in Agent |-> CASE a = <<"parent", MainThread>> -> 2
                               [] a = <<"child", MainThread>> -> 2
                               [] OTHER -> 1]
=============================================================================
