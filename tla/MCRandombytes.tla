---------------------------- MODULE MCRandombytes ----------------------------
(* Finite instances of Randombytes.                                        *)
EXTENDS Randombytes

CONSTANTS t1, t2

MCMaxOps == [t \in Thread |-> IF t = MainThread THEN 2 ELSE 2]
=============================================================================
