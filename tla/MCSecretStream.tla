--------------------------- MODULE MCSecretStream ---------------------------
(* Finite instances of SecretStream.  Block sizes and counters are small,  *)
(* so that the counter wraps and the longest message is two blocks long.   *)
EXTENDS SecretStream, TLC

CONSTANTS r1, r2, short, long, huge, ad1, ad2

MCSize == [m \in Msgs |-> CASE m = short -> 1 [] m = long -> 4 [] m = huge -> 5]

Symmetry == Permutations(Rand)
=============================================================================
