------------------------- MODULE MCConnectionReads -------------------------
(* Model-checking instances of ConnectionReads.                              *)
EXTENDS ConnectionReads, TLC

Symmetry == Permutations(Conn)
=============================================================================
