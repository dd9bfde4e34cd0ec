----------------------------- MODULE MCLruCache -----------------------------
(* Model-checking instance of LruCache.                                     *)
EXTENDS LruCacheRefinement, TLC

Symmetry ==
  Permutations(Nodes) \cup Permutations(Files) \cup Permutations(Buffers)
    \cup Permutations(Watches) \cup Permutations(Clients)
=============================================================================
