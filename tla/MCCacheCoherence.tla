-------------------------- MODULE MCCacheCoherence --------------------------
(* Model-checking instances of CacheCoherence: two paths, of one file or of  *)
(* two.                                                                      *)
EXTENDS CacheCoherence

\* Inodes have no order, so that they can be numbered from any one path on.
MCInit == Init /\ place[CHOOSE n \in Names : TRUE] = 1

MCSpec == MCInit /\ [][Next]_vars /\ WF_vars(ReadEvents /\ UNCHANGED max_num_items)
=============================================================================
