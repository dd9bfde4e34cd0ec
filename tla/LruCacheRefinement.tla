------------------------- MODULE LruCacheRefinement -------------------------
(***************************************************************************)
(* LruCache implements FileCache: the items of the abstract cache are the  *)
(* nodes in the order in which a traversal from the head meets them.       *)
(***************************************************************************)
EXTENDS LruCache, Sequences

\* What the callers can tell of the item in node n.
ItemOf(n) ==
  [name |-> file_name[n], buff |-> buff[n], locks |-> num_locks[n], outdated |-> outdated[n]]

AbstractItems ==
  LET order == Traversal(list, num_items)
  IN [k \in 1..num_items |-> ItemOf(order[k])]

Abstract == INSTANCE FileCache WITH items <- AbstractItems

\* Every behaviour of the pointer level is one of the abstract cache: items
\* are handed out, promoted, refused and evicted in the order and under the
\* conditions FileCache states, and every buffer is freed when it says.
ImplementsFileCache == Abstract!Spec
=============================================================================
