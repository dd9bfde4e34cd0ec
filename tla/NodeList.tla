------------------------------ MODULE NodeList ------------------------------
(***************************************************************************)
(* The intrusive doubly linked list that lru_file_cache keeps its items    *)
(* in (src/lru.cpp, header/lru.hpp), at the level of its pointers.         *)
(*                                                                         *)
(* A list is a record [head, tail, next, prev]; a node is an address and   *)
(* NULL the null pointer.  The operators are the pointer surgeries of the  *)
(* C++ methods, assignment by assignment; only the order of a whole        *)
(* traversal is recursive.                                                 *)
(***************************************************************************)
EXTENDS Integers

CONSTANTS
  Nodes,  \* addresses item_node objects can have
  NULL    \* the null pointer

ASSUME NullIsNoNode == NULL \notin Nodes

Pointers == Nodes \cup {NULL}

Lists == [head : Pointers, tail : Pointers,
          next : [Nodes -> Pointers], prev : [Nodes -> Pointers]]

EmptyList == [head |-> NULL, tail |-> NULL,
              next |-> [n \in Nodes |-> NULL], prev |-> [n \in Nodes |-> NULL]]

-----------------------------------------------------------------------------
(* Traversal: for (auto n = head; n != nullptr; n = n->next).              *)

\* S contains the successor of every node in it.
Closed(L, S) == \A n \in S : L.next[n] \in Nodes => L.next[n] \in S

\* The nodes a traversal that starts at n visits: the least closed set with n.
From(L, n) ==
  {m \in Nodes : \A S \in SUBSET Nodes : n \in S /\ Closed(L, S) => m \in S}

\* The nodes a traversal of the whole list visits.
OnList(L) ==
  {m \in Nodes :
     \A S \in SUBSET Nodes : {L.head} \cap Nodes \subseteq S /\ Closed(L, S) => m \in S}

\* The first n nodes a traversal meets, in this order.
Traversal(L, n) ==
  LET node[k \in 1..n] == IF k = 1 THEN L.head ELSE L.next[node[k - 1]]
  IN node

\* n is the element of hits at which a traversal that looks for one stops.
FirstOf(L, n, hits) == n \in hits /\ hits \subseteq From(L, n)

-----------------------------------------------------------------------------
(* Surgery.                                                                *)

\* Mutant of Unlink: the node after n keeps pointing back at n.
UnlinkOneWay(L, n) ==
  [head |-> IF n = L.head THEN L.next[n] ELSE L.head,
   tail |-> IF n = L.tail THEN L.prev[n] ELSE L.tail,
   next |-> [m \in Nodes |-> IF m = n THEN NULL
                             ELSE IF m = L.prev[n] THEN L.next[n] ELSE L.next[m]],
   prev |-> [L.prev EXCEPT ![n] = NULL]]

\* The four ifs of remove_node; the pointers of the deleted node are cleared.
Unlink(L, n) ==
  [head |-> IF n = L.head THEN L.next[n] ELSE L.head,
   tail |-> IF n = L.tail THEN L.prev[n] ELSE L.tail,
   next |-> [m \in Nodes |-> IF m = n THEN NULL
                             ELSE IF m = L.prev[n] THEN L.next[n] ELSE L.next[m]],
   prev |-> [m \in Nodes |-> IF m = n THEN NULL
                             ELSE IF m = L.next[n] THEN L.prev[n] ELSE L.prev[m]]]

\* A new node put before the head; its own pointers start as null.
PushFront(L, n) ==
  [head |-> n,
   tail |-> IF L.tail = NULL THEN n ELSE L.tail,
   next |-> [L.next EXCEPT ![n] = IF L.tail = NULL THEN NULL ELSE L.head],
   prev |-> [m \in Nodes |-> IF m = n THEN NULL
                             ELSE IF L.tail # NULL /\ m = L.head THEN n ELSE L.prev[m]]]

\* Mutant of Promote: a hit does not count as a use.
PromoteNothing(L, n) == L

\* get_and_lock_item moves the node it found to the front.
Promote(L, n) ==
  IF n = L.head THEN L
  ELSE [head |-> n,
        tail |-> IF n = L.tail THEN L.prev[n] ELSE L.tail,
        next |-> [m \in Nodes |->
                    IF m = n THEN L.head
                    ELSE IF m = L.prev[n]
                         THEN IF n = L.tail THEN NULL ELSE L.next[n]
                         ELSE L.next[m]],
        prev |-> [m \in Nodes |->
                    IF m = n THEN NULL
                    ELSE IF m = L.head THEN n
                    ELSE IF n # L.tail /\ m = L.next[n] THEN L.prev[n]
                    ELSE L.prev[m]]]

-----------------------------------------------------------------------------
(* Well-formedness: L is the list of exactly the nodes in S.               *)

\* No pointer of the list leaves S: following one never touches freed memory.
NoDangling(L, S) ==
  /\ {L.head, L.tail} \subseteq S \cup {NULL}
  /\ \A n \in S : {L.next[n], L.prev[n]} \subseteq S \cup {NULL}

\* next and prev undo each other, and only the ends have no neighbour.
Linked(L, S) ==
  /\ \A n \in S : L.next[n] # NULL => L.prev[L.next[n]] = n
  /\ \A n \in S : L.prev[n] # NULL => L.next[L.prev[n]] = n
  /\ \A n \in S : (L.prev[n] = NULL) <=> (n = L.head)
  /\ \A n \in S : (L.next[n] = NULL) <=> (n = L.tail)
  /\ (L.head = NULL) <=> (L.tail = NULL)

\* A traversal from the head visits every node of S.
Reachable(L, S) ==
  \A T \in SUBSET Nodes : {L.head} \cap Nodes \subseteq T /\ Closed(L, T) => S \subseteq T

WellFormed(L, S) == NoDangling(L, S) /\ Linked(L, S) /\ Reachable(L, S)
=============================================================================
