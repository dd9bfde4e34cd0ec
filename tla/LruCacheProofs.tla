--------------------------- MODULE LruCacheProofs ---------------------------
(***************************************************************************)
(* Proofs about lru_file_cache, for caches of any size and any number of   *)
(* files, buffers and callers.                                             *)
(*                                                                         *)
(* The properties of LruCache hold each other up.  The lock count of an    *)
(* item can only be the number of its users if a file has one item; a      *)
(* buffer in use can only be safe if the lock count is right; and the      *)
(* loops of the class only find what was put in if the list is intact.     *)
(* IInv, their conjunction, is inductive.                                  *)
(*                                                                         *)
(* The last part shows that the class implements FileCache: the items of   *)
(* the abstract cache are a table of the nodes in the order of the list,   *)
(* and every surgery on the list does to that table what the abstract      *)
(* action does to the items.                                               *)
(***************************************************************************)
EXTENDS LruCacheRefinement, NodeListProofs

IInv ==
  /\ TypeOK
  /\ ListIntact
  /\ CountAccurate
  /\ UniqueNames
  /\ LocksMatchUsers
  /\ UsedBuffersKept
  /\ OneOwnerEach

-----------------------------------------------------------------------------
(* What the loops find.                                                    *)

\* While the cache runs, its loops visit exactly the allocated items.
LEMMA LoopsVisitLive ==
  ASSUME TypeOK, ListIntact, running
  PROVE  OnList(list) = live
BY OnListIsS DEF TypeOK, ListIntact

\* get_item returns the one item of that name.
LEMMA FoundNamed ==
  ASSUME IInv, running, NEW f, NEW n \in Nodes
  PROVE  Found(n, Named(f)) <=> n \in live /\ file_name[n] = f
<1>1. Named(f) = {m \in live : file_name[m] = f}
  BY LoopsVisitLive DEF Named, IInv
<1>2. n \in Named(f) => Named(f) = {n}
  BY <1>1 DEF IInv, UniqueNames
<1>3. n \in From(list, n)
  BY DEF From
<1> QED BY <1>1, <1>2, <1>3 DEF Found, FirstOf

\* unlock_item stops at the one item of that name, if it is locked.
LEMMA FoundLockedNamed ==
  ASSUME IInv, running, NEW f, NEW n \in Nodes
  PROVE  Found(n, LockedNamed(f)) <=> n \in live /\ file_name[n] = f /\ num_locks[n] # 0
<1>1. LockedNamed(f) = {m \in live : file_name[m] = f /\ num_locks[m] # 0}
  BY LoopsVisitLive DEF Named, LockedNamed, IInv
<1>2. n \in LockedNamed(f) => LockedNamed(f) = {n}
  BY <1>1 DEF IInv, UniqueNames
<1>3. n \in From(list, n)
  BY DEF From
<1> QED BY <1>1, <1>2, <1>3 DEF Found, FirstOf

\* process_inotify_event only ever acts on an item of the cache.
LEMMA FoundWatching ==
  ASSUME IInv, running, NEW w, NEW n \in Nodes, Found(n, Watching(w))
  PROVE  n \in live
BY LoopsVisitLive DEF Watching, Found, FirstOf, IInv

\* A file nobody has cached is a file nobody uses.
LEMMA UncachedUnused ==
  ASSUME IInv, running, NEW f, Named(f) = {}
  PROVE  Using(f) = {} /\ \A n \in live : file_name[n] # f
<1>1. \A n \in live : file_name[n] # f
  BY LoopsVisitLive DEF Named, IInv
<1>2. Using(f) = {}
  BY <1>1 DEF Using, IInv, UsedBuffersKept
<1> QED BY <1>1, <1>2

\* An item without locks has no users.
LEMMA UnlockedUnused ==
  ASSUME IInv, running, NEW n \in live, num_locks[n] = 0
  PROVE  Using(file_name[n]) = {}
<1>1. Cardinality(Using(file_name[n])) = 0
  BY DEF IInv, LocksMatchUsers
<1>2. IsFiniteSet(Using(file_name[n]))
  BY FiniteHeap, FS_Subset DEF Using
<1> QED BY <1>1, <1>2, FS_EmptySet

\* The form in which the steps below establish that locks match users.
LEMMA LocksMatchNext ==
  ASSUME \A m \in live' : \A g :
           g = file_name'[m] => num_locks'[m] = Cardinality(Using(g)')
  PROVE  LocksMatchUsers'
BY DEF LocksMatchUsers, Using

-----------------------------------------------------------------------------
(* What the two structural operations do.                                  *)

\* remove_node takes one unused item out and leaves the others as they were.
LEMMA RemoveNodeKeeps ==
  ASSUME IInv, running, NEW n \in live, RemoveNode(n)
  PROVE  /\ list' \in Lists /\ WellFormed(list', live')
         /\ num_items' \in Nat /\ num_items' = Cardinality(live')
         /\ num_items' <= MaxItems
         /\ live' = live \ {n}
         /\ num_locks' \in [Nodes -> Nat]
         /\ file_name' \in [Nodes -> Files \cup {NULL}]
         /\ buff' \in [Nodes -> Buffers \cup {NULL}]
         /\ watch' \in [Nodes -> Watches \cup {NoWatch, NULL}]
         /\ outdated' \in [Nodes -> BOOLEAN]
         /\ \A m \in live' : /\ num_locks'[m] = num_locks[m]
                             /\ file_name'[m] = file_name[m]
                             /\ buff'[m] = buff[m]
                             /\ outdated'[m] = outdated[m]
<1>1. TypeOK /\ WellFormed(list, live) /\ num_items = Cardinality(live) /\ num_items <= MaxItems
  BY DEF IInv, ListIntact, CountAccurate
<1>2. IsFiniteSet(live) /\ live \subseteq Nodes
  BY <1>1, FiniteHeap, FS_Subset DEF TypeOK
<1>3. list' \in Lists /\ WellFormed(list', live')
  BY <1>1, <1>2, UnlinkWellFormed DEF RemoveNode, TypeOK
<1>4. Cardinality(live \ {n}) = Cardinality(live) - 1
  BY <1>2, FS_RemoveElement
<1>5. Cardinality(live \ {n}) \in Nat
  BY <1>2, FS_RemoveElement, FS_CardinalityType
<1>6. /\ num_items' \in Nat /\ num_items' = Cardinality(live')
      /\ num_items' <= MaxItems
  BY <1>1, <1>4, <1>5, MaxItemsIsNat DEF RemoveNode, TypeOK
<1>7. /\ num_locks' \in [Nodes -> Nat]
      /\ file_name' \in [Nodes -> Files \cup {NULL}]
      /\ buff' \in [Nodes -> Buffers \cup {NULL}]
      /\ watch' \in [Nodes -> Watches \cup {NoWatch, NULL}]
      /\ outdated' \in [Nodes -> BOOLEAN]
  BY <1>1 DEF RemoveNode, ForgetFields, Without, TypeOK
<1>8. \A m \in live' : /\ num_locks'[m] = num_locks[m]
                       /\ file_name'[m] = file_name[m]
                       /\ buff'[m] = buff[m]
                       /\ outdated'[m] = outdated[m]
  BY <1>2 DEF RemoveNode, ForgetFields, Without
<1> QED BY <1>3, <1>6, <1>7, <1>8 DEF RemoveNode

\* The end of add_or_update_item puts one item in front of the ones that are
\* left when r, if it is an item, has been evicted.
LEMMA AddNodeKeeps ==
  ASSUME IInv, NEW L \in Lists, NEW r \in Pointers, NEW k \in Nat, NEW n \in Nodes,
         NEW f \in Files \cup {NULL}, NEW b \in Buffers \cup {NULL},
         NEW w \in Watches \cup {NoWatch},
         WellFormed(L, live \ {r}), k = Cardinality(live \ {r}), k < MaxItems,
         AddNode(L, k, r, n, f, b, w)
  PROVE  /\ list' \in Lists /\ WellFormed(list', live')
         /\ num_items' \in Nat /\ num_items' = Cardinality(live')
         /\ num_items' <= MaxItems
         /\ live' = (live \ {r}) \cup {n}
         /\ live' \subseteq Nodes
         /\ n \notin live \ {r}
         /\ num_locks' \in [Nodes -> Nat]
         /\ file_name' \in [Nodes -> Files \cup {NULL}]
         /\ buff' \in [Nodes -> Buffers \cup {NULL}]
         /\ watch' \in [Nodes -> Watches \cup {NoWatch, NULL}]
         /\ outdated' \in [Nodes -> BOOLEAN]
         /\ num_locks'[n] = 0 /\ file_name'[n] = f /\ buff'[n] = b /\ ~outdated'[n]
         /\ \A m \in live \ {r} : /\ num_locks'[m] = num_locks[m]
                                  /\ file_name'[m] = file_name[m]
                                  /\ buff'[m] = buff[m]
                                  /\ outdated'[m] = outdated[m]
<1>1. TypeOK /\ live \ {r} \subseteq Nodes /\ n \in Nodes \ (live \ {r})
  BY DEF IInv, TypeOK, AddNode
<1>2. IsFiniteSet(live \ {r})
  BY <1>1, FiniteHeap, FS_Subset
<1>3. list' \in Lists /\ WellFormed(list', live')
  BY <1>1, PushFrontWellFormed DEF AddNode
<1>4. Cardinality(live') = k + 1
  BY <1>1, <1>2, FS_AddElement DEF AddNode
<1>5. /\ num_items' \in Nat /\ num_items' = Cardinality(live')
      /\ num_items' <= MaxItems
  BY <1>4, MaxItemsIsNat DEF AddNode
<1>6. /\ num_locks' \in [Nodes -> Nat]
      /\ file_name' \in [Nodes -> Files \cup {NULL}]
      /\ buff' \in [Nodes -> Buffers \cup {NULL}]
      /\ watch' \in [Nodes -> Watches \cup {NoWatch, NULL}]
      /\ outdated' \in [Nodes -> BOOLEAN]
  BY <1>1 DEF AddNode, Without, TypeOK
<1>7. num_locks'[n] = 0 /\ file_name'[n] = f /\ buff'[n] = b /\ ~outdated'[n]
  BY DEF AddNode, Without
<1>8. \A m \in live \ {r} : /\ num_locks'[m] = num_locks[m]
                            /\ file_name'[m] = file_name[m]
                            /\ buff'[m] = buff[m]
                            /\ outdated'[m] = outdated[m]
  BY <1>1 DEF AddNode, Without
<1> QED BY <1>1, <1>3, <1>5, <1>6, <1>7, <1>8 DEF AddNode

-----------------------------------------------------------------------------
(* The inductive step, one lemma per kind of action.                       *)

\* Handing out an item: one more lock, one more user, same items.
LEMMA GetHitKeeps ==
  ASSUME IInv, NEW c \in Clients, NEW f \in Files, GetHit(c, f)
  PROVE  IInv'
<1>1. PICK n \in Nodes :
        /\ Found(n, Named(f)) /\ ~outdated[n]
        /\ num_locks' = [num_locks EXCEPT ![n] = @ + 1]
        /\ list' = Promote(list, n)
        /\ Becomes(c, "using", f, buff[n])
  BY DEF GetHit
<1>2. running /\ running' /\ mode[c] = "idle"
  BY DEF GetHit, IInv, TypeOK
<1>3. n \in live /\ file_name[n] = f
  BY <1>1, <1>2, FoundNamed
<1>4. UNCHANGED <<num_items, file_name, buff, watch, outdated, live, allocated, running>>
  BY DEF GetHit
<1>5. TypeOK /\ WellFormed(list, live)
  BY <1>2 DEF IInv, ListIntact
<1>6. list' \in Lists /\ WellFormed(list', live')
  BY <1>1, <1>3, <1>4, <1>5, PromoteWellFormed DEF TypeOK
<1>7. TypeOK'
  BY <1>1, <1>4, <1>5, <1>6 DEF TypeOK, Becomes
<1>8. \A m \in live : file_name[m] = f => m = n
  BY <1>2, <1>3 DEF IInv, UniqueNames
<1>9. LocksMatchUsers'
  <2>1. Using(f)' = Using(f) \cup {c}
    BY <1>1, <1>5 DEF Using, Becomes, TypeOK
  <2>2. c \notin Using(f) /\ IsFiniteSet(Using(f))
    BY <1>2, FiniteHeap, FS_Subset DEF Using
  <2>3. Cardinality(Using(f)') = Cardinality(Using(f)) + 1
    BY <2>1, <2>2, FS_AddElement
  <2>4. \A g : g # f => Using(g)' = Using(g)
    BY <1>1, <1>2, <1>5 DEF Using, Becomes, TypeOK
  <2>5. ASSUME NEW m \in live, NEW g, g = file_name[m]
        PROVE  num_locks'[m] = Cardinality(Using(g)')
    <3>1. num_locks[m] = Cardinality(Using(g)) /\ m \in Nodes
      BY <1>2, <1>5, <2>5 DEF IInv, LocksMatchUsers, TypeOK
    <3>2. CASE m = n
      BY <1>1, <1>3, <1>5, <2>3, <2>5, <3>1, <3>2 DEF TypeOK
    <3>3. CASE m # n
      <4>1. Using(g)' = Using(g)
        BY <1>8, <2>4, <2>5, <3>3
      <4> QED BY <1>1, <1>5, <3>1, <3>3, <4>1 DEF TypeOK
    <3> QED BY <3>2, <3>3
  <2> QED BY <1>4, <2>5, LocksMatchNext
<1>10. UsedBuffersKept'
  BY <1>1, <1>2, <1>3, <1>4, <1>5 DEF IInv, UsedBuffersKept, OneOwnerEach, Becomes, TypeOK
<1>11. OneOwnerEach'
  BY <1>1, <1>2, <1>4, <1>5 DEF IInv, OneOwnerEach, Becomes, TypeOK
<1>12. ListIntact' /\ CountAccurate' /\ UniqueNames'
  BY <1>2, <1>4, <1>6 DEF IInv, ListIntact, CountAccurate, UniqueNames
<1> QED BY <1>7, <1>9, <1>10, <1>11, <1>12 DEF IInv

\* A caller that starts to read from disk, when the cache keeps its items.
LEMMA StartReadKeeps ==
  ASSUME IInv, running, NEW c \in Clients, NEW f \in Files, mode[c] = "idle",
         NEW b \in Buffers \ allocated, allocated' = allocated \cup {b},
         ReadsFromDisk(c, f, b), UNCHANGED <<cache, live, running>>
  PROVE  IInv'
<1>1. UNCHANGED <<list, num_items, num_locks, file_name, buff, watch, outdated, live, running>>
  BY DEF cache, fields
<1>2. TypeOK
  BY DEF IInv
<1>3. TypeOK'
  BY <1>1, <1>2 DEF TypeOK, ReadsFromDisk, Becomes
<1>4. \A g : Using(g)' = Using(g)
  BY <1>2 DEF Using, ReadsFromDisk, Becomes, TypeOK
<1>5. LocksMatchUsers'
  <2>1. ASSUME NEW m \in live, NEW g, g = file_name[m]
        PROVE  num_locks'[m] = Cardinality(Using(g)')
    <3>1. num_locks[m] = Cardinality(Using(g))
      BY <2>1 DEF IInv, LocksMatchUsers
    <3> QED BY <1>1, <1>4, <3>1
  <2> QED BY <1>1, <2>1, LocksMatchNext
<1>6. UsedBuffersKept'
  BY <1>1, <1>2 DEF IInv, UsedBuffersKept, ReadsFromDisk, Becomes, TypeOK
<1>7. OneOwnerEach'
  <2> DEFINE readers == {d \in Clients : mode[d] = "reading"}
  <2>1. readers' = readers \cup {c} /\ c \notin readers
    BY <1>2 DEF ReadsFromDisk, Becomes, TypeOK
  <2>2. \A d \in readers : data'[d] = data[d] /\ data[d] \in allocated
    BY <1>2, <2>1 DEF ReadsFromDisk, Becomes, TypeOK, IInv, OneOwnerEach
  <2>3. data'[c] = b
    BY <1>2 DEF ReadsFromDisk, Becomes, TypeOK
  <2>4. {buff[n] : n \in live} \subseteq allocated
    BY DEF IInv, OneOwnerEach
  <2>5. {data'[d] : d \in readers'} = {data[d] : d \in readers} \cup {b}
    BY <2>1, <2>2, <2>3
  <2> QED BY <1>1, <2>1, <2>2, <2>3, <2>4, <2>5 DEF IInv, OneOwnerEach
<1>8. ListIntact' /\ CountAccurate' /\ UniqueNames'
  BY <1>1 DEF IInv, ListIntact, CountAccurate, UniqueNames
<1> QED BY <1>3, <1>5, <1>6, <1>7, <1>8 DEF IInv

LEMMA GetMissKeeps ==
  ASSUME IInv, NEW c \in Clients, NEW f \in Files, GetMiss(c, f) \/ GetStaleInUse(c, f)
  PROVE  IInv'
<1>1. PICK b \in Buffers \ allocated :
        allocated' = allocated \cup {b} /\ ReadsFromDisk(c, f, b)
  BY DEF GetMiss, GetStaleInUse
<1> QED BY <1>1, StartReadKeeps DEF GetMiss, GetStaleInUse

\* A user returns: one lock and one user less, on the same item.
LEMMA UnlockKeeps ==
  ASSUME IInv, NEW c \in Clients, Unlock(c)
  PROVE  IInv'
<1>0. PICK f : f = want[c]
  OBVIOUS
<1>1. running /\ running' /\ mode[c] = "using"
  BY DEF Unlock
<1>2. UNCHANGED <<list, num_items, file_name, buff, watch, outdated, live, allocated, running>>
  BY DEF Unlock
<1>3. TypeOK
  BY DEF IInv
<1>4. Becomes(c, "idle", NULL, NULL)
  BY DEF Unlock
<1>5. \A n \in Nodes :
        num_locks'[n] = IF n \in live /\ file_name[n] = f /\ num_locks[n] # 0
                        THEN num_locks[n] - 1 ELSE num_locks[n]
  BY <1>0, <1>1, FoundLockedNamed DEF Unlock
<1>6. TypeOK'
  <2>1. num_locks' \in [Nodes -> Nat]
    <3>1. \A n \in Nodes : num_locks'[n] \in Nat
      BY <1>3, <1>5 DEF TypeOK
    <3> QED BY <3>1 DEF Unlock
  <2> QED BY <1>2, <1>3, <1>4, <2>1 DEF TypeOK, Becomes
<1>7. LocksMatchUsers'
  <2>1. Using(f)' = Using(f) \ {c} /\ c \in Using(f)
    BY <1>0, <1>1, <1>3, <1>4 DEF Using, Becomes, TypeOK
  <2>2. IsFiniteSet(Using(f))
    BY FiniteHeap, FS_Subset DEF Using
  <2>3. Cardinality(Using(f)') = Cardinality(Using(f)) - 1 /\ Cardinality(Using(f)) # 0
    BY <2>1, <2>2, FS_RemoveElement, FS_EmptySet
  <2>4. \A g : g # f => Using(g)' = Using(g)
    BY <1>0, <1>1, <1>3, <1>4 DEF Using, Becomes, TypeOK
  <2>5. ASSUME NEW m \in live, NEW g, g = file_name[m]
        PROVE  num_locks'[m] = Cardinality(Using(g)')
    <3>1. num_locks[m] = Cardinality(Using(g)) /\ m \in Nodes
      BY <1>1, <1>3, <2>5 DEF IInv, LocksMatchUsers, TypeOK
    <3>2. CASE g = f
      BY <1>0, <1>5, <2>3, <2>5, <3>1, <3>2
    <3>3. CASE g # f
      <4>1. Using(g)' = Using(g)
        BY <2>4, <3>3
      <4> QED BY <1>5, <2>5, <3>1, <3>3, <4>1
    <3> QED BY <3>2, <3>3
  <2> QED BY <1>2, <2>5, LocksMatchNext
<1>8. UsedBuffersKept'
  BY <1>1, <1>2, <1>3, <1>4 DEF IInv, UsedBuffersKept, Becomes, TypeOK
<1>9. OneOwnerEach'
  BY <1>1, <1>2, <1>3, <1>4 DEF IInv, OneOwnerEach, Becomes, TypeOK
<1>10. ListIntact' /\ CountAccurate' /\ UniqueNames'
  BY <1>2 DEF IInv, ListIntact, CountAccurate, UniqueNames
<1> QED BY <1>6, <1>7, <1>8, <1>9, <1>10 DEF IInv

\* Removing an unused item disturbs neither the other items nor the users.
LEMMA RemovalKeepsItems ==
  ASSUME IInv, running, NEW n \in live, num_locks[n] = 0, RemoveNode(n),
         UNCHANGED running, NEW freed, freed \cap {buff[m] : m \in live \ {n}} = {},
         allocated \ freed \subseteq allocated',
         \A d \in Clients : mode'[d] = "using" <=> mode[d] = "using",
         \A d \in Clients : mode[d] = "using" => want'[d] = want[d] /\ data'[d] = data[d]
  PROVE  ListIntact' /\ CountAccurate' /\ UniqueNames' /\ LocksMatchUsers' /\ UsedBuffersKept'
<1>1. /\ WellFormed(list', live')
      /\ num_items' = Cardinality(live') /\ num_items' <= MaxItems
      /\ live' = live \ {n}
      /\ \A m \in live' : /\ num_locks'[m] = num_locks[m]
                          /\ file_name'[m] = file_name[m]
                          /\ buff'[m] = buff[m]
  BY RemoveNodeKeeps
<1>2. \A g : Using(g)' = Using(g)
  BY DEF Using
<1>3. LocksMatchUsers'
  <2>1. ASSUME NEW m \in live', NEW g, g = file_name'[m]
        PROVE  num_locks'[m] = Cardinality(Using(g)')
    <3>1. num_locks[m] = Cardinality(Using(g))
      BY <1>1, <2>1 DEF IInv, LocksMatchUsers
    <3> QED BY <1>1, <1>2, <2>1, <3>1
  <2> QED BY <2>1, LocksMatchNext
<1>4. UsedBuffersKept'
  <2> SUFFICES ASSUME NEW d \in Clients, mode[d] = "using"
               PROVE  /\ data[d] \in allocated'
                      /\ \E m \in live' : file_name'[m] = want[d] /\ buff'[m] = data[d]
    BY DEF UsedBuffersKept
  <2>1. PICK m \in live : file_name[m] = want[d] /\ buff[m] = data[d]
    BY DEF IInv, UsedBuffersKept
  <2>2. m # n
    <3>1. d \in Using(file_name[m])
      BY <2>1 DEF Using
    <3> QED BY <3>1, UnlockedUnused
  <2>3. data[d] \in allocated
    BY DEF IInv, UsedBuffersKept
  <2> QED BY <1>1, <2>1, <2>2, <2>3
<1> QED BY <1>1, <1>3, <1>4 DEF IInv, ListIntact, CountAccurate, UniqueNames

\* process_inotify_event and remove_item, when they remove the item.
LEMMA RemoveKeeps ==
  ASSUME IInv, running, NEW n \in live, num_locks[n] = 0, RemoveNode(n),
         allocated' = allocated \ {buff[n]}, UNCHANGED <<callers, running>>
  PROVE  IInv'
<1>1. UNCHANGED <<mode, want, data, running>>
  BY DEF callers
<1>2. TypeOK /\ OneOwnerEach
  BY DEF IInv
<1>3. \A m \in live \ {n} : buff[m] # buff[n]
  BY <1>2 DEF OneOwnerEach
<1>4. ListIntact' /\ CountAccurate' /\ UniqueNames' /\ LocksMatchUsers' /\ UsedBuffersKept'
  <2> DEFINE freed == {buff[n]}
  <2>1. freed \cap {buff[m] : m \in live \ {n}} = {}
    BY <1>3
  <2>2. allocated \ freed \subseteq allocated'
    OBVIOUS
  <2> HIDE DEF freed
  <2> QED BY <1>1, <2>1, <2>2, RemovalKeepsItems
<1>5. TypeOK'
  BY <1>1, <1>2, RemoveNodeKeeps DEF TypeOK
<1>6. OneOwnerEach'
  <2>1. live' = live \ {n} /\ \A m \in live' : buff'[m] = buff[m]
    BY RemoveNodeKeeps
  <2>2. {buff'[m] : m \in live'} = {buff[m] : m \in live} \ {buff[n]}
    BY <1>3, <2>1
  <2>3. buff[n] \notin {data[d] : d \in {c \in Clients : mode[c] = "reading"}}
    BY <1>2 DEF OneOwnerEach
  <2> QED BY <1>1, <1>2, <2>1, <2>2, <2>3 DEF OneOwnerEach
<1> QED BY <1>4, <1>5, <1>6 DEF IInv

LEMMA RemoveItemKeeps ==
  ASSUME IInv, NEW f \in Files, RemoveItem(f)
  PROVE  IInv'
<1>1. PICK n \in Nodes :
        /\ Found(n, Named(f)) /\ num_locks[n] = 0
        /\ RemoveNode(n)
        /\ allocated' = allocated \ {buff[n]}
  BY DEF RemoveItem
<1>2. running /\ UNCHANGED <<callers, running>>
  BY DEF RemoveItem
<1>3. n \in live
  BY <1>1, <1>2, FoundNamed
<1> QED BY <1>1, <1>2, <1>3, RemoveKeeps

LEMMA ProcessInotifyEventKeeps ==
  ASSUME IInv, NEW w \in Watches \cup {NoWatch}, ProcessInotifyEvent(w)
  PROVE  IInv'
<1>1. PICK n \in Nodes :
        /\ Found(n, Watching(w))
        /\ \/ /\ num_locks[n] = 0
              /\ RemoveNode(n)
              /\ allocated' = allocated \ {buff[n]}
           \/ /\ num_locks[n] # 0
              /\ outdated' = [outdated EXCEPT ![n] = TRUE]
              /\ UNCHANGED <<list, num_items, num_locks, file_name, buff, watch, live, allocated>>
  BY DEF ProcessInotifyEvent
<1>2. running /\ UNCHANGED <<callers, running>>
  BY DEF ProcessInotifyEvent
<1>3. n \in live
  BY <1>1, <1>2, FoundWatching
<1>4. CASE num_locks[n] = 0
  BY <1>1, <1>2, <1>3, <1>4, RemoveKeeps
<1>5. CASE num_locks[n] # 0
  <2>1. /\ outdated' = [outdated EXCEPT ![n] = TRUE]
        /\ UNCHANGED <<list, num_items, num_locks, file_name, buff, watch, live, allocated,
                       mode, want, data, running>>
    BY <1>1, <1>2, <1>5 DEF callers
  <2> QED BY <2>1 DEF IInv, TypeOK, ListIntact, CountAccurate, UniqueNames,
                      LocksMatchUsers, UsedBuffersKept, OneOwnerEach, Using
<1> QED BY <1>4, <1>5

\* A request that finds an outdated item removes it and reads the file again.
LEMMA GetStaleKeeps ==
  ASSUME IInv, NEW c \in Clients, NEW f \in Files, GetStale(c, f)
  PROVE  IInv'
<1>1. PICK n \in Nodes, b \in Buffers :
        /\ Found(n, Named(f)) /\ outdated[n] /\ num_locks[n] = 0
        /\ RemoveNode(n)
        /\ b \notin allocated \ {buff[n]}
        /\ allocated' = (allocated \ {buff[n]}) \cup {b}
        /\ ReadsFromDisk(c, f, b)
  BY DEF GetStale
<1>2. running /\ mode[c] = "idle" /\ UNCHANGED running
  BY DEF GetStale
<1>3. n \in live
  BY <1>1, <1>2, FoundNamed
<1>4. TypeOK /\ OneOwnerEach
  BY DEF IInv
<1>5. \A m \in live \ {n} : buff[m] # buff[n]
  BY <1>3, <1>4 DEF OneOwnerEach
<1>6. /\ mode'[c] = "reading" /\ want'[c] = f /\ data'[c] = b
      /\ \A d \in Clients \ {c} :
           mode'[d] = mode[d] /\ want'[d] = want[d] /\ data'[d] = data[d]
  BY <1>1, <1>4 DEF ReadsFromDisk, Becomes, TypeOK
<1>7. ListIntact' /\ CountAccurate' /\ UniqueNames' /\ LocksMatchUsers' /\ UsedBuffersKept'
  <2> DEFINE freed == {buff[n]}
  <2>1. freed \cap {buff[m] : m \in live \ {n}} = {}
    BY <1>5
  <2>2. allocated \ freed \subseteq allocated'
    BY <1>1
  <2> HIDE DEF freed
  <2>3. \A d \in Clients : mode'[d] = "using" <=> mode[d] = "using"
    BY <1>2, <1>6
  <2>4. \A d \in Clients : mode[d] = "using" => want'[d] = want[d] /\ data'[d] = data[d]
    BY <1>2, <1>6
  <2> QED BY <1>1, <1>2, <1>3, <2>1, <2>2, <2>3, <2>4, RemovalKeepsItems
<1>8. TypeOK'
  BY <1>1, <1>2, <1>3, <1>4, RemoveNodeKeeps DEF TypeOK, ReadsFromDisk, Becomes
<1>9. OneOwnerEach'
  <2> DEFINE readers == {d \in Clients : mode[d] = "reading"}
  <2>1. live' = live \ {n} /\ \A m \in live' : buff'[m] = buff[m]
    BY <1>1, <1>2, <1>3, RemoveNodeKeeps
  <2>2. {buff'[m] : m \in live'} = {buff[m] : m \in live} \ {buff[n]}
    BY <1>3, <1>5, <2>1
  <2>3. {d \in Clients : mode'[d] = "reading"} = readers \cup {c} /\ c \notin readers
    BY <1>2, <1>6
  <2>4. buff[n] \notin {data[d] : d \in readers}
    BY <1>3, <1>4 DEF OneOwnerEach
  <2>5. {data'[d] : d \in readers \cup {c}} = {data[d] : d \in readers} \cup {b}
    BY <1>6, <2>3
  <2>6. b \notin {data[d] : d \in readers} /\ b \notin {buff'[m] : m \in live'}
    <3>1. b \notin allocated \ {buff[n]}
      BY <1>1
    <3>2. {buff[m] : m \in live} \ {buff[n]} \subseteq allocated \ {buff[n]}
      BY <1>4 DEF OneOwnerEach
    <3>3. {data[d] : d \in readers} \subseteq allocated \ {buff[n]}
      BY <1>4, <2>4 DEF OneOwnerEach
    <3> HIDE DEF readers
    <3> QED BY <2>2, <3>1, <3>2, <3>3
  <2>7. allocated' = {buff'[m] : m \in live'} \cup {data'[d] : d \in readers \cup {c}}
    <3>1. allocated = {buff[m] : m \in live} \cup {data[d] : d \in readers}
      BY <1>4 DEF OneOwnerEach
    <3> HIDE DEF readers
    <3> QED BY <1>1, <2>2, <2>4, <2>5, <3>1
  <2>8. \A d, e \in readers \cup {c} : data'[d] = data'[e] => d = e
    BY <1>4, <1>6, <2>3, <2>6 DEF OneOwnerEach
  <2>9. \A m, k \in live' : buff'[m] = buff'[k] => m = k
    BY <1>4, <2>1 DEF OneOwnerEach
  <2>10. {buff'[m] : m \in live'} \cap {data'[d] : d \in readers \cup {c}} = {}
    BY <1>4, <2>2, <2>5, <2>6 DEF OneOwnerEach
  <2> QED BY <2>3, <2>7, <2>8, <2>9, <2>10 DEF OneOwnerEach
<1> QED BY <1>7, <1>8, <1>9 DEF IInv

\* add_or_update_item gets a new item, evicting r if that is one.
LEMMA AddKeeps ==
  ASSUME IInv, running, UNCHANGED running,
         NEW c \in Clients, mode[c] = "reading", Named(want[c]) = {},
         NEW L \in Lists, NEW r \in Pointers, NEW k \in Nat, NEW n \in Nodes,
         NEW w \in Watches \cup {NoWatch},
         WellFormed(L, live \ {r}), k = Cardinality(live \ {r}), k < MaxItems,
         r \in live => num_locks[r] = 0,
         AddNode(L, k, r, n, want[c], data[c], w),
         allocated' = allocated \ {buff[m] : m \in live \cap {r}},
         Becomes(c, "idle", NULL, NULL)
  PROVE  IInv'
<1>1. TypeOK /\ OneOwnerEach
  BY DEF IInv
<1>2. PICK f \in Files \cup {NULL}, b \in Buffers \cup {NULL} : f = want[c] /\ b = data[c]
  BY <1>1 DEF TypeOK
<1>3. /\ list' \in Lists /\ WellFormed(list', live')
      /\ num_items' \in Nat /\ num_items' = Cardinality(live')
      /\ num_items' <= MaxItems
      /\ live' = (live \ {r}) \cup {n} /\ live' \subseteq Nodes
      /\ n \notin live \ {r}
      /\ num_locks'[n] = 0 /\ file_name'[n] = f /\ buff'[n] = b
      /\ \A m \in live \ {r} : /\ num_locks'[m] = num_locks[m]
                               /\ file_name'[m] = file_name[m]
                               /\ buff'[m] = buff[m]
  BY <1>2, AddNodeKeeps
<1>4. /\ num_locks' \in [Nodes -> Nat]
      /\ file_name' \in [Nodes -> Files \cup {NULL}]
      /\ buff' \in [Nodes -> Buffers \cup {NULL}]
      /\ watch' \in [Nodes -> Watches \cup {NoWatch, NULL}]
      /\ outdated' \in [Nodes -> BOOLEAN]
  BY <1>2, AddNodeKeeps
<1>5. /\ mode'[c] = "idle"
      /\ \A d \in Clients \ {c} :
           mode'[d] = mode[d] /\ want'[d] = want[d] /\ data'[d] = data[d]
  BY <1>1 DEF Becomes, TypeOK
<1>6. TypeOK'
  BY <1>1, <1>3, <1>4 DEF TypeOK, Becomes
<1>7. Using(f) = {} /\ \A m \in live : file_name[m] # f
  BY <1>2, UncachedUnused
<1>8. \A g : Using(g)' = Using(g)
  BY <1>5 DEF Using
<1>9. LocksMatchUsers'
  <2>1. ASSUME NEW m \in live', NEW g, g = file_name'[m]
        PROVE  num_locks'[m] = Cardinality(Using(g)')
    <3>1. CASE m = n
      <4>1. Using(g)' = {}
        BY <1>3, <1>7, <1>8, <2>1, <3>1
      <4> QED BY <1>3, <3>1, <4>1, FS_EmptySet
    <3>2. CASE m # n
      <4>1. num_locks[m] = Cardinality(Using(g))
        BY <1>3, <2>1, <3>2 DEF IInv, LocksMatchUsers
      <4> QED BY <1>3, <1>8, <2>1, <3>2, <4>1
    <3> QED BY <3>1, <3>2
  <2> QED BY <2>1, LocksMatchNext
<1>10. UsedBuffersKept'
  <2> SUFFICES ASSUME NEW d \in Clients, mode'[d] = "using"
               PROVE  /\ data'[d] \in allocated'
                      /\ \E m \in live' : file_name'[m] = want'[d] /\ buff'[m] = data'[d]
    BY DEF UsedBuffersKept
  <2>1. d # c /\ mode[d] = "using" /\ want'[d] = want[d] /\ data'[d] = data[d]
    BY <1>5
  <2>2. PICK m \in live : file_name[m] = want[d] /\ buff[m] = data[d]
    BY <2>1 DEF IInv, UsedBuffersKept
  <2>3. m # r
    <3>1. d \in Using(file_name[m])
      BY <2>1, <2>2 DEF Using
    <3> QED BY <3>1, UnlockedUnused
  <2>4. data[d] \in allocated
    BY <2>1 DEF IInv, UsedBuffersKept
  <2>5. data[d] \notin {buff[q] : q \in live \cap {r}}
    BY <1>1, <2>2, <2>3 DEF OneOwnerEach
  <2> QED BY <1>3, <2>1, <2>2, <2>3, <2>4, <2>5
<1>11. OneOwnerEach'
  <2> DEFINE readers == {d \in Clients : mode[d] = "reading"}
             items == {buff[m] : m \in live}
             owned == {data[d] : d \in readers}
  <2>1. readers' = readers \ {c} /\ c \in readers
    BY <1>5
  <2>2. {data'[d] : d \in readers \ {c}} = owned \ {b}
    BY <1>1, <1>2, <1>5, <2>1 DEF OneOwnerEach
  <2>3. {buff'[m] : m \in live'} = {buff[m] : m \in live \ {r}} \cup {b}
    BY <1>3
  <2>4. {buff[m] : m \in live \ {r}} = items \ {buff[m] : m \in live \cap {r}}
    BY <1>1 DEF OneOwnerEach
  <2>5. b \in owned /\ b \notin items
    BY <1>1, <1>2, <2>1 DEF OneOwnerEach
  <2>6. allocated' = {buff'[m] : m \in live'} \cup (owned \ {b})
    BY <1>1, <2>3, <2>4, <2>5 DEF OneOwnerEach
  <2>7. {buff'[m] : m \in live'} \cap (owned \ {b}) = {}
    BY <1>1, <2>3 DEF OneOwnerEach
  <2>8. \A m, q \in live' : buff'[m] = buff'[q] => m = q
    BY <1>1, <1>3, <2>5 DEF OneOwnerEach
  <2>9. \A d, e \in readers \ {c} : data'[d] = data'[e] => d = e
    BY <1>1, <1>5 DEF OneOwnerEach
  <2> QED BY <2>1, <2>2, <2>6, <2>7, <2>8, <2>9 DEF OneOwnerEach
<1>12. UniqueNames'
  BY <1>3, <1>7 DEF IInv, UniqueNames
<1>13. ListIntact' /\ CountAccurate'
  BY <1>3 DEF ListIntact, CountAccurate
<1> QED BY <1>6, <1>9, <1>10, <1>11, <1>12, <1>13 DEF IInv

LEMMA AddInsertsKeeps ==
  ASSUME IInv, NEW c \in Clients, AddInserts(c)
  PROVE  IInv'
<1>1. PICK n \in Nodes, w \in Watches \cup {NoWatch} :
        AddNode(list, num_items, NULL, n, want[c], data[c], w)
  BY DEF AddInserts
<1>2. TypeOK /\ running /\ WellFormed(list, live) /\ num_items = Cardinality(live)
  BY DEF AddInserts, IInv, ListIntact, CountAccurate
<1>3. live \ {NULL} = live /\ live \cap {NULL} = {}
  BY <1>2, NullIsNoNode DEF TypeOK
<1>4. list \in Lists /\ num_items \in Nat /\ num_items < MaxItems /\ NULL \in Pointers
  BY <1>2 DEF TypeOK, AddInserts, Pointers
<1>5. allocated' = allocated \ {buff[m] : m \in live \cap {NULL}}
  BY <1>3 DEF AddInserts
<1> QED BY <1>1, <1>2, <1>3, <1>4, <1>5, AddKeeps DEF AddInserts

LEMMA AddEvictsKeeps ==
  ASSUME IInv, NEW c \in Clients, AddEvicts(c)
  PROVE  IInv'
<1>1. PICK r : r = list.tail
  OBVIOUS
<1>2. PICK n \in Nodes, w \in Watches \cup {NoWatch} :
        AddNode(Unlink(list, r), num_items - 1, r, n, want[c], data[c], w)
  BY <1>1 DEF AddEvicts
<1>3. /\ TypeOK /\ running /\ WellFormed(list, live)
      /\ num_items = Cardinality(live) /\ num_items <= MaxItems
  BY DEF AddEvicts, IInv, ListIntact, CountAccurate
<1>4. r \in live
  BY <1>1, <1>3 DEF AddEvicts, WellFormed, NoDangling
<1>5. Unlink(list, r) \in Lists /\ WellFormed(Unlink(list, r), live \ {r})
  BY <1>3, <1>4, UnlinkWellFormed DEF TypeOK
<1>6. IsFiniteSet(live)
  BY <1>3, FiniteHeap, FS_Subset DEF TypeOK
<1>7. Cardinality(live \ {r}) = num_items - 1
  BY <1>3, <1>4, <1>6, FS_RemoveElement
<1>8. num_items - 1 \in Nat /\ num_items - 1 < MaxItems
  <2>1. Cardinality(live \ {r}) \in Nat
    BY <1>6, FS_RemoveElement, FS_CardinalityType
  <2> QED BY <1>3, <1>7, <2>1, MaxItemsIsNat DEF TypeOK
<1>9. r \in Pointers
  BY <1>3, <1>4 DEF TypeOK, Pointers
<1>10. allocated' = allocated \ {buff[m] : m \in live \cap {r}}
  BY <1>1, <1>4 DEF AddEvicts
<1> QED BY <1>1, <1>2, <1>3, <1>5, <1>7, <1>8, <1>9, <1>10, AddKeeps DEF AddEvicts

\* add_or_update_item replaces the contents of an unused item.
LEMMA AddUpdatesKeeps ==
  ASSUME IInv, NEW c \in Clients, AddUpdates(c)
  PROVE  IInv'
<1>1. PICK n \in Nodes :
        /\ Found(n, Named(want[c])) /\ num_locks[n] = 0
        /\ allocated' = allocated \ {buff[n]}
        /\ buff' = [buff EXCEPT ![n] = data[c]]
  BY DEF AddUpdates
<1>2. /\ running /\ mode[c] = "reading" /\ Becomes(c, "idle", NULL, NULL)
      /\ UNCHANGED <<list, num_items, num_locks, file_name, watch, outdated, live, running>>
  BY DEF AddUpdates
<1>3. n \in live
  BY <1>1, <1>2, FoundNamed
<1>4. TypeOK /\ OneOwnerEach
  BY DEF IInv
<1>5. /\ mode'[c] = "idle"
      /\ \A d \in Clients \ {c} :
           mode'[d] = mode[d] /\ want'[d] = want[d] /\ data'[d] = data[d]
  BY <1>2, <1>4 DEF Becomes, TypeOK
<1>6. buff'[n] = data[c] /\ \A m \in live \ {n} : buff'[m] = buff[m] /\ buff[m] # buff[n]
  BY <1>1, <1>3, <1>4 DEF TypeOK, OneOwnerEach
<1>7. TypeOK'
  BY <1>1, <1>2, <1>4 DEF TypeOK, Becomes
<1>8. LocksMatchUsers'
  <2>1. \A g : Using(g)' = Using(g)
    BY <1>2, <1>5 DEF Using
  <2>2. ASSUME NEW m \in live', NEW g, g = file_name'[m]
        PROVE  num_locks'[m] = Cardinality(Using(g)')
    <3>1. num_locks[m] = Cardinality(Using(g))
      BY <1>2, <2>2 DEF IInv, LocksMatchUsers
    <3> QED BY <1>2, <2>1, <3>1
  <2> QED BY <2>2, LocksMatchNext
<1>9. UsedBuffersKept'
  <2> SUFFICES ASSUME NEW d \in Clients, mode'[d] = "using"
               PROVE  /\ data'[d] \in allocated'
                      /\ \E m \in live' : file_name'[m] = want'[d] /\ buff'[m] = data'[d]
    BY DEF UsedBuffersKept
  <2>1. d # c /\ mode[d] = "using" /\ want'[d] = want[d] /\ data'[d] = data[d]
    BY <1>5
  <2>2. PICK m \in live : file_name[m] = want[d] /\ buff[m] = data[d]
    BY <1>2, <2>1 DEF IInv, UsedBuffersKept
  <2>3. m # n
    <3>1. d \in Using(file_name[m])
      BY <2>1, <2>2 DEF Using
    <3> QED BY <1>1, <1>2, <3>1, UnlockedUnused
  <2>4. data[d] \in allocated
    BY <1>2, <2>1 DEF IInv, UsedBuffersKept
  <2> QED BY <1>1, <1>2, <1>6, <2>1, <2>2, <2>3, <2>4
<1>10. OneOwnerEach'
  <2> DEFINE readers == {d \in Clients : mode[d] = "reading"}
             items == {buff[m] : m \in live}
             owned == {data[d] : d \in readers}
  <2>1. readers' = readers \ {c} /\ c \in readers
    BY <1>2, <1>5
  <2>2. {data'[d] : d \in readers \ {c}} = owned \ {data[c]}
    BY <1>4, <1>5, <2>1 DEF OneOwnerEach
  <2>3. {buff'[m] : m \in live} = (items \ {buff[n]}) \cup {data[c]}
    BY <1>3, <1>6
  <2>4. data[c] \in owned /\ data[c] \notin items /\ buff[n] \notin owned
    <3>1. items \cap owned = {}
      BY <1>4 DEF OneOwnerEach
    <3>2. data[c] \in owned /\ buff[n] \in items
      BY <1>3, <2>1
    <3> QED BY <3>1, <3>2
  <2>5. allocated' = {buff'[m] : m \in live} \cup (owned \ {data[c]})
    BY <1>1, <1>4, <2>3, <2>4 DEF OneOwnerEach
  <2>6. {buff'[m] : m \in live} \cap (owned \ {data[c]}) = {}
    BY <1>4, <2>3 DEF OneOwnerEach
  <2>7. \A m, q \in live : buff'[m] = buff'[q] => m = q
    BY <1>4, <1>6, <2>4 DEF OneOwnerEach
  <2>8. \A d, e \in readers \ {c} : data'[d] = data'[e] => d = e
    BY <1>4, <1>5 DEF OneOwnerEach
  <2> QED BY <1>2, <2>1, <2>2, <2>5, <2>6, <2>7, <2>8 DEF OneOwnerEach
<1>11. ListIntact' /\ CountAccurate' /\ UniqueNames'
  BY <1>2 DEF IInv, ListIntact, CountAccurate, UniqueNames
<1> QED BY <1>7, <1>8, <1>9, <1>10, <1>11 DEF IInv

\* add_or_update_item refuses the buffer and its owner frees it.
LEMMA AddRefusedKeeps ==
  ASSUME IInv, NEW c \in Clients, AddRefused(c)
  PROVE  IInv'
<1>1. /\ running /\ mode[c] = "reading" /\ Becomes(c, "idle", NULL, NULL)
      /\ allocated' = allocated \ {data[c]}
      /\ UNCHANGED <<list, num_items, num_locks, file_name, buff, watch, outdated, live, running>>
  BY DEF AddRefused, cache, fields
<1>2. TypeOK /\ OneOwnerEach
  BY DEF IInv
<1>3. /\ mode'[c] = "idle"
      /\ \A d \in Clients \ {c} :
           mode'[d] = mode[d] /\ want'[d] = want[d] /\ data'[d] = data[d]
  BY <1>1, <1>2 DEF Becomes, TypeOK
<1>4. TypeOK'
  BY <1>1, <1>2 DEF TypeOK, Becomes
<1>5. LocksMatchUsers'
  <2>1. \A g : Using(g)' = Using(g)
    BY <1>1, <1>3 DEF Using
  <2>2. ASSUME NEW m \in live', NEW g, g = file_name'[m]
        PROVE  num_locks'[m] = Cardinality(Using(g)')
    <3>1. num_locks[m] = Cardinality(Using(g))
      BY <1>1, <2>2 DEF IInv, LocksMatchUsers
    <3> QED BY <1>1, <2>1, <3>1
  <2> QED BY <2>2, LocksMatchNext
<1>6. UsedBuffersKept'
  <2>1. \A m \in live : buff[m] # data[c]
    BY <1>1, <1>2 DEF OneOwnerEach
  <2> QED BY <1>1, <1>3, <2>1 DEF IInv, UsedBuffersKept
<1>7. OneOwnerEach'
  <2> DEFINE readers == {d \in Clients : mode[d] = "reading"}
             owned == {data[d] : d \in readers}
  <2>1. readers' = readers \ {c} /\ c \in readers
    BY <1>1, <1>3
  <2>2. {data'[d] : d \in readers \ {c}} = owned \ {data[c]}
    BY <1>2, <1>3, <2>1 DEF OneOwnerEach
  <2>3. data[c] \notin {buff[m] : m \in live}
    BY <1>2, <2>1 DEF OneOwnerEach
  <2>4. \A d, e \in readers \ {c} : data'[d] = data'[e] => d = e
    BY <1>2, <1>3 DEF OneOwnerEach
  <2>5. allocated' = {buff[m] : m \in live} \cup (owned \ {data[c]})
    BY <1>1, <1>2, <2>3 DEF OneOwnerEach
  <2>6. {buff[m] : m \in live} \cap (owned \ {data[c]}) = {}
    BY <1>2 DEF OneOwnerEach
  <2>7. \A m, q \in live : buff[m] = buff[q] => m = q
    BY <1>2 DEF OneOwnerEach
  <2> QED BY <1>1, <2>1, <2>2, <2>4, <2>5, <2>6, <2>7 DEF OneOwnerEach
<1>8. ListIntact' /\ CountAccurate' /\ UniqueNames'
  BY <1>1 DEF IInv, ListIntact, CountAccurate, UniqueNames
<1> QED BY <1>4, <1>5, <1>6, <1>7, <1>8 DEF IInv

\* The destructor frees every item, in use or not.
LEMMA DestroyKeeps ==
  ASSUME IInv, Destroy
  PROVE  IInv'
<1>1. TypeOK /\ OneOwnerEach /\ running /\ ~running'
  BY DEF IInv, Destroy
<1>2. OnList(list) = live
  BY <1>1, LoopsVisitLive DEF IInv
<1>3. live' = {} /\ allocated' = allocated \ {buff[n] : n \in live}
  BY <1>2 DEF Destroy
<1>4. UNCHANGED <<num_locks, file_name, buff, watch, outdated, mode, want, data>>
  BY DEF Destroy, fields, callers
<1>5. TypeOK'
  <2>1. list' \in Lists
    BY <1>1 DEF Destroy, TypeOK, Lists, Pointers
  <2> QED BY <1>1, <1>3, <1>4, <2>1 DEF TypeOK, Destroy
<1>6. OneOwnerEach'
  BY <1>1, <1>3, <1>4 DEF OneOwnerEach
<1> QED BY <1>1, <1>5, <1>6 DEF IInv, ListIntact, CountAccurate, UniqueNames,
                               LocksMatchUsers, UsedBuffersKept

-----------------------------------------------------------------------------
(* The theorems.                                                           *)

LEMMA InitIInv == Init => IInv
<1> SUFFICES ASSUME Init PROVE IInv
  OBVIOUS
<1>1. TypeOK
  BY EmptyIsWellFormed DEF Init, TypeOK
<1>2. ListIntact
  BY EmptyIsWellFormed DEF Init, ListIntact
<1>3. CountAccurate
  BY FS_EmptySet, MaxItemsIsNat DEF Init, CountAccurate
<1> QED BY <1>1, <1>2, <1>3
        DEF Init, IInv, UniqueNames, LocksMatchUsers, UsedBuffersKept, OneOwnerEach

LEMMA NextIInv == IInv /\ [Next]_vars => IInv'
<1> SUFFICES ASSUME IInv, [Next]_vars PROVE IInv'
  OBVIOUS
<1>1. ASSUME NEW c \in Clients, NEW f \in Files, GetHit(c, f)
      PROVE  IInv'
  BY <1>1, GetHitKeeps
<1>2. ASSUME NEW c \in Clients, NEW f \in Files, GetMiss(c, f) \/ GetStaleInUse(c, f)
      PROVE  IInv'
  BY <1>2, GetMissKeeps
<1>3. ASSUME NEW c \in Clients, NEW f \in Files, GetStale(c, f)
      PROVE  IInv'
  BY <1>3, GetStaleKeeps
<1>4. ASSUME NEW c \in Clients, Unlock(c)
      PROVE  IInv'
  BY <1>4, UnlockKeeps
<1>5. ASSUME NEW c \in Clients, AddUpdates(c)
      PROVE  IInv'
  BY <1>5, AddUpdatesKeeps
<1>6. ASSUME NEW c \in Clients, AddInserts(c)
      PROVE  IInv'
  BY <1>6, AddInsertsKeeps
<1>7. ASSUME NEW c \in Clients, AddEvicts(c)
      PROVE  IInv'
  BY <1>7, AddEvictsKeeps
<1>8. ASSUME NEW c \in Clients, AddRefused(c)
      PROVE  IInv'
  BY <1>8, AddRefusedKeeps
<1>9. ASSUME NEW w \in Watches \cup {NoWatch}, ProcessInotifyEvent(w)
      PROVE  IInv'
  BY <1>9, ProcessInotifyEventKeeps
<1>10. ASSUME NEW f \in Files, RemoveItem(f)
       PROVE  IInv'
  BY <1>10, RemoveItemKeeps
<1>11. CASE Destroy
  BY <1>11, DestroyKeeps
<1>12. CASE UNCHANGED vars
  BY <1>12 DEF vars, cache, fields, callers, IInv, TypeOK, ListIntact, CountAccurate,
               UniqueNames, LocksMatchUsers, UsedBuffersKept, OneOwnerEach, Using
<1> QED BY <1>1, <1>2, <1>3, <1>4, <1>5, <1>6, <1>7, <1>8, <1>9, <1>10, <1>11, <1>12 DEF Next

\* The invariant holds in every state lru_file_cache can reach.
THEOREM InductiveInvariant == Spec => []IInv
  BY InitIInv, NextIInv, PTL DEF Spec

\* The fields of the class and of its callers keep their types; num_items and
\* num_locks, unsigned in the code, never go below zero.
THEOREM TypeCorrect == Spec => []TypeOK
<1>1. IInv => TypeOK
  BY DEF IInv
<1> QED BY <1>1, InductiveInvariant, PTL

\* The pointers of lru_file_cache form one list of exactly the allocated items,
\* for caches of any size, after any sequence of adds, promotions and removals.
THEOREM ListStaysIntact == Spec => []ListIntact
<1>1. IInv => ListIntact
  BY DEF IInv
<1> QED BY <1>1, InductiveInvariant, PTL

\* num_items counts the items, never more than the size of the cache.
THEOREM CountStaysAccurate == Spec => []CountAccurate
<1>1. IInv => CountAccurate
  BY DEF IInv
<1> QED BY <1>1, InductiveInvariant, PTL

\* A file has at most one item, so unlocking and removing by name are unambiguous.
THEOREM NamesAreUnique == Spec => []UniqueNames
<1>1. IInv => UniqueNames
  BY DEF IInv
<1> QED BY <1>1, InductiveInvariant, PTL

\* num_locks of an item is the number of its users, for any number of callers
\* that lock, unlock, add and invalidate in any order.
THEOREM LocksAlwaysMatchUsers == Spec => []LocksMatchUsers
<1>1. IInv => LocksMatchUsers
  BY DEF IInv
<1> QED BY <1>1, InductiveInvariant, PTL

\* No buffer is freed or replaced while its user has it locked.
THEOREM BuffersAreSafe == Spec => []UsedBuffersKept
<1>1. IInv => UsedBuffersKept
  BY DEF IInv
<1> QED BY <1>1, InductiveInvariant, PTL

\* No buffer leaks or has two owners, to the end of the destructor.
THEOREM BuffersHaveOneOwner == Spec => []OneOwnerEach
<1>1. IInv => OneOwnerEach
  BY DEF IInv
<1> QED BY <1>1, InductiveInvariant, PTL

\* No step adds a lock to an item whose file has changed.
THEOREM OutdatedIsNeverLent == Spec => OutdatedNeverLent
<1> DEFINE A == \A n \in live \cap live' : outdated[n] => num_locks'[n] <= num_locks[n]
<1>1. IInv /\ [Next]_vars => A
  <2> SUFFICES ASSUME IInv, [Next]_vars,
                      NEW n \in live, n \in live', outdated[n]
               PROVE  num_locks'[n] <= num_locks[n]
    OBVIOUS
  <2>1. n \in Nodes /\ num_locks[n] \in Nat
    BY DEF IInv, TypeOK
  <2>2. num_locks'[n] = num_locks[n] => num_locks'[n] <= num_locks[n]
    BY <2>1
  <2>3. ASSUME NEW c \in Clients, NEW f \in Files, GetHit(c, f)
        PROVE  num_locks'[n] <= num_locks[n]
    BY <2>1, <2>2, <2>3 DEF GetHit, IInv, TypeOK
  <2>4. ASSUME NEW c \in Clients, Unlock(c)
        PROVE  num_locks'[n] <= num_locks[n]
    <3>1. num_locks'[n] \in {num_locks[n], num_locks[n] - 1}
      BY <2>1, <2>4 DEF Unlock
    <3> QED BY <2>1, <3>1
  <2>5. ASSUME NEW r \in Nodes, RemoveNode(r)
        PROVE  num_locks'[n] <= num_locks[n]
    BY <2>1, <2>2, <2>5 DEF RemoveNode, ForgetFields, Without
  <2>6. ASSUME NEW L, NEW k, NEW r, NEW m, NEW f, NEW b, NEW w, AddNode(L, k, r, m, f, b, w)
        PROVE  num_locks'[n] <= num_locks[n]
    <3>1. num_locks'[n] \in {num_locks[n], 0}
      BY <2>1, <2>6 DEF AddNode, Without
    <3> QED BY <2>1, <3>1
  <2>7. CASE num_locks' = num_locks
    BY <2>2, <2>7
  <2> QED
    BY <2>3, <2>4, <2>5, <2>6, <2>7
       DEF Next, GetMiss, GetStale, GetStaleInUse, AddUpdates, AddInserts, AddEvicts,
           AddRefused, ProcessInotifyEvent, RemoveItem, Destroy, vars, cache, fields
<1> QED BY <1>1, InductiveInvariant, PTL DEF Spec, OutdatedNeverLent

-----------------------------------------------------------------------------
(* The cache implements FileCache: its items are what the nodes say in the *)
(* order of a traversal.                                                   *)

ItemTable == [n \in Nodes |-> ItemOf(n)]

ItemRecs ==
  [name : Files \cup {NULL}, buff : Buffers \cup {NULL}, locks : Nat, outdated : BOOLEAN]

\* t is the order of the nodes of the cache.
IsOrder(t) == Enumerates(list, live, t) /\ Len(t) = num_items

\* The items are the table of what the traversal visits, before and after a step.
ItemsMapped ==
  \A t : Visits(list, t) /\ Len(t) = num_items => AbstractItems = Mapped(ItemTable, t)

LEMMA ItemsAreMapped == ItemsMapped
<1> USE DEF ItemsMapped
<1> TAKE t
<1> HAVE Visits(list, t) /\ Len(t) = num_items
<1>1. Traversal(list, num_items) = t
  BY VisitsIsTraversal
<1>2. \A k \in 1..num_items : t[k] \in Nodes
  BY SequenceFacts DEF Visits
<1> QED BY <1>1, <1>2 DEF AbstractItems, Mapped, ItemTable

LEMMA ItemsAreMappedNext == ItemsMapped'
BY ItemsAreMapped, PTL

\* While the cache runs, its nodes are in some order.
LEMMA CacheHasOrder ==
  ASSUME IInv, running
  PROVE  /\ \E t : IsOrder(t)
         /\ ItemTable \in [Nodes -> ItemRecs]
<1>1. /\ list \in Lists /\ live \in SUBSET Nodes /\ WellFormed(list, live)
      /\ num_items = Cardinality(live) /\ IsFiniteSet(live)
  BY FiniteHeap, FS_Subset DEF IInv, TypeOK, ListIntact, CountAccurate
<1>2. ItemTable \in [Nodes -> ItemRecs]
  BY DEF IInv, TypeOK, ItemTable, ItemOf, ItemRecs
<1> QED BY <1>1, <1>2, ListHasOrder DEF IsOrder

\* The items, their order and their nodes.
LEMMA OrderFacts ==
  ASSUME IInv, running, NEW t, IsOrder(t)
  PROVE  /\ t \in Seq(Nodes) /\ Len(t) = num_items /\ num_items \in Nat
         /\ live = {t[k] : k \in 1..num_items}
         /\ \A j, k \in 1..num_items : t[j] = t[k] => j = k
         /\ AbstractItems = Mapped(ItemTable, t) /\ AbstractItems \in Seq(ItemRecs)
         /\ Len(AbstractItems) = num_items /\ DOMAIN AbstractItems = 1..num_items
         /\ \A k \in 1..num_items : t[k] \in live /\ AbstractItems[k] = ItemOf(t[k])
<1>1. /\ t \in Seq(Nodes) /\ Len(t) = num_items /\ num_items \in Nat
      /\ live = {t[k] : k \in 1..num_items}
      /\ \A j, k \in 1..num_items : t[j] = t[k] => j = k
  BY DEF IsOrder, Enumerates, IInv, TypeOK
<1>2. AbstractItems = Mapped(ItemTable, t)
  BY <1>1, OrderVisits, ItemsAreMapped DEF IsOrder, ItemsMapped
<1>3. Mapped(ItemTable, t) \in Seq(ItemRecs) /\ IsMapped(ItemTable, t, Mapped(ItemTable, t))
  BY <1>1, CacheHasOrder, MappedIndices
<1>4. AbstractItems \in Seq(ItemRecs) /\ Len(AbstractItems) = num_items
      /\ \A k \in 1..num_items : AbstractItems[k] = ItemTable[t[k]]
  BY <1>1, <1>2, <1>3 DEF IsMapped
<1>5. DOMAIN AbstractItems = 1..num_items
  BY <1>4, SequenceFacts
<1>6. \A k \in 1..num_items : t[k] \in live /\ t[k] \in Nodes
  BY <1>1, SequenceFacts
<1>7. \A k \in 1..num_items : AbstractItems[k] = ItemOf(t[k])
  BY <1>4, <1>6 DEF ItemTable
<1> QED BY <1>1, <1>2, <1>4, <1>5, <1>6, <1>7

LEMMA ItemFacts ==
  ASSUME NEW n
  PROVE  /\ ItemOf(n).name = file_name[n] /\ ItemOf(n).buff = buff[n]
         /\ ItemOf(n).locks = num_locks[n] /\ ItemOf(n).outdated = outdated[n]
BY DEF ItemOf

\* An item is found at one place, and a file that is not cached at none.
LEMMA ItemIsAt ==
  ASSUME IInv, running, NEW t, IsOrder(t), NEW n \in live
  PROVE  \E i \in 1..num_items :
           t[i] = n /\ Abstract!At(AbstractItems, file_name[n]) = {i}
<1>1. PICK i \in 1..num_items : t[i] = n
  BY OrderFacts
<1>2. \A k \in 1..num_items : AbstractItems[k].name = file_name[t[k]] /\ t[k] \in live
  BY OrderFacts, ItemFacts
<1>3. \A k \in 1..num_items : file_name[t[k]] = file_name[n] => t[k] = n
  BY <1>2 DEF IInv, UniqueNames
<1>4. \A k \in 1..num_items : t[k] = n => k = i
  BY <1>1, OrderFacts
<1>5. DOMAIN AbstractItems = 1..num_items
  BY OrderFacts
<1>6. Abstract!At(AbstractItems, file_name[n]) = {i}
  BY <1>1, <1>2, <1>3, <1>4, <1>5 DEF Abstract!At
<1> QED BY <1>1, <1>6

LEMMA UncachedIsNowhere ==
  ASSUME IInv, running, NEW f, Named(f) = {}
  PROVE  Abstract!At(AbstractItems, f) = {}
<1>1. PICK t : IsOrder(t)
  BY CacheHasOrder
<1>2. \A k \in 1..num_items : AbstractItems[k].name = file_name[t[k]] /\ t[k] \in live
  BY <1>1, OrderFacts, ItemFacts
<1>3. DOMAIN AbstractItems = 1..num_items
  BY <1>1, OrderFacts
<1> QED BY <1>2, <1>3, UncachedUnused DEF Abstract!At

\* The buffers of the items, before and after a step.
BuffersListed ==
  IInv /\ running => Abstract!BuffersOf(AbstractItems) = {buff[n] : n \in live}

LEMMA BuffersAreListed == BuffersListed
<1> SUFFICES ASSUME IInv, running
             PROVE  Abstract!BuffersOf(AbstractItems) = {buff[n] : n \in live}
  BY DEF BuffersListed
<1>1. PICK t : IsOrder(t)
  BY CacheHasOrder
<1>2. \A k \in 1..num_items : AbstractItems[k].buff = buff[t[k]]
  BY <1>1, OrderFacts, ItemFacts
<1>3. DOMAIN AbstractItems = 1..num_items /\ live = {t[k] : k \in 1..num_items}
  BY <1>1, OrderFacts
<1> QED BY <1>2, <1>3 DEF Abstract!BuffersOf

LEMMA BuffersAreListedNext == BuffersListed'
BY BuffersAreListed, PTL

LEMMA ReleasedBuffers ==
  ASSUME IInv, running, IInv', running'
  PROVE  Abstract!Released = {buff[n] : n \in live} \ {buff'[n] : n \in live'}
<1>1. Abstract!BuffersOf(AbstractItems') = {buff'[n] : n \in live'}
  BY BuffersAreListedNext DEF BuffersListed, Abstract!BuffersOf
<1> QED BY <1>1, BuffersAreListed DEF BuffersListed, Abstract!Released

-----------------------------------------------------------------------------
(* What the surgeries do to the items.                                     *)

\* Fields of the nodes in S are what they were.
Keeps(S) == \A n \in S : ItemTable'[n] = ItemTable[n]

LEMMA TableNext ==
  ASSUME IInv'
  PROVE  ItemTable' \in [Nodes -> ItemRecs]
BY DEF IInv, TypeOK, ItemTable, ItemOf, ItemRecs

\* What a step makes of an order that begins with a node.
LEMMA FirstItem ==
  ASSUME NEW n \in Nodes, NEW t \in Seq(Nodes)
  PROVE  Mapped(ItemTable', <<n>> \o t) = <<ItemTable'[n]>> \o Mapped(ItemTable', t)
<1>1. Mapped(ItemTable', InFront(n, t)) = InFront(ItemTable'[n], Mapped(ItemTable', t))
  BY MappedInFront
<1> QED BY <1>1 DEF InFront

\* Removing an element of an order leaves the other nodes.
LEMMA OthersRemain ==
  ASSUME IInv, running, NEW t, IsOrder(t), NEW i \in 1..num_items
  PROVE  /\ RemoveAt(t, i) \in Seq(Nodes) /\ Len(RemoveAt(t, i)) = num_items - 1
         /\ \A k \in 1..(num_items - 1) : RemoveAt(t, i)[k] \in live \ {t[i]}
<1>1. /\ t \in Seq(Nodes) /\ Len(t) = num_items /\ num_items \in Nat
      /\ \A j, k \in 1..num_items : t[j] = t[k] => j = k
      /\ \A k \in 1..num_items : t[k] \in live
  BY OrderFacts
<1>2. i \in DOMAIN t
  BY <1>1, SequenceFacts
<1>3. /\ RemoveAt(t, i) \in Seq(Nodes) /\ Len(RemoveAt(t, i)) = num_items - 1
      /\ \A k \in 1..(num_items - 1) :
           RemoveAt(t, i)[k] = IF k < i THEN t[k] ELSE t[k + 1]
  BY <1>1, <1>2, RemoveAtIndices
<1>4. ASSUME NEW k \in 1..(num_items - 1) PROVE RemoveAt(t, i)[k] \in live \ {t[i]}
  <2>1. k \in 1..num_items /\ k + 1 \in 1..num_items /\ i \in Int
    BY <1>1
  <2>2. k < i => k # i
    BY <2>1
  <2>3. ~(k < i) => k + 1 # i
    BY <2>1
  <2> QED BY <1>1, <1>3, <2>1, <2>2, <2>3
<1> QED BY <1>3, <1>4

LEMMA ItemRemoved ==
  ASSUME IInv, running, NEW t, IsOrder(t), NEW i \in 1..num_items,
         list' = Unlink(list, t[i]), num_items' = num_items - 1, Keeps(live \ {t[i]})
  PROVE  AbstractItems' = RemoveAt(AbstractItems, i)
<1> DEFINE r == RemoveAt(t, i)
<1>1. /\ t \in Seq(Nodes) /\ Len(t) = num_items /\ AbstractItems = Mapped(ItemTable, t)
      /\ ItemTable \in [Nodes -> ItemRecs]
  BY OrderFacts, CacheHasOrder
<1>2. Visits(list', r)
  BY <1>1, UnlinkOrder DEF IsOrder
<1>3. AbstractItems' = Mapped(ItemTable', r)
  BY <1>2, OthersRemain, ItemsAreMappedNext DEF ItemsMapped
<1>4. Mapped(ItemTable', r) = Mapped(ItemTable, r)
  BY OthersRemain, MappedSame DEF Keeps
<1>5. Mapped(ItemTable, r) = RemoveAt(AbstractItems, i)
  BY <1>1, MappedRemoveAt
<1> QED BY <1>3, <1>4, <1>5

LEMMA ItemPromoted ==
  ASSUME IInv, running, IInv', NEW t, IsOrder(t), NEW i \in 1..num_items,
         list' = Promote(list, t[i]), num_items' = num_items, Keeps(live \ {t[i]})
  PROVE  AbstractItems' = <<ItemTable'[t[i]]>> \o RemoveAt(AbstractItems, i)
<1> DEFINE r == RemoveAt(t, i)
<1>1. /\ t \in Seq(Nodes) /\ Len(t) = num_items /\ AbstractItems = Mapped(ItemTable, t)
      /\ ItemTable \in [Nodes -> ItemRecs] /\ ItemTable' \in [Nodes -> ItemRecs]
      /\ t[i] \in Nodes /\ r \in Seq(Nodes) /\ Len(r) = num_items - 1 /\ num_items \in Nat
  BY OrderFacts, CacheHasOrder, TableNext, OthersRemain DEF IInv, TypeOK
<1>2. Visits(list', <<t[i]>> \o r)
  <2>1. live \in SUBSET Nodes /\ list \in Lists /\ WellFormed(list, live)
    BY DEF IInv, TypeOK, ListIntact
  <2> QED BY <1>1, <2>1, PromoteOrder DEF IsOrder
<1>3. Len(<<t[i]>> \o r) = num_items'
  BY <1>1, InFrontIndices
<1> HIDE DEF r
<1>4. AbstractItems' = Mapped(ItemTable', <<t[i]>> \o r)
  BY <1>2, <1>3, ItemsAreMappedNext DEF ItemsMapped
<1>5. Mapped(ItemTable', <<t[i]>> \o r) = <<ItemTable'[t[i]]>> \o Mapped(ItemTable', r)
  <2>1. t[i] \in Nodes /\ r \in Seq(Nodes)
    BY <1>1
  <2> QED BY <2>1, FirstItem
<1>6. Mapped(ItemTable', r) = Mapped(ItemTable, r)
  BY OthersRemain, MappedSame DEF Keeps, r
<1>7. Mapped(ItemTable, r) = RemoveAt(AbstractItems, i)
  BY <1>1, MappedRemoveAt DEF r
<1> QED BY <1>4, <1>5, <1>6, <1>7

LEMMA ItemPushed ==
  ASSUME IInv, running, IInv', NEW n \in Nodes \ live,
         list' = PushFront(list, n), num_items' = num_items + 1, Keeps(live)
  PROVE  AbstractItems' = <<ItemTable'[n]>> \o AbstractItems
<1>1. PICK t : IsOrder(t)
  BY CacheHasOrder
<1>2. /\ t \in Seq(Nodes) /\ Len(t) = num_items /\ AbstractItems = Mapped(ItemTable, t)
      /\ ItemTable' \in [Nodes -> ItemRecs] /\ num_items \in Nat
      /\ \A k \in 1..num_items : t[k] \in live
  BY <1>1, OrderFacts, TableNext
<1>3. Visits(list', <<n>> \o t)
  BY <1>1, PushFrontOrder DEF IsOrder, IInv, TypeOK
<1>4. Len(<<n>> \o t) = num_items'
  BY <1>2, InFrontIndices
<1>5. AbstractItems' = Mapped(ItemTable', <<n>> \o t)
  BY <1>3, <1>4, ItemsAreMappedNext DEF ItemsMapped
<1>6. Mapped(ItemTable', <<n>> \o t) = <<ItemTable'[n]>> \o Mapped(ItemTable', t)
  BY <1>2, FirstItem
<1>7. Mapped(ItemTable', t) = Mapped(ItemTable, t)
  BY <1>2, MappedSame DEF Keeps
<1> QED BY <1>2, <1>5, <1>6, <1>7

LEMMA LastItemReplaced ==
  ASSUME IInv, running, IInv', NEW r \in live, r = list.tail, NEW n \in Nodes \ (live \ {r}),
         list' = PushFront(Unlink(list, r), n), num_items' = num_items, Keeps((live \ {r}) \ {n})
  PROVE  /\ AbstractItems # <<>> /\ AbstractItems[Len(AbstractItems)] = ItemOf(r)
         /\ AbstractItems' = <<ItemTable'[n]>> \o Front(AbstractItems)
<1>1. PICK t : IsOrder(t)
  BY CacheHasOrder
<1> DEFINE i == num_items
           u == RemoveAt(t, i)
<1>2. /\ t \in Seq(Nodes) /\ Len(t) = i /\ AbstractItems = Mapped(ItemTable, t)
      /\ ItemTable \in [Nodes -> ItemRecs] /\ ItemTable' \in [Nodes -> ItemRecs] /\ i \in Nat
      /\ AbstractItems \in Seq(ItemRecs) /\ Len(AbstractItems) = i
      /\ \A k \in 1..i : AbstractItems[k] = ItemOf(t[k])
  BY <1>1, OrderFacts, CacheHasOrder, TableNext
<1>3. i \in 1..i /\ t[i] = r
  <2>1. i # 0 /\ list.tail = (IF i = 0 THEN NULL ELSE t[i])
    <3>1. live = {t[k] : k \in 1..i}
      BY <1>1, OrderFacts
    <3> QED BY <1>1, <1>2, <3>1 DEF IsOrder, Enumerates
  <2> QED BY <1>2, <2>1
<1>4. /\ u \in Seq(Nodes) /\ Len(u) = i - 1
      /\ \A k \in 1..(i - 1) : u[k] \in live \ {r}
  BY <1>1, <1>3, OthersRemain
<1>5. Enumerates(Unlink(list, r), live \ {r}, u) /\ Unlink(list, r) \in Lists
  <2>1. live \in SUBSET Nodes /\ list \in Lists /\ WellFormed(list, live)
    BY DEF IInv, TypeOK, ListIntact
  <2> QED BY <1>1, <1>2, <1>3, <2>1, UnlinkEnumerates, UnlinkWellFormed DEF IsOrder
<1> HIDE DEF u
<1>6. Visits(list', <<n>> \o u) /\ Len(<<n>> \o u) = num_items'
  BY <1>2, <1>4, <1>5, PushFrontOrder, InFrontIndices
<1>7. AbstractItems' = Mapped(ItemTable', <<n>> \o u)
  BY <1>6, ItemsAreMappedNext DEF ItemsMapped
<1>8. Mapped(ItemTable', <<n>> \o u) = <<ItemTable'[n]>> \o Mapped(ItemTable', u)
  <2>1. n \in Nodes /\ u \in Seq(Nodes)
    BY <1>4
  <2> QED BY <2>1, FirstItem
<1>9. Mapped(ItemTable', u) = Mapped(ItemTable, u)
  BY <1>4, MappedSame DEF Keeps
<1>10. AbstractItems # <<>> /\ Mapped(ItemTable, u) = Front(AbstractItems)
  <2>1. Mapped(ItemTable, u) = RemoveAt(AbstractItems, i)
    BY <1>2, <1>3, MappedRemoveAt DEF u
  <2>2. AbstractItems # <<>>
    BY <1>2, <1>3
  <2> QED BY <1>2, <2>1, <2>2, RemoveLast
<1>11. AbstractItems[Len(AbstractItems)] = ItemOf(r)
  BY <1>2, <1>3
<1> QED BY <1>7, <1>8, <1>9, <1>10, <1>11

-----------------------------------------------------------------------------
(* Every action is one of FileCache.                                       *)

LEMMA KeepsFields ==
  ASSUME NEW S \in SUBSET Nodes,
         \A n \in S : /\ num_locks'[n] = num_locks[n] /\ file_name'[n] = file_name[n]
                      /\ buff'[n] = buff[n] /\ outdated'[n] = outdated[n]
  PROVE  Keeps(S)
BY DEF Keeps, ItemTable, ItemOf

\* An item has a position.
LEMMA Placed ==
  ASSUME IInv, running, NEW n \in live
  PROVE  \E t : \E i \in 1..num_items :
           /\ IsOrder(t) /\ t[i] = n
           /\ Abstract!At(AbstractItems, file_name[n]) = {i}
           /\ AbstractItems[i] = ItemOf(n)
<1>1. PICK t : IsOrder(t)
  BY CacheHasOrder
<1>2. PICK i \in 1..num_items :
        t[i] = n /\ Abstract!At(AbstractItems, file_name[n]) = {i}
  BY <1>1, ItemIsAt
<1>3. AbstractItems[i] = ItemOf(n)
  BY <1>1, <1>2, OrderFacts
<1> QED BY <1>1, <1>2, <1>3

\* An item that is handed out gets a lock and comes first.
LEMMA GetHitRefines ==
  ASSUME IInv, IInv', NEW c \in Clients, NEW f \in Files, GetHit(c, f)
  PROVE  Abstract!Hit(c, f)
<1>1. PICK n \in Nodes :
        /\ Found(n, Named(f)) /\ ~outdated[n]
        /\ num_locks' = [num_locks EXCEPT ![n] = @ + 1]
        /\ list' = Promote(list, n)
        /\ Becomes(c, "using", f, buff[n])
  BY DEF GetHit
<1>2. /\ running /\ mode[c] = "idle"
      /\ UNCHANGED <<num_items, file_name, buff, watch, outdated, live, allocated, running>>
  BY DEF GetHit
<1>3. n \in live /\ file_name[n] = f
  BY <1>1, <1>2, FoundNamed
<1>4. PICK t, i : /\ i \in 1..num_items /\ IsOrder(t) /\ t[i] = n
                  /\ Abstract!At(AbstractItems, f) = {i}
                  /\ AbstractItems[i] = ItemOf(n)
  BY <1>2, <1>3, Placed
<1>5. live \subseteq Nodes /\ num_locks \in [Nodes -> Nat]
  BY DEF IInv, TypeOK
<1>6. Keeps(live \ {n})
  BY <1>1, <1>2, <1>5, KeepsFields
<1>7. AbstractItems' = <<ItemTable'[n]>> \o RemoveAt(AbstractItems, i)
  BY <1>1, <1>2, <1>4, <1>6, ItemPromoted
<1>8. ItemTable'[n] = [ItemOf(n) EXCEPT !.locks = @ + 1]
  BY <1>1, <1>2, <1>5 DEF ItemTable, ItemOf
<1>9. AbstractItems' = Abstract!LockAt(AbstractItems, i)
  BY <1>4, <1>7, <1>8 DEF Abstract!LockAt, Abstract!RemoveAt, RemoveAt
<1>10. ItemOf(n).buff = buff[n] /\ ~ItemOf(n).outdated
  BY <1>1, ItemFacts
<1> QED BY <1>1, <1>2, <1>4, <1>9, <1>10
        DEF Abstract!Hit, Abstract!Current, Abstract!Becomes, Becomes

\* A cache that is as it was has the items it had, and frees nothing.
LEMMA SameItems ==
  ASSUME UNCHANGED cache
  PROVE  AbstractItems' = AbstractItems /\ Abstract!Released = {}
<1>1. AbstractItems' = AbstractItems
  BY DEF cache, fields, AbstractItems, ItemOf
<1> QED BY <1>1 DEF Abstract!Released

\* remove_node takes the item out of the order, and frees its buffer.
LEMMA RemoveNodeRefines ==
  ASSUME IInv, IInv', running, running', NEW t, IsOrder(t), NEW i \in 1..num_items,
         RemoveNode(t[i])
  PROVE  /\ AbstractItems' = Abstract!RemoveAt(AbstractItems, i)
         /\ Abstract!Released = {buff[t[i]]}
<1>1. t[i] \in live /\ live \subseteq Nodes
  BY OrderFacts DEF IInv, TypeOK
<1>2. /\ list' = Unlink(list, t[i]) /\ num_items' = num_items - 1 /\ live' = live \ {t[i]}
      /\ \A m \in live \ {t[i]} : /\ num_locks'[m] = num_locks[m]
                                  /\ file_name'[m] = file_name[m]
                                  /\ buff'[m] = buff[m] /\ outdated'[m] = outdated[m]
  BY <1>1 DEF RemoveNode, ForgetFields, Without
<1>3. Keeps(live \ {t[i]})
  BY <1>1, <1>2, KeepsFields
<1>4. AbstractItems' = RemoveAt(AbstractItems, i)
  BY <1>2, <1>3, ItemRemoved
<1>5. Abstract!Released = {buff[t[i]]}
  <2>1. \A m \in live : buff[m] = buff[t[i]] => m = t[i]
    BY <1>1 DEF IInv, OneOwnerEach
  <2>2. {buff[m] : m \in live} \ {buff'[m] : m \in live'} = {buff[t[i]]}
    BY <1>1, <1>2, <2>1
  <2> QED BY <2>2, ReleasedBuffers
<1> QED BY <1>4, <1>5 DEF Abstract!RemoveAt, RemoveAt

\* What a miss leaves, when the file has an item.
LEMMA MissOfItem ==
  ASSUME NEW f, NEW i, Abstract!At(AbstractItems, f) = {i}
  PROVE  Abstract!AfterMiss(AbstractItems, f) = Abstract!RemoveIfUnused(AbstractItems, i)
<1>1. (CHOOSE j \in {i} : TRUE) = i
  OBVIOUS
<1> QED BY <1>1 DEF Abstract!AfterMiss

\* A miss, whether there was nothing or only something outdated.
LEMMA GetMissRefines ==
  ASSUME IInv, IInv', NEW c \in Clients, NEW f \in Files, GetMiss(c, f)
  PROVE  Abstract!Miss(c, f)
<1>1. /\ running /\ mode[c] = "idle" /\ Named(f) = {} /\ UNCHANGED cache
      /\ \E b \in Buffers \ allocated : allocated' = allocated \cup {b} /\ ReadsFromDisk(c, f, b)
  BY DEF GetMiss
<1>2. AbstractItems' = AbstractItems /\ Abstract!Released = {}
  BY <1>1, SameItems
<1>3. Abstract!At(AbstractItems, f) = {}
  BY <1>1, UncachedIsNowhere
<1>4. AbstractItems' = Abstract!AfterMiss(AbstractItems, f)
  BY <1>2, <1>3 DEF Abstract!AfterMiss
<1> QED BY <1>1, <1>2, <1>3, <1>4 DEF Abstract!Miss, Abstract!Becomes, ReadsFromDisk, Becomes

LEMMA GetStaleInUseRefines ==
  ASSUME IInv, IInv', NEW c \in Clients, NEW f \in Files, GetStaleInUse(c, f)
  PROVE  Abstract!Miss(c, f)
<1>1. /\ running /\ mode[c] = "idle" /\ UNCHANGED cache
      /\ \E b \in Buffers \ allocated : allocated' = allocated \cup {b} /\ ReadsFromDisk(c, f, b)
  BY DEF GetStaleInUse
<1>2. PICK n \in Nodes : Found(n, Named(f)) /\ outdated[n] /\ num_locks[n] # 0
  BY DEF GetStaleInUse
<1>3. n \in live /\ file_name[n] = f
  BY <1>1, <1>2, FoundNamed
<1>4. PICK i : Abstract!At(AbstractItems, f) = {i} /\ AbstractItems[i] = ItemOf(n)
  BY <1>1, <1>3, Placed
<1>5. AbstractItems[i].outdated /\ AbstractItems[i].locks # 0
  BY <1>2, <1>4, ItemFacts
<1>6. AbstractItems' = AbstractItems /\ Abstract!Released = {}
  BY <1>1, SameItems
<1>7. AbstractItems' = Abstract!AfterMiss(AbstractItems, f)
  BY <1>4, <1>5, <1>6, MissOfItem DEF Abstract!RemoveIfUnused, Abstract!Unused
<1> QED BY <1>1, <1>4, <1>5, <1>6, <1>7
        DEF Abstract!Miss, Abstract!Current, Abstract!Becomes, ReadsFromDisk, Becomes

LEMMA GetStaleRefines ==
  ASSUME IInv, IInv', NEW c \in Clients, NEW f \in Files, GetStale(c, f)
  PROVE  Abstract!Miss(c, f)
<1>1. PICK n \in Nodes, b \in Buffers :
        /\ Found(n, Named(f)) /\ outdated[n] /\ num_locks[n] = 0
        /\ RemoveNode(n)
        /\ b \notin allocated \ {buff[n]}
        /\ allocated' = (allocated \ {buff[n]}) \cup {b}
        /\ ReadsFromDisk(c, f, b)
  BY DEF GetStale
<1>2. running /\ running' /\ mode[c] = "idle"
  BY DEF GetStale
<1>3. n \in live /\ file_name[n] = f
  BY <1>1, <1>2, FoundNamed
<1>4. PICK t, i : /\ i \in 1..num_items /\ IsOrder(t) /\ t[i] = n
                  /\ Abstract!At(AbstractItems, f) = {i}
                  /\ AbstractItems[i] = ItemOf(n)
  BY <1>2, <1>3, Placed
<1>5. AbstractItems[i].outdated /\ AbstractItems[i].locks = 0
  BY <1>1, <1>4, ItemFacts
<1>6. AbstractItems' = Abstract!RemoveAt(AbstractItems, i) /\ Abstract!Released = {buff[n]}
  BY <1>1, <1>2, <1>4, RemoveNodeRefines
<1>7. AbstractItems' = Abstract!AfterMiss(AbstractItems, f)
  BY <1>4, <1>5, <1>6, MissOfItem DEF Abstract!RemoveIfUnused, Abstract!Unused
<1> QED BY <1>1, <1>2, <1>4, <1>5, <1>6, <1>7
        DEF Abstract!Miss, Abstract!Current, Abstract!Becomes, ReadsFromDisk, Becomes

\* The end of a use takes one lock off the item of that name.
LEMMA UnlockRefines ==
  ASSUME IInv, IInv', NEW c \in Clients, Unlock(c)
  PROVE  Abstract!Return(c)
<1>0. PICK f : f = want[c]
  OBVIOUS
<1>1. /\ running /\ mode[c] = "using" /\ Becomes(c, "idle", NULL, NULL)
      /\ UNCHANGED <<list, num_items, file_name, buff, watch, outdated, live, allocated, running>>
  BY DEF Unlock
<1>2. \A n \in Nodes :
        num_locks'[n] = IF n \in live /\ file_name[n] = f /\ num_locks[n] # 0
                        THEN num_locks[n] - 1 ELSE num_locks[n]
  BY <1>0, <1>1, FoundLockedNamed DEF Unlock
<1>3. PICK t : IsOrder(t)
  BY <1>1, CacheHasOrder
<1>4. /\ Len(t) = num_items /\ DOMAIN AbstractItems = 1..num_items
      /\ \A k \in 1..num_items : t[k] \in live /\ AbstractItems[k] = ItemOf(t[k])
  BY <1>1, <1>3, OrderFacts
<1>5. AbstractItems' = [k \in 1..num_items |-> ItemTable'[t[k]]]
  <2>1. Visits(list', t) /\ Len(t) = num_items'
    BY <1>1, <1>3, <1>4, OrderVisits DEF IsOrder
  <2> QED BY <1>4, <2>1, ItemsAreMappedNext DEF ItemsMapped, Mapped
<1>6. ASSUME NEW k \in 1..num_items
      PROVE  ItemTable'[t[k]] = IF AbstractItems[k].name = f /\ AbstractItems[k].locks # 0
                                THEN [AbstractItems[k] EXCEPT !.locks = @ - 1]
                                ELSE AbstractItems[k]
  <2>1. t[k] \in live /\ t[k] \in Nodes /\ AbstractItems[k] = ItemOf(t[k])
    BY <1>4 DEF IInv, TypeOK
  <2>2. ItemTable'[t[k]] = [name |-> file_name[t[k]], buff |-> buff[t[k]],
                            locks |-> num_locks'[t[k]], outdated |-> outdated[t[k]]]
    BY <1>1, <2>1 DEF ItemTable, ItemOf
  <2> QED BY <1>2, <2>1, <2>2 DEF ItemOf
<1>7. AbstractItems' = Abstract!UnlockNamed(AbstractItems, f)
  BY <1>4, <1>5, <1>6 DEF Abstract!UnlockNamed
<1> QED BY <1>0, <1>1, <1>7 DEF Abstract!Return, Abstract!Becomes, Becomes

\* A change of one item where it stands.
LEMMA ItemChanged ==
  ASSUME IInv, running, NEW t, IsOrder(t), NEW i \in 1..num_items,
         list' = list, num_items' = num_items, Keeps(live \ {t[i]})
  PROVE  AbstractItems' = [AbstractItems EXCEPT ![i] = ItemTable'[t[i]]]
<1>1. /\ Len(t) = num_items /\ DOMAIN AbstractItems = 1..num_items
      /\ \A j, k \in 1..num_items : t[j] = t[k] => j = k
      /\ \A k \in 1..num_items : t[k] \in live /\ AbstractItems[k] = ItemOf(t[k])
  BY OrderFacts
<1>2. Visits(list', t)
  BY OrderVisits DEF IsOrder
<1>3. AbstractItems' = [k \in 1..num_items |-> ItemTable'[t[k]]]
  BY <1>1, <1>2, ItemsAreMappedNext DEF ItemsMapped, Mapped
<1>4. ASSUME NEW k \in 1..num_items, k # i PROVE ItemTable'[t[k]] = AbstractItems[k]
  <2>1. t[k] \in live \ {t[i]} /\ t[k] \in Nodes
    BY <1>1, <1>4 DEF IInv, TypeOK
  <2>2. ItemTable[t[k]] = AbstractItems[k]
    BY <1>1, <2>1 DEF ItemTable
  <2> QED BY <2>1, <2>2 DEF Keeps
<1>5. AbstractItems = [k \in 1..num_items |-> AbstractItems[k]]
  BY <1>1 DEF AbstractItems
<1> QED BY <1>3, <1>4, <1>5

\* What an offer leaves, when the file has an item.
LEMMA AddToItem ==
  ASSUME NEW f, NEW b, NEW i, Abstract!At(AbstractItems, f) = {i}
  PROVE  Abstract!Add(AbstractItems, f, b, MaxItems) =
           IF Abstract!Unused(AbstractItems, i) THEN [AbstractItems EXCEPT ![i].buff = b]
           ELSE AbstractItems
<1>1. (CHOOSE j \in {i} : TRUE) = i
  OBVIOUS
<1> QED BY <1>1 DEF Abstract!Add

LEMMA BuffersNext ==
  ASSUME IInv', running'
  PROVE  Abstract!BuffersOf(AbstractItems') = {buff'[n] : n \in live'}
BY BuffersAreListedNext DEF BuffersListed, Abstract!BuffersOf

\* An offer that the cache accepts, and one that it refuses.
LEMMA OfferTaken ==
  ASSUME NEW c \in Clients, mode[c] = "reading", Becomes(c, "idle", NULL, NULL),
         AbstractItems' = Abstract!Add(AbstractItems, want[c], data[c], MaxItems),
         data[c] \in Abstract!BuffersOf(AbstractItems'),
         allocated' = allocated \ Abstract!Released
  PROVE  Abstract!Offer(c)
BY DEF Abstract!Offer, Abstract!Becomes, Becomes

LEMMA AddUpdatesRefines ==
  ASSUME IInv, IInv', NEW c \in Clients, AddUpdates(c)
  PROVE  Abstract!Offer(c)
<1>0. PICK f, b : f = want[c] /\ b = data[c]
  OBVIOUS
<1>1. PICK n \in Nodes :
        /\ Found(n, Named(f)) /\ num_locks[n] = 0
        /\ allocated' = allocated \ {buff[n]}
        /\ buff' = [buff EXCEPT ![n] = b]
  BY <1>0 DEF AddUpdates
<1>2. /\ running /\ running' /\ mode[c] = "reading" /\ Becomes(c, "idle", NULL, NULL)
      /\ UNCHANGED <<list, num_items, num_locks, file_name, watch, outdated, live>>
  BY DEF AddUpdates
<1>3. n \in live /\ file_name[n] = f
  BY <1>1, <1>2, FoundNamed
<1>4. PICK t, i : /\ i \in 1..num_items /\ IsOrder(t) /\ t[i] = n
                  /\ Abstract!At(AbstractItems, f) = {i}
                  /\ AbstractItems[i] = ItemOf(n)
  BY <1>2, <1>3, Placed
<1>5. live \subseteq Nodes /\ buff \in [Nodes -> Buffers \cup {NULL}]
  BY DEF IInv, TypeOK
<1>6. AbstractItems' = [AbstractItems EXCEPT ![i] = ItemTable'[n]]
  <2>1. Keeps(live \ {n})
    BY <1>1, <1>2, <1>5, KeepsFields
  <2> QED BY <1>2, <1>4, <2>1, ItemChanged
<1>7. ItemTable'[n] = [ItemOf(n) EXCEPT !.buff = b]
  BY <1>1, <1>2, <1>5 DEF ItemTable, ItemOf
<1>8. Abstract!Unused(AbstractItems, i)
  BY <1>1, <1>4, ItemFacts DEF Abstract!Unused
<1>9. AbstractItems' = Abstract!Add(AbstractItems, f, b, MaxItems)
  <2>1. AbstractItems' = [AbstractItems EXCEPT ![i].buff = b]
    BY <1>4, <1>6, <1>7
  <2> QED BY <1>4, <1>8, <2>1, AddToItem
<1>10. b \notin {buff[m] : m \in live} /\ \A m \in live : buff[m] = buff[n] => m = n
  BY <1>0, <1>2, <1>3 DEF IInv, OneOwnerEach
<1>11. {buff[m] : m \in live} \ {buff'[m] : m \in live'} = {buff[n]}
  BY <1>1, <1>2, <1>3, <1>5, <1>10
<1>12. Abstract!Released = {buff[n]}
  BY <1>2, <1>11, ReleasedBuffers
<1>13. b \in Abstract!BuffersOf(AbstractItems')
  <2>1. b = buff'[n] /\ n \in live'
    BY <1>1, <1>2, <1>3, <1>5
  <2> QED BY <1>2, <2>1, BuffersNext
<1> QED BY <1>0, <1>1, <1>2, <1>9, <1>12, <1>13, OfferTaken

\* The node n holds a new item.
IsNewItem(n, f, b) == ItemTable'[n] = Abstract!Item(f, b) /\ buff'[n] = b

\* A new node says what it was made for, and no other changes.
LEMMA NewItem ==
  ASSUME IInv, NEW L, NEW k, NEW r, NEW n, NEW f, NEW b, NEW w,
         AddNode(L, k, r, n, f, b, w)
  PROVE  /\ n \in Nodes \ (live \ {r}) /\ list' = PushFront(L, n) /\ num_items' = k + 1
         /\ live' = (live \ {r}) \cup {n}
         /\ IsNewItem(n, f, b)
         /\ Keeps((live \ {r}) \ {n})
         /\ \A m \in (live \ {r}) \ {n} : buff'[m] = buff[m]
<1>1. /\ n \in Nodes \ (live \ {r}) /\ list' = PushFront(L, n) /\ num_items' = k + 1
      /\ live' = (live \ {r}) \cup {n} /\ live \subseteq Nodes
  BY DEF AddNode, IInv, TypeOK
<1>2. /\ num_locks'[n] = 0 /\ file_name'[n] = f /\ buff'[n] = b /\ outdated'[n] = FALSE
  BY <1>1 DEF AddNode, Without
<1>3. \A m \in (live \ {r}) \ {n} :
        /\ num_locks'[m] = num_locks[m] /\ file_name'[m] = file_name[m]
        /\ buff'[m] = buff[m] /\ outdated'[m] = outdated[m]
  BY <1>1 DEF AddNode, Without
<1>4. ItemTable'[n] = Abstract!Item(f, b)
  BY <1>1, <1>2 DEF ItemTable, ItemOf, Abstract!Item
<1>5. Keeps((live \ {r}) \ {n})
  BY <1>1, <1>3, KeepsFields
<1> QED BY <1>1, <1>2, <1>3, <1>4, <1>5 DEF IsNewItem

LEMMA AddInsertsRefines ==
  ASSUME IInv, IInv', NEW c \in Clients, AddInserts(c)
  PROVE  Abstract!Offer(c)
<1>0. PICK f, b : f = want[c] /\ b = data[c]
  OBVIOUS
<1>1. PICK n, w : AddNode(list, num_items, NULL, n, f, b, w)
  BY <1>0 DEF AddInserts
<1>2. /\ running /\ running' /\ mode[c] = "reading" /\ Becomes(c, "idle", NULL, NULL)
      /\ Named(f) = {} /\ num_items < MaxItems /\ allocated' = allocated
  BY <1>0 DEF AddInserts
<1>3. live \ {NULL} = live
  BY NullIsNoNode DEF IInv, TypeOK
<1>4. /\ n \in Nodes \ live /\ list' = PushFront(list, n) /\ num_items' = num_items + 1
      /\ live' = live \cup {n} /\ IsNewItem(n, f, b)
      /\ Keeps(live) /\ \A m \in live : buff'[m] = buff[m]
  <2>1. /\ n \in Nodes \ (live \ {NULL}) /\ list' = PushFront(list, n)
        /\ num_items' = num_items + 1 /\ live' = (live \ {NULL}) \cup {n}
        /\ IsNewItem(n, f, b)
        /\ Keeps((live \ {NULL}) \ {n})
        /\ \A m \in (live \ {NULL}) \ {n} : buff'[m] = buff[m]
    BY <1>1, NewItem
  <2>2. (live \ {NULL}) \ {n} = live
    BY <1>3, <2>1
  <2> QED BY <1>3, <2>1, <2>2
<1>5. AbstractItems' = <<Abstract!Item(f, b)>> \o AbstractItems
  <2>1. AbstractItems' = <<ItemTable'[n]>> \o AbstractItems
    BY <1>2, <1>4, ItemPushed
  <2> QED BY <1>4, <2>1 DEF IsNewItem
<1>6. AbstractItems' = Abstract!Add(AbstractItems, f, b, MaxItems)
  <2>1. Abstract!At(AbstractItems, f) = {} /\ Len(AbstractItems) < MaxItems
    BY <1>2, UncachedIsNowhere, CacheHasOrder, OrderFacts
  <2> QED BY <1>5, <2>1 DEF Abstract!Add
<1>7. Abstract!Released = {}
  <2>1. {buff[m] : m \in live} \ {buff'[m] : m \in live'} = {}
    BY <1>4
  <2> QED BY <1>2, <2>1, ReleasedBuffers
<1>8. b \in Abstract!BuffersOf(AbstractItems')
  BY <1>2, <1>4, BuffersNext DEF IsNewItem
<1> QED BY <1>0, <1>2, <1>6, <1>7, <1>8, OfferTaken

LEMMA AddEvictsRefines ==
  ASSUME IInv, IInv', NEW c \in Clients, AddEvicts(c)
  PROVE  Abstract!Offer(c)
<1>0. PICK f, b, r : f = want[c] /\ b = data[c] /\ r = list.tail
  OBVIOUS
<1>k. PICK k, L : k = num_items - 1 /\ L = Unlink(list, r)
  OBVIOUS
<1>1. PICK n, w : AddNode(L, k, r, n, f, b, w)
  BY <1>0, <1>k DEF AddEvicts
<1>2. /\ running /\ running' /\ mode[c] = "reading" /\ Becomes(c, "idle", NULL, NULL)
      /\ Named(f) = {} /\ num_items >= MaxItems /\ num_locks[r] = 0
      /\ allocated' = allocated \ {buff[r]}
  BY <1>0 DEF AddEvicts
<1>3. r \in live
  BY <1>0, <1>2 DEF AddEvicts, IInv, ListIntact, WellFormed, NoDangling
<1>4. /\ n \in Nodes \ (live \ {r}) /\ list' = PushFront(Unlink(list, r), n)
      /\ num_items' = num_items - 1 + 1 /\ live' = (live \ {r}) \cup {n}
      /\ IsNewItem(n, f, b)
      /\ Keeps((live \ {r}) \ {n}) /\ \A m \in (live \ {r}) \ {n} : buff'[m] = buff[m]
  <2>1. /\ n \in Nodes \ (live \ {r}) /\ list' = PushFront(L, n)
        /\ num_items' = k + 1 /\ live' = (live \ {r}) \cup {n}
        /\ IsNewItem(n, f, b)
        /\ Keeps((live \ {r}) \ {n}) /\ \A m \in (live \ {r}) \ {n} : buff'[m] = buff[m]
    BY <1>1, NewItem
  <2> QED BY <1>k, <2>1
<1>5. num_items' = num_items /\ num_items \in Nat
  BY <1>4 DEF IInv, TypeOK
<1>6. /\ AbstractItems # <<>> /\ AbstractItems[Len(AbstractItems)] = ItemOf(r)
      /\ AbstractItems' = <<ItemTable'[n]>> \o Front(AbstractItems)
  BY <1>0, <1>2, <1>3, <1>4, <1>5, LastItemReplaced
<1>7. AbstractItems' = Abstract!Add(AbstractItems, f, b, MaxItems)
  <2>1. Abstract!At(AbstractItems, f) = {} /\ Len(AbstractItems) = num_items
    BY <1>2, UncachedIsNowhere, CacheHasOrder, OrderFacts
  <2>2. Abstract!Unused(AbstractItems, Len(AbstractItems))
    BY <1>2, <1>6, ItemFacts DEF Abstract!Unused
  <2>3. AbstractItems' = <<Abstract!Item(f, b)>> \o Abstract!Front(AbstractItems)
    BY <1>4, <1>6 DEF IsNewItem, Front, Abstract!Front
  <2>4. ~(Len(AbstractItems) < MaxItems)
    BY <1>2, <1>5, <2>1, MaxItemsIsNat
  <2> QED BY <1>6, <2>1, <2>2, <2>3, <2>4 DEF Abstract!Add
<1>8. Abstract!Released = {buff[r]}
  <2>1. b \notin {buff[m] : m \in live} /\ \A m \in live : buff[m] = buff[r] => m = r
    BY <1>0, <1>2, <1>3 DEF IInv, OneOwnerEach
  <2>2. \A m \in live \ {r} : m \in (live \ {r}) \ {n} /\ m \in live' /\ buff'[m] = buff[m]
    BY <1>4
  <2>3. \A m \in live' : buff'[m] = b \/ (m \in live \ {r} /\ buff'[m] = buff[m])
    BY <1>4 DEF IsNewItem
  <2>4. {buff[m] : m \in live} \ {buff'[m] : m \in live'} = {buff[r]}
    BY <1>3, <2>1, <2>2, <2>3
  <2> QED BY <1>2, <2>4, ReleasedBuffers
<1>9. b \in Abstract!BuffersOf(AbstractItems')
  BY <1>2, <1>4, BuffersNext DEF IsNewItem
<1> QED BY <1>0, <1>2, <1>7, <1>8, <1>9, OfferTaken

LEMMA AddRefusedRefines ==
  ASSUME IInv, IInv', NEW c \in Clients, AddRefused(c)
  PROVE  Abstract!Offer(c)
<1>0. PICK f, b, r : f = want[c] /\ b = data[c] /\ r = list.tail
  OBVIOUS
<1>1. /\ running /\ mode[c] = "reading" /\ Becomes(c, "idle", NULL, NULL)
      /\ allocated' = allocated \ {b} /\ UNCHANGED cache
  BY <1>0 DEF AddRefused
<1>2. AbstractItems' = AbstractItems /\ Abstract!Released = {}
  BY <1>1, SameItems
<1>3. AbstractItems = Abstract!Add(AbstractItems, f, b, MaxItems)
  <2>1. CASE \E n \in Nodes : Found(n, Named(f)) /\ num_locks[n] # 0
    <3>1. PICK n \in Nodes : Found(n, Named(f)) /\ num_locks[n] # 0
      BY <2>1
    <3>2. n \in live /\ file_name[n] = f
      BY <1>1, <3>1, FoundNamed
    <3>3. PICK i : Abstract!At(AbstractItems, f) = {i} /\ AbstractItems[i] = ItemOf(n)
      BY <1>1, <3>2, Placed
    <3>4. ~Abstract!Unused(AbstractItems, i)
      BY <3>1, <3>3, ItemFacts DEF Abstract!Unused
    <3> QED BY <3>3, <3>4, AddToItem
  <2>2. CASE /\ Named(f) = {} /\ num_items >= MaxItems
             /\ r # NULL => num_locks[r] # 0
    <3>1. PICK t : IsOrder(t)
      BY <1>1, CacheHasOrder
    <3>2. /\ Abstract!At(AbstractItems, f) = {} /\ Len(AbstractItems) = num_items
          /\ num_items \in Nat /\ Len(t) = num_items
          /\ AbstractItems \in Seq(ItemRecs)
          /\ \A k \in 1..num_items : t[k] \in live /\ AbstractItems[k] = ItemOf(t[k])
      BY <1>1, <2>2, <3>1, UncachedIsNowhere, OrderFacts
    <3>3. r = (IF num_items = 0 THEN NULL ELSE t[num_items])
      BY <1>0, <3>1, <3>2 DEF IsOrder, Enumerates
    <3>4. ASSUME AbstractItems # <<>>
          PROVE  ~Abstract!Unused(AbstractItems, Len(AbstractItems))
      <4>1. num_items # 0
        BY <3>2, <3>4
      <4>2. num_items \in 1..num_items /\ r = t[num_items] /\ r \in live
        BY <3>2, <3>3, <4>1
      <4>3. r # NULL
        BY <4>2, NullIsNoNode DEF IInv, TypeOK
      <4> QED BY <2>2, <3>2, <4>2, <4>3, ItemFacts DEF Abstract!Unused
    <3>5. ~(Len(AbstractItems) < MaxItems)
      BY <2>2, <3>2, MaxItemsIsNat
    <3> QED BY <3>2, <3>4, <3>5 DEF Abstract!Add
  <2> QED BY <1>0, <2>1, <2>2 DEF AddRefused
<1>4. b \notin Abstract!BuffersOf(AbstractItems')
  <2>1. b \notin {buff[m] : m \in live}
    BY <1>0, <1>1 DEF IInv, OneOwnerEach
  <2> QED BY <1>1, <1>2, <2>1, BuffersAreListed DEF BuffersListed
<1> QED BY <1>0, <1>1, <1>2, <1>3, <1>4 DEF Abstract!Offer, Abstract!Becomes, Becomes

\* An item that is marked as outdated, or not.
Mark(item, value) == [item EXCEPT !.outdated = value]

LEMMA MarkedItem ==
  ASSUME NEW n
  PROVE  Mark(ItemOf(n), TRUE) = [name |-> file_name[n], buff |-> buff[n],
                                  locks |-> num_locks[n], outdated |-> TRUE]
<1>1. PICK o, v : o = outdated[n] /\ v = TRUE
  OBVIOUS
<1> DEFINE As(e) == [name |-> file_name[n], buff |-> buff[n],
                     locks |-> num_locks[n], outdated |-> e]
<1>2. ItemOf(n) = As(o)
  BY <1>1, Zenon DEF ItemOf
<1>3. Mark(As(o), v) = As(v)
  BY DEF Mark
<1> HIDE DEF As
<1>4. Mark(ItemOf(n), v) = As(v)
  BY <1>2, <1>3
<1>5. Mark(ItemOf(n), TRUE) = As(TRUE)
  BY <1>1, <1>4, Zenon
<1> QED BY <1>5, Zenon DEF As

\* A change on disk removes an item, or marks it where it stands.
LEMMA ProcessInotifyEventRefines ==
  ASSUME IInv, IInv', NEW w, ProcessInotifyEvent(w)
  PROVE  Abstract!Change
<1>1. PICK n \in Nodes :
        /\ Found(n, Watching(w))
        /\ \/ /\ num_locks[n] = 0
              /\ RemoveNode(n)
              /\ allocated' = allocated \ {buff[n]}
           \/ /\ num_locks[n] # 0
              /\ outdated' = [outdated EXCEPT ![n] = TRUE]
              /\ UNCHANGED <<list, num_items, num_locks, file_name, buff, watch, live, allocated>>
  BY DEF ProcessInotifyEvent
<1>2. running /\ running' /\ UNCHANGED <<mode, want, data>>
  BY DEF ProcessInotifyEvent, callers
<1>3. n \in live
  BY <1>1, <1>2, FoundWatching
<1>4. PICK t, i : i \in 1..num_items /\ IsOrder(t) /\ t[i] = n /\ AbstractItems[i] = ItemOf(n)
  BY <1>2, <1>3, Placed
<1>5. i \in DOMAIN AbstractItems
  BY <1>2, <1>4, OrderFacts
<1>6. Abstract!Unused(AbstractItems, i) <=> num_locks[n] = 0
  BY <1>4, ItemFacts DEF Abstract!Unused
<1>7. AbstractItems' = Abstract!Invalidate(AbstractItems, i)
      /\ allocated' = allocated \ Abstract!Released
  <2>1. CASE num_locks[n] = 0
    <3>1. RemoveNode(n) /\ allocated' = allocated \ {buff[n]}
      BY <1>1, <2>1
    <3>2. AbstractItems' = Abstract!RemoveAt(AbstractItems, i)
          /\ Abstract!Released = {buff[n]}
      BY <1>2, <1>4, <3>1, RemoveNodeRefines
    <3> QED BY <1>6, <2>1, <3>1, <3>2 DEF Abstract!Invalidate
  <2>2. CASE num_locks[n] # 0
    <3>1. /\ outdated' = [outdated EXCEPT ![n] = TRUE]
          /\ UNCHANGED <<list, num_items, num_locks, file_name, buff, watch, live, allocated>>
      BY <1>1, <2>2
    <3>2. live \subseteq Nodes /\ outdated \in [Nodes -> BOOLEAN]
      BY DEF IInv, TypeOK
    <3>3. Keeps(live \ {n})
      BY <3>1, <3>2, KeepsFields
    <3>4. AbstractItems' = [AbstractItems EXCEPT ![i] = ItemTable'[n]]
      BY <1>2, <1>4, <3>1, <3>3, ItemChanged
    <3>5. ItemTable'[n] = Mark(ItemOf(n), TRUE)
      <4>1. outdated'[n] = TRUE
        BY <3>1, <3>2
      <4>2. ItemTable'[n] = [name |-> file_name[n], buff |-> buff[n],
                             locks |-> num_locks[n], outdated |-> outdated'[n]]
        BY <3>1 DEF ItemTable, ItemOf
      <4> QED BY <4>1, <4>2, MarkedItem, Zenon
    <3>6. AbstractItems' = [AbstractItems EXCEPT ![i].outdated = TRUE]
      BY <1>4, <3>4, <3>5 DEF Mark
    <3>7. {buff[m] : m \in live} \ {buff'[m] : m \in live'} = {}
      BY <3>1
    <3>8. Abstract!Released = {}
      BY <1>2, <3>7, ReleasedBuffers
    <3> QED BY <1>6, <2>2, <3>1, <3>6, <3>8 DEF Abstract!Invalidate
  <2> QED BY <2>1, <2>2
<1> QED BY <1>2, <1>5, <1>7 DEF Abstract!Change

LEMMA RemoveItemRefines ==
  ASSUME IInv, IInv', NEW f \in Files, RemoveItem(f)
  PROVE  Abstract!Drop(f)
<1>1. PICK n \in Nodes :
        /\ Found(n, Named(f)) /\ num_locks[n] = 0
        /\ RemoveNode(n)
        /\ allocated' = allocated \ {buff[n]}
  BY DEF RemoveItem
<1>2. running /\ running' /\ UNCHANGED <<mode, want, data>>
  BY DEF RemoveItem, callers
<1>3. n \in live /\ file_name[n] = f
  BY <1>1, <1>2, FoundNamed
<1>4. PICK t, i : /\ i \in 1..num_items /\ IsOrder(t) /\ t[i] = n
                  /\ Abstract!At(AbstractItems, f) = {i}
                  /\ AbstractItems[i] = ItemOf(n)
  BY <1>2, <1>3, Placed
<1>5. AbstractItems' = Abstract!RemoveAt(AbstractItems, i) /\ Abstract!Released = {buff[n]}
  BY <1>1, <1>2, <1>4, RemoveNodeRefines
<1>6. Abstract!Unused(AbstractItems, i)
  BY <1>1, <1>4, ItemFacts DEF Abstract!Unused
<1> QED BY <1>1, <1>2, <1>4, <1>5, <1>6 DEF Abstract!Drop, Abstract!RemoveIfUnused

\* The destructor frees the buffers of all items.
LEMMA DestroyRefines ==
  ASSUME IInv, IInv', Destroy
  PROVE  Abstract!Close
<1>1. /\ running /\ running' = FALSE /\ num_items' = 0 /\ UNCHANGED <<mode, want, data>>
      /\ allocated' = allocated \ {buff[n] : n \in OnList(list)}
  BY DEF Destroy, callers
<1>2. AbstractItems' = <<>>
  BY <1>1 DEF AbstractItems
<1>3. Abstract!BuffersOf(AbstractItems') = {}
  BY <1>2 DEF Abstract!BuffersOf
<1>4. Abstract!Released = {buff[n] : n \in live}
  BY <1>1, <1>3, BuffersAreListed DEF BuffersListed, Abstract!Released
<1>5. OnList(list) = live
  BY <1>1, LoopsVisitLive DEF IInv
<1> QED BY <1>1, <1>2, <1>4, <1>5 DEF Abstract!Close

LEMMA InitRefines == Init => Abstract!Init
<1> SUFFICES ASSUME Init PROVE Abstract!Init
  OBVIOUS
<1>1. AbstractItems = <<>>
  BY DEF Init, AbstractItems
<1> QED BY <1>1 DEF Init, Abstract!Init

LEMMA NextRefines ==
  ASSUME IInv, IInv', [Next]_vars
  PROVE  [Abstract!Next]_(Abstract!vars)
<1>1. ASSUME NEW c \in Clients, NEW f \in Files, GetHit(c, f)
      PROVE  Abstract!Next
  BY <1>1, GetHitRefines DEF GetHit, Abstract!Next, Abstract!Operate
<1>2. ASSUME NEW c \in Clients, NEW f \in Files,
             GetMiss(c, f) \/ GetStale(c, f) \/ GetStaleInUse(c, f)
      PROVE  Abstract!Next
  <2>1. Abstract!Miss(c, f)
    BY <1>2, GetMissRefines, GetStaleRefines, GetStaleInUseRefines
  <2>2. running /\ UNCHANGED running
    BY <1>2 DEF GetMiss, GetStale, GetStaleInUse
  <2> QED BY <2>1, <2>2 DEF Abstract!Next, Abstract!Operate
<1>3. ASSUME NEW c \in Clients, Unlock(c)
      PROVE  Abstract!Next
  BY <1>3, UnlockRefines DEF Unlock, Abstract!Next, Abstract!Operate
<1>4. ASSUME NEW c \in Clients,
             AddUpdates(c) \/ AddInserts(c) \/ AddEvicts(c) \/ AddRefused(c)
      PROVE  Abstract!Next
  <2>1. Abstract!Offer(c)
    BY <1>4, AddUpdatesRefines, AddInsertsRefines, AddEvictsRefines, AddRefusedRefines
  <2>2. running /\ UNCHANGED running
    BY <1>4 DEF AddUpdates, AddInserts, AddEvicts, AddRefused
  <2> QED BY <2>1, <2>2 DEF Abstract!Next, Abstract!Operate
<1>5. ASSUME NEW w, ProcessInotifyEvent(w)
      PROVE  Abstract!Next
  BY <1>5, ProcessInotifyEventRefines DEF ProcessInotifyEvent, Abstract!Next, Abstract!Operate
<1>6. ASSUME NEW f \in Files, RemoveItem(f)
      PROVE  Abstract!Next
  BY <1>6, RemoveItemRefines DEF RemoveItem, Abstract!Next, Abstract!Operate
<1>7. CASE Destroy
  BY <1>7, DestroyRefines DEF Destroy, Abstract!Next
<1>8. CASE UNCHANGED vars
  BY <1>8, SameItems DEF vars, callers, Abstract!vars
<1> QED BY <1>1, <1>2, <1>3, <1>4, <1>5, <1>6, <1>7, <1>8 DEF Next

\* LruCache implements FileCache: for caches of any size and any number of files,
\* buffers and callers, the pointers of lru_file_cache hand out, promote, refuse, evict
\* and free what the abstract cache does, in the order it says.
THEOREM CacheKeepsThePromise == Spec => ImplementsFileCache
<1>1. IInv /\ IInv' /\ [Next]_vars => [Abstract!Next]_(Abstract!vars)
  BY NextRefines
<1> QED BY <1>1, InitRefines, InductiveInvariant, PTL
        DEF Spec, ImplementsFileCache, Abstract!Spec
=============================================================================
