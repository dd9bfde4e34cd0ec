------------------------------ MODULE LruCache ------------------------------
(***************************************************************************)
(* lru_file_cache (src/lru.cpp, header/lru.hpp): file contents kept in     *)
(* heap buffers, on a doubly linked list with the most recently requested  *)
(* item in front, each item with a count of the readers that use it.       *)
(*                                                                         *)
(* The module runs the class, down to its pointers and its heap, under     *)
(* callers that keep its contract: whoever locked an item unlocks it once, *)
(* by name, and whoever found none reads the file into a buffer of its own *)
(* and offers that to the cache.  Module HttpSendFile has the callers the  *)
(* server really has.                                                      *)
(***************************************************************************)
EXTENDS Integers, FiniteSets, NodeList

CONSTANTS
  Files,    \* file names
  Buffers,  \* addresses of heap buffers for file contents
  Watches,  \* watch descriptors inotify_add_watch can return
  NoWatch,  \* the -1 it returns for a file that is not there
  Clients,  \* callers of the cache
  MaxItems  \* max_num_items, the size given to the constructor

ASSUME MaxItemsIsNat == MaxItems \in Nat
ASSUME FiniteHeap == IsFiniteSet(Nodes) /\ IsFiniteSet(Clients)
ASSUME NullIsNoData == NULL \notin Files \cup Buffers

VARIABLES
  \* the class
  list,       \* head, tail, and next and prev of every node
  num_items,  \* the item count the class keeps
  num_locks,  \* per node: readers in progress
  file_name,  \* per node: name of its file
  buff,       \* per node: the buffer with its contents
  watch,      \* per node: its inotify watch descriptor
  outdated,   \* per node: whether the file has changed since
  \* the heap
  live,       \* nodes that are allocated
  allocated,  \* buffers that are allocated
  \* the callers
  mode,       \* "idle", "reading" the file from disk, "using" a locked item
  want,       \* the file a caller is busy with
  data,       \* the buffer it reads into or uses
  running     \* FALSE once the destructor has run

fields == <<num_locks, file_name, buff, watch, outdated>>
cache == <<list, num_items, fields>>
callers == <<mode, want, data>>
vars == <<cache, live, allocated, callers, running>>

-----------------------------------------------------------------------------
(* What the loops of the class look for.                                   *)

\* Mutant of Named: get_item passes over items that are outdated.
NamedCurrent(f) == {n \in OnList(list) : file_name[n] = f /\ ~outdated[n]}
\* get_item(f): at most one such node, see UniqueNames.
Named(f) == {n \in OnList(list) : file_name[n] = f}
\* unlock_item passes over nodes of that name without a lock.
LockedNamed(f) == {n \in Named(f) : num_locks[n] # 0}
\* process_inotify_event(e) with e->wd = w.
Watching(w) == {n \in OnList(list) : watch[n] = w}

Found(n, hits) == FirstOf(list, n, hits)

\* A field of the deleted node r no longer has a value; none if r is NULL.
Without(field, r, none) == [m \in Nodes |-> IF m = r THEN none ELSE field[m]]

\* delete node: its fields are gone, and so is its buffer.
ForgetFields(r) ==
  /\ num_locks' = Without(num_locks, r, 0)
  /\ file_name' = Without(file_name, r, NULL)
  /\ buff' = Without(buff, r, NULL)
  /\ watch' = Without(watch, r, NULL)
  /\ outdated' = Without(outdated, r, FALSE)

\* Mutants of RemoveNode: the item is not counted out, or counted out both here
\* and by the caller.
RemoveNodeUncounted(n) ==
  /\ list' = Unlink(list, n)
  /\ ForgetFields(n)
  /\ live' = live \ {n}
  /\ UNCHANGED num_items
RemoveNodeCountedTwice(n) ==
  /\ list' = Unlink(list, n)
  /\ num_items' = num_items - 2
  /\ ForgetFields(n)
  /\ live' = live \ {n}

\* remove_node(n) for a node without locks.
RemoveNode(n) ==
  /\ list' = Unlink(list, n)
  /\ num_items' = num_items - 1
  /\ ForgetFields(n)
  /\ live' = live \ {n}

\* The part of add_or_update_item that puts a new node n in front of the list
\* L of k items.  r is the node evicted just before it, or NULL.
AddNode(L, k, r, n, f, b, w) ==
  /\ n \in Nodes \ (live \ {r})
  /\ list' = PushFront(L, n)
  /\ num_items' = k + 1
  /\ num_locks' = [Without(num_locks, r, 0) EXCEPT ![n] = 0]
  /\ file_name' = [Without(file_name, r, NULL) EXCEPT ![n] = f]
  /\ buff' = [Without(buff, r, NULL) EXCEPT ![n] = b]
  /\ watch' = [Without(watch, r, NULL) EXCEPT ![n] = w]
  /\ outdated' = [Without(outdated, r, FALSE) EXCEPT ![n] = FALSE]
  /\ live' = (live \ {r}) \cup {n}

-----------------------------------------------------------------------------
(* The callers.                                                            *)

Becomes(c, m, f, b) ==
  /\ mode' = [mode EXCEPT ![c] = m]
  /\ want' = [want EXCEPT ![c] = f]
  /\ data' = [data EXCEPT ![c] = b]

\* After a miss, the caller reads the file into a fresh buffer.
ReadsFromDisk(c, f, b) == Becomes(c, "reading", f, b)

\* Mutant of GetHit: outdated is not looked at.
GetHitOutdated(c, f) ==
  /\ running /\ mode[c] = "idle"
  /\ \E n \in Nodes :
       /\ Found(n, Named(f))
       /\ num_locks' = [num_locks EXCEPT ![n] = @ + 1]
       /\ list' = Promote(list, n)
       /\ Becomes(c, "using", f, buff[n])
  /\ UNCHANGED <<num_items, file_name, buff, watch, outdated, live, allocated, running>>

\* get_and_lock_item finds the item and it is current.
GetHit(c, f) ==
  /\ running /\ mode[c] = "idle"
  /\ \E n \in Nodes :
       /\ Found(n, Named(f)) /\ ~outdated[n]
       /\ num_locks' = [num_locks EXCEPT ![n] = @ + 1]
       /\ list' = Promote(list, n)
       /\ Becomes(c, "using", f, buff[n])
  /\ UNCHANGED <<num_items, file_name, buff, watch, outdated, live, allocated, running>>

\* get_and_lock_item finds nothing.
GetMiss(c, f) ==
  /\ running /\ mode[c] = "idle"
  /\ Named(f) = {}
  /\ \E b \in Buffers \ allocated :
       /\ allocated' = allocated \cup {b}
       /\ ReadsFromDisk(c, f, b)
  /\ UNCHANGED <<cache, live, running>>

\* get_and_lock_item finds an outdated item nobody uses: it removes it.
GetStale(c, f) ==
  /\ running /\ mode[c] = "idle"
  /\ \E n \in Nodes, b \in Buffers :
       /\ Found(n, Named(f)) /\ outdated[n] /\ num_locks[n] = 0
       /\ RemoveNode(n)
       /\ b \notin allocated \ {buff[n]}
       /\ allocated' = (allocated \ {buff[n]}) \cup {b}
       /\ ReadsFromDisk(c, f, b)
  /\ UNCHANGED running

\* Mutant of GetStaleInUse: the lock is taken before outdated is looked at.
GetStaleInUseLocks(c, f) ==
  /\ running /\ mode[c] = "idle"
  /\ \E n \in Nodes : /\ Found(n, Named(f)) /\ outdated[n] /\ num_locks[n] # 0
                      /\ num_locks' = [num_locks EXCEPT ![n] = @ + 1]
  /\ \E b \in Buffers \ allocated :
       /\ allocated' = allocated \cup {b}
       /\ ReadsFromDisk(c, f, b)
  /\ UNCHANGED <<list, num_items, file_name, buff, watch, outdated, live, running>>

\* get_and_lock_item finds an outdated item in use: it cannot remove it.
GetStaleInUse(c, f) ==
  /\ running /\ mode[c] = "idle"
  /\ \E n \in Nodes : Found(n, Named(f)) /\ outdated[n] /\ num_locks[n] # 0
  /\ \E b \in Buffers \ allocated :
       /\ allocated' = allocated \cup {b}
       /\ ReadsFromDisk(c, f, b)
  /\ UNCHANGED <<cache, live, running>>

\* unlock_item, by the caller that locked.
Unlock(c) ==
  /\ running /\ mode[c] = "using"
  /\ num_locks' = [n \in Nodes |-> IF Found(n, LockedNamed(want[c]))
                                   THEN num_locks[n] - 1 ELSE num_locks[n]]
  /\ Becomes(c, "idle", NULL, NULL)
  /\ UNCHANGED <<list, num_items, file_name, buff, watch, outdated, live, allocated, running>>

\* Mutant of AddUpdates: the contents are replaced without a look at the locks.
AddUpdatesLocked(c) ==
  /\ running /\ mode[c] = "reading"
  /\ \E n \in Nodes :
       /\ Found(n, Named(want[c]))
       /\ allocated' = allocated \ {buff[n]}
       /\ buff' = [buff EXCEPT ![n] = data[c]]
  /\ Becomes(c, "idle", NULL, NULL)
  /\ UNCHANGED <<list, num_items, num_locks, file_name, watch, outdated, live, running>>

\* add_or_update_item finds the file's item unlocked and replaces its buffer.
AddUpdates(c) ==
  /\ running /\ mode[c] = "reading"
  /\ \E n \in Nodes :
       /\ Found(n, Named(want[c])) /\ num_locks[n] = 0
       /\ allocated' = allocated \ {buff[n]}
       /\ buff' = [buff EXCEPT ![n] = data[c]]
  /\ Becomes(c, "idle", NULL, NULL)
  /\ UNCHANGED <<list, num_items, num_locks, file_name, watch, outdated, live, running>>

\* add_or_update_item has room for one more.
AddInserts(c) ==
  /\ running /\ mode[c] = "reading"
  /\ Named(want[c]) = {}
  /\ num_items < MaxItems
  /\ \E n \in Nodes, w \in Watches \cup {NoWatch} :
       AddNode(list, num_items, NULL, n, want[c], data[c], w)
  /\ Becomes(c, "idle", NULL, NULL)
  /\ UNCHANGED <<allocated, running>>

\* add_or_update_item is full, removes the last item and calls itself again.
AddEvicts(c) ==
  /\ running /\ mode[c] = "reading"
  /\ Named(want[c]) = {}
  /\ num_items >= MaxItems /\ list.tail # NULL
  /\ num_locks[list.tail] = 0
  /\ \E n \in Nodes, w \in Watches \cup {NoWatch} :
       AddNode(Unlink(list, list.tail), num_items - 1, list.tail, n, want[c], data[c], w)
  /\ allocated' = allocated \ {buff[list.tail]}
  /\ Becomes(c, "idle", NULL, NULL)
  /\ UNCHANGED running

\* Mutant of AddRefused: the caller forgets that the buffer is still its own.
AddRefusedLeaks(c) ==
  /\ running /\ mode[c] = "reading"
  /\ \/ \E n \in Nodes : Found(n, Named(want[c])) /\ num_locks[n] # 0
     \/ /\ Named(want[c]) = {}
        /\ num_items >= MaxItems
        /\ list.tail # NULL => num_locks[list.tail] # 0
  /\ Becomes(c, "idle", NULL, NULL)
  /\ UNCHANGED <<cache, live, allocated, running>>

\* add_or_update_item returns false: the file's item is in use, or the list is
\* full and its last item is in use, or it is full and empty (MaxItems = 0).
\* The caller still owns its buffer and frees it.
AddRefused(c) ==
  /\ running /\ mode[c] = "reading"
  /\ \/ \E n \in Nodes : Found(n, Named(want[c])) /\ num_locks[n] # 0
     \/ /\ Named(want[c]) = {}
        /\ num_items >= MaxItems
        /\ list.tail # NULL => num_locks[list.tail] # 0
  /\ allocated' = allocated \ {data[c]}
  /\ Becomes(c, "idle", NULL, NULL)
  /\ UNCHANGED <<cache, live, running>>

-----------------------------------------------------------------------------
(* The event loop and the owner of the cache.                              *)

\* process_inotify_event for an event of watch w: the item is outdated, and
\* removed unless somebody uses it.
ProcessInotifyEvent(w) ==
  /\ running
  /\ \E n \in Nodes :
       /\ Found(n, Watching(w))
       /\ \/ /\ num_locks[n] = 0
             /\ RemoveNode(n)
             /\ allocated' = allocated \ {buff[n]}
          \/ /\ num_locks[n] # 0
             /\ outdated' = [outdated EXCEPT ![n] = TRUE]
             /\ UNCHANGED <<list, num_items, num_locks, file_name, buff, watch, live, allocated>>
  /\ UNCHANGED <<callers, running>>

\* remove_item, when it finds the item and nobody uses it.
RemoveItem(f) ==
  /\ running
  /\ \E n \in Nodes :
       /\ Found(n, Named(f)) /\ num_locks[n] = 0
       /\ RemoveNode(n)
       /\ allocated' = allocated \ {buff[n]}
  /\ UNCHANGED <<callers, running>>

\* ~lru_file_cache, after the event loop has ended: locks do not matter now.
Destroy ==
  /\ running
  /\ running' = FALSE
  /\ allocated' = allocated \ {buff[n] : n \in OnList(list)}
  /\ live' = live \ OnList(list)
  /\ list' = [list EXCEPT !.head = NULL, !.tail = NULL]
  /\ num_items' = 0
  /\ UNCHANGED <<fields, callers>>

-----------------------------------------------------------------------------
Init ==
  /\ list = EmptyList
  /\ num_items = 0
  /\ num_locks = [n \in Nodes |-> 0]
  /\ file_name = [n \in Nodes |-> NULL]
  /\ buff = [n \in Nodes |-> NULL]
  /\ watch = [n \in Nodes |-> NULL]
  /\ outdated = [n \in Nodes |-> FALSE]
  /\ live = {}
  /\ allocated = {}
  /\ mode = [c \in Clients |-> "idle"]
  /\ want = [c \in Clients |-> NULL]
  /\ data = [c \in Clients |-> NULL]
  /\ running = TRUE

Next ==
  \/ \E c \in Clients, f \in Files :
       GetHit(c, f) \/ GetMiss(c, f) \/ GetStale(c, f) \/ GetStaleInUse(c, f)
  \/ \E c \in Clients :
       Unlock(c) \/ AddUpdates(c) \/ AddInserts(c) \/ AddEvicts(c) \/ AddRefused(c)
  \/ \E w \in Watches \cup {NoWatch} : ProcessInotifyEvent(w)
  \/ \E f \in Files : RemoveItem(f)
  \/ Destroy

Spec == Init /\ [][Next]_vars

-----------------------------------------------------------------------------
(* Properties.                                                             *)

Using(f) == {c \in Clients : mode[c] = "using" /\ want[c] = f}

TypeOK ==
  /\ list \in Lists
  /\ num_items \in Nat
  /\ num_locks \in [Nodes -> Nat]
  /\ file_name \in [Nodes -> Files \cup {NULL}]
  /\ buff \in [Nodes -> Buffers \cup {NULL}]
  /\ watch \in [Nodes -> Watches \cup {NoWatch, NULL}]
  /\ outdated \in [Nodes -> BOOLEAN]
  /\ live \in SUBSET Nodes
  /\ allocated \in SUBSET Buffers
  /\ mode \in [Clients -> {"idle", "reading", "using"}]
  /\ want \in [Clients -> Files \cup {NULL}]
  /\ data \in [Clients -> Buffers \cup {NULL}]
  /\ running \in BOOLEAN

\* Whatever sequence of adds, promotions, evictions and inotify removals ran,
\* the pointers of lru_file_cache form one list of exactly the allocated nodes:
\* no traversal follows a pointer to a deleted node or misses an item.
ListIntact == running => WellFormed(list, live)

\* num_items is the number of items on the list and never exceeds the size the
\* cache was made with, whichever way items came and went.
CountAccurate ==
  running => num_items = Cardinality(live) /\ num_items <= MaxItems

\* A file is cached at most once, so that get_item, unlock_item and remove_item
\* mean the same item when they are given the same name.
UniqueNames ==
  running => \A m, n \in live : file_name[m] = file_name[n] => m = n

\* num_locks of an item is exactly the number of callers that use it: unlocking
\* by name releases the caller's own lock and never another's.
LocksMatchUsers ==
  running => \A n \in live : num_locks[n] = Cardinality(Using(file_name[n]))

\* The buffer get_and_lock_item handed out stays allocated, and stays the item's
\* buffer, until its user unlocks it: no update, eviction, removal or inotify
\* event of another caller frees or replaces it.
UsedBuffersKept ==
  running => \A c \in Clients :
    mode[c] = "using" =>
      /\ data[c] \in allocated
      /\ \E n \in live : file_name[n] = want[c] /\ buff[n] = data[c]

\* Every allocated buffer has exactly one owner, an item or the caller that
\* reads into it: nothing leaks, nothing is freed twice or shared, up to and
\* including the destructor.
OneOwnerEach ==
  LET readers == {c \in Clients : mode[c] = "reading"}
      byItem == {buff[n] : n \in live}
      byReader == {data[c] : c \in readers}
  IN /\ allocated = byItem \cup byReader
     /\ byItem \cap byReader = {}
     /\ \A m, n \in live : buff[m] = buff[n] => m = n
     /\ \A c, d \in readers : data[c] = data[d] => c = d

\* Once an item is outdated no caller gets it any more: a request either finds
\* it gone or reads the file again, even while earlier users still hold it.
OutdatedNeverLent ==
  [][\A n \in live \cap live' : outdated[n] => num_locks'[n] <= num_locks[n]]_vars
=============================================================================
