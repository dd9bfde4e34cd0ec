------------------------------ MODULE FileCache -----------------------------
(***************************************************************************)
(* What lru_file_cache promises its callers, without its pointers: a       *)
(* sequence of at most MaxItems items in the order of their last request,  *)
(* from whose end an unused item makes room for a new one, and the         *)
(* ownership of every buffer.  LruCache implements this specification.     *)
(***************************************************************************)
EXTENDS CacheItems

CONSTANTS Files, Buffers, Clients, MaxItems, NULL

VARIABLES
  items,      \* the items, most recently requested first
  allocated,  \* buffers that are allocated
  mode,       \* per caller: "idle", "reading", "using"
  want,       \* per caller: the file it is busy with
  data,       \* per caller: the buffer it reads into or uses
  running     \* FALSE once the cache is destroyed

vars == <<items, allocated, mode, want, data, running>>

Becomes(c, m, f, b) ==
  /\ mode' = [mode EXCEPT ![c] = m]
  /\ want' = [want EXCEPT ![c] = f]
  /\ data' = [data EXCEPT ![c] = b]

\* Buffers that only the cache owned are freed with their item.
Released == BuffersOf(items) \ BuffersOf(items')

\* A request for a cached, current file uses the item's buffer.
Hit(c, f) ==
  /\ mode[c] = "idle"
  /\ \E i \in At(items, f) :
       /\ Current(items, i)
       /\ items' = LockAt(items, i)
       /\ Becomes(c, "using", f, items[i].buff)
  /\ UNCHANGED allocated

\* Any other request reads the file; an outdated item goes if it can.
Miss(c, f) ==
  /\ mode[c] = "idle"
  /\ \A i \in At(items, f) : ~Current(items, i)
  /\ items' = AfterMiss(items, f)
  /\ \E b \in Buffers \ (allocated \ Released) :
       /\ allocated' = (allocated \ Released) \cup {b}
       /\ Becomes(c, "reading", f, b)

\* A user is done with the item.
Return(c) ==
  /\ mode[c] = "using"
  /\ items' = UnlockNamed(items, want[c])
  /\ Becomes(c, "idle", NULL, NULL)
  /\ UNCHANGED allocated

\* A reader offers its buffer; if the cache does not take it, it is freed.
Offer(c) ==
  /\ mode[c] = "reading"
  /\ items' = Add(items, want[c], data[c], MaxItems)
  /\ allocated' = (allocated \ Released)
                    \ (IF data[c] \in BuffersOf(items') THEN {} ELSE {data[c]})
  /\ Becomes(c, "idle", NULL, NULL)

\* The file of some item changed on disk.
Change ==
  /\ \E i \in DOMAIN items : items' = Invalidate(items, i)
  /\ allocated' = allocated \ Released
  /\ UNCHANGED <<mode, want, data>>

\* An item is removed on demand.
Drop(f) ==
  /\ \E i \in At(items, f) : items' = RemoveIfUnused(items, i)
  /\ allocated' = allocated \ Released
  /\ UNCHANGED <<mode, want, data>>

Close ==
  /\ running' = FALSE
  /\ items' = <<>>
  /\ allocated' = allocated \ Released
  /\ UNCHANGED <<mode, want, data>>

Init ==
  /\ items = <<>>
  /\ allocated = {}
  /\ mode = [c \in Clients |-> "idle"]
  /\ want = [c \in Clients |-> NULL]
  /\ data = [c \in Clients |-> NULL]
  /\ running = TRUE

Operate ==
  \/ \E c \in Clients, f \in Files : Hit(c, f) \/ Miss(c, f)
  \/ \E c \in Clients : Return(c) \/ Offer(c)
  \/ Change
  \/ \E f \in Files : Drop(f)

Next ==
  /\ running
  /\ \/ /\ Operate
        /\ UNCHANGED running
     \/ Close

Spec == Init /\ [][Next]_vars
=============================================================================
