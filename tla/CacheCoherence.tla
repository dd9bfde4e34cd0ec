--------------------------- MODULE CacheCoherence ---------------------------
(***************************************************************************)
(* How the file cache learns that files have changed: the files, the       *)
(* inotify watches of src/lru.cpp, the queue of events and the reads of it *)
(* (INOTIFY_READ in src/callbacks/read.cpp), around the cache's items and  *)
(* the requests that use and replace them (src/http_send_file.cpp).        *)
(*                                                                         *)
(* The buffer of an item is represented by its content: the inode and the  *)
(* version of it that was read.  The server keeps no record of what it     *)
(* fails to notice; blind is a history variable that does.                 *)
(***************************************************************************)
EXTENDS Integers, CacheItems

CONSTANTS
  Names,       \* the paths of files
  Clients,
  Sizes,       \* how large the cache may be
  Batch,       \* how many events fit into the buffer of a read
  MaxEvents,   \* fs.inotify.max_queued_events
  MaxInodes, MaxChanges, MaxWatches,  \* bounds
  Faults,      \* what may happen: "error", reading events fails, and "unwatchable",
               \* a file cannot be watched
  NULL

ASSUME SizesAssumption ==
  /\ Sizes \subseteq Nat \ {0}
  /\ {Batch, MaxEvents, MaxInodes, MaxChanges, MaxWatches} \subseteq Nat \ {0}
ASSUME NullAssumption == NULL \notin Int

Inode == 1..MaxInodes
Wd == 1..MaxWatches

\* What inotify_add_watch returns when it fails, and the descriptor in the event of
\* an overflow.
NoWatch == -1

VARIABLES
  place,      \* per path: the inode that it leads to
  ninodes,    \* inodes that have been used
  version,    \* per inode: when it was modified last
  changes,    \* how often a file has been modified or replaced
  max_num_items,
  items,      \* the cache's items, most recently requested first
  watch,      \* per path: the watch descriptor in its item, or NoWatch
  active,     \* per watch descriptor: the inode it watches
  nwatches,   \* watch descriptors that have been used
  queue,      \* the events that have not been read
  listening,  \* a read of events is in flight
  mode,       \* per client: "idle", "using" an item or "reading" a file itself
  want,       \* per client: the path it has requested
  got,        \* per client: the content it has read
  blind       \* per path: why changes of its file may go unnoticed

files == <<place, ninodes, version, changes>>
clients == <<mode, want, got>>
vars == <<files, max_num_items, items, watch, active, nwatches, queue, listening, clients, blind>>

-----------------------------------------------------------------------------
(* Files and items.                                                        *)

\* What a read of the file would return.
Disk(n) == <<place[n], version[place[n]]>>

Cached(its) == {its[i].name : i \in DOMAIN its}
ItemOf(n) == items[CHOOSE i \in At(items, n) : TRUE]

\* n's item has a watch, and it is on inode i.
WatchedBy(n, i) == n \in Cached(items) /\ watch[n] # NoWatch /\ active[watch[n]] = i

\* The item has the content of the file, and its watch is on the file.
InTouch(n) == ItemOf(n).buff = Disk(n) /\ WatchedBy(n, place[n])

-----------------------------------------------------------------------------
(* inotify.                                                                *)

Event(wd, mask) == [wd |-> wd, mask |-> mask]

\* IN_Q_OVERFLOW
Overflow == Event(NoWatch, "Q_OVERFLOW")

\* One event of an overflow stands for all that the full queue has no room for.  One
\* that repeats the last one in the queue is not added.
Enqueued(q, e) ==
  IF Len(q) >= MaxEvents
  THEN IF Overflow \in ToSet(q) THEN q ELSE Append(q, Overflow)
  ELSE IF q # <<>> /\ Last(q) = e THEN q ELSE Append(q, e)

WatchesOn(i) == {w \in Wd : active[w] = i}

\* Mutant of WatchedMasks: IN_MODIFY is left out.
OnlyDeletions == {"DELETE_SELF"}

\* MODIFY_EVENT | DELETE_OR_MOVE_EVENT; the latter is IN_DELETE_SELF alone.
WatchedMasks == {"MODIFY", "DELETE_SELF"}

\* The queue q after something happened to inode i, if it is watched and the watch asks
\* for it, or if it is the end of the watch.
Noticed(q, i, mask) ==
  IF WatchesOn(i) # {} /\ mask \in WatchedMasks \cup {"IGNORED"}
  THEN Enqueued(q, Event(CHOOSE w \in WatchesOn(i) : TRUE, mask))
  ELSE q

\* blind after something happened to inode i that the full queue has no room for.
Overflowing(i) ==
  [n \in Names |->
     IF Len(queue) >= MaxEvents /\ WatchedBy(n, i) /\ ~\E e \in ToSet(queue) : e.wd = watch[n]
     THEN blind[n] \cup {"overflow"} ELSE blind[n]]

\* The watch descriptors of the items that a step removes: none, or that of the one.
\* inotify_rm_watch of NoWatch does nothing.
Unwatched == {watch[n] : n \in Cached(items) \ Cached(items')} \ {NoWatch}

\* inotify_rm_watch in remove_node, which has an event of its own.
RmWatch(q) ==
  LET ended == {w \in Unwatched : active[w] # NULL}
  IN IF ended = {} THEN q
     ELSE Enqueued(q, Event(CHOOSE w \in ended : TRUE, "IGNORED"))

\* Mutant of StillActive: inotify_rm_watch is forgotten.
WatchesStay == active

StillActive == [w \in Wd |-> IF w \in Unwatched THEN NULL ELSE active[w]]

\* n's item stays, but the removal of another one ends the watch they share, and the
\* queue has no room for the event that tells so.
LosesWatch(n) ==
  /\ n \in Cached(items) \cap Cached(items')
  /\ watch[n] \in Unwatched /\ active[watch[n]] # NULL
  /\ ~\E e \in ToSet(queue') : e.wd = watch[n]

\* blind after a step that removes items, given what else n suffers.
Blinded(also(_)) ==
  [n \in Names |->
     IF n \notin Cached(items') THEN {}
     ELSE blind[n] \cup also(n) \cup (IF LosesWatch(n) THEN {"overflow"} ELSE {})]

-----------------------------------------------------------------------------
(* Changes of files.                                                       *)

Modify(i) ==
  /\ i <= ninodes /\ changes < MaxChanges
  /\ changes' = changes + 1
  /\ version' = [version EXCEPT ![i] = changes + 1]
  /\ queue' = Noticed(queue, i, "MODIFY")
  /\ blind' = Overflowing(i)
  /\ UNCHANGED <<place, ninodes, items, watch, active, nwatches, listening, clients>>

\* The path leads to a new file from now on.
Replace(n) ==
  /\ ninodes < MaxInodes /\ changes < MaxChanges
  /\ changes' = changes + 1
  /\ ninodes' = ninodes + 1
  /\ place' = [place EXCEPT ![n] = ninodes + 1]
  /\ UNCHANGED version

\* The old file, which had no other name, is deleted, and the watch ends.
Delete(n) ==
  /\ \A m \in Names \ {n} : place[m] # place[n]
  /\ Replace(n)
  /\ queue' = Noticed(Noticed(queue, place[n], "DELETE_SELF"), place[n], "IGNORED")
  /\ active' = [w \in Wd |-> IF active[w] = place[n] THEN NULL ELSE active[w]]
  /\ blind' = Overflowing(place[n])
  /\ UNCHANGED <<items, watch, nwatches, listening, clients>>

\* The old file lives on under another name.
MoveAway(n) ==
  /\ Replace(n)
  /\ queue' = Noticed(queue, place[n], "MOVE_SELF")
  /\ blind' = [blind EXCEPT ![n] = IF n \in Cached(items) THEN @ \cup {"moved"} ELSE @]
  /\ UNCHANGED <<items, watch, active, nwatches, listening, clients>>

-----------------------------------------------------------------------------
(* Requests.                                                               *)

Becomes(c, m, n, content) ==
  /\ mode' = [mode EXCEPT ![c] = m]
  /\ want' = [want EXCEPT ![c] = n]
  /\ got' = [got EXCEPT ![c] = content]

\* get_and_lock_item finds an item, which is sent.
Hit(c, n) ==
  /\ mode[c] = "idle"
  /\ \E i \in At(items, n) : Current(items, i) /\ items' = LockAt(items, i)
  /\ Becomes(c, "using", n, NULL)
  /\ UNCHANGED <<files, watch, active, nwatches, queue, listening, blind>>

\* It does not, or finds an outdated one: the file is read.
Miss(c, n) ==
  /\ mode[c] = "idle"
  /\ \A i \in At(items, n) : ~Current(items, i)
  /\ items' = AfterMiss(items, n)
  /\ active' = StillActive /\ queue' = RmWatch(queue)
  /\ blind' = Blinded(LAMBDA m : {})
  /\ Becomes(c, "reading", n, Disk(n))
  /\ UNCHANGED <<files, watch, nwatches, listening>>

\* http_send_file_writev_finish of a request that used an item.
Return(c) ==
  /\ mode[c] = "using"
  /\ items' = UnlockNamed(items, want[c])
  /\ Becomes(c, "idle", NULL, NULL)
  /\ UNCHANGED <<files, watch, active, nwatches, queue, listening, blind>>

\* inotify_add_watch: a file has one watch.
SetWatch(n) ==
  LET present == {w \in Wd : StillActive[w] = place[n]}
      wd == IF present = {} THEN nwatches + 1 ELSE CHOOSE w \in present : TRUE
  IN /\ wd \in Wd
     /\ watch' = [watch EXCEPT ![n] = wd]
     /\ active' = [StillActive EXCEPT ![wd] = place[n]]
     /\ nwatches' = IF wd > nwatches THEN wd ELSE nwatches

\* It may fail, which is not tested: the item stays without a watch.
AddWatch(n) ==
  \/ SetWatch(n)
  \/ /\ "unwatchable" \in Faults
     /\ watch' = [watch EXCEPT ![n] = NoWatch]
     /\ active' = StillActive
     /\ UNCHANGED nwatches

\* The content that c has read is not, or no longer, that of the file.
Late(c) == IF got[c] # Disk(want[c]) THEN {"late"} ELSE {}

\* add_or_update_item makes a new item, and may evict another one.
Insert(c) ==
  LET n == want[c]
  IN /\ n \notin Cached(items) /\ n \in Cached(items')
     /\ AddWatch(n)
     /\ queue' = RmWatch(queue)
     /\ blind' = Blinded(LAMBDA m :
          IF m # n THEN {}
          ELSE Late(c) \cup (IF watch'[n] = NoWatch THEN {"unwatched"} ELSE {}))

\* It replaces the content of an item and leaves its watch as it is, or does nothing.
UpdateOrNot(c) ==
  LET n == want[c]
  IN /\ n \in Cached(items) \/ n \notin Cached(items')
     /\ blind' =
          IF n \notin Cached(items) \/ ItemOf(n).locks > 1 THEN blind
          ELSE [blind EXCEPT ![n] =
                  IF Late(c) = {} /\ WatchedBy(n, place[n]) THEN {} ELSE @ \cup Late(c)]
     /\ UNCHANGED <<watch, active, nwatches, queue>>

\* http_send_file_writev_finish of a request that read the file.
Offer(c) ==
  /\ mode[c] = "reading"
  /\ items' = Add(UnlockNamed(items, want[c]), want[c], got[c], max_num_items)
  /\ Insert(c) \/ UpdateOrNot(c)
  /\ Becomes(c, "idle", NULL, NULL)
  /\ UNCHANGED <<files, listening>>

-----------------------------------------------------------------------------
(* Reads of events.                                                        *)

\* The items that an event is about; an overflow seems to be about those without a
\* watch.
About(wd) == {i \in DOMAIN items : watch[items[i].name] = wd}

\* process_inotify_event: only the first item in the list with this watch.
Process(wd) ==
  items' = IF About(wd) = {} THEN items ELSE Invalidate(items, Min(About(wd)))

\* Events that are read together with the first one, and overwritten.
Overwritten == SubSeq(queue, 2, Min({Len(queue), Batch}))

\* What an event that did not reach n's item, out of touch already, was about.
Unheard(n) ==
  LET wd == Head(queue).wd
  IN IF n \notin Cached(items) \/ InTouch(n) THEN {}
     ELSE (IF watch[n] = wd /\ items[Min(About(wd))].name # n THEN {"shared"} ELSE {})
          \cup (IF \E e \in ToSet(Overwritten) : e.wd = watch[n] THEN {"overwritten"} ELSE {})

\* The INOTIFY_READ branch of read_callback.
ReadEvents ==
  /\ listening /\ queue # <<>>
  /\ Process(Head(queue).wd)
  /\ queue' = RmWatch(SubSeq(queue, Len(Overwritten) + 2, Len(queue)))
  /\ active' = StillActive
  /\ blind' = Blinded(Unheard)
  /\ UNCHANGED <<files, watch, nwatches, listening, clients>>

\* The read fails, or cannot be submitted again: there is no other one.
ReadFails ==
  /\ listening /\ "error" \in Faults
  /\ listening' = FALSE
  /\ UNCHANGED <<files, items, watch, active, nwatches, queue, clients, blind>>

-----------------------------------------------------------------------------
Init ==
  /\ \E k \in Inode :
       /\ ninodes = k
       /\ place \in [Names -> 1..k] /\ {place[n] : n \in Names} = 1..k
  /\ version = [i \in Inode |-> 0] /\ changes = 0
  /\ max_num_items \in Sizes
  /\ items = <<>>
  /\ watch = [n \in Names |-> NULL]
  /\ active = [w \in Wd |-> NULL]
  /\ nwatches = 0
  /\ queue = <<>>
  /\ listening = TRUE
  /\ mode = [c \in Clients |-> "idle"]
  /\ want = [c \in Clients |-> NULL]
  /\ got = [c \in Clients |-> NULL]
  /\ blind = [n \in Names |-> {}]

FileStep == \/ \E i \in Inode : Modify(i)
            \/ \E n \in Names : Delete(n) \/ MoveAway(n)

ClientStep(c) == \/ \E n \in Names : Hit(c, n) \/ Miss(c, n)
                 \/ Return(c) \/ Offer(c)

Next ==
  /\ FileStep \/ (\E c \in Clients : ClientStep(c)) \/ ReadEvents \/ ReadFails
  /\ UNCHANGED max_num_items

Spec == Init /\ [][Next]_vars

\* A read of events completes when there are some.
FairSpec == Spec /\ WF_vars(ReadEvents /\ UNCHANGED max_num_items)
-----------------------------------------------------------------------------
(* Properties.                                                             *)

Content == Inode \X (0..MaxChanges)

TypeOK ==
  /\ place \in [Names -> 1..ninodes] /\ ninodes \in Inode
  /\ version \in [Inode -> 0..changes] /\ changes \in 0..MaxChanges
  /\ Len(items) <= max_num_items
  /\ \A i \in DOMAIN items :
       items[i].name \in Names /\ items[i].buff \in Content /\ items[i].locks \in Nat
  /\ \A n \in Cached(items) : watch[n] \in 1..nwatches \cup {NoWatch}
  /\ \A w \in Wd : active[w] \in Inode \cup {NULL}
  /\ \A e \in ToSet(queue) : e.wd \in 1..nwatches \cup {NoWatch}
  /\ \A c \in Clients : mode[c] = "reading" => got[c] \in Content

Pending(n) == listening /\ watch[n] # NoWatch /\ \E e \in ToSet(queue) : e.wd = watch[n]

\* An item that can be handed out is up to date and watched, or an event for it is
\* still to be read, or it was lost in one of the ways that blind names: its content
\* was late, its path leads elsewhere, it could not be watched, another item with its
\* watch got the event, the event was read together with another one, or the queue had
\* no room for it.
LostOnlyInKnownWays ==
  \A i \in DOMAIN items :
    LET n == items[i].name
    IN Current(items, i) /\ listening => InTouch(n) \/ Pending(n) \/ blind[n] # {}

\* No watch outlives the items that it is for.
NoWatchLeaks ==
  \A w \in Wd : active[w] # NULL => \E n \in Cached(items) : watch[n] = w

\* There is a current item for n whose content is not that of the file.
Stale(n) == \E i \in At(items, n) : Current(items, i) /\ items[i].buff # Disk(n)

\* A change is noticed some time, by whatever way it was not lost: a stale item is
\* found outdated, removed or replaced, or known to be lost.
ChangesNoticed ==
  \A n \in Names : Stale(n) ~> ~Stale(n) \/ blind[n] # {} \/ ~listening
=============================================================================
