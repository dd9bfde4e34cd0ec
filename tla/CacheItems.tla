----------------------------- MODULE CacheItems -----------------------------
(***************************************************************************)
(* The contents of lru_file_cache as a value: a sequence of items, the     *)
(* most recently requested one first.  FileCache uses the operators to say *)
(* what the class promises (LruCache shows that its pointers keep that     *)
(* promise), HttpSendFile to run the server on top of the class.           *)
(***************************************************************************)
EXTENDS Naturals, SequencesExt

Item(f, b) == [name |-> f, buff |-> b, locks |-> 0, outdated |-> FALSE]

\* Positions of the items of file f: none or one.
At(items, f) == {i \in DOMAIN items : items[i].name = f}

\* Mutant of LockAt: the item is promoted but not locked.
PromoteAt(items, i) == <<items[i]>> \o RemoveAt(items, i)

\* get_and_lock_item hands out the item at i: locked, and moved to the front.
LockAt(items, i) ==
  <<[items[i] EXCEPT !.locks = @ + 1]>> \o RemoveAt(items, i)

\* Whether get_and_lock_item would hand out the item at i.
Current(items, i) == ~items[i].outdated

Unused(items, i) == items[i].locks = 0

\* remove_node refuses an item in use.
RemoveIfUnused(items, i) ==
  IF Unused(items, i) THEN RemoveAt(items, i) ELSE items

\* What get_and_lock_item leaves behind when it returns a null pointer.
AfterMiss(items, f) ==
  IF At(items, f) = {} THEN items
  ELSE RemoveIfUnused(items, CHOOSE i \in At(items, f) : TRUE)

\* Mutant of UnlockNamed: a count of zero is not spared.
UnlockNamedAnyway(items, f) ==
  [i \in DOMAIN items |->
     IF items[i].name = f THEN [items[i] EXCEPT !.locks = @ - 1] ELSE items[i]]

\* unlock_item: by name, and silent when there is nothing to unlock.
UnlockNamed(items, f) ==
  [i \in DOMAIN items |->
     IF items[i].name = f /\ items[i].locks # 0
     THEN [items[i] EXCEPT !.locks = @ - 1] ELSE items[i]]

\* Mutant of Invalidate: an item in use is not marked.
InvalidateUnused(items, i) == RemoveIfUnused(items, i)

\* process_inotify_event for the item at i.
Invalidate(items, i) ==
  IF Unused(items, i) THEN RemoveAt(items, i)
  ELSE [items EXCEPT ![i].outdated = TRUE]

\* Mutant of Add: a full cache grows.
AddAnyway(items, f, b, max) ==
  IF At(items, f) # {}
  THEN LET i == CHOOSE i \in At(items, f) : TRUE
       IN IF Unused(items, i) THEN [items EXCEPT ![i].buff = b] ELSE items
  ELSE <<Item(f, b)>> \o items

\* add_or_update_item(f, b) in a cache for max items: the items it leaves, or
\* the ones it found when it returns false.
Add(items, f, b, max) ==
  IF At(items, f) # {}
  THEN LET i == CHOOSE i \in At(items, f) : TRUE
       IN IF Unused(items, i) THEN [items EXCEPT ![i].buff = b] ELSE items
  ELSE IF Len(items) < max THEN <<Item(f, b)>> \o items
  ELSE IF items # <<>> /\ Unused(items, Len(items))
       THEN <<Item(f, b)>> \o Front(items)
  ELSE items

BuffersOf(items) == {items[i].buff : i \in DOMAIN items}
=============================================================================
