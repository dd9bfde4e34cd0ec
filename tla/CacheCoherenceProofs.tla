------------------------ MODULE CacheCoherenceProofs ------------------------
(***************************************************************************)
(* Proofs about how the file cache learns of changes, for any number of    *)
(* files, clients, watches and events and any size of the cache and of the *)
(* buffer for events.  The invariant IInv joins the two properties, that   *)
(* no watch leaks and that a change is lost in known ways only, with the   *)
(* types and with two facts about watches and items: every watched file    *)
(* has one watch, and every path one item.                                 *)
(***************************************************************************)
EXTENDS CacheCoherence, DataLemmas

-----------------------------------------------------------------------------
(* The cache.  Items that stay keep their name and content.                *)

Entry == [name : Names, buff : Content, locks : Nat, outdated : BOOLEAN]

Sound(s) ==
  /\ s \in Seq(Entry)
  /\ \A i, j \in DOMAIN s : s[i].name = s[j].name => i = j

\* t is s without some of its items, with others locked, unlocked, moved or outdated.
Kept(s, t) ==
  /\ Sound(t) /\ Len(t) <= Len(s)
  /\ \A k \in DOMAIN t : \E i \in DOMAIN s :
       s[i].name = t[k].name /\ s[i].buff = t[k].buff /\ (s[i].outdated => t[k].outdated)

LEMMA ItemFacts ==
  ASSUME NEW s \in Seq(Entry)
  PROVE  /\ Len(s) \in Nat /\ DOMAIN s = 1..Len(s)
         /\ \A i \in DOMAIN s : s[i] \in Entry
BY SequenceFacts

LEMMA ItemFields ==
  ASSUME NEW s \in Seq(Entry), NEW i \in DOMAIN s
  PROVE  /\ s[i].name \in Names /\ s[i].buff \in Content
         /\ s[i].locks \in Nat /\ s[i].outdated \in BOOLEAN
BY ItemFacts DEF Entry

\* The item of a path is found by its name.
LEMMA ItemByName ==
  ASSUME NEW s, Sound(s), NEW i \in DOMAIN s
  PROVE  At(s, s[i].name) = {i} /\ (CHOOSE k \in At(s, s[i].name) : TRUE) = i
<1>1. At(s, s[i].name) = {i}
  BY DEF At, Sound
<1> QED BY <1>1

LEMMA CachedAt ==
  ASSUME NEW s, NEW f
  PROVE  At(s, f) = {} <=> f \notin Cached(s)
BY DEF At, Cached

LEMMA KeptCached ==
  ASSUME NEW s, NEW t, Kept(s, t)
  PROVE  Cached(t) \subseteq Cached(s)
BY DEF Kept, Cached

\* The items of t are among those of s, at other positions perhaps.
LEMMA KeptByPositions ==
  ASSUME NEW s, Sound(s), NEW t \in Seq(Entry), Len(t) <= Len(s),
         NEW m \in [DOMAIN t -> DOMAIN s],
         \A k, l \in DOMAIN t : m[k] = m[l] => k = l,
         \A k \in DOMAIN t : /\ t[k].name = s[m[k]].name
                             /\ t[k].buff = s[m[k]].buff
                             /\ s[m[k]].outdated => t[k].outdated
  PROVE  Kept(s, t)
<1>1. \A k, l \in DOMAIN t : t[k].name = t[l].name => k = l
  BY DEF Sound
<1>2. \A k \in DOMAIN t : m[k] \in DOMAIN s
  OBVIOUS
<1> QED BY <1>1, <1>2 DEF Kept, Sound

LEMMA Unchanged ==
  ASSUME NEW s, Sound(s)
  PROVE  Kept(s, s)
<1>1. Len(s) <= Len(s)
  BY ItemFacts DEF Sound
<1> QED BY <1>1 DEF Kept

LEMMA KeptTwice ==
  ASSUME NEW r, NEW s, NEW t, r \in Seq(Entry), Kept(r, s), Kept(s, t)
  PROVE  Kept(r, t)
<1>1. Len(t) <= Len(r)
  <2>1. Len(r) \in Nat /\ Len(s) \in Nat /\ Len(t) \in Nat
    BY ItemFacts DEF Kept, Sound
  <2> QED BY <2>1 DEF Kept
<1>2. ASSUME NEW k \in DOMAIN t
      PROVE  \E i \in DOMAIN r : /\ r[i].name = t[k].name /\ r[i].buff = t[k].buff
                                 /\ r[i].outdated => t[k].outdated
  <2>1. PICK j \in DOMAIN s : /\ s[j].name = t[k].name /\ s[j].buff = t[k].buff
                              /\ s[j].outdated => t[k].outdated
    BY DEF Kept
  <2>2. PICK i \in DOMAIN r : /\ r[i].name = s[j].name /\ r[i].buff = s[j].buff
                              /\ r[i].outdated => s[j].outdated
    BY DEF Kept
  <2> QED BY <2>1, <2>2
<1> QED BY <1>1, <1>2 DEF Kept

LEMMA RemoveAtKeeps ==
  ASSUME NEW s, Sound(s), NEW i \in DOMAIN s
  PROVE  Kept(s, RemoveAt(s, i)) /\ s[i].name \notin Cached(RemoveAt(s, i))
<1> DEFINE t == RemoveAt(s, i)
           m == [k \in DOMAIN t |-> IF k < i THEN k ELSE k + 1]
<1>1. s \in Seq(Entry) /\ Len(s) \in Nat /\ DOMAIN s = 1..Len(s) /\ i \in 1..Len(s)
  BY ItemFacts DEF Sound
<1>2. /\ t \in Seq(Entry) /\ Len(t) = Len(s) - 1 /\ DOMAIN t = 1..(Len(s) - 1)
      /\ \A k \in DOMAIN t : t[k] = IF k < i THEN s[k] ELSE s[k + 1]
  BY <1>1, RemoveAtIndices, ItemFacts
<1> HIDE DEF t
<1>3. m \in [DOMAIN t -> DOMAIN s] /\ \A k, l \in DOMAIN t : m[k] = m[l] => k = l
  BY <1>1, <1>2
<1>4. \A k \in DOMAIN t : t[k] = s[m[k]] /\ m[k] # i
  BY <1>1, <1>2
<1> HIDE DEF m
<1>5. Kept(s, t)
  <2>1. Len(t) <= Len(s)
    BY <1>1, <1>2
  <2> QED BY <1>2, <1>3, <1>4, <2>1, KeptByPositions, ZenonT(60)
<1>6. s[i].name \notin Cached(t)
  BY <1>3, <1>4 DEF Cached, Sound
<1> QED BY <1>5, <1>6 DEF t

LEMMA AfterMissKeeps ==
  ASSUME NEW s, Sound(s), NEW f
  PROVE  Kept(s, AfterMiss(s, f))
<1>1. At(s, f) # {} => (CHOOSE i \in At(s, f) : TRUE) \in DOMAIN s
  BY DEF At
<1> QED BY <1>1, RemoveAtKeeps, Unchanged DEF AfterMiss, RemoveIfUnused

\* An item that is invalidated is not handed out again.
LEMMA InvalidateKeeps ==
  ASSUME NEW s, Sound(s), NEW i \in DOMAIN s
  PROVE  /\ Kept(s, Invalidate(s, i))
         /\ \A k \in DOMAIN Invalidate(s, i) :
              Invalidate(s, i)[k].name = s[i].name => Invalidate(s, i)[k].outdated
<1>1. CASE Unused(s, i)
  <2>1. Invalidate(s, i) = RemoveAt(s, i)
    BY <1>1 DEF Invalidate
  <2> QED BY <2>1, RemoveAtKeeps DEF Cached
<1>2. CASE ~Unused(s, i)
  <2> DEFINE e == [s[i] EXCEPT !.outdated = TRUE]
             t == [s EXCEPT ![i] = e]
             m == [k \in DOMAIN t |-> k]
  <2>1. Invalidate(s, i) = t
    BY <1>2 DEF Invalidate
  <2>2. s \in Seq(Entry) /\ i \in 1..Len(s) /\ s[i] \in Entry /\ DOMAIN s = 1..Len(s)
    BY ItemFacts DEF Sound
  <2>3. e \in Entry /\ e.name = s[i].name /\ e.buff = s[i].buff /\ e.outdated
    BY <2>2 DEF Entry
  <2> HIDE DEF e
  <2>4. /\ t \in Seq(Entry) /\ Len(t) = Len(s) /\ DOMAIN t = DOMAIN s
        /\ \A k \in DOMAIN s : t[k] = IF k = i THEN e ELSE s[k]
    BY <2>2, <2>3, ExceptSeq
  <2> HIDE DEF t
  <2>5. m \in [DOMAIN t -> DOMAIN s] /\ \A k, l \in DOMAIN t : m[k] = m[l] => k = l
    BY <2>4
  <2>6. \A k \in DOMAIN t : /\ t[k].name = s[m[k]].name
                            /\ t[k].buff = s[m[k]].buff
                            /\ s[m[k]].outdated => t[k].outdated
    BY <2>3, <2>4
  <2>7. \A k \in DOMAIN t : t[k].name = s[i].name => t[k].outdated
    BY <2>3, <2>4 DEF Sound
  <2> HIDE DEF m
  <2>8. Len(t) <= Len(s)
    BY <2>2, <2>4, ItemFacts
  <2>9. Kept(s, t)
    BY <2>4, <2>5, <2>6, <2>8, KeptByPositions
  <2> QED BY <2>1, <2>7, <2>9
<1> QED BY <1>1, <1>2

LEMMA LockAtKeeps ==
  ASSUME NEW s, Sound(s), NEW i \in DOMAIN s
  PROVE  Kept(s, LockAt(s, i)) /\ Cached(LockAt(s, i)) = Cached(s)
<1> DEFINE e == [s[i] EXCEPT !.locks = @ + 1]
           r == RemoveAt(s, i)
           t == <<e>> \o r
           m == [k \in DOMAIN t |-> IF k = 1 THEN i ELSE IF k - 1 < i THEN k - 1 ELSE k]
<1>1. /\ s \in Seq(Entry) /\ Len(s) \in Nat /\ DOMAIN s = 1..Len(s) /\ i \in 1..Len(s)
      /\ s[i] \in Entry
  BY ItemFacts DEF Sound
<1>2. e \in Entry /\ e.name = s[i].name /\ e.buff = s[i].buff /\ e.outdated = s[i].outdated
  BY <1>1 DEF Entry
<1> HIDE DEF e
<1>3. /\ r \in Seq(Entry) /\ Len(r) = Len(s) - 1
      /\ \A k \in 1..(Len(s) - 1) : r[k] = IF k < i THEN s[k] ELSE s[k + 1]
  BY <1>1, RemoveAtIndices
<1> HIDE DEF r
<1>4. /\ t \in Seq(Entry) /\ Len(t) = Len(s) /\ DOMAIN t = 1..Len(s)
      /\ \A k \in DOMAIN t : t[k] = IF k = 1 THEN e ELSE r[k - 1]
  <2>1. /\ t \in Seq(Entry) /\ Len(t) = Len(s)
        /\ \A k \in 1..Len(s) : t[k] = IF k = 1 THEN e ELSE r[k - 1]
    <3>1. Len(r) + 1 = Len(s)
      BY <1>1, <1>3
    <3>2. /\ t \in Seq(Entry) /\ Len(t) = Len(r) + 1
          /\ \A k \in 1..(Len(r) + 1) : t[k] = IF k = 1 THEN e ELSE r[k - 1]
      BY <1>2, <1>3, InFrontIndices
    <3> QED BY <3>1, <3>2
  <2> HIDE DEF t
  <2> QED BY <2>1, ItemFacts
<1>5. LockAt(s, i) = t
  BY DEF LockAt, e, r
<1> HIDE DEF t
<1>6. /\ m \in [DOMAIN t -> DOMAIN s]
      /\ \A k, l \in DOMAIN t : m[k] = m[l] => k = l
  BY <1>1, <1>4
<1>7. \A j \in DOMAIN s : \E k \in DOMAIN t : m[k] = j
  <2> SUFFICES ASSUME NEW j \in DOMAIN s PROVE \E k \in DOMAIN t : m[k] = j
    OBVIOUS
  <2>1. CASE j = i
    <3>1. 1 \in DOMAIN t /\ m[1] = j
      BY <1>1, <1>4, <2>1
    <3> QED BY <3>1
  <2>2. CASE j < i
    <3>1. j + 1 \in DOMAIN t /\ m[j + 1] = j
      BY <1>1, <1>4, <2>2
    <3> QED BY <3>1
  <2>3. CASE j > i
    <3>1. j \in DOMAIN t /\ m[j] = j
      BY <1>1, <1>4, <2>3
    <3> QED BY <3>1
  <2> QED BY <1>1, <2>1, <2>2, <2>3
<1>8. \A k \in DOMAIN t : t[k] = IF m[k] = i THEN e ELSE s[m[k]]
  <2> SUFFICES ASSUME NEW k \in DOMAIN t PROVE t[k] = IF m[k] = i THEN e ELSE s[m[k]]
    OBVIOUS
  <2>1. CASE k = 1
    BY <1>4, <2>1
  <2>2. CASE k # 1
    <3>1. k - 1 \in 1..(Len(s) - 1)
      BY <1>1, <1>4, <2>2
    <3>2. t[k] = IF k - 1 < i THEN s[k - 1] ELSE s[(k - 1) + 1]
      BY <1>3, <1>4, <2>2, <3>1
    <3>3. m[k] = (IF k - 1 < i THEN k - 1 ELSE k) /\ m[k] # i /\ (k - 1) + 1 = k
      BY <1>1, <1>4, <2>2
    <3> QED BY <3>2, <3>3
  <2> QED BY <2>1, <2>2
<1> HIDE DEF m
<1>9. \A k \in DOMAIN t : /\ t[k].name = s[m[k]].name
                          /\ t[k].buff = s[m[k]].buff
                          /\ t[k].outdated = s[m[k]].outdated
  BY <1>2, <1>8
<1>10. Kept(s, t)
  <2>1. Len(t) <= Len(s)
    BY <1>1, <1>4
  <2>2. \A k \in DOMAIN t : /\ t[k].name = s[m[k]].name
                            /\ t[k].buff = s[m[k]].buff
                            /\ s[m[k]].outdated => t[k].outdated
    BY <1>9
  <2> QED BY <1>4, <1>6, <2>1, <2>2, KeptByPositions
<1>11. Cached(t) = Cached(s)
  BY <1>6, <1>7, <1>9 DEF Cached
<1> QED BY <1>5, <1>10, <1>11

\* Unlocking changes the count of the item with this name only.
LEMMA UnlockNamedKeeps ==
  ASSUME NEW s, Sound(s), NEW f
  PROVE  /\ Kept(s, UnlockNamed(s, f)) /\ Cached(UnlockNamed(s, f)) = Cached(s)
         /\ DOMAIN UnlockNamed(s, f) = DOMAIN s /\ Len(UnlockNamed(s, f)) = Len(s)
         /\ \A k \in DOMAIN s :
              /\ UnlockNamed(s, f)[k].name = s[k].name
              /\ UnlockNamed(s, f)[k].buff = s[k].buff
              /\ UnlockNamed(s, f)[k].outdated = s[k].outdated
              /\ s[k].name = f =>
                   (UnlockNamed(s, f)[k].locks = 0 <=> ~(s[k].locks > 1))
<1> DEFINE t == UnlockNamed(s, f)
           m == [k \in DOMAIN t |-> k]
<1>1. /\ s \in Seq(Entry) /\ Len(s) \in Nat /\ DOMAIN s = 1..Len(s)
      /\ \A k \in DOMAIN s : s[k] \in Entry
  BY ItemFacts DEF Sound
<1>2. DOMAIN t = DOMAIN s
  BY DEF UnlockNamed
<1>3. ASSUME NEW k \in DOMAIN s
      PROVE  /\ t[k] \in Entry
             /\ t[k].name = s[k].name /\ t[k].buff = s[k].buff
             /\ t[k].outdated = s[k].outdated
             /\ s[k].name = f => (t[k].locks = 0 <=> ~(s[k].locks > 1))
  <2>1. s[k] \in Entry
    BY <1>1
  <2>2. CASE s[k].name = f /\ s[k].locks # 0
    <3>1. t[k] = [s[k] EXCEPT !.locks = @ - 1]
      BY <2>2 DEF UnlockNamed
    <3>2. s[k].locks - 1 \in Nat /\ (s[k].locks - 1 = 0 <=> ~(s[k].locks > 1))
      BY <2>1, <2>2 DEF Entry
    <3> QED BY <2>1, <2>2, <3>1, <3>2 DEF Entry
  <2>3. CASE ~(s[k].name = f /\ s[k].locks # 0)
    <3>1. t[k] = s[k]
      BY <2>3 DEF UnlockNamed
    <3> QED BY <2>1, <2>3, <3>1
  <2> QED BY <2>2, <2>3
<1>4. t \in Seq(Entry)
  <2>1. t = [k \in 1..Len(s) |-> t[k]]
    BY <1>1 DEF UnlockNamed
  <2>2. [k \in 1..Len(s) |-> t[k]] \in Seq(Entry)
    BY <1>1, <1>3, IsASeq
  <2> QED BY <2>1, <2>2
<1> HIDE DEF t
<1>5. Len(t) = Len(s)
  <2>1. Len(t) \in Nat /\ DOMAIN t = 1..Len(t)
    BY <1>4, ItemFacts
  <2> QED BY <1>1, <1>2, <2>1
<1>6. /\ m \in [DOMAIN t -> DOMAIN s]
      /\ \A k, l \in DOMAIN t : m[k] = m[l] => k = l
      /\ \A k \in DOMAIN t : m[k] = k
  BY <1>2
<1> HIDE DEF m
<1>7. Kept(s, t)
  <2>1. Len(t) <= Len(s)
    BY <1>1, <1>5
  <2>2. \A k \in DOMAIN t : /\ t[k].name = s[m[k]].name
                            /\ t[k].buff = s[m[k]].buff
                            /\ s[m[k]].outdated => t[k].outdated
    BY <1>2, <1>3, <1>6
  <2> QED BY <1>4, <1>6, <2>1, <2>2, KeptByPositions
<1>8. Cached(t) = Cached(s)
  BY <1>2, <1>3 DEF Cached
<1> QED BY <1>2, <1>3, <1>5, <1>7, <1>8 DEF t

\* t has a new item for f with content b, in front of items of s.
Gained(s, t, f, b) ==
  /\ Sound(t)
  /\ \A k \in DOMAIN t :
       \/ t[k].name = f /\ t[k].buff = b
       \/ \E i \in DOMAIN s :
            s[i].name = t[k].name /\ s[i].buff = t[k].buff /\ (s[i].outdated => t[k].outdated)

LEMMA InFrontGains ==
  ASSUME NEW s, NEW r, Kept(s, r),
         NEW f \in Names, f \notin Cached(s), NEW b \in Content
  PROVE  /\ Gained(s, <<Item(f, b)>> \o r, f, b)
         /\ Len(<<Item(f, b)>> \o r) = Len(r) + 1
         /\ f \in Cached(<<Item(f, b)>> \o r)
<1> DEFINE e == Item(f, b)
           t == <<e>> \o r
<1>1. e \in Entry /\ e.name = f /\ e.buff = b
  BY DEF Item, Entry
<1> HIDE DEF e
<1>2. r \in Seq(Entry) /\ Len(r) \in Nat /\ DOMAIN r = 1..Len(r)
  BY ItemFacts DEF Kept, Sound
<1>3. /\ t \in Seq(Entry) /\ Len(t) = Len(r) + 1
      /\ \A k \in 1..(Len(r) + 1) : t[k] = IF k = 1 THEN e ELSE r[k - 1]
  BY <1>1, <1>2, InFrontIndices
<1> HIDE DEF t
<1>4. DOMAIN t = 1..(Len(r) + 1)
  BY <1>3, ItemFacts
<1>5. \A k \in DOMAIN t : k # 1 => k - 1 \in DOMAIN r /\ t[k] = r[k - 1]
  BY <1>2, <1>3, <1>4
<1>6. 1 \in DOMAIN t /\ t[1] = e
  BY <1>2, <1>3, <1>4
<1>7. \A k \in DOMAIN r : r[k].name # f
  BY DEF Kept, Cached
<1>8. ASSUME NEW k \in DOMAIN t, NEW l \in DOMAIN t, t[k].name = t[l].name PROVE k = l
  <2>1. CASE k = 1 \/ l = 1
    BY <1>1, <1>5, <1>6, <1>7, <1>8, <2>1
  <2>2. CASE k # 1 /\ l # 1
    <3>1. k - 1 = l - 1
      BY <1>5, <1>8, <2>2 DEF Kept, Sound
    <3> QED BY <1>2, <1>4, <3>1
  <2> QED BY <2>1, <2>2
<1>9. Sound(t)
  BY <1>3, <1>8 DEF Sound
<1>10. ASSUME NEW k \in DOMAIN t
       PROVE  \/ t[k].name = f /\ t[k].buff = b
              \/ \E i \in DOMAIN s : /\ s[i].name = t[k].name /\ s[i].buff = t[k].buff
                                     /\ s[i].outdated => t[k].outdated
  <2>1. CASE k = 1
    BY <1>1, <1>6, <2>1
  <2>2. CASE k # 1
    BY <1>5, <2>2 DEF Kept
  <2> QED BY <2>1, <2>2
<1>11. f \in Cached(t)
  BY <1>1, <1>6 DEF Cached
<1> QED BY <1>3, <1>9, <1>10, <1>11 DEF Gained, t, e

LEMMA FrontKeeps ==
  ASSUME NEW s, Sound(s), s # <<>>
  PROVE  Kept(s, Front(s)) /\ Len(Front(s)) + 1 = Len(s)
<1> DEFINE n == Len(s) - 1
           t == SubSeq(s, 1, n)
           m == [k \in DOMAIN t |-> k]
<1>1. s \in Seq(Entry) /\ Len(s) \in Nat /\ DOMAIN s = 1..Len(s) /\ Len(s) # 0
  BY ItemFacts, EmptySeq DEF Sound
<1>2. n \in Nat /\ n + 1 = Len(s) /\ \A k \in 1..n : k \in 1..Len(s)
  BY <1>1
<1> HIDE DEF n
<1>3. /\ t \in Seq(Entry) /\ Len(t) = n
      /\ \A k \in 1..n : t[k] = s[k]
  <2>1. 1 \in Int /\ n \in Int /\ \A k \in 1..n : s[k] \in Entry
    BY <1>1, <1>2, ItemFacts
  <2>2. /\ t \in Seq(Entry) /\ Len(t) = IF 1 <= n THEN n - 1 + 1 ELSE 0
        /\ \A k \in 1..(n - 1 + 1) : t[k] = s[1 + k - 1]
    BY <2>1, SubSeqProperties
  <2> QED BY <1>2, <2>2
<1>4. DOMAIN t = 1..n
  BY <1>3, ItemFacts
<1>5. Front(s) = t
  BY DEF Front, n
<1> HIDE DEF t
<1>6. /\ m \in [DOMAIN t -> DOMAIN s]
      /\ \A k, l \in DOMAIN t : m[k] = m[l] => k = l
      /\ \A k \in DOMAIN t : t[k] = s[m[k]]
  BY <1>1, <1>2, <1>3, <1>4
<1> HIDE DEF m
<1>7. Len(t) <= Len(s)
  BY <1>2, <1>3
<1>8. Kept(s, t)
  <2>1. \A k \in DOMAIN t : /\ t[k].name = s[m[k]].name
                            /\ t[k].buff = s[m[k]].buff
                            /\ s[m[k]].outdated => t[k].outdated
    BY <1>6
  <2> QED BY <1>3, <1>6, <1>7, <2>1, KeptByPositions
<1> QED BY <1>2, <1>3, <1>5, <1>8

\* add_or_update_item of a path that is not cached makes an item, or does nothing.
LEMMA AddInserts ==
  ASSUME NEW s, Sound(s), NEW f \in Names, f \notin Cached(s), NEW b \in Content,
         NEW max \in Nat, Len(s) <= max
  PROVE  \/ Add(s, f, b, max) = s
         \/ /\ Gained(s, Add(s, f, b, max), f, b)
            /\ f \in Cached(Add(s, f, b, max))
            /\ Len(Add(s, f, b, max)) <= max
<1>1. At(s, f) = {}
  BY CachedAt
<1>2. Len(s) \in Nat
  BY ItemFacts DEF Sound
<1>3. CASE Len(s) < max
  <2>1. Add(s, f, b, max) = <<Item(f, b)>> \o s
    BY <1>1, <1>3 DEF Add
  <2> QED BY <1>2, <1>3, <2>1, Unchanged, InFrontGains
<1>4. CASE ~(Len(s) < max) /\ s # <<>> /\ Unused(s, Len(s))
  <2>1. Add(s, f, b, max) = <<Item(f, b)>> \o Front(s)
    BY <1>1, <1>4 DEF Add
  <2>2. Kept(s, Front(s)) /\ Len(Front(s)) + 1 = Len(s)
    BY <1>4, FrontKeeps
  <2> QED BY <2>1, <2>2, InFrontGains
<1>5. CASE ~(Len(s) < max) /\ ~(s # <<>> /\ Unused(s, Len(s)))
  BY <1>1, <1>5 DEF Add
<1> QED BY <1>3, <1>4, <1>5

\* For a path that is cached it replaces the content of the item if no lock is left.
LEMMA AddUpdates ==
  ASSUME NEW s, Sound(s), NEW j \in DOMAIN s, NEW f \in Names, s[j].name = f, NEW b \in Content,
         NEW max \in Nat
  PROVE  /\ s[j].locks # 0 => Add(s, f, b, max) = s
         /\ s[j].locks = 0 =>
              /\ Sound(Add(s, f, b, max))
              /\ DOMAIN Add(s, f, b, max) = DOMAIN s /\ Len(Add(s, f, b, max)) = Len(s)
              /\ \A k \in DOMAIN s :
                   /\ Add(s, f, b, max)[k].name = s[k].name
                   /\ Add(s, f, b, max)[k].buff = IF k = j THEN b ELSE s[k].buff
                   /\ Add(s, f, b, max)[k].outdated = s[k].outdated
<1>1. At(s, f) # {} /\ (CHOOSE i \in At(s, f) : TRUE) = j
  BY ItemByName
<1>2. CASE s[j].locks # 0
  BY <1>1, <1>2 DEF Add, Unused
<1>3. CASE s[j].locks = 0
  <2> DEFINE e == [s[j] EXCEPT !.buff = b]
             t == [s EXCEPT ![j] = e]
  <2>1. Add(s, f, b, max) = t
    BY <1>1, <1>3 DEF Add, Unused
  <2>2. s \in Seq(Entry) /\ j \in 1..Len(s) /\ s[j] \in Entry /\ DOMAIN s = 1..Len(s)
    BY ItemFacts DEF Sound
  <2>3. e \in Entry /\ e.name = s[j].name /\ e.buff = b /\ e.outdated = s[j].outdated
    BY <2>2 DEF Entry
  <2> HIDE DEF e
  <2>4. /\ t \in Seq(Entry) /\ Len(t) = Len(s) /\ DOMAIN t = DOMAIN s
        /\ \A k \in DOMAIN s : t[k] = IF k = j THEN e ELSE s[k]
    BY <2>2, <2>3, ExceptSeq
  <2> HIDE DEF t
  <2>5. \A k \in DOMAIN s : /\ t[k].name = s[k].name
                            /\ t[k].buff = IF k = j THEN b ELSE s[k].buff
                            /\ t[k].outdated = s[k].outdated
    BY <2>3, <2>4
  <2>6. Sound(t)
    BY <2>4, <2>5 DEF Sound
  <2> QED BY <1>3, <2>1, <2>4, <2>5, <2>6
<1> QED BY <1>2, <1>3

-----------------------------------------------------------------------------
(* The invariant.                                                          *)

Masks == {"MODIFY", "DELETE_SELF", "MOVE_SELF", "IGNORED", "Q_OVERFLOW"}
EventSet == [wd : Wd \cup {NoWatch}, mask : Masks]
Reasons == {"late", "moved", "unwatched", "shared", "overwritten", "overflow"}

\* The watch descriptors that inotify has given out, and the one that is none.
Wds == 1..nwatches \cup {NoWatch}

FilesTyped ==
  /\ place \in [Names -> 1..ninodes] /\ ninodes \in Inode
  /\ version \in [Inode -> 0..changes] /\ changes \in 0..MaxChanges

ItemsTyped == Sound(items) /\ max_num_items \in Nat /\ Len(items) <= max_num_items

WatchesTyped ==
  /\ watch \in [Names -> Wd \cup {NULL, NoWatch}]
  /\ active \in [Wd -> Inode \cup {NULL}] /\ nwatches \in 0..MaxWatches
  /\ \A n \in Cached(items) : watch[n] \in Wds

QueueTyped ==
  /\ queue \in Seq(EventSet) /\ \A e \in ToSet(queue) : e.wd \in Wds
  /\ listening \in BOOLEAN /\ blind \in [Names -> SUBSET Reasons]

ClientsTyped ==
  /\ mode \in [Clients -> {"idle", "using", "reading"}]
  /\ want \in [Clients -> Names \cup {NULL}] /\ got \in [Clients -> Content \cup {NULL}]
  /\ \A c \in Clients : mode[c] = "reading" => want[c] \in Names /\ got[c] \in Content

Typed == FilesTyped /\ ItemsTyped /\ WatchesTyped /\ QueueTyped /\ ClientsTyped

OneWatch == \A v, w \in Wd : active[v] = active[w] /\ active[v] # NULL => v = w

\* There is an event for n's watch, and it is on n's file.
Heard(n) == watch[n] # NoWatch /\ \E e \in ToSet(queue) : e.wd = watch[n]
OnFile(n) == watch[n] # NoWatch /\ active[watch[n]] = place[n]

\* LostOnlyInKnownWays for one item, which need not be looked up.
Covered(it) ==
  ~it.outdated /\ listening =>
    \/ it.buff = Disk(it.name) /\ OnFile(it.name)
    \/ Heard(it.name)
    \/ blind[it.name] # {}

AllCovered == \A i \in DOMAIN items : Covered(items[i])

IInv == Typed /\ OneWatch /\ NoWatchLeaks /\ AllCovered

LEMMA InTouchByItem ==
  ASSUME Sound(items), NEW i \in DOMAIN items
  PROVE  InTouch(items[i].name) <=>
           items[i].buff = Disk(items[i].name) /\ OnFile(items[i].name)
BY ItemByName DEF InTouch, ItemOf, WatchedBy, OnFile, Cached

LEMMA TypesSuffice ==
  IInv => TypeOK
<1> SUFFICES ASSUME IInv PROVE TypeOK
  OBVIOUS
<1>1. \A i \in DOMAIN items :
        items[i].name \in Names /\ items[i].buff \in Content /\ items[i].locks \in Nat
  BY ItemFields DEF IInv, Typed, ItemsTyped, Sound
<1>2. \A w \in Wd : active[w] \in Inode \cup {NULL}
  BY DEF IInv, Typed, WatchesTyped
<1> QED BY <1>1, <1>2
        DEF IInv, Typed, TypeOK, FilesTyped, ItemsTyped, WatchesTyped, QueueTyped, ClientsTyped,
            Wds

LEMMA CoveredSuffices ==
  IInv => LostOnlyInKnownWays
<1> SUFFICES ASSUME IInv, NEW i \in DOMAIN items, Current(items, i), listening
             PROVE  LET n == items[i].name IN InTouch(n) \/ Pending(n) \/ blind[n] # {}
  BY DEF LostOnlyInKnownWays
<1>1. Covered(items[i]) /\ Sound(items)
  BY DEF IInv, AllCovered, Typed, ItemsTyped
<1> QED BY <1>1, InTouchByItem DEF Covered, Current, Pending, Heard

\* The types that are about files and watches.
LEMMA Bounds ==
  ASSUME IInv
  PROVE  /\ MaxInodes \in Nat /\ MaxChanges \in Nat /\ MaxWatches \in Nat
         /\ Batch \in Nat \ {0}
         /\ ninodes \in Inode /\ changes \in 0..MaxChanges /\ nwatches \in 0..MaxWatches
         /\ \A n \in Names : place[n] \in 1..ninodes /\ place[n] \in Inode
         /\ \A i \in Inode : version[i] \in 0..changes /\ i # NULL
BY SizesAssumption, NullAssumption DEF IInv, Typed, FilesTyped, WatchesTyped, Inode

LEMMA DiskIsContent ==
  ASSUME IInv, NEW n \in Names
  PROVE  Disk(n) \in Content
BY Bounds DEF Disk, Content

LEMMA ItemsAreWatched ==
  ASSUME IInv, NEW n \in Cached(items)
  PROVE  /\ n \in Names /\ watch[n] \in Wds
         /\ watch[n] # NoWatch =>
              /\ watch[n] \in 1..nwatches /\ watch[n] \in Wd
              /\ active[watch[n]] \in Inode \cup {NULL}
<1>1. n \in Names
  BY ItemFields DEF IInv, Typed, ItemsTyped, Sound, Cached
<1>2. watch[n] \in Wds
  BY DEF IInv, Typed, WatchesTyped
<1>3. 1..nwatches \subseteq Wd
  BY Bounds DEF Wd
<1> QED BY <1>1, <1>2, <1>3 DEF IInv, Typed, WatchesTyped, Wds

LEMMA ActiveIsUsed ==
  ASSUME IInv, NEW w \in Wd, active[w] # NULL
  PROVE  w \in 1..nwatches /\ w # NoWatch
<1>1. w # NoWatch
  BY Bounds DEF Wd, NoWatch
<1> QED BY <1>1, ItemsAreWatched DEF IInv, NoWatchLeaks

-----------------------------------------------------------------------------
(* The queue of events.                                                    *)

\* r has all events of q, and only watch descriptors that have been used.
Extends(q, r) ==
  /\ r \in Seq(EventSet) /\ \A e \in ToSet(r) : e.wd \in Wds
  /\ ToSet(q) \subseteq ToSet(r)

LEMMA ConcatSets ==
  ASSUME NEW E, NEW q \in Seq(E), NEW r \in Seq(E)
  PROVE  q \o r \in Seq(E) /\ ToSet(q \o r) = ToSet(q) \cup ToSet(r)
<1>1. /\ Len(q) \in Nat /\ Len(r) \in Nat
      /\ DOMAIN q = 1..Len(q) /\ DOMAIN r = 1..Len(r)
  BY SequenceFacts
<1>2. /\ q \o r \in Seq(E) /\ DOMAIN (q \o r) = 1..(Len(q) + Len(r))
      /\ \A k \in 1..(Len(q) + Len(r)) :
           (q \o r)[k] = IF k <= Len(q) THEN q[k] ELSE r[k - Len(q)]
  BY ConcatProperties, SequenceFacts
<1>3. ToSet(q) \subseteq ToSet(q \o r)
  BY <1>1, <1>2 DEF ToSet
<1>4. ASSUME NEW k \in DOMAIN r PROVE r[k] \in ToSet(q \o r)
  <2>1. k + Len(q) \in 1..(Len(q) + Len(r)) /\ ~(k + Len(q) <= Len(q))
        /\ (k + Len(q)) - Len(q) = k
    BY <1>1
  <2> QED BY <1>2, <2>1 DEF ToSet
<1>5. ASSUME NEW k \in DOMAIN (q \o r) PROVE (q \o r)[k] \in ToSet(q) \cup ToSet(r)
  <2>1. CASE k <= Len(q)
    BY <1>1, <1>2, <2>1 DEF ToSet
  <2>2. CASE ~(k <= Len(q))
    <3>1. k - Len(q) \in DOMAIN r /\ (q \o r)[k] = r[k - Len(q)]
      BY <1>1, <1>2, <2>2
    <3> QED BY <3>1 DEF ToSet
  <2> QED BY <2>1, <2>2
<1> QED BY <1>2, <1>3, <1>4, <1>5 DEF ToSet

LEMMA AppendSet ==
  ASSUME NEW E, NEW q \in Seq(E), NEW e \in E
  PROVE  Append(q, e) \in Seq(E) /\ ToSet(Append(q, e)) = ToSet(q) \cup {e}
<1> DEFINE r == <<e>>
<1>1. Append(q, e) = q \o r
  BY AppendIsConcat
<1>2. r \in Seq(E) /\ ToSet(r) = {e}
  BY DEF ToSet
<1> HIDE DEF r
<1> QED BY <1>1, <1>2, ConcatSets

\* An event is added, or that of an overflow, which is about no watch.
LEMMA EnqueuedExtends ==
  ASSUME NEW q, NEW p, Extends(p, q), NEW e \in EventSet, e.wd \in Wds
  PROVE  /\ Extends(p, Enqueued(q, e)) /\ ToSet(q) \subseteq ToSet(Enqueued(q, e))
         /\ ~(Len(q) >= MaxEvents) => e \in ToSet(Enqueued(q, e))
<1>1. q \in Seq(EventSet) /\ \A d \in ToSet(q) : d.wd \in Wds
  BY DEF Extends
<1>2. CASE Len(q) >= MaxEvents
  <2>1. Overflow \in EventSet /\ Overflow.wd \in Wds
    BY DEF Overflow, Event, EventSet, Masks, Wds
  <2>2. CASE Overflow \in ToSet(q)
    BY <1>2, <2>2 DEF Enqueued
  <2>3. CASE Overflow \notin ToSet(q)
    <3> DEFINE r == Append(q, Overflow)
    <3>1. Enqueued(q, e) = r
      BY <1>2, <2>3 DEF Enqueued
    <3>2. r \in Seq(EventSet) /\ ToSet(r) = ToSet(q) \cup {Overflow}
      BY <1>1, <2>1, AppendSet
    <3> HIDE DEF r
    <3> QED BY <1>1, <1>2, <2>1, <3>1, <3>2 DEF Extends
  <2> QED BY <2>2, <2>3
<1>3. CASE ~(Len(q) >= MaxEvents) /\ q # <<>> /\ Last(q) = e
  <2>1. Len(q) \in DOMAIN q
    BY <1>1, <1>3, SequenceFacts, EmptySeq
  <2>2. e \in ToSet(q)
    BY <1>3, <2>1 DEF ToSet, Last
  <2> QED BY <1>3, <2>2 DEF Enqueued
<1>4. CASE ~(Len(q) >= MaxEvents) /\ ~(q # <<>> /\ Last(q) = e)
  <2> DEFINE r == Append(q, e)
  <2>1. Enqueued(q, e) = r
    BY <1>4 DEF Enqueued
  <2>2. r \in Seq(EventSet) /\ ToSet(r) = ToSet(q) \cup {e}
    BY <1>1, AppendSet
  <2> HIDE DEF r
  <2> QED BY <1>1, <2>1, <2>2 DEF Extends
<1> QED BY <1>2, <1>3, <1>4

\* What happens to a watched file leaves an event for its watch, if there is room.
LEMMA NoticedExtends ==
  ASSUME IInv, NEW q, Extends(queue, q), NEW i \in Inode, NEW mask \in Masks
  PROVE  /\ Extends(queue, Noticed(q, i, mask)) /\ ToSet(q) \subseteq ToSet(Noticed(q, i, mask))
         /\ mask \in {"MODIFY", "DELETE_SELF"} /\ ~(Len(q) >= MaxEvents) =>
              \A w \in Wd : active[w] = i => \E e \in ToSet(Noticed(q, i, mask)) : e.wd = w
<1>1. CASE WatchesOn(i) # {} /\ mask \in WatchedMasks \cup {"IGNORED"}
  <2> DEFINE w == CHOOSE w \in WatchesOn(i) : TRUE
             e == Event(w, mask)
  <2>1. w \in Wd /\ active[w] = i
    BY <1>1 DEF WatchesOn
  <2>2. e \in EventSet /\ e.wd = w /\ w \in Wds
    <3>1. w \in Wds
      BY <2>1, Bounds, ActiveIsUsed DEF Wds
    <3> QED BY <2>1, <3>1 DEF Event, EventSet
  <2>3. Noticed(q, i, mask) = Enqueued(q, e)
    BY <1>1 DEF Noticed
  <2>4. \A v \in Wd : active[v] = i => v = w
    BY <2>1, Bounds DEF IInv, OneWatch
  <2> HIDE DEF w, e
  <2>5. /\ Extends(queue, Enqueued(q, e)) /\ ToSet(q) \subseteq ToSet(Enqueued(q, e))
        /\ ~(Len(q) >= MaxEvents) => e \in ToSet(Enqueued(q, e))
    BY <2>2, EnqueuedExtends
  <2> QED BY <2>2, <2>3, <2>4, <2>5
<1>2. CASE ~(WatchesOn(i) # {} /\ mask \in WatchedMasks \cup {"IGNORED"})
  <2>1. Noticed(q, i, mask) = q
    BY <1>2 DEF Noticed
  <2>2. mask \in {"MODIFY", "DELETE_SELF"} => \A w \in Wd : active[w] # i
    BY <1>2 DEF WatchesOn, WatchedMasks
  <2> QED BY <2>1, <2>2
<1> QED BY <1>1, <1>2

LEMMA QueueExtends ==
  ASSUME IInv
  PROVE  Extends(queue, queue)
BY DEF IInv, Typed, QueueTyped, Extends

-----------------------------------------------------------------------------
(* Changes of files.                                                       *)

LEMMA ItemsStay ==
  ASSUME UNCHANGED <<items, max_num_items>>, IInv
  PROVE  ItemsTyped' /\ Cached(items') = Cached(items)
BY DEF IInv, Typed, ItemsTyped

LEMMA ClientsStay ==
  ASSUME UNCHANGED clients, IInv
  PROVE  ClientsTyped'
BY DEF IInv, Typed, ClientsTyped, clients

LEMMA FilesStay ==
  ASSUME UNCHANGED files, IInv
  PROVE  FilesTyped' /\ \A n \in Names : place'[n] = place[n] /\ Disk(n)' = Disk(n)
BY DEF IInv, Typed, FilesTyped, files, Disk

\* What happens to a watched file is told by an event, or makes the item blind.
LEMMA ToldOrBlind ==
  ASSUME IInv, NEW i \in Inode, blind' = Overflowing(i), Extends(queue, queue'),
         ~(Len(queue) >= MaxEvents) =>
            \A w \in Wd : active[w] = i => \E e \in ToSet(queue') : e.wd = w
  PROVE  /\ blind' \in [Names -> SUBSET Reasons]
         /\ \A n \in Names : blind[n] \subseteq blind'[n]
         /\ \A n \in Cached(items) : watch[n] # NoWatch /\ active[watch[n]] = i =>
              (\E e \in ToSet(queue') : e.wd = watch[n]) \/ blind'[n] # {}
<1>1. blind' \in [Names -> SUBSET Reasons] /\ \A n \in Names : blind[n] \subseteq blind'[n]
  BY DEF Overflowing, Reasons, IInv, Typed, QueueTyped
<1>2. ASSUME NEW n \in Cached(items), watch[n] # NoWatch, active[watch[n]] = i
      PROVE  (\E e \in ToSet(queue') : e.wd = watch[n]) \/ blind'[n] # {}
  <2>1. n \in Names /\ watch[n] \in Wd
    BY <1>2, ItemsAreWatched
  <2>2. CASE ~(Len(queue) >= MaxEvents)
    BY <1>2, <2>1, <2>2
  <2>3. CASE Len(queue) >= MaxEvents /\ ~\E e \in ToSet(queue) : e.wd = watch[n]
    <3>1. "overflow" \in blind'[n]
      BY <1>2, <2>1, <2>3 DEF Overflowing, WatchedBy
    <3> QED BY <3>1
  <2>4. CASE \E e \in ToSet(queue) : e.wd = watch[n]
    BY <2>4 DEF Extends
  <2> QED BY <2>2, <2>3, <2>4
<1> QED BY <1>1, <1>2

\* What covers an item still does if the file stays, the watch stays with the item and
\* the queue has all events that it had.
LEMMA StillCovered ==
  ASSUME IInv, NEW i \in DOMAIN items, NEW it,
         it.name = items[i].name, it.buff = items[i].buff, items[i].outdated => it.outdated,
         watch'[it.name] = watch[it.name], listening' = listening,
         \/ /\ Disk(it.name)' = Disk(it.name) /\ place'[it.name] = place[it.name]
            /\ active'[watch[it.name]] = active[watch[it.name]]
         \/ watch[it.name] = NoWatch
         \/ \E e \in ToSet(queue') : e.wd = watch[it.name]
         \/ blind'[it.name] # {},
         ToSet(queue) \subseteq ToSet(queue'),
         blind[it.name] \subseteq blind'[it.name]
  PROVE  Covered(it)'
<1>1. Covered(items[i])
  BY DEF IInv, AllCovered
<1>2. CASE it.outdated \/ ~listening
  BY <1>2 DEF Covered
<1>3. CASE Heard(items[i].name) \/ blind[items[i].name] # {}
  BY <1>3 DEF Covered, Heard
<1>4. CASE items[i].buff = Disk(it.name) /\ OnFile(it.name)
  BY <1>4 DEF Covered, Heard, OnFile
<1> QED BY <1>1, <1>2, <1>3, <1>4 DEF Covered

LEMMA ModifyKeepsInvariant ==
  ASSUME IInv, NEW i \in Inode, Modify(i), UNCHANGED max_num_items
  PROVE  IInv'
<1>1. /\ changes' = changes + 1 /\ changes < MaxChanges
      /\ version' = [version EXCEPT ![i] = changes + 1]
      /\ queue' = Noticed(queue, i, "MODIFY")
      /\ blind' = Overflowing(i)
      /\ UNCHANGED <<place, ninodes, items, watch, active, nwatches, listening, mode, want, got>>
  BY DEF Modify, clients
<1>2. Extends(queue, queue') /\ ToSet(queue) \subseteq ToSet(queue')
  BY <1>1, QueueExtends, NoticedExtends DEF Masks
<1>8. /\ blind' \in [Names -> SUBSET Reasons]
      /\ \A n \in Names : blind[n] \subseteq blind'[n]
      /\ \A n \in Cached(items) : watch[n] # NoWatch /\ active[watch[n]] = i =>
           (\E e \in ToSet(queue') : e.wd = watch[n]) \/ blind'[n] # {}
  <2>1. ~(Len(queue) >= MaxEvents) =>
           \A w \in Wd : active[w] = i => \E e \in ToSet(queue') : e.wd = w
    BY <1>1, QueueExtends, NoticedExtends DEF Masks
  <2> QED BY <1>1, <1>2, <2>1, ToldOrBlind
<1>3. FilesTyped'
  <2>1. \A k \in Inode : version[k] \in 0..changes /\ changes \in 0..MaxChanges
    BY Bounds
  <2>2. changes' \in 0..MaxChanges /\ 0..changes \subseteq 0..changes' /\ changes' \in 0..changes'
    BY <1>1, Bounds
  <2>3. version' \in [Inode -> 0..changes']
    BY <1>1, <2>1, <2>2 DEF IInv, Typed, FilesTyped
  <2> QED BY <1>1, <2>2, <2>3 DEF IInv, Typed, FilesTyped
<1>4. Typed'
  <2>1. WatchesTyped'
    BY <1>1 DEF IInv, Typed, WatchesTyped, Wds
  <2>2. QueueTyped'
    BY <1>1, <1>2, <1>8 DEF IInv, Typed, QueueTyped, Extends, Wds
  <2> QED BY <1>1, <1>3, <2>1, <2>2, ItemsStay, ClientsStay DEF Typed, clients
<1>5. OneWatch' /\ NoWatchLeaks'
  BY <1>1 DEF IInv, OneWatch, NoWatchLeaks
<1>6. ASSUME NEW k \in DOMAIN items PROVE Covered(items[k])'
  <2> DEFINE n == items[k].name
  <2>1. n \in Cached(items) /\ n \in Names /\ blind[n] \subseteq blind'[n]
    BY <1>8, ItemsAreWatched DEF Cached
  <2>2. CASE watch[n] = NoWatch \/ active[watch[n]] = i
    <3>1. \/ watch[n] = NoWatch
          \/ \E e \in ToSet(queue') : e.wd = watch[n]
          \/ blind'[n] # {}
      BY <1>8, <2>1, <2>2
    <3> QED BY <1>1, <1>2, <2>1, <3>1, StillCovered
  <2>3. CASE place[n] # i
    <3>1. Disk(n)' = Disk(n)
      BY <1>1, <2>1, <2>3, Bounds DEF Disk, IInv, Typed, FilesTyped
    <3> QED BY <1>1, <1>2, <2>1, <3>1, StillCovered
  <2>4. CASE place[n] = i /\ active[watch[n]] # i
    <3>1. Covered(items[k])
      BY DEF IInv, AllCovered
    <3>2. CASE blind[n] # {}
      BY <1>1, <2>1, <3>2 DEF Covered
    <3>3. CASE blind[n] = {}
      BY <1>1, <1>2, <2>4, <3>1, <3>3 DEF Covered, Heard, OnFile
    <3> QED BY <3>2, <3>3
  <2> QED BY <2>2, <2>3, <2>4
<1>7. AllCovered'
  BY <1>1, <1>6 DEF AllCovered
<1> QED BY <1>4, <1>5, <1>7 DEF IInv

\* What Delete and MoveAway have in common.
LEMMA ReplaceKeepsTypes ==
  ASSUME IInv, NEW n \in Names, Replace(n)
  PROVE  /\ FilesTyped'
         /\ \A m \in Names : m # n => place'[m] = place[m] /\ Disk(m)' = Disk(m)
<1>1. /\ changes' = changes + 1 /\ changes < MaxChanges
      /\ ninodes' = ninodes + 1 /\ ninodes < MaxInodes
      /\ place' = [place EXCEPT ![n] = ninodes + 1] /\ version' = version
  BY DEF Replace
<1>2. /\ changes' \in 0..MaxChanges /\ 0..changes \subseteq 0..changes'
      /\ ninodes' \in Inode /\ 1..ninodes \subseteq 1..ninodes' /\ ninodes' \in 1..ninodes'
  BY <1>1, Bounds DEF Inode
<1>3. version' \in [Inode -> 0..changes']
  BY <1>1, <1>2 DEF IInv, Typed, FilesTyped
<1>4. place' \in [Names -> 1..ninodes']
  BY <1>1, <1>2 DEF IInv, Typed, FilesTyped
<1>5. \A m \in Names : m # n => place'[m] = place[m] /\ Disk(m)' = Disk(m)
  BY <1>1 DEF IInv, Typed, FilesTyped, Disk
<1> QED BY <1>2, <1>3, <1>4, <1>5 DEF FilesTyped

LEMMA DeleteKeepsInvariant ==
  ASSUME IInv, NEW n \in Names, Delete(n), UNCHANGED max_num_items
  PROVE  IInv'
<1> DEFINE q == Noticed(queue, place[n], "DELETE_SELF")
<1>1. /\ \A m \in Names \ {n} : place[m] # place[n]
      /\ Replace(n)
      /\ queue' = Noticed(q, place[n], "IGNORED")
      /\ active' = [w \in Wd |-> IF active[w] = place[n] THEN NULL ELSE active[w]]
      /\ blind' = Overflowing(place[n])
      /\ UNCHANGED <<items, watch, nwatches, listening, mode, want, got>>
  BY DEF Delete, clients
<1>2. /\ Extends(queue, queue') /\ ToSet(queue) \subseteq ToSet(queue')
      /\ ~(Len(queue) >= MaxEvents) =>
           \A w \in Wd : active[w] = place[n] => \E e \in ToSet(queue') : e.wd = w
  <2>1. /\ Extends(queue, q) /\ ToSet(queue) \subseteq ToSet(q)
        /\ ~(Len(queue) >= MaxEvents) =>
             \A w \in Wd : active[w] = place[n] => \E e \in ToSet(q) : e.wd = w
    BY Bounds, QueueExtends, NoticedExtends DEF Masks
  <2> HIDE DEF q
  <2>2. Extends(queue, queue') /\ ToSet(q) \subseteq ToSet(queue')
    BY <1>1, <2>1, Bounds, NoticedExtends DEF Masks
  <2> QED BY <2>1, <2>2
<1> HIDE DEF q
<1>7. /\ blind' \in [Names -> SUBSET Reasons]
      /\ \A m \in Names : blind[m] \subseteq blind'[m]
      /\ \A m \in Cached(items) : watch[m] # NoWatch /\ active[watch[m]] = place[n] =>
           (\E e \in ToSet(queue') : e.wd = watch[m]) \/ blind'[m] # {}
  BY <1>1, <1>2, Bounds, ToldOrBlind
<1>3. Typed'
  <2>1. WatchesTyped'
    BY <1>1 DEF IInv, Typed, WatchesTyped, Wds
  <2>2. QueueTyped'
    BY <1>1, <1>2, <1>7 DEF IInv, Typed, QueueTyped, Extends, Wds
  <2> QED BY <1>1, <2>1, <2>2, ItemsStay, ClientsStay, ReplaceKeepsTypes DEF Typed, clients
<1>4. OneWatch' /\ NoWatchLeaks'
  BY <1>1 DEF IInv, OneWatch, NoWatchLeaks
<1>5. ASSUME NEW k \in DOMAIN items PROVE Covered(items[k])'
  <2> DEFINE m == items[k].name
  <2>1. m \in Cached(items) /\ m \in Names /\ blind[m] \subseteq blind'[m]
    BY <1>7, ItemsAreWatched DEF Cached
  <2>2. CASE watch[m] = NoWatch \/ active[watch[m]] = place[n]
    <3>1. \/ watch[m] = NoWatch
          \/ \E e \in ToSet(queue') : e.wd = watch[m]
          \/ blind'[m] # {}
      BY <1>7, <2>1, <2>2
    <3> QED BY <1>1, <1>2, <2>1, <3>1, StillCovered
  <2>3. CASE watch[m] # NoWatch /\ active[watch[m]] # place[n] /\ m # n
    <3>1. /\ place'[m] = place[m] /\ Disk(m)' = Disk(m)
          /\ active'[watch[m]] = active[watch[m]]
      BY <1>1, <2>1, <2>3, ItemsAreWatched, ReplaceKeepsTypes
    <3> QED BY <1>1, <1>2, <2>1, <3>1, StillCovered
  <2>4. CASE active[watch[m]] # place[n] /\ m = n
    <3>1. Covered(items[k])
      BY DEF IInv, AllCovered
    <3>2. CASE blind[m] # {}
      BY <1>1, <2>1, <3>2 DEF Covered
    <3>3. CASE blind[m] = {}
      BY <1>1, <1>2, <2>4, <3>1, <3>3 DEF Covered, Heard, OnFile
    <3> QED BY <3>2, <3>3
  <2> QED BY <2>2, <2>3, <2>4
<1>6. AllCovered'
  BY <1>1, <1>5 DEF AllCovered
<1> QED BY <1>3, <1>4, <1>6 DEF IInv

LEMMA MoveAwayKeepsInvariant ==
  ASSUME IInv, NEW n \in Names, MoveAway(n), UNCHANGED max_num_items
  PROVE  IInv'
<1>1. /\ Replace(n)
      /\ queue' = Noticed(queue, place[n], "MOVE_SELF")
      /\ blind' = [blind EXCEPT ![n] = IF n \in Cached(items) THEN @ \cup {"moved"} ELSE @]
      /\ UNCHANGED <<items, watch, active, nwatches, listening, mode, want, got>>
  BY DEF MoveAway, clients
<1>2. Extends(queue, queue')
  BY <1>1, Bounds, QueueExtends, NoticedExtends DEF Masks
<1>3. /\ blind' \in [Names -> SUBSET Reasons]
      /\ \A m \in Names : blind[m] \subseteq blind'[m]
      /\ n \in Cached(items) => blind'[n] # {}
  BY <1>1 DEF IInv, Typed, QueueTyped, Reasons
<1>4. Typed'
  <2>1. WatchesTyped'
    BY <1>1 DEF IInv, Typed, WatchesTyped, Wds
  <2>2. QueueTyped'
    BY <1>1, <1>2, <1>3 DEF IInv, Typed, QueueTyped, Extends, Wds
  <2> QED BY <1>1, <2>1, <2>2, ItemsStay, ClientsStay, ReplaceKeepsTypes DEF Typed, clients
<1>5. OneWatch' /\ NoWatchLeaks'
  BY <1>1 DEF IInv, OneWatch, NoWatchLeaks
<1>6. ASSUME NEW k \in DOMAIN items PROVE Covered(items[k])'
  <2> DEFINE m == items[k].name
  <2>1. m \in Cached(items) /\ m \in Names
    BY ItemsAreWatched DEF Cached
  <2>2. CASE m = n
    <3>1. blind'[m] # {}
      BY <1>3, <2>1, <2>2
    <3> QED BY <1>1, <3>1 DEF Covered
  <2>3. CASE m # n
    <3>1. place'[m] = place[m] /\ Disk(m)' = Disk(m)
      BY <1>1, <2>1, <2>3, ReplaceKeepsTypes
    <3> QED BY <1>1, <1>2, <1>3, <2>1, <3>1, StillCovered DEF Extends
  <2> QED BY <2>2, <2>3
<1>7. AllCovered'
  BY <1>1, <1>6 DEF AllCovered
<1> QED BY <1>4, <1>5, <1>7 DEF IInv

-----------------------------------------------------------------------------
(* Items that go, and the watches that go with them.                       *)

LEMMA RmWatchExtends ==
  ASSUME IInv, NEW p, NEW q, Extends(p, q)
  PROVE  Extends(p, RmWatch(q)) /\ ToSet(q) \subseteq ToSet(RmWatch(q))
<1> DEFINE ended == {w \in Unwatched : active[w] # NULL}
           w == CHOOSE w \in ended : TRUE
           e == Event(w, "IGNORED")
<1>1. CASE ended = {}
  BY <1>1 DEF RmWatch
<1>2. CASE ended # {}
  <2>1. Unwatched \subseteq 1..nwatches /\ 1..nwatches \subseteq Wd
    BY ItemsAreWatched, Bounds DEF Unwatched, Wd
  <2>2. w \in 1..nwatches /\ w \in Wd
    BY <1>2, <2>1
  <2>3. RmWatch(q) = Enqueued(q, e)
    BY <1>2 DEF RmWatch
  <2> HIDE DEF w
  <2>4. e \in EventSet /\ e.wd \in Wds
    BY <2>2 DEF Event, EventSet, Masks, Wds
  <2> HIDE DEF e
  <2> QED BY <2>3, <2>4, EnqueuedExtends
<1> QED BY <1>1, <1>2

\* A watch that stays is on the file that it was on, and its item stays.
LEMMA StillActiveFacts ==
  ASSUME IInv
  PROVE  /\ StillActive \in [Wd -> Inode \cup {NULL}]
         /\ \A w \in Wd : StillActive[w] # NULL =>
              /\ w \notin Unwatched /\ StillActive[w] = active[w] /\ w \in 1..nwatches
              /\ w # NoWatch
              /\ \E n \in Cached(items) : n \in Cached(items') /\ watch[n] = w
<1>1. ASSUME NEW w \in Wd, StillActive[w] # NULL
      PROVE  /\ w \notin Unwatched /\ StillActive[w] = active[w] /\ w \in 1..nwatches
             /\ w # NoWatch
             /\ \E n \in Cached(items) : n \in Cached(items') /\ watch[n] = w
  <2>1. w \notin Unwatched /\ StillActive[w] = active[w]
    BY <1>1 DEF StillActive
  <2>2. PICK n \in Cached(items) : watch[n] = w
    BY <1>1, <2>1 DEF IInv, NoWatchLeaks
  <2> QED BY <1>1, <2>1, <2>2, ActiveIsUsed DEF Unwatched
<1>2. StillActive \in [Wd -> Inode \cup {NULL}]
  BY DEF StillActive, IInv, Typed, WatchesTyped
<1> QED BY <1>1, <1>2

LEMMA BlindedFacts ==
  ASSUME IInv, NEW also \in [Names -> SUBSET Reasons],
         blind' = [n \in Names |->
                     IF n \notin Cached(items') THEN {}
                     ELSE blind[n] \cup also[n] \cup (IF LosesWatch(n) THEN {"overflow"} ELSE {})]
  PROVE  /\ blind' \in [Names -> SUBSET Reasons]
         /\ \A n \in Names : n \in Cached(items') =>
              /\ blind[n] \subseteq blind'[n] /\ also[n] \subseteq blind'[n]
              /\ blind'[n] # {} \/ ~LosesWatch(n)
BY DEF IInv, Typed, QueueTyped, Reasons

\* t has items of s only: those that are there now are in it by name and content.
LEMMA KeptItems ==
  ASSUME IInv, Kept(items, items'), UNCHANGED max_num_items
  PROVE  ItemsTyped' /\ Cached(items') \subseteq Cached(items)
<1>1. Sound(items') /\ Len(items') <= Len(items) /\ Cached(items') \subseteq Cached(items)
  BY KeptCached DEF Kept
<1>2. Len(items) \in Nat /\ Len(items') \in Nat
  BY <1>1, ItemFacts DEF IInv, Typed, ItemsTyped, Sound
<1> QED BY <1>1, <1>2 DEF IInv, Typed, ItemsTyped

\* After a step that removes items, and their watches, the types and watches are right.
LEMMA RemovalKeepsWatches ==
  ASSUME IInv, Kept(items, items'), UNCHANGED <<max_num_items, watch, nwatches>>,
         active' = StillActive
  PROVE  WatchesTyped' /\ OneWatch' /\ NoWatchLeaks'
<1>1. WatchesTyped'
  BY StillActiveFacts, KeptItems DEF IInv, Typed, WatchesTyped, Wds
<1>2. OneWatch'
  <2> SUFFICES ASSUME NEW v \in Wd, NEW w \in Wd, active'[v] = active'[w], active'[v] # NULL
               PROVE  v = w
    BY DEF OneWatch
  <2>1. active[v] = active'[v] /\ active[w] = active'[w]
    BY StillActiveFacts
  <2> QED BY <2>1 DEF IInv, OneWatch
<1>3. NoWatchLeaks'
  BY StillActiveFacts DEF NoWatchLeaks
<1> QED BY <1>1, <1>2, <1>3

\* What covers an item that stays still does after such a step, if the loss of its watch
\* is told by an event or makes it blind, and if an event for it stays in the queue.
LEMMA RemovalCovers ==
  ASSUME IInv, Kept(items, items'), UNCHANGED <<files, watch, listening>>,
         NEW k \in DOMAIN items', NEW n, n = items'[k].name,
         active' = StillActive,
         blind[n] \subseteq blind'[n], blind'[n] # {} \/ ~LosesWatch(n),
         Heard(n) => \/ InTouch(n)
                     \/ \E e \in ToSet(queue') : e.wd = watch[n]
                     \/ blind'[n] # {}
                     \/ items'[k].outdated
  PROVE  Covered(items[k])'
<1>1. PICK i \in DOMAIN items : /\ items[i].name = n /\ items[i].buff = items'[k].buff
                                /\ items[i].outdated => items'[k].outdated
  BY DEF Kept
<1>2. /\ n \in Cached(items) /\ n \in Cached(items') /\ n \in Names
      /\ watch[n] # NoWatch => watch[n] \in Wd
  BY <1>1, ItemsAreWatched DEF Cached
<1>3. place'[n] = place[n] /\ Disk(n)' = Disk(n) /\ watch'[n] = watch[n] /\ listening' = listening
  <2>1. UNCHANGED files /\ watch' = watch /\ listening' = listening
    OBVIOUS
  <2> QED BY <1>2, <2>1, FilesStay
<1>4. Covered(items[i])
  BY DEF IInv, AllCovered
<1>5. CASE items'[k].outdated \/ ~listening \/ blind'[n] # {}
  BY <1>5 DEF Covered
<1>6. CASE ~(items'[k].outdated \/ ~listening \/ blind'[n] # {})
  <2>1. blind[n] = {} /\ ~items[i].outdated /\ listening
    BY <1>1, <1>6
  <2>2. InTouch(n) <=> items[i].buff = Disk(n) /\ OnFile(n)
    BY <1>1, InTouchByItem DEF IInv, Typed, ItemsTyped
  <2>3. CASE items[i].buff = Disk(n) /\ OnFile(n)
    <3>1. active[watch[n]] = place[n] /\ place[n] # NULL /\ watch[n] # NoWatch
      BY <1>2, <2>3, Bounds DEF OnFile
    <3>2. CASE watch[n] \in Unwatched
      <4>1. \E e \in ToSet(queue') : e.wd = watch[n]
        BY <1>2, <1>6, <3>1, <3>2 DEF LosesWatch
      <4> QED BY <1>1, <1>3, <3>1, <4>1 DEF Covered, Heard
    <3>3. CASE watch[n] \notin Unwatched
      <4>1. active'[watch[n]] = place[n]
        BY <1>2, <3>1, <3>3 DEF StillActive
      <4> QED BY <1>1, <1>3, <2>3, <3>1, <4>1 DEF Covered, OnFile
    <3> QED BY <3>2, <3>3
  <2>4. CASE Heard(n)
    <3>1. CASE InTouch(n)
      BY <2>2, <2>3, <3>1
    <3>2. CASE \E e \in ToSet(queue') : e.wd = watch[n]
      BY <1>3, <2>4, <3>2 DEF Covered, Heard
    <3> QED BY <1>6, <2>4, <3>1, <3>2
  <2> QED BY <1>1, <1>4, <2>1, <2>3, <2>4 DEF Covered
<1> QED BY <1>5, <1>6

-----------------------------------------------------------------------------
(* Requests.                                                               *)

LEMMA BecomesTyped ==
  ASSUME IInv, NEW c \in Clients, NEW m \in {"idle", "using", "reading"},
         NEW n \in Names \cup {NULL}, NEW content \in Content \cup {NULL},
         Becomes(c, m, n, content), m = "reading" => n \in Names /\ content \in Content
  PROVE  ClientsTyped'
BY DEF IInv, Typed, ClientsTyped, Becomes

\* The items are locked, unlocked or in another order.
LEMMA RelockingKeepsInvariant ==
  ASSUME IInv, Kept(items, items'), Cached(items') = Cached(items), ClientsTyped',
         UNCHANGED <<files, max_num_items, watch, active, nwatches, queue, listening, blind>>
  PROVE  IInv'
<1>1. Typed'
  <2>1. WatchesTyped' /\ QueueTyped'
    BY DEF IInv, Typed, WatchesTyped, QueueTyped, Wds
  <2> QED BY <2>1, KeptItems, FilesStay DEF Typed
<1>2. OneWatch' /\ NoWatchLeaks'
  BY DEF IInv, OneWatch, NoWatchLeaks
<1>3. ASSUME NEW k \in DOMAIN items' PROVE Covered(items[k])'
  <2>1. PICK i \in DOMAIN items :
          /\ items[i].name = items'[k].name /\ items[i].buff = items'[k].buff
          /\ items[i].outdated => items'[k].outdated
    BY DEF Kept
  <2>2. Covered(items[i])
    BY DEF IInv, AllCovered
  <2>3. items[i].name \in Names
    BY ItemFields DEF IInv, Typed, ItemsTyped, Sound
  <2> QED BY <2>1, <2>2, <2>3, FilesStay DEF Covered, Heard, OnFile
<1>4. AllCovered'
  BY <1>3 DEF AllCovered
<1> QED BY <1>1, <1>2, <1>4 DEF IInv

LEMMA HitKeepsInvariant ==
  ASSUME IInv, NEW c \in Clients, NEW n \in Names, Hit(c, n), UNCHANGED max_num_items
  PROVE  IInv'
<1>1. PICK i \in At(items, n) : items' = LockAt(items, i)
  BY DEF Hit
<1>2. Kept(items, items') /\ Cached(items') = Cached(items)
  BY <1>1, LockAtKeeps DEF At, IInv, Typed, ItemsTyped
<1>3. ClientsTyped'
  BY BecomesTyped DEF Hit
<1> QED BY <1>2, <1>3, RelockingKeepsInvariant DEF Hit

LEMMA ReturnKeepsInvariant ==
  ASSUME IInv, NEW c \in Clients, Return(c), UNCHANGED max_num_items
  PROVE  IInv'
<1>1. Kept(items, items') /\ Cached(items') = Cached(items)
  BY UnlockNamedKeeps DEF Return, IInv, Typed, ItemsTyped
<1>2. ClientsTyped'
  BY BecomesTyped DEF Return
<1> QED BY <1>1, <1>2, RelockingKeepsInvariant DEF Return

LEMMA MissKeepsInvariant ==
  ASSUME IInv, NEW c \in Clients, NEW n \in Names, Miss(c, n), UNCHANGED max_num_items
  PROVE  IInv'
<1>1. /\ items' = AfterMiss(items, n)
      /\ active' = StillActive /\ queue' = RmWatch(queue)
      /\ blind' = Blinded(LAMBDA m : {})
      /\ Becomes(c, "reading", n, Disk(n))
      /\ UNCHANGED <<files, watch, nwatches, listening>>
  BY DEF Miss
<1>2. Kept(items, items')
  BY <1>1, AfterMissKeeps DEF IInv, Typed, ItemsTyped
<1>3. /\ queue' \in Seq(EventSet) /\ \A e \in ToSet(queue') : e.wd \in Wds
      /\ ToSet(queue) \subseteq ToSet(queue')
  BY <1>1, QueueExtends, RmWatchExtends DEF Extends
<1>4. /\ blind' \in [Names -> SUBSET Reasons]
      /\ \A m \in Names : m \in Cached(items') =>
           blind[m] \subseteq blind'[m] /\ (blind'[m] # {} \/ ~LosesWatch(m))
  <2> DEFINE also == [m \in Names |-> {}]
  <2>1. also \in [Names -> SUBSET Reasons]
    OBVIOUS
  <2>2. blind' = [m \in Names |->
                    IF m \notin Cached(items') THEN {}
                    ELSE blind[m] \cup also[m] \cup (IF LosesWatch(m) THEN {"overflow"} ELSE {})]
    BY <1>1 DEF Blinded
  <2> HIDE DEF also
  <2> QED BY <2>1, <2>2, BlindedFacts
<1>5. ClientsTyped'
  BY <1>1, DiskIsContent, BecomesTyped
<1>6. WatchesTyped' /\ OneWatch' /\ NoWatchLeaks'
  BY <1>1, <1>2, RemovalKeepsWatches
<1>7. Typed'
  <2>1. QueueTyped'
    BY <1>1, <1>3, <1>4 DEF IInv, Typed, QueueTyped, Wds
  <2> QED BY <1>1, <1>2, <1>5, <1>6, <2>1, KeptItems, FilesStay DEF Typed
<1>8. ASSUME NEW k \in DOMAIN items' PROVE Covered(items[k])'
  <2> DEFINE m == items'[k].name
  <2>1. m \in Cached(items') /\ m \in Names
    <3>1. m \in Cached(items') /\ m \in Cached(items)
      BY <1>2, KeptCached DEF Cached
    <3> QED BY <3>1, ItemsAreWatched
  <2>2. Heard(m) => \E e \in ToSet(queue') : e.wd = watch[m]
    BY <1>3 DEF Heard
  <2>3. blind[m] \subseteq blind'[m] /\ (blind'[m] # {} \/ ~LosesWatch(m))
    BY <1>4, <2>1
  <2> HIDE DEF m
  <2>4. m = items'[k].name
    BY DEF m
  <2> QED BY <1>1, <1>2, <2>2, <2>3, <2>4, RemovalCovers
<1>9. AllCovered'
  BY <1>8 DEF AllCovered
<1> QED BY <1>6, <1>7, <1>9 DEF IInv

\* What the client has read, for the path that it wants.
LEMMA OfferFacts ==
  ASSUME IInv, NEW c \in Clients, mode[c] = "reading"
  PROVE  LET s == UnlockNamed(items, want[c])
         IN /\ want[c] \in Names /\ got[c] \in Content /\ Late(c) \in SUBSET Reasons
            /\ Kept(items, s) /\ Sound(s) /\ Cached(s) = Cached(items)
            /\ Len(s) = Len(items) /\ Len(s) <= max_num_items /\ max_num_items \in Nat
<1>1. want[c] \in Names /\ got[c] \in Content
  BY DEF IInv, Typed, ClientsTyped
<1>2. Late(c) \in SUBSET Reasons
  BY DEF Late, Reasons
<1>3. Sound(items) /\ max_num_items \in Nat /\ Len(items) <= max_num_items
  BY DEF IInv, Typed, ItemsTyped
<1> QED BY <1>1, <1>2, <1>3, UnlockNamedKeeps DEF Kept

\* What inotify_add_watch leaves: n is watched by the one watch on its file, or not at all,
\* and the watches that were there stay.
WatchAdded(n) ==
  /\ watch' \in [Names -> Wd \cup {NULL, NoWatch}]
  /\ \A m \in Names : m # n => watch'[m] = watch[m]
  /\ nwatches' \in 0..MaxWatches /\ 1..nwatches \subseteq 1..nwatches'
  /\ watch'[n] \in 1..nwatches' \cup {NoWatch}
  /\ active' \in [Wd -> Inode \cup {NULL}] /\ OneWatch'
  /\ watch'[n] # NoWatch => active'[watch'[n]] = place[n]
  /\ \A w \in Wd : active'[w] # NULL => w = watch'[n] \/ StillActive[w] = active'[w]
  /\ \A w \in Wd : StillActive[w] # NULL => active'[w] = StillActive[w]

LEMMA StillOneWatch ==
  ASSUME IInv
  PROVE  \A v, w \in Wd : StillActive[v] = StillActive[w] /\ StillActive[v] # NULL => v = w
BY StillActiveFacts DEF IInv, OneWatch

\* The watch of the new item: a watch that the file has, or the next one.
LEMMA SetWatchFacts ==
  ASSUME IInv, NEW n \in Names, SetWatch(n)
  PROVE  WatchAdded(n)
<1> DEFINE present == {w \in Wd : StillActive[w] = place[n]}
           wd == IF present = {} THEN nwatches + 1 ELSE CHOOSE w \in present : TRUE
<1>1. /\ wd \in Wd
      /\ watch' = [watch EXCEPT ![n] = wd]
      /\ active' = [StillActive EXCEPT ![wd] = place[n]]
      /\ nwatches' = IF wd > nwatches THEN wd ELSE nwatches
  BY DEF SetWatch
<1>2. /\ present = {} => wd = nwatches + 1
      /\ present # {} => StillActive[wd] = place[n]
  OBVIOUS
<1>3. ASSUME NEW v \in Wd, StillActive[v] = place[n] PROVE v = wd
  <2>1. StillActive[wd] = place[n] /\ place[n] # NULL
    BY <1>2, <1>3, Bounds
  <2> QED BY <1>1, <1>3, <2>1, StillOneWatch
<1>4. StillActive[wd] # NULL => StillActive[wd] = place[n]
  <2>1. StillActive[wd] # NULL => wd \in 1..nwatches
    BY <1>1, StillActiveFacts
  <2>2. wd \in 1..nwatches => present # {}
    BY <1>2, Bounds
  <2> QED BY <1>2, <2>1, <2>2
<1> HIDE DEF present, wd
<1>5. /\ nwatches' \in 0..MaxWatches /\ wd \in 1..nwatches'
      /\ 1..nwatches \subseteq 1..nwatches'
  BY <1>1, Bounds DEF Wd
<1>6. /\ watch' \in [Names -> Wd \cup {NULL, NoWatch}]
      /\ watch'[n] = wd /\ \A m \in Names : m # n => watch'[m] = watch[m]
  BY <1>1 DEF IInv, Typed, WatchesTyped
<1>7. /\ active' \in [Wd -> Inode \cup {NULL}] /\ place[n] # NULL
      /\ active'[wd] = place[n] /\ \A w \in Wd : w # wd => active'[w] = StillActive[w]
  BY <1>1, StillActiveFacts, Bounds
<1>8. OneWatch'
  <2> SUFFICES ASSUME NEW v \in Wd, NEW w \in Wd, active'[v] = active'[w], active'[v] # NULL
               PROVE  v = w
    BY DEF OneWatch
  <2>1. CASE v = wd \/ w = wd
    BY <1>3, <1>7, <2>1
  <2>2. CASE v # wd /\ w # wd
    BY <1>7, <2>2, StillOneWatch
  <2> QED BY <2>1, <2>2
<1>9. \A w \in Wd : StillActive[w] # NULL => active'[w] = StillActive[w]
  BY <1>4, <1>7
<1> QED BY <1>5, <1>6, <1>7, <1>8, <1>9 DEF WatchAdded

LEMMA AddWatchFacts ==
  ASSUME IInv, NEW n \in Names, AddWatch(n)
  PROVE  WatchAdded(n)
<1>1. CASE SetWatch(n)
  BY <1>1, SetWatchFacts
<1>2. CASE /\ watch' = [watch EXCEPT ![n] = NoWatch]
           /\ active' = StillActive /\ UNCHANGED nwatches
  <2>1. watch' \in [Names -> Wd \cup {NULL, NoWatch}] /\ nwatches' \in 0..MaxWatches
    BY <1>2 DEF IInv, Typed, WatchesTyped
  <2>2. watch'[n] = NoWatch /\ \A m \in Names : m # n => watch'[m] = watch[m]
    BY <1>2 DEF IInv, Typed, WatchesTyped
  <2>3. OneWatch'
    BY <1>2, StillOneWatch DEF OneWatch
  <2> QED BY <1>2, <2>1, <2>2, <2>3, StillActiveFacts DEF WatchAdded
<1> QED BY <1>1, <1>2 DEF AddWatch

LEMMA InsertKeepsInvariant ==
  ASSUME IInv, NEW c \in Clients, mode[c] = "reading",
         items' = Add(UnlockNamed(items, want[c]), want[c], got[c], max_num_items),
         Insert(c), ClientsTyped', UNCHANGED <<files, listening, max_num_items>>
  PROVE  IInv'
<1> DEFINE n == want[c]
           s == UnlockNamed(items, n)
<1>1. /\ n \notin Cached(items) /\ n \in Cached(items')
      /\ AddWatch(n)
      /\ queue' = RmWatch(queue)
      /\ blind' = Blinded(LAMBDA m :
           IF m # n THEN {}
           ELSE Late(c) \cup (IF watch'[n] = NoWatch THEN {"unwatched"} ELSE {}))
  BY DEF Insert
<1>2. /\ n \in Names /\ got[c] \in Content /\ Late(c) \in SUBSET Reasons
      /\ Kept(items, s) /\ Sound(s) /\ Cached(s) = Cached(items)
      /\ Len(s) <= max_num_items /\ max_num_items \in Nat
  BY OfferFacts
<1>3. items' = Add(s, n, got[c], max_num_items)
  OBVIOUS
<1> HIDE DEF s
<1>4. Gained(s, items', n, got[c]) /\ Len(items') <= max_num_items
  BY <1>1, <1>2, <1>3, AddInserts
<1> HIDE DEF n
<1>5. ASSUME NEW k \in DOMAIN items', items'[k].name # n
      PROVE  \E i \in DOMAIN items :
               /\ items[i].name = items'[k].name /\ items[i].buff = items'[k].buff
               /\ items[i].outdated => items'[k].outdated
  <2>1. PICK j \in DOMAIN s : /\ s[j].name = items'[k].name /\ s[j].buff = items'[k].buff
                              /\ s[j].outdated => items'[k].outdated
    BY <1>4, <1>5 DEF Gained
  <2>2. PICK i \in DOMAIN items : /\ items[i].name = s[j].name /\ items[i].buff = s[j].buff
                                  /\ items[i].outdated => s[j].outdated
    BY <1>2 DEF Kept
  <2> QED BY <2>1, <2>2
<1>6. WatchAdded(n)
  BY <1>1, <1>2, AddWatchFacts
<1>7. /\ queue' \in Seq(EventSet) /\ \A e \in ToSet(queue') : e.wd \in Wds
      /\ ToSet(queue) \subseteq ToSet(queue')
  BY <1>1, QueueExtends, RmWatchExtends DEF Extends
<1>8. \A m \in Cached(items') : m # n => m \in Cached(items)
  BY <1>5 DEF Cached
<1>9. Wds \subseteq Wds' /\ watch'[n] \in Wds' /\ \A m \in Names : m # n => watch'[m] = watch[m]
  BY <1>6 DEF WatchAdded, Wds
<1>10. WatchesTyped'
  <2>1. \A m \in Cached(items') : watch'[m] \in Wds'
    BY <1>8, <1>9, ItemsAreWatched
  <2> QED BY <1>6, <2>1 DEF WatchesTyped, WatchAdded
<1>11. OneWatch'
  BY <1>6 DEF WatchAdded
<1>12. NoWatchLeaks'
  <2> SUFFICES ASSUME NEW w \in Wd, active'[w] # NULL
               PROVE  \E m \in Cached(items') : watch'[m] = w
    BY DEF NoWatchLeaks
  <2>1. CASE w = watch'[n]
    BY <1>1, <2>1
  <2>2. CASE w # watch'[n]
    <3>1. StillActive[w] # NULL
      BY <1>6, <2>2 DEF WatchAdded
    <3>2. PICK m \in Cached(items) : m \in Cached(items') /\ watch[m] = w
      BY <3>1, StillActiveFacts
    <3>3. watch'[m] = w
      BY <1>1, <1>9, <3>2, ItemsAreWatched
    <3> QED BY <3>2, <3>3
  <2> QED BY <2>1, <2>2
<1>13. /\ blind' \in [Names -> SUBSET Reasons]
       /\ \A m \in Names : m \in Cached(items') =>
            /\ blind[m] \subseteq blind'[m] /\ (blind'[m] # {} \/ ~LosesWatch(m))
            /\ m = n => Late(c) \subseteq blind'[m]
            /\ m = n /\ watch'[n] = NoWatch => blind'[m] # {}
  <2> DEFINE new == Late(c) \cup (IF watch'[n] = NoWatch THEN {"unwatched"} ELSE {})
             also == [m \in Names |-> IF m # n THEN {} ELSE new]
  <2>1. also \in [Names -> SUBSET Reasons]
    BY <1>2 DEF Reasons
  <2>2. blind' = [m \in Names |->
                    IF m \notin Cached(items') THEN {}
                    ELSE blind[m] \cup also[m] \cup (IF LosesWatch(m) THEN {"overflow"} ELSE {})]
    BY <1>1 DEF Blinded
  <2>3. also[n] = new /\ Late(c) \subseteq new /\ (watch'[n] = NoWatch => new # {})
    BY <1>2
  <2> HIDE DEF also, new
  <2>4. /\ blind' \in [Names -> SUBSET Reasons]
        /\ \A m \in Names : m \in Cached(items') =>
             /\ blind[m] \subseteq blind'[m] /\ also[m] \subseteq blind'[m]
             /\ blind'[m] # {} \/ ~LosesWatch(m)
    BY <2>1, <2>2, BlindedFacts
  <2> QED BY <2>3, <2>4
<1>14. Typed'
  <2>1. QueueTyped'
    BY <1>7, <1>9, <1>13 DEF IInv, Typed, QueueTyped
  <2>2. ItemsTyped'
    BY <1>4 DEF IInv, Typed, ItemsTyped, Gained
  <2> QED BY <1>10, <2>1, <2>2, FilesStay DEF Typed
<1>15. \A m \in Names : place'[m] = place[m] /\ Disk(m)' = Disk(m)
  BY FilesStay
<1>16. ASSUME NEW k \in DOMAIN items' PROVE Covered(items[k])'
  <2> DEFINE m == items'[k].name
  <2>1. m \in Cached(items')
    BY DEF Cached
  <2>2. CASE m = n
    <3>1. items'[k].buff = got[c]
      <4>1. \A j \in DOMAIN s : s[j].name # n
        BY <1>1, <1>2 DEF Cached
      <4> QED BY <1>4, <2>2, <4>1 DEF Gained
    <3>2. CASE blind'[n] # {}
      BY <2>2, <3>2 DEF Covered
    <3>3. CASE blind'[n] = {}
      <4>1. got[c] = Disk(n) /\ watch'[n] # NoWatch
        BY <1>2, <1>13, <2>1, <2>2, <3>3 DEF Late, n
      <4>2. watch'[n] # NoWatch /\ active'[watch'[n]] = place'[n]
        BY <1>2, <1>6, <1>15, <4>1 DEF WatchAdded
      <4> QED BY <1>2, <1>15, <2>2, <3>1, <4>1, <4>2 DEF Covered, OnFile
    <3> QED BY <3>2, <3>3
  <2>3. CASE m # n
    <3>1. PICK i \in DOMAIN items : /\ items[i].name = m /\ items[i].buff = items'[k].buff
                                    /\ items[i].outdated => items'[k].outdated
      BY <1>5, <2>3
    <3>2. /\ m \in Cached(items) /\ m \in Names /\ watch'[m] = watch[m]
          /\ watch[m] # NoWatch => watch[m] \in Wd
      BY <1>9, <2>3, <3>1, ItemsAreWatched DEF Cached
    <3>3. /\ ToSet(queue) \subseteq ToSet(queue') /\ blind[m] \subseteq blind'[m]
          /\ blind'[m] # {} \/ ~LosesWatch(m)
      BY <1>7, <1>13, <2>1, <3>2
    <3>4. Covered(items[i])
      BY DEF IInv, AllCovered
    <3>5. CASE blind'[m] # {} \/ items'[k].outdated \/ ~listening
      BY <3>5 DEF Covered
    <3>6. CASE Heard(m)
      BY <3>2, <3>3, <3>6 DEF Covered, Heard
    <3>7. CASE blind'[m] = {} /\ items[i].buff = Disk(m) /\ OnFile(m)
      <4>1. /\ watch[m] # NoWatch /\ watch[m] \in Wd
            /\ active[watch[m]] = place[m] /\ place[m] # NULL
        BY <3>2, <3>7, Bounds DEF OnFile
      <4>2. CASE watch[m] \in Unwatched
        <5>1. \E e \in ToSet(queue') : e.wd = watch[m]
          BY <2>1, <3>2, <3>3, <3>7, <4>1, <4>2 DEF LosesWatch
        <5> QED BY <3>2, <4>1, <5>1 DEF Covered, Heard
      <4>3. CASE watch[m] \notin Unwatched
        <5>1. StillActive[watch[m]] = place[m]
          BY <4>1, <4>3 DEF StillActive
        <5>2. active'[watch[m]] = place[m]
          BY <1>6, <4>1, <5>1 DEF WatchAdded
        <5> QED BY <1>15, <3>1, <3>2, <3>7, <4>1, <5>2 DEF Covered, OnFile
      <4> QED BY <4>2, <4>3
    <3> QED BY <3>1, <3>3, <3>4, <3>5, <3>6, <3>7 DEF Covered
  <2> QED BY <2>2, <2>3
<1>17. AllCovered'
  BY <1>16 DEF AllCovered
<1> QED BY <1>11, <1>12, <1>14, <1>17 DEF IInv

LEMMA UpdateOrNotKeepsInvariant ==
  ASSUME IInv, NEW c \in Clients, mode[c] = "reading",
         items' = Add(UnlockNamed(items, want[c]), want[c], got[c], max_num_items),
         UpdateOrNot(c), ClientsTyped', UNCHANGED <<files, listening, max_num_items>>
  PROVE  IInv'
<1> DEFINE n == want[c]
           s == UnlockNamed(items, n)
<1>1. /\ n \in Cached(items) \/ n \notin Cached(items')
      /\ blind' =
           IF n \notin Cached(items) \/ ItemOf(n).locks > 1 THEN blind
           ELSE [blind EXCEPT ![n] =
                   IF Late(c) = {} /\ WatchedBy(n, place[n]) THEN {} ELSE @ \cup Late(c)]
      /\ UNCHANGED <<watch, active, nwatches, queue>>
  BY DEF UpdateOrNot
<1>2. /\ n \in Names /\ got[c] \in Content /\ Late(c) \in SUBSET Reasons
      /\ Kept(items, s) /\ Sound(s) /\ Cached(s) = Cached(items)
      /\ Len(s) = Len(items) /\ Len(s) <= max_num_items /\ max_num_items \in Nat
  BY OfferFacts
<1>3. items' = Add(s, n, got[c], max_num_items)
  OBVIOUS
<1>4. Sound(items)
  BY DEF IInv, Typed, ItemsTyped
<1>5. /\ DOMAIN s = DOMAIN items
      /\ \A k \in DOMAIN items :
           /\ s[k].name = items[k].name /\ s[k].buff = items[k].buff
           /\ s[k].outdated = items[k].outdated
           /\ items[k].name = n => (s[k].locks = 0 <=> ~(items[k].locks > 1))
  BY <1>4, UnlockNamedKeeps
<1> HIDE DEF s, n
<1>6. CASE n \notin Cached(items)
  <2>1. items' = s
    BY <1>1, <1>2, <1>3, <1>6, AddInserts
  <2> QED BY <1>1, <1>2, <1>6, <2>1, RelockingKeepsInvariant
<1>7. CASE n \in Cached(items)
  <2>1. PICK j \in DOMAIN items : items[j].name = n
    BY <1>7 DEF Cached
  <2>2. ItemOf(n) = items[j]
    BY <1>4, <2>1, ItemByName DEF ItemOf
  <2>3. j \in DOMAIN s /\ s[j].name = n
    BY <1>5, <2>1
  <2> DEFINE b == got[c]
             t == Add(s, n, b, max_num_items)
  <2>6. b \in Content /\ items' = t
    BY <1>2, <1>3
  <2> HIDE DEF b
  <2>7. /\ s[j].locks # 0 => t = s
        /\ s[j].locks = 0 =>
             /\ Sound(t) /\ DOMAIN t = DOMAIN s /\ Len(t) = Len(s)
             /\ \A k \in DOMAIN s : /\ t[k].name = s[k].name
                                    /\ t[k].buff = IF k = j THEN b ELSE s[k].buff
                                    /\ t[k].outdated = s[k].outdated
    <3>1. /\ t = Add(s, n, b, max_num_items) /\ Sound(s)
          /\ n \in Names /\ max_num_items \in Nat
      BY <1>2
    <3> HIDE DEF t
    <3>2. s[j].locks # 0 => t = s
      BY <2>3, <2>6, <3>1, AddUpdates
    <3>3. s[j].locks = 0 =>
            /\ Sound(t) /\ DOMAIN t = DOMAIN s /\ Len(t) = Len(s)
            /\ \A k \in DOMAIN s : /\ t[k].name = s[k].name
                                   /\ t[k].buff = IF k = j THEN b ELSE s[k].buff
                                   /\ t[k].outdated = s[k].outdated
      BY <2>3, <2>6, <3>1, AddUpdates
    <3> QED BY <3>2, <3>3
  <2> HIDE DEF t
  <2>4. CASE s[j].locks # 0
    <3>1. items' = s
      BY <2>4, <2>6, <2>7
    <3>2. blind' = blind
      BY <1>1, <1>5, <2>1, <2>2, <2>4
    <3> QED BY <1>1, <1>2, <3>1, <3>2, RelockingKeepsInvariant
  <2>5. CASE s[j].locks = 0
    <3>1. /\ Sound(items')
          /\ DOMAIN items' = DOMAIN items /\ Len(items') = Len(items)
          /\ \A k \in DOMAIN items :
               /\ items'[k].name = items[k].name
               /\ items'[k].buff = IF k = j THEN got[c] ELSE items[k].buff
               /\ items'[k].outdated = items[k].outdated
      BY <1>2, <1>5, <2>5, <2>6, <2>7 DEF b
    <3>2. blind' = [blind EXCEPT ![n] =
                      IF Late(c) = {} /\ OnFile(n) THEN {} ELSE @ \cup Late(c)]
      <4>1. WatchedBy(n, place[n]) <=> OnFile(n)
        BY <1>7 DEF WatchedBy, OnFile
      <4> QED BY <1>1, <1>5, <1>7, <2>1, <2>2, <2>5, <4>1
    <3>3. /\ blind' \in [Names -> SUBSET Reasons]
          /\ \A m \in Names : m # n => blind'[m] = blind[m]
          /\ ~(Late(c) = {} /\ OnFile(n)) =>
               blind'[n] = blind[n] \cup Late(c)
      BY <1>2, <3>2 DEF IInv, Typed, QueueTyped
    <3>4. Cached(items') = Cached(items)
      BY <3>1 DEF Cached
    <3>5. Typed'
      <4>1. ItemsTyped'
        BY <1>2, <3>1 DEF ItemsTyped
      <4>2. WatchesTyped'
        BY <1>1, <3>4 DEF IInv, Typed, WatchesTyped, Wds
      <4>3. QueueTyped'
        BY <1>1, <3>3 DEF IInv, Typed, QueueTyped, Wds
      <4> QED BY <4>1, <4>2, <4>3, FilesStay DEF Typed
    <3>6. OneWatch' /\ NoWatchLeaks'
      BY <1>1, <3>4 DEF IInv, OneWatch, NoWatchLeaks
    <3>7. \A m \in Names : place'[m] = place[m] /\ Disk(m)' = Disk(m)
      BY FilesStay
    <3>8. ASSUME NEW k \in DOMAIN items PROVE Covered(items[k])'
      <4>1. Covered(items[k]) /\ items[k].name \in Names
        BY <1>4, ItemFields DEF IInv, AllCovered, Sound
      <4>2. CASE k # j
        <5>1. items[k].name # n
          BY <1>4, <2>1, <4>2 DEF Sound
        <5> QED BY <1>1, <3>1, <3>3, <3>7, <4>1, <4>2, <5>1 DEF Covered, Heard, OnFile
      <4>3. CASE k = j
        <5>1. /\ items'[k].name = n /\ items'[k].buff = got[c]
              /\ items'[k].outdated = items[k].outdated
          BY <2>1, <3>1, <4>3
        <5>2. CASE Late(c) # {}
          <6>1. blind'[n] # {}
            BY <3>3, <5>2
          <6> QED BY <5>1, <6>1 DEF Covered
        <5>3. CASE Late(c) = {} /\ OnFile(n)
          <6>1. got[c] = Disk(n)
            BY <5>3 DEF Late, n
          <6> QED BY <1>1, <1>2, <3>7, <5>1, <5>3, <6>1 DEF Covered, OnFile
        <5>4. CASE Late(c) = {} /\ ~OnFile(n)
          <6>1. blind'[n] = blind[n]
            BY <3>3, <5>4
          <6> QED BY <1>1, <2>1, <4>1, <4>3, <5>1, <5>4, <6>1 DEF Covered, Heard
        <5> QED BY <5>2, <5>3, <5>4
      <4> QED BY <4>2, <4>3
    <3>9. AllCovered'
      BY <3>1, <3>8 DEF AllCovered
    <3> QED BY <3>5, <3>6, <3>9 DEF IInv
  <2> QED BY <2>4, <2>5
<1> QED BY <1>6, <1>7

LEMMA OfferKeepsInvariant ==
  ASSUME IInv, NEW c \in Clients, Offer(c), UNCHANGED max_num_items
  PROVE  IInv'
<1>1. /\ mode[c] = "reading"
      /\ items' = Add(UnlockNamed(items, want[c]), want[c], got[c], max_num_items)
      /\ Insert(c) \/ UpdateOrNot(c)
      /\ Becomes(c, "idle", NULL, NULL)
      /\ UNCHANGED <<files, listening>>
  BY DEF Offer
<1>2. ClientsTyped'
  BY <1>1, BecomesTyped
<1> QED BY <1>1, <1>2, InsertKeepsInvariant, UpdateOrNotKeepsInvariant

-----------------------------------------------------------------------------
(* Reads of events.                                                        *)

\* An event is the first one, is overwritten by it or remains to be read.
LEMMA QueueSplits ==
  ASSUME IInv, queue # <<>>
  PROVE  LET rest == SubSeq(queue, Len(Overwritten) + 2, Len(queue))
         IN /\ rest \in Seq(EventSet) /\ ToSet(rest) \subseteq ToSet(queue)
            /\ ToSet(queue) \subseteq {Head(queue)} \cup ToSet(Overwritten) \cup ToSet(rest)
<1> DEFINE n == Min({Len(queue), Batch})
           a == SubSeq(queue, 2, n)
           b == SubSeq(queue, n + 1, Len(queue))
<1>1. /\ queue \in Seq(EventSet) /\ Len(queue) \in Nat \ {0} /\ DOMAIN queue = 1..Len(queue)
      /\ \A k \in 1..Len(queue) : queue[k] \in EventSet
      /\ Head(queue) = queue[1]
  BY SequenceFacts, EmptySeq, HeadTailProperties DEF IInv, Typed, QueueTyped
<1>2. n \in 1..Len(queue)
  <2>1. {Len(queue), Batch} \in SUBSET Nat
    BY <1>1, Bounds
  <2>2. n \in {Len(queue), Batch} /\ n <= Len(queue)
    BY <2>1, MinOfNumbers
  <2> QED BY <1>1, <2>2, Bounds
<1> HIDE DEF n
<1>3. /\ a \in Seq(EventSet) /\ Len(a) = n - 1
      /\ \A k \in 1..(n - 1) : a[k] = queue[k + 1]
  <2>1. 2 \in Int /\ n \in Int /\ \A k \in 2..n : queue[k] \in EventSet
    BY <1>1, <1>2
  <2>2. /\ a \in Seq(EventSet) /\ Len(a) = IF 2 <= n THEN n - 2 + 1 ELSE 0
        /\ \A k \in 1..(n - 2 + 1) : a[k] = queue[2 + k - 1]
    BY <2>1, SubSeqProperties
  <2> QED BY <1>2, <2>2
<1>4. /\ b \in Seq(EventSet) /\ Len(b) = Len(queue) - n
      /\ \A k \in 1..(Len(queue) - n) : b[k] = queue[k + n]
  <2>1. n + 1 \in Int /\ Len(queue) \in Int /\ \A k \in (n + 1)..Len(queue) : queue[k] \in EventSet
    BY <1>1, <1>2
  <2>2. /\ b \in Seq(EventSet)
        /\ Len(b) = IF n + 1 <= Len(queue) THEN Len(queue) - (n + 1) + 1 ELSE 0
        /\ \A k \in 1..(Len(queue) - (n + 1) + 1) : b[k] = queue[(n + 1) + k - 1]
    BY <2>1, SubSeqProperties
  <2>3. Len(b) = Len(queue) - n
    <3> DEFINE l == Len(queue)
    <3>1. n \in Int /\ l \in Int /\ n <= l
      BY <1>1, <1>2
    <3> HIDE DEF l
    <3>2. /\ n + 1 <= l => l - (n + 1) + 1 = l - n
          /\ ~(n + 1 <= l) => 0 = l - n
      BY <3>1
    <3> HIDE DEF b
    <3> QED BY <2>2, <3>2 DEF l
  <2>4. ASSUME NEW k \in 1..(Len(queue) - n) PROVE b[k] = queue[k + n]
    <3>1. k \in 1..(Len(queue) - (n + 1) + 1) /\ (n + 1) + k - 1 = k + n
      BY <1>1, <1>2
    <3> HIDE DEF b
    <3>2. b[k] = queue[(n + 1) + k - 1]
      BY <2>2, <3>1
    <3> QED BY <3>1, <3>2
  <2> QED BY <2>2, <2>3, <2>4
<1>5. Overwritten = a /\ Len(Overwritten) + 2 = n + 1
  <2>1. Overwritten = a
    BY DEF Overwritten, n
  <2> QED BY <1>2, <1>3, <2>1
<1> HIDE DEF a, b
<1>6. DOMAIN a = 1..(n - 1) /\ DOMAIN b = 1..(Len(queue) - n)
  BY <1>3, <1>4, SequenceFacts
<1>7. ToSet(b) \subseteq ToSet(queue)
  BY <1>1, <1>2, <1>4, <1>6 DEF ToSet
<1>8. ASSUME NEW k \in DOMAIN queue
      PROVE  queue[k] \in {Head(queue)} \cup ToSet(a) \cup ToSet(b)
  <2>1. CASE k = 1
    BY <1>1, <2>1
  <2>2. CASE k # 1 /\ k <= n
    <3>1. k - 1 \in DOMAIN a /\ (k - 1) + 1 = k
      BY <1>1, <1>2, <1>6, <2>2
    <3>2. a[k - 1] = queue[k]
      BY <1>3, <1>6, <3>1
    <3> QED BY <3>1, <3>2 DEF ToSet
  <2>3. CASE ~(k <= n)
    <3>1. k - n \in DOMAIN b /\ (k - n) + n = k
      BY <1>1, <1>2, <1>6, <2>3
    <3>2. b[k - n] = queue[k]
      BY <1>4, <1>6, <3>1
    <3> QED BY <3>1, <3>2 DEF ToSet
  <2> QED BY <2>1, <2>2, <2>3
<1>9. ToSet(queue) \subseteq {Head(queue)} \cup ToSet(a) \cup ToSet(b)
  BY <1>8 DEF ToSet
<1> QED BY <1>4, <1>5, <1>7, <1>9 DEF b

\* The first item with the watch is invalidated.
LEMMA ProcessFacts ==
  ASSUME IInv, NEW wd, Process(wd)
  PROVE  /\ Kept(items, items')
         /\ About(wd) # {} =>
              /\ Min(About(wd)) \in DOMAIN items
              /\ \A k \in DOMAIN items' :
                   items'[k].name = items[Min(About(wd))].name => items'[k].outdated
<1>1. Sound(items) /\ About(wd) \in SUBSET Nat /\ About(wd) \subseteq DOMAIN items
  <2>1. Sound(items) /\ items \in Seq(Entry)
    BY DEF IInv, Typed, ItemsTyped, Sound
  <2>2. DOMAIN items \subseteq Nat
    BY <2>1, ItemFacts
  <2> QED BY <2>1, <2>2 DEF About
<1>2. CASE About(wd) = {}
  BY <1>1, <1>2, Unchanged DEF Process
<1>3. CASE About(wd) # {}
  <2>1. Min(About(wd)) \in DOMAIN items
    BY <1>1, <1>3, MinOfNumbers
  <2>2. items' = Invalidate(items, Min(About(wd)))
    BY <1>3 DEF Process
  <2> QED BY <1>1, <2>1, <2>2, InvalidateKeeps
<1> QED BY <1>2, <1>3

LEMMA ReadEventsKeepsInvariant ==
  ASSUME IInv, ReadEvents, UNCHANGED max_num_items
  PROVE  IInv'
<1> DEFINE wd == Head(queue).wd
           rest == SubSeq(queue, Len(Overwritten) + 2, Len(queue))
<1>1. /\ queue # <<>> /\ Process(wd)
      /\ queue' = RmWatch(rest) /\ active' = StillActive
      /\ blind' = Blinded(Unheard)
      /\ UNCHANGED <<files, watch, nwatches, listening, mode, want, got>>
  BY DEF ReadEvents, clients
<1>2. /\ rest \in Seq(EventSet) /\ ToSet(rest) \subseteq ToSet(queue)
      /\ ToSet(queue) \subseteq {Head(queue)} \cup ToSet(Overwritten) \cup ToSet(rest)
  BY <1>1, QueueSplits
<1> HIDE DEF rest, wd
<1>3. /\ Kept(items, items')
      /\ About(wd) # {} =>
           /\ Min(About(wd)) \in DOMAIN items
           /\ \A k \in DOMAIN items' :
                items'[k].name = items[Min(About(wd))].name => items'[k].outdated
  BY <1>1, ProcessFacts
<1>4. /\ queue' \in Seq(EventSet) /\ \A e \in ToSet(queue') : e.wd \in Wds
      /\ ToSet(rest) \subseteq ToSet(queue')
  <2>1. Extends(rest, rest)
    BY <1>2 DEF IInv, Typed, QueueTyped, Extends
  <2> QED BY <1>1, <2>1, RmWatchExtends DEF Extends
<1>5. /\ blind' \in [Names -> SUBSET Reasons]
      /\ \A m \in Names : m \in Cached(items') =>
           /\ blind[m] \subseteq blind'[m] /\ Unheard(m) \subseteq blind'[m]
           /\ blind'[m] # {} \/ ~LosesWatch(m)
  <2> DEFINE also == [m \in Names |-> Unheard(m)]
  <2>1. also \in [Names -> SUBSET Reasons]
    BY DEF Unheard, Reasons
  <2>2. blind' = [m \in Names |->
                    IF m \notin Cached(items') THEN {}
                    ELSE blind[m] \cup also[m] \cup (IF LosesWatch(m) THEN {"overflow"} ELSE {})]
    BY <1>1 DEF Blinded
  <2>3. \A m \in Names : also[m] = Unheard(m)
    OBVIOUS
  <2> HIDE DEF also
  <2> QED BY <2>1, <2>2, <2>3, BlindedFacts
<1>6. WatchesTyped' /\ OneWatch' /\ NoWatchLeaks'
  BY <1>1, <1>3, RemovalKeepsWatches
<1>7. Typed'
  <2>1. QueueTyped'
    BY <1>1, <1>4, <1>5 DEF IInv, Typed, QueueTyped, Wds
  <2> QED BY <1>1, <1>3, <1>6, <2>1, KeptItems, FilesStay, ClientsStay DEF Typed, clients
<1>8. ASSUME NEW k \in DOMAIN items' PROVE Covered(items[k])'
  <2> DEFINE n == items'[k].name
  <2>1. n \in Cached(items') /\ n \in Cached(items) /\ n \in Names
    BY <1>3, KeptCached, ItemsAreWatched DEF Cached
  <2>2. PICK i \in DOMAIN items : items[i].name = n
    BY <2>1 DEF Cached
  <2>3. /\ blind[n] \subseteq blind'[n] /\ Unheard(n) \subseteq blind'[n]
        /\ blind'[n] # {} \/ ~LosesWatch(n)
    BY <1>5, <2>1
  <2> HIDE DEF n
  <2>4. ASSUME Heard(n), ~InTouch(n)
        PROVE  \/ \E e \in ToSet(queue') : e.wd = watch[n]
               \/ blind'[n] # {}
               \/ items'[k].outdated
    <3>1. PICK e \in ToSet(queue) : e.wd = watch[n]
      BY <2>4 DEF Heard
    <3>2. CASE e = Head(queue)
      <4>1. watch[n] = wd /\ i \in About(wd)
        BY <2>2, <3>1, <3>2 DEF About, wd
      <4>2. CASE items[Min(About(wd))].name = n
        BY <1>3, <4>1, <4>2 DEF n
      <4>3. CASE items[Min(About(wd))].name # n
        <5>1. "shared" \in Unheard(n)
          BY <2>1, <2>4, <4>1, <4>3 DEF Unheard, wd
        <5> QED BY <2>3, <5>1
      <4> QED BY <4>2, <4>3
    <3>3. CASE e \in ToSet(Overwritten)
      <4>1. "overwritten" \in Unheard(n)
        BY <2>1, <2>4, <3>1, <3>3 DEF Unheard
      <4> QED BY <2>3, <4>1
    <3>4. CASE e \in ToSet(rest)
      BY <1>4, <3>1, <3>4
    <3> QED BY <1>2, <3>2, <3>3, <3>4
  <2>5. n = items'[k].name
    BY DEF n
  <2> QED BY <1>1, <1>3, <2>3, <2>4, <2>5, RemovalCovers
<1>9. AllCovered'
  BY <1>8 DEF AllCovered
<1> QED BY <1>6, <1>7, <1>9 DEF IInv

\* Nothing is promised from now on.
LEMMA ReadFailsKeepsInvariant ==
  ASSUME IInv, ReadFails, UNCHANGED max_num_items
  PROVE  IInv'
<1>1. /\ listening' = FALSE
      /\ UNCHANGED <<files, items, watch, active, nwatches, queue, mode, want, got, blind>>
  BY DEF ReadFails, clients
<1>2. Typed'
  <2>1. WatchesTyped' /\ QueueTyped'
    BY <1>1 DEF IInv, Typed, WatchesTyped, QueueTyped, Wds
  <2> QED BY <1>1, <2>1, ItemsStay, FilesStay, ClientsStay DEF Typed, clients
<1>3. OneWatch' /\ NoWatchLeaks'
  BY <1>1 DEF IInv, OneWatch, NoWatchLeaks
<1>4. AllCovered'
  BY <1>1 DEF AllCovered, Covered
<1> QED BY <1>2, <1>3, <1>4 DEF IInv

-----------------------------------------------------------------------------
(* The theorems.                                                           *)

LEMMA InitIsSound ==
  Init => IInv
<1> SUFFICES ASSUME Init PROVE IInv
  OBVIOUS
<1>1. FilesTyped
  <2>1. PICK k \in Inode : ninodes = k /\ place \in [Names -> 1..k]
    BY DEF Init
  <2>2. version = [i \in Inode |-> 0] /\ changes = 0 /\ 0 \in 0..MaxChanges
    BY SizesAssumption DEF Init
  <2>3. version \in [Inode -> 0..changes]
    BY <2>2
  <2> QED BY <2>1, <2>2, <2>3 DEF FilesTyped
<1>2. items = <<>> /\ Cached(items) = {} /\ Sound(items)
  BY EmptySeq DEF Init, Cached, Sound
<1>3. ItemsTyped
  <2>1. max_num_items \in Nat /\ Len(items) = 0
    BY <1>2, SizesAssumption DEF Init
  <2> QED BY <1>2, <2>1 DEF ItemsTyped
<1>4. WatchesTyped
  BY <1>2, SizesAssumption DEF Init, WatchesTyped
<1>5. QueueTyped
  <2>1. queue \in Seq(EventSet) /\ ToSet(queue) = {}
    BY EmptySeq DEF Init, ToSet
  <2> QED BY <2>1 DEF Init, QueueTyped
<1>6. ClientsTyped
  BY DEF Init, ClientsTyped
<1>7. OneWatch /\ NoWatchLeaks /\ AllCovered
  BY <1>2 DEF Init, OneWatch, NoWatchLeaks, AllCovered
<1> QED BY <1>1, <1>3, <1>4, <1>5, <1>6, <1>7 DEF IInv, Typed

LEMMA NextKeepsInvariant ==
  IInv /\ [Next]_vars => IInv'
<1> SUFFICES ASSUME IInv, [Next]_vars PROVE IInv'
  OBVIOUS
<1>1. ASSUME FileStep, UNCHANGED max_num_items PROVE IInv'
  BY <1>1, ModifyKeepsInvariant, DeleteKeepsInvariant, MoveAwayKeepsInvariant DEF FileStep
<1>2. ASSUME NEW c \in Clients, ClientStep(c), UNCHANGED max_num_items PROVE IInv'
  BY <1>2, HitKeepsInvariant, MissKeepsInvariant, ReturnKeepsInvariant, OfferKeepsInvariant
     DEF ClientStep
<1>3. CASE UNCHANGED vars
  <2>1. /\ UNCHANGED <<files, max_num_items, items, watch, active, nwatches, queue, listening,
                       clients, blind>>
        /\ UNCHANGED <<mode, want, got>>
    BY <1>3 DEF vars, clients
  <2>2. Sound(items) /\ ClientsTyped'
    BY <2>1, ClientsStay DEF IInv, Typed, ItemsTyped
  <2>3. Kept(items, items')
    BY <2>1, <2>2, Unchanged
  <2> QED BY <2>1, <2>2, <2>3, RelockingKeepsInvariant
<1> QED BY <1>1, <1>2, <1>3, ReadEventsKeepsInvariant, ReadFailsKeepsInvariant DEF Next

LEMMA InvariantHolds ==
  Spec => []IInv
BY InitIsSound, NextKeepsInvariant, PTL DEF Spec

\* The types: an item has the content of some version of some file, its watch is a
\* descriptor that inotify has given out or the -1 of a failed inotify_add_watch, and the
\* cache is never larger than it may be.
THEOREM CacheCoherenceTypeCorrect ==
  Spec => []TypeOK
BY InvariantHolds, TypesSuffice, PTL

\* remove_node ends the watch of an item that it frees, and inotify_add_watch, which gives
\* the same descriptor twice, does not undo that: no watch is left without an item.
THEOREM WatchesDoNotLeak ==
  Spec => []NoWatchLeaks
<1>1. IInv => NoWatchLeaks
  BY DEF IInv
<1> QED BY InvariantHolds, <1>1, PTL

\* An item that can be handed out is up to date and watched, has an event that will be
\* read, or is one of those whose change was lost in one of the six ways that blind
\* records, a failed inotify_add_watch and a full queue of events among them.
THEOREM LossesAreKnown ==
  Spec => []LostOnlyInKnownWays
BY InvariantHolds, CoveredSuffices, PTL

=============================================================================
