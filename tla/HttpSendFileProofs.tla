------------------------- MODULE HttpSendFileProofs -------------------------
(***************************************************************************)
(* Proofs about http_send_file, for any number of requests, files and      *)
(* ranges and any size of the cache.  First what each operator of          *)
(* CacheItems does to the names, buffers and locks of the items, then one  *)
(* lemma per action for each of three invariants: IInv (types, stages and  *)
(* owners of buffers), LocksCovered and AllSent.                           *)
(***************************************************************************)
EXTENDS HttpSendFile, DataLemmas

-----------------------------------------------------------------------------
(* The cache.                                                              *)

Entry == [name : Files, buff : Buffers, locks : Nat, outdated : BOOLEAN]

\* No file and no buffer is cached twice.
Distinct(s) ==
  \A i, j \in DOMAIN s : s[i].name = s[j].name \/ s[i].buff = s[j].buff => i = j

Sound(s) == s \in Seq(Entry) /\ Distinct(s)

NamesOf(s) == {s[i].name : i \in DOMAIN s}

SameLocks(s, t) ==
  \A i \in DOMAIN s, k \in DOMAIN t : s[i].name = t[k].name => t[k].locks = s[i].locks

\* t is s without some of its items, or with some of them outdated.
Reduced(s, t) ==
  /\ Sound(t)
  /\ BuffersOf(t) \subseteq BuffersOf(s) /\ NamesOf(t) \subseteq NamesOf(s)
  /\ SameLocks(s, t)

\* t has the files of s, and the locks of f are those that new gives for its old ones.
Relocked(s, t, f, new) ==
  /\ Sound(t)
  /\ BuffersOf(t) = BuffersOf(s) /\ NamesOf(t) = NamesOf(s)
  /\ \A i \in DOMAIN s, k \in DOMAIN t :
       s[i].name = t[k].name =>
         t[k].locks = IF s[i].name = f THEN new[s[i].locks] ELSE s[i].locks

More == [n \in Nat |-> n + 1]
Less == [n \in Nat |-> IF n # 0 THEN n - 1 ELSE n]

LEMMA ItemFacts ==
  ASSUME NEW s \in Seq(Entry)
  PROVE  /\ Len(s) \in Nat /\ DOMAIN s = 1..Len(s)
         /\ \A i \in DOMAIN s : s[i] \in Entry
BY SequenceFacts

\* The items of t are among those of s, at other positions perhaps.
LEMMA ReducedByPositions ==
  ASSUME NEW s, Sound(s), NEW t \in Seq(Entry), NEW m \in [DOMAIN t -> DOMAIN s],
         \A k, l \in DOMAIN t : m[k] = m[l] => k = l,
         \A k \in DOMAIN t : /\ t[k].name = s[m[k]].name
                             /\ t[k].buff = s[m[k]].buff
                             /\ t[k].locks = s[m[k]].locks
  PROVE  Reduced(s, t)
<1>1. Distinct(t)
  BY DEF Sound, Distinct
<1>2. BuffersOf(t) \subseteq BuffersOf(s) /\ NamesOf(t) \subseteq NamesOf(s)
  BY DEF BuffersOf, NamesOf
<1>3. SameLocks(s, t)
  BY DEF SameLocks, Sound, Distinct
<1> QED BY <1>1, <1>2, <1>3 DEF Reduced, Sound

LEMMA Unreduced ==
  ASSUME NEW s, Sound(s)
  PROVE  Reduced(s, s)
BY DEF Reduced, Sound, Distinct, SameLocks

LEMMA RemoveAtReduces ==
  ASSUME NEW s, Sound(s), NEW i \in DOMAIN s
  PROVE  Reduced(s, RemoveAt(s, i))
<1> DEFINE t == RemoveAt(s, i)
           m == [k \in DOMAIN t |-> IF k < i THEN k ELSE k + 1]
<1>1. s \in Seq(Entry) /\ Len(s) \in Nat /\ DOMAIN s = 1..Len(s) /\ i \in 1..Len(s)
  BY ItemFacts DEF Sound
<1>2. /\ t \in Seq(Entry) /\ DOMAIN t = 1..(Len(s) - 1)
      /\ \A k \in DOMAIN t : t[k] = IF k < i THEN s[k] ELSE s[k + 1]
  BY <1>1, RemoveAtIndices, ItemFacts
<1> HIDE DEF t
<1>3. m \in [DOMAIN t -> DOMAIN s] /\ \A k, l \in DOMAIN t : m[k] = m[l] => k = l
  BY <1>1, <1>2
<1>4. \A k \in DOMAIN t : t[k] = s[m[k]]
  BY <1>1, <1>2
<1> HIDE DEF m
<1>5. Reduced(s, t)
  BY <1>2, <1>3, <1>4, ReducedByPositions
<1> QED BY <1>5 DEF t

LEMMA RemoveIfUnusedReduces ==
  ASSUME NEW s, Sound(s), NEW i \in DOMAIN s
  PROVE  Reduced(s, RemoveIfUnused(s, i))
BY RemoveAtReduces, Unreduced DEF RemoveIfUnused

LEMMA AfterMissReduces ==
  ASSUME NEW s, Sound(s), NEW f
  PROVE  Reduced(s, AfterMiss(s, f))
<1>1. At(s, f) # {} => (CHOOSE i \in At(s, f) : TRUE) \in DOMAIN s
  BY DEF At
<1> QED BY <1>1, RemoveIfUnusedReduces, Unreduced DEF AfterMiss

LEMMA InvalidateReduces ==
  ASSUME NEW s, Sound(s), NEW i \in DOMAIN s
  PROVE  Reduced(s, Invalidate(s, i))
<1>1. CASE Unused(s, i)
  BY <1>1, RemoveAtReduces DEF Invalidate
<1>2. CASE ~Unused(s, i)
  <2> DEFINE e == [s[i] EXCEPT !.outdated = TRUE]
             t == [s EXCEPT ![i] = e]
             m == [k \in DOMAIN t |-> k]
  <2>1. Invalidate(s, i) = t
    BY <1>2 DEF Invalidate
  <2>2. s \in Seq(Entry) /\ i \in 1..Len(s) /\ s[i] \in Entry /\ DOMAIN s = 1..Len(s)
    BY ItemFacts DEF Sound
  <2>3. e \in Entry /\ e.name = s[i].name /\ e.buff = s[i].buff /\ e.locks = s[i].locks
    BY <2>2 DEF Entry
  <2> HIDE DEF e
  <2>4. /\ t \in Seq(Entry) /\ DOMAIN t = DOMAIN s
        /\ \A k \in DOMAIN s : t[k] = IF k = i THEN e ELSE s[k]
    BY <2>2, <2>3, ExceptSeq
  <2> HIDE DEF t
  <2>5. m \in [DOMAIN t -> DOMAIN s] /\ \A k, l \in DOMAIN t : m[k] = m[l] => k = l
    BY <2>4
  <2>6. \A k \in DOMAIN t : /\ t[k].name = s[m[k]].name
                            /\ t[k].buff = s[m[k]].buff
                            /\ t[k].locks = s[m[k]].locks
    BY <2>3, <2>4
  <2> HIDE DEF m
  <2> QED BY <2>1, <2>4, <2>5, <2>6, ReducedByPositions, ZenonT(60)
<1> QED BY <1>1, <1>2

\* The items of t are all those of s, at other positions perhaps.
LEMMA RelockedByPositions ==
  ASSUME NEW s, Sound(s), NEW t \in Seq(Entry), NEW m \in [DOMAIN t -> DOMAIN s],
         NEW f, NEW new,
         \A k, l \in DOMAIN t : m[k] = m[l] => k = l,
         \A i \in DOMAIN s : \E k \in DOMAIN t : m[k] = i,
         \A k \in DOMAIN t :
           /\ t[k].name = s[m[k]].name
           /\ t[k].buff = s[m[k]].buff
           /\ t[k].locks = IF s[m[k]].name = f THEN new[s[m[k]].locks] ELSE s[m[k]].locks
  PROVE  Relocked(s, t, f, new)
<1>1. Distinct(t)
  BY DEF Sound, Distinct
<1>2. BuffersOf(t) = BuffersOf(s) /\ NamesOf(t) = NamesOf(s)
  BY DEF BuffersOf, NamesOf
<1>3. ASSUME NEW i \in DOMAIN s, NEW k \in DOMAIN t, s[i].name = t[k].name
      PROVE  t[k].locks = IF s[i].name = f THEN new[s[i].locks] ELSE s[i].locks
  <2>1. m[k] = i
    BY <1>3 DEF Sound, Distinct
  <2> QED BY <2>1
<1> QED BY <1>1, <1>2, <1>3 DEF Relocked, Sound

LEMMA LockAtRelocks ==
  ASSUME NEW s, Sound(s), NEW i \in DOMAIN s
  PROVE  Relocked(s, LockAt(s, i), s[i].name, More)
<1> DEFINE e == [s[i] EXCEPT !.locks = @ + 1]
           r == RemoveAt(s, i)
           t == <<e>> \o r
           m == [k \in DOMAIN t |-> IF k = 1 THEN i ELSE IF k - 1 < i THEN k - 1 ELSE k]
<1>1. /\ s \in Seq(Entry) /\ Len(s) \in Nat /\ DOMAIN s = 1..Len(s) /\ i \in 1..Len(s)
      /\ s[i] \in Entry
  BY ItemFacts DEF Sound
<1>2. e \in Entry /\ e.name = s[i].name /\ e.buff = s[i].buff /\ e.locks = s[i].locks + 1
  BY <1>1 DEF Entry
<1> HIDE DEF e
<1>3. /\ r \in Seq(Entry) /\ Len(r) = Len(s) - 1
      /\ \A k \in 1..(Len(s) - 1) : r[k] = IF k < i THEN s[k] ELSE s[k + 1]
  BY <1>1, RemoveAtIndices
<1> HIDE DEF r
<1>4. /\ t \in Seq(Entry) /\ DOMAIN t = 1..Len(s)
      /\ \A k \in DOMAIN t : t[k] = IF k = 1 THEN e ELSE r[k - 1]
  <2>1. /\ t \in Seq(Entry) /\ Len(t) = Len(s)
        /\ \A k \in 1..Len(s) : t[k] = IF k = 1 THEN e ELSE r[k - 1]
    <3>1. Len(r) + 1 = Len(s)
      BY <1>1, <1>3
    <3>2. /\ t \in Seq(Entry) /\ Len(t) = Len(r) + 1
          /\ \A k \in 1..(Len(r) + 1) : t[k] = IF k = 1 THEN e ELSE r[k - 1]
      BY <1>2, <1>3, InFrontIndices
    <3> QED BY <3>1, <3>2
  <2> HIDE DEF t
  <2> QED BY <2>1, ItemFacts
<1>5. LockAt(s, i) = t
  BY DEF LockAt, e, r
<1> HIDE DEF t
<1>6. /\ m \in [DOMAIN t -> DOMAIN s]
      /\ \A k, l \in DOMAIN t : m[k] = m[l] => k = l
  BY <1>1, <1>4
<1>7. \A j \in DOMAIN s : \E k \in DOMAIN t : m[k] = j
  <2> SUFFICES ASSUME NEW j \in DOMAIN s PROVE \E k \in DOMAIN t : m[k] = j
    OBVIOUS
  <2>1. CASE j = i
    <3>1. 1 \in DOMAIN t /\ m[1] = j
      BY <1>1, <1>4, <2>1
    <3> QED BY <3>1
  <2>2. CASE j < i
    <3>1. j + 1 \in DOMAIN t /\ m[j + 1] = j
      BY <1>1, <1>4, <2>2
    <3> QED BY <3>1
  <2>3. CASE j > i
    <3>1. j \in DOMAIN t /\ m[j] = j
      BY <1>1, <1>4, <2>3
    <3> QED BY <3>1
  <2> QED BY <1>1, <2>1, <2>2, <2>3
<1>8. \A k \in DOMAIN t : t[k] = IF m[k] = i THEN e ELSE s[m[k]]
  <2> SUFFICES ASSUME NEW k \in DOMAIN t PROVE t[k] = IF m[k] = i THEN e ELSE s[m[k]]
    OBVIOUS
  <2>1. CASE k = 1
    BY <1>4, <2>1
  <2>2. CASE k # 1
    <3>1. k - 1 \in 1..(Len(s) - 1)
      BY <1>1, <1>4, <2>2
    <3>2. t[k] = IF k - 1 < i THEN s[k - 1] ELSE s[(k - 1) + 1]
      BY <1>3, <1>4, <2>2, <3>1
    <3>3. m[k] = (IF k - 1 < i THEN k - 1 ELSE k) /\ m[k] # i /\ (k - 1) + 1 = k
      BY <1>1, <1>4, <2>2
    <3> QED BY <3>2, <3>3
  <2> QED BY <2>1, <2>2
<1>9. \A k \in DOMAIN t :
        /\ t[k].name = s[m[k]].name
        /\ t[k].buff = s[m[k]].buff
        /\ t[k].locks = IF s[m[k]].name = s[i].name THEN More[s[m[k]].locks]
                                                   ELSE s[m[k]].locks
  <2>1. \A k \in DOMAIN t : s[m[k]].name = s[i].name => m[k] = i
    BY <1>6 DEF Sound, Distinct
  <2>2. More[s[i].locks] = s[i].locks + 1
    BY <1>1 DEF More, Entry
  <2> QED BY <1>2, <1>8, <2>1, <2>2
<1> HIDE DEF m
<1>10. Relocked(s, t, s[i].name, More)
  BY <1>4, <1>6, <1>7, <1>9, RelockedByPositions
<1> QED BY <1>5, <1>10

LEMMA UnlockNamedRelocks ==
  ASSUME NEW s, Sound(s), NEW f
  PROVE  Relocked(s, UnlockNamed(s, f), f, Less)
<1> DEFINE t == UnlockNamed(s, f)
           m == [k \in DOMAIN t |-> k]
<1>1. /\ s \in Seq(Entry) /\ Len(s) \in Nat /\ DOMAIN s = 1..Len(s)
      /\ \A k \in DOMAIN s : s[k] \in Entry
  BY ItemFacts DEF Sound
<1>2. DOMAIN t = DOMAIN s
  BY DEF UnlockNamed
<1>3. ASSUME NEW k \in DOMAIN s
      PROVE  /\ t[k] \in Entry
             /\ t[k].name = s[k].name /\ t[k].buff = s[k].buff
             /\ t[k].locks = IF s[k].name = f THEN Less[s[k].locks] ELSE s[k].locks
  <2>1. s[k] \in Entry
    BY <1>1
  <2>2. CASE s[k].name = f /\ s[k].locks # 0
    <3>1. t[k] = [s[k] EXCEPT !.locks = @ - 1]
      BY <2>2 DEF UnlockNamed
    <3>2. s[k].locks - 1 \in Nat
      BY <2>1, <2>2 DEF Entry
    <3>3. Less[s[k].locks] = s[k].locks - 1
      BY <2>1, <2>2 DEF Entry, Less
    <3> QED BY <2>1, <2>2, <3>1, <3>2, <3>3 DEF Entry
  <2>3. CASE ~(s[k].name = f /\ s[k].locks # 0)
    <3>1. t[k] = s[k]
      BY <2>3 DEF UnlockNamed
    <3>2. s[k].name = f => Less[s[k].locks] = s[k].locks
      BY <2>1, <2>3 DEF Entry, Less
    <3> QED BY <2>1, <3>1, <3>2
  <2> QED BY <2>2, <2>3
<1>4. t \in Seq(Entry)
  <2>1. t = [k \in 1..Len(s) |-> t[k]]
    BY <1>1 DEF UnlockNamed
  <2>2. [k \in 1..Len(s) |-> t[k]] \in Seq(Entry)
    BY <1>1, <1>3, IsASeq
  <2> QED BY <2>1, <2>2
<1> HIDE DEF t
<1>5. /\ m \in [DOMAIN t -> DOMAIN s]
      /\ \A k, l \in DOMAIN t : m[k] = m[l] => k = l
      /\ \A i \in DOMAIN s : \E k \in DOMAIN t : m[k] = i
      /\ \A k \in DOMAIN t : m[k] = k
  BY <1>2
<1> HIDE DEF m
<1>6. Relocked(s, t, f, Less)
  BY <1>2, <1>3, <1>4, <1>5, RelockedByPositions
<1> QED BY <1>6 DEF t

\* What RefuseCached does: a lock that is returned at once leaves all as it was.
LEMMA LockedAndUnlocked ==
  ASSUME NEW s, Sound(s), NEW i \in DOMAIN s
  PROVE  Reduced(s, UnlockNamed(LockAt(s, i), s[i].name))
<1> DEFINE f == s[i].name
           u == LockAt(s, i)
           t == UnlockNamed(u, f)
<1>1. Relocked(s, u, f, More)
  BY LockAtRelocks
<1>2. Relocked(u, t, f, Less)
  <2>1. Sound(u)
    BY <1>1 DEF Relocked
  <2> QED BY <2>1, UnlockNamedRelocks
<1> HIDE DEF f, u, t
<1>3. ASSUME NEW j \in DOMAIN s, NEW k \in DOMAIN t, s[j].name = t[k].name
      PROVE  t[k].locks = s[j].locks
  <2>1. PICK l \in DOMAIN u : u[l].name = s[j].name
    BY <1>1, ZenonT(60) DEF Relocked, NamesOf
  <2>2. s[j].locks \in Nat
    BY ItemFacts DEF Sound, Entry
  <2>3. u[l].locks = IF s[j].name = f THEN s[j].locks + 1 ELSE s[j].locks
    BY <1>1, <2>1, <2>2 DEF Relocked, More
  <2>4. t[k].locks = IF s[j].name = f THEN Less[s[j].locks + 1] ELSE s[j].locks
    BY <1>2, <1>3, <2>1, <2>3 DEF Relocked
  <2>5. Less[s[j].locks + 1] = s[j].locks
    BY <2>2 DEF Less
  <2> QED BY <2>4, <2>5
<1>4. Reduced(s, t)
  BY <1>1, <1>2, <1>3 DEF Reduced, Relocked, SameLocks
<1> QED BY <1>4 DEF f, u, t

\* t is what an addition of buffer b as file f makes of s.
Added(s, t, f, b) ==
  /\ Sound(t)
  /\ BuffersOf(t) \subseteq BuffersOf(s) \cup {b} /\ NamesOf(t) \subseteq NamesOf(s) \cup {f}
  /\ SameLocks(s, t)
  /\ \A k \in DOMAIN t : t[k].name \notin NamesOf(s) => t[k].locks = 0

LEMMA UnchangedIsAdded ==
  ASSUME NEW s, Sound(s), NEW f, NEW b
  PROVE  Added(s, s, f, b)
BY Unreduced DEF Added, Reduced, NamesOf

LEMMA InFrontAdds ==
  ASSUME NEW s, NEW r, Sound(r), Reduced(s, r),
         NEW f \in Files, f \notin NamesOf(s), NEW b \in Buffers, b \notin BuffersOf(s)
  PROVE  Added(s, <<Item(f, b)>> \o r, f, b)
<1> DEFINE e == Item(f, b)
           t == <<e>> \o r
<1>1. e \in Entry /\ e.name = f /\ e.buff = b /\ e.locks = 0
  BY DEF Item, Entry
<1> HIDE DEF e
<1>2. r \in Seq(Entry) /\ Len(r) \in Nat /\ DOMAIN r = 1..Len(r)
  BY ItemFacts DEF Sound
<1>3. /\ t \in Seq(Entry) /\ Len(t) = Len(r) + 1
      /\ \A k \in 1..(Len(r) + 1) : t[k] = IF k = 1 THEN e ELSE r[k - 1]
  BY <1>1, <1>2, InFrontIndices
<1> HIDE DEF t
<1>4. DOMAIN t = 1..(Len(r) + 1)
  BY <1>3, ItemFacts
<1>5. \A k \in DOMAIN t : k # 1 => k - 1 \in DOMAIN r /\ t[k] = r[k - 1]
  BY <1>2, <1>3, <1>4
<1>6. t[1] = e
  BY <1>2, <1>3
<1>7. \A k \in DOMAIN r : r[k].name # f /\ r[k].buff # b
  BY DEF Reduced, NamesOf, BuffersOf
<1>8. Distinct(t)
  <2> SUFFICES ASSUME NEW k \in DOMAIN t, NEW l \in DOMAIN t,
                      t[k].name = t[l].name \/ t[k].buff = t[l].buff
               PROVE  k = l
    BY DEF Distinct
  <2>1. CASE k = 1 \/ l = 1
    BY <1>1, <1>5, <1>6, <1>7, <2>1
  <2>2. CASE k # 1 /\ l # 1
    <3>1. k - 1 = l - 1
      BY <1>5, <2>2 DEF Sound, Distinct
    <3> QED BY <1>2, <1>4, <3>1
  <2> QED BY <2>1, <2>2
<1>9. BuffersOf(t) \subseteq BuffersOf(s) \cup {b} /\ NamesOf(t) \subseteq NamesOf(s) \cup {f}
  <2>1. ASSUME NEW k \in DOMAIN t
        PROVE  t[k].buff \in BuffersOf(s) \cup {b} /\ t[k].name \in NamesOf(s) \cup {f}
    <3>1. CASE k = 1
      BY <1>1, <1>6, <3>1
    <3>2. CASE k # 1
      BY <1>5, <3>2 DEF Reduced, BuffersOf, NamesOf
    <3> QED BY <3>1, <3>2
  <2> QED BY <2>1 DEF BuffersOf, NamesOf
<1>10. SameLocks(s, t)
  BY <1>1, <1>5, <1>6 DEF Reduced, SameLocks, NamesOf
<1>11. \A k \in DOMAIN t : t[k].name \notin NamesOf(s) => t[k].locks = 0
  <2>1. \A k \in DOMAIN r : r[k].name \in NamesOf(s)
    BY DEF Reduced, NamesOf
  <2> QED BY <1>1, <1>5, <1>6, <2>1
<1>12. Added(s, t, f, b)
  BY <1>3, <1>8, <1>9, <1>10, <1>11 DEF Added, Sound
<1> QED BY <1>12 DEF t, e

LEMMA FrontReduces ==
  ASSUME NEW s, Sound(s), s # <<>>
  PROVE  Reduced(s, Front(s))
<1> DEFINE t == SubSeq(s, 1, Len(s) - 1)
           m == [k \in DOMAIN t |-> k]
<1>1. /\ s \in Seq(Entry) /\ Len(s) \in Nat /\ Len(s) >= 1 /\ DOMAIN s = 1..Len(s)
      /\ \A k \in DOMAIN s : s[k] \in Entry
  BY ItemFacts, EmptySeq DEF Sound
<1>2. 1 \in Int /\ Len(s) - 1 \in Int /\ \A k \in 1..(Len(s) - 1) : s[k] \in Entry
  BY <1>1
<1>3. /\ t \in Seq(Entry)
      /\ Len(t) = IF 1 <= Len(s) - 1 THEN (Len(s) - 1) - 1 + 1 ELSE 0
      /\ \A k \in 1..((Len(s) - 1) - 1 + 1) : t[k] = s[1 + k - 1]
  BY <1>2, SubSeqProperties
<1> HIDE DEF t
<1>4. DOMAIN t = 1..(Len(s) - 1) /\ \A k \in DOMAIN t : t[k] = s[k]
  <2>1. PICK n \in Nat : n = Len(s) /\ n >= 1
    BY <1>1
  <2>2. Len(t) = IF 1 <= n - 1 THEN (n - 1) - 1 + 1 ELSE 0
    BY <1>3, <2>1
  <2>3. (IF 1 <= n - 1 THEN (n - 1) - 1 + 1 ELSE 0) = n - 1
    BY <2>1
  <2>4. ASSUME NEW k \in 1..(n - 1) PROVE t[k] = s[k]
    <3>1. k \in 1..((n - 1) - 1 + 1) /\ 1 + k - 1 = k
      BY <2>1
    <3>2. t[k] = s[1 + k - 1]
      BY <1>3, <2>1, <3>1
    <3> QED BY <3>1, <3>2
  <2> QED BY <1>3, <2>1, <2>2, <2>3, <2>4, ItemFacts
<1>5. /\ m \in [DOMAIN t -> DOMAIN s] /\ \A k, l \in DOMAIN t : m[k] = m[l] => k = l
      /\ \A k \in DOMAIN t : t[k] = s[m[k]]
  BY <1>1, <1>4
<1> HIDE DEF m
<1>6. Reduced(s, t)
  BY <1>3, <1>5, ReducedByPositions
<1> QED BY <1>6 DEF t, Front

LEMMA AddAdds ==
  ASSUME NEW s, Sound(s), NEW f \in Files, NEW b \in Buffers, b \notin BuffersOf(s), NEW max
  PROVE  Added(s, Add(s, f, b, max), f, b)
<1>1. CASE At(s, f) # {}
  <2> DEFINE i == CHOOSE i \in At(s, f) : TRUE
             e == [s[i] EXCEPT !.buff = b]
             t == [s EXCEPT ![i].buff = b]
  <2>1. i \in DOMAIN s /\ s[i].name = f
    BY <1>1 DEF At
  <2>2. Add(s, f, b, max) = IF Unused(s, i) THEN t ELSE s
    BY <1>1 DEF Add
  <2> HIDE DEF i
  <2>3. s \in Seq(Entry) /\ i \in 1..Len(s) /\ s[i] \in Entry /\ DOMAIN s = 1..Len(s)
    BY <2>1, ItemFacts DEF Sound
  <2>4. e \in Entry /\ e.name = f /\ e.buff = b /\ e.locks = s[i].locks
    BY <2>1, <2>3 DEF Entry
  <2>5. t = [s EXCEPT ![i] = e]
    OBVIOUS
  <2> HIDE DEF e, t
  <2>6. /\ t \in Seq(Entry) /\ DOMAIN t = DOMAIN s
        /\ \A k \in DOMAIN s : t[k] = IF k = i THEN e ELSE s[k]
    BY <2>3, <2>4, <2>5, ExceptSeq
  <2>7. \A k \in DOMAIN s : /\ t[k].name = s[k].name /\ t[k].locks = s[k].locks
                            /\ t[k].buff = IF k = i THEN b ELSE s[k].buff
    BY <2>1, <2>4, <2>6
  <2>8. Distinct(t)
    BY <2>6, <2>7 DEF Sound, Distinct, BuffersOf
  <2>9. Added(s, t, f, b)
    BY <2>6, <2>7, <2>8 DEF Added, Sound, Distinct, BuffersOf, NamesOf, SameLocks
  <2> QED BY <2>2, <2>9, UnchangedIsAdded
<1>2. CASE At(s, f) = {}
  <2>1. f \notin NamesOf(s)
    BY <1>2 DEF At, NamesOf
  <2>2. Added(s, <<Item(f, b)>> \o s, f, b)
    BY <2>1, Unreduced, InFrontAdds
  <2>3. s # <<>> => Added(s, <<Item(f, b)>> \o Front(s), f, b)
    BY <2>1, FrontReduces, InFrontAdds DEF Reduced
  <2> QED BY <1>2, <2>2, <2>3, UnchangedIsAdded DEF Add
<1> QED BY <1>1, <1>2

-----------------------------------------------------------------------------
(* The invariant.                                                          *)

RangeSet == {r \in [start : Nat, end : Nat] : r.start <= r.end}

JobSet ==
  [file : Files \cup {NULL}, buff : Buffers \cup {NULL}, own : BOOLEAN, ranges : Seq(RangeSet),
   idx : Nat, progress : Nat, left : Nat, op : {"none", "inflight", "rejected"}]

ResponseSet ==
  [source : {"file", "iovecs"}, announced : Nat, len : Nat, from : Nat, sent : Nat]

Typed ==
  /\ Sound(items)
  /\ allocated \subseteq Buffers
  /\ stage \in [Clients -> Stages]
  /\ job \in [Clients -> JobSet]
  /\ responses \in [Clients -> Seq(ResponseSet)]
  /\ eintrs \in [Clients -> 0..MaxEintr]

\* What the stage of a request says about its task.
Phased ==
  \A c \in Clients :
    /\ job[c].own => stage[c] \in {"reading", "sending"}
    /\ stage[c] = "reading" => job[c].own
    /\ stage[c] \in {"reading", "sending"} => job[c].file \in Files /\ job[c].buff \in Buffers
    /\ stage[c] = "sending" => responses[c] # <<>>

\* OneOwnerEach without counting.
Owned ==
  /\ \A b : b \in allocated <=>
       b \in BuffersOf(items) \/ \E c \in Clients : job[c].own /\ job[c].buff = b
  /\ \A c \in Clients : job[c].own => job[c].buff \notin BuffersOf(items)
  /\ \A c, d \in Clients : job[c].own /\ job[d].own /\ job[c].buff = job[d].buff => c = d

IInv == Typed /\ Phased /\ Owned

LEMMA ItemsAreCounted ==
  ASSUME NEW s, Sound(s)
  PROVE  Cardinality(BuffersOf(s)) = Len(s)
<1> DEFINE n == Len(s)
           g == [i \in 1..n |-> s[i].buff]
<1>1. n \in Nat /\ DOMAIN s = 1..n
  BY ItemFacts DEF Sound
<1>2. g \in Surjection(1..n, BuffersOf(s))
  BY <1>1 DEF BuffersOf, Surjection
<1>3. g \in Injection(1..n, BuffersOf(s))
  BY <1>1, <1>2 DEF Sound, Distinct, Injection, IsInjective, Surjection
<1>4. IsFiniteSet(1..n) /\ Cardinality(1..n) = n
  <2>1. 1 \in Int /\ n \in Int /\ (IF 1 > n THEN 0 ELSE n - 1 + 1) = n
    BY <1>1
  <2> HIDE DEF n
  <2>2. IsFiniteSet(1..n) /\ Cardinality(1..n) = IF 1 > n THEN 0 ELSE n - 1 + 1
    BY <2>1, FS_Interval
  <2> QED BY <2>1, <2>2
<1> HIDE DEF g, n
<1>5. Cardinality(BuffersOf(s)) = Cardinality(1..n)
  BY <1>2, <1>3, <1>4, FS_Surjection
<1> QED BY <1>4, <1>5 DEF n

LEMMA InitSound == Init => IInv
<1> SUFFICES ASSUME Init PROVE IInv
  OBVIOUS
<1> USE DEF Init
<1>1. Sound(items) /\ BuffersOf(items) = {}
  <2>1. items \in Seq(Entry) /\ DOMAIN items = {}
    <3>1. items \in Seq(Entry) /\ Len(items) = 0
      OBVIOUS
    <3> QED BY <3>1, ItemFacts
  <2> QED BY <2>1 DEF Sound, Distinct, BuffersOf
<1>2. NoJob \in JobSet /\ ~NoJob.own
  BY DEF NoJob, Job, JobSet
<1>3. Typed
  BY <1>1, <1>2, FaultsAssumption DEF Typed, Stages
<1>4. Phased
  BY <1>2 DEF Phased
<1>5. Owned
  BY <1>1, <1>2 DEF Owned
<1> QED BY <1>3, <1>4, <1>5 DEF IInv

-----------------------------------------------------------------------------
(* What steps are made of.                                                 *)

LEMMA DeclinedIsSound ==
  ASSUME NEW s, Sound(s), NEW f, NEW q, NEW t \in Declined(s, f, q)
  PROVE  /\ Sound(t) /\ BuffersOf(t) \subseteq BuffersOf(s)
         /\ "submit" \notin Faults => Reduced(s, t)
<1>1. CASE t = AfterMiss(s, f)
  BY <1>1, AfterMissReduces DEF Reduced
<1>2. CASE "submit" \in Faults /\ \E i \in At(s, f) : t = LockAt(s, i)
  BY <1>2, LockAtRelocks DEF Relocked, At
<1> QED BY <1>1, <1>2 DEF Declined

LEMMA RangesAreTyped ==
  ASSUME NEW f, NEW q \in RangesFor(f)
  PROVE  q.ranges \in Seq(RangeSet) /\ q.valid \in BOOLEAN
<1>1. CASE q = Unsatisfiable
  BY <1>1 DEF Unsatisfiable
<1>2. CASE \E r \in RangeLists : q = Satisfiable(r)
  BY <1>2, RangesAssumption DEF Satisfiable, RangeSet
<1> QED BY <1>1, <1>2 DEF RangesFor

LEMMA RangeResponseIsTyped ==
  ASSUME NEW source \in {"file", "iovecs"}, NEW r \in RangeSet
  PROVE  /\ RangeResponse(source, r) \in ResponseSet
         /\ RangeResponse(source, r).sent = 0
         /\ RangeResponse(source, r).announced = RangeResponse(source, r).len + 1
<1>1. r.start \in Nat /\ r.end \in Nat /\ r.start <= r.end
  BY DEF RangeSet
<1>2. r.end - r.start \in Nat /\ 1 + r.end - r.start = (r.end - r.start) + 1
  BY <1>1
<1> QED BY <1>2 DEF RangeResponse, Response, ResponseSet

\* The lengths of responses: what is announced, or a byte less.
Honest(r) == r.announced \in {r.len, r.len + 1}

LEMMA FirstResponseIsTyped ==
  ASSUME NEW j \in JobSet, j.file \in Files
  PROVE  FirstResponse(j) \in ResponseSet /\ FirstResponse(j).sent = 0 /\ Honest(FirstResponse(j))
<1>1. CASE j.ranges = <<>>
  <2>1. Size[j.file] \in Nat
    BY FilesAssumption
  <2> QED BY <1>1, <2>1 DEF FirstResponse, Response, ResponseSet, Honest
<1>2. CASE j.ranges # <<>>
  <2>1. j.ranges[1] \in RangeSet
    <3>1. j.ranges \in Seq(RangeSet)
      BY DEF JobSet
    <3> QED BY <1>2, <3>1
  <2> QED BY <1>2, <2>1, RangeResponseIsTyped DEF FirstResponse, Honest
<1> QED BY <1>1, <1>2

LEMMA NextResponseIsTyped ==
  ASSUME NEW j \in JobSet, j.idx < Len(j.ranges)
  PROVE  NextResponse(j) \in ResponseSet /\ NextResponse(j).sent = 0 /\ Honest(NextResponse(j))
<1>1. j.ranges \in Seq(RangeSet) /\ j.idx \in Nat
  BY DEF JobSet
<1>2. j.ranges[j.idx + 1] \in RangeSet
  BY <1>1
<1> QED BY <1>2, RangeResponseIsTyped DEF NextResponse, Honest

\* The task and the response that Begin makes of what it is given.
BegunTask(j, r, op) == [j EXCEPT !.idx = @ + 1, !.left = Header + r.len, !.op = op]
BegunResponse(j, r) == [r EXCEPT !.from = j.progress]

LEMMA BeginSets ==
  ASSUME Typed, NEW c \in Clients, NEW j \in JobSet, NEW rs \in Seq(ResponseSet),
         NEW r \in ResponseSet, NEW op \in Submitted, Begin(c, j, rs, r, op)
  PROVE  /\ job' \in [Clients -> JobSet] /\ responses' \in [Clients -> Seq(ResponseSet)]
         /\ \A d \in Clients \ {c} : job'[d] = job[d] /\ responses'[d] = responses[d]
         /\ job'[c] = BegunTask(j, r, op) /\ responses'[c] = Append(rs, BegunResponse(j, r))
         /\ job'[c].file = j.file /\ job'[c].buff = j.buff /\ job'[c].own = j.own
         /\ responses'[c] # <<>>
<1>1. Header \in Nat /\ r.len \in Nat /\ j.idx \in Nat /\ j.progress \in Nat
  BY HeaderAssumption DEF JobSet, ResponseSet
<1>2. op \in {"none", "inflight", "rejected"}
  BY DEF Submitted
<1>3. /\ BegunTask(j, r, op) \in JobSet
      /\ BegunTask(j, r, op).file = j.file /\ BegunTask(j, r, op).buff = j.buff
      /\ BegunTask(j, r, op).own = j.own
  <2>1. j.idx + 1 \in Nat /\ Header + r.len \in Nat
    BY <1>1
  <2> QED BY <1>2, <2>1 DEF JobSet, BegunTask
<1>4. BegunResponse(j, r) \in ResponseSet
  BY <1>1 DEF ResponseSet, BegunResponse
<1>5. /\ Append(rs, BegunResponse(j, r)) \in Seq(ResponseSet)
      /\ Append(rs, BegunResponse(j, r)) # <<>>
  BY <1>4, AppendProperties
<1>6. /\ job' = [job EXCEPT ![c] = BegunTask(j, r, op)]
      /\ responses' = [responses EXCEPT ![c] = Append(rs, BegunResponse(j, r))]
  BY DEF Begin, BegunTask, BegunResponse
<1> QED BY <1>3, <1>4, <1>5, <1>6 DEF Typed

\* Tasks that keep their buffers, and a cache that gets no new one.
LEMMA OwnersStay ==
  ASSUME IInv, Sound(items'), BuffersOf(items') \subseteq BuffersOf(items),
         allocated' = allocated \ Released(items, items'),
         \A c \in Clients :
           (job'[c].own <=> job[c].own) /\ (job[c].own => job'[c].buff = job[c].buff)
  PROVE  Owned' /\ allocated' \subseteq Buffers
<1>1. \A b : b \in allocated' <=>
        b \in BuffersOf(items') \/ \E c \in Clients : job'[c].own /\ job'[c].buff = b
  BY DEF IInv, Owned, Released
<1>2. \A c \in Clients : job'[c].own => job'[c].buff \notin BuffersOf(items')
  BY DEF IInv, Owned
<1>3. \A c, d \in Clients : job'[c].own /\ job'[d].own /\ job'[c].buff = job'[d].buff => c = d
  BY DEF IInv, Owned
<1>4. allocated' \subseteq Buffers
  BY DEF IInv, Typed
<1>5. BuffersOf(items)' = BuffersOf(items')
  BY DEF BuffersOf
<1> QED BY <1>1, <1>2, <1>3, <1>4, <1>5 DEF Owned

-----------------------------------------------------------------------------
(* The invariant is inductive: the request.                                *)

LEMMA SendCachedKeeps ==
  ASSUME IInv, NEW c \in Clients, stage[c] = "idle",
         NEW cached, Sound(cached), BuffersOf(cached) \subseteq BuffersOf(items),
         NEW f \in Files, NEW q \in RangesFor(f), SendCached(c, cached, f, q),
         allocated' = allocated \ Released(items, items'), UNCHANGED eintrs
  PROVE  IInv'
<1>1. PICK i \in At(cached, f) :
        /\ items' = LockAt(cached, i)
        /\ stage' = [stage EXCEPT ![c] = "sending"]
        /\ LET j == Job(f, cached[i].buff, FALSE, q.ranges)
           IN Begin(c, j, <<>>, FirstResponse(j), "inflight")
  BY DEF SendCached
<1> DEFINE j == Job(f, cached[i].buff, FALSE, q.ranges)
<1>2. i \in DOMAIN cached /\ cached[i].buff \in Buffers
  BY ItemFacts DEF At, Sound, Entry
<1>3. Sound(items') /\ BuffersOf(items') = BuffersOf(cached)
  BY <1>1, <1>2, LockAtRelocks DEF Relocked
<1>4. /\ j \in JobSet /\ j.file = f /\ j.buff \in Buffers /\ ~j.own
  BY <1>2, RangesAreTyped DEF Job, JobSet
<1> HIDE DEF j
<1>5. FirstResponse(j) \in ResponseSet
  BY <1>4, FirstResponseIsTyped
<1>6. Begin(c, j, <<>>, FirstResponse(j), "inflight")
  BY <1>1 DEF j
<1>7. /\ job' \in [Clients -> JobSet] /\ responses' \in [Clients -> Seq(ResponseSet)]
      /\ \A d \in Clients \ {c} : job'[d] = job[d] /\ responses'[d] = responses[d]
      /\ job'[c].file = f /\ job'[c].buff \in Buffers /\ ~job'[c].own
      /\ responses'[c] # <<>>
  <2>1. <<>> \in Seq(ResponseSet) /\ "inflight" \in Submitted /\ Typed
    BY DEF Submitted, IInv
  <2> QED BY <1>4, <1>5, <1>6, <2>1, BeginSets
<1>8. ~job[c].own
  BY DEF IInv, Phased
<1>9. Owned' /\ allocated' \subseteq Buffers
  BY <1>3, <1>7, <1>8, OwnersStay
<1>10. stage \in [Clients -> Stages] /\ stage' \in [Clients -> Stages]
  BY <1>1 DEF IInv, Typed, Stages
<1>11. Typed'
  BY <1>3, <1>7, <1>9, <1>10 DEF IInv, Typed, Sound, Distinct
<1>12. Phased'
  BY <1>1, <1>7, <1>10 DEF IInv, Phased
<1> QED BY <1>9, <1>11, <1>12 DEF IInv

\* Requests that end at once.
LEMMA RefusalKeeps ==
  ASSUME IInv, NEW c \in Clients, stage[c] = "idle",
         Sound(items'), BuffersOf(items') \subseteq BuffersOf(items),
         allocated' = allocated \ Released(items, items'),
         NEW end \in {"refused", "dropped"}, stage' = [stage EXCEPT ![c] = end],
         UNCHANGED <<job, responses, eintrs>>
  PROVE  IInv'
<1>1. Owned' /\ allocated' \subseteq Buffers
  BY OwnersStay
<1>2. stage \in [Clients -> Stages] /\ stage' \in [Clients -> Stages]
  BY DEF IInv, Typed, Stages, Ends
<1>3. Typed'
  BY <1>1, <1>2 DEF IInv, Typed, Sound, Distinct
<1>4. ~job[c].own
  BY DEF IInv, Phased
<1>5. Phased'
  BY <1>2, <1>4 DEF IInv, Phased
<1> QED BY <1>1, <1>3, <1>5 DEF IInv

LEMMA RefuseCachedIsSound ==
  ASSUME NEW c, NEW cached, Sound(cached), NEW f, NEW q, RefuseCached(c, cached, f, q)
  PROVE  /\ Reduced(cached, items') /\ stage' = [stage EXCEPT ![c] = "refused"]
         /\ UNCHANGED <<job, responses>>
BY LockedAndUnlocked DEF RefuseCached, At

LEMMA RequestCachedKeeps ==
  ASSUME IInv, NEW c \in Clients, NEW f \in Files, NEW q \in RangesFor(f),
         RequestCached(c, f, q)
  PROVE  IInv'
<1>1. stage[c] = "idle" /\ Sound(items) /\ UNCHANGED <<allocated, eintrs>>
  BY DEF RequestCached, IInv, Typed
<1>2. CASE SendCached(c, items, f, q)
  <2>1. BuffersOf(items') = BuffersOf(items)
    BY <1>1, <1>2, LockAtRelocks DEF SendCached, At, Relocked
  <2>2. allocated' = allocated \ Released(items, items')
    BY <1>1, <2>1 DEF Released
  <2> QED BY <1>1, <1>2, <2>2, SendCachedKeeps
<1>3. CASE RefuseCached(c, items, f, q)
  <2>1. Reduced(items, items')
    BY <1>1, <1>3, RefuseCachedIsSound
  <2>2. BuffersOf(items') = BuffersOf(items)
    <3>1. PICK i \in At(items, f) : items' = UnlockNamed(LockAt(items, i), f)
      BY <1>3 DEF RefuseCached
    <3>2. Relocked(items, LockAt(items, i), items[i].name, More)
      BY <1>1, LockAtRelocks DEF At
    <3>3. Relocked(LockAt(items, i), items', f, Less)
      BY <3>1, <3>2, UnlockNamedRelocks DEF Relocked
    <3> QED BY <3>2, <3>3 DEF Relocked
  <2>3. allocated' = allocated \ Released(items, items')
    BY <1>1, <2>2 DEF Released
  <2>4. Sound(items') /\ BuffersOf(items') \subseteq BuffersOf(items)
    BY <2>1 DEF Reduced
  <2>5. stage' = [stage EXCEPT ![c] = "refused"] /\ UNCHANGED <<job, responses>>
    BY <1>3 DEF RefuseCached
  <2> QED BY <1>1, <2>3, <2>4, <2>5, RefusalKeeps
<1> QED BY <1>2, <1>3 DEF RequestCached

LEMMA RequestFromDiskKeeps ==
  ASSUME IInv, NEW c \in Clients, NEW f \in Files, NEW q \in RangesFor(f),
         RequestFromDisk(c, f, q)
  PROVE  IInv'
<1> DEFINE rest == allocated \ Released(items, items')
<1>1. PICK b \in Buffers \ rest, op \in Submitted :
        /\ allocated' = rest \cup {b}
        /\ job' = [job EXCEPT ![c] =
                     [Job(f, b, TRUE, q.ranges) EXCEPT !.left = Size[f], !.op = op]]
  BY DEF RequestFromDisk
<1>2. /\ stage[c] = "idle" /\ stage' = [stage EXCEPT ![c] = "reading"]
      /\ items' \in Declined(items, f, q) /\ UNCHANGED <<responses, eintrs>>
  BY DEF RequestFromDisk
<1>3. Sound(items') /\ BuffersOf(items') \subseteq BuffersOf(items)
  BY <1>2, DeclinedIsSound DEF IInv, Typed
<1> DEFINE j == [Job(f, b, TRUE, q.ranges) EXCEPT !.left = Size[f], !.op = op]
<1>4. j \in JobSet /\ j.file = f /\ j.buff = b /\ j.own
  <2>1. op \in {"none", "inflight", "rejected"} /\ Size[f] \in Nat
    BY FilesAssumption DEF Submitted
  <2> QED BY <2>1, RangesAreTyped DEF Job, JobSet
<1> HIDE DEF j
<1>5. job' = [job EXCEPT ![c] = j]
  BY <1>1 DEF j
<1>6. /\ job' \in [Clients -> JobSet] /\ job'[c] = j
      /\ \A d \in Clients \ {c} : job'[d] = job[d]
  BY <1>4, <1>5 DEF IInv, Typed
<1>7. ~job[c].own
  BY <1>2 DEF IInv, Phased
<1>8. b \notin BuffersOf(items')
  BY <1>3 DEF IInv, Owned, Released
<1>9. \A d \in Clients : job[d].own =>
        job[d].buff # b /\ job[d].buff \in rest /\ job[d].buff \notin BuffersOf(items')
  BY <1>3 DEF IInv, Owned, Released
<1>10. \A x : x \in rest <=>
         x \in BuffersOf(items') \/ \E d \in Clients : job[d].own /\ job[d].buff = x
  BY <1>3 DEF IInv, Owned, Released
<1> HIDE DEF rest
<1>11. Owned'
  <2>1. \A x : x \in allocated' <=>
          x \in BuffersOf(items') \/ \E d \in Clients : job'[d].own /\ job'[d].buff = x
    BY <1>1, <1>4, <1>6, <1>7, <1>10, ZenonT(60)
  <2>2. \A d \in Clients : job'[d].own => job'[d].buff \notin BuffersOf(items')
    BY <1>4, <1>6, <1>8, <1>9
  <2>3. \A d, e \in Clients :
          job'[d].own /\ job'[e].own /\ job'[d].buff = job'[e].buff => d = e
    BY <1>4, <1>6, <1>9 DEF IInv, Owned
  <2> QED BY <2>1, <2>2, <2>3 DEF Owned, BuffersOf
<1>12. allocated' \subseteq Buffers
  BY <1>1 DEF IInv, Typed, rest
<1>13. stage \in [Clients -> Stages] /\ stage' \in [Clients -> Stages]
  BY <1>2 DEF IInv, Typed, Stages
<1>14. Typed'
  BY <1>2, <1>3, <1>6, <1>12, <1>13 DEF IInv, Typed, Sound, Distinct
<1>15. Phased'
  BY <1>2, <1>4, <1>6, <1>13 DEF IInv, Phased
<1> QED BY <1>11, <1>14, <1>15 DEF IInv

LEMMA RefuseFromDiskKeeps ==
  ASSUME IInv, NEW c \in Clients, NEW f \in Files, NEW q \in RangesFor(f),
         RefuseFromDisk(c, f, q)
  PROVE  IInv'
<1>1. Sound(items') /\ BuffersOf(items') \subseteq BuffersOf(items)
  BY DeclinedIsSound DEF IInv, Typed, RefuseFromDisk
<1> QED BY <1>1, RefusalKeeps DEF RefuseFromDisk

LEMMA RequestNotFoundKeeps ==
  ASSUME IInv, NEW c \in Clients, NEW f \in Files, NEW q \in RangesFor(f),
         RequestNotFound(c, f, q)
  PROVE  IInv'
<1>1. PICK cached \in Declined(items, f, q), r \in RangesFor(NotFound) :
        \/ SendCached(c, cached, NotFound, r)
        \/ RefuseCached(c, cached, NotFound, r)
        \/ /\ items' \in Declined(cached, NotFound, r)
           /\ \E end \in {"refused", "dropped"} : stage' = [stage EXCEPT ![c] = end]
           /\ UNCHANGED <<job, responses>>
  BY DEF RequestNotFound
<1>2. /\ stage[c] = "idle" /\ allocated' = allocated \ Released(items, items')
      /\ UNCHANGED eintrs
  BY DEF RequestNotFound
<1>3. Sound(cached) /\ BuffersOf(cached) \subseteq BuffersOf(items)
  BY DeclinedIsSound DEF IInv, Typed
<1>4. CASE SendCached(c, cached, NotFound, r)
  BY <1>2, <1>3, <1>4, FilesAssumption, SendCachedKeeps
<1>5. CASE RefuseCached(c, cached, NotFound, r)
  <2>1. Sound(items') /\ BuffersOf(items') \subseteq BuffersOf(cached)
    BY <1>3, <1>5, RefuseCachedIsSound DEF Reduced
  <2>2. stage' = [stage EXCEPT ![c] = "refused"] /\ UNCHANGED <<job, responses>>
    BY <1>5 DEF RefuseCached
  <2>3. BuffersOf(items') \subseteq BuffersOf(items)
    BY <1>3, <2>1
  <2> QED BY <1>2, <2>1, <2>2, <2>3, RefusalKeeps
<1>6. ASSUME items' \in Declined(cached, NotFound, r),
             NEW end \in {"refused", "dropped"}, stage' = [stage EXCEPT ![c] = end],
             UNCHANGED <<job, responses>>
      PROVE  IInv'
  <2>1. Sound(items') /\ BuffersOf(items') \subseteq BuffersOf(cached)
    BY <1>3, <1>6, DeclinedIsSound
  <2>2. BuffersOf(items') \subseteq BuffersOf(items)
    BY <1>3, <2>1
  <2> QED BY <1>2, <1>6, <2>1, <2>2, RefusalKeeps
<1> QED BY <1>1, <1>4, <1>5, <1>6

-----------------------------------------------------------------------------
(* The invariant is inductive: the read of the file.                       *)

\* Steps that change neither the cache nor the heap nor who owns what.
LEMMA OwnersUntouched ==
  ASSUME IInv, UNCHANGED cache,
         \A c \in Clients :
           (job'[c].own <=> job[c].own) /\ (job[c].own => job'[c].buff = job[c].buff)
  PROVE  Owned' /\ allocated' \subseteq Buffers /\ Sound(items')
<1>1. Sound(items') /\ items' = items /\ allocated' = allocated
  BY DEF cache, IInv, Typed
<1>2. allocated' = allocated \ Released(items, items')
  BY <1>1 DEF Released
<1> QED BY <1>1, <1>2, OwnersStay

LEMMA StartSendingKeeps ==
  ASSUME IInv, NEW c \in Clients, Reading(c), StartSending(c), UNCHANGED <<cache, eintrs>>
  PROVE  IInv'
<1>1. PICK op \in Submitted : Begin(c, job[c], <<>>, FirstResponse(job[c]), op)
  BY DEF StartSending
<1>2. job[c] \in JobSet /\ job[c].file \in Files /\ job[c].buff \in Buffers
  BY DEF IInv, Typed, Phased, Reading
<1>3. /\ job' \in [Clients -> JobSet] /\ responses' \in [Clients -> Seq(ResponseSet)]
      /\ \A d \in Clients \ {c} : job'[d] = job[d] /\ responses'[d] = responses[d]
      /\ job'[c].file = job[c].file /\ job'[c].buff = job[c].buff /\ job'[c].own = job[c].own
      /\ responses'[c] # <<>>
  <2>1. <<>> \in Seq(ResponseSet) /\ Typed /\ FirstResponse(job[c]) \in ResponseSet
    BY <1>2, FirstResponseIsTyped DEF IInv
  <2> QED BY <1>1, <1>2, <2>1, BeginSets
<1>4. Owned' /\ allocated' \subseteq Buffers /\ Sound(items')
  BY <1>3, OwnersUntouched
<1>5. stage' = [stage EXCEPT ![c] = "sending"] /\ stage \in [Clients -> Stages]
  BY DEF StartSending, IInv, Typed
<1>6. stage' \in [Clients -> Stages]
  BY <1>5 DEF Stages
<1>7. Typed'
  BY <1>3, <1>4, <1>6 DEF IInv, Typed, Sound, Distinct
<1>8. Phased'
  BY <1>2, <1>3, <1>5 DEF IInv, Phased
<1> QED BY <1>4, <1>7, <1>8 DEF IInv

LEMMA ReadFailedKeeps ==
  ASSUME IInv, NEW c \in Clients, Reading(c), ReadFailed(c),
         UNCHANGED <<items, responses>>, eintrs' \in [Clients -> 0..MaxEintr]
  PROVE  IInv'
<1>1. /\ stage' = [stage EXCEPT ![c] = "dropped"] /\ job' = [job EXCEPT ![c] = NoJob]
      /\ allocated' = allocated \ {job[c].buff} /\ items' = items
  BY DEF ReadFailed
<1>2. job[c].own
  BY DEF Reading, IInv, Phased
<1>3. NoJob \in JobSet /\ ~NoJob.own
  BY DEF NoJob, Job, JobSet
<1>4. /\ job' \in [Clients -> JobSet] /\ ~job'[c].own
      /\ \A d \in Clients \ {c} : job'[d] = job[d]
  BY <1>1, <1>3 DEF IInv, Typed
<1>5. Owned'
  <2>1. \A x : x \in allocated' <=>
          x \in BuffersOf(items) \/ \E d \in Clients : job'[d].own /\ job'[d].buff = x
    BY <1>1, <1>2, <1>4 DEF IInv, Owned
  <2>2. \A d \in Clients : job'[d].own => job'[d].buff \notin BuffersOf(items)
    BY <1>4 DEF IInv, Owned
  <2>3. \A d, e \in Clients :
          job'[d].own /\ job'[e].own /\ job'[d].buff = job'[e].buff => d = e
    BY <1>4 DEF IInv, Owned
  <2>4. BuffersOf(items)' = BuffersOf(items)
    BY <1>1 DEF BuffersOf
  <2> QED BY <2>1, <2>2, <2>3, <2>4 DEF Owned
<1>6. stage \in [Clients -> Stages] /\ stage' \in [Clients -> Stages]
  BY <1>1 DEF IInv, Typed, Stages, Ends
<1>7. Typed'
  BY <1>1, <1>4, <1>6 DEF IInv, Typed, Sound, Distinct
<1>8. Phased'
  BY <1>1, <1>4, <1>6 DEF IInv, Phased
<1> QED BY <1>5, <1>7, <1>8 DEF IInv

LEMMA TransfersBytes ==
  ASSUME NEW k \in Nat, NEW n \in Transfers(k)
  PROVE  n \in Nat /\ n >= 1 /\ n <= k
BY DEF Transfers

\* The operation of c, or how far it is, changes: the task is otherwise the same.
LEMMA TaskGoesOn ==
  ASSUME IInv, NEW c \in Clients, NEW p \in Nat, NEW left \in Nat, NEW op \in Submitted,
         job' = [job EXCEPT ![c].progress = p, ![c].left = left, ![c].op = op],
         UNCHANGED <<cache, stage>>, eintrs' \in [Clients -> 0..MaxEintr],
         responses' \in [Clients -> Seq(ResponseSet)],
         \A d \in Clients : responses'[d] = <<>> => responses[d] = <<>>
  PROVE  IInv'
<1> DEFINE j == [job[c] EXCEPT !.progress = p, !.left = left, !.op = op]
<1>1. job[c] \in JobSet /\ op \in {"none", "inflight", "rejected"}
  BY DEF IInv, Typed, Submitted
<1>2. /\ j \in JobSet /\ j.file = job[c].file /\ j.buff = job[c].buff
      /\ j.own = job[c].own
  BY <1>1 DEF JobSet
<1>3. job' = [job EXCEPT ![c] = j] /\ job \in [Clients -> JobSet]
  BY DEF IInv, Typed
<1> HIDE DEF j
<1>4. /\ job' \in [Clients -> JobSet]
      /\ \A d \in Clients : /\ job'[d].file = job[d].file /\ job'[d].buff = job[d].buff
                             /\ job'[d].own = job[d].own
  BY <1>2, <1>3
<1>5. Owned' /\ allocated' \subseteq Buffers /\ Sound(items')
  BY <1>4, OwnersUntouched
<1>6. Typed'
  BY <1>4, <1>5 DEF IInv, Typed, Sound, Distinct
<1>7. Phased'
  BY <1>4 DEF IInv, Phased
<1> QED BY <1>5, <1>6, <1>7 DEF IInv

LEMMA ReadSomeKeeps ==
  ASSUME IInv, NEW c \in Clients, ReadSome(c)
  PROVE  IInv'
<1>1. PICK n \in Transfers(job[c].left), op \in Submitted :
        LET total == job[c].progress + n
        IN /\ total < Size[job[c].file]
           /\ job' = [job EXCEPT ![c].progress = total, ![c].op = op,
                                 ![c].left = Size[job[c].file] - total]
  BY DEF ReadSome
<1>2. job[c] \in JobSet /\ job[c].file \in Files
  BY DEF ReadSome, Reading, IInv, Typed, Phased
<1> DEFINE size == Size[job[c].file]
           total == job[c].progress + n
<1>3. size \in Nat /\ job[c].progress \in Nat /\ n \in Nat
  BY <1>2, FilesAssumption, TransfersBytes DEF JobSet
<1>4. total \in Nat /\ size - total \in Nat
  BY <1>1, <1>3
<1>5. job' = [job EXCEPT ![c].progress = total, ![c].left = size - total, ![c].op = op]
  BY <1>1 DEF IInv, Typed
<1>6. /\ eintrs' \in [Clients -> 0..MaxEintr] /\ responses' \in [Clients -> Seq(ResponseSet)]
      /\ UNCHANGED <<cache, stage>> /\ responses' = responses
  BY DEF ReadSome, IInv, Typed
<1> HIDE DEF size, total
<1> QED BY <1>4, <1>5, <1>6, TaskGoesOn

LEMMA ReadAllKeeps ==
  ASSUME IInv, NEW c \in Clients, ReadAll(c)
  PROVE  IInv'
BY StartSendingKeeps DEF ReadAll

LEMMA ReadEndKeeps ==
  ASSUME IInv, NEW c \in Clients, ReadEnd(c)
  PROVE  IInv'
<1>1. Reading(c) /\ UNCHANGED <<items, eintrs>> /\ eintrs \in [Clients -> 0..MaxEintr]
  BY DEF ReadEnd, IInv, Typed
<1>2. CASE StartSending(c) /\ UNCHANGED allocated
  BY <1>1, <1>2, StartSendingKeeps DEF cache
<1>3. CASE ReadFailed(c) /\ UNCHANGED responses
  BY <1>1, <1>3, ReadFailedKeeps
<1> QED BY <1>2, <1>3 DEF ReadEnd

LEMMA ReadErrorKeeps ==
  ASSUME IInv, NEW c \in Clients, ReadError(c)
  PROVE  IInv'
<1>1. /\ Reading(c) /\ ReadFailed(c) /\ UNCHANGED <<items, responses, eintrs>>
      /\ eintrs \in [Clients -> 0..MaxEintr]
  BY DEF ReadError, IInv, Typed
<1> QED BY <1>1, ReadFailedKeeps

\* Interruptions are counted.
LEMMA InterruptionCounted ==
  ASSUME Typed, NEW c \in Clients, eintrs[c] < MaxEintr,
         eintrs' = [eintrs EXCEPT ![c] = @ + 1]
  PROVE  eintrs' \in [Clients -> 0..MaxEintr]
<1>1. eintrs \in [Clients -> 0..MaxEintr] /\ MaxEintr \in Nat
  BY FaultsAssumption DEF Typed
<1>2. eintrs[c] + 1 \in 0..MaxEintr
  BY <1>1
<1> QED BY <1>1, <1>2

LEMMA ReadInterruptedKeeps ==
  ASSUME IInv, NEW c \in Clients, ReadInterrupted(c)
  PROVE  IInv'
<1>1. Reading(c) /\ UNCHANGED <<items, responses>> /\ eintrs' \in [Clients -> 0..MaxEintr]
  BY InterruptionCounted DEF ReadInterrupted, IInv
<1>2. CASE UNCHANGED <<stage, allocated, job>>
  <2>1. Owned' /\ Phased'
    BY <1>1, <1>2 DEF IInv, Owned, Phased, BuffersOf
  <2>2. Typed'
    BY <1>1, <1>2 DEF IInv, Typed, Sound, Distinct
  <2> QED BY <2>1, <2>2 DEF IInv
<1>3. CASE ReadFailed(c)
  BY <1>1, <1>3, ReadFailedKeeps
<1> QED BY <1>2, <1>3 DEF ReadInterrupted

-----------------------------------------------------------------------------
(* The invariant is inductive: the responses, and changes of files.        *)

LEMMA WroteCounts ==
  ASSUME Typed, NEW c \in Clients, responses[c] # <<>>, NEW n \in Nat
  PROVE  /\ Wrote(c, n) \in Seq(ResponseSet) /\ Wrote(c, n) # <<>>
         /\ DOMAIN Wrote(c, n) = DOMAIN responses[c] /\ Len(Wrote(c, n)) = Len(responses[c])
         /\ Len(responses[c]) \in DOMAIN responses[c]
         /\ \A k \in DOMAIN responses[c] : k # Len(responses[c]) =>
              Wrote(c, n)[k] = responses[c][k]
         /\ Wrote(c, n)[Len(responses[c])] = [Ongoing(c) EXCEPT !.sent = @ + n]
         /\ Ongoing(c) \in ResponseSet /\ Ongoing(c) = responses[c][Len(responses[c])]
<1> DEFINE s == responses[c]
           e == [s[Len(s)] EXCEPT !.sent = @ + n]
<1>1. s \in Seq(ResponseSet) /\ s # <<>>
  BY DEF Typed
<1>2. Len(s) \in 1..Len(s) /\ s[Len(s)] \in ResponseSet /\ DOMAIN s = 1..Len(s)
  <2>1. s \in Seq(ResponseSet) /\ Len(s) \in Nat /\ Len(s) # 0 /\ DOMAIN s = 1..Len(s)
    BY <1>1, LenProperties, EmptySeq
  <2>2. Len(s) \in 1..Len(s)
    BY <2>1
  <2> QED BY <2>1, <2>2, ElementOfSeq
<1>3. e \in ResponseSet
  BY <1>2 DEF ResponseSet
<1>4. Ongoing(c) = s[Len(s)]
  BY DEF Ongoing, Last
<1>5. Wrote(c, n) = [s EXCEPT ![Len(s)] = e]
  BY DEF Wrote
<1>6. e = [Ongoing(c) EXCEPT !.sent = @ + n]
  BY <1>4
<1> HIDE DEF s, e
<1>7. /\ Wrote(c, n) \in Seq(ResponseSet) /\ Len(Wrote(c, n)) = Len(s)
      /\ DOMAIN Wrote(c, n) = DOMAIN s
      /\ \A k \in DOMAIN s : Wrote(c, n)[k] = IF k = Len(s) THEN e ELSE s[k]
  BY <1>1, <1>2, <1>3, <1>5, ExceptSeq, LenProperties
<1>8. Wrote(c, n) # <<>>
  BY <1>1, <1>7, EmptySeq
<1> QED BY <1>2, <1>4, <1>6, <1>7, <1>8 DEF s

LEMMA SendingTask ==
  ASSUME IInv, NEW c \in Clients, Sending(c)
  PROVE  /\ job[c] \in JobSet /\ job[c].file \in Files /\ job[c].buff \in Buffers
         /\ job[c].left \in Nat /\ job[c].progress \in Nat
         /\ responses[c] # <<>> /\ FullSize(c) \in Nat
<1>1. job[c] \in JobSet /\ job[c].file \in Files /\ job[c].buff \in Buffers /\ responses[c] # <<>>
  BY DEF Sending, IInv, Typed, Phased
<1>2. Ongoing(c) \in ResponseSet
  <2>1. 0 \in Nat /\ Typed
    BY DEF IInv
  <2> QED BY <1>1, <2>1, WroteCounts
<1>3. Header \in Nat /\ Ongoing(c).len \in Nat
  BY <1>2, HeaderAssumption DEF ResponseSet
<1>4. FullSize(c) \in Nat
  BY <1>3 DEF FullSize
<1> QED BY <1>1, <1>4 DEF JobSet

LEMMA WriteSomeKeeps ==
  ASSUME IInv, NEW c \in Clients, WriteSome(c)
  PROVE  IInv'
<1>1. PICK n \in Transfers(job[c].left), op \in Submitted :
        LET total == job[c].progress + n
        IN /\ total < FullSize(c)
           /\ job' = [job EXCEPT ![c].progress = total, ![c].op = op,
                                 ![c].left = FullSize(c) - total]
           /\ responses' = [responses EXCEPT ![c] = Wrote(c, n)]
  BY DEF WriteSome
<1> DEFINE total == job[c].progress + n
<1>2. job[c].progress \in Nat /\ FullSize(c) \in Nat /\ n \in Nat /\ responses[c] # <<>>
  BY SendingTask, TransfersBytes DEF WriteSome
<1>3. total \in Nat /\ FullSize(c) - total \in Nat
  BY <1>1, <1>2
<1>4. job' = [job EXCEPT ![c].progress = total, ![c].left = FullSize(c) - total, ![c].op = op]
  BY <1>1 DEF IInv, Typed
<1>5. Wrote(c, n) \in Seq(ResponseSet) /\ Wrote(c, n) # <<>>
  BY <1>2, WroteCounts DEF IInv
<1>6. /\ responses' \in [Clients -> Seq(ResponseSet)]
      /\ \A d \in Clients : responses'[d] = <<>> => responses[d] = <<>>
  BY <1>1, <1>5 DEF IInv, Typed
<1>7. eintrs' \in [Clients -> 0..MaxEintr] /\ UNCHANGED <<cache, stage>>
  BY DEF WriteSome, IInv, Typed
<1> HIDE DEF total
<1> QED BY <1>3, <1>4, <1>6, <1>7, TaskGoesOn

LEMMA WriteNextKeeps ==
  ASSUME IInv, NEW c \in Clients, WriteNext(c)
  PROVE  IInv'
<1>1. PICK n \in Transfers(job[c].left), op \in Submitted :
        Begin(c, job[c], Wrote(c, n), NextResponse(job[c]), op)
  BY DEF WriteNext
<1>2. /\ job[c] \in JobSet /\ n \in Nat /\ responses[c] # <<>> /\ Sending(c)
      /\ job[c].idx < Len(job[c].ranges) /\ Typed
      /\ UNCHANGED <<cache, stage, eintrs>>
  BY SendingTask, TransfersBytes DEF WriteNext, IInv
<1>3. Wrote(c, n) \in Seq(ResponseSet) /\ NextResponse(job[c]) \in ResponseSet
  BY <1>2, WroteCounts, NextResponseIsTyped
<1>4. /\ job' \in [Clients -> JobSet] /\ responses' \in [Clients -> Seq(ResponseSet)]
      /\ \A d \in Clients \ {c} : job'[d] = job[d] /\ responses'[d] = responses[d]
      /\ job'[c].file = job[c].file /\ job'[c].buff = job[c].buff /\ job'[c].own = job[c].own
      /\ responses'[c] # <<>>
  BY <1>1, <1>2, <1>3, BeginSets
<1>5. Owned' /\ allocated' \subseteq Buffers /\ Sound(items')
  BY <1>2, <1>4, OwnersUntouched
<1>6. Typed'
  BY <1>2, <1>4, <1>5 DEF IInv, Typed, Sound, Distinct
<1>7. Phased'
  BY <1>2, <1>4 DEF IInv, Phased
<1> QED BY <1>5, <1>6, <1>7 DEF IInv

\* What Finish does to the cache.
LEMMA FinishIsSound ==
  ASSUME IInv, NEW c \in Clients, Sending(c), NEW end, Finish(c, end)
  PROVE  \E unlocked :
           /\ Relocked(items, unlocked, job[c].file, Less)
           /\ IF job[c].own THEN Added(unlocked, items', job[c].file, job[c].buff)
                            ELSE items' = unlocked
<1> DEFINE unlocked == UnlockNamed(items, job[c].file)
<1>1. Relocked(items, unlocked, job[c].file, Less)
  BY UnlockNamedRelocks DEF IInv, Typed
<1>2. items' = IF job[c].own THEN Add(unlocked, job[c].file, job[c].buff, MaxItems)
                             ELSE unlocked
  BY DEF Finish
<1> HIDE DEF unlocked
<1>3. job[c].own => job[c].buff \notin BuffersOf(unlocked)
  BY <1>1 DEF Relocked, IInv, Owned
<1>4. job[c].own => Added(unlocked, items', job[c].file, job[c].buff)
  BY <1>1, <1>2, <1>3, SendingTask, AddAdds DEF Relocked
<1> WITNESS unlocked
<1> QED BY <1>1, <1>2, <1>4

LEMMA FinishKeeps ==
  ASSUME IInv, NEW c \in Clients, Sending(c), NEW end \in Ends, Finish(c, end),
         UNCHANGED eintrs, responses' \in [Clients -> Seq(ResponseSet)],
         \A d \in Clients \ {c} : responses'[d] = responses[d]
  PROVE  IInv'
<1> DEFINE b == job[c].buff
           refused == IF job[c].own /\ b \notin BuffersOf(items') THEN {b} ELSE {}
<1>1. /\ allocated' = allocated \ (Released(items, items') \cup refused)
      /\ stage' = [stage EXCEPT ![c] = end] /\ job' = [job EXCEPT ![c] = NoJob]
  BY DEF Finish
<1>2. /\ Sound(items')
      /\ \A x \in BuffersOf(items') : x \in BuffersOf(items) \/ (job[c].own /\ x = b)
  BY FinishIsSound DEF Relocked, Added
<1>3. NoJob \in JobSet /\ ~NoJob.own
  BY DEF NoJob, Job, JobSet
<1>4. /\ job' \in [Clients -> JobSet] /\ ~job'[c].own
      /\ \A d \in Clients \ {c} : job'[d] = job[d]
  BY <1>1, <1>3 DEF IInv, Typed
<1>5. \A d \in Clients \ {c} : job[d].own =>
        job[d].buff \notin BuffersOf(items) /\ job[d].buff \in allocated
          /\ (job[c].own => job[d].buff # b)
  BY DEF IInv, Owned
<1>6. job[c].own => b \notin BuffersOf(items) /\ b \in allocated
  BY DEF IInv, Owned
<1>7. Owned'
  <2>1. ASSUME NEW x
        PROVE  x \in allocated' <=>
          x \in BuffersOf(items') \/ \E d \in Clients : job'[d].own /\ job'[d].buff = x
    <3>1. (\E d \in Clients : job'[d].own /\ job'[d].buff = x)
            <=> \E d \in Clients \ {c} : job[d].own /\ job[d].buff = x
      BY <1>4
    <3>2. x \in allocated <=> \/ x \in BuffersOf(items) \/ (job[c].own /\ x = b)
                             \/ \E d \in Clients \ {c} : job[d].own /\ job[d].buff = x
      BY DEF IInv, Owned
    <3>3. x \in allocated' <=>
            /\ x \in allocated /\ ~(x \in BuffersOf(items) /\ x \notin BuffersOf(items'))
            /\ ~(job[c].own /\ b \notin BuffersOf(items') /\ x = b)
      BY <1>1 DEF Released
    <3> QED BY <1>2, <1>5, <1>6, <3>1, <3>2, <3>3
  <2>2. \A d \in Clients : job'[d].own => job'[d].buff \notin BuffersOf(items')
    BY <1>2, <1>4, <1>5
  <2>3. \A d, e \in Clients :
          job'[d].own /\ job'[e].own /\ job'[d].buff = job'[e].buff => d = e
    BY <1>4 DEF IInv, Owned
  <2>4. BuffersOf(items)' = BuffersOf(items')
    BY DEF BuffersOf
  <2> QED BY <2>1, <2>2, <2>3, <2>4 DEF Owned
<1>8. stage \in [Clients -> Stages] /\ stage' \in [Clients -> Stages]
  BY <1>1 DEF IInv, Typed, Stages
<1>9. allocated' \subseteq Buffers
  BY <1>1 DEF IInv, Typed
<1>10. Typed'
  BY <1>2, <1>4, <1>8, <1>9 DEF IInv, Typed, Sound, Distinct
<1>11. Phased'
  BY <1>1, <1>4, <1>8 DEF IInv, Phased, Ends
<1> QED BY <1>7, <1>10, <1>11 DEF IInv

LEMMA WriteAllKeeps ==
  ASSUME IInv, NEW c \in Clients, WriteAll(c)
  PROVE  IInv'
<1>1. PICK n \in Transfers(job[c].left) : responses' = [responses EXCEPT ![c] = Wrote(c, n)]
  BY DEF WriteAll
<1>2. n \in Nat /\ responses[c] # <<>> /\ Sending(c) /\ Typed
  BY SendingTask, TransfersBytes DEF WriteAll, IInv
<1>3. Wrote(c, n) \in Seq(ResponseSet)
  BY <1>2, WroteCounts
<1>4. /\ responses' \in [Clients -> Seq(ResponseSet)]
      /\ \A d \in Clients \ {c} : responses'[d] = responses[d]
  BY <1>1, <1>3 DEF IInv, Typed
<1>5. Finish(c, "done") /\ UNCHANGED eintrs /\ "done" \in Ends
  BY DEF WriteAll, Ends
<1> QED BY <1>2, <1>4, <1>5, FinishKeeps

LEMMA WriteErrorKeeps ==
  ASSUME IInv, NEW c \in Clients, WriteError(c)
  PROVE  IInv'
<1>1. /\ responses' \in [Clients -> Seq(ResponseSet)]
      /\ \A d \in Clients \ {c} : responses'[d] = responses[d]
  BY DEF WriteError, IInv, Typed
<1>2. Sending(c) /\ Finish(c, "failed") /\ UNCHANGED eintrs /\ "failed" \in Ends
  BY DEF WriteError, Ends
<1> QED BY <1>1, <1>2, FinishKeeps

LEMMA WriteInterruptedKeeps ==
  ASSUME IInv, NEW c \in Clients, WriteInterrupted(c)
  PROVE  IInv'
<1>1. PICK op \in Submitted : job' = [job EXCEPT ![c].op = op]
  BY DEF WriteInterrupted
<1>2. job[c] \in JobSet /\ job \in [Clients -> JobSet] /\ Sending(c)
  BY DEF WriteInterrupted, IInv, Typed
<1>3. /\ job[c].progress \in Nat /\ job[c].left \in Nat
      /\ job' = [job EXCEPT ![c].progress = job[c].progress, ![c].left = job[c].left,
                            ![c].op = op]
  BY <1>1, <1>2 DEF JobSet
<1>4. /\ eintrs' \in [Clients -> 0..MaxEintr] /\ UNCHANGED <<cache, stage>>
      /\ responses' \in [Clients -> Seq(ResponseSet)] /\ responses' = responses
  BY InterruptionCounted DEF WriteInterrupted, IInv, Typed
<1> QED BY <1>3, <1>4, TaskGoesOn

LEMMA FileChangedKeeps ==
  ASSUME IInv, FileChanged
  PROVE  IInv'
<1>1. Sound(items') /\ BuffersOf(items') \subseteq BuffersOf(items)
  BY InvalidateReduces DEF FileChanged, IInv, Typed, Reduced
<1>2. allocated' = allocated \ Released(items, items') /\ UNCHANGED <<stage, job, responses, eintrs>>
  BY DEF FileChanged
<1>3. Owned' /\ allocated' \subseteq Buffers
  BY <1>1, <1>2, OwnersStay
<1>4. Typed' /\ Phased'
  BY <1>1, <1>2, <1>3 DEF IInv, Typed, Phased, Sound, Distinct
<1> QED BY <1>3, <1>4 DEF IInv

LEMMA NextKeeps == IInv /\ [Next]_vars => IInv'
<1> SUFFICES ASSUME IInv, [Next]_vars PROVE IInv'
  OBVIOUS
<1>1. ASSUME NEW c \in Clients, Request(c) PROVE IInv'
  BY <1>1, RequestCachedKeeps, RequestFromDiskKeeps, RefuseFromDiskKeeps, RequestNotFoundKeeps
     DEF Request
<1>2. ASSUME NEW c \in Clients, Completion(c) PROVE IInv'
  BY <1>2, ReadSomeKeeps, ReadAllKeeps, ReadEndKeeps, ReadErrorKeeps, ReadInterruptedKeeps,
     WriteSomeKeeps, WriteNextKeeps, WriteAllKeeps, WriteErrorKeeps, WriteInterruptedKeeps
     DEF Completion
<1>3. CASE FileChanged
  BY <1>3, FileChangedKeeps
<1>4. CASE UNCHANGED vars
  BY <1>4 DEF vars, IInv, Typed, Phased, Owned, Sound, Distinct, BuffersOf
<1> QED BY <1>1, <1>2, <1>3, <1>4 DEF Next

\* The invariant holds in every state that requests and completions can lead to.
THEOREM InductiveInvariant == Spec => []IInv
BY InitSound, NextKeeps, PTL DEF Spec

\* The state of every request, the cache and the heap is well typed, for any
\* number of clients, files, buffers and ranges, whatever fails.
THEOREM TypeCorrect == Spec => []TypeOK
<1>1. IInv => TypeOK
  <2> SUFFICES ASSUME IInv PROVE TypeOK
    OBVIOUS
  <2>1. /\ items \in Seq([name : Files, buff : Buffers, locks : Nat, outdated : BOOLEAN])
        /\ allocated \subseteq Buffers /\ stage \in [Clients -> Stages]
        /\ eintrs \in [Clients -> 0..MaxEintr]
    BY DEF IInv, Typed, Sound, Entry
  <2>2. ASSUME NEW c \in Clients
        PROVE  /\ job[c] \in JobSet
               /\ responses[c] \in Seq([source : {"file", "iovecs"}, announced : Nat,
                                        len : Nat, from : Nat, sent : Nat])
    BY DEF IInv, Typed, ResponseSet
  <2> QED BY <2>1, <2>2 DEF TypeOK, JobSet
<1> QED BY <1>1, InductiveInvariant, PTL

\* Every file buffer is owned by one item of the cache or by the one task that
\* read the file into it, and is freed when it is not: for any number of
\* requests, whatever is short, interrupted, refused, evicted or fails.
THEOREM BuffersHaveOneOwner == Spec => []OneOwnerEach
<1>1. IInv => OneOwnerEach
  <2> SUFFICES ASSUME IInv PROVE OneOwnerEach
    OBVIOUS
  <2> DEFINE owners == {c \in Clients : job[c].own}
             byTask == {job[c].buff : c \in owners}
  <2>1. allocated = BuffersOf(items) \cup byTask
    BY DEF IInv, Owned
  <2>2. BuffersOf(items) \cap byTask = {}
    BY DEF IInv, Owned
  <2>3. Cardinality(BuffersOf(items)) = Len(items)
    BY ItemsAreCounted DEF IInv, Typed
  <2>4. \A c, d \in owners : job[c].buff = job[d].buff => c = d
    BY DEF IInv, Owned
  <2> QED BY <2>1, <2>2, <2>3, <2>4 DEF OneOwnerEach
<1> QED BY <1>1, InductiveInvariant, PTL

-----------------------------------------------------------------------------
(* Locks and users.                                                        *)

\* What a step that makes m of l, the locks of the item for f, does to the users
\* of f.  The last is the one case that parts them.
Balanced(f, l, m) ==
  \/ m = l /\ Users(f)' = Users(f)
  \/ m = l + 1 /\ \E c \in Clients \ Users(f) : Users(f)' = Users(f) \cup {c}
  \/ m = Less[l] /\ \E c \in Users(f) : Users(f)' = Users(f) \ {c}
  \/ /\ m = Less[l] /\ Users(f)' = Users(f)
     /\ \E c \in Clients :
          stage[c] = "sending" /\ stage'[c] \in Ends /\ job[c].own /\ job[c].file = f

LockStep ==
  \A f \in Files : \A k \in DOMAIN items' :
    items'[k].name = f =>
      \/ f \notin NamesOf(items) /\ items'[k].locks = 0
      \/ \E i \in DOMAIN items :
           items[i].name = f /\ Balanced(f, items[i].locks, items'[k].locks)

\* NoLockLeaks for every position.
LocksCovered ==
  \A f \in Files : \A i \in DOMAIN items :
    items[i].name = f => items[i].locks <= Cardinality(Users(f))

LEMMA UsersAreCounted ==
  ASSUME NEW f
  PROVE  IsFiniteSet(Users(f)) /\ Cardinality(Users(f)) \in Nat
BY ClientsAssumption, FS_Subset, FS_CardinalityType DEF Users

LEMMA StepKeepsCover ==
  ASSUME IInv, IInv', LocksCovered, LockStep
  PROVE  LocksCovered'
<1> SUFFICES ASSUME NEW f \in Files, NEW k \in DOMAIN items', items'[k].name = f
             PROVE  items'[k].locks <= Cardinality(Users(f)')
  BY DEF LocksCovered
<1> DEFINE U == Users(f)
           V == Users(f)'
<1>1. IsFiniteSet(U) /\ Cardinality(U) \in Nat
  BY UsersAreCounted
<1>2. IsFiniteSet(V) /\ Cardinality(V) \in Nat
  <2>1. V \in SUBSET Clients
    BY DEF Users
  <2> HIDE DEF V
  <2> QED BY <2>1, ClientsAssumption, FS_Subset, FS_CardinalityType
<1>3. CASE items'[k].locks = 0
  BY <1>2, <1>3
<1>4. ASSUME NEW i \in DOMAIN items, items[i].name = f,
             Balanced(f, items[i].locks, items'[k].locks)
      PROVE  items'[k].locks <= Cardinality(V)
  <2> DEFINE l == items[i].locks
             m == items'[k].locks
  <2>1. l \in Nat /\ l <= Cardinality(U)
    BY <1>4, ItemFacts DEF LocksCovered, IInv, Typed, Sound, Entry
  <2>2. Less[l] \in Nat /\ Less[l] <= l /\ (l # 0 => Less[l] = l - 1)
    BY <2>1 DEF Less
  <2>3. \/ m = l /\ V = U
        \/ m = l + 1 /\ \E c \in Clients \ U : V = U \cup {c}
        \/ m = Less[l] /\ \E c \in U : V = U \ {c}
        \/ m = Less[l] /\ V = U
    BY <1>4 DEF Balanced
  <2> HIDE DEF U, V, l, m
  <2>4. V = U /\ m \in {l, Less[l]} => m <= Cardinality(V)
    BY <1>1, <2>1, <2>2
  <2>5. ASSUME m = l + 1, NEW c \in Clients \ U, V = U \cup {c}
        PROVE  m <= Cardinality(V)
    <3>1. Cardinality(V) = Cardinality(U) + 1
      BY <1>1, <2>5, FS_AddElement
    <3> QED BY <1>1, <2>1, <2>5, <3>1
  <2>6. ASSUME m = Less[l], NEW c \in U, V = U \ {c}
        PROVE  m <= Cardinality(V)
    <3>1. Cardinality(V) = Cardinality(U) - 1
      BY <1>1, <2>6, FS_RemoveElement
    <3> QED BY <1>1, <1>2, <2>1, <2>2, <2>6, <3>1
  <2>7. m <= Cardinality(V)
    BY <2>3, <2>4, <2>5, <2>6
  <2> QED BY <2>7 DEF m
<1> QED BY <1>3, <1>4 DEF LockStep

\* No lock is taken or returned.
LEMMA UnlockedStep ==
  ASSUME Reduced(items, items'), \A f \in Files : Users(f)' = Users(f)
  PROVE  LockStep
<1> SUFFICES ASSUME NEW f \in Files, NEW k \in DOMAIN items', items'[k].name = f
             PROVE  \E i \in DOMAIN items :
                      items[i].name = f /\ Balanced(f, items[i].locks, items'[k].locks)
  BY DEF LockStep
<1>1. PICK i \in DOMAIN items : items[i].name = f
  BY DEF Reduced, NamesOf
<1>2. items'[k].locks = items[i].locks
  BY <1>1 DEF Reduced, SameLocks
<1> QED BY <1>1, <1>2 DEF Balanced

\* c takes a lock.
LEMMA LockingStep ==
  ASSUME NEW cached, Sound(items), Reduced(items, cached), NEW g, Relocked(cached, items', g, More),
         NEW c \in Clients, c \notin Users(g), Users(g)' = Users(g) \cup {c},
         \A f \in Files \ {g} : Users(f)' = Users(f)
  PROVE  LockStep
<1> SUFFICES ASSUME NEW f \in Files, NEW k \in DOMAIN items', items'[k].name = f
             PROVE  \E i \in DOMAIN items :
                      items[i].name = f /\ Balanced(f, items[i].locks, items'[k].locks)
  BY DEF LockStep
<1>1. PICK j \in DOMAIN cached : cached[j].name = f
  BY DEF Relocked, NamesOf
<1>2. PICK i \in DOMAIN items : items[i].name = f
  BY <1>1 DEF Reduced, NamesOf
<1>3. cached[j].locks = items[i].locks /\ items[i].locks \in Nat
  BY <1>1, <1>2, ItemFacts DEF Reduced, SameLocks, Sound, Entry
<1>4. items'[k].locks = IF f = g THEN items[i].locks + 1 ELSE items[i].locks
  BY <1>1, <1>3 DEF Relocked, More
<1> QED BY <1>2, <1>4 DEF Balanced

\* Who sends the cached f depends on the stages and tasks of the clients.
LEMMA SameUsers ==
  ASSUME NEW f,
         \A d \in Clients : (stage'[d] = "sending" /\ ~job'[d].own /\ job'[d].file = f)
                             <=> (stage[d] = "sending" /\ ~job[d].own /\ job[d].file = f)
  PROVE  Users(f)' = Users(f)
BY DEF Users

\* One task goes on, as the same one.
LEMMA SameTask ==
  ASSUME NEW c \in Clients, stage'[c] = stage[c] \/ job[c].own,
         job'[c].own = job[c].own, job'[c].file = job[c].file,
         \A d \in Clients \ {c} : stage'[d] = stage[d] /\ job'[d] = job[d]
  PROVE  \A f \in Files : Users(f)' = Users(f)
BY SameUsers

\* One request begins or ends that is no user.
LEMMA NoUser ==
  ASSUME NEW c \in Clients, stage[c] # "sending" \/ job[c].own, stage'[c] # "sending",
         \A d \in Clients \ {c} : stage'[d] = stage[d] /\ job'[d] = job[d]
  PROVE  \A f \in Files : Users(f)' = Users(f)
BY SameUsers

LEMMA SendCachedLocks ==
  ASSUME IInv, NEW c \in Clients, stage[c] = "idle",
         NEW cached, Reduced(items, cached), NEW g \in Files, NEW q \in RangesFor(g),
         SendCached(c, cached, g, q)
  PROVE  LockStep
<1>1. PICK i \in At(cached, g) :
        /\ items' = LockAt(cached, i)
        /\ stage' = [stage EXCEPT ![c] = "sending"]
        /\ LET j == Job(g, cached[i].buff, FALSE, q.ranges)
           IN Begin(c, j, <<>>, FirstResponse(j), "inflight")
  BY DEF SendCached
<1> DEFINE j == Job(g, cached[i].buff, FALSE, q.ranges)
<1>2. i \in DOMAIN cached /\ cached[i].buff \in Buffers /\ cached[i].name = g
  BY ItemFacts DEF At, Reduced, Sound, Entry
<1>3. Relocked(cached, items', g, More)
  BY <1>1, <1>2, LockAtRelocks DEF Reduced
<1>4. j \in JobSet /\ j.file = g /\ ~j.own
  BY <1>2, RangesAreTyped DEF Job, JobSet
<1>5. Begin(c, j, <<>>, FirstResponse(j), "inflight")
  BY <1>1
<1> HIDE DEF j
<1>6. /\ \A d \in Clients \ {c} : job'[d] = job[d]
      /\ job'[c].file = g /\ ~job'[c].own
  <2>1. <<>> \in Seq(ResponseSet) /\ "inflight" \in Submitted /\ Typed
    BY DEF Submitted, IInv
  <2> QED BY <1>4, <1>5, <2>1, FirstResponseIsTyped, BeginSets
<1>7. stage'[c] = "sending" /\ \A d \in Clients \ {c} : stage'[d] = stage[d]
  BY <1>1 DEF IInv, Typed
<1>8. c \notin Users(g) /\ Users(g)' = Users(g) \cup {c}
  BY <1>6, <1>7 DEF Users
<1>9. \A f \in Files \ {g} : Users(f)' = Users(f)
  BY <1>6, <1>7, SameUsers
<1>10. Sound(items)
  BY DEF IInv, Typed
<1> QED BY <1>3, <1>8, <1>9, <1>10, LockingStep

LEMMA ReducedTwice ==
  ASSUME NEW s, NEW t, NEW u, Reduced(s, t), Reduced(t, u)
  PROVE  Reduced(s, u)
<1>1. SameLocks(s, u)
  BY DEF Reduced, SameLocks, NamesOf
<1> QED BY <1>1 DEF Reduced

\* A request that ends at once.
LEMMA RefusalLocks ==
  ASSUME IInv, NEW c \in Clients, stage[c] = "idle", Reduced(items, items'),
         NEW end \in {"refused", "dropped"}, stage' = [stage EXCEPT ![c] = end],
         job' = job
  PROVE  LockStep
<1>1. stage'[c] # "sending" /\ \A d \in Clients \ {c} : stage'[d] = stage[d] /\ job'[d] = job[d]
  BY DEF IInv, Typed
<1> QED BY <1>1, NoUser, UnlockedStep

LEMMA RequestLocks ==
  ASSUME IInv, "submit" \notin Faults, NEW c \in Clients, Request(c)
  PROVE  LockStep
<1>0. PICK f \in Files : \E q \in RangesFor(f) :
        \/ RequestCached(c, f, q) \/ RequestFromDisk(c, f, q)
        \/ RefuseFromDisk(c, f, q) \/ RequestNotFound(c, f, q)
  BY DEF Request
<1>1. PICK q \in RangesFor(f) :
        \/ RequestCached(c, f, q) \/ RequestFromDisk(c, f, q)
        \/ RefuseFromDisk(c, f, q) \/ RequestNotFound(c, f, q)
  BY <1>0
<1>2. Sound(items) /\ Reduced(items, items)
  BY Unreduced DEF IInv, Typed
<1>3. CASE RequestCached(c, f, q)
  <2>1. stage[c] = "idle"
    BY <1>3 DEF RequestCached
  <2>2. CASE SendCached(c, items, f, q)
    BY <1>2, <2>1, <2>2, SendCachedLocks
  <2>3. CASE RefuseCached(c, items, f, q)
    BY <1>2, <2>1, <2>3, RefuseCachedIsSound, RefusalLocks
  <2> QED BY <1>3, <2>2, <2>3 DEF RequestCached
<1>4. CASE RequestFromDisk(c, f, q)
  <2>1. Reduced(items, items')
    BY <1>2, <1>4, DeclinedIsSound DEF RequestFromDisk
  <2>2. /\ stage[c] = "idle" /\ stage'[c] = "reading"
        /\ \A d \in Clients \ {c} : stage'[d] = stage[d] /\ job'[d] = job[d]
    BY <1>4 DEF RequestFromDisk, IInv, Typed
  <2> QED BY <2>1, <2>2, NoUser, UnlockedStep
<1>5. CASE RefuseFromDisk(c, f, q)
  <2>1. Reduced(items, items')
    BY <1>2, <1>5, DeclinedIsSound DEF RefuseFromDisk
  <2> QED BY <1>5, <2>1, RefusalLocks DEF RefuseFromDisk
<1>6. CASE RequestNotFound(c, f, q)
  <2>1. PICK cached \in Declined(items, f, q), r \in RangesFor(NotFound) :
          \/ SendCached(c, cached, NotFound, r)
          \/ RefuseCached(c, cached, NotFound, r)
          \/ /\ items' \in Declined(cached, NotFound, r)
             /\ \E end \in {"refused", "dropped"} : stage' = [stage EXCEPT ![c] = end]
             /\ UNCHANGED <<job, responses>>
    BY <1>6 DEF RequestNotFound
  <2>2. Reduced(items, cached) /\ Sound(cached) /\ stage[c] = "idle"
    BY <1>2, <1>6, DeclinedIsSound DEF RequestNotFound
  <2>3. CASE SendCached(c, cached, NotFound, r)
    BY <2>2, <2>3, FilesAssumption, SendCachedLocks
  <2>4. CASE RefuseCached(c, cached, NotFound, r)
    BY <2>2, <2>4, RefuseCachedIsSound, ReducedTwice, RefusalLocks
  <2>5. ASSUME items' \in Declined(cached, NotFound, r),
               NEW end \in {"refused", "dropped"}, stage' = [stage EXCEPT ![c] = end],
               UNCHANGED <<job, responses>>
        PROVE  LockStep
    <3>1. Reduced(cached, items')
      BY <2>2, <2>5, DeclinedIsSound
    <3> QED BY <2>2, <2>5, <3>1, ReducedTwice, RefusalLocks
  <2> QED BY <2>1, <2>3, <2>4, <2>5
<1> QED BY <1>1, <1>3, <1>4, <1>5, <1>6

LEMMA FinishLocks ==
  ASSUME IInv, NEW c \in Clients, Sending(c), NEW end \in Ends, Finish(c, end)
  PROVE  LockStep
<1>0. PICK g, b : g = job[c].file /\ b = job[c].buff
  OBVIOUS
<1>1. PICK u : /\ Relocked(items, u, g, Less)
               /\ IF job[c].own THEN Added(u, items', g, b) ELSE items' = u
  BY <1>0, FinishIsSound
<1>2. /\ stage[c] = "sending" /\ stage'[c] = end
      /\ \A d \in Clients \ {c} : stage'[d] = stage[d] /\ job'[d] = job[d]
  BY DEF Finish, Sending, IInv, Typed
<1>3. end # "sending"
  BY DEF Ends
<1>4. job[c].own => \A f \in Files : Users(f)' = Users(f)
  BY <1>2, <1>3, NoUser
<1>5. ~job[c].own => /\ c \in Users(g) /\ Users(g)' = Users(g) \ {c}
                    /\ \A f \in Files \ {g} : Users(f)' = Users(f)
  BY <1>0, <1>2, <1>3 DEF Users
<1> SUFFICES ASSUME NEW f \in Files, NEW k \in DOMAIN items', items'[k].name = f
             PROVE  \/ f \notin NamesOf(items) /\ items'[k].locks = 0
                    \/ \E i \in DOMAIN items :
                         items[i].name = f /\ Balanced(f, items[i].locks, items'[k].locks)
  BY DEF LockStep
<1>6. CASE f \notin NamesOf(items)
  <2>1. f \notin NamesOf(u)
    BY <1>1, <1>6 DEF Relocked
  <2>2. job[c].own
    BY <1>1, <2>1 DEF NamesOf
  <2> QED BY <1>1, <1>6, <2>1, <2>2 DEF Added
<1>7. CASE f \in NamesOf(items)
  <2>1. PICK i \in DOMAIN items : items[i].name = f
    BY <1>7 DEF NamesOf
  <2>2. PICK j \in DOMAIN u : u[j].name = f
    BY <1>1, <1>7 DEF Relocked, NamesOf
  <2>3. u[j].locks = IF f = g THEN Less[items[i].locks] ELSE items[i].locks
    BY <1>1, <2>1, <2>2 DEF Relocked
  <2>4. items'[k].locks = u[j].locks
    <3>1. CASE job[c].own
      BY <1>1, <2>2, <3>1 DEF Added, SameLocks
    <3>2. CASE ~job[c].own
      BY <1>1, <2>2, <3>2 DEF Relocked, Sound, Distinct
    <3> QED BY <3>1, <3>2
  <2>5. Balanced(f, items[i].locks, items'[k].locks)
    <3>1. CASE f # g
      BY <1>4, <1>5, <2>3, <2>4, <3>1 DEF Balanced
    <3>2. CASE f = g /\ job[c].own
      BY <1>0, <1>2, <1>4, <2>3, <2>4, <3>2 DEF Balanced
    <3>3. CASE f = g /\ ~job[c].own
      BY <1>5, <2>3, <2>4, <3>3 DEF Balanced
    <3> QED BY <3>1, <3>2, <3>3
  <2> QED BY <2>1, <2>5
<1> QED BY <1>6, <1>7

\* A completion after which the same task goes on, and the cache is the same.
LEMMA TaskLocks ==
  ASSUME IInv, NEW c \in Clients, stage'[c] = stage[c] \/ job[c].own,
         job'[c].own = job[c].own, job'[c].file = job[c].file,
         \A d \in Clients \ {c} : stage'[d] = stage[d] /\ job'[d] = job[d],
         UNCHANGED items
  PROVE  LockStep
<1>1. Reduced(items, items')
  BY Unreduced DEF IInv, Typed
<1> QED BY <1>1, SameTask, UnlockedStep

LEMMA ReadLocks ==
  ASSUME IInv, NEW c \in Clients, Reading(c), StartSending(c) \/ ReadFailed(c), UNCHANGED items
  PROVE  LockStep
<1>1. stage[c] = "reading" /\ job[c] \in JobSet /\ job[c].file \in Files /\ job[c].own
  BY DEF Reading, IInv, Typed, Phased
<1>2. CASE StartSending(c)
  <2>1. PICK op \in Submitted : Begin(c, job[c], <<>>, FirstResponse(job[c]), op)
    BY <1>2 DEF StartSending
  <2>2. <<>> \in Seq(ResponseSet) /\ Typed /\ FirstResponse(job[c]) \in ResponseSet
    BY <1>1, FirstResponseIsTyped DEF IInv
  <2>3. /\ job'[c].file = job[c].file /\ job'[c].own = job[c].own
        /\ \A d \in Clients \ {c} : job'[d] = job[d]
    BY <1>1, <2>1, <2>2, BeginSets
  <2>4. \A d \in Clients \ {c} : stage'[d] = stage[d]
    BY <1>2 DEF StartSending, IInv, Typed
  <2> QED BY <1>1, <2>3, <2>4, TaskLocks
<1>3. CASE ReadFailed(c)
  <2>1. /\ stage'[c] # "sending"
        /\ \A d \in Clients \ {c} : stage'[d] = stage[d] /\ job'[d] = job[d]
    BY <1>3 DEF ReadFailed, IInv, Typed
  <2>2. Reduced(items, items')
    BY Unreduced DEF IInv, Typed
  <2> QED BY <1>1, <2>1, <2>2, NoUser, UnlockedStep
<1> QED BY <1>2, <1>3

LEMMA CompletionLocks ==
  ASSUME IInv, NEW c \in Clients, Completion(c)
  PROVE  LockStep
<1>1. job \in [Clients -> JobSet] /\ job[c] \in JobSet
  BY DEF IInv, Typed
<1>2. CASE ReadSome(c) \/ WriteSome(c)
  <2>1. \A total, left, op :
          job' = [job EXCEPT ![c].progress = total, ![c].op = op, ![c].left = left]
          => /\ job'[c].own = job[c].own /\ job'[c].file = job[c].file
             /\ \A d \in Clients \ {c} : job'[d] = job[d]
    BY <1>1 DEF JobSet
  <2>2. /\ job'[c].own = job[c].own /\ job'[c].file = job[c].file
        /\ \A d \in Clients \ {c} : job'[d] = job[d]
    BY <1>2, <2>1 DEF ReadSome, WriteSome
  <2>3. stage' = stage /\ items' = items
    BY <1>2 DEF ReadSome, WriteSome, cache
  <2> QED BY <2>2, <2>3, TaskLocks
<1>3. CASE ReadAll(c) \/ ReadEnd(c) \/ ReadError(c)
  BY <1>3, ReadLocks DEF ReadAll, ReadEnd, ReadError, cache
<1>4. CASE ReadInterrupted(c)
  <2>1. Reading(c) /\ UNCHANGED items
    BY <1>4 DEF ReadInterrupted
  <2>2. CASE ReadFailed(c)
    BY <2>1, <2>2, ReadLocks
  <2>3. CASE UNCHANGED <<stage, allocated, job>>
    BY <2>1, <2>3, TaskLocks
  <2> QED BY <1>4, <2>2, <2>3 DEF ReadInterrupted
<1>5. CASE WriteNext(c)
  <2>1. PICK n \in Transfers(job[c].left), op \in Submitted :
          Begin(c, job[c], Wrote(c, n), NextResponse(job[c]), op)
    BY <1>5 DEF WriteNext
  <2>2. /\ n \in Nat /\ responses[c] # <<>> /\ job[c].idx < Len(job[c].ranges) /\ Typed
        /\ stage' = stage /\ items' = items
    BY <1>5, SendingTask, TransfersBytes DEF WriteNext, IInv, cache
  <2>3. Wrote(c, n) \in Seq(ResponseSet) /\ NextResponse(job[c]) \in ResponseSet
    BY <1>1, <2>2, WroteCounts, NextResponseIsTyped
  <2>4. /\ job'[c].file = job[c].file /\ job'[c].own = job[c].own
        /\ \A d \in Clients \ {c} : job'[d] = job[d]
    BY <1>1, <2>1, <2>2, <2>3, BeginSets
  <2> QED BY <2>2, <2>4, TaskLocks
<1>6. CASE WriteAll(c) \/ WriteError(c)
  <2>1. Sending(c) /\ (Finish(c, "done") \/ Finish(c, "failed"))
    BY <1>6 DEF WriteAll, WriteError
  <2>2. "done" \in Ends /\ "failed" \in Ends
    BY DEF Ends
  <2> QED BY <2>1, <2>2, FinishLocks
<1>7. CASE WriteInterrupted(c)
  <2>1. PICK op : job' = [job EXCEPT ![c].op = op]
    BY <1>7 DEF WriteInterrupted
  <2>2. /\ job'[c].own = job[c].own /\ job'[c].file = job[c].file
        /\ \A d \in Clients \ {c} : job'[d] = job[d]
    BY <1>1, <2>1 DEF JobSet
  <2>3. stage' = stage /\ items' = items
    BY <1>7 DEF WriteInterrupted, cache
  <2> QED BY <2>2, <2>3, TaskLocks
<1> QED BY <1>2, <1>3, <1>4, <1>5, <1>6, <1>7 DEF Completion

\* If submissions succeed, locks and users of a file change together, but for
\* the one step that Balanced excepts.
LEMMA NextLocks ==
  ASSUME "submit" \notin Faults
  PROVE  IInv /\ [Next]_vars => LockStep
<1> SUFFICES ASSUME IInv, [Next]_vars PROVE LockStep
  OBVIOUS
<1>1. ASSUME NEW c \in Clients, Request(c) \/ Completion(c) PROVE LockStep
  BY <1>1, RequestLocks, CompletionLocks
<1>2. CASE FileChanged
  <2>1. Reduced(items, items') /\ UNCHANGED <<stage, job>>
    BY <1>2, InvalidateReduces DEF FileChanged, IInv, Typed
  <2>2. \A f \in Files : Users(f)' = Users(f)
    BY <2>1 DEF Users
  <2> QED BY <2>1, <2>2, UnlockedStep
<1>3. CASE UNCHANGED vars
  <2>1. Reduced(items, items')
    BY <1>3, Unreduced DEF vars, IInv, Typed
  <2>2. \A f \in Files : Users(f)' = Users(f)
    BY <1>3 DEF vars, Users
  <2> QED BY <2>1, <2>2, UnlockedStep
<1> QED BY <1>1, <1>2, <1>3 DEF Next

\* If submissions succeed, an item has no more locks than tasks that send it: no
\* end of a request leaves a lock behind, for any number of requests and any
\* sizes, whatever else is short, interrupted or fails.
THEOREM LocksAreReturned ==
  ASSUME "submit" \notin Faults
  PROVE  Spec => []NoLockLeaks
<1>1. Init => IInv /\ LocksCovered
  BY InitSound DEF Init, LocksCovered
<1>2. IInv /\ LocksCovered /\ [Next]_vars => IInv' /\ LocksCovered'
  BY NextKeeps, NextLocks, StepKeepsCover
<1>3. LocksCovered => NoLockLeaks
  BY DEF LocksCovered, NoLockLeaks, Locks, At
<1> QED BY <1>1, <1>2, <1>3, PTL DEF Spec

\* If submissions succeed, locks and users of an item only part when a task that
\* had itself read the same file from disk finishes.
THEOREM StealersAreReaders ==
  ASSUME "submit" \notin Faults
  PROVE  Spec => OnlyReadersStealLocks
<1> DEFINE Part(f) ==
      /\ At(items, f) # {} /\ At(items', f) # {}
      /\ Locks(f) = Cardinality(Users(f)) /\ Locks(f)' # Cardinality(Users(f)')
    Thief(f) == \E c \in Clients :
      stage[c] = "sending" /\ stage'[c] \in Ends /\ job[c].own /\ job[c].file = f
<1>1. IInv /\ [Next]_vars => \A f \in Files : Part(f) => Thief(f)
  <2> SUFFICES ASSUME IInv, [Next]_vars, NEW f \in Files, Part(f), ~Thief(f) PROVE FALSE
    OBVIOUS
  <2>1. PICK i \in DOMAIN items : items[i].name = f /\ Locks(f) = items[i].locks
    BY DEF At, Locks
  <2>2. PICK k \in DOMAIN items' : items'[k].name = f /\ Locks(f)' = items'[k].locks
    BY DEF At, Locks
  <2>3. Balanced(f, items[i].locks, items'[k].locks)
    <3>1. LockStep
      BY NextLocks
    <3>2. f \in NamesOf(items)
      BY <2>1 DEF NamesOf
    <3>3. \A j \in DOMAIN items : items[j].name = f => j = i
      BY <2>1 DEF IInv, Typed, Sound, Distinct
    <3> QED BY <2>2, <3>1, <3>2, <3>3 DEF LockStep
  <2> DEFINE U == Users(f)
             V == Users(f)'
  <2>4. IsFiniteSet(U) /\ Cardinality(U) \in Nat
    BY UsersAreCounted
  <2>5. items[i].locks = Cardinality(U) /\ items'[k].locks # Cardinality(V)
    BY <2>1, <2>2
  <2>6. \/ items'[k].locks = items[i].locks /\ V = U
        \/ items'[k].locks = items[i].locks + 1 /\ \E c \in Clients \ U : V = U \cup {c}
        \/ items'[k].locks = Less[items[i].locks] /\ \E c \in U : V = U \ {c}
    BY <2>3 DEF Balanced
  <2> HIDE DEF U, V
  <2>7. ASSUME NEW c \in Clients \ U, V = U \cup {c},
               items'[k].locks = items[i].locks + 1
        PROVE  FALSE
    BY <2>4, <2>5, <2>7, FS_AddElement
  <2>8. ASSUME NEW c \in U, V = U \ {c}, items'[k].locks = Less[items[i].locks]
        PROVE  FALSE
    <3>1. Cardinality(V) = Cardinality(U) - 1
      BY <2>4, <2>8, FS_RemoveElement
    <3>2. Cardinality(U) # 0
      BY <2>4, <2>8, FS_EmptySet
    <3> QED BY <2>4, <2>5, <2>8, <3>1, <3>2 DEF Less
  <2> QED BY <2>5, <2>6, <2>7, <2>8
<1> QED BY <1>1, InductiveInvariant, PTL DEF Spec, OnlyReadersStealLocks

-----------------------------------------------------------------------------
(* What has been sent.                                                     *)

Complete(r) == r.sent = Header + r.len

\* The counts of all responses in s began with zero.
FromZero(s) == \A k \in DOMAIN s : s[k].from = 0

AllButLast(s) == \A k \in DOMAIN s : k # Len(s) => Complete(s[k])

\* Of client c: what has been sent and what is left make up the current response,
\* and those before it are complete.
SentBy(c) ==
  /\ \A k \in DOMAIN responses[c] : Honest(responses[c][k])
  /\ FromZero(responses[c]) =>
       /\ stage[c] = "sending" =>
            /\ Ongoing(c).sent = job[c].progress
            /\ Ongoing(c).sent + job[c].left = FullSize(c)
            /\ AllButLast(responses[c])
       /\ stage[c] = "done" => \A k \in DOMAIN responses[c] : Complete(responses[c][k])

AllSent == \A c \in Clients : SentBy(c)

LEMMA SentElsewhere ==
  ASSUME NEW d, SentBy(d), responses'[d] = responses[d], stage'[d] = stage[d],
         job'[d] = job[d]
  PROVE  SentBy(d)'
BY DEF SentBy, Ongoing, FullSize

\* Requests that end without a success have nothing to keep.
LEMMA NothingPromised ==
  ASSUME NEW c, SentBy(c), responses'[c] = responses[c], stage'[c] \notin {"sending", "done"}
  PROVE  SentBy(c)'
BY DEF SentBy

LEMMA BeginSends ==
  ASSUME Typed, NEW c \in Clients, NEW j \in JobSet, NEW rs \in Seq(ResponseSet),
         NEW r \in ResponseSet, NEW op \in Submitted, Begin(c, j, rs, r, op),
         r.sent = 0, Honest(r), stage'[c] = "sending",
         \A k \in DOMAIN rs : Honest(rs[k]),
         FromZero(rs) => \A k \in DOMAIN rs : Complete(rs[k])
  PROVE  SentBy(c)'
<1> DEFINE e == BegunResponse(j, r)
           s == responses'[c]
<1>1. /\ e \in ResponseSet /\ e.sent = 0 /\ e.from = j.progress /\ e.len = r.len
      /\ e.announced = r.announced
  BY DEF BegunResponse, ResponseSet, JobSet
<1>2. s = Append(rs, e)
  BY BeginSets
<1>3. job'[c].progress = j.progress /\ job'[c].left = Header + r.len
  <2>1. job'[c] = BegunTask(j, r, op)
    BY BeginSets
  <2> QED BY <2>1 DEF BegunTask, JobSet
<1> HIDE DEF e, s
<1>4. /\ s \in Seq(ResponseSet) /\ Len(s) = Len(rs) + 1 /\ s[Len(rs) + 1] = e
      /\ \A k \in 1..Len(rs) : s[k] = rs[k]
      /\ Len(rs) \in Nat /\ DOMAIN s = 1..(Len(rs) + 1) /\ DOMAIN rs = 1..Len(rs)
  BY <1>1, <1>2, AppendProperties, LenProperties
<1>5. \A k \in DOMAIN s : (k # Len(s) => k \in DOMAIN rs /\ s[k] = rs[k]) /\ (k = Len(s) => s[k] = e)
  BY <1>4
<1>6. \A k \in DOMAIN s : Honest(s[k])
  BY <1>1, <1>5 DEF Honest
<1>7. ASSUME FromZero(s)
      PROVE  j.progress = 0 /\ AllButLast(s)
  <2>1. e.from = 0
    BY <1>4, <1>7 DEF FromZero
  <2>2. FromZero(rs)
    BY <1>4, <1>7 DEF FromZero
  <2> QED BY <1>1, <1>5, <2>1, <2>2 DEF AllButLast
<1>8. Ongoing(c)' = e
  <2>1. Ongoing(c)' = s[Len(s)]
    BY DEF Ongoing, Last, s
  <2> QED BY <1>4, <2>1
<1>9. FullSize(c)' = Header + r.len
  BY <1>1, <1>8 DEF FullSize
<1>10. Header + r.len \in Nat
  BY HeaderAssumption DEF ResponseSet
<1>11. FromZero(s) =>
         /\ Ongoing(c)'.sent = job'[c].progress
         /\ Ongoing(c)'.sent + job'[c].left = FullSize(c)'
         /\ AllButLast(s)
  BY <1>1, <1>3, <1>7, <1>8, <1>9, <1>10
<1> QED BY <1>6, <1>11 DEF SentBy, s, FromZero, AllButLast, Honest, Complete

\* What n more bytes make of the responses, as Wrote counts them.
LEMMA WroteSends ==
  ASSUME IInv, NEW c \in Clients, Sending(c), SentBy(c), NEW n \in Transfers(job[c].left)
  PROVE  /\ \A k \in DOMAIN Wrote(c, n) : Honest(Wrote(c, n)[k])
         /\ FromZero(Wrote(c, n)) =>
              /\ FromZero(responses[c]) /\ AllButLast(Wrote(c, n))
              /\ Ongoing(c).sent + n = job[c].progress + n
              /\ (job[c].progress + n >= FullSize(c) =>
                    \A k \in DOMAIN Wrote(c, n) : Complete(Wrote(c, n)[k]))
<1> DEFINE s == responses[c]
           t == Wrote(c, n)
           o == Ongoing(c)
<1>1. /\ job[c].left \in Nat /\ job[c].progress \in Nat /\ s # <<>> /\ FullSize(c) \in Nat
      /\ n \in Nat /\ n <= job[c].left /\ Typed
  BY SendingTask, TransfersBytes DEF IInv
<1>2. /\ t \in Seq(ResponseSet) /\ DOMAIN t = DOMAIN s /\ Len(t) = Len(s)
      /\ Len(s) \in DOMAIN s
      /\ \A k \in DOMAIN s : k # Len(s) => t[k] = s[k]
      /\ t[Len(s)] = [o EXCEPT !.sent = @ + n]
      /\ o \in ResponseSet /\ o = s[Len(s)]
  BY <1>1, WroteCounts
<1>3. FullSize(c) = Header + o.len
  BY DEF FullSize
<1> HIDE DEF o, t
<1>4. /\ t[Len(s)].from = o.from /\ t[Len(s)].len = o.len /\ t[Len(s)].announced = o.announced
      /\ t[Len(s)].sent = o.sent + n /\ o.sent \in Nat
  BY <1>2 DEF ResponseSet
<1>5. /\ \A k \in DOMAIN s : Honest(s[k])
      /\ FromZero(s) => /\ o.sent = job[c].progress /\ o.sent + job[c].left = FullSize(c)
                        /\ AllButLast(s)
  BY DEF SentBy, Sending, o
<1> HIDE DEF s
<1>6. \A k \in DOMAIN t : Honest(t[k])
  BY <1>2, <1>4, <1>5 DEF Honest
<1>7. FromZero(t) => FromZero(s)
  BY <1>2, <1>4 DEF FromZero
<1>8. FromZero(t) => AllButLast(t)
  BY <1>2, <1>5, <1>7 DEF AllButLast
<1>9. ASSUME FromZero(t), job[c].progress + n >= FullSize(c)
      PROVE  Complete(t[Len(s)])
  <2>1. o.sent + n = FullSize(c)
    BY <1>1, <1>4, <1>5, <1>7, <1>9
  <2> QED BY <1>3, <1>4, <2>1 DEF Complete
<1>10. FromZero(t) /\ job[c].progress + n >= FullSize(c) => \A k \in DOMAIN t : Complete(t[k])
  BY <1>2, <1>8, <1>9 DEF AllButLast
<1>11. FromZero(t) => o.sent + n = job[c].progress + n
  BY <1>5, <1>7
<1> QED BY <1>6, <1>7, <1>8, <1>10, <1>11 DEF s, t, o

\* Only the task of c takes a step.
LEMMA OneStepSends ==
  ASSUME AllSent, NEW c \in Clients, SentBy(c)',
         \A d \in Clients \ {c} :
           responses'[d] = responses[d] /\ stage'[d] = stage[d] /\ job'[d] = job[d]
  PROVE  AllSent'
BY SentElsewhere DEF AllSent

LEMMA FirstSends ==
  ASSUME IInv, NEW c \in Clients, NEW j \in JobSet, j.file \in Files, NEW op \in Submitted,
         Begin(c, j, <<>>, FirstResponse(j), op), stage' = [stage EXCEPT ![c] = "sending"],
         AllSent
  PROVE  AllSent'
<1>1. /\ <<>> \in Seq(ResponseSet) /\ Typed /\ DOMAIN <<>> = {}
      /\ stage'[c] = "sending" /\ \A d \in Clients \ {c} : stage'[d] = stage[d]
  <2>1. <<>> \in Seq(ResponseSet) /\ Len(<<>>) = 0
    OBVIOUS
  <2>2. DOMAIN <<>> = 1..0
    BY <2>1, LenProperties
  <2> QED BY <2>1, <2>2 DEF IInv, Typed
<1>2. FirstResponse(j) \in ResponseSet /\ FirstResponse(j).sent = 0 /\ Honest(FirstResponse(j))
  BY FirstResponseIsTyped
<1>3. \A d \in Clients \ {c} : job'[d] = job[d] /\ responses'[d] = responses[d]
  BY <1>1, <1>2, BeginSets
<1>4. SentBy(c)'
  BY <1>1, <1>2, BeginSends
<1> QED BY <1>1, <1>3, <1>4, OneStepSends

LEMMA EndSends ==
  ASSUME IInv, NEW c \in Clients, NEW end \in {"refused", "dropped", "failed", "reading"},
         stage' = [stage EXCEPT ![c] = end], UNCHANGED responses,
         \A d \in Clients \ {c} : job'[d] = job[d], AllSent
  PROVE  AllSent'
<1>1. stage'[c] = end /\ \A d \in Clients \ {c} : stage'[d] = stage[d]
  BY DEF IInv, Typed
<1>2. SentBy(c)'
  BY <1>1, NothingPromised DEF AllSent
<1> QED BY <1>1, <1>2, OneStepSends

LEMMA SendCachedSends ==
  ASSUME IInv, NEW c \in Clients, NEW cached, Sound(cached),
         NEW g \in Files, NEW q \in RangesFor(g), SendCached(c, cached, g, q), AllSent
  PROVE  AllSent'
<1>1. PICK i \in At(cached, g) :
        /\ stage' = [stage EXCEPT ![c] = "sending"]
        /\ LET j == Job(g, cached[i].buff, FALSE, q.ranges)
           IN Begin(c, j, <<>>, FirstResponse(j), "inflight")
  BY DEF SendCached
<1> DEFINE j == Job(g, cached[i].buff, FALSE, q.ranges)
<1>2. cached[i].buff \in Buffers
  BY ItemFacts DEF At, Sound, Entry
<1>3. j \in JobSet /\ j.file = g
  BY <1>2, RangesAreTyped DEF Job, JobSet
<1>4. Begin(c, j, <<>>, FirstResponse(j), "inflight") /\ "inflight" \in Submitted
  BY <1>1 DEF Submitted
<1> HIDE DEF j
<1> QED BY <1>1, <1>3, <1>4, FirstSends

LEMMA RequestSends ==
  ASSUME IInv, AllSent, NEW c \in Clients, Request(c)
  PROVE  AllSent'
<1>1. PICK f \in Files : \E q \in RangesFor(f) :
        \/ RequestCached(c, f, q) \/ RequestFromDisk(c, f, q)
        \/ RefuseFromDisk(c, f, q) \/ RequestNotFound(c, f, q)
  BY DEF Request
<1>2. PICK q \in RangesFor(f) :
        \/ RequestCached(c, f, q) \/ RequestFromDisk(c, f, q)
        \/ RefuseFromDisk(c, f, q) \/ RequestNotFound(c, f, q)
  BY <1>1
<1>3. Sound(items) /\ NotFound \in Files
  BY FilesAssumption DEF IInv, Typed
<1>4. CASE RequestCached(c, f, q)
  <2>1. CASE SendCached(c, items, f, q)
    BY <1>3, <2>1, SendCachedSends
  <2>2. CASE RefuseCached(c, items, f, q)
    BY <2>2, EndSends DEF RefuseCached
  <2> QED BY <1>4, <2>1, <2>2 DEF RequestCached
<1>5. CASE RequestFromDisk(c, f, q)
  <2>1. /\ stage' = [stage EXCEPT ![c] = "reading"] /\ UNCHANGED responses
        /\ \A d \in Clients \ {c} : job'[d] = job[d]
    BY <1>5 DEF RequestFromDisk, IInv, Typed
  <2> QED BY <2>1, EndSends
<1>6. CASE RefuseFromDisk(c, f, q)
  BY <1>6, EndSends DEF RefuseFromDisk
<1>7. CASE RequestNotFound(c, f, q)
  <2>1. PICK cached \in Declined(items, f, q), r \in RangesFor(NotFound) :
          \/ SendCached(c, cached, NotFound, r)
          \/ RefuseCached(c, cached, NotFound, r)
          \/ /\ \E end \in {"refused", "dropped"} : stage' = [stage EXCEPT ![c] = end]
             /\ UNCHANGED <<job, responses>>
    BY <1>7 DEF RequestNotFound
  <2>2. CASE SendCached(c, cached, NotFound, r)
    BY <1>3, <2>2, DeclinedIsSound, SendCachedSends
  <2>3. CASE RefuseCached(c, cached, NotFound, r)
    BY <2>3, EndSends DEF RefuseCached
  <2> QED BY <2>1, <2>2, <2>3, EndSends
<1> QED BY <1>2, <1>4, <1>5, <1>6, <1>7

LEMMA ReadSends ==
  ASSUME IInv, AllSent, NEW c \in Clients, Reading(c),
         StartSending(c) \/ (ReadFailed(c) /\ UNCHANGED responses)
  PROVE  AllSent'
<1>1. CASE StartSending(c)
  <2>1. PICK op \in Submitted : Begin(c, job[c], <<>>, FirstResponse(job[c]), op)
    BY <1>1 DEF StartSending
  <2>2. job[c] \in JobSet /\ job[c].file \in Files
    BY DEF Reading, IInv, Typed, Phased
  <2> QED BY <1>1, <2>1, <2>2, FirstSends DEF StartSending
<1>2. CASE ReadFailed(c) /\ UNCHANGED responses
  <2>1. /\ stage' = [stage EXCEPT ![c] = "dropped"]
        /\ \A d \in Clients \ {c} : job'[d] = job[d]
    BY <1>2 DEF ReadFailed, IInv, Typed
  <2> QED BY <1>2, <2>1, EndSends
<1> QED BY <1>1, <1>2

LEMMA WriteSomeSends ==
  ASSUME IInv, AllSent, NEW c \in Clients, WriteSome(c)
  PROVE  AllSent'
<1>1. PICK n \in Transfers(job[c].left), op \in Submitted :
        LET total == job[c].progress + n
        IN /\ total < FullSize(c)
           /\ job' = [job EXCEPT ![c].progress = total, ![c].op = op,
                                 ![c].left = FullSize(c) - total]
           /\ responses' = [responses EXCEPT ![c] = Wrote(c, n)]
  BY DEF WriteSome
<1> DEFINE total == job[c].progress + n
           left == FullSize(c) - total
<1>2. /\ Sending(c) /\ stage' = stage /\ SentBy(c) /\ Typed
  BY DEF WriteSome, AllSent, IInv
<1>3. /\ job[c].progress \in Nat /\ FullSize(c) \in Nat /\ n \in Nat
      /\ responses[c] # <<>> /\ job[c] \in JobSet
  BY <1>2, SendingTask, TransfersBytes
<1>4. total + left = FullSize(c)
  BY <1>3
<1>5. /\ job' = [job EXCEPT ![c].progress = total, ![c].op = op, ![c].left = left]
      /\ responses' = [responses EXCEPT ![c] = Wrote(c, n)]
  BY <1>1
<1>6. /\ job'[c].progress = total /\ job'[c].left = left /\ responses'[c] = Wrote(c, n)
      /\ \A d \in Clients \ {c} : job'[d] = job[d] /\ responses'[d] = responses[d]
  BY <1>3, <1>5 DEF IInv, Typed, JobSet
<1>7. /\ \A k \in DOMAIN Wrote(c, n) : Honest(Wrote(c, n)[k])
      /\ FromZero(Wrote(c, n)) => AllButLast(Wrote(c, n)) /\ Ongoing(c).sent + n = total
  BY <1>2, WroteSends
<1>8. Ongoing(c)' = [Ongoing(c) EXCEPT !.sent = @ + n] /\ Ongoing(c) \in ResponseSet
  <2>1. /\ Len(Wrote(c, n)) = Len(responses[c]) /\ Ongoing(c) \in ResponseSet
        /\ Wrote(c, n)[Len(responses[c])] = [Ongoing(c) EXCEPT !.sent = @ + n]
    BY <1>2, <1>3, WroteCounts
  <2>2. Ongoing(c)' = responses'[c][Len(responses'[c])]
    BY DEF Ongoing, Last
  <2> QED BY <1>6, <2>1, <2>2
<1>9. Ongoing(c)'.sent = Ongoing(c).sent + n /\ FullSize(c)' = FullSize(c)
  BY <1>8 DEF ResponseSet, FullSize
<1> HIDE DEF total, left
<1>10. SentBy(c)'
  <2>1. stage'[c] = "sending"
    BY <1>2 DEF Sending
  <2>2. FromZero(responses'[c]) =>
          /\ Ongoing(c)'.sent = job'[c].progress
          /\ Ongoing(c)'.sent + job'[c].left = FullSize(c)'
          /\ AllButLast(responses'[c])
    BY <1>4, <1>6, <1>7, <1>9
  <2> QED BY <1>6, <1>7, <2>1, <2>2 DEF SentBy, FromZero, AllButLast, Honest, Complete
<1> QED BY <1>2, <1>6, <1>10, OneStepSends

LEMMA WriteNextSends ==
  ASSUME IInv, AllSent, NEW c \in Clients, WriteNext(c)
  PROVE  AllSent'
<1>1. PICK n \in Transfers(job[c].left), op \in Submitted :
        /\ job[c].progress + n >= FullSize(c)
        /\ Begin(c, job[c], Wrote(c, n), NextResponse(job[c]), op)
  BY DEF WriteNext
<1>2. /\ Sending(c) /\ stage' = stage /\ stage[c] = "sending" /\ SentBy(c) /\ Typed
      /\ job[c].idx < Len(job[c].ranges)
  BY DEF WriteNext, Sending, AllSent, IInv
<1>3. job[c] \in JobSet /\ n \in Nat /\ responses[c] # <<>>
  BY <1>2, SendingTask, TransfersBytes
<1>4. /\ Wrote(c, n) \in Seq(ResponseSet) /\ NextResponse(job[c]) \in ResponseSet
      /\ NextResponse(job[c]).sent = 0 /\ Honest(NextResponse(job[c]))
  BY <1>2, <1>3, WroteCounts, NextResponseIsTyped
<1>5. /\ \A k \in DOMAIN Wrote(c, n) : Honest(Wrote(c, n)[k])
      /\ FromZero(Wrote(c, n)) => \A k \in DOMAIN Wrote(c, n) : Complete(Wrote(c, n)[k])
  BY <1>1, <1>2, WroteSends
<1>6. SentBy(c)'
  BY <1>1, <1>2, <1>3, <1>4, <1>5, BeginSends
<1>7. \A d \in Clients \ {c} : job'[d] = job[d] /\ responses'[d] = responses[d]
  BY <1>1, <1>2, <1>3, <1>4, BeginSets
<1> QED BY <1>2, <1>6, <1>7, OneStepSends

LEMMA WriteAllSends ==
  ASSUME IInv, AllSent, NEW c \in Clients, WriteAll(c)
  PROVE  AllSent'
<1>1. PICK n \in Transfers(job[c].left) :
        /\ job[c].progress + n >= FullSize(c)
        /\ responses' = [responses EXCEPT ![c] = Wrote(c, n)]
  BY DEF WriteAll
<1>2. Sending(c) /\ SentBy(c) /\ Finish(c, "done")
  BY DEF WriteAll, AllSent
<1>3. /\ \A k \in DOMAIN Wrote(c, n) : Honest(Wrote(c, n)[k])
      /\ FromZero(Wrote(c, n)) => \A k \in DOMAIN Wrote(c, n) : Complete(Wrote(c, n)[k])
  BY <1>1, <1>2, WroteSends
<1>4. /\ stage'[c] = "done" /\ responses'[c] = Wrote(c, n)
      /\ \A d \in Clients \ {c} :
           responses'[d] = responses[d] /\ stage'[d] = stage[d] /\ job'[d] = job[d]
  BY <1>1, <1>2 DEF Finish, IInv, Typed
<1>5. SentBy(c)'
  BY <1>3, <1>4 DEF SentBy, FromZero, Honest, Complete
<1> QED BY <1>4, <1>5, OneStepSends

LEMMA CompletionSends ==
  ASSUME IInv, AllSent, NEW c \in Clients, Completion(c)
  PROVE  AllSent'
<1>1. job \in [Clients -> JobSet] /\ job[c] \in JobSet /\ SentBy(c)
  BY DEF IInv, Typed, AllSent
<1>2. CASE ReadSome(c)
  <2>1. /\ UNCHANGED <<stage, responses>> /\ stage[c] = "reading"
        /\ \A d \in Clients \ {c} : job'[d] = job[d]
    BY <1>1, <1>2 DEF ReadSome, Reading
  <2>2. SentBy(c)'
    BY <1>1, <2>1, NothingPromised
  <2> QED BY <2>1, <2>2, OneStepSends
<1>3. CASE ReadAll(c) \/ ReadEnd(c) \/ ReadError(c)
  BY <1>3, ReadSends DEF ReadAll, ReadEnd, ReadError
<1>4. CASE ReadInterrupted(c)
  <2>1. Reading(c) /\ UNCHANGED responses
    BY <1>4 DEF ReadInterrupted
  <2>2. CASE ReadFailed(c)
    BY <2>1, <2>2, ReadSends
  <2>3. CASE UNCHANGED <<stage, allocated, job>>
    BY <2>1, <2>3, SentElsewhere DEF AllSent
  <2> QED BY <1>4, <2>2, <2>3 DEF ReadInterrupted
<1>5. CASE WriteError(c)
  <2>1. /\ stage' = [stage EXCEPT ![c] = "failed"] /\ UNCHANGED responses
        /\ \A d \in Clients \ {c} : job'[d] = job[d]
    BY <1>1, <1>5 DEF WriteError, Finish
  <2> QED BY <2>1, EndSends
<1>6. CASE WriteInterrupted(c)
  <2>1. PICK op : job' = [job EXCEPT ![c].op = op]
    BY <1>6 DEF WriteInterrupted
  <2>2. /\ job'[c].progress = job[c].progress /\ job'[c].left = job[c].left
        /\ \A d \in Clients \ {c} : job'[d] = job[d]
    BY <1>1, <2>1 DEF JobSet
  <2>3. UNCHANGED <<stage, responses>>
    BY <1>6 DEF WriteInterrupted
  <2>4. SentBy(c)'
    BY <1>1, <2>2, <2>3 DEF SentBy, Ongoing, FullSize
  <2> QED BY <2>2, <2>3, <2>4, OneStepSends
<1> QED BY <1>2, <1>3, <1>4, <1>5, <1>6, WriteSomeSends, WriteNextSends, WriteAllSends
        DEF Completion

LEMMA NextSends == IInv /\ AllSent /\ [Next]_vars => AllSent'
<1> SUFFICES ASSUME IInv, AllSent, [Next]_vars PROVE AllSent'
  OBVIOUS
<1>1. ASSUME NEW c \in Clients, Request(c) \/ Completion(c) PROVE AllSent'
  BY <1>1, RequestSends, CompletionSends
<1>2. CASE FileChanged \/ UNCHANGED vars
  BY <1>2, SentElsewhere DEF FileChanged, vars, AllSent
<1> QED BY <1>1, <1>2 DEF Next

\* A request that is reported as a success has sent all that its headers announce,
\* but for the last byte of a range, unless a count did not begin with zero: for
\* any sizes and ranges, however the writes are split and interrupted.
THEOREM SuccessIsHonest == Spec => []SuccessMeansSent
<1>1. Init => IInv /\ AllSent
  <2> SUFFICES ASSUME Init PROVE AllSent
    BY InitSound
  <2>1. \A c \in Clients : responses[c] = <<>> /\ stage[c] = "idle"
    BY DEF Init
  <2>2. \A c \in Clients : DOMAIN responses[c] = {}
    BY <2>1
  <2> QED BY <2>1, <2>2 DEF AllSent, SentBy
<1>2. IInv /\ AllSent /\ [Next]_vars => IInv' /\ AllSent'
  BY NextKeeps, NextSends
<1>3. IInv /\ AllSent => SuccessMeansSent
  <2> SUFFICES ASSUME IInv, AllSent, NEW c \in Clients, stage[c] = "done",
                      FromZero(responses[c]), NEW k \in DOMAIN responses[c]
               PROVE  LET r == responses[c][k]
                      IN r.sent = Header + r.announced - (IF r.len < r.announced THEN 1 ELSE 0)
    BY DEF SuccessMeansSent, FromZero
  <2> DEFINE r == responses[c][k]
  <2>1. Complete(r) /\ Honest(r)
    BY DEF AllSent, SentBy
  <2>2. r \in ResponseSet
    <3>1. responses[c] \in Seq(ResponseSet)
      BY DEF IInv, Typed
    <3>2. k \in 1..Len(responses[c])
      BY <3>1, LenProperties
    <3> QED BY <3>1, <3>2, ElementOfSeq
  <2>3. Header \in Nat /\ r.len \in Nat
    BY <2>2, HeaderAssumption DEF ResponseSet
  <2>4. r.sent = Header + r.len /\ (r.announced = r.len \/ r.announced = r.len + 1)
    BY <2>1 DEF Complete, Honest
  <2> HIDE DEF r
  <2>5. r.sent = Header + r.announced - (IF r.len < r.announced THEN 1 ELSE 0)
    BY <2>3, <2>4
  <2> QED BY <2>5 DEF r
<1> QED BY <1>1, <1>2, <1>3, PTL DEF Spec
=============================================================================
