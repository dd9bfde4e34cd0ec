----------------------------- MODULE DataLemmas -----------------------------
(***************************************************************************)
(* What the proofs need of numbers and sequences: induction, stated with   *)
(* sets where the library's theorems take an operator, smallest elements,  *)
(* functions that are defined recursively, and sequences that lose or gain *)
(* an element.                                                             *)
(***************************************************************************)
EXTENDS Integers, SequencesExt, SequenceTheorems, FiniteSetTheorems,
        WellFoundedInduction, TLAPS

-----------------------------------------------------------------------------
(* Numbers.                                                                *)

\* A set of numbers has a smallest one: the initial segments that end in it are
\* finite sets, and these are well founded.
LEMMA SmallestNumber ==
  ASSUME NEW S \in SUBSET Nat, S # {}
  PROVE  \E m \in S : \A n \in S : m <= n
<1> DEFINE R == StrictSubsetOrdering(Nat)
           T == {0..n : n \in S}
<1>1. \A n \in S : 0..n \in FiniteSubsetsOf(Nat)
  BY FS_Interval DEF FiniteSubsetsOf
<1>2. T \subseteq FiniteSubsetsOf(Nat) /\ T # {}
  BY <1>1
<1>3. IsWellFoundedOn(R, FiniteSubsetsOf(Nat))
  BY FS_StrictSubsetOrderingWellFounded
<1>4. \E x \in T : \A y \in T : ~ (<<y, x>> \in R)
  <2> HIDE DEF R, T
  <2> QED BY <1>2, <1>3, WFMin
<1>5. PICK m \in S : \A n \in S : ~ (<<0..n, 0..m>> \in R)
  BY <1>4
<1>6. ASSUME NEW n \in S PROVE m <= n
  <2>1. ~ (<<0..n, 0..m>> \in R)
    BY <1>5
  <2>2. ~ (0..n \subseteq 0..m /\ 0..n # 0..m)
    BY <2>1 DEF StrictSubsetOrdering
  <2>3. n < m => m \notin 0..n /\ m \in 0..m /\ 0..n \subseteq 0..m
    OBVIOUS
  <2> QED BY <2>2, <2>3
<1> QED BY <1>6

\* Min finds it.
LEMMA MinOfNumbers ==
  ASSUME NEW S \in SUBSET Nat, S # {}
  PROVE  Min(S) \in S /\ \A n \in S : Min(S) <= n
<1>1. \E m \in S : \A n \in S : m <= n
  BY SmallestNumber
<1> QED BY <1>1 DEF Min

\* Induction: a set with the first number and with the one after each that it has.
LEMMA InductionFrom ==
  ASSUME NEW lo \in Nat, NEW hi \in Int, NEW S,
         lo \in S, \A n \in lo..(hi - 1) : n \in S => n + 1 \in S
  PROVE  lo..hi \subseteq S
<1> DEFINE T == (lo..hi) \ S
<1>1. SUFFICES ASSUME T # {} PROVE FALSE
  OBVIOUS
<1>2. PICK m \in T : \A n \in T : m <= n
  <2>1. T \in SUBSET Nat
    OBVIOUS
  <2> HIDE DEF T
  <2> QED BY <1>1, <2>1, SmallestNumber
<1>3. m # lo /\ m - 1 \in lo..(hi - 1) /\ m - 1 \notin T
  BY <1>2
<1>4. m - 1 \in S
  BY <1>3
<1>5. (m - 1) + 1 \in S
  BY <1>3, <1>4
<1> QED BY <1>5

\* The values of a recursion: the first one, and each from the one before it.
IsRecursion(f, lo, hi, first, step) ==
  \A n \in lo..hi : f[n] = IF n = lo THEN first ELSE step[n][f[n - 1]]

\* There is a function that satisfies a recursive definition on an interval.
LEMMA RecursionExists ==
  ASSUME NEW lo \in Nat, NEW hi \in Nat, lo <= hi, NEW V, NEW first \in V,
         NEW step \in [(lo + 1)..hi -> [V -> V]]
  PROVE  \E f \in [lo..hi -> V] : IsRecursion(f, lo, hi, first, step)
<1> DEFINE S == {n \in lo..hi : \E f \in [lo..n -> V] : IsRecursion(f, lo, n, first, step)}
<1>1. lo \in S
  <2> DEFINE f == [n \in lo..lo |-> first]
  <2>1. f \in [lo..lo -> V] /\ IsRecursion(f, lo, lo, first, step)
    BY DEF IsRecursion
  <2> HIDE DEF f
  <2> QED BY <2>1
<1>2. ASSUME NEW n \in lo..(hi - 1), n \in S PROVE n + 1 \in S
  <2>0. n \in Nat /\ n + 1 \in lo..hi /\ n + 1 \in (lo + 1)..hi /\ n \in lo..n
    OBVIOUS
  <2>1. PICK f \in [lo..n -> V] : IsRecursion(f, lo, n, first, step)
    BY <1>2
  <2> DEFINE last == step[n + 1][f[n]]
             g == [k \in lo..(n + 1) |-> IF k = n + 1 THEN last ELSE f[k]]
  <2>2. last \in V
    <3>1. f[n] \in V
      BY <2>0, <2>1
    <3>2. step[n + 1] \in [V -> V]
      BY <2>0
    <3> QED BY <3>1, <3>2
  <2>3. g \in [lo..(n + 1) -> V]
    <3> HIDE DEF last
    <3>1. \A k \in lo..(n + 1) : k # n + 1 => k \in lo..n
      BY <2>0
    <3> QED BY <2>1, <2>2, <3>1
  <2>4. ASSUME NEW k \in lo..(n + 1)
        PROVE  g[k] = IF k = lo THEN first ELSE step[k][g[k - 1]]
    <3>1. CASE k = n + 1
      <4>1. k # lo /\ k - 1 = n /\ n \in lo..(n + 1) /\ n # n + 1
        BY <2>0, <3>1
      <4>2. g[k] = last /\ g[k - 1] = f[n]
        BY <3>1, <4>1
      <4> QED BY <3>1, <4>1, <4>2
    <3>2. CASE k # n + 1
      <4>1. k \in lo..n /\ k \in Int
        BY <2>0, <3>2
      <4>2. f[k] = IF k = lo THEN first ELSE step[k][f[k - 1]]
        BY <2>1, <4>1 DEF IsRecursion
      <4>3. g[k] = f[k]
        BY <3>2, <4>1
      <4>4. k # lo => k - 1 \in lo..(n + 1) /\ k - 1 # n + 1
        BY <2>0, <4>1
      <4>5. k # lo => g[k - 1] = f[k - 1]
        BY <4>4
      <4> HIDE DEF g
      <4> QED BY <4>2, <4>3, <4>5
    <3> QED BY <3>1, <3>2
  <2>5. IsRecursion(g, lo, n + 1, first, step)
    <3> HIDE DEF g
    <3> QED BY <2>4 DEF IsRecursion
  <2> HIDE DEF g
  <2> QED BY <2>0, <2>3, <2>5
<1>3. lo..hi \subseteq S
  <2> HIDE DEF S
  <2>1. hi \in Int /\ \A n \in lo..(hi - 1) : n \in S => n + 1 \in S
    BY <1>2
  <2> QED BY <1>1, <2>1, InductionFrom
<1>4. hi \in S
  BY <1>3
<1> QED BY <1>4

-----------------------------------------------------------------------------
(* Sequences.                                                              *)

\* The length and the elements of a sequence.
LEMMA SequenceFacts ==
  ASSUME NEW E, NEW s \in Seq(E)
  PROVE  /\ Len(s) \in Nat /\ DOMAIN s = 1..Len(s)
         /\ \A i \in DOMAIN s : s[i] \in E
BY LenProperties, ElementOfSeq

\* The sequence s followed by t.
Joined(s, t) == s \o t

\* What it has at each index.
IsJoined(u, s, t) ==
  /\ Len(u) = Len(s) + Len(t)
  /\ \A i \in 1..Len(s) : u[i] = s[i]
  /\ \A i \in 1..Len(t) : u[Len(s) + i] = t[i]

LEMMA JoinedIndices ==
  ASSUME NEW E, NEW s, s \in Seq(E), NEW t, t \in Seq(E)
  PROVE  Joined(s, t) \in Seq(E) /\ IsJoined(Joined(s, t), s, t)
<1> DEFINE u == Joined(s, t)
<1>1. Len(s) \in Nat /\ Len(t) \in Nat
  BY SequenceFacts
<1>2. /\ u \in Seq(E) /\ Len(u) = Len(s) + Len(t)
      /\ \A i \in 1..(Len(s) + Len(t)) : u[i] = IF i <= Len(s) THEN s[i] ELSE t[i - Len(s)]
  BY ConcatProperties DEF Joined
<1> HIDE DEF u
<1>3. ASSUME NEW i \in 1..Len(t) PROVE u[Len(s) + i] = t[i]
  <2>1. /\ Len(s) + i \in 1..(Len(s) + Len(t)) /\ ~(Len(s) + i <= Len(s))
        /\ (Len(s) + i) - Len(s) = i
    BY <1>1
  <2> QED BY <1>2, <2>1
<1>4. \A i \in 1..Len(s) : u[i] = s[i]
  BY <1>1, <1>2
<1>5. IsJoined(u, s, t)
  BY <1>2, <1>3, <1>4 DEF IsJoined
<1> QED BY <1>2, <1>5 DEF u

\* RemoveAt closes the gap.
LEMMA RemoveAtIndices ==
  ASSUME NEW E, NEW s \in Seq(E), NEW i \in DOMAIN s
  PROVE  /\ RemoveAt(s, i) \in Seq(E)
         /\ Len(RemoveAt(s, i)) = Len(s) - 1
         /\ \A k \in 1..(Len(s) - 1) :
              RemoveAt(s, i)[k] = IF k < i THEN s[k] ELSE s[k + 1]
<1> DEFINE a == SubSeq(s, 1, i - 1)
           b == SubSeq(s, i + 1, Len(s))
<1>1. Len(s) \in Nat /\ i \in 1..Len(s) /\ \A k \in 1..Len(s) : s[k] \in E
  BY SequenceFacts
<1>2. /\ a \in Seq(E) /\ Len(a) = i - 1
      /\ \A k \in 1..(i - 1) : a[k] = s[k]
  <2>1. 1 \in Int /\ i - 1 \in Int /\ \A k \in 1..(i - 1) : s[k] \in E
    BY <1>1
  <2>2. /\ a \in Seq(E) /\ Len(a) = IF 1 <= i - 1 THEN (i - 1) - 1 + 1 ELSE 0
        /\ \A k \in 1..((i - 1) - 1 + 1) : a[k] = s[1 + k - 1]
    BY <2>1, SubSeqProperties
  <2> QED BY <1>1, <2>2
<1>3. /\ b \in Seq(E) /\ Len(b) = Len(s) - i
      /\ \A k \in 1..(Len(s) - i) : b[k] = s[i + k]
  <2>1. i + 1 \in Int /\ Len(s) \in Int /\ \A k \in (i + 1)..Len(s) : s[k] \in E
    BY <1>1
  <2>2. /\ b \in Seq(E) /\ Len(b) = IF i + 1 <= Len(s) THEN Len(s) - (i + 1) + 1 ELSE 0
        /\ \A k \in 1..(Len(s) - (i + 1) + 1) : b[k] = s[(i + 1) + k - 1]
    BY <2>1, SubSeqProperties
  <2> QED BY <1>1, <2>2
<1>4. /\ a \o b \in Seq(E) /\ Len(a \o b) = Len(a) + Len(b)
      /\ \A k \in 1..(Len(a) + Len(b)) :
           (a \o b)[k] = IF k <= Len(a) THEN a[k] ELSE b[k - Len(a)]
  BY <1>2, <1>3, ConcatProperties
<1>5. RemoveAt(s, i) = a \o b
  BY DEF RemoveAt
<1>6. Len(a) + Len(b) = Len(s) - 1
  <2>1. i \in Int /\ Len(s) \in Int
    BY <1>1
  <2> QED BY <1>2, <1>3, <2>1
<1> HIDE DEF a, b
<1>7. ASSUME NEW k \in 1..(Len(s) - 1)
      PROVE  (a \o b)[k] = IF k < i THEN s[k] ELSE s[k + 1]
  <2>1. k \in Int /\ i \in Int /\ Len(s) \in Int /\ (k < i <=> k <= i - 1)
    BY <1>1
  <2>2. (a \o b)[k] = IF k < i THEN a[k] ELSE b[k - (i - 1)]
    BY <1>2, <1>4, <1>6, <2>1
  <2>3. k < i => a[k] = s[k]
    BY <1>2, <2>1
  <2>4. ~(k < i) => b[k - (i - 1)] = s[k + 1]
    <3>1. ~(k < i) => k - (i - 1) \in 1..(Len(s) - i) /\ i + (k - (i - 1)) = k + 1
      BY <1>1, <2>1
    <3>2. ~(k < i) => b[k - (i - 1)] = s[i + (k - (i - 1))]
      BY <1>3, <3>1
    <3> QED BY <3>1, <3>2
  <2> QED BY <2>2, <2>3, <2>4
<1>8. RemoveAt(s, i) \in Seq(E) /\ Len(RemoveAt(s, i)) = Len(s) - 1
  BY <1>4, <1>5, <1>6
<1> QED BY <1>5, <1>7, <1>8

\* An element in front of others.
LEMMA InFrontIndices ==
  ASSUME NEW E, NEW e \in E, NEW s \in Seq(E)
  PROVE  /\ <<e>> \o s \in Seq(E)
         /\ Len(<<e>> \o s) = Len(s) + 1
         /\ \A k \in 1..(Len(s) + 1) : (<<e>> \o s)[k] = IF k = 1 THEN e ELSE s[k - 1]
<1>1. <<e>> \in Seq(E) /\ Len(<<e>>) = 1 /\ <<e>>[1] = e
  OBVIOUS
<1>2. Len(s) \in Nat
  BY SequenceFacts
<1> QED BY <1>1, <1>2, ConcatProperties

\* What a table says of each element of a sequence.
Mapped(table, s) == [k \in 1..Len(s) |-> table[s[k]]]

\* As long as the sequence, and in its order.
IsMapped(table, s, m) == Len(m) = Len(s) /\ \A k \in 1..Len(s) : m[k] = table[s[k]]

LEMMA MappedIndices ==
  ASSUME NEW D, NEW E, NEW table, \A d \in D : table[d] \in E, NEW s, s \in Seq(D)
  PROVE  Mapped(table, s) \in Seq(E) /\ IsMapped(table, s, Mapped(table, s))
<1>1. Len(s) \in Nat /\ \A k \in 1..Len(s) : s[k] \in D
  BY SequenceFacts
<1>2. Mapped(table, s) \in [1..Len(s) -> E]
  BY <1>1 DEF Mapped
<1>3. Mapped(table, s) \in Seq(E)
  BY <1>1, <1>2, SeqDef
<1> QED BY <1>1, <1>2, <1>3, LenProperties DEF Mapped, IsMapped

\* The table of a sequence that loses an element loses what it says of that.
LEMMA MappedRemoveAt ==
  ASSUME NEW D, NEW table, NEW s, s \in Seq(D), NEW i, i \in 1..Len(s)
  PROVE  Mapped(table, RemoveAt(s, i)) = RemoveAt(Mapped(table, s), i)
<1> DEFINE r == RemoveAt(s, i)
           m == Mapped(table, s)
           E == {table[d] : d \in D}
<1>0. \A u \in Seq(D) : Mapped(table, u) \in Seq(E) /\ IsMapped(table, u, Mapped(table, u))
  <2>1. \A e \in D : table[e] \in E
    OBVIOUS
  <2> HIDE DEF E
  <2> QED BY <2>1, MappedIndices
<1>n. PICK n \in Nat : n = Len(s)
  BY SequenceFacts
<1>1. i \in 1..n /\ i \in DOMAIN s /\ DOMAIN s = 1..n
  BY <1>n, SequenceFacts
<1>2. /\ r \in Seq(D) /\ Len(r) = n - 1
      /\ \A k \in 1..(n - 1) : r[k] = IF k < i THEN s[k] ELSE s[k + 1]
  BY <1>n, <1>1, RemoveAtIndices
<1>3. m \in Seq(E) /\ Len(m) = n /\ \A k \in 1..n : m[k] = table[s[k]]
  BY <1>0, <1>n DEF IsMapped
<1>4. /\ RemoveAt(m, i) \in Seq(E) /\ Len(RemoveAt(m, i)) = n - 1
      /\ \A k \in 1..(n - 1) : RemoveAt(m, i)[k] = IF k < i THEN m[k] ELSE m[k + 1]
  <2>1. i \in DOMAIN m
    BY <1>1, <1>3, SequenceFacts
  <2> HIDE DEF m
  <2> QED BY <1>3, <2>1, RemoveAtIndices
<1>5. /\ Mapped(table, r) \in Seq(E) /\ Len(Mapped(table, r)) = n - 1
      /\ \A k \in 1..(n - 1) : Mapped(table, r)[k] = table[r[k]]
  BY <1>0, <1>2 DEF IsMapped
<1> HIDE DEF r, m
<1>6. ASSUME NEW k \in 1..(n - 1) PROVE Mapped(table, r)[k] = RemoveAt(m, i)[k]
  <2>1. k \in 1..n /\ k + 1 \in 1..n
    OBVIOUS
  <2>2. r[k] = (IF k < i THEN s[k] ELSE s[k + 1]) /\ Mapped(table, r)[k] = table[r[k]]
    BY <1>2, <1>5
  <2>3. RemoveAt(m, i)[k] = IF k < i THEN table[s[k]] ELSE table[s[k + 1]]
    BY <1>3, <1>4, <2>1
  <2> QED BY <2>2, <2>3
<1>7. Mapped(table, r) = RemoveAt(m, i)
  BY <1>4, <1>5, <1>6, SeqEqual
<1> QED BY <1>7 DEF r, m

\* The sequence s with d in front.
InFront(d, s) == <<d>> \o s

\* So does one that gains one in front.
LEMMA MappedInFront ==
  ASSUME NEW D, NEW table, NEW d, d \in D, NEW s, s \in Seq(D)
  PROVE  Mapped(table, InFront(d, s)) = InFront(table[d], Mapped(table, s))
<1> DEFINE r == <<d>> \o s
           m == Mapped(table, s)
           E == {table[e] : e \in D}
           q == <<table[d]>> \o m
<1>0. \A u \in Seq(D) : Mapped(table, u) \in Seq(E) /\ IsMapped(table, u, Mapped(table, u))
  <2>1. \A e \in D : table[e] \in E
    OBVIOUS
  <2> HIDE DEF E
  <2> QED BY <2>1, MappedIndices
<1>n. PICK n \in Nat : n = Len(s)
  BY SequenceFacts
<1>1. /\ r \in Seq(D) /\ Len(r) = n + 1
      /\ \A k \in 1..(n + 1) : r[k] = IF k = 1 THEN d ELSE s[k - 1]
  BY <1>n, InFrontIndices
<1>2. m \in Seq(E) /\ Len(m) = n /\ \A k \in 1..n : m[k] = table[s[k]]
  BY <1>0, <1>n DEF IsMapped
<1>3. /\ q \in Seq(E) /\ Len(q) = n + 1
      /\ \A k \in 1..(n + 1) : q[k] = IF k = 1 THEN table[d] ELSE m[k - 1]
  <2> HIDE DEF m
  <2> QED BY <1>2, InFrontIndices
<1>4. /\ Mapped(table, r) \in Seq(E) /\ Len(Mapped(table, r)) = n + 1
      /\ \A k \in 1..(n + 1) : Mapped(table, r)[k] = table[r[k]]
  BY <1>0, <1>1 DEF IsMapped
<1> HIDE DEF r, m, q, E
<1>5. ASSUME NEW k \in 1..(n + 1) PROVE Mapped(table, r)[k] = q[k]
  <2>1. k # 1 => k - 1 \in 1..n
    OBVIOUS
  <2>2. r[k] = (IF k = 1 THEN d ELSE s[k - 1]) /\ Mapped(table, r)[k] = table[r[k]]
    BY <1>1, <1>4
  <2>3. q[k] = IF k = 1 THEN table[d] ELSE table[s[k - 1]]
    BY <1>2, <1>3, <2>1
  <2> QED BY <2>2, <2>3
<1>6. Mapped(table, r) = q
  BY <1>3, <1>4, <1>5, SeqEqual, SMTT(30)
<1> QED BY <1>6 DEF r, m, q, InFront

\* Tables that agree on the elements of a sequence say the same of it.
LEMMA MappedSame ==
  ASSUME NEW g, NEW h, NEW s, \A k \in 1..Len(s) : g[s[k]] = h[s[k]]
  PROVE  Mapped(g, s) = Mapped(h, s)
BY DEF Mapped

\* Without its last element, a sequence is its front.
LEMMA RemoveLast ==
  ASSUME NEW E, NEW s \in Seq(E), s # <<>>
  PROVE  RemoveAt(s, Len(s)) = Front(s)
<1>1. Len(s) \in Nat
  BY SequenceFacts
<1>2. SubSeq(s, Len(s) + 1, Len(s)) = <<>>
  BY <1>1
<1>3. Front(s) \in Seq(E) /\ Front(s) = SubSeq(s, 1, Len(s) - 1)
  <2>1. 1 \in Int /\ Len(s) - 1 \in Int /\ \A k \in 1..(Len(s) - 1) : s[k] \in E
    BY <1>1, SequenceFacts
  <2> QED BY <2>1, SubSeqProperties DEF Front
<1> QED BY <1>2, <1>3, ConcatEmptySeq DEF RemoveAt

\* A set that is written down as a sequence has no other elements there.
LEMMA SetToSeqType ==
  ASSUME NEW S, IsFiniteSet(S)
  PROVE  SetToSeq(S) \in Seq(S)
<1> DEFINE n == Cardinality(S)
<1>1. n \in Nat /\ \E f \in Bijection(1..n, S) : TRUE
  BY FS_CardinalityType DEF ExistsBijection
<1>2. \E f \in [1..n -> S] : IsInjective(f)
  BY <1>1 DEF Bijection, Injection, IsInjective
<1>3. SetToSeq(S) \in [1..n -> S]
  BY <1>2 DEF SetToSeq
<1> QED BY <1>1, <1>3, SeqDef

=============================================================================
