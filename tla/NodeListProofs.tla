--------------------------- MODULE NodeListProofs ---------------------------
(***************************************************************************)
(* The pointer surgeries of lru_file_cache keep a list a list, however     *)
(* long it is and wherever the node is: at the head, at the tail, between  *)
(* two others or alone.                                                    *)
(***************************************************************************)
EXTENDS NodeList, DataLemmas

\* A traversal of a well-formed list of S visits S: what lru_file_cache finds
\* on its list is what it put there.
LEMMA OnListIsS ==
  ASSUME NEW S \in SUBSET Nodes, NEW L \in Lists, WellFormed(L, S)
  PROVE  OnList(L) = S
<1>1. {L.head} \cap Nodes \subseteq S /\ Closed(L, S)
  BY NullIsNoNode DEF WellFormed, NoDangling, Closed
<1>2. OnList(L) \subseteq S
  BY <1>1 DEF OnList
<1>3. S \subseteq OnList(L)
  BY DEF OnList, WellFormed, Reachable
<1> QED BY <1>2, <1>3

\* The constructor's list has no nodes.
LEMMA EmptyIsWellFormed == EmptyList \in Lists /\ WellFormed(EmptyList, {})
  BY DEF EmptyList, Lists, Pointers, WellFormed, NoDangling, Linked, Reachable

\* tail is null only when there are no nodes.
LEMMA NoTailNoNodes ==
  ASSUME NEW S \in SUBSET Nodes, NEW L \in Lists, WellFormed(L, S), L.tail = NULL
  PROVE  S = {}
\* The empty set is closed and holds the head of an empty list.
<1>1. {L.head} \cap Nodes \subseteq {} /\ Closed(L, {})
  BY NullIsNoNode DEF WellFormed, Linked, Closed
<1> QED BY <1>1 DEF WellFormed, Reachable

\* remove_node takes out n and nothing else.
LEMMA UnlinkWellFormed ==
  ASSUME NEW S \in SUBSET Nodes, NEW L \in Lists, WellFormed(L, S), NEW n \in S
  PROVE  Unlink(L, n) \in Lists /\ WellFormed(Unlink(L, n), S \ {n})
<1> DEFINE K == Unlink(L, n)
<1>0. /\ L.head \in Pointers /\ L.tail \in Pointers
      /\ L.next \in [Nodes -> Pointers] /\ L.prev \in [Nodes -> Pointers]
  BY DEF Lists
<1>1. /\ K.head = IF n = L.head THEN L.next[n] ELSE L.head
      /\ K.tail = IF n = L.tail THEN L.prev[n] ELSE L.tail
      /\ K.next = [m \in Nodes |-> IF m = n THEN NULL
                             ELSE IF m = L.prev[n] THEN L.next[n] ELSE L.next[m]]
      /\ K.prev = [m \in Nodes |-> IF m = n THEN NULL
                             ELSE IF m = L.next[n] THEN L.prev[n] ELSE L.prev[m]]
  BY DEF Unlink
<1>2. K \in Lists
  BY <1>0 DEF Unlink, Lists, Pointers
<1>3. NoDangling(L, S) /\ Linked(L, S) /\ Reachable(L, S)
  BY DEF WellFormed
<1> HIDE DEF K
<1>4. NoDangling(K, S \ {n})
  <2>1. {K.head, K.tail} \subseteq (S \ {n}) \cup {NULL}
    BY <1>0, <1>1, <1>3, NullIsNoNode DEF NoDangling, Linked
  <2>2. ASSUME NEW m \in S \ {n}
        PROVE  K.next[m] \in (S \ {n}) \cup {NULL}
    BY <1>0, <1>1, <1>3, NullIsNoNode DEF NoDangling, Linked
  <2>3. ASSUME NEW m \in S \ {n}
        PROVE  K.prev[m] \in (S \ {n}) \cup {NULL}
    BY <1>0, <1>1, <1>3, NullIsNoNode DEF NoDangling, Linked
  <2> QED BY <2>1, <2>2, <2>3 DEF NoDangling
<1>5. Linked(K, S \ {n})
  <2>1. ASSUME NEW m \in S \ {n}, K.next[m] # NULL
        PROVE  K.prev[K.next[m]] = m
    BY <1>0, <1>1, <1>3, <2>1, NullIsNoNode DEF NoDangling, Linked
  <2>2. ASSUME NEW m \in S \ {n}, K.prev[m] # NULL
        PROVE  K.next[K.prev[m]] = m
    BY <1>0, <1>1, <1>3, <2>2, NullIsNoNode DEF NoDangling, Linked
  <2>3. ASSUME NEW m \in S \ {n}
        PROVE  (K.prev[m] = NULL) <=> (m = K.head)
    BY <1>0, <1>1, <1>3, NullIsNoNode DEF NoDangling, Linked
  <2>4. ASSUME NEW m \in S \ {n}
        PROVE  (K.next[m] = NULL) <=> (m = K.tail)
    BY <1>0, <1>1, <1>3, NullIsNoNode DEF NoDangling, Linked
  <2>5. (K.head = NULL) <=> (K.tail = NULL)
    BY <1>0, <1>1, <1>3, NullIsNoNode DEF NoDangling, Linked
  <2> QED BY <2>1, <2>2, <2>3, <2>4, <2>5 DEF Linked
<1>6. Reachable(K, S \ {n})
  <2> SUFFICES ASSUME NEW T \in SUBSET Nodes,
                      {K.head} \cap Nodes \subseteq T, Closed(K, T)
               PROVE  S \ {n} \subseteq T
    BY DEF Reachable
  <2>1. CASE n = L.head \/ L.prev[n] \in T
    <3>1. {L.head} \cap Nodes \subseteq T \cup {n}
      BY <1>1
    <3>2. Closed(L, T \cup {n})
      <4> SUFFICES ASSUME NEW m \in T \cup {n}, L.next[m] \in Nodes
                   PROVE  L.next[m] \in T \cup {n}
        BY DEF Closed
      <4>1. CASE m = n
        <5>1. CASE n = L.head
          BY <1>1, <4>1, <5>1
        <5>2. CASE n # L.head
          <6> DEFINE p == L.prev[n]
          <6>1. p \in S \cap T /\ L.next[n] \in Nodes
            BY <1>3, <2>1, <4>1, <5>2, NullIsNoNode DEF NoDangling, Linked
          <6>2. p # n => K.next[p] = L.next[n]
            BY <1>1, <6>1
          <6>3. p = n => L.next[n] = n
            BY <1>3, <5>2, NullIsNoNode DEF Linked
          <6> QED BY <4>1, <6>1, <6>2, <6>3 DEF Closed
        <5> QED BY <5>1, <5>2
      <4>2. CASE m # n /\ m = L.prev[n]
        BY <1>3, <4>2, NullIsNoNode DEF Linked
      <4>3. CASE m # n /\ m # L.prev[n]
        BY <1>1, <4>3 DEF Closed
      <4> QED BY <4>1, <4>2, <4>3
    <3> QED BY <1>3, <3>1, <3>2 DEF Reachable
  <2>2. CASE n # L.head /\ L.prev[n] \notin T
    \* Then the traversal of L would end before it met n.
    <3> DEFINE U == (T \cap S) \ {n}
    <3>1. {L.head} \cap Nodes \subseteq U
      BY <1>0, <1>1, <1>3, <2>2, NullIsNoNode DEF NoDangling
    <3>2. Closed(L, U)
      <4> SUFFICES ASSUME NEW m \in U, L.next[m] \in Nodes
                   PROVE  L.next[m] \in U
        BY DEF Closed
      <4>1. K.next[m] = L.next[m]
        BY <1>1, <2>2
      <4>2. L.next[m] \in T /\ L.next[m] \in S
        BY <1>3, <4>1, NullIsNoNode DEF Closed, NoDangling
      <4>3. L.next[m] # n
        BY <1>3, <2>2, NullIsNoNode DEF Linked
      <4> QED BY <4>2, <4>3
    <3>3. S \subseteq U
      BY <1>3, <3>1, <3>2 DEF Reachable
    <3> QED BY <3>3
  <2> QED BY <2>1, <2>2
<1> QED BY <1>2, <1>4, <1>5, <1>6 DEF WellFormed, K

\* add_or_update_item puts n before all the others.
LEMMA PushFrontWellFormed ==
  ASSUME NEW S \in SUBSET Nodes, NEW L \in Lists, WellFormed(L, S),
         NEW n \in Nodes \ S
  PROVE  PushFront(L, n) \in Lists /\ WellFormed(PushFront(L, n), S \cup {n})
<1> DEFINE K == PushFront(L, n)
<1>0. /\ L.head \in Pointers /\ L.tail \in Pointers
      /\ L.next \in [Nodes -> Pointers] /\ L.prev \in [Nodes -> Pointers]
  BY DEF Lists
<1>1. /\ K.head = n
      /\ K.tail = IF L.tail = NULL THEN n ELSE L.tail
      /\ K.next = [L.next EXCEPT ![n] = IF L.tail = NULL THEN NULL ELSE L.head]
      /\ K.prev = [m \in Nodes |-> IF m = n THEN NULL
                             ELSE IF L.tail # NULL /\ m = L.head THEN n ELSE L.prev[m]]
  BY DEF PushFront
<1>2. K \in Lists
  BY <1>0 DEF PushFront, Lists, Pointers
<1>3. NoDangling(L, S) /\ Linked(L, S) /\ Reachable(L, S)
  BY DEF WellFormed
<1>4. L.tail = NULL => S = {}
  BY NoTailNoNodes
<1> HIDE DEF K
<1>5. NoDangling(K, S \cup {n})
  <2>1. {K.head, K.tail} \subseteq (S \cup {n}) \cup {NULL}
    BY <1>1, <1>3 DEF NoDangling
  <2>2. ASSUME NEW m \in S \cup {n}
        PROVE  K.next[m] \in (S \cup {n}) \cup {NULL}
    BY <1>0, <1>1, <1>3 DEF NoDangling
  <2>3. ASSUME NEW m \in S \cup {n}
        PROVE  K.prev[m] \in (S \cup {n}) \cup {NULL}
    BY <1>0, <1>1, <1>3 DEF NoDangling
  <2> QED BY <2>1, <2>2, <2>3 DEF NoDangling
<1>6. Linked(K, S \cup {n})
  <2>1. ASSUME NEW m \in S \cup {n}, K.next[m] # NULL
        PROVE  K.prev[K.next[m]] = m
    BY <1>0, <1>1, <1>3, <2>1, NullIsNoNode DEF NoDangling, Linked
  <2>2. ASSUME NEW m \in S \cup {n}, K.prev[m] # NULL
        PROVE  K.next[K.prev[m]] = m
    BY <1>0, <1>1, <1>3, <1>4, <2>2, NullIsNoNode DEF NoDangling, Linked
  <2>3. ASSUME NEW m \in S \cup {n}
        PROVE  (K.prev[m] = NULL) <=> (m = K.head)
    BY <1>0, <1>1, <1>3, <1>4, NullIsNoNode DEF NoDangling, Linked
  <2>4. ASSUME NEW m \in S \cup {n}
        PROVE  (K.next[m] = NULL) <=> (m = K.tail)
    BY <1>0, <1>1, <1>3, <1>4, NullIsNoNode DEF NoDangling, Linked
  <2>5. K.head # NULL /\ K.tail # NULL
    BY <1>1, NullIsNoNode
  <2> QED BY <2>1, <2>2, <2>3, <2>4, <2>5 DEF Linked
<1>7. Reachable(K, S \cup {n})
  <2> SUFFICES ASSUME NEW T \in SUBSET Nodes,
                      {K.head} \cap Nodes \subseteq T, Closed(K, T)
               PROVE  S \cup {n} \subseteq T
    BY DEF Reachable
  <2>1. n \in T
    BY <1>1
  <2>2. CASE L.tail = NULL
    BY <1>4, <2>1, <2>2
  <2>3. CASE L.tail # NULL
    <3> DEFINE V == T \cap S
    <3>1. {L.head} \cap Nodes \subseteq V
      BY <1>0, <1>1, <1>3, <2>1, <2>3, NullIsNoNode DEF Closed, NoDangling
    <3>2. Closed(L, V)
      BY <1>0, <1>1, <1>3, NullIsNoNode DEF Closed, NoDangling
    <3>3. S \subseteq V
      BY <1>3, <3>1, <3>2 DEF Reachable
    <3> QED BY <2>1, <3>3
  <2> QED BY <2>2, <2>3
<1> QED BY <1>2, <1>5, <1>6, <1>7 DEF WellFormed, K

\* Away from the head, promoting is unlinking and putting in front again.
LEMMA PromoteIsMove ==
  ASSUME NEW S \in SUBSET Nodes, NEW L \in Lists, WellFormed(L, S), NEW n \in S, n # L.head
  PROVE  Promote(L, n) = PushFront(Unlink(L, n), n)
<1> DEFINE P == Promote(L, n)
           Q == PushFront(Unlink(L, n), n)
<1>0. /\ L.head \in Pointers /\ L.tail \in Pointers
      /\ L.next \in [Nodes -> Pointers] /\ L.prev \in [Nodes -> Pointers]
      /\ NoDangling(L, S) /\ Linked(L, S)
  BY DEF Lists, WellFormed
<1>1. Unlink(L, n).head = L.head /\ Unlink(L, n).tail # NULL
  BY <1>0, NoTailNoNodes DEF Unlink, Linked
<1>2. P.tail = Q.tail
  BY <1>1 DEF Promote, PushFront, Unlink
<1>3. P.next = Q.next
  <2>1. ASSUME NEW m \in Nodes PROVE P.next[m] = Q.next[m]
    BY <1>0, <1>1, NullIsNoNode DEF Promote, PushFront, Unlink, Linked, NoDangling
  <2> QED BY <2>1 DEF Promote, PushFront, Unlink
<1>4. P.prev = Q.prev
  <2>1. ASSUME NEW m \in Nodes PROVE P.prev[m] = Q.prev[m]
    BY <1>0, <1>1, NullIsNoNode DEF Promote, PushFront, Unlink, Linked, NoDangling
  <2> QED BY <2>1 DEF Promote, PushFront, Unlink
<1> QED BY <1>2, <1>3, <1>4 DEF Promote, PushFront

\* get_and_lock_item reorders the list and loses no item of it.
LEMMA PromoteWellFormed ==
  ASSUME NEW S \in SUBSET Nodes, NEW L \in Lists, WellFormed(L, S), NEW n \in S
  PROVE  Promote(L, n) \in Lists /\ WellFormed(Promote(L, n), S)
<1>1. CASE n = L.head
  BY <1>1 DEF Promote
<1>2. CASE n # L.head
  <2> DEFINE K == Unlink(L, n)
  <2>1. K \in Lists /\ WellFormed(K, S \ {n})
    BY UnlinkWellFormed
  <2>2. Promote(L, n) = PushFront(K, n)
    BY <1>2, PromoteIsMove
  <2>3. PushFront(K, n) \in Lists /\ WellFormed(PushFront(K, n), (S \ {n}) \cup {n})
    BY <2>1, PushFrontWellFormed
  <2> QED BY <2>2, <2>3
<1> QED BY <1>1, <1>2

-----------------------------------------------------------------------------
(* The order of a traversal.                                               *)

\* t is the nodes of S in the order in which the list L links them.
Enumerates(L, S, t) ==
  LET n == Len(t)
  IN /\ t \in Seq(Nodes)
     /\ S = {t[k] : k \in 1..n}
     /\ \A j, k \in 1..n : t[j] = t[k] => j = k
     /\ L.head = (IF n = 0 THEN NULL ELSE t[1]) /\ L.tail = (IF n = 0 THEN NULL ELSE t[n])
     /\ \A k \in 1..n : L.next[t[k]] = IF k = n THEN NULL ELSE t[k + 1]
     /\ \A k \in 1..n : L.prev[t[k]] = IF k = 1 THEN NULL ELSE t[k - 1]

\* t starts at the head of L and goes from node to node.
Visits(L, t) ==
  /\ t \in Seq(Nodes)
  /\ Len(t) > 0 => L.head = t[1]
  /\ \A k \in 1..(Len(t) - 1) : L.next[t[k]] = t[k + 1]

\* Then t is what the traversal meets first.
LEMMA VisitsIsTraversal ==
  ASSUME NEW L, NEW t, Visits(L, t)
  PROVE  Traversal(L, Len(t)) = t
<1> DEFINE n == Len(t)
           Nexts(f) == f = [k \in 1..n |-> IF k = 1 THEN L.head ELSE L.next[f[k - 1]]]
<1>1. n \in Nat /\ t = [k \in 1..n |-> t[k]]
  BY DEF Visits
<1>2. \A k \in 1..n : t[k] = IF k = 1 THEN L.head ELSE L.next[t[k - 1]]
  <2> TAKE k \in 1..n
  <2>1. k # 1 => k - 1 \in 1..(n - 1) /\ (k - 1) + 1 = k
    BY <1>1
  <2> QED BY <1>1, <2>1 DEF Visits
<1>3. Nexts(t)
  BY <1>1, <1>2
<1>4. Traversal(L, n) = CHOOSE f : Nexts(f)
  BY DEF Traversal
<1>5. ASSUME NEW f, Nexts(f) PROVE f = t
  <2> DEFINE Same == {k \in 1..n : f[k] = t[k]}
  <2>1. f = [k \in 1..n |-> f[k]]
    BY <1>5
  <2>2. \A k \in 1..n : f[k] = IF k = 1 THEN L.head ELSE L.next[f[k - 1]]
    BY <1>5
  <2>3. n > 0 => 1 \in Same
    BY <1>1, <1>2, <2>2
  <2>4. \A k \in 1..(n - 1) : k \in Same => k + 1 \in Same
    <3> TAKE k \in 1..(n - 1)
    <3>1. k + 1 \in 1..n /\ k + 1 # 1 /\ (k + 1) - 1 = k
      BY <1>1
    <3> QED BY <1>2, <2>2, <3>1
  <2> HIDE DEF Nexts, Same
  <2>5. n > 0 => 1..n \subseteq Same
    BY <1>1, <2>3, <2>4, InductionFrom
  <2>6. \A k \in 1..n : f[k] = t[k]
    BY <1>1, <2>5 DEF Same
  <2> QED BY <1>1, <2>1, <2>6
<1> HIDE DEF Nexts
<1> QED BY <1>3, <1>4, <1>5

\* The first k nodes of a traversal through nodes of S are distinct.
Path(L, S, f, k) ==
  /\ \A j \in 1..k : f[j] \in S
  /\ f[1] = L.head
  /\ \A j \in 1..(k - 1) : L.next[f[j]] = f[j + 1]
  /\ \A i, j \in 1..k : f[i] = f[j] => i = j

\* Where it has been then.
Met(f, k) == {f[j] : j \in 1..k}

\* A node that a path leads to is not one it has been at: prev would lead back.
LEMMA NextIsNew ==
  ASSUME NEW S \in SUBSET Nodes, NEW L \in Lists, WellFormed(L, S), NEW f, NEW k \in Nat \ {0},
         Path(L, S, f, k), L.next[f[k]] # NULL
  PROVE  L.next[f[k]] \in S /\ \A j \in 1..k : f[j] # L.next[f[k]]
<1> DEFINE m == L.next[f[k]]
<1>1. f[k] \in S
  BY DEF Path
<1>2. m \in S /\ L.prev[m] = f[k]
  BY <1>1, NullIsNoNode DEF WellFormed, NoDangling, Linked
<1>3. ASSUME NEW j \in 1..k, f[j] = m PROVE FALSE
  <2>1. CASE j = 1
    <3>1. m = L.head
      BY <1>3, <2>1 DEF Path
    <3>2. L.prev[m] = NULL
      BY <1>2, <3>1 DEF WellFormed, Linked
    <3> QED BY <1>1, <1>2, <3>2, NullIsNoNode
  <2>2. CASE j # 1
    <3>1. j - 1 \in 1..(k - 1) /\ (j - 1) + 1 = j /\ j - 1 \in 1..k /\ j - 1 # k
      BY <2>2
    <3>2. f[j - 1] \in S /\ L.next[f[j - 1]] = m
      BY <1>3, <3>1 DEF Path
    <3>3. m # NULL /\ L.prev[m] = f[j - 1]
      BY <1>2, <3>2, NullIsNoNode DEF WellFormed, Linked
    <3>4. k \in 1..k /\ f[j - 1] = f[k]
      BY <1>2, <3>3
    <3> QED BY <3>1, <3>4 DEF Path
  <2> QED BY <2>1, <2>2
<1> QED BY <1>2, <1>3

\* A path that ends has been everywhere.
LEMMA EndedPathIsAll ==
  ASSUME NEW S \in SUBSET Nodes, NEW L \in Lists, WellFormed(L, S), NEW f, NEW k \in Nat \ {0},
         Path(L, S, f, k), L.next[f[k]] = NULL
  PROVE  S = Met(f, k)
<1> DEFINE T == Met(f, k)
<1>1. T \subseteq S
  BY DEF Path, Met
<1>2. {L.head} \cap Nodes \subseteq T
  BY DEF Path, Met
<1>3. Closed(L, T)
  <2> SUFFICES ASSUME NEW j \in 1..k, L.next[f[j]] \in Nodes
               PROVE  L.next[f[j]] \in T
    BY DEF Closed, Met
  <2>1. j # k
    BY NullIsNoNode
  <2>2. j \in 1..(k - 1) /\ j + 1 \in 1..k
    BY <2>1
  <2>3. L.next[f[j]] = f[j + 1]
    BY <2>2 DEF Path
  <2> QED BY <2>2, <2>3 DEF Met
<1> HIDE DEF T
<1>4. S \subseteq T
  BY <1>1, <1>2, <1>3 DEF WellFormed, Reachable
<1> QED BY <1>1, <1>4 DEF T

\* A path has at most as many nodes as there are.
LEMMA PathIsBounded ==
  ASSUME NEW S, IsFiniteSet(S), NEW L, NEW f, NEW k \in Nat, Path(L, S, f, k)
  PROVE  /\ k <= Cardinality(S)
         /\ k = Cardinality(S) <=> S = Met(f, k)
<1> DEFINE g == [j \in 1..k |-> f[j]]
<1>1. g \in Injection(1..k, S)
  BY DEF Path, Injection, IsInjective
<1>2. IsFiniteSet(1..k) /\ Cardinality(1..k) = k
  BY FS_Interval
<1>3. g \in Surjection(1..k, S) <=> S = Met(f, k)
  BY <1>1 DEF Path, Met, Surjection
<1> HIDE DEF g
<1> QED BY <1>1, <1>2, <1>3, FS_Injection

\* The nodes of a list have an order that next and prev follow.
LEMMA ListHasOrder ==
  ASSUME NEW S \in SUBSET Nodes, IsFiniteSet(S), NEW L \in Lists, WellFormed(L, S)
  PROVE  \E t : Len(t) = Cardinality(S) /\ Enumerates(L, S, t)
<1> DEFINE n == Cardinality(S)
           Step == [k \in 2..n |-> [p \in Pointers |-> IF p \in Nodes THEN L.next[p] ELSE NULL]]
<1>0. /\ L.head \in Pointers /\ L.tail \in Pointers
      /\ L.next \in [Nodes -> Pointers] /\ L.prev \in [Nodes -> Pointers]
      /\ n \in Nat
  BY FS_CardinalityType DEF Lists
<1>1. CASE n = 0
  <2>1. S = {} /\ <<>> \in Seq(Nodes) /\ Len(<<>>) = 0
    BY <1>1, FS_EmptySet
  <2>2. L.head = NULL /\ L.tail = NULL
    BY <2>1, NullIsNoNode DEF WellFormed, NoDangling
  <2>3. Enumerates(L, S, <<>>)
    BY <2>1, <2>2 DEF Enumerates
  <2> QED BY <1>1, <2>1, <2>3
<1>2. CASE n # 0
  <2>1. PICK f \in [1..n -> Pointers] : IsRecursion(f, 1, n, L.head, Step)
    <3>1. Step \in [(1 + 1)..n -> [Pointers -> Pointers]]
      BY <1>0 DEF Pointers
    <3>2. 1 \in Nat /\ n \in Nat /\ 1 <= n
      BY <1>0, <1>2
    <3> HIDE DEF Step
    <3> QED BY <1>0, <3>1, <3>2, RecursionExists
  <2>2. f[1] = L.head
    <3>1. 1 \in 1..n
      BY <1>0, <1>2
    <3> QED BY <2>1, <3>1 DEF IsRecursion
  <2>3. \A k \in 1..(n - 1) : f[k] \in Nodes => f[k + 1] = L.next[f[k]]
    <3> TAKE k \in 1..(n - 1)
    <3>1. k + 1 \in 1..n /\ k + 1 \in 2..n /\ k + 1 # 1 /\ (k + 1) - 1 = k /\ k \in 1..n
      BY <1>0
    <3>2. f[k + 1] = Step[k + 1][f[k]] /\ f[k] \in Pointers
      BY <2>1, <3>1 DEF IsRecursion
    <3> QED BY <3>1, <3>2
  <2> HIDE DEF Step
  <2> DEFINE Reached == {k \in 1..n : Path(L, S, f, k)}
  <2>4. 1 \in Reached
    <3>1. L.head \in S
      <4>1. S # {}
        BY <1>2, FS_EmptySet
      <4>2. L.head # NULL
        BY <4>1, NoTailNoNodes DEF WellFormed, Linked
      <4> QED BY <4>2 DEF WellFormed, NoDangling
    <3> QED BY <1>0, <1>2, <2>2, <3>1 DEF Path
  <2>5. ASSUME NEW k \in 1..(n - 1), k \in Reached PROVE k + 1 \in Reached
    <3>0. k \in Nat \ {0} /\ k + 1 \in 1..n /\ k \in 1..k
      BY <1>0
    <3>1. Path(L, S, f, k)
      BY <2>5
    <3>2. L.next[f[k]] # NULL
      <4>1. L.next[f[k]] = NULL => S = Met(f, k)
        BY <3>0, <3>1, EndedPathIsAll
      <4>2. k = n <=> S = Met(f, k)
        BY <3>0, <3>1, PathIsBounded
      <4> QED BY <1>0, <4>1, <4>2
    <3>3. L.next[f[k]] \in S /\ \A j \in 1..k : f[j] # L.next[f[k]]
      BY <3>0, <3>1, <3>2, NextIsNew
    <3>4. f[k + 1] = L.next[f[k]]
      BY <2>3, <3>0, <3>1 DEF Path
    <3>5. \A j \in 1..(k + 1) : j # k + 1 => j \in 1..k
      BY <3>0
    <3>6. \A j \in 1..((k + 1) - 1) : j # k => j \in 1..(k - 1)
      BY <3>0
    <3>7. \A j \in 1..((k + 1) - 1) : L.next[f[j]] = f[j + 1]
      BY <3>1, <3>4, <3>6 DEF Path
    <3>8. \A i, j \in 1..(k + 1) : f[i] = f[j] => i = j
      BY <3>1, <3>3, <3>4, <3>5 DEF Path
    <3>9. \A j \in 1..(k + 1) : f[j] \in S
      BY <3>1, <3>3, <3>4, <3>5 DEF Path
    <3> QED BY <2>2, <3>0, <3>7, <3>8, <3>9 DEF Path
  <2>6. Path(L, S, f, n) /\ n \in Nat \ {0} /\ n \in 1..n
    <3> HIDE DEF Reached
    <3>1. /\ 1 \in Nat /\ n \in Int /\ 1 \in Reached
          /\ \A k \in 1..(n - 1) : k \in Reached => k + 1 \in Reached
      BY <1>0, <2>4, <2>5
    <3> HIDE DEF n
    <3>2. 1..n \subseteq Reached
      BY <3>1, InductionFrom
    <3> QED BY <1>0, <1>2, <3>2 DEF Reached, n
  <2>7. S = Met(f, n)
    BY <2>6, PathIsBounded
  <2>8. L.next[f[n]] = NULL
    BY <2>6, <2>7, NextIsNew DEF Met
  <2>9. f[n] = L.tail
    BY <2>6, <2>8 DEF Path, WellFormed, Linked
  <2>10. \A k \in 1..n : L.prev[f[k]] = IF k = 1 THEN NULL ELSE f[k - 1]
    <3> TAKE k \in 1..n
    <3>1. CASE k = 1
      BY <2>6, <3>1 DEF Path, WellFormed, Linked
    <3>2. CASE k # 1
      <4>1. k - 1 \in 1..(n - 1) /\ (k - 1) + 1 = k /\ k - 1 \in 1..n
        BY <1>0, <3>2
      <4>2. L.next[f[k - 1]] = f[k] /\ f[k - 1] \in S /\ f[k] \in S
        BY <2>6, <4>1 DEF Path
      <4> QED BY <3>2, <4>2, NullIsNoNode DEF WellFormed, Linked
    <3> QED BY <3>1, <3>2
  <2>11. \A k \in 1..n : L.next[f[k]] = IF k = n THEN NULL ELSE f[k + 1]
    <3> TAKE k \in 1..n
    <3>1. k # n => k \in 1..(n - 1)
      BY <1>0
    <3> QED BY <2>6, <2>8, <3>1 DEF Path
  <2>12. f \in Seq(Nodes) /\ Len(f) = n
    <3>1. f \in [1..n -> Nodes]
      BY <2>1, <2>6 DEF Path
    <3> QED BY <1>0, <3>1, SeqDef, LenProperties
  <2>13. Enumerates(L, S, f)
    <3> HIDE DEF n
    <3>1. \A j, k \in 1..n : f[j] = f[k] => j = k
      BY <2>6 DEF Path
    <3> QED BY <2>2, <2>6, <2>7, <2>9, <2>10, <2>11, <2>12, <3>1 DEF Enumerates, Met
  <2> QED BY <2>12, <2>13
<1> QED BY <1>1, <1>2

LEMMA OrderVisits ==
  ASSUME NEW S, NEW L, NEW t, Enumerates(L, S, t)
  PROVE  Visits(L, t)
<1>1. Len(t) \in Nat
  BY DEF Enumerates
<1>2. \A k \in 1..(Len(t) - 1) : k \in 1..Len(t) /\ k # Len(t)
  BY <1>1
<1> QED BY <1>1, <1>2 DEF Enumerates, Visits

\* Unlinking closes the gap in the order.
LEMMA UnlinkOrder ==
  ASSUME NEW S, NEW L, NEW t, Enumerates(L, S, t), NEW i \in 1..Len(t)
  PROVE  Visits(Unlink(L, t[i]), RemoveAt(t, i))
<1> DEFINE K == Unlink(L, t[i])
           r == RemoveAt(t, i)
<1>0. PICK n \in Nat : n = Len(t)
  BY SequenceFacts DEF Enumerates
<1>1. /\ t \in Seq(Nodes) /\ DOMAIN t = 1..n /\ i \in 1..n
      /\ \A k \in 1..n : t[k] \in Nodes
  BY <1>0, SequenceFacts DEF Enumerates
<1>2. /\ r \in Seq(Nodes) /\ Len(r) = n - 1
      /\ \A k \in 1..(n - 1) : r[k] = IF k < i THEN t[k] ELSE t[k + 1]
  BY <1>0, <1>1, RemoveAtIndices
<1>3. /\ \A j, k \in 1..n : t[j] = t[k] => j = k
      /\ n > 0 => L.head = t[1]
      /\ \A k \in 1..n : L.next[t[k]] = IF k = n THEN NULL ELSE t[k + 1]
      /\ \A k \in 1..n : L.prev[t[k]] = IF k = 1 THEN NULL ELSE t[k - 1]
  BY <1>0, <1>1 DEF Enumerates
<1>4. /\ K.head = IF t[i] = L.head THEN L.next[t[i]] ELSE L.head
      /\ \A m \in Nodes : K.next[m] = IF m = t[i] THEN NULL
                             ELSE IF m = L.prev[t[i]] THEN L.next[t[i]] ELSE L.next[m]
  BY DEF Unlink
<1> HIDE DEF K, r
<1>5. Len(r) > 0 => K.head = r[1]
  <2> SUFFICES ASSUME n - 1 > 0 PROVE K.head = r[1]
    BY <1>2
  <2>1. 1 \in 1..(n - 1) /\ 1 \in 1..n
    BY <1>1
  <2>2. CASE i = 1
    BY <1>2, <1>3, <1>4, <2>1, <2>2
  <2>3. CASE i # 1
    <3>1. t[i] # L.head /\ 1 < i
      BY <1>1, <1>3, <2>1, <2>3
    <3> QED BY <1>2, <1>3, <1>4, <2>1, <3>1
  <2> QED BY <2>2, <2>3
<1>6. ASSUME NEW k \in 1..(Len(r) - 1) PROVE K.next[r[k]] = r[k + 1]
  <2>1. k \in Int /\ k \in 1..(n - 1) /\ k + 1 \in 1..(n - 1) /\ k \in 1..n /\ k + 1 \in 1..n
        /\ k # n /\ k + 1 # n /\ i \in Int
    BY <1>1, <1>2
  <2>2. CASE k + 1 < i
    <3>1. r[k] = t[k] /\ r[k + 1] = t[k + 1] /\ k # i /\ i # 1 /\ i - 1 \in 1..n /\ k # i - 1
      BY <1>1, <1>2, <2>1, <2>2
    <3>2. t[k] # t[i] /\ t[k] # L.prev[t[i]]
      <4>1. \A j \in 1..n : t[k] = t[j] => k = j
        BY <1>3, <2>1
      <4>2. t[k] # t[i]
        BY <1>1, <3>1, <4>1
      <4>3. L.prev[t[i]] = t[i - 1]
        BY <1>1, <1>3, <3>1
      <4> QED BY <3>1, <4>1, <4>2, <4>3
    <3> QED BY <1>1, <1>3, <1>4, <2>1, <3>1, <3>2
  <2>3. CASE k + 1 = i
    <3>1. r[k] = t[k] /\ r[k + 1] = t[i + 1] /\ k # i /\ i # 1 /\ k = i - 1 /\ i # n
      BY <1>1, <1>2, <2>1, <2>3
    <3>2. t[k] # t[i] /\ t[k] = L.prev[t[i]] /\ L.next[t[i]] = t[i + 1]
      <4>1. t[k] # t[i]
        BY <1>1, <1>3, <2>1, <3>1
      <4>2. L.prev[t[i]] = t[i - 1] /\ L.next[t[i]] = t[i + 1]
        BY <1>1, <1>3, <3>1
      <4> QED BY <3>1, <4>1, <4>2
    <3> QED BY <1>1, <1>3, <1>4, <2>1, <3>1, <3>2
  <2>4. CASE k + 1 > i
    <3>1. r[k] = t[k + 1] /\ r[k + 1] = t[(k + 1) + 1]
      BY <1>1, <1>2, <2>1, <2>4
    <3>2. t[k + 1] # t[i] /\ t[k + 1] # L.prev[t[i]]
      <4>1. t[k + 1] # t[i]
        BY <1>1, <1>3, <2>1, <2>4
      <4>2. i = 1 => t[k + 1] # L.prev[t[i]]
        BY <1>1, <1>3, <2>1, NullIsNoNode
      <4>3. i # 1 => i - 1 \in 1..n /\ k + 1 # i - 1
        BY <1>1, <2>1, <2>4
      <4> QED BY <1>1, <1>3, <2>1, <4>1, <4>2, <4>3
    <3>3. L.next[t[k + 1]] = t[(k + 1) + 1]
      BY <1>3, <2>1
    <3> QED BY <1>1, <1>4, <2>1, <3>1, <3>2, <3>3
  <2> QED BY <2>1, <2>2, <2>3, <2>4
<1> QED BY <1>2, <1>5, <1>6 DEF Visits, K, r

\* A new node comes before the others.
LEMMA PushFrontOrder ==
  ASSUME NEW S, NEW L \in Lists, NEW t, Enumerates(L, S, t), NEW n \in Nodes \ S
  PROVE  Visits(PushFront(L, n), <<n>> \o t)
<1> DEFINE K == PushFront(L, n)
           r == <<n>> \o t
<1>1. t \in Seq(Nodes) /\ Len(t) \in Nat /\ \A k \in 1..Len(t) : t[k] \in S /\ t[k] \in Nodes
  BY SequenceFacts DEF Enumerates
<1>2. /\ r \in Seq(Nodes) /\ Len(r) = Len(t) + 1
      /\ \A k \in 1..(Len(t) + 1) : r[k] = IF k = 1 THEN n ELSE t[k - 1]
  BY <1>1, InFrontIndices
<1>3. /\ L.head = (IF Len(t) = 0 THEN NULL ELSE t[1])
      /\ L.tail = (IF Len(t) = 0 THEN NULL ELSE t[Len(t)])
      /\ \A k \in 1..Len(t) : L.next[t[k]] = IF k = Len(t) THEN NULL ELSE t[k + 1]
  BY DEF Enumerates
<1>4. /\ K.head = n
      /\ K.next[n] = IF L.tail = NULL THEN NULL ELSE L.head
      /\ \A m \in Nodes : m # n => K.next[m] = L.next[m]
  BY DEF PushFront, Lists
<1> HIDE DEF K, r
<1>5. ASSUME NEW k \in 1..(Len(r) - 1) PROVE K.next[r[k]] = r[k + 1]
  <2>1. k \in 1..Len(t) /\ k \in 1..(Len(t) + 1) /\ k + 1 \in 1..(Len(t) + 1) /\ k + 1 # 1
        /\ (k + 1) - 1 = k /\ Len(t) # 0
    BY <1>1, <1>2
  <2>2. r[k + 1] = t[k]
    BY <1>2, <2>1
  <2>3. CASE k = 1
    <3>1. L.tail # NULL /\ L.head = t[1]
      BY <1>1, <1>3, <2>1, NullIsNoNode
    <3> QED BY <1>2, <1>4, <2>1, <2>2, <2>3, <3>1
  <2>4. CASE k # 1
    <3>1. k - 1 \in 1..Len(t) /\ k - 1 # Len(t) /\ (k - 1) + 1 = k
      BY <1>1, <2>1, <2>4
    <3>2. r[k] = t[k - 1] /\ t[k - 1] # n
      BY <1>1, <1>2, <2>1, <2>4, <3>1
    <3> QED BY <1>1, <1>3, <1>4, <2>2, <3>1, <3>2
  <2> QED BY <2>3, <2>4
<1>6. K.head = r[1]
  BY <1>1, <1>2, <1>4
<1> QED BY <1>2, <1>5, <1>6 DEF Visits, K, r

\* An order has each node once.
LEMMA OrderCounts ==
  ASSUME NEW S, NEW L, NEW t, Enumerates(L, S, t)
  PROVE  IsFiniteSet(S) /\ Len(t) = Cardinality(S)
<1> DEFINE n == Len(t)
           g == [k \in 1..n |-> t[k]]
<1>1. n \in Nat
  BY SequenceFacts DEF Enumerates
<1>2. g \in Bijection(1..n, S)
  BY DEF Enumerates, Bijection, Injection, IsInjective, Surjection
<1> HIDE DEF g, n
<1>3. ExistsBijection(1..n, S)
  BY <1>2 DEF ExistsBijection
<1> QED BY <1>1, <1>3, FS_CountingElements, FS_NatBijection DEF n

\* What is left when a node is unlinked has the order it had.
LEMMA UnlinkEnumerates ==
  ASSUME NEW S \in SUBSET Nodes, NEW L \in Lists, WellFormed(L, S),
         NEW t, Enumerates(L, S, t), NEW i \in 1..Len(t)
  PROVE  Enumerates(Unlink(L, t[i]), S \ {t[i]}, RemoveAt(t, i))
<1> DEFINE K == Unlink(L, t[i])
           U == S \ {t[i]}
<1>1. t \in Seq(Nodes) /\ i \in DOMAIN t /\ t[i] \in S /\ IsFiniteSet(S) /\ Len(t) = Cardinality(S)
  <2>1. t \in Seq(Nodes) /\ t[i] \in S
    BY DEF Enumerates
  <2> QED BY <2>1, SequenceFacts, OrderCounts
<1>2. Len(RemoveAt(t, i)) = Len(t) - 1
  BY <1>1, RemoveAtIndices
<1>3. /\ K \in Lists /\ WellFormed(K, U) /\ U \in SUBSET Nodes
      /\ IsFiniteSet(U) /\ Cardinality(U) = Cardinality(S) - 1
  BY <1>1, UnlinkWellFormed, FS_RemoveElement
<1>4. PICK r : Len(r) = Cardinality(U) /\ Enumerates(K, U, r)
  <2> HIDE DEF K, U
  <2> QED BY <1>3, ListHasOrder
<1>5. Visits(K, RemoveAt(t, i)) /\ Visits(K, r)
  BY <1>4, UnlinkOrder, OrderVisits
<1>6. r = RemoveAt(t, i)
  BY <1>1, <1>2, <1>3, <1>4, <1>5, VisitsIsTraversal
<1> QED BY <1>4, <1>6

\* Promoting puts a node first and leaves the order of the others.
LEMMA PromoteOrder ==
  ASSUME NEW S \in SUBSET Nodes, NEW L \in Lists, WellFormed(L, S),
         NEW t, Enumerates(L, S, t), NEW i \in 1..Len(t)
  PROVE  Visits(Promote(L, t[i]), <<t[i]>> \o RemoveAt(t, i))
<1>0. PICK n \in Nat : n = Len(t)
  BY SequenceFacts DEF Enumerates
<1>1. /\ t \in Seq(Nodes) /\ DOMAIN t = 1..n /\ i \in 1..n
      /\ \A k \in 1..n : t[k] \in Nodes
      /\ S = {t[k] : k \in 1..n} /\ (t[i] = L.head <=> i = 1)
  BY <1>0, SequenceFacts DEF Enumerates
<1>2. /\ RemoveAt(t, i) \in Seq(Nodes) /\ Len(RemoveAt(t, i)) = n - 1
      /\ \A k \in 1..(n - 1) : RemoveAt(t, i)[k] = IF k < i THEN t[k] ELSE t[k + 1]
  BY <1>0, <1>1, RemoveAtIndices
<1>3. CASE i = 1
  <2> DEFINE u == <<t[1]>> \o RemoveAt(t, 1)
  <2>1. /\ u \in Seq(Nodes) /\ Len(u) = n
        /\ \A k \in 1..n : u[k] = IF k = 1 THEN t[1] ELSE RemoveAt(t, 1)[k - 1]
    BY <1>1, <1>2, <1>3, InFrontIndices
  <2>2. \A k \in 1..n : u[k] = t[k]
    <3> HIDE DEF u
    <3> TAKE k \in 1..n
    <3>1. k # 1 => k - 1 \in 1..(n - 1) /\ ~(k - 1 < 1) /\ (k - 1) + 1 = k
      OBVIOUS
    <3>2. k # 1 => RemoveAt(t, 1)[k - 1] = t[k]
      BY <1>2, <1>3, <3>1
    <3> QED BY <2>1, <3>2
  <2>3. u = t
    <3> HIDE DEF u
    <3> QED BY <1>0, <1>1, <2>1, <2>2
  <2>4. Promote(L, t[i]) = L
    BY <1>1, <1>3 DEF Promote
  <2> QED BY <1>3, <2>3, <2>4, OrderVisits
<1>4. CASE i # 1
  <2> DEFINE K == Unlink(L, t[i])
             U == S \ {t[i]}
  <2>1. t[i] \in S /\ t[i] # L.head
    BY <1>1, <1>4
  <2>2. Promote(L, t[i]) = PushFront(K, t[i])
    BY <2>1, PromoteIsMove
  <2>3. Enumerates(K, U, RemoveAt(t, i)) /\ K \in Lists
    BY <2>1, UnlinkEnumerates, UnlinkWellFormed
  <2>4. Visits(PushFront(K, t[i]), <<t[i]>> \o RemoveAt(t, i))
    <3>1. t[i] \in Nodes \ U
      BY <1>1
    <3> HIDE DEF K, U
    <3> QED BY <2>3, <3>1, PushFrontOrder
  <2> QED BY <2>2, <2>4
<1> QED BY <1>3, <1>4
=============================================================================
