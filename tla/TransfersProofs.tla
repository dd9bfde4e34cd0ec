-------------------------- MODULE TransfersProofs --------------------------
(***************************************************************************)
(* Proofs about the memory that applications lend, for any number of       *)
(* operations and any lengths of buffers and blocks.                       *)
(*                                                                         *)
(* They rest on an operation having one submission in flight as long as it *)
(* is not reported, and none after (Lone): that is what the code below the *)
(* switch of write_callback breaks, and why operations interrupted there   *)
(* are excepted.  What is transferred is proved on top of that: what       *)
(* vector_ops_progress submits is what is left of the loan (ProgressIsLeft,*)
(* by induction on the blocks), so the bytes transferred are always the    *)
(* first ones (InSequence), and each completion is a step of LentBuffers.  *)
(***************************************************************************)
EXTENDS TransfersRefinement, DataLemmas, SequenceTheorems, TLAPS

-----------------------------------------------------------------------------
(* Arrays of iovecs.                                                       *)

\* Sums is what its recursion says.
LEMMA SumsRecursive ==
  ASSUME NEW lens \in Seq(Nat)
  PROVE  /\ Sums(lens) \in [0..Len(lens) -> Nat] /\ Sums(lens)[0] = 0
         /\ \A i \in 1..Len(lens) : Sums(lens)[i] = Sums(lens)[i - 1] + lens[i]
<1> DEFINE L == Len(lens)
           P(g) == g = [i \in 0..L |-> IF i = 0 THEN 0 ELSE g[i - 1] + lens[i]]
           step == [i \in 1..L |-> [s \in Nat |-> s + lens[i]]]
<1>1. L \in Nat /\ \A i \in 1..L : lens[i] \in Nat
  OBVIOUS
<1>2. step \in [1..L -> [Nat -> Nat]]
  BY <1>1
<1>3. \E f \in [0..L -> Nat] : IsRecursion(f, 0, L, 0, step)
  <2> HIDE DEF L, step
  <2>1. 0 \in Nat /\ L \in Nat /\ 0 <= L /\ 0 + 1 = 1
    BY <1>1
  <2>2. step \in [(0 + 1)..L -> [Nat -> Nat]]
    BY <1>2, <2>1
  <2> QED BY <2>1, <2>2, RecursionExists
<1>4. PICK f \in [0..L -> Nat] : IsRecursion(f, 0, L, 0, step)
  BY <1>3
<1>5. \A i \in 0..L : f[i] = IF i = 0 THEN 0 ELSE f[i - 1] + lens[i]
  <2>1. \A i \in 0..L : i # 0 => i \in 1..L /\ f[i - 1] \in Nat
    <3>1. \A i \in 0..L : i # 0 => i \in 1..L /\ i - 1 \in 0..L
      BY <1>1
    <3> QED BY <1>4, <3>1
  <2>2. \A i \in 1..L, s \in Nat : step[i][s] = s + lens[i]
    OBVIOUS
  <2> HIDE DEF L, step
  <2> QED BY <1>4, <2>1, <2>2 DEF IsRecursion
<1>6. P(f)
  <2> HIDE DEF L
  <2> QED BY <1>4, <1>5
<1>7. Sums(lens) = CHOOSE g : P(g)
  BY DEF Sums
<1>8. P(Sums(lens))
  <2> HIDE DEF P
  <2> QED BY <1>6, <1>7
<1>9. /\ DOMAIN Sums(lens) = 0..L
      /\ \A i \in 0..L : Sums(lens)[i] = IF i = 0 THEN 0 ELSE Sums(lens)[i - 1] + lens[i]
  <2> HIDE DEF L
  <2>1. \A g : P(g) => /\ DOMAIN g = 0..L
                       /\ \A i \in 0..L : g[i] = IF i = 0 THEN 0 ELSE g[i - 1] + lens[i]
    OBVIOUS
  <2> QED BY <1>8, <2>1
<1> DEFINE S == {i \in 0..L : Sums(lens)[i] \in Nat}
<1>10. 0..L \subseteq S
  <2>1. 0 \in S
    BY <1>1, <1>9
  <2>2. ASSUME NEW i \in 0..(L - 1), i \in S PROVE i + 1 \in S
    <3>1. i + 1 \in 1..L /\ (i + 1) - 1 = i /\ i + 1 \in 0..L /\ i + 1 # 0
      BY <1>1
    <3>2. Sums(lens)[i + 1] = Sums(lens)[i] + lens[i + 1]
      BY <1>9, <3>1
    <3> QED BY <1>1, <2>2, <3>1, <3>2
  <2>3. \A i \in 0..(L - 1) : i \in S => i + 1 \in S
    BY <2>2
  <2>4. L \in Int /\ 0 \in Nat
    BY <1>1
  <2> HIDE DEF S, L
  <2> QED BY <2>1, <2>3, <2>4, InductionFrom
<1>11. Sums(lens) \in [0..L -> Nat]
  <2>1. Sums(lens) = [i \in 0..L |-> Sums(lens)[i]]
    BY <1>8, <1>9
  <2> HIDE DEF L
  <2> QED BY <1>10, <2>1
<1>12. \A i \in 1..L : i \in 0..L /\ i # 0
  BY <1>1
<1> QED BY <1>1, <1>9, <1>11, <1>12

\* More blocks have more bytes.
LEMMA SumsGrow ==
  ASSUME NEW lens \in Seq(Nat), NEW i \in 0..Len(lens), NEW j \in i..Len(lens)
  PROVE  Sums(lens)[i] <= Sums(lens)[j]
<1> DEFINE L == Len(lens)
           s == Sums(lens)
           S == {k \in i..L : s[i] <= s[k]}
<1>1. /\ L \in Nat /\ s \in [0..L -> Nat]
      /\ \A k \in 1..L : s[k] = s[k - 1] + lens[k] /\ lens[k] \in Nat
  BY SumsRecursive
<1> HIDE DEF L, s
<1>2. i \in S
  <2>1. i \in 0..L /\ i \in i..L
    BY <1>1 DEF L
  <2> QED BY <1>1, <2>1
<1>3. ASSUME NEW k \in i..(L - 1), k \in S PROVE k + 1 \in S
  <2>1. k + 1 \in 1..L /\ k \in 0..L /\ k + 1 \in i..L /\ (k + 1) - 1 = k
    BY <1>1 DEF L
  <2>2. s[k + 1] = s[k] + lens[k + 1] /\ lens[k + 1] \in Nat
    BY <1>1, <2>1
  <2>3. s[k] \in Nat /\ s[i] \in Nat
    BY <1>1, <2>1 DEF L
  <2> QED BY <1>3, <2>1, <2>2, <2>3
<1>4. i..L \subseteq S
  <2>1. i \in Nat /\ L \in Int /\ \A k \in i..(L - 1) : k \in S => k + 1 \in S
    BY <1>1, <1>3
  <2> HIDE DEF S
  <2> QED BY <1>2, <2>1, InductionFrom
<1> QED BY <1>4 DEF L, s

\* Arrays of iovecs.
Vecs == Seq([base : Nat, len : Nat])

\* What an array of iovecs consists of.
LEMMA VecsAreTyped ==
  ASSUME NEW vecs \in Vecs
  PROVE  /\ DOMAIN vecs = 1..Len(vecs) /\ Len(vecs) \in Nat
         /\ \A k \in 1..Len(vecs) : vecs[k].base \in Nat /\ vecs[k].len \in Nat
<1> DEFINE R == [base : Nat, len : Nat]
<1>1. vecs \in Seq(R)
  BY DEF Vecs
<1>2. \A k \in 1..Len(vecs) : vecs[k] \in R
  <2> HIDE DEF R
  <2> QED BY <1>1
<1> QED BY <1>1, <1>2

\* What consists of blocks is an array of iovecs.
LEMMA VecsFromBlocks ==
  ASSUME NEW n \in Nat, NEW vecs, vecs = [i \in 1..n |-> vecs[i]],
         \A i \in 1..n : vecs[i] \in [base : Nat, len : Nat]
  PROVE  vecs \in Vecs /\ Len(vecs) = n /\ DOMAIN vecs = 1..n
<1> DEFINE R == [base : Nat, len : Nat]
<1>1. \A i \in 1..n : vecs[i] \in R
  OBVIOUS
<1>2. vecs \in Seq(R) /\ Len(vecs) = n /\ DOMAIN vecs = 1..n
  <2> HIDE DEF R
  <2>1. vecs \in [1..n -> R]
    BY <1>1
  <2> QED BY <2>1
<1> QED BY <1>2 DEF Vecs

\* Each block adds its length to the bytes before it.
LEMMA UptoRecursive ==
  ASSUME NEW vecs \in Vecs
  PROVE  /\ \A i \in 0..Len(vecs) : Upto(vecs, i) \in Nat
         /\ Upto(vecs, 0) = 0
         /\ \A i \in 1..Len(vecs) : Upto(vecs, i) = Upto(vecs, i - 1) + vecs[i].len
         /\ \A i, j \in 0..Len(vecs) : i <= j => Upto(vecs, i) <= Upto(vecs, j)
<1> DEFINE lens == [k \in DOMAIN vecs |-> vecs[k].len]
<1>1. /\ DOMAIN vecs = 1..Len(vecs) /\ Len(vecs) \in Nat
      /\ \A k \in 1..Len(vecs) : vecs[k].len \in Nat
  BY VecsAreTyped
<1>2. lens \in Seq(Nat) /\ Len(lens) = Len(vecs)
  BY <1>1
<1>3. \A k \in 1..Len(vecs) : lens[k] = vecs[k].len
  BY <1>1
<1>4. \A i : Upto(vecs, i) = Sums(lens)[i]
  BY DEF Upto
<1> HIDE DEF lens
<1>5. \A i, j \in 0..Len(vecs) : i <= j => Sums(lens)[i] <= Sums(lens)[j]
  <2> TAKE i, j \in 0..Len(vecs)
  <2> HAVE i <= j
  <2>1. i \in 0..Len(lens) /\ j \in i..Len(lens)
    BY <1>1, <1>2
  <2> QED BY <1>2, <2>1, SumsGrow
<1>6. /\ Sums(lens) \in [0..Len(vecs) -> Nat] /\ Sums(lens)[0] = 0
      /\ \A i \in 1..Len(vecs) : Sums(lens)[i] = Sums(lens)[i - 1] + vecs[i].len
  BY <1>2, <1>3, SumsRecursive
<1> QED BY <1>4, <1>5, <1>6

\* The block of a byte is the one that begins before it and does not end before it.
LEMMA BlockOfByte ==
  ASSUME NEW vecs \in Vecs, NEW k \in Nat, k <= Total(vecs), Len(vecs) > 0
  PROVE  /\ BlockAt(vecs, k) \in 1..Len(vecs)
         /\ Upto(vecs, BlockAt(vecs, k)) >= k
         /\ k > 0 => Upto(vecs, BlockAt(vecs, k) - 1) < k
         /\ Upto(vecs, BlockAt(vecs, k) - 1) <= k
<1> DEFINE S == {i \in DOMAIN vecs : Upto(vecs, i) >= k}
           L == Len(vecs)
           b == BlockAt(vecs, k)
<1>1. /\ DOMAIN vecs = 1..L /\ L \in Nat /\ L > 0
      /\ \A i \in 0..L : Upto(vecs, i) \in Nat
      /\ Upto(vecs, 0) = 0
  BY VecsAreTyped, UptoRecursive
<1>2. L \in S
  BY <1>1 DEF Total
<1>3. b = Min(S)
  BY DEF BlockAt
<1>4. S \in SUBSET Nat /\ S # {}
  BY <1>1, <1>2
<1>5. b \in S /\ \A i \in S : b <= i
  <2> HIDE DEF S, b
  <2> QED BY <1>3, <1>4, MinOfNumbers
<1>6. b \in 1..L /\ Upto(vecs, b) >= k /\ b - 1 \in 0..L
  BY <1>1, <1>5
<1>7. CASE b = 1
  BY <1>1, <1>6, <1>7
<1>8. CASE b # 1
  <2>1. b - 1 \in DOMAIN vecs /\ b - 1 \notin S
    BY <1>1, <1>5, <1>6, <1>8
  <2>2. Upto(vecs, b - 1) < k
    BY <1>1, <1>6, <2>1
  <2> QED BY <1>1, <1>6, <2>2
<1> QED BY <1>7, <1>8

\* Blocks that lie one after the other.
InRow(vecs) == vecs \in Vecs /\ \A i \in 1..Len(vecs) : vecs[i].base = Upto(vecs, i - 1)

\* The blocks of a loan lie one after the other.
LEMMA LaidInRow ==
  ASSUME NEW lens \in Seq(Nat)
  PROVE  InRow(Laid(lens))
<1> DEFINE vecs == Laid(lens)
           L == Len(lens)
<1>1. /\ L \in Nat /\ DOMAIN lens = 1..L /\ \A i \in 1..L : lens[i] \in Nat
      /\ Sums(lens) \in [0..L -> Nat]
  BY SumsRecursive
<1>2. vecs = [i \in 1..L |-> [base |-> Sums(lens)[i - 1], len |-> lens[i]]]
  BY <1>1 DEF Laid, Iovec
<1>3. \A i \in 1..L : Sums(lens)[i - 1] \in Nat
  <2>1. \A i \in 1..L : i - 1 \in 0..L
    BY <1>1
  <2> QED BY <1>1, <2>1
<1> HIDE DEF vecs, L
<1>4. \A i \in 1..L : vecs[i].base = Sums(lens)[i - 1] /\ vecs[i].len = lens[i]
  BY <1>2
<1>5. vecs \in Vecs /\ Len(vecs) = L /\ DOMAIN vecs = 1..L
  <2>1. vecs = [i \in 1..L |-> vecs[i]]
    BY <1>2
  <2>2. \A i \in 1..L : vecs[i] \in [base : Nat, len : Nat]
    BY <1>1, <1>2, <1>3
  <2> QED BY <1>1, <2>1, <2>2, VecsFromBlocks
<1>6. [k \in DOMAIN vecs |-> vecs[k].len] = lens
  <2>1. lens = [k \in 1..L |-> lens[k]]
    BY <1>1
  <2> QED BY <1>4, <1>5, <2>1
<1>7. \A i : Upto(vecs, i) = Sums(lens)[i]
  BY <1>6 DEF Upto
<1> QED BY <1>4, <1>5, <1>7 DEF InRow, vecs

\* Their bytes are numbered from first to last.
LEMMA BytesInRow ==
  ASSUME NEW vecs, InRow(vecs)
  PROVE  Bytes(vecs) = [k \in 1..Total(vecs) |-> k]
<1>1. vecs \in Vecs /\ Len(vecs) \in Nat /\ Total(vecs) \in Nat /\ Upto(vecs, 0) = 0
  BY VecsAreTyped, UptoRecursive DEF InRow, Total
<1>2. ASSUME NEW k \in 1..Total(vecs)
      PROVE  LET i == BlockAt(vecs, k) IN vecs[i].base + (k - Upto(vecs, i - 1)) = k
  <2> DEFINE i == BlockAt(vecs, k)
  <2>1. k \in Nat /\ k <= Total(vecs)
    BY <1>1
  <2>2. Len(vecs) > 0
    BY <1>1, <1>2 DEF Total
  <2>3. i \in 1..Len(vecs)
    BY <1>1, <2>1, <2>2, BlockOfByte
  <2>4. vecs[i].base = Upto(vecs, i - 1) /\ Upto(vecs, i - 1) \in Nat
    <3>1. i - 1 \in 0..Len(vecs)
      BY <1>1, <2>3
    <3> QED BY <1>1, <2>3, <3>1, UptoRecursive DEF InRow
  <2> HIDE DEF i
  <2>5. vecs[i].base + (k - Upto(vecs, i - 1)) = k
    BY <2>1, <2>4
  <2> QED BY <2>5 DEF i
<1> QED BY <1>2 DEF Bytes

\* The byte where a transfer stopped is in the block after the whole ones.
LEMMA WholeBlocksEnd ==
  ASSUME NEW vecs \in Vecs, NEW total \in Nat, total < Total(vecs)
  PROVE  LET w == WholeBlocks(vecs, total)
         IN w \in 0..(Len(vecs) - 1) /\ Upto(vecs, w) <= total /\ total <= Upto(vecs, w + 1)
<1> DEFINE i == BlockAt(vecs, total)
           w == WholeBlocks(vecs, total)
           L == Len(vecs)
<1>1. /\ L \in Nat /\ Upto(vecs, 0) = 0 /\ Total(vecs) = Upto(vecs, L)
      /\ \A j \in 0..L : Upto(vecs, j) \in Nat
      /\ \A j, k \in 0..L : j <= k => Upto(vecs, j) <= Upto(vecs, k)
  BY VecsAreTyped, UptoRecursive DEF Total
<1>2. L > 0 /\ total <= Total(vecs)
  BY <1>1
<1>3. i \in 1..L /\ Upto(vecs, i) >= total /\ Upto(vecs, i - 1) <= total
  BY <1>2, BlockOfByte
<1>4. w = IF Upto(vecs, i) = total THEN i ELSE i - 1
  BY DEF WholeBlocks
<1> HIDE DEF i, w, L
<1>5. w \in 0..(L - 1) /\ Upto(vecs, w) <= total /\ total <= Upto(vecs, w + 1)
  <2>1. CASE Upto(vecs, i) = total
    <3>1. i # L
      BY <1>1, <2>1
    <3>2. i \in 0..L /\ i + 1 \in 0..L /\ i \in 0..(L - 1) /\ i <= i + 1
      BY <1>1, <1>3, <3>1
    <3>3. Upto(vecs, i) <= Upto(vecs, i + 1)
      BY <1>1, <3>2
    <3> QED BY <1>4, <2>1, <3>2, <3>3, <1>1
  <2>2. CASE Upto(vecs, i) # total
    <3>1. w = i - 1 /\ w \in 0..(L - 1) /\ w + 1 = i
      BY <1>1, <1>3, <1>4, <2>2
    <3> QED BY <1>3, <3>1, <1>1
  <2> QED BY <2>1, <2>2
<1> QED BY <1>5 DEF w, L

\* What is left after total bytes are the bytes after them, wherever in the blocks
\* that is.
LEMMA ProgressResumes ==
  ASSUME NEW vecs, InRow(vecs), NEW total \in Nat, total < Total(vecs)
  PROVE  /\ AfterProgress(vecs, total) \in Vecs
         /\ Total(AfterProgress(vecs, total)) = Total(vecs) - total
         /\ Bytes(AfterProgress(vecs, total)) =
              [k \in 1..(Total(vecs) - total) |-> total + k]
<1> DEFINE rest == AfterProgress(vecs, total)
           w == WholeBlocks(vecs, total)
           L == Len(vecs)
           at == [j \in 0..L |-> IF j + w > L THEN L ELSE j + w]
<1>1. /\ vecs \in Vecs /\ L \in Nat /\ DOMAIN vecs = 1..L
      /\ Upto(vecs, 0) = 0 /\ Total(vecs) = Upto(vecs, L)
      /\ \A j \in 0..L : Upto(vecs, j) \in Nat
      /\ \A j \in 1..L : /\ Upto(vecs, j) = Upto(vecs, j - 1) + vecs[j].len
                         /\ vecs[j].base = Upto(vecs, j - 1)
                         /\ vecs[j].base \in Nat /\ vecs[j].len \in Nat
  BY VecsAreTyped, UptoRecursive DEF InRow, Total
<1>2. w \in 0..(L - 1) /\ Upto(vecs, w) <= total /\ total <= Upto(vecs, w + 1)
  BY <1>1, WholeBlocksEnd
<1>3. rest = [j \in 1..L |->
                IF j + w > L THEN Empty
                ELSE IF j = 1 THEN Advanced(vecs[1 + w], total - Upto(vecs, w))
                ELSE vecs[j + w]]
  BY <1>1 DEF AfterProgress
<1> HIDE DEF rest, w, L
<1>4. /\ rest[1] = [base |-> total, len |-> Upto(vecs, w + 1) - total]
      /\ 1 \in 1..L /\ w + 1 \in 1..L
  <2>1. 1 \in 1..L /\ ~(1 + w > L) /\ 1 + w \in 1..L /\ (1 + w) - 1 = w /\ w + 1 = 1 + w
    <3>1. L \in Nat /\ w \in 0..(L - 1)
      BY <1>1, <1>2
    <3> QED BY <3>1
  <2>2. rest[1] = Advanced(vecs[1 + w], total - Upto(vecs, w))
    BY <1>3, <2>1
  <2>3. /\ Upto(vecs, 1 + w) = Upto(vecs, w) + vecs[1 + w].len
        /\ vecs[1 + w].base = Upto(vecs, w)
        /\ Upto(vecs, w) \in Nat /\ Upto(vecs, 1 + w) \in Nat
        /\ vecs[1 + w].len \in Nat
    <3>1. w \in 0..L /\ 1 + w \in 0..L
      BY <1>1, <1>2
    <3> QED BY <1>1, <2>1, <3>1
  <2>4. /\ vecs[1 + w].base + (total - Upto(vecs, w)) = total
        /\ vecs[1 + w].len - (total - Upto(vecs, w)) = Upto(vecs, w + 1) - total
    BY <2>1, <2>3
  <2> QED BY <2>1, <2>2, <2>4 DEF Advanced, Iovec
<1>5. \A j \in 2..L : rest[j] = IF j + w > L THEN [base |-> 0, len |-> 0] ELSE vecs[j + w]
  BY <1>1, <1>3 DEF Empty, Iovec
<1>6. rest \in Vecs /\ Len(rest) = L
  <2>1. \A j \in 1..L : rest[j] \in [base : Nat, len : Nat]
    <3> TAKE j \in 1..L
    <3>1. CASE j = 1
      <4>1. Upto(vecs, w + 1) \in Nat
        BY <1>1, <1>4
      <4>2. Upto(vecs, w + 1) - total \in Nat
        BY <1>2, <4>1
      <4> QED BY <1>4, <3>1, <4>2
    <3>2. CASE j # 1 /\ j + w > L
      <4>1. j \in 2..L
        BY <1>1, <3>2
      <4> QED BY <1>5, <3>2, <4>1
    <3>3. CASE j # 1 /\ ~(j + w > L)
      <4>1. j \in 2..L /\ j + w \in 1..L
        BY <1>1, <1>2, <3>3
      <4>2. rest[j] = vecs[j + w]
        BY <1>5, <3>3, <4>1
      <4>3. vecs[j + w] \in [base : Nat, len : Nat]
        <5> DEFINE R == [base : Nat, len : Nat]
        <5>1. vecs \in Seq(R) /\ DOMAIN vecs = 1..L
          BY <1>1 DEF Vecs
        <5> HIDE DEF R
        <5>2. vecs[j + w] \in R
          BY <4>1, <5>1 DEF L
        <5> QED BY <5>2 DEF R
      <4> QED BY <4>2, <4>3
    <3> QED BY <3>1, <3>2, <3>3
  <2>2. rest = [j \in 1..L |-> rest[j]] /\ DOMAIN rest = 1..L
    BY <1>3
  <2> QED BY <1>1, <2>1, <2>2, VecsFromBlocks
<1>7. /\ Upto(rest, 0) = 0 /\ \A j \in 0..L : Upto(rest, j) \in Nat
      /\ \A j \in 1..L : Upto(rest, j) = Upto(rest, j - 1) + rest[j].len
  BY <1>6, UptoRecursive
<1>8. \A j \in 1..L : at[j] \in 1..L /\ at[j] = IF j + w > L THEN L ELSE j + w
  <2> TAKE j \in 1..L
  <2>1. j \in 0..L
    BY <1>1
  <2> QED BY <1>1, <1>2, <2>1
<1> HIDE DEF at
\* The blocks of the rest end where they did, counted from what is done.
<1>9. \A j \in 1..L : Upto(rest, j) = Upto(vecs, at[j]) - total
  <2> DEFINE S == {j \in 1..L : Upto(rest, j) = Upto(vecs, at[j]) - total}
  <2>1. 1 \in S
    <3>1. at[1] = w + 1 /\ 1 - 1 = 0
      BY <1>1, <1>2, <1>4, <1>8
    <3>2. Upto(rest, 1) = Upto(rest, 0) + rest[1].len
      BY <1>4, <1>7, <3>1
    <3>3. Upto(vecs, w + 1) \in Nat
      BY <1>1, <1>4
    <3> QED BY <1>4, <1>7, <3>1, <3>2, <3>3
  <2>2. ASSUME NEW j \in 1..(L - 1), j \in S PROVE j + 1 \in S
    <3>1. j \in 1..L /\ j + 1 \in 2..L /\ j + 1 \in 1..L /\ (j + 1) - 1 = j
      BY <1>1
    <3>2. Upto(rest, j + 1) = Upto(rest, j) + rest[j + 1].len
      BY <1>7, <3>1
    <3>3. Upto(rest, j) = Upto(vecs, at[j]) - total /\ Upto(vecs, at[j]) \in Nat
      BY <1>1, <1>8, <2>2, <3>1
    <3>4. CASE (j + 1) + w > L
      <4>1. at[j] = L /\ at[j + 1] = L
        <5>1. at[j] = (IF j + w > L THEN L ELSE j + w) /\ w \in Nat
          BY <1>2, <1>8, <3>1
        <5>2. j + w > L \/ j + w = L
          BY <1>1, <3>1, <3>4, <5>1
        <5>3. at[j] = L
          BY <1>1, <3>1, <5>1, <5>2
        <5> QED BY <1>8, <3>1, <3>4, <5>3
      <4>2. rest[j + 1].len = 0
        BY <1>5, <3>1, <3>4
      <4> QED BY <3>1, <3>2, <3>3, <4>1, <4>2
    <3>5. CASE ~((j + 1) + w > L)
      <4>1. at[j] = j + w /\ at[j + 1] = (j + w) + 1 /\ (j + w) + 1 \in 1..L
        BY <1>1, <1>2, <1>8, <3>1, <3>5
      <4>2. rest[j + 1] = vecs[(j + w) + 1]
        <5>1. (j + 1) + w = (j + w) + 1
          BY <1>2, <3>1
        <5> QED BY <1>5, <3>1, <3>5, <5>1
      <4>3. Upto(vecs, (j + w) + 1) = Upto(vecs, j + w) + vecs[(j + w) + 1].len
        <5>1. ((j + w) + 1) - 1 = j + w
          BY <1>2, <3>1
        <5> QED BY <1>1, <4>1, <5>1
      <4>4. vecs[(j + w) + 1].len \in Nat
        BY <1>1, <4>1
      <4> QED BY <3>1, <3>2, <3>3, <4>1, <4>2, <4>3, <4>4
    <3> QED BY <3>4, <3>5
  <2>3. 1..L \subseteq S
    <3>1. 1 \in Nat /\ L \in Int /\ \A j \in 1..(L - 1) : j \in S => j + 1 \in S
      BY <1>1, <2>2
    <3> HIDE DEF S
    <3> QED BY <2>1, <3>1, InductionFrom
  <2> QED BY <2>3
<1>10. Total(rest) = Total(vecs) - total
  <2>1. L \in 1..L /\ at[L] = L
    BY <1>1, <1>2, <1>4, <1>8
  <2> QED BY <1>1, <1>6, <1>9, <2>1 DEF Total
<1>11. ASSUME NEW k \in 1..(Total(vecs) - total)
       PROVE  LET i == BlockAt(rest, k) IN rest[i].base + (k - Upto(rest, i - 1)) = total + k
  <2> DEFINE i == BlockAt(rest, k)
  <2>1. Total(vecs) \in Nat /\ k \in Nat /\ k > 0 /\ k <= Total(rest) /\ Len(rest) > 0
    <3>1. Total(vecs) \in Nat
      <4>1. L \in 0..L
        BY <1>1
      <4> QED BY <1>1, <4>1
    <3> QED BY <1>1, <1>4, <1>6, <1>10, <3>1
  <2>2. i \in 1..L /\ Upto(rest, i) >= k /\ Upto(rest, i - 1) < k
    BY <1>6, <2>1, BlockOfByte
  <2> HIDE DEF i
  <2>3. CASE i = 1
    <3>1. rest[i].base = total /\ Upto(rest, i - 1) = 0
      BY <1>4, <1>7, <2>3
    <3> QED BY <2>1, <3>1 DEF i
  <2>4. CASE i # 1
    <3>1. i \in 2..L /\ i - 1 \in 1..L
      BY <1>1, <2>2, <2>4
    <3>2. /\ Upto(rest, i) = Upto(vecs, at[i]) - total
          /\ Upto(rest, i - 1) = Upto(vecs, at[i - 1]) - total
      BY <1>9, <2>2, <3>1
    <3>3. ~(i + w > L)
      <4>1. SUFFICES ASSUME i + w > L PROVE FALSE
        OBVIOUS
      <4>2. at[i] = L /\ at[i - 1] = L
        <5>1. /\ at[i - 1] = IF (i - 1) + w > L THEN L ELSE (i - 1) + w
              /\ w \in Nat /\ at[i] = L
          BY <1>2, <1>8, <2>2, <3>1, <4>1
        <5>2. (i - 1) + w > L \/ (i - 1) + w = L
          BY <1>1, <3>1, <4>1, <5>1
        <5> QED BY <1>1, <3>1, <5>1, <5>2
      <4>3. Upto(rest, i) = Upto(rest, i - 1) /\ Upto(rest, i) \in Nat
        <5>1. i \in 0..L
          BY <1>1, <2>2
        <5> QED BY <1>7, <3>2, <4>2, <5>1
      <4> QED BY <2>1, <2>2, <4>3
    <3>4. at[i - 1] = (i + w) - 1 /\ i + w \in 1..L
      BY <1>1, <1>2, <1>8, <2>2, <3>1, <3>3
    <3>5. rest[i].base = Upto(vecs, (i + w) - 1)
      BY <1>1, <1>5, <3>1, <3>3, <3>4
    <3>6. Upto(vecs, (i + w) - 1) \in Nat
      BY <1>1, <1>8, <3>1, <3>4
    <3>7. rest[i].base + (k - Upto(rest, i - 1)) = total + k
      BY <2>1, <3>2, <3>4, <3>5, <3>6
    <3> QED BY <3>7 DEF i
  <2> QED BY <2>3, <2>4
<1>12. Bytes(rest) = [k \in 1..(Total(vecs) - total) |-> total + k]
  BY <1>10, <1>11 DEF Bytes
<1> QED BY <1>6, <1>10, <1>12 DEF rest

-----------------------------------------------------------------------------
(* The invariant of what is in flight and reported.                        *)

\* The tables have an entry for each task, with the fields of a task.
Tables ==
  /\ task_data =
       [t \in Task |-> [op_type |-> Op(t), lent |-> task_data[t].lent,
                        progress |-> task_data[t].progress]]
  /\ flight = [t \in Task |-> flight[t]]
  /\ told = [t \in Task |-> told[t]]

\* Tasks beyond the end of the table have not been used.
Unused(t) == t > ntasks => flight[t] = {} /\ told[t] = <<>> /\ copies[t] = "none"

\* One submission in flight and no report, or one report and nothing in flight.
Lone(t) ==
  IF told[t] = <<>> THEN \E v : flight[t] \subseteq {v}
  ELSE flight[t] = {} /\ \E r : told[t] = <<r>>

Calling(t) == calling # NULL /\ calling.task = t

\* Not reported by a callback.
Untold(t) == told[t] = <<>> \/ told[t] = <<Refused>>

\* The copy is there as long as the handler has not returned from the callback.
CopyKept(t) ==
  /\ Op(t) \notin VectorOps => copies[t] = "none"
  /\ Op(t) \in VectorOps /\ t \notin dangling =>
       copies[t] = IF Untold(t) \/ Calling(t) THEN "live" ELSE "freed"
  /\ Op(t) \in VectorOps /\ Calling(t) => ~Untold(t)

Sound(t) == Unused(t) /\ (Uninterrupted(t) => Lone(t)) /\ CopyKept(t)

IInv == TypeOK /\ Tables /\ \A t \in Task : Sound(t)

-----------------------------------------------------------------------------
(* Facts about single states.                                              *)

\* No operation is both interrupted like a plain write and a vector operation.
LEMMA VectorsUninterrupted ==
  ASSUME NEW t, Op(t) \in VectorOps
  PROVE  Uninterrupted(t)
BY DEF Uninterrupted, VectorOps, VectorWrites, VectorReads, BufferWrites

LEMMA OpsAreNotNull ==
  ASSUME NEW op \in BufferOps \cup VectorOps \cup CloseOps
  PROVE  op # NULL /\ op \in Ops
BY NullAssumption DEF Ops

\* No report of a callback looks like a call that failed.
LEMMA CallbackReports ==
  ASSUME NEW failed, NEW at, NEW bytes, failed = FALSE \/ at = 0
  PROVE  Report(failed, at, bytes) # Refused
<1>1. NULL # 0
  BY NullAssumption
<1> QED BY <1>1 DEF Report, Refused

\* get_task returns a task that nothing refers to.
LEMMA NewTaskIsFresh ==
  ASSUME IInv, HasRoom
  PROVE  /\ NewTask \in Task /\ ntasks + 1 \in 0..MaxTasks
         /\ NewTask > ntasks /\ NewTask \notin dangling /\ ~Calling(NewTask)
         /\ flight[NewTask] = {} /\ told[NewTask] = <<>> /\ copies[NewTask] = "none"
         /\ \A t \in Task : t # NewTask => (t > ntasks + 1 <=> t > ntasks)
         /\ 1..ntasks \subseteq 1..(ntasks + 1)
<1>1. MaxTasks \in Nat /\ ntasks \in 0..MaxTasks /\ NewTask = ntasks + 1
  BY LoansAssumption DEF IInv, TypeOK, NewTask
<1>2. NewTask \in Task /\ NewTask > ntasks
  BY <1>1 DEF HasRoom, Task
<1>3. Sound(NewTask)
  BY <1>2 DEF IInv
<1>4. flight[NewTask] = {} /\ told[NewTask] = <<>> /\ copies[NewTask] = "none"
  BY <1>2, <1>3 DEF Sound, Unused
<1>5. NewTask \notin dangling
  BY <1>1 DEF IInv, TypeOK
<1>6. ~Calling(NewTask)
  <2>1. calling # NULL => calling.task \in 1..ntasks
    BY DEF IInv, TypeOK
  <2> QED BY <2>1, <1>1 DEF Calling
<1>7. \A t \in Task : t # NewTask => (t > ntasks + 1 <=> t > ntasks)
  BY <1>1 DEF Task
<1>8. ntasks + 1 \in 0..MaxTasks /\ 1..ntasks \subseteq 1..(ntasks + 1)
  BY <1>1 DEF HasRoom
<1> QED BY <1>2, <1>4, <1>5, <1>6, <1>7, <1>8

LEMMA UsedTasks ==
  ASSUME IInv, NEW t \in Task, flight[t] # {}
  PROVE  t \in 1..ntasks
<1>1. MaxTasks \in Nat /\ ntasks \in 0..MaxTasks
  BY LoansAssumption DEF IInv, TypeOK
<1>2. Unused(t)
  BY DEF IInv, Sound
<1> QED BY <1>1, <1>2 DEF Unused, Task

\* What completes is all that the operation has in flight.
LEMMA CompletesAlone ==
  ASSUME IInv, NEW t \in Task, NEW vecs, Completes(t, vecs)
  PROVE  /\ calling = NULL /\ t \in 1..ntasks
         /\ Uninterrupted(t) => flight[t] = {vecs} /\ told[t] = <<>>
<1>1. vecs \in flight[t] /\ calling = NULL
  BY DEF Completes
<1>2. Uninterrupted(t) => Lone(t)
  BY DEF IInv, Sound
<1> QED BY <1>1, <1>2, UsedTasks DEF Lone

\* At most what is asked for is submitted.
LEMMA SubmittedOnce ==
  ASSUME NEW vecs, NEW fault, NEW ops \in Submissions(vecs, fault)
  PROVE  ops \subseteq {vecs}
BY DEF Submissions

-----------------------------------------------------------------------------
(* Completions, up to the callback.                                        *)

\* The tasks stay what they are.
OpsKept ==
  /\ task_data' =
       [t \in Task |-> [op_type |-> Op(t), lent |-> task_data[t].lent,
                        progress |-> task_data'[t].progress]]
  /\ UNCHANGED <<ntasks, copies, dangling, shut>>
  /\ closing' \in [Task -> Nat]

\* flight changes for t only.
FlightOf(t, ops) == flight' = [flight EXCEPT ![t] = ops]

GoesOn(t) ==
  /\ NoCall
  /\ \E ops : FlightOf(t, ops) /\ (Uninterrupted(t) => \E v : ops \subseteq {v})

Reports(t) ==
  /\ \E ops : FlightOf(t, ops) /\ (Uninterrupted(t) => ops = {})
  /\ \E report : \E closes \in 0..2 : Tell(t, report, closes) /\ report # Refused

Handled(t) ==
  /\ calling = NULL /\ t \in 1..ntasks /\ (Uninterrupted(t) => told[t] = <<>>)
  /\ OpsKept /\ (GoesOn(t) \/ Reports(t))
LEMMA TaskIsRecord ==
  ASSUME IInv, NEW t \in Task
  PROVE  task_data[t] = [op_type |-> Op(t), lent |-> task_data[t].lent,
                         progress |-> task_data[t].progress]
BY DEF IInv, Tables

LEMMA ClosingIsTyped == IInv => closing \in [Task -> Nat]
BY DEF IInv, TypeOK

\* A change of progress, or of nothing, keeps the tasks.
LEMMA ProgressKeepsOps ==
  ASSUME IInv, NEW t \in Task, NEW total,
         \/ task_data' = [task_data EXCEPT ![t].progress = total]
         \/ UNCHANGED task_data,
         UNCHANGED <<ntasks, copies, dangling, shut>>, closing' \in [Task -> Nat]
  PROVE  OpsKept
<1> USE DEF Op
<1>1. task_data = [u \in Task |-> [op_type |-> Op(u), lent |-> task_data[u].lent,
                        progress |-> task_data[u].progress]]
  BY DEF IInv, Tables
<1>2. CASE UNCHANGED task_data
  BY <1>1, <1>2 DEF OpsKept
<1>3. CASE task_data' = [task_data EXCEPT ![t].progress = total]
  BY <1>1, <1>3 DEF OpsKept
<1> QED BY <1>2, <1>3

\* The operation on vecs is over, and others are submitted.
LEMMA ReplacedSound ==
  ASSUME IInv, NEW t \in Task, NEW vecs, NEW new, Completes(t, vecs),
         flight' = Replaced(t, vecs, new)
  PROVE  \E ops : FlightOf(t, ops) /\ (Uninterrupted(t) => ops = new)
<1>1. flight' = [flight EXCEPT ![t] = (flight[t] \ {vecs}) \cup new]
  BY DEF Replaced
<1>2. Uninterrupted(t) => (flight[t] \ {vecs}) \cup new = new
  BY CompletesAlone
<1> QED BY <1>1, <1>2 DEF FlightOf

\* It goes on with what is submitted now.
LEMMA GoesOnWith ==
  ASSUME IInv, NEW t \in Task, NEW vecs, NEW new, NEW v, Completes(t, vecs),
         flight' = Replaced(t, vecs, new), NoCall, Uninterrupted(t) => new \subseteq {v}
  PROVE  GoesOn(t)
<1>1. PICK ops : FlightOf(t, ops) /\ (Uninterrupted(t) => ops = new)
  BY ReplacedSound
<1>2. Uninterrupted(t) => \E w : ops \subseteq {w}
  BY <1>1
<1> QED BY <1>1, <1>2 DEF GoesOn

\* It is reported, and nothing is submitted.
LEMMA ReportsAtEnd ==
  ASSUME IInv, NEW t \in Task, NEW vecs, NEW new, NEW report, NEW closes \in 0..2,
         Completes(t, vecs), flight' = Replaced(t, vecs, new),
         Tell(t, report, closes), report # Refused, Uninterrupted(t) => new = {}
  PROVE  Reports(t)
<1>1. PICK ops : FlightOf(t, ops) /\ (Uninterrupted(t) => ops = new)
  BY ReplacedSound
<1>2. Uninterrupted(t) => ops = {}
  BY <1>1
<1> QED BY <1>1, <1>2 DEF Reports

LEMMA ContinueBufferHandled ==
  ASSUME IInv, NEW t \in Task, NEW vecs, NEW total, NEW still, Completes(t, vecs),
         ContinueBuffer(t, vecs, total, still), Uninterrupted(t) => still = {},
         UNCHANGED <<ntasks, copies, dangling, closing, shut>>
  PROVE  Handled(t)
<1>1. OpsKept
  BY ProgressKeepsOps, ClosingIsTyped DEF ContinueBuffer
<1>2. CASE NoCall /\ \E ops \in Submissions(Remainder(t, total), "resubmit") :
                        flight' = Replaced(t, vecs, ops \cup still)
  <2>1. PICK ops \in Submissions(Remainder(t, total), "resubmit") :
          flight' = Replaced(t, vecs, ops \cup still) /\ NoCall
    BY <1>2
  <2>2. Uninterrupted(t) => ops \cup still \subseteq {Remainder(t, total)}
    BY SubmittedOnce
  <2>3. GoesOn(t)
    BY <2>1, <2>2, GoesOnWith
  <2> QED BY <1>1, <2>3, CompletesAlone DEF Handled
<1>3. CASE /\ flight' = Replaced(t, vecs, still)
           /\ \E closes \in 0..2 : Tell(t, Report(FALSE, 0, total), closes)
  <2>1. PICK closes \in 0..2 : Tell(t, Report(FALSE, 0, total), closes)
    BY <1>3
  <2>2. flight' = Replaced(t, vecs, still)
    BY <1>3
  <2>3. Report(FALSE, 0, total) # Refused
    BY CallbackReports
  <2>4. Reports(t)
    BY <2>1, <2>2, <2>3, ReportsAtEnd
  <2> QED BY <1>1, <2>4, CompletesAlone DEF Handled
<1>4. (IF Op(t) = "HTTP_WRITE" THEN 1 ELSE 0) \in 0..2
  OBVIOUS
<1> QED BY <1>2, <1>3, <1>4 DEF ContinueBuffer
\* However an operation of t completes, it goes on or is reported.
LEMMA CompletionHandled ==
  ASSUME IInv, NEW t \in Task, Completion(t) \/ WriteInterrupted(t) \/ Interrupted(t)
  PROVE  Handled(t)
<1>1. CASE BufferMoves(t)
  <2>1. PICK vecs, total : Completes(t, vecs) /\ ContinueBuffer(t, vecs, total, {})
    BY <1>1 DEF BufferMoves
  <2> QED BY <1>1, <2>1, ContinueBufferHandled DEF BufferMoves
<1>2. CASE WriteInterrupted(t)
  <2>1. PICK vecs, total, again : Completes(t, vecs) /\ ContinueBuffer(t, vecs, total, again)
    BY <1>2 DEF WriteInterrupted
  <2>2. ~Uninterrupted(t)
    BY <1>2 DEF WriteInterrupted, Uninterrupted
  <2> QED BY <1>2, <2>1, <2>2, ContinueBufferHandled DEF WriteInterrupted
<1>3. CASE WriteFails(t)
  <2>1. PICK vecs, closes :
          /\ Completes(t, vecs) /\ flight' = Replaced(t, vecs, {}) /\ closes \in 0..2
          /\ Tell(t, Report(TRUE, 0, task_data[t].progress), closes)
    <3>1. (IF Op(t) = "HTTP_WRITE" THEN 2 ELSE 1) \in 0..2
      OBVIOUS
    <3> QED BY <1>3, <3>1 DEF WriteFails
  <2>2. Report(TRUE, 0, task_data[t].progress) # Refused
    BY CallbackReports
  <2>3. Reports(t)
    BY <2>1, <2>2, ReportsAtEnd
  <2>4. OpsKept
    BY <1>3, ProgressKeepsOps, ClosingIsTyped DEF WriteFails
  <2> QED BY <2>1, <2>3, <2>4, CompletesAlone DEF Handled
<1>4. CASE ReadEnds(t)
  <2>1. PICK vecs : Completes(t, vecs) /\ flight' = Replaced(t, vecs, {}) /\ NoCall
    BY <1>4 DEF ReadEnds
  <2>2. GoesOn(t)
    BY <2>1, GoesOnWith
  <2>3. closing' \in [Task -> Nat]
    BY <1>4, ClosingIsTyped DEF ReadEnds
  <2>4. OpsKept
    BY <1>4, <2>3, ProgressKeepsOps DEF ReadEnds
  <2> QED BY <2>1, <2>2, <2>4, CompletesAlone DEF Handled
<1>5. CASE ReadFails(t)
  <2>1. PICK vecs, closes :
          /\ Completes(t, vecs) /\ flight' = Replaced(t, vecs, {}) /\ closes \in 0..2
          /\ Tell(t, Report(FALSE, vecs[1].base, task_data[t].progress), closes)
    <3>1. 1 \in 0..2
      OBVIOUS
    <3> QED BY <1>5, <3>1 DEF ReadFails
  <2>2. Report(FALSE, vecs[1].base, task_data[t].progress) # Refused
    BY CallbackReports
  <2>3. Reports(t)
    BY <2>1, <2>2, ReportsAtEnd
  <2>4. OpsKept
    BY <1>5, ProgressKeepsOps, ClosingIsTyped DEF ReadFails
  <2> QED BY <2>1, <2>3, <2>4, CompletesAlone DEF Handled
<1>6. CASE VectorMoves(t)
  <2>1. PICK vecs, n :
          /\ Completes(t, vecs)
          /\ LET total == task_data[t].progress + n
                 rest == AfterProgress(task_data[t].lent, total)
             IN \/ /\ task_data' = [task_data EXCEPT ![t].progress = total]
                   /\ \E ops \in Submissions(rest, "resubmit") :
                        flight' = Replaced(t, vecs, ops)
                   /\ NoCall
                \/ /\ flight' = Replaced(t, vecs, {})
                   /\ Tell(t, Report(FALSE, 0, Length(t)),
                           IF Op(t) = "WEBSOCKET_WRITEV" THEN 0 ELSE 1)
                   /\ UNCHANGED task_data
    BY <1>6 DEF VectorMoves
  <2> DEFINE total == task_data[t].progress + n
             rest == AfterProgress(task_data[t].lent, total)
  <2>2. OpsKept
    BY <1>6, <2>1, ProgressKeepsOps, ClosingIsTyped DEF VectorMoves
  <2>3. CASE NoCall /\ \E ops \in Submissions(rest, "resubmit") :
                          flight' = Replaced(t, vecs, ops)
    <3>1. PICK ops \in Submissions(rest, "resubmit") : flight' = Replaced(t, vecs, ops)
      BY <2>3
    <3>2. ops \subseteq {rest}
      BY SubmittedOnce
    <3>3. GoesOn(t)
      BY <2>1, <2>3, <3>1, <3>2, GoesOnWith
    <3> QED BY <2>1, <2>2, <3>3, CompletesAlone DEF Handled
  <2>4. CASE /\ flight' = Replaced(t, vecs, {})
             /\ \E closes \in 0..2 : Tell(t, Report(FALSE, 0, Length(t)), closes)
    <3>1. PICK closes \in 0..2 : Tell(t, Report(FALSE, 0, Length(t)), closes)
      BY <2>4
    <3>2. Report(FALSE, 0, Length(t)) # Refused
      BY CallbackReports
    <3>3. Reports(t)
      BY <2>1, <2>4, <3>1, <3>2, ReportsAtEnd
    <3> QED BY <2>1, <2>2, <3>3, CompletesAlone DEF Handled
  <2>5. (IF Op(t) = "WEBSOCKET_WRITEV" THEN 0 ELSE 1) \in 0..2
    OBVIOUS
  <2> QED BY <2>1, <2>3, <2>4, <2>5
<1>7. CASE VectorFails(t)
  <2>1. PICK vecs, closes :
          /\ Completes(t, vecs) /\ flight' = Replaced(t, vecs, {}) /\ closes \in 0..2
          /\ Tell(t, Report(TRUE, 0, 0), closes)
    <3>1. 1 \in 0..2
      OBVIOUS
    <3> QED BY <1>7, <3>1 DEF VectorFails
  <2>2. Report(TRUE, 0, 0) # Refused
    BY CallbackReports
  <2>3. Reports(t)
    BY <2>1, <2>2, ReportsAtEnd
  <2>4. OpsKept
    BY <1>7, ProgressKeepsOps, ClosingIsTyped DEF VectorFails
  <2> QED BY <2>1, <2>3, <2>4, CompletesAlone DEF Handled
<1>8. CASE Interrupted(t)
  <2>1. PICK vecs, fault, ops :
          /\ Completes(t, vecs) /\ flight' = Replaced(t, vecs, ops)
          /\ ops \in Submissions(vecs, fault)
    BY <1>8 DEF Interrupted
  <2>2. ops \subseteq {vecs}
    BY <2>1, SubmittedOnce
  <2>3. GoesOn(t)
    BY <1>8, <2>1, <2>2, GoesOnWith DEF Interrupted
  <2>4. OpsKept
    BY <1>8, ProgressKeepsOps, ClosingIsTyped DEF Interrupted
  <2> QED BY <2>1, <2>3, <2>4, CompletesAlone DEF Handled
<1> QED BY <1>1, <1>2, <1>3, <1>4, <1>5, <1>6, <1>7, <1>8 DEF Completion
-----------------------------------------------------------------------------
(* Every step preserves the invariant.                                     *)

\* Tell gives t the report, and no other task.
LEMMA TellReports ==
  ASSUME IInv, NEW t \in Task, NEW report, NEW closes, Tell(t, report, closes)
  PROVE  /\ told' = [u \in Task |-> told'[u]]
         /\ \A u \in Task : u # t => told'[u] = told[u]
         /\ told[t] = <<>> => told'[t] = <<report>>
         /\ calling' = [task |-> t, closes |-> closes]
<1>1. told' = [told EXCEPT ![t] = Append(told[t], report)]
  BY DEF Tell
<1>2. Append(<<>>, report) = <<report>>
  OBVIOUS
<1>3. told = [u \in Task |-> told[u]]
  BY DEF IInv, Tables
<1>4. \A u \in Task : told'[u] = IF u = t THEN Append(told[t], report) ELSE told[u]
  BY <1>1, <1>3
<1>5. told' = [u \in Task |-> told'[u]]
  BY <1>1, <1>3
<1>6. told[t] = <<>> => told'[t] = <<report>>
  BY <1>2, <1>4
<1> QED BY <1>4, <1>5, <1>6 DEF Tell

LEMMA FlightOfOne ==
  ASSUME IInv, NEW t \in Task, NEW ops, FlightOf(t, ops)
  PROVE  /\ flight' = [u \in Task |-> flight'[u]]
         /\ \A u \in Task : u # t => flight'[u] = flight[u]
         /\ flight'[t] = ops
BY DEF FlightOf, IInv, Tables

LEMMA OpsKeptTyped ==
  ASSUME IInv, OpsKept
  PROVE  \A u \in Task : Op(u)' = Op(u) /\ Uninterrupted(u)' = Uninterrupted(u)
BY DEF OpsKept, Op, Uninterrupted
\* The completions.
LEMMA HandledKeeps ==
  ASSUME IInv, NEW t \in Task, Handled(t)
  PROVE  IInv'
<1>1. /\ calling = NULL /\ t \in 1..ntasks
      /\ UNCHANGED <<ntasks, copies, dangling, shut>> /\ closing' \in [Task -> Nat]
  BY DEF Handled, OpsKept
<1>2. \A u \in Task : Op(u)' = Op(u) /\ Uninterrupted(u)' = Uninterrupted(u)
  BY OpsKeptTyped DEF Handled
<1>3. PICK ops : FlightOf(t, ops) /\ (Uninterrupted(t) => \E v : ops \subseteq {v})
  <2>1. Uninterrupted(t) /\ Reports(t) => \E ops : FlightOf(t, ops) /\ ops = {}
    BY DEF Reports
  <2> QED BY <2>1 DEF Handled, GoesOn, Reports
<1>4. /\ flight' = [u \in Task |-> flight'[u]] /\ flight'[t] = ops
      /\ \A u \in Task : u # t => flight'[u] = flight[u]
  BY <1>3, FlightOfOne
<1>5. /\ told' = [u \in Task |-> told'[u]]
      /\ \A u \in Task : u # t => told'[u] = told[u]
  <2>1. CASE GoesOn(t)
    BY <2>1 DEF GoesOn, NoCall, IInv, Tables
  <2>2. CASE Reports(t)
    <3>1. PICK report, closes : Tell(t, report, closes)
      BY <2>2 DEF Reports
    <3> QED BY <3>1, TellReports
  <2> QED BY <2>1, <2>2 DEF Handled
<1>6. \/ GoesOn(t) /\ told' = told /\ calling' = NULL
      \/ \E report, closes :
           /\ closes \in 0..2 /\ calling' = [task |-> t, closes |-> closes]
           /\ report # Refused
           /\ told[t] = <<>> => told'[t] = <<report>>
           /\ Uninterrupted(t) => flight'[t] = {}
  <2>1. CASE GoesOn(t)
    BY <1>1, <2>1 DEF GoesOn, NoCall
  <2>2. CASE Reports(t)
    <3>1. PICK report, closes :
            closes \in 0..2 /\ Tell(t, report, closes) /\ report # Refused
      BY <2>2 DEF Reports
    <3>2. PICK none : FlightOf(t, none) /\ (Uninterrupted(t) => none = {})
      BY <2>2 DEF Reports
    <3>3. flight'[t] = none
      BY <3>2, FlightOfOne
    <3> QED BY <3>1, <3>2, <3>3, TellReports
  <2> QED BY <2>1, <2>2 DEF Handled
<1>7. Uninterrupted(t) => told[t] = <<>>
  BY DEF Handled
<1>8. TypeOK'
  <2>1. calling' = NULL \/ calling' \in [task : 1..ntasks, closes : 0..2]
    BY <1>1, <1>6
  <2> QED BY <1>1, <1>2, <2>1 DEF IInv, TypeOK
<1>9. Tables'
  <2>1. task_data' =
          [u \in Task |-> [op_type |-> Op(u)', lent |-> task_data'[u].lent,
                           progress |-> task_data'[u].progress]]
    BY <1>2 DEF Handled, OpsKept
  <2> QED BY <1>4, <1>5, <2>1 DEF Tables
<1>10. ASSUME NEW u \in Task, u # t
       PROVE  Sound(u)'
  <2>1. Sound(u)
    BY DEF IInv
  <2>2. flight'[u] = flight[u] /\ told'[u] = told[u]
    BY <1>4, <1>5, <1>10
  <2>3. ~Calling(u) /\ ~Calling(u)'
    BY <1>1, <1>6, <1>10 DEF Calling
  <2>4. Unused(u)'
    BY <1>1, <2>1, <2>2 DEF Sound, Unused
  <2>5. Uninterrupted(u)' => Lone(u)'
    BY <1>2, <2>1, <2>2 DEF Sound, Lone
  <2>6. CopyKept(u)'
    BY <1>1, <1>2, <2>1, <2>2, <2>3 DEF Sound, CopyKept, Untold, Refused, Report
  <2> QED BY <2>4, <2>5, <2>6 DEF Sound
<1>11. Sound(t)'
  <2>1. Sound(t)
    BY DEF IInv
  <2>2. Unused(t)'
    <3>1. ~(t > ntasks)
      BY <1>1, LoansAssumption DEF IInv, TypeOK
    <3> QED BY <1>1, <3>1 DEF Unused
  <2>3. ASSUME Uninterrupted(t)
        PROVE  Lone(t)'
    <3>1. CASE told'[t] = <<>>
      BY <1>3, <1>4, <2>3, <3>1 DEF Lone
    <3>2. CASE told'[t] # <<>>
      BY <1>6, <1>7, <2>3, <3>2 DEF Lone
    <3> QED BY <3>1, <3>2
  <2>4. ASSUME Op(t) \in VectorOps
        PROVE  CopyKept(t)'
    <3>1. told[t] = <<>>
      BY <1>7, <2>4, VectorsUninterrupted
    <3>2. t \notin dangling => copies[t] = "live"
      BY <2>1, <2>4, <3>1 DEF Sound, CopyKept, Untold
    <3>3. CASE GoesOn(t) /\ told' = told /\ calling' = NULL
      BY <1>1, <1>2, <2>4, <3>1, <3>2, <3>3 DEF CopyKept, Untold, Calling
    <3>4. CASE \E report, closes :
                 /\ closes \in 0..2 /\ calling' = [task |-> t, closes |-> closes]
                 /\ report # Refused /\ told'[t] = <<report>>
      <4>1. PICK report, closes :
              /\ closes \in 0..2 /\ calling' = [task |-> t, closes |-> closes]
              /\ report # Refused /\ told'[t] = <<report>>
        BY <3>4
      <4>2. <<report>> # <<>> /\ <<report>> # <<Refused>>
        BY <4>1
      <4>3. ~Untold(t)'
        BY <4>1, <4>2 DEF Untold, Refused, Report
      <4>4. Calling(t)'
        <5>1. calling' \in [task : 1..ntasks, closes : 0..2]
          BY <1>1, <1>6, <4>1
        <5>2. calling' \in [task : Nat, closes : Nat]
          BY <5>1
        <5> QED BY <4>1, <5>2, NullAssumption DEF Calling
      <4> QED BY <1>1, <1>2, <2>4, <3>2, <4>3, <4>4 DEF CopyKept
    <3> QED BY <1>6, <3>1, <3>3, <3>4
  <2>5. ASSUME Op(t) \notin VectorOps
        PROVE  CopyKept(t)'
    BY <1>1, <1>2, <2>1, <2>5 DEF Sound, CopyKept
  <2> QED BY <1>2, <2>2, <2>3, <2>4, <2>5 DEF Sound
<1> QED BY <1>8, <1>9, <1>10, <1>11 DEF IInv

\* A new task with these entries keeps the invariant: they are those of an operation
\* in flight, of one that was refused, or of a close.
LEMMA NewTaskKeeps ==
  ASSUME IInv, HasRoom, NEW n, n = NewTask,
         NEW op \in BufferOps \cup VectorOps \cup CloseOps, NEW lent, NEW v,
         ntasks' = ntasks + 1,
         task_data' = [task_data EXCEPT ![n] = TaskOf(op, lent)],
         flight' = [u \in Task |-> flight'[u]], flight'[n] \subseteq {v},
         told' = [u \in Task |-> told'[u]],
         told'[n] = IF flight'[n] = {} /\ op \notin CloseOps THEN <<Refused>> ELSE <<>>,
         \A u \in Task : u # n => flight'[u] = flight[u] /\ told'[u] = told[u],
         copies' = IF op \in VectorOps THEN [copies EXCEPT ![n] = "live"] ELSE copies,
         TableGrows, UNCHANGED <<calling, shut>>, closing' \in [Task -> Nat]
  PROVE  IInv'
<1>1. /\ n \in Task /\ ntasks + 1 \in 0..MaxTasks
      /\ n > ntasks /\ n \notin dangling /\ ~Calling(n)
      /\ told[n] = <<>> /\ copies[n] = "none"
      /\ \A t \in Task : t # n => (t > ntasks + 1 <=> t > ntasks)
      /\ 1..ntasks \subseteq 1..(ntasks + 1)
  BY NewTaskIsFresh
<1>2. task_data' = [u \in Task |-> [op_type |-> Op(u)', lent |-> task_data'[u].lent,
                                    progress |-> task_data'[u].progress]]
  BY <1>1 DEF IInv, Tables, TaskOf, Op
<1>3. Op(n)' = op /\ \A u \in Task : u # n => Op(u)' = Op(u)
  BY <1>1 DEF IInv, Tables, TaskOf, Op
<1>4. /\ dangling' \subseteq 1..ntasks /\ n \notin dangling'
      /\ dangling \subseteq dangling'
  <2>1. calling # NULL => calling.task \in 1..ntasks /\ calling.task # n
    BY <1>1 DEF IInv, TypeOK, Calling
  <2> QED BY <1>1, <2>1 DEF TableGrows, IInv, TypeOK
<1>5. copies' \in [Task -> {"none", "live", "freed", "broken"}]
  BY DEF IInv, TypeOK
<1>6. \A u \in Task : u # n => copies'[u] = copies[u]
  BY DEF IInv, TypeOK
<1>7. copies'[n] = IF op \in VectorOps THEN "live" ELSE "none"
  BY <1>1 DEF IInv, TypeOK
<1>8. ~(n > ntasks + 1)
  BY <1>1, LoansAssumption DEF IInv, TypeOK, NewTask
<1>9. TypeOK'
  <2>1. \A u \in Task : Op(u)' \in Ops /\ (Op(u)' = NULL <=> u > ntasks + 1)
    BY <1>1, <1>3, <1>8, OpsAreNotNull DEF IInv, TypeOK
  <2>2. dangling' \subseteq 1..(ntasks + 1)
    BY <1>1, <1>4
  <2>3. calling' = NULL \/ calling' \in [task : 1..(ntasks + 1), closes : 0..2]
    BY <1>1 DEF IInv, TypeOK
  <2> QED BY <1>1, <1>5, <2>1, <2>2, <2>3 DEF IInv, TypeOK
<1>10. Tables'
  BY <1>2 DEF Tables
<1>11. ASSUME NEW u \in Task, u # n
       PROVE  Sound(u)'
  <2>1. Sound(u)
    BY DEF IInv
  <2>2. flight'[u] = flight[u] /\ told'[u] = told[u] /\ copies'[u] = copies[u] /\ Op(u)' = Op(u)
    BY <1>3, <1>6, <1>11
  <2>3. Unused(u)'
    BY <1>1, <1>11, <2>1, <2>2 DEF Sound, Unused
  <2>4. Uninterrupted(u)' => Lone(u)'
    BY <2>1, <2>2 DEF Sound, Lone, Uninterrupted
  <2>5. CopyKept(u)'
    BY <1>4, <2>1, <2>2 DEF Sound, CopyKept, Untold, Calling, Refused, Report
  <2> QED BY <2>3, <2>4, <2>5 DEF Sound
<1>12. Sound(n)'
  <2>1. Unused(n)'
    BY <1>8 DEF Unused
  <2>2. Lone(n)'
    BY <1>1 DEF Lone
  <2>3. CASE op \in VectorOps
    <3>1. Untold(n)'
      BY <1>1 DEF Untold, Refused, Report
    <3>2. copies'[n] = "live" /\ ~Calling(n)'
      BY <1>1, <1>7, <2>3 DEF Calling
    <3> QED BY <1>3, <2>3, <3>1, <3>2, <2>1, <2>2 DEF Sound, CopyKept
  <2>4. CASE op \notin VectorOps
    BY <1>3, <1>7, <2>1, <2>2, <2>4 DEF Sound, CopyKept
  <2> QED BY <2>3, <2>4
<1> QED BY <1>1, <1>9, <1>10, <1>11, <1>12 DEF IInv
LEMMA BeginKeeps ==
  ASSUME IInv, NEW op \in BufferOps \cup VectorOps, Begin(op)
  PROVE  IInv'
<1> DEFINE n == NewTask
<1>1. n \in Task /\ HasRoom
  BY NewTaskIsFresh DEF Begin
<1>2. PICK lens, ops :
        /\ task_data' = [task_data EXCEPT ![n] = TaskOf(op, Laid(lens))]
        /\ ops \subseteq {Laid(lens)}
        /\ flight' = [flight EXCEPT ![n] = ops]
        /\ told' = [told EXCEPT ![n] = IF ops = {} THEN <<Refused>> ELSE <<>>]
  BY SubmittedOnce DEF Begin
<1>3. op \notin CloseOps
  BY DEF BufferOps, VectorOps, BufferWrites, VectorWrites, VectorReads, CloseOps
<1>4. flight = [u \in Task |-> flight[u]] /\ told = [u \in Task |-> told[u]]
  BY DEF IInv, Tables
<1>5. /\ flight' = [u \in Task |-> flight'[u]] /\ flight'[n] = ops
      /\ told' = [u \in Task |-> told'[u]]
      /\ told'[n] = IF ops = {} THEN <<Refused>> ELSE <<>>
      /\ \A u \in Task : u # n => flight'[u] = flight[u] /\ told'[u] = told[u]
  BY <1>1, <1>2, <1>4
<1>6. /\ ntasks' = ntasks + 1 /\ TableGrows /\ UNCHANGED <<calling, shut>>
      /\ copies' = IF op \in VectorOps THEN [copies EXCEPT ![n] = "live"] ELSE copies
      /\ closing' \in [Task -> Nat]
  BY ClosingIsTyped DEF Begin
<1> HIDE DEF n
<1>7. n = NewTask
  BY DEF n
<1> QED BY <1>1, <1>2, <1>3, <1>5, <1>6, <1>7, NewTaskKeeps

LEMMA BeginCloseKeeps ==
  ASSUME IInv, NEW op \in CloseOps, BeginClose(op)
  PROVE  IInv'
<1>1. PICK n \in Task : n = NewTask /\ HasRoom /\ flight[n] = {} /\ told[n] = <<>>
  BY NewTaskIsFresh DEF BeginClose
<1>2. op \notin VectorOps
  BY DEF VectorOps, VectorWrites, VectorReads, CloseOps
<1>3. /\ flight' = [u \in Task |-> flight'[u]] /\ told' = [u \in Task |-> told'[u]]
      /\ \A u \in Task : flight'[u] = flight[u] /\ told'[u] = told[u]
  BY DEF BeginClose, IInv, Tables
<1>4. closing' \in [Task -> Nat]
  BY ClosingIsTyped DEF BeginClose
<1>5. /\ ntasks' = ntasks + 1 /\ TableGrows /\ UNCHANGED <<calling, shut, copies>>
      /\ task_data' = [task_data EXCEPT ![n] = TaskOf(op, <<>>)]
  BY <1>1 DEF BeginClose
<1>6. flight'[n] \subseteq {op} /\ told'[n] = <<>>
  BY <1>1, <1>3
<1> QED BY <1>1, <1>2, <1>3, <1>4, <1>5, <1>6, NewTaskKeeps

\* The handler frees what it copied, unless its reference was left behind.
LEMMA AfterCallbackKeeps ==
  ASSUME IInv, AfterCallback
  PROVE  IInv'
<1>1. calling \in [task : 1..ntasks, closes : 0..2] /\ calling' = NULL
  BY DEF AfterCallback, IInv, TypeOK
<1>2. PICK t \in Task : Calling(t)
  BY <1>1, LoansAssumption DEF IInv, TypeOK, AfterCallback, Calling, Task
<1>3. UNCHANGED <<ntasks, task_data, flight, told, dangling, shut>>
  BY DEF AfterCallback, loans
<1>4. closing' \in [Task -> Nat]
  <2>1. closing' = [closing EXCEPT ![t] = @ + calling.closes] /\ calling.closes \in Nat
    BY <1>1, <1>2 DEF AfterCallback, Calling
  <2> QED BY <2>1, ClosingIsTyped
<1>5. IF Op(t) \in VectorOps THEN FreeCopy(t) ELSE UNCHANGED copies
  BY <1>2 DEF AfterCallback, Calling
<1>6. \A u \in Task : u # t => ~Calling(u)
  BY <1>2 DEF Calling
<1>7. /\ copies' \in [Task -> {"none", "live", "freed", "broken"}]
      /\ \A u \in Task : u # t => copies'[u] = copies[u]
  BY <1>5 DEF FreeCopy, IInv, TypeOK
<1>8. \A u \in Task : Op(u)' = Op(u) /\ Uninterrupted(u)' = Uninterrupted(u) /\ ~Calling(u)'
  BY <1>1, <1>3 DEF Op, Uninterrupted, Calling
<1>9. TypeOK'
  BY <1>1, <1>3, <1>4, <1>7 DEF IInv, TypeOK, Op
<1>10. Tables'
  BY <1>3 DEF IInv, Tables, Op
<1>11. ASSUME NEW u \in Task
       PROVE  Sound(u)'
  <2>1. Sound(u)
    BY DEF IInv
  <2>2. (Uninterrupted(u) => Lone(u))' /\ Untold(u)' = Untold(u)
    BY <1>3, <1>8, <2>1 DEF Sound, Lone, Untold, Refused, Report
  <2>3. CASE u # t
    BY <1>3, <1>6, <1>7, <1>8, <2>1, <2>2, <2>3 DEF Sound, Unused, CopyKept
  <2>4. CASE u = t /\ Op(t) \notin VectorOps
    BY <1>3, <1>5, <1>8, <2>1, <2>2, <2>4 DEF Sound, Unused, CopyKept
  <2>5. CASE u = t /\ Op(t) \in VectorOps
    <3>1. ~Untold(t) /\ (t \notin dangling => copies[t] = "live")
      BY <1>2, <2>1, <2>5 DEF Sound, CopyKept
    <3>2. t \notin dangling => copies'[t] = "freed"
      BY <1>5, <2>5, <3>1 DEF FreeCopy, IInv, TypeOK
    <3>3. Unused(t)'
      BY <1>3, <2>1, <2>5, <3>1 DEF Sound, Unused, Untold
    <3> QED BY <1>3, <1>8, <2>2, <2>5, <3>1, <3>2, <3>3 DEF Sound, CopyKept
  <2> QED BY <2>3, <2>4, <2>5
<1> QED BY <1>9, <1>10, <1>11 DEF IInv

\* What the invariant is about does not change.
LEMMA FramedKeeps ==
  ASSUME IInv, UNCHANGED <<ntasks, task_data, copies, flight, told, calling, dangling>>,
         closing' \in [Task -> Nat], shut' \in [Task -> {"http", "websocket", "raw", NULL}]
  PROVE  IInv'
<1>1. \A u \in Task : Sound(u)'
  BY DEF IInv, Sound, Unused, Uninterrupted, Lone, CopyKept, Untold, Calling, Op, Refused, Report
<1> QED BY <1>1 DEF IInv, TypeOK, Tables, Op

LEMMA InitSound == Init => IInv
<1> SUFFICES ASSUME Init PROVE IInv
  OBVIOUS
<1>1. ASSUME NEW t \in Task
      PROVE  Op(t) = NULL /\ t > 0 /\ Sound(t)
  <2>1. Op(t) = NULL /\ t > 0
    BY <1>1, LoansAssumption DEF Init, NoTask, TaskOf, Op, Task
  <2>2. Op(t) \notin VectorOps
    BY <2>1, NullAssumption
  <2> QED BY <2>1, <2>2 DEF Init, Sound, Unused, Lone, CopyKept, Untold, Calling
<1>2. TypeOK
  BY <1>1, LoansAssumption DEF Init, TypeOK, Ops
<1>3. Tables
  BY DEF Init, Tables, NoTask, TaskOf, Op
<1> QED BY <1>1, <1>2, <1>3 DEF IInv

LEMMA NextKeeps == IInv /\ [Next]_vars => IInv'
<1> SUFFICES ASSUME IInv, [Next]_vars PROVE IInv'
  OBVIOUS
<1>1. CASE \E op \in BufferOps \cup VectorOps : Begin(op)
  BY <1>1, BeginKeeps
<1>2. CASE \E op \in CloseOps : BeginClose(op)
  BY <1>2, BeginCloseKeeps
<1>3. CASE \E t \in Task : Completion(t) \/ WriteInterrupted(t) \/ Interrupted(t)
  BY <1>3, CompletionHandled, HandledKeeps
<1>4. CASE AfterCallback
  BY <1>4, AfterCallbackKeeps
<1>5. CASE \E t \in Task : Closed(t)
  <2>1. PICK t \in Task : Closed(t)
    BY <1>5
  <2>2. closing' \in [Task -> Nat]
    BY <2>1, ClosingIsTyped DEF Closed
  <2>3. shut' \in [Task -> {"http", "websocket", "raw", NULL}]
    BY <2>1 DEF Closed, CloseKind, IInv, TypeOK
  <2> QED BY <2>1, <2>2, <2>3, FramedKeeps DEF Closed, loans
<1>6. CASE UNCHANGED vars
  BY <1>6, FramedKeeps DEF vars, IInv, TypeOK
<1> QED BY <1>1, <1>2, <1>3, <1>4, <1>5, <1>6 DEF Next

LEMMA InvariantHolds == Spec => []IInv
BY InitSound, NextKeeps, PTL DEF Spec

-----------------------------------------------------------------------------
(* What is transferred.                                                    *)

\* A loan in which what has been transferred is from the beginning, and the operation in
\* flight is on what is left.
Lending(t) == Op(t) \in BufferOps \cup VectorOps /\ Uninterrupted(t)

First(n) == [k \in 1..n |-> k]
AfterFirst(n, m) == [k \in 1..(m - n) |-> n + k]

\* vecs are what is left of lent after n bytes.
IsLeft(vecs, lent, n) ==
  /\ n \in 0..Total(lent)
  /\ Total(vecs) = Total(lent) - n /\ Bytes(vecs) = AfterFirst(n, Total(lent))

Resumes(t) ==
  /\ \E lens \in LoansFor(Op(t)) : task_data[t].lent = Laid(lens)
  /\ \E n \in 0..Length(t) : moved[t] = First(n)
  /\ \A vecs \in flight[t] :
       /\ moved[t] = First(task_data[t].progress)
       /\ IsLeft(vecs, task_data[t].lent, task_data[t].progress)

InSequence ==
  /\ moved = [t \in Task |-> moved[t]]
  /\ \A t \in Task :
       /\ t > ntasks => moved[t] = <<>>
       /\ flight[t] # {} => Op(t) \in BufferOps \cup VectorOps
       /\ Lending(t) => Resumes(t)

\* The loans of an operation are lengths, one of them for a buffer.
LEMMA LoansAreTyped ==
  ASSUME NEW op \in BufferOps \cup VectorOps, NEW lens \in LoansFor(op)
  PROVE  lens \in Seq(Nat) /\ (op \in BufferOps => Len(lens) = 1)
BY LoansAssumption DEF LoansFor

\* The whole of a loan is what is left at first.
LEMMA AllIsLeft ==
  ASSUME NEW vecs, InRow(vecs)
  PROVE  IsLeft(vecs, vecs, 0)
<1>1. Total(vecs) \in Nat
  BY VecsAreTyped, UptoRecursive DEF InRow, Total
<1>2. Bytes(vecs) = First(Total(vecs))
  BY BytesInRow DEF First
<1>3. First(Total(vecs)) = AfterFirst(0, Total(vecs))
  <2>1. \A k \in 1..Total(vecs) : 0 + k = k
    BY <1>1
  <2>2. Total(vecs) - 0 = Total(vecs)
    BY <1>1
  <2> QED BY <2>1, <2>2 DEF First, AfterFirst
<1> QED BY <1>1, <1>2, <1>3 DEF IsLeft

\* vector_ops_progress leaves what is left.
LEMMA ProgressIsLeft ==
  ASSUME NEW vecs, InRow(vecs), NEW total \in Nat, total < Total(vecs)
  PROVE  IsLeft(AfterProgress(vecs, total), vecs, total)
<1>1. Total(vecs) \in Nat
  BY VecsAreTyped, UptoRecursive DEF InRow, Total
<1> QED BY <1>1, ProgressResumes DEF IsLeft, AfterFirst

\* The remainder of a single block is what vector_ops_progress would make of it.
LEMMA RemainderIsLeft ==
  ASSUME NEW vecs, InRow(vecs), Len(vecs) = 1, NEW total \in Nat, total < Total(vecs)
  PROVE  IsLeft(<<Advanced(vecs[1], total)>>, vecs, total)
<1>1. vecs \in Vecs /\ DOMAIN vecs = 1..1 /\ Upto(vecs, 0) = 0
  BY VecsAreTyped, UptoRecursive DEF InRow
<1>2. WholeBlocks(vecs, total) = 0
  <2>1. WholeBlocks(vecs, total) \in 0..(Len(vecs) - 1)
    BY <1>1, WholeBlocksEnd
  <2> QED BY <2>1
<1>3. AfterProgress(vecs, total) = [j \in 1..1 |-> Advanced(vecs[1], total)]
  <2>1. \A j \in 1..1 : j = 1 /\ ~(j + 0 > 1) /\ 1 + 0 = 1 /\ total - 0 = total
    OBVIOUS
  <2> QED BY <1>1, <1>2, <2>1 DEF AfterProgress
<1>4. AfterProgress(vecs, total) = <<Advanced(vecs[1], total)>>
  <2> DEFINE a == Advanced(vecs[1], total)
  <2> HIDE DEF a
  <2>1. [j \in 1..1 |-> a] = <<a>>
    OBVIOUS
  <2> QED BY <1>3, <2>1 DEF a
<1> QED BY <1>4, ProgressIsLeft

\* What comes after the first p bytes makes them the first p + n.
LEMMA FirstGrows ==
  ASSUME NEW p \in Nat, NEW m \in Nat, p <= m, NEW n \in 0..(m - p)
  PROVE  First(p) \o SubSeq(AfterFirst(p, m), 1, n) = First(p + n)
<1>1. First(p) \in Seq(Nat) /\ Len(First(p)) = p
  BY DEF First
<1>2. AfterFirst(p, m) \in Seq(Nat) /\ Len(AfterFirst(p, m)) = m - p
  BY DEF AfterFirst
<1> DEFINE s == SubSeq(AfterFirst(p, m), 1, n)
<1>3. s \in Seq(Nat) /\ Len(s) = n /\ \A k \in 1..n : s[k] = p + k
  BY <1>2 DEF AfterFirst
<1>4. First(p) \o s = [k \in 1..(p + n) |-> IF k <= p THEN First(p)[k] ELSE s[k - p]]
  <2> HIDE DEF s
  <2> DEFINE f == First(p)
  <2>0. f \in Seq(Nat) /\ Len(f) = p
    BY <1>1
  <2> HIDE DEF f
  <2>1. f \o s \in Seq(Nat) /\ Len(f \o s) = p + n
    BY <2>0, <1>3
  <2>2. \A k \in 1..(p + n) : (f \o s)[k] = IF k <= p THEN f[k] ELSE s[k - p]
    BY <2>0, <1>3, ConcatProperties
  <2>3. f \o s = [k \in 1..(p + n) |-> (f \o s)[k]]
    <3> DEFINE q == f \o s
    <3> HIDE DEF q
    <3>1. q \in Seq(Nat) /\ Len(q) = p + n
      BY <2>1 DEF q
    <3>2. q = [k \in 1..(p + n) |-> q[k]]
      BY <3>1
    <3> QED BY <3>2 DEF q
  <2> QED BY <2>2, <2>3 DEF f
<1>5. \A k \in 1..(p + n) : (IF k <= p THEN First(p)[k] ELSE s[k - p]) = k
  <2> TAKE k \in 1..(p + n)
  <2>1. CASE k <= p
    BY <2>1 DEF First
  <2>2. CASE ~(k <= p)
    <3>1. k - p \in 1..n /\ p + (k - p) = k
      BY <2>2
    <3> HIDE DEF s
    <3> QED BY <1>3, <2>2, <3>1
  <2> QED BY <2>1, <2>2
<1> HIDE DEF s
<1>6. First(p) \o s = First(p + n)
  BY <1>4, <1>5 DEF First
<1> QED BY <1>6 DEF s

Understands(t, r, n) == (r.failed /\ Op(t) \in VectorOps) \/ r.bytes = n

\* t goes on from where it is, or is reported there.
Advances(t) ==
  \E n \in 0..Length(t) :
    /\ \E p \in 0..n : moved[t] = First(p)
    /\ moved'[t] = First(n)
    /\ \A vecs \in flight'[t] :
         task_data'[t].progress = n /\ IsLeft(vecs, task_data[t].lent, n)
    /\ told'[t] = <<>> \/ \E r : told'[t] = <<r>> /\ r # Refused /\ Understands(t, r, n)

\* The tasks but t stay as they are.
OnlyOf(t) ==
  /\ ntasks' = ntasks
  /\ moved' = [u \in Task |-> moved'[u]]
  /\ \A u \in Task : Op(u)' = Op(u) /\ task_data'[u].lent = task_data[u].lent
  /\ \A u \in Task : u # t =>
       /\ task_data'[u] = task_data[u] /\ flight'[u] = flight[u]
       /\ moved'[u] = moved[u] /\ told'[u] = told[u]

\* The operation of t that completes.
Left(t, vecs, p) ==
  /\ p = task_data[t].progress /\ moved[t] = First(p)
  /\ IsLeft(vecs, task_data[t].lent, p) /\ Length(t) \in Nat
  /\ told[t] = <<>> /\ flight[t] = {vecs}
  /\ \E lens \in LoansFor(Op(t)) : task_data[t].lent = Laid(lens)

\* The length of a loan is a number, and its blocks are in a row.
LEMMA LengthIsTyped ==
  ASSUME NEW t, Lending(t), \E lens \in LoansFor(Op(t)) : task_data[t].lent = Laid(lens)
  PROVE  /\ InRow(task_data[t].lent) /\ Length(t) \in Nat
         /\ Op(t) \in BufferOps => Len(task_data[t].lent) = 1
<1>1. PICK lens \in LoansFor(Op(t)) : task_data[t].lent = Laid(lens)
  OBVIOUS
<1>2. lens \in Seq(Nat) /\ (Op(t) \in BufferOps => Len(lens) = 1)
  BY LoansAreTyped DEF Lending
<1>3. InRow(Laid(lens))
  BY <1>2, LaidInRow
<1>4. Total(Laid(lens)) \in Nat
  BY <1>3, VecsAreTyped, UptoRecursive DEF InRow, Total
<1>5. DOMAIN Laid(lens) = 1..Len(lens) /\ Len(lens) \in Nat
  BY <1>2 DEF Laid
<1>6. Len(Laid(lens)) = Len(lens)
  <2>1. DOMAIN Laid(lens) = 1..Len(Laid(lens)) /\ Len(Laid(lens)) \in Nat
    BY <1>3, VecsAreTyped DEF InRow
  <2>2. \A a, b \in Nat : 1..a = 1..b => a = b
    <3> TAKE a, b \in Nat
    <3> HAVE 1..a = 1..b
    <3>1. a > b => a \in 1..a /\ a \notin 1..b
      OBVIOUS
    <3>2. b > a => b \in 1..b /\ b \notin 1..a
      OBVIOUS
    <3> QED BY <3>1, <3>2
  <2> QED BY <1>5, <2>1, <2>2
<1> QED BY <1>1, <1>2, <1>3, <1>4, <1>6 DEF Length

\* What completes is what was left.
LEMMA LeftOf ==
  ASSUME IInv, InSequence, NEW t \in Task, Lending(t), NEW vecs, Completes(t, vecs)
  PROVE  Left(t, vecs, task_data[t].progress)
<1>1. Resumes(t) /\ vecs \in flight[t]
  BY DEF InSequence, Completes
<1>2. flight[t] = {vecs} /\ told[t] = <<>>
  BY CompletesAlone DEF Lending
<1>3. Length(t) \in Nat
  BY <1>1, LengthIsTyped DEF Resumes
<1> QED BY <1>1, <1>2, <1>3 DEF Resumes, Left

\* An operation transfers at most what is asked for.
LEMMA ResultsInRange ==
  ASSUME NEW t, NEW vecs, Total(vecs) \in Nat, NEW n \in Results(t, vecs)
  PROVE  n \in 0..Total(vecs)
BY DEF Results

\* What it transfers makes the first p bytes the first p + n.
LEMMA MovesOn ==
  ASSUME InSequence, NEW t \in Task, NEW vecs, NEW p, Left(t, vecs, p),
         NEW n \in Results(t, vecs), Moves(t, vecs, n)
  PROVE  moved'[t] = First(p + n) /\ p \in 0..(p + n) /\ p + n \in 0..Length(t)
<1>1. /\ p \in 0..Length(t) /\ Total(vecs) = Length(t) - p /\ Length(t) \in Nat
      /\ Bytes(vecs) = AfterFirst(p, Length(t)) /\ moved[t] = First(p)
  BY DEF Left, IsLeft, Length
<1>2. n \in 0..(Length(t) - p)
  <2>1. Total(vecs) \in Nat
    BY <1>1
  <2> QED BY <1>1, <2>1, ResultsInRange
<1>3. moved'[t] = moved[t] \o SubSeq(Bytes(vecs), 1, n)
  BY DEF Moves, InSequence
<1>4. moved'[t] = First(p + n)
  <2>1. p \in Nat /\ p <= Length(t)
    BY <1>1
  <2>2. First(p) \o SubSeq(AfterFirst(p, Length(t)), 1, n) = First(p + n)
    BY <1>1, <1>2, <2>1, FirstGrows
  <2> QED BY <1>1, <1>3, <2>2
<1> QED BY <1>1, <1>2, <1>4

\* Nothing but what is submitted now is in flight.
LEMMA FlightReplaced ==
  ASSUME IInv, NEW t \in Task, NEW vecs, NEW p, Left(t, vecs, p), NEW ops,
         flight' = Replaced(t, vecs, ops)
  PROVE  flight'[t] = ops
BY DEF Replaced, Left, IInv, Tables

\* What is left after m bytes is submitted, or cannot be.
LEMMA GoingOnAdvances ==
  ASSUME IInv, InSequence, NEW t \in Task, NEW vecs, NEW p, Left(t, vecs, p),
         NEW rest, NEW m \in 0..Length(t), p \in 0..m, moved'[t] = First(m),
         NEW ops, ops \subseteq {rest}, flight' = Replaced(t, vecs, ops), NoCall,
         ops = {} \/ (task_data'[t].progress = m /\ IsLeft(rest, task_data[t].lent, m))
  PROVE  Advances(t)
<1>1. flight'[t] = ops
  BY FlightReplaced
<1>2. told'[t] = <<>> /\ moved[t] = First(p)
  BY DEF NoCall, Left
<1> QED BY <1>1, <1>2 DEF Advances

\* It is reported that m bytes were transferred, or that it failed.
LEMMA ReportAdvances ==
  ASSUME IInv, InSequence, NEW t \in Task, NEW vecs, NEW p, Left(t, vecs, p),
         NEW m \in 0..Length(t), p \in 0..m, moved'[t] = First(m),
         flight' = Replaced(t, vecs, {}), NEW r, NEW closes, Tell(t, r, closes),
         r # Refused, Understands(t, r, m)
  PROVE  Advances(t)
<1>1. flight'[t] = {}
  BY FlightReplaced
<1>2. told'[t] = <<r>>
  BY TellReports DEF Left
<1>3. moved[t] = First(p)
  BY DEF Left
<1> QED BY <1>1, <1>2, <1>3 DEF Advances

\* The completions that transfer something.
LEMMA BufferMovesAdvances ==
  ASSUME IInv, InSequence, NEW t \in Task, Lending(t), BufferMoves(t)
  PROVE  Advances(t)
<1>1. PICK vecs, n :
        /\ n \in Results(t, vecs) /\ Completes(t, vecs) /\ Moves(t, vecs, n)
        /\ ContinueBuffer(t, vecs, task_data[t].progress + n, {})
  BY DEF BufferMoves
<1> DEFINE p == task_data[t].progress
           m == p + n
<1>2. Left(t, vecs, p)
  BY <1>1, LeftOf
<1>3. moved'[t] = First(m) /\ p \in 0..m /\ m \in 0..Length(t)
  BY <1>1, <1>2, MovesOn
<1>4. CASE /\ m < Length(t) /\ NoCall
           /\ task_data' = [task_data EXCEPT ![t].progress = m]
           /\ \E ops \in Submissions(Remainder(t, m), "resubmit") :
                flight' = Replaced(t, vecs, ops \cup {})
  <2>1. PICK ops : ops \subseteq {Remainder(t, m)} /\ flight' = Replaced(t, vecs, ops)
    <3>1. PICK ops \in Submissions(Remainder(t, m), "resubmit") :
            flight' = Replaced(t, vecs, ops \cup {})
      BY <1>4
    <3>2. ops \cup {} = ops
      OBVIOUS
    <3> QED BY <3>1, <3>2, SubmittedOnce
  <2>2. task_data'[t].progress = m
    BY <1>4 DEF IInv, Tables
  <2>3. IsLeft(Remainder(t, m), task_data[t].lent, m)
    <3>1. InRow(task_data[t].lent) /\ Len(task_data[t].lent) = 1
      <4>1. Op(t) \in BufferOps
        BY DEF BufferMoves
      <4> QED BY <1>2, <4>1, LengthIsTyped DEF Left
    <3>2. m \in Nat /\ m < Total(task_data[t].lent)
      BY <1>3, <1>4 DEF Length
    <3> HIDE DEF m
    <3> QED BY <3>1, <3>2, RemainderIsLeft DEF Remainder
  <2> HIDE DEF m, p
  <2> QED BY <1>2, <1>3, <1>4, <2>1, <2>2, <2>3, GoingOnAdvances
<1>5. CASE /\ m >= Length(t) /\ flight' = Replaced(t, vecs, {})
           /\ \E closes : Tell(t, Report(FALSE, 0, m), closes)
  <2>1. PICK closes : Tell(t, Report(FALSE, 0, m), closes)
    BY <1>5
  <2>2. Report(FALSE, 0, m) # Refused /\ Understands(t, Report(FALSE, 0, m), m)
    BY CallbackReports DEF Understands, Report
  <2> HIDE DEF m, p
  <2> QED BY <1>2, <1>3, <1>5, <2>1, <2>2, ReportAdvances
<1> QED BY <1>1, <1>4, <1>5 DEF ContinueBuffer

LEMMA VectorMovesAdvances ==
  ASSUME IInv, InSequence, NEW t \in Task, Lending(t), VectorMoves(t)
  PROVE  Advances(t)
<1>1. PICK vecs, n :
        LET total == task_data[t].progress + n
            rest == AfterProgress(task_data[t].lent, total)
        IN /\ n \in Results(t, vecs) /\ Completes(t, vecs) /\ Moves(t, vecs, n)
           /\ \/ /\ total < Length(t)
                 /\ task_data' = [task_data EXCEPT ![t].progress = total]
                 /\ \E ops \in Submissions(rest, "resubmit") :
                      flight' = Replaced(t, vecs, ops)
                 /\ NoCall
              \/ /\ total >= Length(t)
                 /\ flight' = Replaced(t, vecs, {})
                 /\ Tell(t, Report(FALSE, 0, Length(t)),
                         IF Op(t) = "WEBSOCKET_WRITEV" THEN 0 ELSE 1)
  BY DEF VectorMoves
<1> DEFINE p == task_data[t].progress
           m == p + n
           rest == AfterProgress(task_data[t].lent, m)
<1>2. Left(t, vecs, p)
  BY <1>1, LeftOf
<1>3. moved'[t] = First(m) /\ p \in 0..m /\ m \in 0..Length(t) /\ Length(t) \in Nat
  BY <1>1, <1>2, MovesOn DEF Left
<1>4. CASE /\ m < Length(t) /\ NoCall
           /\ task_data' = [task_data EXCEPT ![t].progress = m]
           /\ \E ops \in Submissions(rest, "resubmit") : flight' = Replaced(t, vecs, ops)
  <2>1. PICK ops : ops \subseteq {rest} /\ flight' = Replaced(t, vecs, ops)
    BY <1>4, SubmittedOnce
  <2>2. task_data'[t].progress = m
    BY <1>4 DEF IInv, Tables
  <2>3. IsLeft(rest, task_data[t].lent, m)
    <3>1. InRow(task_data[t].lent)
      BY <1>2, LengthIsTyped DEF Left
    <3>2. m \in Nat /\ m < Total(task_data[t].lent)
      BY <1>3, <1>4 DEF Length
    <3> HIDE DEF m
    <3> QED BY <3>1, <3>2, ProgressIsLeft
  <2> HIDE DEF m, p, rest
  <2> QED BY <1>2, <1>3, <1>4, <2>1, <2>2, <2>3, GoingOnAdvances
<1>5. CASE /\ m >= Length(t) /\ flight' = Replaced(t, vecs, {})
           /\ \E closes : Tell(t, Report(FALSE, 0, Length(t)), closes)
  <2>1. PICK closes : Tell(t, Report(FALSE, 0, Length(t)), closes)
    BY <1>5
  <2>2. m = Length(t)
    BY <1>3, <1>5
  <2>3. Report(FALSE, 0, m) # Refused /\ Understands(t, Report(FALSE, 0, m), m)
    BY CallbackReports DEF Understands, Report
  <2> HIDE DEF m, p
  <2> QED BY <1>2, <1>3, <1>5, <2>1, <2>2, <2>3, ReportAdvances
<1> QED BY <1>1, <1>4, <1>5

\* Nothing is transferred, and nothing or the same is submitted.
LEMMA StayingAdvances ==
  ASSUME IInv, InSequence, NEW t \in Task, Lending(t), NEW vecs, Completes(t, vecs),
         moved'[t] = moved[t], UNCHANGED task_data, NoCall, NEW ops,
         ops \subseteq {vecs}, flight' = Replaced(t, vecs, ops)
  PROVE  Advances(t)
<1> DEFINE p == task_data[t].progress
<1>1. Left(t, vecs, p)
  BY LeftOf
<1>2. p \in 0..Length(t) /\ p \in 0..p /\ moved'[t] = First(p)
  BY <1>1 DEF Left, IsLeft, Length
<1>3. task_data'[t].progress = p /\ IsLeft(vecs, task_data[t].lent, p)
  BY <1>1 DEF Left
<1> HIDE DEF p
<1> QED BY <1>1, <1>2, <1>3, GoingOnAdvances

\* Nothing is transferred, and the operation is reported to have failed.
LEMMA FailureAdvances ==
  ASSUME IInv, InSequence, NEW t \in Task, Lending(t), NEW vecs, Completes(t, vecs),
         UNCHANGED moved, flight' = Replaced(t, vecs, {}),
         NEW r, NEW closes, Tell(t, r, closes), r # Refused,
         Understands(t, r, task_data[t].progress)
  PROVE  Advances(t)
<1> DEFINE p == task_data[t].progress
<1>1. Left(t, vecs, p) /\ Understands(t, r, p)
  BY LeftOf
<1>2. p \in 0..Length(t) /\ p \in 0..p /\ moved'[t] = First(p)
  BY <1>1 DEF Left, IsLeft, Length
<1> HIDE DEF p
<1> QED BY <1>1, <1>2, ReportAdvances

\* However a loan completes, it goes on from where it is or is reported there.
LEMMA CompletionAdvances ==
  ASSUME IInv, InSequence, NEW t \in Task, Lending(t), Completion(t) \/ Interrupted(t)
  PROVE  Advances(t)
<1>1. CASE BufferMoves(t)
  BY <1>1, BufferMovesAdvances
<1>2. CASE VectorMoves(t)
  BY <1>2, VectorMovesAdvances
<1>3. CASE WriteFails(t)
  <2>1. PICK vecs, closes :
          /\ Completes(t, vecs) /\ flight' = Replaced(t, vecs, {})
          /\ Tell(t, Report(TRUE, 0, task_data[t].progress), closes)
    BY <1>3 DEF WriteFails
  <2>2. /\ Report(TRUE, 0, task_data[t].progress) # Refused
        /\ Understands(t, Report(TRUE, 0, task_data[t].progress), task_data[t].progress)
    BY CallbackReports DEF Understands, Report
  <2> QED BY <1>3, <2>1, <2>2, FailureAdvances DEF WriteFails
<1>4. CASE ReadEnds(t)
  <2>1. PICK vecs : /\ Completes(t, vecs) /\ flight' = Replaced(t, vecs, {})
                    /\ 0 \in Results(t, vecs) /\ Moves(t, vecs, 0)
    BY <1>4 DEF ReadEnds
  <2>2. moved'[t] = moved[t]
    <3>1. Left(t, vecs, task_data[t].progress)
      BY <2>1, LeftOf
    <3>2. moved'[t] = First(task_data[t].progress + 0)
      BY <2>1, <3>1, MovesOn
    <3>3. task_data[t].progress \in Int
      BY <3>1 DEF Left, IsLeft
    <3> QED BY <3>1, <3>2, <3>3 DEF Left
  <2> QED BY <1>4, <2>1, <2>2, StayingAdvances DEF ReadEnds
<1>5. CASE ReadFails(t)
  <2>1. PICK vecs, closes :
          /\ Completes(t, vecs) /\ flight' = Replaced(t, vecs, {})
          /\ Tell(t, Report(FALSE, vecs[1].base, task_data[t].progress), closes)
    BY <1>5 DEF ReadFails
  <2> DEFINE r == Report(FALSE, vecs[1].base, task_data[t].progress)
  <2>2. r # Refused /\ Understands(t, r, task_data[t].progress)
    BY CallbackReports DEF Understands, Report
  <2> HIDE DEF r
  <2>3. Tell(t, r, closes)
    BY <2>1 DEF r
  <2> QED BY <1>5, <2>1, <2>2, <2>3, FailureAdvances DEF ReadFails
<1>6. CASE VectorFails(t)
  <2>1. PICK vecs, closes :
          /\ Completes(t, vecs) /\ flight' = Replaced(t, vecs, {})
          /\ Tell(t, Report(TRUE, 0, 0), closes)
    BY <1>6 DEF VectorFails
  <2>2. /\ Report(TRUE, 0, 0) # Refused
        /\ Understands(t, Report(TRUE, 0, 0), task_data[t].progress)
    BY <1>6, CallbackReports DEF Understands, Report, VectorFails
  <2> QED BY <1>6, <2>1, <2>2, FailureAdvances DEF VectorFails
<1>7. CASE Interrupted(t)
  <2>1. PICK vecs, fault, ops :
          /\ Completes(t, vecs) /\ flight' = Replaced(t, vecs, ops)
          /\ ops \in Submissions(vecs, fault)
    BY <1>7 DEF Interrupted
  <2>2. ops \subseteq {vecs}
    BY <2>1, SubmittedOnce
  <2> QED BY <1>7, <2>1, <2>2, StayingAdvances DEF Interrupted
<1> QED BY <1>1, <1>2, <1>3, <1>4, <1>5, <1>6, <1>7 DEF Completion

\* A completion changes its own task only.
LEMMA CompletionIsOfOne ==
  ASSUME IInv, InSequence, NEW t \in Task,
         Completion(t) \/ WriteInterrupted(t) \/ Interrupted(t)
  PROVE  OnlyOf(t)
<1>1. Handled(t)
  BY CompletionHandled
<1>2. /\ ntasks' = ntasks
      /\ \A u \in Task : Op(u)' = Op(u) /\ task_data'[u].lent = task_data[u].lent
  BY <1>1 DEF Handled, OpsKept, Op
<1>3. \A u \in Task : u # t => flight'[u] = flight[u]
  BY <1>1, FlightOfOne DEF Handled, GoesOn, Reports
<1>4. \A u \in Task : u # t => told'[u] = told[u]
  BY <1>1, TellReports DEF Handled, GoesOn, Reports, NoCall
<1>5. /\ \/ UNCHANGED task_data
         \/ \E total : task_data' = [task_data EXCEPT ![t].progress = total]
      /\ UNCHANGED moved \/ \E s : moved' = [moved EXCEPT ![t] = s]
  <2>1. CASE BufferMoves(t)
    BY <2>1 DEF BufferMoves, ContinueBuffer, Moves
  <2>2. CASE WriteInterrupted(t)
    BY <2>2 DEF WriteInterrupted, ContinueBuffer
  <2>3. CASE VectorMoves(t)
    BY <2>3 DEF VectorMoves, Moves
  <2>4. CASE WriteFails(t) \/ ReadFails(t) \/ VectorFails(t) \/ Interrupted(t)
    BY <2>4 DEF WriteFails, ReadFails, VectorFails, Interrupted
  <2>5. CASE ReadEnds(t)
    BY <2>5 DEF ReadEnds, Moves
  <2> QED BY <2>1, <2>2, <2>3, <2>4, <2>5 DEF Completion
<1>6. \A u \in Task : u # t => task_data'[u] = task_data[u]
  <2>1. task_data = [u \in Task |-> task_data[u]]
    BY DEF IInv, Tables
  <2> QED BY <1>5, <2>1
<1>7. moved' = [u \in Task |-> moved'[u]] /\ \A u \in Task : u # t => moved'[u] = moved[u]
  BY <1>5 DEF InSequence
<1> QED BY <1>2, <1>3, <1>4, <1>6, <1>7 DEF OnlyOf

\* The steps keep the invariant, one after the other.
LEMMA CompletionKeepsOrder ==
  ASSUME IInv, InSequence, NEW t \in Task,
         Completion(t) \/ WriteInterrupted(t) \/ Interrupted(t)
  PROVE  InSequence'
<1>1. OnlyOf(t) /\ t \in 1..ntasks
  BY CompletionIsOfOne, CompletionHandled DEF Handled
<1>2. \A u \in Task : Lending(u)' = Lending(u) /\ Length(u)' = Length(u)
  BY <1>1 DEF OnlyOf, Lending, Uninterrupted, Length
<1>3. ~(t > ntasks)
  BY <1>1, LoansAssumption DEF IInv, TypeOK
<1>4. ASSUME NEW u \in Task, u # t
      PROVE  /\ (u > ntasks => moved[u] = <<>>)'
             /\ (flight[u] # {} => Op(u) \in BufferOps \cup VectorOps)'
             /\ (Lending(u) => Resumes(u))'
  <2>1. /\ u > ntasks => moved[u] = <<>>
        /\ flight[u] # {} => Op(u) \in BufferOps \cup VectorOps
        /\ Lending(u) => Resumes(u)
    BY DEF InSequence
  <2>2. /\ task_data'[u] = task_data[u] /\ flight'[u] = flight[u] /\ moved'[u] = moved[u]
        /\ Op(u)' = Op(u) /\ ntasks' = ntasks
    BY <1>1, <1>4 DEF OnlyOf
  <2> QED BY <1>2, <2>1, <2>2 DEF Resumes
<1>5. ASSUME Lending(t)
      PROVE  Resumes(t)'
  <2>1. ~ WriteInterrupted(t)
    BY <1>5 DEF WriteInterrupted, Lending, Uninterrupted
  <2>2. Advances(t)
    BY <1>5, <2>1, CompletionAdvances
  <2>3. PICK n \in 0..Length(t) :
          /\ moved'[t] = First(n)
          /\ \A vecs \in flight'[t] :
               task_data'[t].progress = n /\ IsLeft(vecs, task_data[t].lent, n)
    BY <2>2 DEF Advances
  <2>4. task_data'[t].lent = task_data[t].lent /\ Op(t)' = Op(t)
    BY <1>1 DEF OnlyOf
  <2>5. \E lens \in LoansFor(Op(t)) : task_data[t].lent = Laid(lens)
    BY <1>5 DEF InSequence, Resumes
  <2> QED BY <1>2, <2>3, <2>4, <2>5 DEF Resumes
<1>6. moved' = [u \in Task |-> moved'[u]]
  BY <1>1 DEF OnlyOf
<1>7. ntasks' = ntasks /\ Op(t)' = Op(t)
  BY <1>1 DEF OnlyOf
<1>8. Op(t) \in BufferOps \cup VectorOps
  BY FaultsAssumption
     DEF Completion, BufferMoves, WriteFails, ReadEnds, ReadFails, VectorMoves,
         VectorFails, WriteInterrupted, Interrupted, BufferOps
<1> QED BY <1>2, <1>3, <1>4, <1>5, <1>6, <1>7, <1>8 DEF InSequence

LEMMA BeginKeepsOrder ==
  ASSUME IInv, InSequence, NEW op \in BufferOps \cup VectorOps, Begin(op)
  PROVE  InSequence'
<1>1. PICK n \in Task :
        /\ n = NewTask /\ n > ntasks /\ ~(n > ntasks + 1)
        /\ \A u \in Task : u # n => (u > ntasks + 1 <=> u > ntasks)
  BY NewTaskIsFresh, LoansAssumption DEF Begin, NewTask, IInv, TypeOK
<1>2. PICK lens, ops :
        /\ lens \in LoansFor(op)
        /\ task_data' = [task_data EXCEPT ![n] = TaskOf(op, Laid(lens))]
        /\ ops \subseteq {Laid(lens)} /\ flight' = [flight EXCEPT ![n] = ops]
  BY <1>1, SubmittedOnce DEF Begin
<1>3. task_data'[n] = TaskOf(op, Laid(lens)) /\ flight'[n] = ops
  BY <1>1, <1>2 DEF IInv, Tables
<1>4. \A u \in Task : u # n => task_data'[u] = task_data[u] /\ flight'[u] = flight[u]
  BY <1>2 DEF IInv, Tables
<1>5. moved' = moved /\ moved[n] = <<>> /\ ntasks' = ntasks + 1
  BY <1>1 DEF InSequence, Begin
<1>6. Resumes(n)'
  <2>1. InRow(Laid(lens))
    BY <1>2, LoansAreTyped, LaidInRow
  <2>2. Op(n)' = op /\ task_data'[n].lent = Laid(lens) /\ task_data'[n].progress = 0
    BY <1>3 DEF TaskOf, Op
  <2>3. <<>> = First(0)
    BY DEF First
  <2>4. IsLeft(Laid(lens), Laid(lens), 0)
    BY <2>1, AllIsLeft
  <2>5. 0 \in 0..Length(n)'
    BY <2>2, <2>4 DEF IsLeft, Length
  <2> QED BY <1>2, <1>3, <1>5, <2>2, <2>3, <2>4, <2>5 DEF Resumes
<1>7. ASSUME NEW u \in Task, u # n
      PROVE  /\ (u > ntasks => moved[u] = <<>>)'
             /\ (flight[u] # {} => Op(u) \in BufferOps \cup VectorOps)'
             /\ (Lending(u) => Resumes(u))'
  <2>1. /\ u > ntasks => moved[u] = <<>>
        /\ flight[u] # {} => Op(u) \in BufferOps \cup VectorOps
        /\ Lending(u) => Resumes(u)
    BY DEF InSequence
  <2>2. task_data'[u] = task_data[u] /\ flight'[u] = flight[u]
    BY <1>4, <1>7
  <2>3. Op(u)' = Op(u) /\ Lending(u)' = Lending(u) /\ Length(u)' = Length(u)
    BY <2>2 DEF Op, Lending, Uninterrupted, Length
  <2> QED BY <1>1, <1>5, <1>7, <2>1, <2>2, <2>3 DEF Resumes
<1>8. moved' = [u \in Task |-> moved'[u]]
  BY <1>5 DEF InSequence
<1>9. Op(n)' \in BufferOps \cup VectorOps
  BY <1>3 DEF TaskOf, Op
<1> QED BY <1>1, <1>5, <1>6, <1>7, <1>8, <1>9 DEF InSequence

LEMMA BeginCloseKeepsOrder ==
  ASSUME IInv, InSequence, NEW op \in CloseOps, BeginClose(op)
  PROVE  InSequence'
<1>1. PICK n \in Task :
        /\ n = NewTask /\ n > ntasks /\ ~(n > ntasks + 1) /\ flight[n] = {}
        /\ \A u \in Task : u # n => (u > ntasks + 1 <=> u > ntasks)
  BY NewTaskIsFresh, LoansAssumption DEF BeginClose, NewTask, IInv, TypeOK
<1>2. /\ task_data' = [task_data EXCEPT ![n] = TaskOf(op, <<>>)]
      /\ UNCHANGED <<flight, moved>> /\ ntasks' = ntasks + 1
  BY <1>1 DEF BeginClose
<1>3. ~Lending(n)'
  <2>1. Op(n)' = op
    BY <1>1, <1>2 DEF IInv, Tables, TaskOf, Op
  <2> QED BY <2>1 DEF Lending, BufferOps, VectorOps, BufferWrites, VectorWrites,
                      VectorReads, CloseOps
<1>4. ASSUME NEW u \in Task, u # n
      PROVE  /\ (u > ntasks => moved[u] = <<>>)'
             /\ (flight[u] # {} => Op(u) \in BufferOps \cup VectorOps)'
             /\ (Lending(u) => Resumes(u))'
  <2>1. /\ u > ntasks => moved[u] = <<>>
        /\ flight[u] # {} => Op(u) \in BufferOps \cup VectorOps
        /\ Lending(u) => Resumes(u)
    BY DEF InSequence
  <2>2. task_data'[u] = task_data[u]
    BY <1>2, <1>4 DEF IInv, Tables
  <2>3. Op(u)' = Op(u) /\ Lending(u)' = Lending(u) /\ Length(u)' = Length(u)
    BY <2>2 DEF Op, Lending, Uninterrupted, Length
  <2> QED BY <1>1, <1>2, <1>4, <2>1, <2>2, <2>3 DEF Resumes
<1> QED BY <1>1, <1>2, <1>3, <1>4 DEF InSequence

LEMMA FramedKeepsOrder ==
  ASSUME InSequence, UNCHANGED <<ntasks, task_data, flight, moved>>
  PROVE  InSequence'
BY DEF InSequence, Lending, Uninterrupted, Resumes, Length, Op

LEMMA InitInSequence == Init => InSequence
<1> SUFFICES ASSUME Init PROVE InSequence
  OBVIOUS
<1>1. ASSUME NEW t \in Task PROVE ~Lending(t)
  BY NullAssumption DEF Init, NoTask, TaskOf, Op, Lending
<1> QED BY <1>1 DEF Init, InSequence

LEMMA NextKeepsOrder == IInv /\ InSequence /\ [Next]_vars => InSequence'
<1> SUFFICES ASSUME IInv, InSequence, [Next]_vars PROVE InSequence'
  OBVIOUS
<1>1. CASE \E op \in BufferOps \cup VectorOps : Begin(op)
  BY <1>1, BeginKeepsOrder
<1>2. CASE \E op \in CloseOps : BeginClose(op)
  BY <1>2, BeginCloseKeepsOrder
<1>3. CASE \E t \in Task : Completion(t) \/ WriteInterrupted(t) \/ Interrupted(t)
  BY <1>3, CompletionKeepsOrder
<1>4. CASE AfterCallback \/ (\E t \in Task : Closed(t)) \/ UNCHANGED vars
  BY <1>4, FramedKeepsOrder DEF AfterCallback, Closed, loans, vars
<1> QED BY <1>1, <1>2, <1>3, <1>4 DEF Next

LEMMA OrderHolds == Spec => []InSequence
BY InvariantHolds, InitInSequence, NextKeepsOrder, PTL DEF Spec

-----------------------------------------------------------------------------
(* Every step is a step of LentBuffers.                                    *)

\* A loan that is not touched is what it was for LentBuffers.
LEMMA SameLoan ==
  ASSUME NEW u \in Task, Op(u)' = Op(u), Length(u)' = Length(u), moved'[u] = moved[u],
         told'[u] = told[u]
  PROVE  LoanSize'[u] = LoanSize[u] /\ LoanMoved'[u] = LoanMoved[u]
         /\ LoanReport'[u] = LoanReport[u]
<1>1. Lent(u)' = Lent(u)
  BY DEF Lent, Uninterrupted, Refused, Report
<1>2. InOrder(u)' = InOrder(u) /\ Understood(u)' = Understood(u)
  BY DEF InOrder, Understood
<1> QED BY <1>1, <1>2 DEF LoanSize, LoanMoved, LoanReport

\* Nor is one that is not made, or is left out.
LEMMA NoLoan ==
  ASSUME NEW u \in Task, ~Lent(u), ~Lent(u)'
  PROVE  LoanSize'[u] = LoanSize[u] /\ LoanMoved'[u] = LoanMoved[u]
         /\ LoanReport'[u] = LoanReport[u]
BY DEF LoanSize, LoanMoved, LoanReport

\* First bytes are in order.
LEMMA InOrderFirst ==
  ASSUME NEW t, NEW n \in Nat, moved[t] = First(n)
  PROVE  InOrder(t) = n
<1>1. DOMAIN First(n) = 1..n /\ Len(First(n)) = n
  BY DEF First
<1> QED BY <1>1 DEF InOrder, First

\* The state of LentBuffers has an entry for each task.
LEMMA LoanTables ==
  /\ LoanSize = [u \in Task |-> LoanSize[u]] /\ LoanSize' = [u \in Task |-> LoanSize'[u]]
  /\ LoanMoved = [u \in Task |-> LoanMoved[u]]
  /\ LoanMoved' = [u \in Task |-> LoanMoved'[u]]
  /\ LoanReport = [u \in Task |-> LoanReport[u]]
  /\ LoanReport' = [u \in Task |-> LoanReport'[u]]
BY DEF LoanSize, LoanMoved, LoanReport

\* If no loan changes, LentBuffers does not move.
LEMMA StutterSteps ==
  ASSUME \A u \in Task : /\ LoanSize'[u] = LoanSize[u] /\ LoanMoved'[u] = LoanMoved[u]
                         /\ LoanReport'[u] = LoanReport[u]
  PROVE  UNCHANGED Abstract!vars
<1>1. LoanSize' = LoanSize /\ LoanMoved' = LoanMoved /\ LoanReport' = LoanReport
  BY LoanTables
<1> QED BY <1>1 DEF Abstract!vars

\* A completion of a loan is a step of Advance.
LEMMA CompletionRefines ==
  ASSUME IInv, InSequence, NEW t \in Task,
         Completion(t) \/ WriteInterrupted(t) \/ Interrupted(t)
  PROVE  [Abstract!Next]_(Abstract!vars)
<1>1. OnlyOf(t) /\ Handled(t)
  BY CompletionIsOfOne, CompletionHandled
<1>2. \A u \in Task : Op(u)' = Op(u) /\ Length(u)' = Length(u) /\ Lending(u)' = Lending(u)
  BY <1>1 DEF OnlyOf, Length, Lending, Uninterrupted
<1>3. \A u \in Task : u # t => /\ LoanSize'[u] = LoanSize[u] /\ LoanMoved'[u] = LoanMoved[u]
                               /\ LoanReport'[u] = LoanReport[u]
  BY <1>1, <1>2, SameLoan DEF OnlyOf
<1>4. CASE ~Lending(t)
  <2>1. ~Lent(t) /\ ~Lent(t)'
    BY <1>2, <1>4 DEF Lending, Lent
  <2> QED BY <1>3, <2>1, NoLoan, StutterSteps
<1>5. CASE Lending(t)
  <2>1. Advances(t)
    BY <1>5, CompletionAdvances DEF WriteInterrupted, Lending, Uninterrupted
  <2>2. PICK n \in 0..Length(t), p \in Nat :
          /\ p \in 0..n /\ moved[t] = First(p) /\ moved'[t] = First(n)
          /\ told'[t] = <<>> \/ \E r : told'[t] = <<r>> /\ r # Refused /\ Understands(t, r, n)
    BY <2>1 DEF Advances
  <2>3. told[t] = <<>> /\ Length(t) \in Nat
    <3>1. told[t] = <<>>
      BY <1>1, <1>5 DEF Handled, Lending
    <3>2. Resumes(t)
      BY <1>5 DEF InSequence
    <3> QED BY <1>5, <3>1, <3>2, LengthIsTyped DEF Resumes
  <2>4. Lent(t) /\ Lent(t)'
    <3>1. told[t] # <<Refused>> /\ told'[t] # <<Refused>>'
      BY <2>2, <2>3 DEF Refused, Report
    <3> QED BY <1>2, <1>5, <3>1 DEF Lent, Lending
  <2>5. LoanSize[t] = Length(t) /\ LoanMoved[t] = p /\ LoanReport[t] = NULL
    <3>1. InOrder(t) = p
      BY <2>2, InOrderFirst
    <3> QED BY <2>3, <2>4, <3>1 DEF LoanSize, LoanMoved, LoanReport
  <2>6. LoanSize'[t] = Length(t) /\ LoanMoved'[t] = n
    <3>1. InOrder(t)' = n
      <4>1. n \in Nat /\ moved'[t] = [k \in 1..n |-> k]
        BY <2>2 DEF First
      <4>2. DOMAIN moved'[t] = 1..n /\ Len(moved'[t]) = n
        BY <4>1
      <4> QED BY <4>1, <4>2 DEF InOrder
    <3> QED BY <1>2, <2>4, <3>1 DEF LoanSize, LoanMoved
  <2>7. LoanReport'[t] \in {NULL, n, -1}
    <3>1. CASE told'[t] = <<>>
      BY <3>1 DEF LoanReport
    <3>2. CASE \E r : told'[t] = <<r>> /\ Understands(t, r, n)
      <4>1. PICK r : told'[t] = <<r>> /\ Understands(t, r, n)
        BY <3>2
      <4>2. Len(told'[t]) = 1 /\ told'[t][1] = r /\ told'[t] # <<>>
        BY <4>1
      <4>3. Understood(t)' \in {n, -1}
        BY <1>2, <4>1, <4>2 DEF Understood, Understands
      <4> QED BY <2>4, <4>2, <4>3 DEF LoanReport
    <3> QED BY <2>2, <3>1, <3>2
  <2>8. Abstract!Advance(t)
    <3>1. LoanSize[t] # NULL /\ LoanReport[t] = NULL
      BY <2>3, <2>5, NullAssumption
    <3>2. n \in LoanMoved[t]..LoanSize[t]
      BY <2>2, <2>3, <2>5
    <3>3. LoanMoved' = [LoanMoved EXCEPT ![t] = n]
      BY <1>3, <2>6, LoanTables
    <3>4. LoanReport' = [LoanReport EXCEPT ![t] = LoanReport'[t]]
      BY <1>3, LoanTables
    <3>5. LoanSize' = LoanSize
      BY <1>3, <2>5, <2>6, LoanTables
    <3> QED BY <2>7, <3>1, <3>2, <3>3, <3>4, <3>5 DEF Abstract!Advance, Abstract!Failed
  <2> QED BY <2>8 DEF Abstract!Next
<1> QED BY <1>4, <1>5

\* A task beyond the table is no loan.
LEMMA UnusedIsNoLoan ==
  ASSUME IInv, NEW n \in Task, n > ntasks
  PROVE  ~Lent(n)
<1>1. Op(n) = NULL
  BY DEF IInv, TypeOK
<1> QED BY <1>1, NullAssumption DEF Lent

\* An operation that is submitted makes a loan; one that is refused, or may be
\* interrupted like a plain write, does not.
LEMMA BeginRefines ==
  ASSUME IInv, InSequence, NEW op \in BufferOps \cup VectorOps, Begin(op)
  PROVE  [Abstract!Next]_(Abstract!vars)
<1>1. PICK n \in Task : n = NewTask /\ n > ntasks /\ moved[n] = <<>>
  BY NewTaskIsFresh DEF Begin, InSequence
<1>2. PICK lens, ops :
        /\ lens \in LoansFor(op)
        /\ task_data' = [task_data EXCEPT ![n] = TaskOf(op, Laid(lens))]
        /\ told' = [told EXCEPT ![n] = IF ops = {} THEN <<Refused>> ELSE <<>>]
  BY <1>1 DEF Begin
<1>3. /\ task_data'[n] = TaskOf(op, Laid(lens))
      /\ told'[n] = IF ops = {} THEN <<Refused>> ELSE <<>>
      /\ \A u \in Task : u # n => task_data'[u] = task_data[u] /\ told'[u] = told[u]
  BY <1>2 DEF IInv, Tables
<1>4. moved' = moved
  BY DEF Begin
<1>5. \A u \in Task : u # n => /\ LoanSize'[u] = LoanSize[u] /\ LoanMoved'[u] = LoanMoved[u]
                               /\ LoanReport'[u] = LoanReport[u]
  <2>1. \A u \in Task : u # n => Op(u)' = Op(u) /\ Length(u)' = Length(u)
    BY <1>3 DEF Op, Length
  <2> QED BY <1>3, <1>4, <2>1, SameLoan
<1>6. ~Lent(n)
  BY <1>1, UnusedIsNoLoan
<1>7. CASE ~Lent(n)'
  BY <1>5, <1>6, <1>7, NoLoan, StutterSteps
<1>8. CASE Lent(n)'
  <2>1. told'[n] = <<>>
    BY <1>3, <1>8 DEF Lent, Refused, Report
  <2>2. Length(n)' \in Nat
    <3>1. InRow(Laid(lens))
      BY <1>2, LoansAreTyped, LaidInRow
    <3>2. Total(Laid(lens)) \in Nat
      BY <3>1, VecsAreTyped, UptoRecursive DEF InRow, Total
    <3> QED BY <1>3, <3>2 DEF TaskOf, Length
  <2>3. InOrder(n)' = 0
    <3>1. moved'[n] = <<>> /\ DOMAIN <<>> = 1..0 /\ Len(<<>>) = 0
      BY <1>1, <1>4
    <3>2. <<>> = [k \in 1..0 |-> k]
      OBVIOUS
    <3> QED BY <3>1, <3>2 DEF InOrder
  <2>4. LoanSize[n] = NULL /\ LoanMoved[n] = 0 /\ LoanReport[n] = NULL
    BY <1>6 DEF LoanSize, LoanMoved, LoanReport
  <2>5. LoanSize'[n] \in Nat /\ LoanMoved'[n] = 0 /\ LoanReport'[n] = NULL
    BY <1>8, <2>1, <2>2, <2>3 DEF LoanSize, LoanMoved, LoanReport
  <2>6. /\ LoanSize' = [LoanSize EXCEPT ![n] = LoanSize'[n]]
        /\ LoanMoved' = LoanMoved /\ LoanReport' = LoanReport
    BY <1>5, <2>4, <2>5, LoanTables
  <2>7. Abstract!Lend(n)
    BY <2>4, <2>5, <2>6 DEF Abstract!Lend
  <2> QED BY <2>7 DEF Abstract!Next
<1> QED BY <1>7, <1>8

\* Closes and everything else is nothing to LentBuffers.
LEMMA BeginCloseRefines ==
  ASSUME IInv, NEW op \in CloseOps, BeginClose(op)
  PROVE  UNCHANGED Abstract!vars
<1>1. PICK n \in Task : n = NewTask /\ n > ntasks
  BY NewTaskIsFresh DEF BeginClose
<1>2. /\ task_data' = [task_data EXCEPT ![n] = TaskOf(op, <<>>)]
      /\ UNCHANGED <<moved, told>>
  BY <1>1 DEF BeginClose
<1>3. ~Lent(n) /\ ~Lent(n)'
  <2>1. Op(n)' = op
    BY <1>1, <1>2 DEF IInv, Tables, TaskOf, Op
  <2>2. ~Lent(n)'
    BY <2>1 DEF Lent, BufferOps, VectorOps, BufferWrites, VectorWrites, VectorReads, CloseOps
  <2> QED BY <1>1, <2>2, UnusedIsNoLoan
<1>4. \A u \in Task : u # n => Op(u)' = Op(u) /\ Length(u)' = Length(u)
  <2>1. \A u \in Task : u # n => task_data'[u] = task_data[u]
    BY <1>2 DEF IInv, Tables
  <2> QED BY <2>1 DEF Op, Length
<1>5. \A u \in Task : /\ LoanSize'[u] = LoanSize[u] /\ LoanMoved'[u] = LoanMoved[u]
                      /\ LoanReport'[u] = LoanReport[u]
  BY <1>2, <1>3, <1>4, SameLoan, NoLoan
<1> QED BY <1>5, StutterSteps

LEMMA FramedRefines ==
  ASSUME UNCHANGED <<task_data, moved, told>>
  PROVE  UNCHANGED Abstract!vars
<1>1. \A u \in Task : /\ Op(u)' = Op(u) /\ Length(u)' = Length(u)
                      /\ moved'[u] = moved[u] /\ told'[u] = told[u]
  BY DEF Op, Length
<1> QED BY <1>1, SameLoan, StutterSteps

LEMMA InitRefines == Init => Abstract!Init
<1> SUFFICES ASSUME Init PROVE Abstract!Init
  OBVIOUS
<1>1. \A t \in Task : ~Lent(t)
  BY NullAssumption DEF Init, NoTask, TaskOf, Op, Lent
<1> QED BY <1>1 DEF Abstract!Init, LoanSize, LoanMoved, LoanReport

LEMMA NextRefines ==
  ASSUME IInv, InSequence, [Next]_vars
  PROVE  [Abstract!Next]_(Abstract!vars)
<1>1. CASE \E op \in BufferOps \cup VectorOps : Begin(op)
  BY <1>1, BeginRefines
<1>2. CASE \E op \in CloseOps : BeginClose(op)
  BY <1>2, BeginCloseRefines
<1>3. CASE \E t \in Task : Completion(t) \/ WriteInterrupted(t) \/ Interrupted(t)
  BY <1>3, CompletionRefines
<1>4. CASE AfterCallback \/ (\E t \in Task : Closed(t)) \/ UNCHANGED vars
  BY <1>4, FramedRefines DEF AfterCallback, Closed, loans, vars
<1> QED BY <1>1, <1>2, <1>3, <1>4 DEF Next

-----------------------------------------------------------------------------
(* The theorems.                                                           *)

\* The state is well typed, for any number of operations and any loans.
THEOREM TypeCorrect == Spec => []TypeOK
<1>1. IInv => TypeOK
  BY DEF IInv
<1> QED BY <1>1, InvariantHolds, PTL

\* Memory that the application got back is not used or reported any more, whatever is
\* short or fails: of all operations but plain writes that may be interrupted.
THEOREM MemoryComesBackOnce == Spec => []ReturnedIsUnused
<1>1. IInv => ReturnedIsUnused
  <2> SUFFICES ASSUME IInv, NEW t \in Task, Uninterrupted(t), told[t] # <<>>
               PROVE  flight[t] = {} /\ Len(told[t]) = 1
    BY DEF ReturnedIsUnused, IsUnused
  <2>1. flight[t] = {} /\ \E r : told[t] = <<r>>
    BY DEF IInv, Sound, Lone
  <2> QED BY <2>1
<1> QED BY <1>1, InvariantHolds, PTL

\* The server's copies of iovecs are freed once each, when the callback has returned,
\* except by a handler whose reference into task_data was left behind.
THEOREM CopiesAreFreed == Spec => []CopiesFreedOnce
<1>1. IInv => CopiesFreedOnce
  <2> SUFFICES ASSUME IInv PROVE CopiesFreedOnce
    OBVIOUS
  <2>1. \A t \in Task : CopyKept(t)
    BY DEF IInv, Sound
  <2> QED BY <2>1 DEF CopiesFreedOnce, CopyKept, Untold, Calling
<1> QED BY <1>1, InvariantHolds, PTL

\* What has been transferred and what is in flight make the loan from first to last,
\* wherever in its blocks an operation was short, and however many blocks there are.
THEOREM TransfersResume == Spec => []ResumesWhereItStopped
<1>1. IInv /\ InSequence => ResumesWhereItStopped
  <2> SUFFICES ASSUME IInv, InSequence, NEW t \in Task, Uninterrupted(t),
                      NEW vecs \in flight[t]
               PROVE  moved[t] \o Bytes(vecs) = Bytes(task_data[t].lent)
    BY DEF ResumesWhereItStopped
  <2>1. Lending(t)
    BY DEF InSequence, Lending
  <2> DEFINE p == task_data[t].progress
             m == Length(t)
  <2>2. Resumes(t)
    BY <2>1 DEF InSequence
  <2>3. /\ p \in 0..m /\ m \in Nat /\ moved[t] = First(p) /\ Bytes(vecs) = AfterFirst(p, m)
        /\ InRow(task_data[t].lent)
    BY <2>1, <2>2, LengthIsTyped DEF Resumes, IsLeft, Length
  <2>4. Bytes(task_data[t].lent) = First(m)
    BY <2>3, BytesInRow DEF First, Length
  <2> HIDE DEF p, m
  <2>5. First(p) \o SubSeq(AfterFirst(p, m), 1, m - p) = First(p + (m - p))
    <3>1. p \in Nat /\ p <= m /\ m - p \in 0..(m - p)
      BY <2>3
    <3> QED BY <2>3, <3>1, FirstGrows
  <2>6. SubSeq(AfterFirst(p, m), 1, m - p) = AfterFirst(p, m) /\ p + (m - p) = m
    <3>1. m - p \in Nat /\ p + (m - p) = m
      BY <2>3
    <3> QED BY <3>1 DEF AfterFirst
  <2> QED BY <2>3, <2>4, <2>5, <2>6
<1> QED BY <1>1, InvariantHolds, OrderHolds, PTL

\* Transfers implements LentBuffers: whatever is short, interrupted or fails, the bytes of
\* a loan are transferred once and in order, one report says truly how many there were,
\* and after it nothing of the loan is touched.
THEOREM TransfersKeepThePromise == Spec => ImplementsLentBuffers
<1>1. IInv /\ InSequence /\ [Next]_vars => [Abstract!Next]_(Abstract!vars)
  BY NextRefines
<1> QED BY <1>1, InitRefines, InvariantHolds, OrderHolds, PTL
        DEF Spec, ImplementsLentBuffers, Abstract!Spec
=============================================================================
