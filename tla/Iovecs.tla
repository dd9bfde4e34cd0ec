------------------------------- MODULE Iovecs -------------------------------
(***************************************************************************)
(* Arrays of iovecs, and what vector_ops_progress makes of them when a     *)
(* readv or writev was short (src/callbacks/common.cpp).  An iovec is the  *)
(* position of its block in the lent memory and its length.                *)
(***************************************************************************)
EXTENDS Integers, Sequences, FiniteSetsExt

Iovec(base, len) == [base |-> base, len |-> len]

\* What memset leaves of an iovec.
Empty == Iovec(0, 0)

\* Per number of blocks of these lengths: the bytes in the first ones.
Sums(lens) ==
  LET sum[i \in 0..Len(lens)] == IF i = 0 THEN 0 ELSE sum[i - 1] + lens[i]
  IN sum

\* Bytes in the first i blocks.
Upto(vecs, i) == Sums([k \in DOMAIN vecs |-> vecs[k].len])[i]

\* full_write_size.
Total(vecs) == Upto(vecs, Len(vecs))

\* Blocks of these lengths, one after the other.
Laid(lens) == [i \in DOMAIN lens |-> Iovec(Sums(lens)[i - 1], lens[i])]

\* The first block that ends with byte k or after it.
BlockAt(vecs, k) == Min({i \in DOMAIN vecs : Upto(vecs, i) >= k})

\* The bytes of vecs, in the order in which they are read or written.
Bytes(vecs) ==
  [k \in 1..Total(vecs) |->
     LET i == BlockAt(vecs, k) IN vecs[i].base + (k - Upto(vecs, i - 1))]

Advanced(v, k) == Iovec(v.base + k, v.len - k)

\* The number of blocks that are complete after total bytes: the loop stops at the
\* first block that ends there or later.
WholeBlocks(vecs, total) ==
  LET i == BlockAt(vecs, total)
  IN IF Upto(vecs, i) = total THEN i ELSE i - 1

\* Mutant of AfterProgress: the first block is not advanced to the offset in it.
AfterProgressNoOffset(vecs, total) ==
  LET whole == WholeBlocks(vecs, total)
  IN [j \in DOMAIN vecs |-> IF j + whole > Len(vecs) THEN Empty ELSE vecs[j + whole]]

\* The copy that vector_ops_progress fills: the rest of the block that total falls
\* into, the blocks after it, and empty ones up to num_iovecs.
AfterProgress(vecs, total) ==
  LET whole == WholeBlocks(vecs, total)
  IN [j \in DOMAIN vecs |->
        IF j + whole > Len(vecs) THEN Empty
        ELSE IF j = 1 THEN Advanced(vecs[1 + whole], total - Upto(vecs, whole))
        ELSE vecs[j + whole]]
=============================================================================
