--------------------------- MODULE MCHttpSendFile ---------------------------
(* Model-checking instances of HttpSendFile: two files, of two bytes and of  *)
(* none, and requests for the whole file, one range or two.                  *)
EXTENDS HttpSendFile, TLC

CONSTANTS page, empty

MCSize == [f \in Files |-> IF f = empty THEN 0 ELSE 2]

Whole == <<>>
OneRange == <<[start |-> 0, end |-> 1]>>
TwoRanges == <<[start |-> 0, end |-> 1], [start |-> 0, end |-> 1]>>

WholeOnly == {Whole}
WholeOrOne == {Whole, OneRange}
WholeOrMany == {Whole, OneRange, TwoRanges}

Symmetry == Permutations(Buffers) \cup Permutations(Clients)
=============================================================================
