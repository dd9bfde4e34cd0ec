------------------------ MODULE TransfersRefinement ------------------------
(***************************************************************************)
(* Transfers implements LentBuffers: a loan is made when an operation is   *)
(* submitted, and the abstract report is what the application can make of  *)
(* the callback.  The failure of a raw_read shows only in its count.       *)
(* Plain writes that are interrupted are left out: they break the promise. *)
(***************************************************************************)
EXTENDS Transfers

Lent(t) ==
  Op(t) \in BufferOps \cup VectorOps /\ Uninterrupted(t) /\ told[t] # <<Refused>>

\* The bytes that have arrived in order, a number that no loan has if they have not.
InOrder(t) ==
  IF moved[t] = [k \in DOMAIN moved[t] |-> k] THEN Len(moved[t]) ELSE -1

\* A failed vector operation says nothing of how much was transferred.
Understood(t) ==
  IF Len(told[t]) > 1 THEN -2
  ELSE IF told[t][1].failed /\ Op(t) \in VectorOps THEN -1
  ELSE told[t][1].bytes

\* The state of LentBuffers.
LoanSize == [t \in Task |-> IF Lent(t) THEN Length(t) ELSE NULL]
LoanMoved == [t \in Task |-> IF Lent(t) THEN InOrder(t) ELSE 0]
LoanReport ==
  [t \in Task |-> IF Lent(t) /\ told[t] # <<>> THEN Understood(t) ELSE NULL]

Abstract ==
  INSTANCE LentBuffers WITH
    Loan <- Task, size <- LoanSize, moved <- LoanMoved, report <- LoanReport

\* An application that lends memory sees each byte of it transferred once and in
\* order, and gets one report, of exactly what was transferred, after which nothing
\* more is.
ImplementsLentBuffers == Abstract!Spec
=============================================================================
