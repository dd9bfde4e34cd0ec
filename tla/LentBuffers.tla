----------------------------- MODULE LentBuffers -----------------------------
(***************************************************************************)
(* What network_server promises an application that lends it memory to     *)
(* read into or write from: the bytes are transferred from first to last,  *)
(* one report gives the memory back and tells the truth about how much was *)
(* transferred, and after it nothing of that memory is touched any more.   *)
(* Transfers implements this specification.                                *)
(***************************************************************************)
EXTENDS Integers

CONSTANTS Loan, NULL

VARIABLES
  size,   \* per loan: its length, NULL before it is made
  moved,  \* per loan: the bytes transferred so far
  report  \* per loan: the bytes reported, or Failed; NULL before

\* The report that something failed, which does not say how much was transferred.
Failed == -1

vars == <<size, moved, report>>

Lend(l) ==
  /\ size[l] = NULL
  /\ size'[l] \in Nat
  /\ size' = [size EXCEPT ![l] = size'[l]]
  /\ UNCHANGED <<moved, report>>

\* Some more bytes are transferred, and it may be reported how many there are now.
Advance(l) ==
  /\ size[l] # NULL /\ report[l] = NULL
  /\ \E n \in moved[l]..size[l] :
       /\ moved' = [moved EXCEPT ![l] = n]
       /\ \E r \in {NULL, n, Failed} : report' = [report EXCEPT ![l] = r]
  /\ UNCHANGED size

Init ==
  /\ size = [l \in Loan |-> NULL]
  /\ moved = [l \in Loan |-> 0]
  /\ report = [l \in Loan |-> NULL]

Next == \E l \in Loan : Lend(l) \/ Advance(l)

Spec == Init /\ [][Next]_vars
=============================================================================
