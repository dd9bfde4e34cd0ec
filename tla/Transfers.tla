------------------------------ MODULE Transfers ------------------------------
(***************************************************************************)
(* The reads and writes that an application starts on memory of its own:   *)
(* http_write, http_writev, websocket_write, websocket_writev and raw_*    *)
(* (src/http.cpp, websocket.cpp, raw_ops.cpp), and how their completions   *)
(* are continued, retried and reported (src/callbacks/write.cpp,           *)
(* writev.cpp, readv.cpp, common.cpp, read.cpp).                           *)
(*                                                                         *)
(* A completion's handler is one action up to the application's callback,  *)
(* in which the application may start further operations, and one after    *)
(* it.  Completions of different operations come in any order.  The pfd,   *)
(* which no handler looks into, is left out.                               *)
(***************************************************************************)
EXTENDS Iovecs

CONSTANTS
  MaxTasks,     \* bound on the size of task_data
  BufferLoans,  \* lengths of the buffers that are lent, as sequences of one
  VectorLoans,  \* lengths of the blocks of the iovec arrays that are lent
  Faults,       \* what may happen: "short", "eof", "error", "submit", "resubmit"
  Interruptible,\* operations whose system calls may be interrupted
  Errno,        \* an interrupted call has the result -Errno
  Word,         \* number of values of size_t
  MaxReports,   \* bound on the reports of an operation that is interrupted
  NULL

BufferWrites == {"HTTP_WRITE", "RAW_WRITE", "WEBSOCKET_WRITE"}
VectorWrites == {"HTTP_WRITEV", "WEBSOCKET_WRITEV"}

\* raw_writev submits a readv.
VectorReads == {"RAW_READV", "RAW_WRITEV"}

BufferOps == BufferWrites \cup {"RAW_READ"}
VectorOps == VectorWrites \cup VectorReads
CloseOps == {"HTTP_CLOSE", "RAW_CLOSE", "WEBSOCKET_CLOSE"}

ASSUME LoansAssumption ==
  /\ BufferLoans \cup VectorLoans \subseteq Seq(Nat)
  /\ \A lens \in BufferLoans : Len(lens) = 1
  /\ MaxTasks \in Nat
ASSUME FaultsAssumption ==
  /\ Faults \subseteq {"short", "eof", "error", "submit", "resubmit"}
  /\ Interruptible \subseteq BufferOps \cup VectorOps
ASSUME WordAssumption == 
  Errno \in Nat \ {0} /\ Word \in Nat /\ Errno < Word /\ MaxReports \in Nat
ASSUME NullAssumption ==
  /\ NULL \notin Int \cup BufferOps \cup VectorOps \cup CloseOps
  /\ NULL \notin [task : Nat, closes : Nat]

Task == 1..MaxTasks

VARIABLES
  ntasks,     \* task_data.size()
  task_data,  \* the task table
  copies,     \* per task: the state of the copy of its iovecs
  flight,     \* per task: the iovecs of its operations in flight
  moved,      \* per task: the bytes transferred, in order, as positions in the loan
  ended,      \* tasks whose stream is at its end
  told,       \* per task: the reports of the loan to the application
  calling,    \* the handler whose callback of the application is running
  dangling,   \* tasks whose handler's reference was left behind by task_data
  closing,    \* per task: its calls of close_pfd that have not completed
  shut        \* per task: the close callback that the application got

loans == <<task_data, flight, moved, ended, told>>
vars == <<ntasks, task_data, copies, flight, moved, ended, told, calling, dangling,
          closing, shut>>

-----------------------------------------------------------------------------
(* Tasks.                                                                  *)

\* The lent memory is task.buff; task.iovs is what is in flight.
TaskOf(op, lent) == [op_type |-> op, lent |-> lent, progress |-> 0]
NoTask == TaskOf(NULL, <<>>)

Op(t) == task_data[t].op_type
Length(t) == Total(task_data[t].lent)

\* Mutant of NewTask: the index after the last one.
BeyondTheEnd == ntasks + 2

NewTask == ntasks + 1
HasRoom == ntasks < MaxTasks

\* What is in flight after a submission: the iovecs, or nothing if it fails.
Submissions(vecs, fault) == IF fault \in Faults THEN {{vecs}, {}} ELSE {{vecs}}

\* get_task may move task_data, which leaves the reference of a running handler behind.
TableGrows ==
  dangling' \in IF calling = NULL THEN {dangling}
                ELSE {dangling, dangling \cup {calling.task}}

\* A report: whether failed_req is set, where the buffer it hands back starts, and
\* how many bytes it speaks of.  Refused is the negative result of the call itself.
Report(failed, at, bytes) == [failed |-> failed, at |-> at, bytes |-> bytes]
Refused == Report(TRUE, NULL, 0)

\* The handler calls the application, and will call close_pfd closes times.
Tell(t, report, closes) ==
  /\ told' = [told EXCEPT ![t] = Append(@, report)]
  /\ calling' = [task |-> t, closes |-> closes]

NoCall == UNCHANGED <<told, calling>>

-----------------------------------------------------------------------------
(* The application's calls, possibly from one of its callbacks.            *)

LoansFor(op) == IF op \in BufferOps THEN BufferLoans ELSE VectorLoans

\* get_task_buff_op or get_task_vector_op, and the submission.  When it fails the
\* application learns it from the result.
Begin(op) ==
  /\ HasRoom
  /\ ntasks' = ntasks + 1
  /\ \E lens \in LoansFor(op) :
       /\ task_data' = [task_data EXCEPT ![NewTask] = TaskOf(op, Laid(lens))]
       /\ \E ops \in Submissions(Laid(lens), "submit") :
            /\ flight' = [flight EXCEPT ![NewTask] = ops]
            /\ told' = [told EXCEPT ![NewTask] = IF ops = {} THEN <<Refused>> ELSE <<>>]
  /\ copies' = IF op \in VectorOps THEN [copies EXCEPT ![NewTask] = "live"] ELSE copies
  /\ TableGrows
  /\ UNCHANGED <<moved, ended, calling, closing, shut>>

\* http_close, raw_close, websocket_close.
BeginClose(op) ==
  /\ HasRoom
  /\ ntasks' = ntasks + 1
  /\ task_data' = [task_data EXCEPT ![NewTask] = TaskOf(op, <<>>)]
  /\ closing' = [closing EXCEPT ![NewTask] = 1]
  /\ TableGrows
  /\ UNCHANGED <<copies, flight, moved, ended, told, calling, shut>>

-----------------------------------------------------------------------------
(* Completions.                                                            *)

\* A handler starts: an operation of t on vecs completes.
Completes(t, vecs) == calling = NULL /\ vecs \in flight[t]

\* How many bytes an operation may transfer; none at the end of a stream.
Results(t, vecs) ==
  LET n == Total(vecs)
      some == IF n = 0 THEN {0} ELSE IF "short" \in Faults THEN 1..n ELSE {n}
      none == IF Op(t) \in VectorReads \cup {"RAW_READ"} /\ "eof" \in Faults
              THEN {0} ELSE {}
  IN IF t \in ended THEN {0} ELSE some \cup none

\* n bytes of vecs are transferred.
Moves(t, vecs, n) ==
  /\ moved' = [moved EXCEPT ![t] = @ \o SubSeq(Bytes(vecs), 1, n)]
  /\ ended' = IF n < Total(vecs) /\ n = 0 THEN ended \cup {t} ELSE ended

\* The operation on vecs is over, and the ones on new are submitted.
Replaced(t, vecs, new) == [flight EXCEPT ![t] = (@ \ {vecs}) \cup new]

\* Mutant of Remainder: the length is reduced, and the buffer not advanced.
RemainderFromStart(t, total) == <<Iovec(0, task_data[t].lent[1].len - total)>>

\* The part of a buffer after its first total bytes.
Remainder(t, total) == <<Advanced(task_data[t].lent[1], total)>>

\* The end of write_callback and the RAW_READ branch of read_callback, with the
\* new value of task.progress.
ContinueBuffer(t, vecs, total, still) ==
  \/ /\ total < Length(t)
     /\ task_data' = [task_data EXCEPT ![t].progress = total]
     /\ \E ops \in Submissions(Remainder(t, total), "resubmit") :
          flight' = Replaced(t, vecs, ops \cup still)
     /\ NoCall
  \/ /\ total >= Length(t)
     /\ flight' = Replaced(t, vecs, still)
     /\ Tell(t, Report(FALSE, 0, total), IF Op(t) = "HTTP_WRITE" THEN 1 ELSE 0)
     /\ UNCHANGED task_data

BufferMoves(t) ==
  /\ Op(t) \in BufferOps
  /\ \E vecs \in flight[t] :
       /\ Completes(t, vecs)
       /\ \E n \in Results(t, vecs) :
            /\ Op(t) = "RAW_READ" => n > 0
            /\ Moves(t, vecs, n)
            /\ ContinueBuffer(t, vecs, task_data[t].progress + n, {})
  /\ UNCHANGED <<ntasks, copies, dangling, closing, shut>>

\* write_callback: the write is submitted again, but the code below the switch runs
\* as well, with the negative result added to an unsigned number.
WriteInterrupted(t) ==
  /\ Op(t) \in BufferWrites \cap Interruptible /\ Len(told[t]) < MaxReports
  /\ \E vecs \in flight[t] :
       /\ Completes(t, vecs)
       /\ \E again \in Submissions(vecs, "resubmit") :
            ContinueBuffer(t, vecs, (task_data[t].progress - Errno) % Word, again)
  /\ UNCHANGED <<ntasks, copies, moved, ended, dangling, closing, shut>>

\* An HTTP_WRITE is closed twice, the others once.
WriteFails(t) ==
  /\ Op(t) \in BufferWrites /\ "error" \in Faults
  /\ \E vecs \in flight[t] :
       /\ Completes(t, vecs)
       /\ flight' = Replaced(t, vecs, {})
       /\ Tell(t, Report(TRUE, 0, task_data[t].progress),
               IF Op(t) = "HTTP_WRITE" THEN 2 ELSE 1)
  /\ UNCHANGED <<ntasks, task_data, copies, moved, ended, dangling, closing, shut>>

\* Mutant of ReadEnds: the pfd is left open.
ReadEndsOpen(t) ==
  /\ Op(t) = "RAW_READ"
  /\ \E vecs \in flight[t] :
       /\ Completes(t, vecs) /\ 0 \in Results(t, vecs)
       /\ Moves(t, vecs, 0)
       /\ flight' = Replaced(t, vecs, {})
  /\ NoCall
  /\ UNCHANGED <<ntasks, task_data, copies, dangling, closing, shut>>

\* A raw_read at the end of its stream: the pfd is closed, without a report.
ReadEnds(t) ==
  /\ Op(t) = "RAW_READ"
  /\ \E vecs \in flight[t] :
       /\ Completes(t, vecs) /\ 0 \in Results(t, vecs)
       /\ Moves(t, vecs, 0)
       /\ flight' = Replaced(t, vecs, {})
  /\ closing' = [closing EXCEPT ![t] = @ + 1]
  /\ NoCall
  /\ UNCHANGED <<ntasks, task_data, copies, dangling, shut>>

\* A raw_read fails, or is interrupted and cannot be submitted again: the report has
\* the buffer of the failed read, and not failed_req.
ReadFails(t) ==
  /\ Op(t) = "RAW_READ"
  /\ "error" \in Faults \/ (Op(t) \in Interruptible /\ "resubmit" \in Faults)
  /\ \E vecs \in flight[t] :
       /\ Completes(t, vecs)
       /\ flight' = Replaced(t, vecs, {})
       /\ Tell(t, Report(FALSE, vecs[1].base, task_data[t].progress), 1)
  /\ UNCHANGED <<ntasks, task_data, copies, moved, ended, dangling, closing, shut>>

\* writev_callback and readv_callback.  Only a WEBSOCKET_WRITEV leaves the pfd open.
VectorMoves(t) ==
  /\ Op(t) \in VectorOps
  /\ \E vecs \in flight[t] :
       /\ Completes(t, vecs)
       /\ \E n \in Results(t, vecs) :
            LET total == task_data[t].progress + n
                rest == AfterProgress(task_data[t].lent, total)
            IN /\ Moves(t, vecs, n)
               /\ \/ /\ total < Length(t)
                     /\ task_data' = [task_data EXCEPT ![t].progress = total]
                     /\ \E ops \in Submissions(rest, "resubmit") :
                          flight' = Replaced(t, vecs, ops)
                     /\ NoCall
                  \/ /\ total >= Length(t)
                     /\ flight' = Replaced(t, vecs, {})
                     /\ Tell(t, Report(FALSE, 0, Length(t)),
                             IF Op(t) = "WEBSOCKET_WRITEV" THEN 0 ELSE 1)
                     /\ UNCHANGED task_data
  /\ UNCHANGED <<ntasks, copies, dangling, closing, shut>>

VectorFails(t) ==
  /\ Op(t) \in VectorOps /\ "error" \in Faults
  /\ \E vecs \in flight[t] :
       /\ Completes(t, vecs)
       /\ flight' = Replaced(t, vecs, {})
       /\ Tell(t, Report(TRUE, 0, 0), 1)
  /\ UNCHANGED <<ntasks, task_data, copies, moved, ended, dangling, closing, shut>>

\* Mutant of Interrupted: the return after the switch is missing, as in write_callback.
InterruptedFallsThrough(t) ==
  /\ Op(t) \in Interruptible \ BufferWrites
  /\ \E vecs \in flight[t] :
       /\ Completes(t, vecs)
       /\ flight' = flight
       /\ Tell(t, Report(FALSE, 0, Length(t)), 1)
  /\ UNCHANGED <<ntasks, task_data, copies, moved, ended, dangling, closing, shut>>

\* An interrupted readv, writev or raw_read is submitted again as it was.
Interrupted(t) ==
  /\ Op(t) \in Interruptible \ BufferWrites
  /\ \E vecs \in flight[t] :
       /\ Completes(t, vecs)
       /\ \E ops \in Submissions(vecs, IF Op(t) = "RAW_READ" THEN "" ELSE "resubmit") :
            flight' = Replaced(t, vecs, ops)
  /\ NoCall
  /\ UNCHANGED <<ntasks, task_data, copies, moved, ended, dangling, closing, shut>>

\* Mutant of FreeCopy: the iovecs leak.
FreeCopyLeaks(t) == copies' = copies

\* FREE of the iovecs of t.  Through a reference that was left behind anything may
\* be freed, or nothing.
FreeCopy(t) ==
  copies' \in IF t \in dangling
              THEN {[copies EXCEPT ![t] = c] : c \in {"live", "freed", "broken"}}
              ELSE {[copies EXCEPT ![t] = IF @ = "live" THEN "freed" ELSE "broken"]}

\* The application's callback returns, and the handler does the rest.
AfterCallback ==
  /\ calling # NULL
  /\ LET t == calling.task
     IN /\ IF Op(t) \in VectorOps THEN FreeCopy(t) ELSE UNCHANGED copies
        /\ closing' = [closing EXCEPT ![t] = @ + calling.closes]
  /\ calling' = NULL
  /\ UNCHANGED <<ntasks, loans, dangling, shut>>

CloseKind(op) ==
  IF op \in {"HTTP_WRITE", "HTTP_WRITEV", "HTTP_CLOSE"} THEN "http"
  ELSE IF op \in {"WEBSOCKET_WRITE", "WEBSOCKET_WRITEV", "WEBSOCKET_CLOSE"}
       THEN "websocket"
  ELSE "raw"

\* close_callback.
Closed(t) ==
  /\ calling = NULL /\ closing[t] > 0
  /\ closing' = [closing EXCEPT ![t] = @ - 1]
  /\ shut' = [shut EXCEPT ![t] = CloseKind(Op(t))]
  /\ UNCHANGED <<ntasks, loans, copies, calling, dangling>>

-----------------------------------------------------------------------------
Init ==
  /\ ntasks = 0
  /\ task_data = [t \in Task |-> NoTask]
  /\ copies = [t \in Task |-> "none"]
  /\ flight = [t \in Task |-> {}]
  /\ moved = [t \in Task |-> <<>>]
  /\ ended = {}
  /\ told = [t \in Task |-> <<>>]
  /\ calling = NULL
  /\ dangling = {}
  /\ closing = [t \in Task |-> 0]
  /\ shut = [t \in Task |-> NULL]

\* The operation of t goes on, ends or fails.
Completion(t) ==
  \/ BufferMoves(t) \/ WriteFails(t) \/ ReadEnds(t) \/ ReadFails(t)
  \/ VectorMoves(t) \/ VectorFails(t)

Next ==
  \/ \E op \in BufferOps \cup VectorOps : Begin(op)
  \/ \E op \in CloseOps : BeginClose(op)
  \/ \E t \in Task : Completion(t) \/ WriteInterrupted(t) \/ Interrupted(t) \/ Closed(t)
  \/ AfterCallback

Spec == Init /\ [][Next]_vars

\* io_uring completes what was submitted, and does not interrupt it for ever; the
\* application's callbacks return.
FairSpec ==
  /\ Spec
  /\ \A t \in Task : WF_vars(Completion(t)) /\ WF_vars(Closed(t))
  /\ WF_vars(AfterCallback)
-----------------------------------------------------------------------------
(* Properties.                                                             *)

Ops == BufferOps \cup VectorOps \cup CloseOps \cup {NULL}

TypeOK ==
  /\ ntasks \in 0..MaxTasks
  /\ \A t \in Task : Op(t) \in Ops /\ (Op(t) = NULL <=> t > ntasks)
  /\ copies \in [Task -> {"none", "live", "freed", "broken"}]
  /\ dangling \subseteq 1..ntasks
  /\ calling = NULL \/ calling \in [task : 1..ntasks, closes : 0..2]
  /\ closing \in [Task -> Nat]
  /\ shut \in [Task -> {"http", "websocket", "raw", NULL}]

\* An operation that write_callback gives the negative result of an interruption is
\* excepted from what holds of all others.
Uninterrupted(t) == Op(t) \notin BufferWrites \cap Interruptible

\* Once the application has got memory back, by a report or because the call itself
\* failed, no operation on it is in flight, and it does not get it again: it may have
\* freed it in the callback.
IsUnused(t) == told[t] # <<>> => flight[t] = {} /\ Len(told[t]) = 1
ReturnedIsUnused == \A t \in Task : Uninterrupted(t) => IsUnused(t)

\* The same of every operation, the interrupted writes included.
AlwaysUnused == \A t \in Task : IsUnused(t)

\* Whatever was short or interrupted, and wherever in the blocks that was, what has been
\* transferred followed by what is still in flight is the loan from first to last.
ResumesWhereItStopped ==
  \A t \in Task : Uninterrupted(t) => \A vecs \in flight[t] :
    moved[t] \o Bytes(vecs) = Bytes(task_data[t].lent)

\* The copy of the iovecs is freed once when a vector operation has been reported,
\* unless the callback started operations that made task_data move: then the handler
\* frees what its old reference leads to.
CopiesFreedOnce ==
  \A t \in Task :
    /\ copies[t] = "broken" => t \in dangling
    /\ Op(t) \in VectorOps /\ told[t] # <<>> /\ told[t] # <<Refused>>
         /\ (calling = NULL \/ calling.task # t)
       => copies[t] = "freed" \/ t \in dangling

\* Every loan comes back, by a report or because its pfd is closed; but a readv at the
\* end of its stream reads 0 bytes again and again.
LoansEnd ==
  \A t \in Task :
    flight[t] # {} ~>
      told[t] # <<>> \/ shut[t] # NULL \/ (t \in ended /\ Op(t) \in VectorReads)
=============================================================================
