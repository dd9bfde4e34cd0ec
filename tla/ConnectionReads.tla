-------------------------- MODULE ConnectionReads --------------------------
(***************************************************************************)
(* Client connections of network_server from accept to close: the reads    *)
(* the server keeps submitting for them, what http_response_method makes   *)
(* of the bytes, and who frees the buffers read into (src/core.cpp,        *)
(* src/http.cpp, src/callbacks/accept.cpp, read.cpp, write.cpp, close.cpp).*)
(*                                                                         *)
(* One callback runs at a time, so each is one action, and completions     *)
(* come in any order.  event_manager is known only from how it is used:    *)
(* every submitted operation completes once, and every call of close_pfd   *)
(* is followed by one close_callback with the same task.  The pfd of a     *)
(* closed connection is not given to a new one.                            *)
(*                                                                         *)
(* Lengths are of type size_t, and the int that atoi makes of a            *)
(* Content-Length is converted to it.  What is written past the end of a   *)
(* buffer damages nothing that the server uses, or ends it some time.      *)
(***************************************************************************)
EXTENDS Integers

CONSTANTS
  Conn,        \* pfds of client connections
  MaxTasks,    \* bound on the size of task_data
  ReadSize,    \* READ_SIZE, in units of data
  HeaderSize,  \* length of a request's header with its empty line
  MaxBody,     \* bound on the Content-Length of a request
  NegBody,     \* how far below zero it may be
  MaxBurst,    \* bound on what one read of the rest of a body returns
  Word,        \* the number of values of size_t
  Faults,      \* what may go wrong: "submit", "accept", "error"
  NULL

ASSUME SizesAssumption ==
  /\ {MaxTasks, MaxBody, NegBody, MaxBurst} \subseteq Nat
  /\ ReadSize \in Nat \ {0} /\ HeaderSize \in Nat \ {0} /\ Word \in Nat
\* An int is narrower than size_t.
ASSUME WordAssumption == 2 * (HeaderSize + MaxBody) < Word /\ 2 * NegBody <= Word
ASSUME FaultsAssumption == Faults \subseteq {"submit", "accept", "error"}
ASSUME NullAssumption == NULL \notin Int /\ NULL \notin Conn

Task == 1..MaxTasks

VARIABLES
  alive,      \* the server has not ended with FATAL_ERROR
  sock,       \* per connection: "new", "open", "hungup" by the client or "closed"
  asked,      \* per connection: the application may still answer a request
  told,       \* per connection: http_close_callback has been called
  ntasks,     \* task_data.size()
  task_data,  \* the task table
  heap,       \* per task: the state of the buffer allocated for it
  overrun,    \* memory past the end of a buffer has been written
  pending,    \* tasks with an operation in flight
  closing,    \* per task: its calls of close_pfd that have not completed
  bare        \* connections with a close_pfd without a task in flight

tasks == <<ntasks, task_data>>
vars == <<alive, sock, asked, told, ntasks, task_data, heap, overrun, pending, closing, bare>>

-----------------------------------------------------------------------------
(* Tasks and buffers.                                                      *)

ReadOps == {"NETWORK_READ", "HTTP_POST_READ"}

\* The pfd is not part of the task but comes with each completion.
TaskOf(op, c, length, progress) ==
  [op_type |-> op, pfd |-> c, buff_length |-> length, progress |-> progress]

NoTask == TaskOf(NULL, NULL, 0, 0)

\* Mutant of NewTask: the index after the last one.
BeyondTheEnd == ntasks + 2

\* get_task: task_data.emplace_back(); free_task keeps all tasks.
NewTask == ntasks + 1
HasRoom == ntasks < MaxTasks

\* task_data with new as the new task.
Appended(new) == [task_data EXCEPT ![NewTask] = new]

Reads == {t \in pending : task_data[t].op_type \in ReadOps}

\* FREE of task t's buffer.
Freed(t) == [heap EXCEPT ![t] = IF @ = "live" THEN "freed" ELSE "broken"]

\* The tasks of ts whose operations are now in flight.
Submitted(ts) == IF "submit" \in Faults THEN SUBSET ts ELSE {ts}

ClosePfd(t, calls) == closing' = [closing EXCEPT ![t] = @ + calls]

-----------------------------------------------------------------------------
(* Requests, as http_response_method sees them.  content_length is what    *)
(* atoi makes of the header, or NULL when it is missing or has not arrived.*)

Requests ==
  [req_type : {"POST", "other"}, valid_req : BOOLEAN,
   content_length : {NULL} \cup (-NegBody)..MaxBody]

\* An int, or the difference of two lengths, as a size_t.
SizeT(n) == IF n < 0 THEN n + Word ELSE n

HasContent(size) == size >= HeaderSize

Announces(req) == req.req_type = "POST" /\ req.content_length # NULL

\* The body has just arrived completely.
FullBody(req, size) ==
  Announces(req) /\ HasContent(size) /\ size - HeaderSize = SizeT(req.content_length)

\* Some of the body is still to come.
PartialBody(req, size) ==
  Announces(req) /\ HasContent(size) /\ size - HeaderSize < SizeT(req.content_length)

\* large_buff_size: room for the header and the body.
LargeSize(req) == SizeT(HeaderSize + req.content_length)

\* Half of the addresses are more than any buffer has.
Unallocatable(size) == 2 * size >= Word

\* A POST without Content-Length, or with one but no body, or an invalid request.
Refused(req, size) ==
  \/ req.req_type = "POST" /\ ~Announces(req)
  \/ Announces(req) /\ ~HasContent(size) /\ req.content_length # 0
  \/ ~PartialBody(req, size) /\ ~req.valid_req

\* After a full body that is not of READ_SIZE a read of READ_SIZE is submitted.
BackToNormal(req, size) == FullBody(req, size) /\ size # ReadSize

\* The task for that read, if there is one.
Readers(req, size) == IF BackToNormal(req, size) THEN {NewTask} ELSE {}

SizeWith(readers) == IF readers = {} THEN ntasks ELSE ntasks + 1

WithReaders(c, readers) ==
  IF readers = {} THEN task_data
  ELSE Appended(TaskOf("NETWORK_READ", c, ReadSize, 0))

Allocated(h, readers) == [t \in Task |-> IF t \in readers THEN "live" ELSE h[t]]

-----------------------------------------------------------------------------
(* accept_callback.                                                        *)

\* If the first read cannot be submitted the connection is closed without a
\* task; if the next accept cannot, the server ends.
Accept(c) ==
  /\ alive /\ sock[c] = "new" /\ HasRoom
  /\ sock' = [sock EXCEPT ![c] = "open"]
  /\ ntasks' = ntasks + 1
  /\ task_data' = Appended(TaskOf("NETWORK_READ", c, ReadSize, 0))
  /\ \E ok \in Submitted({NewTask}) :
       /\ pending' = pending \cup ok
       /\ heap' = [heap EXCEPT ![NewTask] = IF ok = {} THEN "freed" ELSE "live"]
       /\ bare' = IF ok = {} THEN bare \cup {c} ELSE bare
  /\ alive' \in IF "submit" \in Faults THEN BOOLEAN ELSE {TRUE}
  /\ UNCHANGED <<asked, told, overrun, closing>>

\* The accept fails for good; interrupted ones are submitted again.
AcceptError ==
  /\ alive /\ "accept" \in Faults
  /\ alive' = FALSE
  /\ UNCHANGED <<sock, asked, told, tasks, heap, overrun, pending, closing, bare>>

-----------------------------------------------------------------------------
(* read_callback.                                                          *)

\* Data arrives for task t's read.
Arrives(t) == alive /\ t \in Reads /\ sock[task_data[t].pfd] = "open"

\* http_response_method reads on into a larger buffer, to which it copies what has
\* arrived so far; the caller frees the old one.  For a negative Content-Length the
\* buffer may be smaller than what is copied.
ReadOn(t, req, size) ==
  /\ PartialBody(req, size) /\ HasRoom /\ ~Unallocatable(LargeSize(req))
  /\ ntasks' = ntasks + 1
  /\ task_data' = Appended(TaskOf("HTTP_POST_READ", task_data[t].pfd, LargeSize(req), size))
  /\ heap' = [Freed(t) EXCEPT ![NewTask] = "live"]
  /\ overrun' = (overrun \/ LargeSize(req) < size)
  /\ \E ok \in Submitted({NewTask}) : pending' = (pending \ {t}) \cup ok
  /\ UNCHANGED <<alive, asked, closing>>

\* There is no memory for the larger buffer, which is not tested: the copy ends the
\* server.
ReadOnFails(t, req, size) ==
  /\ PartialBody(req, size) /\ Unallocatable(LargeSize(req))
  /\ alive' = FALSE
  /\ UNCHANGED <<asked, tasks, heap, overrun, pending, closing>>

\* Mutant of Serve: the buffer is freed although it is read into again.
ServeFrees(t, req, size) ==
  /\ ~PartialBody(req, size) /\ ~Refused(req, size)
  /\ BackToNormal(req, size) => HasRoom
  /\ LET c == task_data[t].pfd
         readers == Readers(req, size)
     IN /\ asked' = [asked EXCEPT ![c] = TRUE]
        /\ ntasks' = SizeWith(readers)
        /\ task_data' = [WithReaders(c, readers) EXCEPT
                           ![t].op_type = "NETWORK_READ", ![t].progress = 0]
        /\ heap' = [Allocated(heap, readers) EXCEPT ![t] = "freed"]
        /\ \E ok \in Submitted({t} \cup readers) : pending' = (pending \ {t}) \cup ok
  /\ UNCHANGED <<alive, overrun, closing>>

\* http_read_callback, then the same task reads again into the same buffer.
Serve(t, req, size) ==
  /\ ~PartialBody(req, size) /\ ~Refused(req, size)
  /\ BackToNormal(req, size) => HasRoom
  /\ LET c == task_data[t].pfd
         readers == Readers(req, size)
     IN /\ asked' = [asked EXCEPT ![c] = TRUE]
        /\ ntasks' = SizeWith(readers)
        /\ task_data' = [WithReaders(c, readers) EXCEPT
                           ![t].op_type = "NETWORK_READ", ![t].progress = 0]
        /\ heap' = Allocated(heap, readers)
        /\ \E ok \in Submitted({t} \cup readers) : pending' = (pending \ {t}) \cup ok
  /\ UNCHANGED <<alive, overrun, closing>>

\* Mutant of Refuse: as if network_read_procedure did not close the connection.
RefuseStaysOpen(t, req, size) ==
  /\ Refused(req, size)
  /\ BackToNormal(req, size) => HasRoom
  /\ LET readers == Readers(req, size)
     IN /\ ntasks' = SizeWith(readers)
        /\ task_data' = WithReaders(task_data[t].pfd, readers)
        /\ heap' = Allocated(Freed(t), readers)
        /\ \E ok \in Submitted(readers) : pending' = (pending \ {t}) \cup ok
  /\ UNCHANGED <<alive, asked, overrun, closing>>

\* Neither HTTP nor websocket: close_pfd, and the buffer is freed.
Refuse(t, req, size) ==
  /\ Refused(req, size)
  /\ BackToNormal(req, size) => HasRoom
  /\ LET readers == Readers(req, size)
     IN /\ ntasks' = SizeWith(readers)
        /\ task_data' = WithReaders(task_data[t].pfd, readers)
        /\ heap' = Allocated(Freed(t), readers)
        /\ \E ok \in Submitted(readers) : pending' = (pending \ {t}) \cup ok
  /\ ClosePfd(t, 1)
  /\ UNCHANGED <<alive, asked, overrun>>

\* network_read_procedure and what its callers do next.
Respond(t, req, size) ==
  /\ \/ ReadOn(t, req, size) \/ ReadOnFails(t, req, size)
     \/ Serve(t, req, size) \/ Refuse(t, req, size)
  /\ UNCHANGED <<sock, told, bare>>

\* The NETWORK_READ branch: whatever one read returns is taken for a request.
NetworkRead(t) ==
  /\ Arrives(t) /\ task_data[t].op_type = "NETWORK_READ"
  /\ \E req \in Requests, n \in 1..task_data[t].buff_length :
       Respond(t, req, task_data[t].progress + n)

\* What one read of the rest of t's buffer may return.
Bursts(t) ==
  {n \in 1..MaxBurst : n <= SizeT(task_data[t].buff_length - task_data[t].progress)}

\* The HTTP_POST_READ branch, before the request is complete.
PostReadSome(t) ==
  /\ Arrives(t) /\ task_data[t].op_type = "HTTP_POST_READ"
  /\ \E n \in Bursts(t) :
       /\ task_data[t].progress + n < task_data[t].buff_length
       /\ task_data' = [task_data EXCEPT ![t].progress = @ + n]
  /\ \E ok \in Submitted({t}) : pending' = (pending \ {t}) \cup ok
  /\ UNCHANGED <<alive, sock, asked, told, ntasks, heap, overrun, closing, bare>>

\* The same when it is complete: the request is parsed once more.
PostReadAll(t) ==
  /\ Arrives(t) /\ task_data[t].op_type = "HTTP_POST_READ"
  /\ \E req \in Requests, n \in Bursts(t) :
       LET size == task_data[t].progress + n
       IN /\ size >= task_data[t].buff_length /\ ~Unallocatable(size)
          /\ req.req_type = "POST" /\ Announces(req)
          /\ LargeSize(req) = task_data[t].buff_length
          /\ Respond(t, req, size)

\* Mutants of EndRead: the buffer is not freed, or the connection is not closed.
EndReadLeaks(t) ==
  /\ pending' = pending \ {t}
  /\ ClosePfd(t, 1)
  /\ UNCHANGED <<alive, sock, told, tasks, heap, overrun, bare>>
EndReadStaysOpen(t) ==
  /\ pending' = pending \ {t}
  /\ heap' = Freed(t)
  /\ UNCHANGED <<alive, sock, told, tasks, overrun, closing, bare>>

\* The read is over: the buffer is freed and the connection closed.
EndRead(t) ==
  /\ pending' = pending \ {t}
  /\ heap' = Freed(t)
  /\ ClosePfd(t, 1)
  /\ UNCHANGED <<alive, sock, told, tasks, overrun, bare>>

\* A read of 0 bytes: the client has hung up, or the server closed the socket.
ReadEof(t) ==
  /\ alive /\ t \in Reads /\ sock[task_data[t].pfd] \in {"hungup", "closed"}
  /\ EndRead(t)
  /\ UNCHANGED asked

\* The read fails, or is interrupted and cannot be submitted again.  For a NETWORK_READ
\* the application is called with a failed request, and may answer it.
ReadError(t) ==
  /\ alive /\ t \in Reads /\ Faults \cap {"error", "submit"} # {}
  /\ EndRead(t)
  /\ asked' = IF task_data[t].op_type = "NETWORK_READ"
              THEN [asked EXCEPT ![task_data[t].pfd] = TRUE] ELSE asked

-----------------------------------------------------------------------------
(* The application's answers, and their completions.                       *)

\* http_write.
HttpWrite(c) ==
  /\ alive /\ asked[c] /\ HasRoom
  /\ asked' = [asked EXCEPT ![c] = FALSE]
  /\ ntasks' = ntasks + 1
  /\ task_data' = Appended(TaskOf("HTTP_WRITE", c, 1, 0))
  /\ \E ok \in Submitted({NewTask}) : pending' = pending \cup ok
  /\ UNCHANGED <<alive, sock, told, heap, overrun, closing, bare>>

\* http_close.
HttpClose(c) ==
  /\ alive /\ asked[c] /\ HasRoom
  /\ asked' = [asked EXCEPT ![c] = FALSE]
  /\ ntasks' = ntasks + 1
  /\ task_data' = Appended(TaskOf("HTTP_CLOSE", c, 0, 0))
  /\ ClosePfd(NewTask, 1)
  /\ UNCHANGED <<alive, sock, told, heap, overrun, pending, bare>>

\* write_callback: everything is written, so the connection is closed; when the
\* write failed it is closed twice.  Short writes, which are continued, are left out.
WriteEnds(t) ==
  /\ alive /\ t \in pending /\ task_data[t].op_type = "HTTP_WRITE"
  /\ pending' = pending \ {t}
  /\ \E calls \in IF "error" \in Faults THEN {1, 2} ELSE {1} : ClosePfd(t, calls)
  /\ UNCHANGED <<alive, sock, asked, told, tasks, heap, overrun, bare>>

\* The write is interrupted: it is submitted again, and then taken to be complete.  The
\* bound: not while a close that it asked for is under way.
WriteInterrupted(t) ==
  /\ alive /\ t \in pending /\ task_data[t].op_type = "HTTP_WRITE"
  /\ "error" \in Faults /\ closing[t] = 0
  /\ \E ok \in Submitted({t}) : pending' = (pending \ {t}) \cup ok
  /\ ClosePfd(t, 1)
  /\ UNCHANGED <<alive, sock, asked, told, tasks, heap, overrun, bare>>

-----------------------------------------------------------------------------
(* close_callback, and the clients.                                        *)

Shut(c) == sock' = [sock EXCEPT ![c] = "closed"]

\* application_close_callback: all tasks of these connections are HTTP tasks.
Closed(t) ==
  /\ alive /\ closing[t] > 0
  /\ closing' = [closing EXCEPT ![t] = @ - 1]
  /\ Shut(task_data[t].pfd)
  /\ told' = [told EXCEPT ![task_data[t].pfd] = TRUE]
  /\ UNCHANGED <<alive, asked, tasks, heap, overrun, pending, bare>>

\* The same without a task: there is nothing to tell the application.
ClosedBare(c) ==
  /\ alive /\ c \in bare
  /\ bare' = bare \ {c}
  /\ Shut(c)
  /\ UNCHANGED <<alive, asked, told, tasks, heap, overrun, pending, closing>>

HangUp(c) ==
  /\ sock[c] = "open"
  /\ sock' = [sock EXCEPT ![c] = "hungup"]
  /\ UNCHANGED <<alive, asked, told, tasks, heap, overrun, pending, closing, bare>>

\* What was written past the end of a buffer belonged to something else.
Crashes ==
  /\ alive /\ overrun
  /\ alive' = FALSE
  /\ UNCHANGED <<sock, asked, told, tasks, heap, overrun, pending, closing, bare>>

-----------------------------------------------------------------------------
Init ==
  /\ alive = TRUE
  /\ sock = [c \in Conn |-> "new"]
  /\ asked = [c \in Conn |-> FALSE]
  /\ told = [c \in Conn |-> FALSE]
  /\ ntasks = 0
  /\ task_data = [t \in Task |-> NoTask]
  /\ heap = [t \in Task |-> "none"] /\ overrun = FALSE
  /\ pending = {}
  /\ closing = [t \in Task |-> 0]
  /\ bare = {}

ReadStep(t) ==
  \/ NetworkRead(t) \/ PostReadSome(t) \/ PostReadAll(t) \/ ReadEof(t) \/ ReadError(t)

ConnStep(c) ==
  \/ Accept(c) \/ HttpWrite(c) \/ HttpClose(c) \/ ClosedBare(c) \/ HangUp(c)

Next ==
  \/ \E c \in Conn : ConnStep(c)
  \/ \E t \in Task : ReadStep(t) \/ WriteEnds(t) \/ WriteInterrupted(t) \/ Closed(t)
  \/ AcceptError \/ Crashes

Spec == Init /\ [][Next]_vars

\* io_uring completes every operation: a read of a connection that no more data
\* comes from, and a close.
FairSpec ==
  /\ Spec
  /\ \A t \in Task : WF_vars(ReadEof(t)) /\ WF_vars(Closed(t))
  /\ \A c \in Conn : WF_vars(ClosedBare(c))

-----------------------------------------------------------------------------
(* Properties.                                                             *)

Ops == ReadOps \cup {"HTTP_WRITE", "HTTP_CLOSE", NULL}

TypeOK ==
  /\ alive \in BOOLEAN
  /\ sock \in [Conn -> {"new", "open", "hungup", "closed"}]
  /\ asked \in [Conn -> BOOLEAN]
  /\ told \in [Conn -> BOOLEAN]
  /\ ntasks \in 0..MaxTasks
  /\ task_data \in [Task -> [op_type : Ops, pfd : Conn \cup {NULL},
                             buff_length : Nat, progress : Nat]]
  /\ heap \in [Task -> {"none", "live", "freed", "broken"}] /\ overrun \in BOOLEAN
  /\ pending \subseteq 1..ntasks
  /\ closing \in [Task -> Nat]
  /\ bare \subseteq Conn

\* The rest of t's buffer, which is read into, is not negative.
InBounds(t) == task_data[t].progress < task_data[t].buff_length

\* t's buffer was made for a request with a negative Content-Length: not even the header
\* has room in it.
MadeTooSmall(t) ==
  task_data[t].op_type = "HTTP_POST_READ" /\ task_data[t].buff_length < HeaderSize

\* While a read is in flight its buffer is not freed, by whichever callback, and no buffer
\* is freed twice.  A read ends inside its buffer, and what is copied has room, except in
\* one case: the Content-Length of a POST was negative.
BuffersLiveWhileRead ==
  /\ \A t \in Reads : heap[t] = "live" /\ (InBounds(t) \/ MadeTooSmall(t))
  /\ \A t \in Task : heap[t] # "broken"
  /\ overrun => \E t \in 1..ntasks : MadeTooSmall(t)

\* A buffer that nothing is read into any more has been freed, however the read
\* ended: with a request, part of one, rubbish, an error or the end of the stream.
NoReadBufferLeaks == \A t \in Task : heap[t] = "live" => t \in Reads

\* t will have the connection c closed when the client hangs up, or has already
\* asked for it.
Watches(t, c) == task_data[t].pfd = c /\ (t \in Reads \/ closing[t] > 0)

\* No connection is forgotten: as long as its socket is open there is a read that
\* will notice the client's end, or the close is under way.
OpenConnectionsWatched ==
  \A c \in Conn :
    sock[c] \in {"open", "hungup"} => c \in bare \/ \E t \in Task : Watches(t, c)

\* No two reads of one connection are in flight at a time: the server would take
\* the bytes of one request for two, and never get rid of the extra read.
OneReadPerConnection ==
  \A t, u \in Reads : task_data[t].pfd = task_data[u].pfd => t = u

\* Once the client has hung up its socket is closed and the application is told,
\* unless the server has ended.
HangUpsAreTold ==
  \A c \in Conn :
    sock[c] = "hungup" ~> (sock[c] = "closed" /\ told[c]) \/ ~alive
=============================================================================
