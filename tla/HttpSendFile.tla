---------------------------- MODULE HttpSendFile ----------------------------
(***************************************************************************)
(* http_send_file (src/http_send_file.cpp) on top of lru_file_cache: what  *)
(* the server does from a request for a file until the response is sent,   *)
(* with the completions of its reads and writes (src/callbacks/read.cpp,   *)
(* writev.cpp, common.cpp) arriving in any order, short, interrupted or    *)
(* failed.                                                                 *)
(*                                                                         *)
(* Every client asks once, which is what the server lets it do: the        *)
(* connection is closed after the response.  The event loop runs one       *)
(* callback at a time, so each callback is one action.                     *)
(***************************************************************************)
EXTENDS Integers, FiniteSets, CacheItems

CONSTANTS
  Clients,
  Files,     \* names of files, NotFound among them
  NotFound,  \* not_found_filepath of every call
  Size,      \* length of each file in bytes
  Header,    \* length of a response header in bytes
  Buffers,   \* addresses of heap buffers for file contents
  MaxItems,  \* size of the cache
  RangeLists,\* what get_ranges can return for the requests: sequences of ranges
  Faults,    \* what may go wrong: "short", "eintr", "error", "submit"
  MaxEintr,  \* bound on the number of interrupted operations per client
  NULL

ASSUME FilesAssumption == NotFound \in Files /\ Size \in [Files -> Nat]
ASSUME ClientsAssumption == IsFiniteSet(Clients)
\* A range that ends before it starts, whose length wraps, is left out.
ASSUME RangesAssumption ==
  RangeLists \subseteq Seq({r \in [start : Nat, end : Nat] : r.start <= r.end})
ASSUME HeaderAssumption == Header \in Nat \ {0}
ASSUME FaultsAssumption ==
  Faults \subseteq {"short", "eintr", "error", "submit"} /\ MaxEintr \in Nat

\* What get_ranges returns: the ranges and, through valid_range, whether the
\* request can be satisfied.
Satisfiable(ranges) == [valid |-> TRUE, ranges |-> ranges]
Unsatisfiable == [valid |-> FALSE, ranges |-> <<>>]

VARIABLES
  items,      \* the cache
  allocated,  \* heap buffers for file contents
  stage,      \* per client: where its request is
  job,        \* per client: its HTTP_SEND_FILE task
  responses,  \* per client: the responses begun, with the bytes written of each
  eintrs      \* per client: operations interrupted so far

cache == <<items, allocated>>
vars == <<items, allocated, stage, job, responses, eintrs>>

-----------------------------------------------------------------------------
(* Tasks and responses.                                                    *)

\* own: additional_ptr, the buffer this task read the file into, is set.
\* left: bytes in the submitted buffers.  op: its operation, none before
\* the first is submitted.
Job(f, b, own, ranges) ==
  [file |-> f, buff |-> b, own |-> own, ranges |-> ranges,
   idx |-> 0, progress |-> 0, left |-> 0, op |-> "none"]

NoJob == Job(NULL, NULL, FALSE, <<>>)

\* What ev->submit_* makes of an operation: a completion will come, or not.
Submitted == {"inflight"} \cup (IF "submit" \in Faults THEN {"rejected"} ELSE {})

\* source: the memory the body is taken from.  announced: the Content-Length in
\* the header.  len: the length of the iovec with the body.  from: what the count
\* of its bytes begins with.
Response(source, announced, len) ==
  [source |-> source, announced |-> announced, len |-> len, from |-> 0, sent |-> 0]

\* Both ends of a range count in the header, but only one in the iovec.
RangeResponse(source, r) == Response(source, 1 + r.end - r.start, r.end - r.start)

\* The response of http_send_file_writev_submit_helper: the first range, or the
\* file when there are no ranges.
FirstResponse(j) ==
  IF j.ranges = <<>> THEN Response("file", Size[j.file], Size[j.file])
  ELSE RangeResponse("file", j.ranges[1])

\* The response of http_send_file_writev_continue: task.buff, from which it
\* takes the body, is the array of iovecs by now.
NextResponse(j) == RangeResponse("iovecs", j.ranges[j.idx + 1])

Ongoing(c) == Last(responses[c])

\* full_write_size of writev_callback.
FullSize(c) == Header + Ongoing(c).len

\* c's task starts to send response r after those of rs; op is what becomes of the
\* submission.  task.progress keeps the value it has.
Begin(c, j, rs, r, op) ==
  /\ job' = [job EXCEPT ![c] =
       [j EXCEPT !.idx = @ + 1, !.left = Header + r.len, !.op = op]]
  /\ responses' =
       [responses EXCEPT ![c] = Append(rs, [r EXCEPT !.from = j.progress])]

Released(before, after) == BuffersOf(before) \ BuffersOf(after)
-----------------------------------------------------------------------------
(* http_send_file: the request.                                            *)

\* http_send_cached_file with a current item for f in cached: the task sends the
\* item's buffer, which stays locked until it has.
SendCached(c, cached, f, q) ==
  \E i \in At(cached, f) :
    /\ Current(cached, i) /\ q.valid
    /\ items' = LockAt(cached, i)
    /\ stage' = [stage EXCEPT ![c] = "sending"]
    /\ LET j == Job(f, cached[i].buff, FALSE, q.ranges)
       IN Begin(c, j, <<>>, FirstResponse(j), "inflight")

\* Mutant of RefuseCached: the lock is kept.
RefuseCachedLocked(c, cached, f, q) ==
  \E i \in At(cached, f) :
    /\ Current(cached, i) /\ ~q.valid
    /\ items' = LockAt(cached, i)
    /\ stage' = [stage EXCEPT ![c] = "refused"]
    /\ UNCHANGED <<job, responses>>

\* The same when the range is not satisfiable: unlock, and send a 416.
RefuseCached(c, cached, f, q) ==
  \E i \in At(cached, f) :
    /\ Current(cached, i) /\ ~q.valid
    /\ items' = UnlockNamed(LockAt(cached, i), f)
    /\ stage' = [stage EXCEPT ![c] = "refused"]
    /\ UNCHANGED <<job, responses>>

\* get_ranges returns no range that starts at the last byte, but one for a lone "-".
Returned(r, size) == r.start < size - 1 \/ r = [start |-> 0, end |-> 0]

\* What get_ranges may return for a file; ranges that leave the file are left out.
RangesFor(f) ==
  {Satisfiable(r) : r \in {r \in RangeLists : \A i \in DOMAIN r :
                              Returned(r[i], Size[f]) /\ r[i].end < Size[f]}}
    \cup {Unsatisfiable}

Missed(cached, f) == \A i \in At(cached, f) : ~Current(cached, i)

\* What http_send_cached_file may leave behind when it returns a negative number:
\* it found nothing, or it locked the item and could not submit the writev.
Declined(cached, f, q) ==
  IF Missed(cached, f) THEN {AfterMiss(cached, f)}
  ELSE IF "submit" \in Faults /\ q.valid
       THEN {LockAt(cached, i) : i \in At(cached, f)}
  ELSE {}

\* The cache has the file.
RequestCached(c, f, q) ==
  /\ stage[c] = "idle"
  /\ SendCached(c, items, f, q) \/ RefuseCached(c, items, f, q)
  /\ UNCHANGED <<allocated, eintrs>>

\* It has not; the file can be opened and is read into a buffer of its size.
RequestFromDisk(c, f, q) ==
  /\ stage[c] = "idle" /\ q.valid
  /\ items' \in Declined(items, f, q)
  /\ stage' = [stage EXCEPT ![c] = "reading"]
  /\ \E b \in Buffers \ (allocated \ Released(items, items')), op \in Submitted :
       /\ allocated' = (allocated \ Released(items, items')) \cup {b}
       /\ job' = [job EXCEPT ![c] =
                    [Job(f, b, TRUE, q.ranges) EXCEPT !.left = Size[f], !.op = op]]
  /\ UNCHANGED <<responses, eintrs>>

\* The file can be opened, but has not the range asked for: a 416.
RefuseFromDisk(c, f, q) ==
  /\ stage[c] = "idle" /\ ~q.valid
  /\ items' \in Declined(items, f, q)
  /\ allocated' = allocated \ Released(items, items')
  /\ stage' = [stage EXCEPT ![c] = "refused"]
  /\ UNCHANGED <<job, responses, eintrs>>

\* The file cannot be opened: not_found_filepath is sent in its place if it is
\* cached.  If it has to be opened valid_range is still false, which makes a
\* 416, and if that fails too http_send_file just returns.
RequestNotFound(c, f, q) ==
  /\ stage[c] = "idle"
  /\ \E cached \in Declined(items, f, q) :
     \E r \in RangesFor(NotFound) :
       \/ SendCached(c, cached, NotFound, r)
       \/ RefuseCached(c, cached, NotFound, r)
       \/ /\ items' \in Declined(cached, NotFound, r)
          /\ \E outcome \in {"refused", "dropped"} :
               stage' = [stage EXCEPT ![c] = outcome]
          /\ UNCHANGED <<job, responses>>
  /\ allocated' = allocated \ Released(items, items')
  /\ UNCHANGED eintrs

-----------------------------------------------------------------------------
(* read_callback for HTTP_SEND_FILE.                                       *)

Reading(c) == stage[c] = "reading" /\ job[c].op = "inflight"

\* How many of at most k bytes an operation transfers.
Transfers(k) == IF "short" \in Faults THEN 1..k ELSE {k} \ {0}

\* http_send_file_writev_submit.
StartSending(c) ==
  /\ stage' = [stage EXCEPT ![c] = "sending"]
  /\ \E op \in Submitted : Begin(c, job[c], <<>>, FirstResponse(job[c]), op)

\* Mutant of ReadFailed: the buffer is not freed.
ReadFailedLeaks(c) ==
  /\ stage' = [stage EXCEPT ![c] = "dropped"]
  /\ job' = [job EXCEPT ![c] = NoJob]
  /\ UNCHANGED allocated

\* http_send_file_read_failed: the callback gets the number of the file, not of
\* the client.
ReadFailed(c) ==
  /\ stage' = [stage EXCEPT ![c] = "dropped"]
  /\ allocated' = allocated \ {job[c].buff}
  /\ job' = [job EXCEPT ![c] = NoJob]

\* Some bytes of the file have arrived, and more are needed.
ReadSome(c) ==
  /\ Reading(c)
  /\ \E n \in Transfers(job[c].left), op \in Submitted :
       LET total == job[c].progress + n
       IN /\ total < Size[job[c].file]
          /\ job' = [job EXCEPT ![c].progress = total, ![c].op = op,
                                ![c].left = Size[job[c].file] - total]
  /\ UNCHANGED <<cache, stage, responses, eintrs>>

\* The last bytes have arrived.  task.progress is not brought up to date.
ReadAll(c) ==
  /\ Reading(c)
  /\ \E n \in Transfers(job[c].left) : job[c].progress + n >= Size[job[c].file]
  /\ StartSending(c)
  /\ UNCHANGED <<cache, eintrs>>

\* A read of 0 bytes: the file is empty, or it ended before its length.
ReadEnd(c) ==
  /\ Reading(c)
  /\ \/ /\ job[c].progress = Size[job[c].file]
        /\ StartSending(c)
        /\ UNCHANGED allocated
     \/ /\ job[c].progress # Size[job[c].file] /\ "short" \in Faults
        /\ ReadFailed(c)
        /\ UNCHANGED responses
  /\ UNCHANGED <<items, eintrs>>

\* The read fails.
ReadError(c) ==
  /\ Reading(c) /\ "error" \in Faults
  /\ ReadFailed(c)
  /\ UNCHANGED <<items, responses, eintrs>>

\* The read is interrupted and submitted again, or given up if that fails.
ReadInterrupted(c) ==
  /\ Reading(c) /\ "eintr" \in Faults /\ eintrs[c] < MaxEintr
  /\ eintrs' = [eintrs EXCEPT ![c] = @ + 1]
  /\ \E op \in Submitted :
       \/ op = "inflight" /\ UNCHANGED <<stage, allocated, job>>
       \/ op = "rejected" /\ ReadFailed(c)
  /\ UNCHANGED <<items, responses>>

-----------------------------------------------------------------------------
(* writev_callback for HTTP_SEND_FILE.                                     *)

Sending(c) == stage[c] = "sending" /\ job[c].op = "inflight"

\* n more bytes of the current response have been written.
Wrote(c, n) == [responses[c] EXCEPT ![Len(responses[c])].sent = @ + n]

\* http_send_file_writev_finish, followed by close_pfd: unlock_item whether or
\* not this task locked the item, then offer the buffer it owns.  The callback
\* reports success whatever failed_req is.
Finish(c, end) ==
  LET j == job[c]
      unlocked == UnlockNamed(items, j.file)
      offered == IF j.own THEN Add(unlocked, j.file, j.buff, MaxItems) ELSE unlocked
      refused == IF j.own /\ j.buff \notin BuffersOf(offered) THEN {j.buff} ELSE {}
  IN /\ items' = offered
     /\ allocated' = allocated \ (Released(items, offered) \cup refused)
     /\ stage' = [stage EXCEPT ![c] = end]
     /\ job' = [job EXCEPT ![c] = NoJob]

\* The count says that the response is incomplete: vector_ops_progress sets the
\* iovecs to what it takes to be the rest.
WriteSome(c) ==
  /\ Sending(c)
  /\ \E n \in Transfers(job[c].left), op \in Submitted :
       LET total == job[c].progress + n
       IN /\ total < FullSize(c)
          /\ job' = [job EXCEPT ![c].progress = total, ![c].op = op,
                                ![c].left = FullSize(c) - total]
          /\ responses' = [responses EXCEPT ![c] = Wrote(c, n)]
  /\ UNCHANGED <<cache, stage, eintrs>>

\* The count says that it is complete, and there is another range.
WriteNext(c) ==
  /\ Sending(c)
  /\ job[c].idx < Len(job[c].ranges)
  /\ \E n \in Transfers(job[c].left), op \in Submitted :
       /\ job[c].progress + n >= FullSize(c)
       /\ Begin(c, job[c], Wrote(c, n), NextResponse(job[c]), op)
  /\ UNCHANGED <<cache, stage, eintrs>>

\* The count says that the last response is complete.
WriteAll(c) ==
  /\ Sending(c)
  /\ job[c].idx >= Len(job[c].ranges)
  /\ \E n \in Transfers(job[c].left) :
       /\ job[c].progress + n >= FullSize(c)
       /\ responses' = [responses EXCEPT ![c] = Wrote(c, n)]
  /\ Finish(c, "done")
  /\ UNCHANGED eintrs

\* The client is gone.
WriteError(c) ==
  /\ Sending(c) /\ "error" \in Faults
  /\ Finish(c, "failed")
  /\ UNCHANGED <<responses, eintrs>>

\* Mutants of WriteInterrupted: the write is not submitted again, or the callback
\* goes on as if it had been completed.
WriteInterruptedLost(c) ==
  /\ Sending(c) /\ "eintr" \in Faults /\ eintrs[c] < MaxEintr
  /\ eintrs' = [eintrs EXCEPT ![c] = @ + 1]
  /\ job' = [job EXCEPT ![c].op = "none"]
  /\ UNCHANGED <<cache, stage, responses>>
WriteInterruptedFallsThrough(c) ==
  /\ Sending(c) /\ "eintr" \in Faults /\ eintrs[c] < MaxEintr
  /\ eintrs' = [eintrs EXCEPT ![c] = @ + 1]
  /\ Finish(c, "done")
  /\ UNCHANGED responses

\* The write is interrupted and submitted again.
WriteInterrupted(c) ==
  /\ Sending(c) /\ "eintr" \in Faults /\ eintrs[c] < MaxEintr
  /\ eintrs' = [eintrs EXCEPT ![c] = @ + 1]
  /\ \E op \in Submitted : job' = [job EXCEPT ![c].op = op]
  /\ UNCHANGED <<cache, stage, responses>>

-----------------------------------------------------------------------------
(* The INOTIFY_READ branch of read_callback: a file has changed.  Its item may *)
(* be outdated already.                                                    *)
FileChanged ==
  /\ \E i \in DOMAIN items : items' = Invalidate(items, i)
  /\ allocated' = allocated \ Released(items, items')
  /\ UNCHANGED <<stage, job, responses, eintrs>>

-----------------------------------------------------------------------------
Init ==
  /\ items = <<>>
  /\ allocated = {}
  /\ stage = [c \in Clients |-> "idle"]
  /\ job = [c \in Clients |-> NoJob]
  /\ responses = [c \in Clients |-> <<>>]
  /\ eintrs = [c \in Clients |-> 0]

Request(c) ==
  \E f \in Files : \E q \in RangesFor(f) :
    \/ RequestCached(c, f, q) \/ RequestFromDisk(c, f, q)
    \/ RefuseFromDisk(c, f, q) \/ RequestNotFound(c, f, q)

Completion(c) ==
  \/ ReadSome(c) \/ ReadAll(c) \/ ReadEnd(c) \/ ReadError(c) \/ ReadInterrupted(c)
  \/ WriteSome(c) \/ WriteNext(c) \/ WriteAll(c) \/ WriteError(c) \/ WriteInterrupted(c)

Next == (\E c \in Clients : Request(c) \/ Completion(c)) \/ FileChanged

Spec == Init /\ [][Next]_vars

\* io_uring completes every submitted operation.
FairSpec == Spec /\ \A c \in Clients : WF_vars(Completion(c))

-----------------------------------------------------------------------------
(* Properties.                                                             *)

Ends == {"dropped", "done", "failed"}
Stages == {"idle", "reading", "sending", "refused"} \cup Ends

\* The clients whose task sends the buffer of the cached file f.
Users(f) == {c \in Clients : stage[c] = "sending" /\ ~job[c].own /\ job[c].file = f}

Locks(f) == LET i == CHOOSE i \in At(items, f) : TRUE IN items[i].locks

TypeOK ==
  /\ items \in Seq([name : Files, buff : Buffers, locks : Nat, outdated : BOOLEAN])
  /\ allocated \subseteq Buffers
  /\ stage \in [Clients -> Stages]
  /\ \A c \in Clients :
       /\ job[c].file \in Files \cup {NULL}
       /\ job[c].buff \in Buffers \cup {NULL}
       /\ {job[c].idx, job[c].progress, job[c].left} \subseteq Nat
       /\ job[c].own \in BOOLEAN /\ job[c].op \in {"none", "inflight", "rejected"}
       /\ responses[c] \in Seq([source : {"file", "iovecs"}, announced : Nat,
                                len : Nat, from : Nat, sent : Nat])
  /\ eintrs \in [Clients -> 0..MaxEintr]

\* Every file buffer has one owner, an item of the cache or the task that read
\* the file into it: through short reads, errors, refused additions, evictions
\* and inotify removals none leaks and none is freed twice.
OneOwnerEach ==
  LET owners == {c \in Clients : job[c].own}
      byTask == {job[c].buff : c \in owners}
  IN /\ allocated = BuffersOf(items) \cup byTask
     /\ BuffersOf(items) \cap byTask = {}
     /\ Cardinality(BuffersOf(items)) = Len(items)
     /\ \A c, d \in owners : job[c].buff = job[d].buff => c = d

\* No lock outlives its user: however requests end, an item has no more locks
\* than there are tasks that send it, so it can be evicted or updated again.
NoLockLeaks ==
  \A f \in Files : At(items, f) # {} => Locks(f) <= Cardinality(Users(f))

\* The buffer that a task sends from is allocated until the task is finished.
SentBuffersKept ==
  \A c \in Clients : stage[c] = "sending" => job[c].buff \in allocated

\* Locks and users of an item only part when a task that had itself read the
\* same file from disk finishes: nothing else takes a lock it does not own.
OnlyReadersStealLocks ==
  [][\A f \in Files :
       /\ At(items, f) # {} /\ At(items', f) # {}
       /\ Locks(f) = Cardinality(Users(f)) /\ Locks(f)' # Cardinality(Users(f)')
       => \E c \in Clients :
            stage[c] = "sending" /\ stage'[c] \in Ends /\ job[c].own /\ job[c].file = f]_vars

\* When every write of a request has gone through and http_writev_callback says that
\* the file was sent, every byte of every header has been written and every byte
\* that the header announces, but for the last one of a range: the iovec is one
\* shorter.  Responses whose count did not begin at zero are the exception:
\* task.progress is not reset after a short read of the file, or after a response
\* that took several writes.
SuccessMeansSent ==
  \A c \in Clients :
    stage[c] = "done" /\ (\A k \in DOMAIN responses[c] : responses[c][k].from = 0)
      => \A k \in DOMAIN responses[c] :
           LET r == responses[c][k]
           IN r.sent = Header + r.announced - (IF r.len < r.announced THEN 1 ELSE 0)

\* The body of every response comes from the buffer with the file.
BodiesFromFile ==
  \A c \in Clients : \A k \in DOMAIN responses[c] : responses[c][k].source = "file"

\* Every task ends, whatever is short, interrupted or fails, unless something it
\* submits is rejected.
EveryTaskEnds ==
  \A c \in Clients :
    job[c].op = "inflight" ~> stage[c] \in Ends \/ job[c].op = "rejected"
=============================================================================
