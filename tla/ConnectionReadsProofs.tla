----------------------- MODULE ConnectionReadsProofs -----------------------
(***************************************************************************)
(* Proofs about the reads of connections, for any number of connections    *)
(* and tasks and any sizes of reads, headers and bodies.                   *)
(*                                                                         *)
(* Buffers stay safe because a task reads into no buffer but its own: what *)
(* has to be added to the properties is that a task beyond the end of the  *)
(* table has no buffer and asks for nothing (TableSound).  They are large  *)
(* enough because a buffer made for the rest of a body has room for it,    *)
(* unless the Content-Length was negative, and such a buffer is never read *)
(* into from its start (Sized).  That no buffer leaks and no connection is *)
(* forgotten also needs that submissions succeed, since their results are  *)
(* ignored (Reliable).                                                     *)
(***************************************************************************)
EXTENDS ConnectionReads, TLAPS

\* Tasks of the table belong to a connection; the others have not been used.
TableSound ==
  \A t \in Task :
    /\ t \in 1..ntasks => task_data[t].pfd \in Conn
    /\ t \notin 1..ntasks => closing[t] = 0 /\ heap[t] = "none"

\* The two parts of BuffersLiveWhileRead: buffers are not freed, and are large enough.
BuffersLive ==
  /\ \A t \in Reads : heap[t] = "live"
  /\ \A t \in Task : heap[t] # "broken"

Sized ==
  /\ \A t \in Reads : InBounds(t) \/ MadeTooSmall(t)
  /\ overrun => \E t \in 1..ntasks : MadeTooSmall(t)

IInv == TypeOK /\ TableSound /\ BuffersLive /\ Sized

Reliable == "submit" \notin Faults

\* What else holds as long as submissions succeed.
Kept == NoReadBufferLeaks /\ OpenConnectionsWatched

-----------------------------------------------------------------------------
(* Tasks and submissions.                                                  *)

\* get_task returns a task that nothing refers to.
LEMMA NewTaskIsFresh ==
  ASSUME IInv, HasRoom
  PROVE  /\ NewTask \in Task /\ NewTask \in 1..(ntasks + 1)
         /\ ntasks + 1 \in 0..MaxTasks
         /\ NewTask \notin 1..ntasks /\ NewTask \notin pending
         /\ closing[NewTask] = 0 /\ heap[NewTask] = "none"
         /\ \A t \in Task : t \in 1..(ntasks + 1) <=> t \in 1..ntasks \/ t = NewTask
<1>1. MaxTasks \in Nat /\ ntasks \in 0..MaxTasks /\ pending \subseteq 1..ntasks
  BY SizesAssumption DEF IInv, TypeOK
<1>2. NewTask \in Task /\ NewTask \notin 1..ntasks
  BY <1>1 DEF NewTask, HasRoom, Task
<1>3. closing[NewTask] = 0 /\ heap[NewTask] = "none"
  BY <1>2 DEF IInv, TableSound
<1> QED BY <1>1, <1>2, <1>3 DEF NewTask, HasRoom, Task

\* Only what is submitted becomes pending, and all of it if submissions succeed.
LEMMA SubmittedSome ==
  ASSUME NEW ts, NEW ok \in Submitted(ts)
  PROVE  ok \subseteq ts /\ (Reliable => ok = ts)
BY DEF Submitted, Reliable

LEMMA OldTasks == IInv => 1..ntasks \subseteq Task
<1> SUFFICES ASSUME IInv PROVE 1..ntasks \subseteq Task
  OBVIOUS
<1>1. MaxTasks \in Nat /\ ntasks \in 0..MaxTasks
  BY SizesAssumption DEF IInv, TypeOK
<1> QED BY <1>1 DEF Task

LEMMA PendingAreTasks == IInv => pending \subseteq Task /\ Reads \subseteq Task
<1>1. Reads \subseteq pending
  BY DEF Reads
<1>2. IInv => pending \subseteq Task
  BY SizesAssumption DEF IInv, TypeOK, Task
<1> QED BY <1>1, <1>2

\* A task that is read for belongs to a connection and has a live buffer.
LEMMA ReaderIsSound ==
  ASSUME IInv, NEW t \in Reads
  PROVE  /\ t \in Task /\ t \in 1..ntasks /\ t \in pending
         /\ task_data[t] \in [op_type : Ops, pfd : Conn, buff_length : Nat, progress : Nat]
         /\ task_data[t].op_type \in ReadOps
         /\ heap[t] = "live"
<1>1. t \in pending /\ t \in 1..ntasks /\ task_data[t].op_type \in ReadOps
  BY DEF Reads, IInv, TypeOK
<1>2. t \in Task
  BY <1>1, SizesAssumption DEF IInv, TypeOK, Task
<1>3. task_data[t].pfd \in Conn
  BY <1>1, <1>2 DEF IInv, TableSound
<1> QED BY <1>1, <1>2, <1>3 DEF IInv, TypeOK, BuffersLive

\* What buffers are large enough for stays as it is.
LEMMA SizedStays ==
  ASSUME IInv, overrun' => overrun,
         \A u \in 1..ntasks : u \in 1..ntasks' /\ (MadeTooSmall(u) => MadeTooSmall(u)'),
         \A u \in Reads' : InBounds(u)' \/ MadeTooSmall(u)'
  PROVE  Sized'
BY DEF IInv, Sized

\* The same when tasks are added and no other one changes its operation and buffer.
LEMMA OldTasksStay ==
  ASSUME IInv, overrun' = overrun,
         \A u \in 1..ntasks : u \in 1..ntasks' /\ task_data'[u] = task_data[u],
         \A u \in Reads' : u \in Reads \/ InBounds(u)'
  PROVE  Sized'
<1>1. \A u \in Reads : u \in 1..ntasks
  BY DEF Reads, IInv, TypeOK
<1>2. \A u \in 1..ntasks : /\ MadeTooSmall(u) => MadeTooSmall(u)'
                           /\ InBounds(u) => InBounds(u)'
  BY DEF MadeTooSmall, InBounds
<1> QED BY <1>1, <1>2, SizedStays DEF IInv, Sized

\* A body of a length that is not negative has room in the buffer made for it.  For a
\* negative one there is no memory, or the buffer is too small.
LEMMA LargeSizes ==
  ASSUME NEW req \in Requests, Announces(req)
  PROVE  LET n == req.content_length
         IN /\ n \in Int /\ Word \in Nat /\ HeaderSize \in Nat \ {0} /\ LargeSize(req) \in Nat
            /\ n >= 0 => /\ SizeT(n) = n /\ LargeSize(req) = HeaderSize + n
                         /\ LargeSize(req) > 0 /\ ~(LargeSize(req) < HeaderSize)
            /\ n < 0 => /\ SizeT(n) = n + Word /\ Word <= 2 * SizeT(n)
                        /\ LargeSize(req) < HeaderSize \/ Unallocatable(LargeSize(req))
<1> DEFINE n == req.content_length
<1>1. /\ NegBody \in Nat /\ MaxBody \in Nat /\ Word \in Nat /\ HeaderSize \in Nat \ {0}
      /\ 2 * NegBody <= Word
  BY SizesAssumption, WordAssumption
<1>2. n \in (-NegBody)..MaxBody
  BY DEF Announces, Requests
<1> HIDE DEF n
<1>3. n \in Int /\ 0 <= n + NegBody
  BY <1>1, <1>2
<1>4. LargeSize(req) = IF HeaderSize + n < 0 THEN HeaderSize + n + Word ELSE HeaderSize + n
  BY DEF LargeSize, SizeT, n
<1>5. CASE n >= 0
  BY <1>1, <1>3, <1>4, <1>5 DEF SizeT, n
<1>6. CASE n < 0
  <2>1. SizeT(n) = n + Word /\ Word <= 2 * (n + Word)
    BY <1>1, <1>3, <1>6 DEF SizeT
  <2>2. CASE HeaderSize + n < 0
    <3>1. /\ LargeSize(req) = HeaderSize + n + Word /\ HeaderSize + n + Word \in Nat
          /\ 2 * (HeaderSize + n + Word) >= Word
      BY <1>1, <1>3, <1>4, <2>2
    <3>2. Unallocatable(LargeSize(req))
      BY <3>1 DEF Unallocatable
    <3> QED BY <1>1, <1>3, <1>6, <2>1, <3>1, <3>2 DEF n
  <2>3. CASE ~(HeaderSize + n < 0)
    <3>1. LargeSize(req) = HeaderSize + n /\ HeaderSize + n \in Nat /\ HeaderSize + n < HeaderSize
      BY <1>1, <1>3, <1>4, <1>6, <2>3
    <3> QED BY <1>1, <1>3, <1>6, <2>1, <3>1 DEF n
  <2> QED BY <2>2, <2>3
<1> QED BY <1>3, <1>5, <1>6 DEF n

\* The extra reader, if there is one, is a new task of the same connection.
LEMMA ReadersAreFresh ==
  ASSUME IInv, NEW req, NEW size, NEW c \in Conn, BackToNormal(req, size) => HasRoom
  PROVE  LET readers == Readers(req, size)
             table == WithReaders(c, readers)
         IN /\ readers = {} \/ (readers = {NewTask} /\ HasRoom)
            /\ SizeWith(readers) \in 0..MaxTasks
            /\ \A u \in Task :
                 u \in 1..SizeWith(readers) <=> u \in 1..ntasks \/ u \in readers
            /\ 1..SizeWith(readers) = 1..ntasks \cup readers
            /\ table \in [Task -> [op_type : Ops, pfd : Conn \cup {NULL},
                                   buff_length : Nat, progress : Nat]]
            /\ \A u \in Task \ readers : table[u] = task_data[u]
            /\ \A u \in readers :
                 /\ table[u].op_type = "NETWORK_READ" /\ table[u].pfd = c
                 /\ table[u].progress < table[u].buff_length
<1> DEFINE readers == Readers(req, size)
<1>1. CASE readers = {}
  BY <1>1 DEF SizeWith, WithReaders, IInv, TypeOK
<1>2. CASE readers # {}
  <2>1. readers = {NewTask} /\ HasRoom
    BY <1>2 DEF Readers
  <2>2. TaskOf("NETWORK_READ", c, ReadSize, 0) \in
          [op_type : Ops, pfd : Conn \cup {NULL}, buff_length : Nat, progress : Nat]
    BY SizesAssumption DEF TaskOf, Ops, ReadOps
  <2>3. 1..SizeWith(readers) = 1..ntasks \cup readers
    BY <2>1, <1>2 DEF SizeWith, NewTask, IInv, TypeOK
  <2>4. 0 < ReadSize
    BY SizesAssumption
  <2> QED BY <1>2, <2>1, <2>2, <2>3, <2>4, NewTaskIsFresh
          DEF SizeWith, WithReaders, Appended, TaskOf, IInv, TypeOK
<1> QED BY <1>1, <1>2

-----------------------------------------------------------------------------
(* What a request does to the task that received it.                       *)

LEMMA ReadOnKeeps ==
  ASSUME IInv, NEW t \in Reads, NEW req \in Requests, NEW size \in Nat,
         sock[task_data[t].pfd] = "open", ReadOn(t, req, size),
         UNCHANGED <<sock, told, bare>>
  PROVE  IInv' /\ (Reliable /\ Kept => Kept')
<1> DEFINE new == TaskOf("HTTP_POST_READ", task_data[t].pfd, LargeSize(req), size)
<1>1. PICK ok \in Submitted({NewTask}) : pending' = (pending \ {t}) \cup ok
  BY DEF ReadOn
<1>2. ok \subseteq {NewTask} /\ (Reliable => ok = {NewTask})
  BY <1>1, SubmittedSome
<1>3. HasRoom /\ ntasks' = ntasks + 1 /\ task_data' = [task_data EXCEPT ![NewTask] = new]
  BY DEF ReadOn, Appended
<1>4. new \in [op_type : Ops, pfd : Conn, buff_length : Nat, progress : Nat]
  <2>1. LargeSize(req) \in Nat
    BY LargeSizes DEF ReadOn, PartialBody
  <2> QED BY <2>1, ReaderIsSound DEF TaskOf, Ops, ReadOps
<1>5. heap' = [u \in Task |-> IF u = NewTask THEN "live" ELSE IF u = t THEN "freed" ELSE heap[u]]
  BY ReaderIsSound, NewTaskIsFresh, <1>3 DEF ReadOn, Freed, IInv, TypeOK
<1>6. t # NewTask
  BY ReaderIsSound, NewTaskIsFresh, <1>3
<1>7. TypeOK'
  <2>1. pending' \subseteq 1..ntasks'
    <3>1. ntasks' = ntasks + 1 /\ ntasks \in Nat /\ pending \subseteq 1..ntasks
      BY <1>3 DEF IInv, TypeOK
    <3>2. 1..ntasks \subseteq 1..ntasks' /\ NewTask \in 1..ntasks'
      BY <3>1 DEF NewTask
    <3> QED BY <1>1, <1>2, <3>1, <3>2
  <2>2. task_data' \in [Task -> [op_type : Ops, pfd : Conn \cup {NULL},
                                buff_length : Nat, progress : Nat]]
    BY <1>3, <1>4, NewTaskIsFresh DEF IInv, TypeOK
  <2>3. overrun' \in BOOLEAN /\ alive' = alive /\ asked' = asked /\ closing' = closing
    BY DEF ReadOn
  <2> HIDE DEF new
  <2> QED BY <1>3, <1>5, <2>1, <2>2, <2>3, NewTaskIsFresh DEF IInv, TypeOK
<1>8. TableSound'
  BY <1>3, <1>4, <1>5, <1>6, NewTaskIsFresh, ReaderIsSound, ZenonT(60) DEF ReadOn, IInv, TypeOK, TableSound
<1>9. /\ Reads' = (Reads \ {t}) \cup ok
      /\ task_data'[NewTask].pfd = task_data[t].pfd
      /\ \A u \in Task \ {NewTask} : task_data'[u] = task_data[u]
  <2>1. pending \subseteq Task
    BY PendingAreTasks
  <2>2. /\ task_data'[NewTask].op_type = "HTTP_POST_READ"
        /\ task_data'[NewTask].pfd = task_data[t].pfd
        /\ \A u \in Task \ {NewTask} : task_data'[u] = task_data[u]
    BY <1>3, NewTaskIsFresh DEF TaskOf, IInv, TypeOK
  <2> QED BY <1>1, <1>2, <1>3, <2>1, <2>2, NewTaskIsFresh DEF Reads, ReadOps
<1>10. BuffersLive'
  BY <1>2, <1>3, <1>5, <1>9, NewTaskIsFresh, PendingAreTasks
     DEF BuffersLive, IInv, Reads
<1>11. Reliable /\ Kept => NoReadBufferLeaks'
  BY <1>2, <1>5, <1>9 DEF Kept, NoReadBufferLeaks
<1>12. ASSUME Reliable, Kept PROVE OpenConnectionsWatched'
  <2>1. \A c \in Conn, u \in Task : Watches(u, c) => \E v \in Task : Watches(v, c)'
    <3> SUFFICES ASSUME NEW c \in Conn, NEW u \in Task, Watches(u, c)
                 PROVE  \E v \in Task : Watches(v, c)'
      OBVIOUS
    <3>1. CASE u = t
      <4>1. PICK v \in Task : v = NewTask
        BY <1>3, NewTaskIsFresh
      <4>2. v \in Reads' /\ task_data'[v].pfd = c
        BY <1>2, <1>9, <1>12, <3>1, <4>1 DEF Watches
      <4> QED BY <4>2 DEF Watches
    <3>2. CASE u # t
      <4>1. u # NewTask
        BY <1>3, NewTaskIsFresh DEF Watches, Reads
      <4> QED BY <4>1, <3>2, <1>9 DEF Watches, ReadOn
    <3> QED BY <3>1, <3>2
  <2> QED BY <2>1, <1>12 DEF Kept, OpenConnectionsWatched
<1>13. PICK v \in Task : v = NewTask /\ v \in 1..ntasks'
  BY <1>3, NewTaskIsFresh
<1>14. (InBounds(v)' /\ ~(LargeSize(req) < size)) \/ MadeTooSmall(v)'
  <2>1. task_data'[v] = new
    BY <1>3, <1>13 DEF IInv, TypeOK
  <2>2. /\ task_data'[v].op_type = "HTTP_POST_READ"
        /\ task_data'[v].buff_length = LargeSize(req)
        /\ task_data'[v].progress = size
    BY <2>1 DEF TaskOf
  <2>3. /\ size - HeaderSize < SizeT(req.content_length)
        /\ Announces(req) /\ ~Unallocatable(LargeSize(req))
    BY DEF ReadOn, PartialBody
  <2>4. CASE req.content_length >= 0
    <3>1. size < LargeSize(req) /\ LargeSize(req) \in Nat
      BY <2>3, <2>4, LargeSizes
    <3> QED BY <2>2, <3>1 DEF InBounds
  <2>5. CASE ~(req.content_length >= 0)
    <3>1. LargeSize(req) < HeaderSize
      BY <2>3, <2>5, LargeSizes
    <3> QED BY <2>2, <3>1 DEF MadeTooSmall
  <2> QED BY <2>4, <2>5
<1>15. Sized'
  <2>1. \A u \in 1..ntasks : u \in 1..ntasks' /\ u \in Task \ {v}
    BY <1>3, <1>13, NewTaskIsFresh, SizesAssumption DEF Task, IInv, TypeOK
  <2>2. \A u \in 1..ntasks : task_data'[u] = task_data[u]
    BY <1>9, <1>13, <2>1
  <2>3. \A u \in 1..ntasks : /\ MadeTooSmall(u) => MadeTooSmall(u)'
                             /\ InBounds(u) => InBounds(u)'
    BY <2>2 DEF MadeTooSmall, InBounds
  <2>4. Reads \subseteq 1..ntasks
    BY DEF Reads, IInv, TypeOK
  <2>5. \A u \in Reads' : u \in Reads \/ u = v
    BY <1>2, <1>9, <1>13
  <2>6. overrun' => overrun \/ LargeSize(req) < size
    BY DEF ReadOn
  <2> QED BY <1>13, <1>14, <2>1, <2>3, <2>4, <2>5, <2>6 DEF IInv, Sized
<1> QED BY <1>7, <1>8, <1>10, <1>11, <1>12, <1>15 DEF IInv, Kept

\* Nothing but the end of the server happens.
LEMMA EndKeeps ==
  ASSUME IInv, alive' \in BOOLEAN,
         UNCHANGED <<sock, asked, told, ntasks, task_data, heap, overrun, pending, closing, bare>>
  PROVE  IInv' /\ (Reliable /\ Kept => Kept')
<1>1. Reads' = Reads
  BY DEF Reads
<1>2. TypeOK' /\ TableSound' /\ BuffersLive'
  BY <1>1 DEF IInv, TypeOK, TableSound, BuffersLive
<1>3. Sized'
  BY <1>1, OldTasksStay
<1>4. Kept => Kept'
  BY <1>1 DEF Kept, NoReadBufferLeaks, OpenConnectionsWatched, Watches
<1> QED BY <1>2, <1>3, <1>4 DEF IInv

LEMMA ServeKeeps ==
  ASSUME IInv, NEW t \in Reads, NEW req \in Requests, NEW size \in Nat,
         sock[task_data[t].pfd] = "open", Serve(t, req, size),
         task_data[t].buff_length > 0, ~MadeTooSmall(t),
         UNCHANGED <<sock, told, bare>>
  PROVE  IInv' /\ (Reliable /\ Kept => Kept')
<1> DEFINE c == task_data[t].pfd
           readers == Readers(req, size)
           table == WithReaders(c, readers)
<1>1. BackToNormal(req, size) => HasRoom
  BY DEF Serve
<1>2. c \in Conn /\ t \in Task /\ t \in 1..ntasks /\ t \notin readers
  BY <1>1, ReaderIsSound, NewTaskIsFresh DEF Readers
<1>3. PICK ok \in Submitted({t} \cup readers) : pending' = (pending \ {t}) \cup ok
  BY DEF Serve
<1>4. ok \subseteq {t} \cup readers /\ (Reliable => ok = {t} \cup readers)
  BY <1>3, SubmittedSome
<1>5. /\ ntasks' = SizeWith(readers) /\ asked' = [asked EXCEPT ![c] = TRUE]
      /\ task_data' = [table EXCEPT ![t].op_type = "NETWORK_READ", ![t].progress = 0]
      /\ heap' = Allocated(heap, readers)
      /\ closing' = closing /\ alive' = alive /\ overrun' = overrun
  BY DEF Serve
<1>6. /\ readers = {} \/ (readers = {NewTask} /\ HasRoom)
      /\ ntasks' \in 0..MaxTasks /\ 1..ntasks' = 1..ntasks \cup readers
      /\ table \in [Task -> [op_type : Ops, pfd : Conn \cup {NULL},
                             buff_length : Nat, progress : Nat]]
      /\ \A u \in Task \ readers : table[u] = task_data[u]
      /\ \A u \in readers :
           /\ table[u].op_type = "NETWORK_READ" /\ table[u].pfd = c
           /\ table[u].progress < table[u].buff_length
  BY <1>1, <1>2, <1>5, ReadersAreFresh
<1>7. /\ readers \subseteq Task /\ readers \cap pending = {}
      /\ \A u \in readers : heap[u] = "none" /\ closing[u] = 0
  BY <1>6, NewTaskIsFresh
<1>8. /\ \A u \in Task \ readers : task_data'[u].pfd = task_data[u].pfd
      /\ \A u \in (Task \ readers) \ {t} : task_data'[u] = task_data[u]
      /\ \A u \in readers \cup {t} : task_data'[u].op_type = "NETWORK_READ" /\ task_data'[u].pfd = c
  BY <1>2, <1>5, <1>6, <1>7
<1>9. TypeOK'
  <2>1. task_data' \in [Task -> [op_type : Ops, pfd : Conn \cup {NULL},
                                buff_length : Nat, progress : Nat]]
    BY <1>2, <1>5, <1>6 DEF Ops, ReadOps
  <2>2. pending' \subseteq 1..ntasks'
    BY <1>2, <1>3, <1>4, <1>6 DEF IInv, TypeOK
  <2> QED BY <1>2, <1>5, <1>6, <2>1, <2>2 DEF Allocated, IInv, TypeOK
<1>10. TableSound'
  BY <1>2, <1>5, <1>6, <1>7, <1>8 DEF Allocated, IInv, TableSound
<1>11. Reads' = (Reads \ {t}) \cup ok
  <2>1. pending \subseteq Task
    BY SizesAssumption DEF IInv, TypeOK, Task
  <2> QED BY <1>3, <1>4, <1>7, <1>8, <2>1 DEF Reads, ReadOps
<1>12. BuffersLive'
  BY <1>2, <1>4, <1>5, <1>7, <1>11, ReaderIsSound DEF Allocated, BuffersLive, IInv
<1>13. Reliable /\ Kept => NoReadBufferLeaks'
  BY <1>4, <1>5, <1>7, <1>11 DEF Allocated, Kept, NoReadBufferLeaks
<1>14. ASSUME Reliable, Kept PROVE OpenConnectionsWatched'
  <2>1. \A d \in Conn, u \in Task : Watches(u, d) => Watches(u, d)'
    <3> SUFFICES ASSUME NEW d \in Conn, NEW u \in Task, Watches(u, d)
                 PROVE  Watches(u, d)'
      OBVIOUS
    <3>1. u \notin readers
      BY <1>7 DEF Watches, Reads
    <3>2. u \in Reads => u \in Reads'
      BY <1>4, <1>11, <1>14
    <3> QED BY <3>1, <3>2, <1>5, <1>8 DEF Watches
  <2> QED BY <2>1, <1>14 DEF Kept, OpenConnectionsWatched
<1>15. Sized'
  <2>1. \A u \in 1..ntasks : u \in Task /\ u \in 1..ntasks' /\ u \notin readers
    <3>1. 1..ntasks \subseteq Task
      BY OldTasks
    <3> QED BY <1>6, <3>1, NewTaskIsFresh
  <2>2. \A u \in readers \cup {t} : InBounds(u)'
    BY <1>2, <1>5, <1>6, <1>7 DEF InBounds
  <2>3. \A u \in 1..ntasks : MadeTooSmall(u) => u # t
    OBVIOUS
  <2>4. \A u \in 1..ntasks : u # t => /\ MadeTooSmall(u) => MadeTooSmall(u)'
                                      /\ InBounds(u) => InBounds(u)'
    BY <1>8, <2>1 DEF MadeTooSmall, InBounds
  <2>5. Reads \subseteq 1..ntasks
    BY DEF Reads, IInv, TypeOK
  <2>6. \A u \in Reads' : u \in readers \cup {t} \/ (u \in Reads /\ u # t)
    BY <1>4, <1>11
  <2> QED BY <1>5, <2>1, <2>2, <2>3, <2>4, <2>5, <2>6, SizedStays DEF IInv, Sized
<1> QED BY <1>9, <1>10, <1>12, <1>13, <1>14, <1>15 DEF IInv, Kept

LEMMA RefuseKeeps ==
  ASSUME IInv, NEW t \in Reads, NEW req \in Requests, NEW size \in Nat,
         sock[task_data[t].pfd] = "open", Refuse(t, req, size),
         UNCHANGED <<sock, told, bare>>
  PROVE  IInv' /\ (Reliable /\ Kept => Kept')
<1> DEFINE c == task_data[t].pfd
           readers == Readers(req, size)
<1>1. BackToNormal(req, size) => HasRoom
  BY DEF Refuse
<1>2. c \in Conn /\ t \in Task /\ t \in 1..ntasks /\ t \notin readers
  BY <1>1, ReaderIsSound, NewTaskIsFresh DEF Readers
<1>3. PICK ok \in Submitted(readers) : pending' = (pending \ {t}) \cup ok
  BY DEF Refuse
<1>4. ok \subseteq readers /\ (Reliable => ok = readers)
  BY <1>3, SubmittedSome
<1>5. /\ ntasks' = SizeWith(readers) /\ asked' = asked
      /\ task_data' = WithReaders(c, readers)
      /\ closing' = [closing EXCEPT ![t] = @ + 1]
      /\ alive' = alive /\ overrun' = overrun
  BY DEF Refuse, ClosePfd
<1>6. /\ readers = {} \/ (readers = {NewTask} /\ HasRoom)
      /\ ntasks' \in 0..MaxTasks /\ 1..ntasks' = 1..ntasks \cup readers
      /\ task_data' \in [Task -> [op_type : Ops, pfd : Conn \cup {NULL},
                                  buff_length : Nat, progress : Nat]]
      /\ \A u \in Task \ readers : task_data'[u] = task_data[u]
      /\ \A u \in readers :
           /\ task_data'[u].op_type = "NETWORK_READ" /\ task_data'[u].pfd = c
           /\ task_data'[u].progress < task_data'[u].buff_length
  BY <1>1, <1>2, <1>5, ReadersAreFresh
<1>7. /\ readers \subseteq Task /\ readers \cap pending = {}
      /\ \A u \in readers : heap[u] = "none" /\ closing[u] = 0
  BY <1>6, NewTaskIsFresh
<1>8. heap' = [u \in Task |-> IF u \in readers THEN "live" ELSE IF u = t THEN "freed" ELSE heap[u]]
  BY <1>2, ReaderIsSound DEF Refuse, Allocated, Freed, IInv, TypeOK
<1>9. TypeOK'
  <2>1. pending' \subseteq 1..ntasks'
    BY <1>3, <1>4, <1>6 DEF IInv, TypeOK
  <2> HIDE DEF readers
  <2> QED BY <1>2, <1>5, <1>6, <1>8, <2>1 DEF IInv, TypeOK
<1>10. TableSound'
  BY <1>2, <1>5, <1>6, <1>7, <1>8 DEF IInv, TypeOK, TableSound
<1>11. Reads' = (Reads \ {t}) \cup ok
  <2>1. pending \subseteq Task
    BY SizesAssumption DEF IInv, TypeOK, Task
  <2> QED BY <1>3, <1>4, <1>6, <1>7, <2>1 DEF Reads, ReadOps
<1>12. BuffersLive'
  BY <1>4, <1>7, <1>8, <1>11, PendingAreTasks DEF BuffersLive, IInv
<1>13. Reliable /\ Kept => NoReadBufferLeaks'
  BY <1>4, <1>8, <1>11 DEF Kept, NoReadBufferLeaks
<1>14. ASSUME Reliable, Kept PROVE OpenConnectionsWatched'
  <2>1. \A d \in Conn, u \in Task : Watches(u, d) => Watches(u, d)'
    BY <1>2, <1>5, <1>6, <1>7, <1>11 DEF Watches, Reads, IInv, TypeOK
  <2> QED BY <2>1, <1>14 DEF Kept, OpenConnectionsWatched
<1>15. Sized'
  <2>1. \A u \in 1..ntasks : u \in 1..ntasks' /\ task_data'[u] = task_data[u]
    BY <1>6, OldTasks, NewTaskIsFresh
  <2>2. \A u \in Reads' : u \in Reads \/ InBounds(u)'
    BY <1>4, <1>6, <1>11 DEF InBounds
  <2> QED BY <1>5, <2>1, <2>2, OldTasksStay
<1> QED BY <1>9, <1>10, <1>12, <1>13, <1>14, <1>15 DEF IInv, Kept

\* Whatever a request is, and whether or not its body is complete.
LEMMA RespondKeeps ==
  ASSUME IInv, NEW t \in Task, NEW req \in Requests, NEW size \in Nat,
         Arrives(t), Respond(t, req, size),
         Serve(t, req, size) => task_data[t].buff_length > 0 /\ ~MadeTooSmall(t)
  PROVE  IInv' /\ (Reliable /\ Kept => Kept')
<1>1. CASE ReadOnFails(t, req, size)
  <2>1. UNCHANGED <<sock, asked, told, ntasks, task_data, heap, overrun, pending, closing, bare>>
        /\ alive' \in BOOLEAN
    BY <1>1 DEF ReadOnFails, Respond, tasks
  <2> QED BY <2>1, EndKeeps
<1> QED BY <1>1, ReadOnKeeps, ServeKeeps, RefuseKeeps DEF Respond, Arrives

-----------------------------------------------------------------------------
(* The other steps.                                                        *)

\* A step that changes neither tasks nor reads, and opens no connection.
LEMMA WatchedStays ==
  ASSUME OpenConnectionsWatched, bare \subseteq bare',
         \A c \in Conn : sock'[c] \in {"open", "hungup"} => sock[c] \in {"open", "hungup"},
         \A c \in Conn, t \in Task : Watches(t, c) => Watches(t, c)'
  PROVE  OpenConnectionsWatched'
BY DEF OpenConnectionsWatched

LEMMA AcceptKeeps ==
  ASSUME IInv, NEW c \in Conn, Accept(c)
  PROVE  IInv' /\ (Reliable /\ Kept => Kept')
<1> DEFINE new == TaskOf("NETWORK_READ", c, ReadSize, 0)
<1>1. PICK ok \in Submitted({NewTask}) :
        /\ pending' = pending \cup ok
        /\ heap' = [heap EXCEPT ![NewTask] = IF ok = {} THEN "freed" ELSE "live"]
        /\ bare' = IF ok = {} THEN bare \cup {c} ELSE bare
  BY DEF Accept
<1>2. ok \subseteq {NewTask} /\ (Reliable => ok = {NewTask})
  BY <1>1, SubmittedSome
<1>3. /\ HasRoom /\ ntasks' = ntasks + 1 /\ alive' \in BOOLEAN
      /\ task_data' = [task_data EXCEPT ![NewTask] = new]
      /\ sock' = [sock EXCEPT ![c] = "open"]
      /\ UNCHANGED <<asked, told, overrun, closing>>
  BY DEF Accept, Appended
<1>4. new \in [op_type : Ops, pfd : Conn, buff_length : Nat, progress : Nat]
  BY SizesAssumption DEF TaskOf, Ops, ReadOps
<1>5. /\ task_data' \in [Task -> [op_type : Ops, pfd : Conn \cup {NULL},
                                  buff_length : Nat, progress : Nat]]
      /\ task_data'[NewTask].op_type = "NETWORK_READ" /\ task_data'[NewTask].pfd = c
      /\ task_data'[NewTask].progress < task_data'[NewTask].buff_length
      /\ \A u \in Task \ {NewTask} : task_data'[u] = task_data[u]
  BY <1>3, <1>4, NewTaskIsFresh, SizesAssumption DEF TaskOf, IInv, TypeOK
<1> HIDE DEF new
<1>6. TypeOK'
  <2>1. pending' \subseteq 1..ntasks'
    BY <1>1, <1>2, <1>3 DEF NewTask, IInv, TypeOK
  <2> QED BY <1>1, <1>3, <1>5, <2>1, NewTaskIsFresh DEF IInv, TypeOK
<1>7. TableSound'
  BY <1>1, <1>3, <1>5, NewTaskIsFresh DEF IInv, TypeOK, TableSound
<1>8. Reads' = Reads \cup ok
  BY <1>1, <1>2, <1>3, <1>5, NewTaskIsFresh, PendingAreTasks DEF Reads, ReadOps
<1>9. BuffersLive'
  BY <1>1, <1>2, <1>3, <1>8, NewTaskIsFresh, PendingAreTasks
     DEF BuffersLive, IInv, TypeOK, Reads
<1>10. Reliable /\ Kept => NoReadBufferLeaks'
  BY <1>1, <1>2, <1>8 DEF Kept, NoReadBufferLeaks, IInv, TypeOK
<1>11. ASSUME Reliable, Kept PROVE OpenConnectionsWatched'
  <2>1. PICK v \in Task : v = NewTask
    BY <1>3, NewTaskIsFresh
  <2>2. Watches(v, c)'
    BY <1>2, <1>5, <1>8, <1>11, <2>1 DEF Watches
  <2>3. \A d \in Conn, u \in Task : Watches(u, d) => Watches(u, d)'
    <3> SUFFICES ASSUME NEW d \in Conn, NEW u \in Task, Watches(u, d)
                 PROVE  Watches(u, d)'
      OBVIOUS
    <3>1. u # NewTask
      BY <1>3, NewTaskIsFresh DEF Watches, Reads
    <3> QED BY <3>1, <1>3, <1>5, <1>8 DEF Watches
  <2>4. \A d \in Conn \ {c} : sock'[d] = sock[d]
    BY <1>3 DEF IInv, TypeOK
  <2> QED BY <1>1, <1>11, <2>2, <2>3, <2>4 DEF Kept, OpenConnectionsWatched
<1>12. Sized'
  <2>1. \A u \in 1..ntasks : u \in Task /\ u \in 1..ntasks' /\ u # NewTask
    BY <1>3, NewTaskIsFresh, SizesAssumption DEF Task, IInv, TypeOK
  <2>2. \A u \in 1..ntasks : u \in 1..ntasks' /\ task_data'[u] = task_data[u]
    BY <1>5, <2>1
  <2>3. \A u \in Reads' : u \in Reads \/ InBounds(u)'
    BY <1>2, <1>5, <1>8 DEF InBounds
  <2> QED BY <1>3, <2>2, <2>3, OldTasksStay
<1> QED BY <1>6, <1>7, <1>9, <1>10, <1>11, <1>12 DEF IInv, Kept

LEMMA PostReadSomeKeeps ==
  ASSUME IInv, NEW t \in Task, PostReadSome(t)
  PROVE  IInv' /\ (Reliable /\ Kept => Kept')
<1>1. PICK ok \in Submitted({t}) : pending' = (pending \ {t}) \cup ok
  BY DEF PostReadSome
<1>2. ok \subseteq {t} /\ (Reliable => ok = {t})
  BY <1>1, SubmittedSome
<1>3. t \in Reads /\ UNCHANGED <<alive, sock, asked, told, ntasks, heap, overrun, closing, bare>>
  BY DEF PostReadSome, Arrives
<1>4. PICK n \in Bursts(t) :
        /\ task_data[t].progress + n < task_data[t].buff_length
        /\ task_data' = [task_data EXCEPT ![t].progress = @ + n]
  BY DEF PostReadSome
<1>5. /\ task_data' \in [Task -> [op_type : Ops, pfd : Conn \cup {NULL},
                                  buff_length : Nat, progress : Nat]]
      /\ \A u \in Task : /\ task_data'[u].op_type = task_data[u].op_type
                         /\ task_data'[u].pfd = task_data[u].pfd
                         /\ task_data'[u].buff_length = task_data[u].buff_length
                         /\ u # t => task_data'[u] = task_data[u]
      /\ task_data'[t].progress < task_data'[t].buff_length
  <2>1. n \in Nat
    BY SizesAssumption DEF Bursts
  <2> QED BY <1>4, <2>1 DEF IInv, TypeOK
<1>6. TypeOK'
  BY <1>1, <1>2, <1>3, <1>5, ReaderIsSound DEF IInv, TypeOK
<1>7. TableSound'
  BY <1>3, <1>5 DEF IInv, TableSound
<1>8. Reads' = (Reads \ {t}) \cup ok
  BY <1>1, <1>2, <1>3, <1>5, PendingAreTasks DEF Reads
<1>9. BuffersLive'
  BY <1>2, <1>3, <1>8 DEF BuffersLive, IInv
<1>10. Reliable /\ Kept => NoReadBufferLeaks'
  BY <1>2, <1>3, <1>8 DEF Kept, NoReadBufferLeaks
<1>11. Reliable /\ Kept => OpenConnectionsWatched'
  BY <1>2, <1>3, <1>5, <1>8, WatchedStays DEF Kept, Watches
<1>12. Sized'
  <2>1. \A u \in 1..ntasks : u \in Task /\ u \in 1..ntasks'
    BY <1>3, SizesAssumption DEF Task, IInv, TypeOK
  <2>2. \A u \in 1..ntasks : MadeTooSmall(u) => MadeTooSmall(u)'
    BY <1>5, <2>1 DEF MadeTooSmall
  <2>3. \A u \in Reads' : u \in 1..ntasks /\ (u = t \/ u \in Reads)
    BY <1>2, <1>3, <1>8, ReaderIsSound
  <2>4. InBounds(t)'
    BY <1>5 DEF InBounds
  <2>5. \A u \in Reads : u # t /\ u \in 1..ntasks /\ InBounds(u) => InBounds(u)'
    BY <1>5, <2>1 DEF InBounds
  <2> QED BY <1>3, <2>1, <2>2, <2>3, <2>4, <2>5, SizedStays DEF IInv, Sized
<1> QED BY <1>6, <1>7, <1>9, <1>10, <1>11, <1>12 DEF IInv, Kept

LEMMA EndReadKeeps ==
  ASSUME IInv, NEW t \in Reads, EndRead(t), asked' \in [Conn -> BOOLEAN]
  PROVE  IInv' /\ (Reliable /\ Kept => Kept')
<1>1. /\ pending' = pending \ {t}
      /\ heap' = [heap EXCEPT ![t] = "freed"]
      /\ closing' = [closing EXCEPT ![t] = @ + 1]
      /\ UNCHANGED <<alive, sock, told, ntasks, task_data, overrun, bare>>
  BY ReaderIsSound DEF EndRead, Freed, ClosePfd, tasks, IInv, TypeOK
<1>2. TypeOK'
  <2>1. closing' \in [Task -> Nat]
    BY <1>1, ReaderIsSound DEF IInv, TypeOK
  <2>2. heap' \in [Task -> {"none", "live", "freed", "broken"}]
    BY <1>1 DEF IInv, TypeOK
  <2> QED BY <1>1, <2>1, <2>2 DEF IInv, TypeOK
<1>3. TableSound'
  BY <1>1, ReaderIsSound DEF IInv, TypeOK, TableSound
<1>4. Reads' = Reads \ {t}
  BY <1>1 DEF Reads
<1>5. BuffersLive'
  BY <1>1, <1>4, PendingAreTasks DEF BuffersLive, IInv, TypeOK
<1>6. Reliable /\ Kept => NoReadBufferLeaks'
  BY <1>1, <1>4 DEF Kept, NoReadBufferLeaks, IInv, TypeOK
<1>7. \A c \in Conn, u \in Task : Watches(u, c) => Watches(u, c)'
  BY <1>1, <1>4, ReaderIsSound DEF Watches, IInv, TypeOK
<1>8. Reliable /\ Kept => OpenConnectionsWatched'
  BY <1>1, <1>7, WatchedStays DEF Kept
<1>9. Sized'
  BY <1>1, <1>4, OldTasksStay
<1> QED BY <1>2, <1>3, <1>5, <1>6, <1>8, <1>9 DEF IInv, Kept

LEMMA HttpWriteKeeps ==
  ASSUME IInv, NEW c \in Conn, HttpWrite(c)
  PROVE  IInv' /\ (Reliable /\ Kept => Kept')
<1> DEFINE new == TaskOf("HTTP_WRITE", c, 1, 0)
<1>1. PICK ok \in Submitted({NewTask}) : pending' = pending \cup ok
  BY DEF HttpWrite
<1>2. ok \subseteq {NewTask}
  BY <1>1, SubmittedSome
<1>3. /\ HasRoom /\ ntasks' = ntasks + 1
      /\ task_data' = [task_data EXCEPT ![NewTask] = new]
      /\ asked' = [asked EXCEPT ![c] = FALSE]
      /\ UNCHANGED <<alive, sock, told, heap, overrun, closing, bare>>
  BY DEF HttpWrite, Appended
<1>4. /\ new \in [op_type : Ops, pfd : Conn, buff_length : Nat, progress : Nat]
      /\ new.op_type \notin ReadOps
  BY DEF TaskOf, Ops, ReadOps
<1> HIDE DEF new
<1>5. /\ task_data' \in [Task -> [op_type : Ops, pfd : Conn \cup {NULL},
                                  buff_length : Nat, progress : Nat]]
      /\ task_data'[NewTask] = new
      /\ \A u \in Task \ {NewTask} : task_data'[u] = task_data[u]
  BY <1>3, <1>4, NewTaskIsFresh DEF IInv, TypeOK
<1>6. TypeOK'
  <2>1. ntasks' = ntasks + 1 /\ ntasks \in Nat /\ pending \subseteq 1..ntasks
    BY <1>3 DEF IInv, TypeOK
  <2>2. pending' \subseteq 1..ntasks'
    BY <1>1, <1>2, <2>1 DEF NewTask
  <2> QED BY <1>3, <1>5, <2>2, NewTaskIsFresh DEF IInv, TypeOK
<1>7. TableSound'
  BY <1>3, <1>4, <1>5, NewTaskIsFresh DEF IInv, TableSound
<1>8. Reads' = Reads
  BY <1>1, <1>2, <1>3, <1>4, <1>5, NewTaskIsFresh, PendingAreTasks DEF Reads
<1>9. BuffersLive' /\ (Kept => NoReadBufferLeaks')
  BY <1>3, <1>8 DEF BuffersLive, IInv, Kept, NoReadBufferLeaks
<1>10. \A d \in Conn, u \in Task : Watches(u, d) => Watches(u, d)'
  <2> SUFFICES ASSUME NEW d \in Conn, NEW u \in Task, Watches(u, d)
               PROVE  Watches(u, d)'
    OBVIOUS
  <2>1. u # NewTask
    BY <1>3, NewTaskIsFresh DEF Watches, Reads
  <2> QED BY <2>1, <1>3, <1>5, <1>8 DEF Watches
<1>11. Kept => OpenConnectionsWatched'
  BY <1>3, <1>10, WatchedStays DEF Kept
<1>12. Sized'
  <2>1. \A u \in 1..ntasks : u \in Task /\ u \in 1..ntasks' /\ u # NewTask
    BY <1>3, NewTaskIsFresh, SizesAssumption DEF Task, IInv, TypeOK
  <2>2. \A u \in 1..ntasks : u \in 1..ntasks' /\ task_data'[u] = task_data[u]
    BY <1>5, <2>1
  <2> QED BY <1>3, <1>8, <2>2, OldTasksStay
<1> QED BY <1>6, <1>7, <1>9, <1>11, <1>12 DEF IInv, Kept

LEMMA HttpCloseKeeps ==
  ASSUME IInv, NEW c \in Conn, HttpClose(c)
  PROVE  IInv' /\ (Reliable /\ Kept => Kept')
<1> DEFINE new == TaskOf("HTTP_CLOSE", c, 0, 0)
<1>1. /\ HasRoom /\ ntasks' = ntasks + 1
      /\ task_data' = [task_data EXCEPT ![NewTask] = new]
      /\ asked' = [asked EXCEPT ![c] = FALSE]
      /\ closing' = [closing EXCEPT ![NewTask] = @ + 1]
      /\ UNCHANGED <<alive, sock, told, heap, overrun, pending, bare>>
  BY DEF HttpClose, Appended, ClosePfd
<1>2. new \in [op_type : Ops, pfd : Conn, buff_length : Nat, progress : Nat]
  BY DEF TaskOf, Ops, ReadOps
<1> HIDE DEF new
<1>3. /\ task_data' \in [Task -> [op_type : Ops, pfd : Conn \cup {NULL},
                                  buff_length : Nat, progress : Nat]]
      /\ task_data'[NewTask] = new
      /\ \A u \in Task \ {NewTask} : task_data'[u] = task_data[u]
  BY <1>1, <1>2, NewTaskIsFresh DEF IInv, TypeOK
<1>4. TypeOK'
  <2>1. ntasks' = ntasks + 1 /\ ntasks \in Nat /\ pending \subseteq 1..ntasks
    BY <1>1 DEF IInv, TypeOK
  <2>2. pending' \subseteq 1..ntasks'
    BY <1>1, <2>1
  <2>3. closing' \in [Task -> Nat]
    BY <1>1, NewTaskIsFresh DEF IInv, TypeOK
  <2> QED BY <1>1, <1>3, <2>2, <2>3, NewTaskIsFresh DEF IInv, TypeOK
<1>5. TableSound'
  BY <1>1, <1>2, <1>3, NewTaskIsFresh DEF IInv, TypeOK, TableSound
<1>6. Reads' = Reads
  BY <1>1, <1>3, NewTaskIsFresh, PendingAreTasks DEF Reads
<1>7. BuffersLive' /\ (Kept => NoReadBufferLeaks')
  BY <1>1, <1>6 DEF BuffersLive, IInv, Kept, NoReadBufferLeaks
<1>8. \A d \in Conn, u \in Task : Watches(u, d) => Watches(u, d)'
  <2> SUFFICES ASSUME NEW d \in Conn, NEW u \in Task, Watches(u, d)
               PROVE  Watches(u, d)'
    OBVIOUS
  <2>1. u # NewTask
    BY <1>1, NewTaskIsFresh DEF Watches, Reads
  <2>2. closing'[u] = closing[u]
    BY <1>1, <2>1
  <2> QED BY <2>1, <2>2, <1>3, <1>6 DEF Watches
<1>9. Kept => OpenConnectionsWatched'
  BY <1>1, <1>8, WatchedStays DEF Kept
<1>10. Sized'
  <2>1. \A u \in 1..ntasks : u \in Task /\ u \in 1..ntasks' /\ u # NewTask
    BY <1>1, NewTaskIsFresh, OldTasks, SMTT(30) DEF IInv, TypeOK
  <2>2. \A u \in 1..ntasks : u \in 1..ntasks' /\ task_data'[u] = task_data[u]
    BY <1>3, <2>1
  <2> QED BY <1>1, <1>6, <2>2, OldTasksStay
<1> QED BY <1>4, <1>5, <1>7, <1>9, <1>10 DEF IInv, Kept

\* A write that ends, or is submitted again, and asks for a close or two.
LEMMA WriteStepKeeps ==
  ASSUME IInv, NEW t \in Task, WriteEnds(t) \/ WriteInterrupted(t)
  PROVE  IInv' /\ (Kept => Kept')
<1>1. PICK calls \in {1, 2} : closing' = [closing EXCEPT ![t] = @ + calls]
  BY DEF WriteEnds, WriteInterrupted, ClosePfd
<1>2. /\ t \in pending /\ task_data[t].op_type \notin ReadOps
      /\ pending' \subseteq pending /\ pending \ {t} \subseteq pending'
      /\ UNCHANGED <<alive, sock, asked, told, ntasks, task_data, heap, overrun, bare>>
  <2>1. CASE WriteEnds(t)
    BY <2>1 DEF WriteEnds, tasks, ReadOps
  <2>2. CASE WriteInterrupted(t)
    BY <2>2, SubmittedSome DEF WriteInterrupted, tasks, ReadOps
  <2> QED BY <2>1, <2>2
<1>3. closing' \in [Task -> Nat] /\ \A u \in Task : closing[u] > 0 => closing'[u] > 0
  BY <1>1 DEF IInv, TypeOK
<1>4. Reads' = Reads
  BY <1>2 DEF Reads
<1>5. TypeOK'
  BY <1>2, <1>3 DEF IInv, TypeOK
<1>6. TableSound'
  BY <1>1, <1>2 DEF IInv, TypeOK, TableSound
<1>7. BuffersLive' /\ (Kept => NoReadBufferLeaks')
  BY <1>2, <1>4 DEF BuffersLive, IInv, Kept, NoReadBufferLeaks
<1>8. Kept => OpenConnectionsWatched'
  BY <1>2, <1>3, <1>4, WatchedStays DEF Kept, Watches
<1>9. Sized'
  BY <1>2, <1>4, OldTasksStay
<1> QED BY <1>5, <1>6, <1>7, <1>8, <1>9 DEF IInv, Kept

LEMMA ClosedKeeps ==
  ASSUME IInv, NEW t \in Task, Closed(t)
  PROVE  IInv' /\ (Kept => Kept')
<1> DEFINE c == task_data[t].pfd
<1>1. /\ closing[t] > 0 /\ closing' = [closing EXCEPT ![t] = @ - 1]
      /\ sock' = [sock EXCEPT ![c] = "closed"]
      /\ told' = [told EXCEPT ![c] = TRUE]
      /\ UNCHANGED <<alive, asked, ntasks, task_data, heap, overrun, pending, bare>>
  BY DEF Closed, Shut, tasks
<1>2. c \in Conn
  BY <1>1 DEF IInv, TableSound
<1>3. TypeOK'
  <2>1. closing' \in [Task -> Nat]
    BY <1>1 DEF IInv, TypeOK
  <2>2. told' \in [Conn -> BOOLEAN]
    BY <1>1 DEF IInv, TypeOK
  <2>3. sock' \in [Conn -> {"new", "open", "hungup", "closed"}]
    BY <1>1 DEF IInv, TypeOK
  <2> QED BY <1>1, <2>1, <2>2, <2>3 DEF IInv, TypeOK
<1>4. TableSound'
  BY <1>1 DEF IInv, TypeOK, TableSound
<1>5. Reads' = Reads
  BY <1>1 DEF Reads
<1>6. BuffersLive' /\ (Kept => NoReadBufferLeaks')
  BY <1>1, <1>5 DEF BuffersLive, IInv, Kept, NoReadBufferLeaks
<1>7. ASSUME Kept PROVE OpenConnectionsWatched'
  <2> SUFFICES ASSUME NEW d \in Conn, sock'[d] \in {"open", "hungup"}
               PROVE  d \in bare' \/ \E u \in Task : Watches(u, d)'
    BY DEF OpenConnectionsWatched
  <2>1. d # c /\ sock'[d] = sock[d]
    BY <1>1, <1>2 DEF IInv, TypeOK
  <2>2. \A u \in Task : Watches(u, d) => Watches(u, d)'
    BY <1>1, <1>5, <2>1 DEF Watches, IInv, TypeOK
  <2> QED BY <1>1, <1>7, <2>1, <2>2 DEF Kept, OpenConnectionsWatched
<1>8. Sized'
  BY <1>1, <1>5, OldTasksStay
<1> QED BY <1>3, <1>4, <1>6, <1>7, <1>8 DEF IInv, Kept

\* A step of the clients or the kernel that only moves sockets.
LEMMA SocketStepKeeps ==
  ASSUME IInv, NEW c \in Conn, ClosedBare(c) \/ HangUp(c)
  PROVE  IInv' /\ (Kept => Kept')
<1>1. /\ alive' \in BOOLEAN /\ sock' \in [Conn -> {"new", "open", "hungup", "closed"}]
      /\ bare' \subseteq bare /\ \A d \in bare : d \in bare' \/ sock'[d] = "closed"
      /\ \A d \in Conn : sock'[d] \in {"open", "hungup"} => sock[d] \in {"open", "hungup"}
      /\ UNCHANGED <<asked, told, ntasks, task_data, heap, overrun, pending, closing>>
  BY DEF ClosedBare, HangUp, Shut, tasks, IInv, TypeOK
<1>2. Reads' = Reads
  BY <1>1 DEF Reads
<1>3. TypeOK' /\ TableSound'
  BY <1>1 DEF IInv, TypeOK, TableSound
<1>4. BuffersLive' /\ (Kept => NoReadBufferLeaks')
  BY <1>1, <1>2 DEF BuffersLive, IInv, Kept, NoReadBufferLeaks
<1>5. Kept => OpenConnectionsWatched'
  BY <1>1, <1>2 DEF Kept, OpenConnectionsWatched, Watches
<1>6. Sized'
  BY <1>1, <1>2, OldTasksStay
<1> QED BY <1>3, <1>4, <1>5, <1>6 DEF IInv, Kept

-----------------------------------------------------------------------------
(* The theorems.                                                           *)

LEMMA NextKeeps == IInv /\ [Next]_vars => IInv' /\ (Reliable /\ Kept => Kept')
<1> SUFFICES ASSUME IInv, [Next]_vars
             PROVE  IInv' /\ (Reliable /\ Kept => Kept')
  OBVIOUS
<1>1. ASSUME NEW c \in Conn, ConnStep(c)
      PROVE  IInv' /\ (Reliable /\ Kept => Kept')
  BY <1>1, AcceptKeeps, HttpWriteKeeps, HttpCloseKeeps, SocketStepKeeps DEF ConnStep
<1>2. ASSUME NEW t \in Task, NetworkRead(t)
      PROVE  IInv' /\ (Reliable /\ Kept => Kept')
  <2>1. PICK req \in Requests, n \in 1..task_data[t].buff_length :
          Respond(t, req, task_data[t].progress + n)
    BY <1>2 DEF NetworkRead
  <2>2. Arrives(t) /\ task_data[t].progress + n \in Nat
    BY <1>2, ReaderIsSound DEF NetworkRead, Arrives
  <2>3. task_data[t].buff_length > 0 /\ ~MadeTooSmall(t)
    BY <1>2, <2>1, ReaderIsSound DEF NetworkRead, Arrives, MadeTooSmall
  <2> QED BY <2>1, <2>2, <2>3, RespondKeeps
<1>3. ASSUME NEW t \in Task, PostReadAll(t)
      PROVE  IInv' /\ (Reliable /\ Kept => Kept')
  <2>1. PICK req \in Requests, n \in Bursts(t) :
          LET size == task_data[t].progress + n
          IN /\ ~Unallocatable(size)
             /\ req.req_type = "POST" /\ Announces(req)
             /\ LargeSize(req) = task_data[t].buff_length
             /\ Respond(t, req, size)
    BY <1>3 DEF PostReadAll
  <2> DEFINE size == task_data[t].progress + n
  <2>2. Arrives(t) /\ size \in Nat
    <3>1. n \in Nat
      BY SizesAssumption DEF Bursts
    <3> QED BY <1>3, <3>1, ReaderIsSound DEF PostReadAll, Arrives
  <2> HIDE DEF size
  <2>3. /\ ~Unallocatable(size) /\ Announces(req)
        /\ LargeSize(req) = task_data[t].buff_length /\ Respond(t, req, size)
    BY <2>1 DEF size
  <2>4. ASSUME Serve(t, req, size)
        PROVE  task_data[t].buff_length > 0 /\ ~MadeTooSmall(t)
    <3>1. ~PartialBody(req, size) /\ ~Refused(req, size)
      BY <2>4 DEF Serve
    <3>2. CASE req.content_length >= 0
      BY <2>3, <3>2, LargeSizes DEF MadeTooSmall
    <3>3. CASE ~(req.content_length >= 0)
      <4>1. HasContent(size)
        BY <2>3, <3>1, <3>3 DEF Refused
      <4>2. /\ req.content_length \in Int /\ Word \in Nat /\ HeaderSize \in Nat
            /\ req.content_length < 0
        BY <2>3, <3>3, LargeSizes
      <4>3. /\ SizeT(req.content_length) = req.content_length + Word
            /\ Word <= 2 * SizeT(req.content_length)
        BY <2>3, <4>2, LargeSizes
      <4>4. size - HeaderSize < SizeT(req.content_length)
        BY <2>2, <2>3, <4>2, <4>3 DEF Unallocatable
      <4> QED BY <2>3, <3>1, <4>1, <4>4 DEF PartialBody
    <3> QED BY <3>2, <3>3
  <2> QED BY <2>2, <2>3, <2>4, RespondKeeps
<1>4. ASSUME NEW t \in Task, ReadEof(t) \/ ReadError(t)
      PROVE  IInv' /\ (Reliable /\ Kept => Kept')
  <2>1. t \in Reads /\ EndRead(t)
    BY <1>4 DEF ReadEof, ReadError
  <2>2. asked' \in [Conn -> BOOLEAN]
    BY <1>4 DEF ReadEof, ReadError, IInv, TypeOK
  <2> QED BY <2>1, <2>2, EndReadKeeps
<1>5. ASSUME NEW t \in Task,
             ReadStep(t) \/ WriteEnds(t) \/ WriteInterrupted(t) \/ Closed(t)
      PROVE  IInv' /\ (Reliable /\ Kept => Kept')
  BY <1>2, <1>3, <1>4, <1>5, PostReadSomeKeeps, WriteStepKeeps, ClosedKeeps DEF ReadStep
<1>6. CASE AcceptError \/ Crashes
  <2>1. UNCHANGED <<sock, asked, told, ntasks, task_data, heap, overrun, pending, closing, bare>>
        /\ alive' \in BOOLEAN
    BY <1>6 DEF AcceptError, Crashes, tasks
  <2> QED BY <2>1, EndKeeps
<1>7. CASE UNCHANGED vars
  BY <1>7, EndKeeps DEF vars, tasks, IInv, TypeOK
<1> QED BY <1>1, <1>5, <1>6, <1>7 DEF Next

LEMMA InitSound == Init => IInv /\ Kept
<1> SUFFICES ASSUME Init PROVE IInv /\ Kept
  OBVIOUS
<1>1. /\ NoTask \in [op_type : Ops, pfd : Conn \cup {NULL}, buff_length : Nat, progress : Nat]
      /\ MaxTasks \in Nat
  BY SizesAssumption DEF NoTask, TaskOf, Ops
<1>2. TypeOK
  <2>1. task_data \in [Task -> [op_type : Ops, pfd : Conn \cup {NULL},
                               buff_length : Nat, progress : Nat]]
    BY <1>1 DEF Init
  <2>2. ntasks \in 0..MaxTasks /\ closing \in [Task -> Nat]
    BY <1>1 DEF Init
  <2> QED BY <2>1, <2>2 DEF Init, TypeOK
<1>3. TableSound
  BY DEF Init, TableSound
<1>4. BuffersLive /\ Sized /\ Kept
  BY DEF Init, BuffersLive, Sized, Reads, Kept, NoReadBufferLeaks, OpenConnectionsWatched
<1> QED BY <1>2, <1>3, <1>4 DEF IInv

\* The state is well typed: only tasks of the table have operations in flight.
THEOREM TypeCorrect == Spec => []TypeOK
<1>1. Init => IInv
  BY InitSound
<1>2. IInv /\ [Next]_vars => IInv'
  BY NextKeeps
<1>3. IInv => TypeOK
  BY DEF IInv
<1> QED BY <1>1, <1>2, <1>3, PTL DEF Spec

\* For any number of connections, whatever clients send and whatever fails, no read is in
\* flight into a buffer that has been freed, no buffer is freed twice, and nothing is
\* written past the end of one that was not made for a negative Content-Length.
THEOREM ReadBuffersAreSafe == Spec => []BuffersLiveWhileRead
<1>1. Init => IInv
  BY InitSound
<1>2. IInv /\ [Next]_vars => IInv'
  BY NextKeeps
<1>3. IInv => BuffersLiveWhileRead
  BY DEF IInv, BuffersLive, Sized, BuffersLiveWhileRead
<1> QED BY <1>1, <1>2, <1>3, PTL DEF Spec

\* If submissions succeed, no buffer that was allocated for a read is left behind
\* without a read, however the connection ends.
THEOREM BuffersAreFreed ==
  ASSUME Reliable
  PROVE  Spec => []NoReadBufferLeaks
<1>1. Init => IInv /\ Kept
  BY InitSound
<1>2. IInv /\ Kept /\ [Next]_vars => IInv' /\ Kept'
  BY NextKeeps, Reliable
<1>3. Kept => NoReadBufferLeaks
  BY DEF Kept
<1> QED BY <1>1, <1>2, <1>3, PTL DEF Spec

\* If submissions succeed no open connection is forgotten, whatever the clients
\* send and whichever reads and writes fail.
THEOREM NothingIsForgotten ==
  ASSUME Reliable
  PROVE  Spec => []OpenConnectionsWatched
<1>1. Init => IInv /\ Kept
  BY InitSound
<1>2. IInv /\ Kept /\ [Next]_vars => IInv' /\ Kept'
  BY NextKeeps, Reliable
<1>3. Kept => OpenConnectionsWatched
  BY DEF Kept
<1> QED BY <1>1, <1>2, <1>3, PTL DEF Spec
=============================================================================
