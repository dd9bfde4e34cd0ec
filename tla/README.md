# A TLA+ model of network_server

`network_server` is a C++ library for HTTP servers on top of io_uring.  An
application derives from `application_methods`, the library calls it back when
something has been read, written or closed, and it answers with `http_write`,
`http_send_file` and the like.  This directory has TLA+ modules of the library,
TLC configurations that check them on small instances, and proofs of some of
their properties for all instances.

Run it from this directory: `tlc -config MCLruCache.cfg MCLruCache`, and
`tlapm LruCacheProofs.tla`.

## The system

All of the library's work happens in one thread, the event loop of
`event_manager` (a submodule that is not part of this repository).  It submits
reads, writes and accepts to io_uring and calls the methods of `network_server`
when they complete.  A callback therefore runs without interruption, but the
completions of different operations come in any order, short, interrupted
(`EINTR`), failed, or never if the submission failed.

| Component | State | Operations | Interacts with | Modelled in |
|---|---|---|---|---|
| Task table (`core.cpp`, `network_server.hpp`) | `task_data`, one record per operation ever begun; `free_task` does nothing | `get_task*`, `application_close_callback`, `network_read_procedure` | every operation gets a task, whose id comes back with the completion | `ConnectionReads`, `Transfers` |
| Accept (`accept.cpp`) | none | `accept_callback` | starts the first read of a connection | `ConnectionReads` |
| Reads (`read.cpp`, `http.cpp`) | the task's buffer, its length and progress | NETWORK_READ, HTTP_POST_READ, RAW_READ, HTTP_SEND_FILE, INOTIFY_READ completions; `http_response_method` | callbacks of the application; the cache; `close_pfd` | `ConnectionReads`, `Transfers`, `HttpSendFile`, `CacheCoherence` |
| Writes and vectors (`write.cpp`, `writev.cpp`, `readv.cpp`, `common.cpp`, `raw_ops.cpp`, `websocket.cpp`) | the task's buffer or iovecs, and progress | submission, partial completion, retry, end | the application lends its buffer until the callback | `Iovecs`, `Transfers` |
| `http_send_file` (`http_send_file.cpp`) | the task: file, buffer, ranges and the one being sent | request; read of the file; one response per range; end | the cache, on both ends of a request | `HttpSendFile` |
| File cache (`lru.cpp`, `lru.hpp`) | a doubly linked list of files, with lock counts and inotify watches | get, unlock, add or update, remove, inotify event, destruction | `http_send_file`; inotify reads | `LruCache`, `CacheCoherence` |
| Request parser (`http_request.cpp`) | the fields and text of one request | construction, `get_ranges`, `extract_post_data_items` | decides how a connection goes on; gives `http_send_file` its ranges | `HttpRequest`, `ConnectionReads` |
| Response builder (`http_response.cpp`), utilities, debug allocator | none that matters | formatting, base64, listener set-up, counters | | lengths only, in `HttpSendFile` |
| Events (`event.cpp`) | none | `event_callback` | the application | |

What is hard here:

- **Ownership of memory across completions.** A buffer is allocated in one
  callback, used by the kernel for an unknown time, and freed in another one,
  which depends on how the operation ends.
- **Locks by name.** A request unlocks the *name* of a file in the cache.
  Whether that is the lock it took depends on what other requests did meanwhile.
- **State that changes meaning.** `task.buff` is first a file and then an array
  of iovecs, `task.progress` counts file bytes and then response bytes, and a
  POST read turns into a normal read in place.
- **Ignored results.** Most submissions are not checked; one that fails leaves
  an operation that never completes.
- **A list by hand.** Head, tail and neighbours are set by separate assignments
  in each of insertion, eviction, promotion and removal.
- **Handlers that call the application in their middle.** It may begin new
  operations there, and `task_data` may move under the handler's reference.
- **Files that change behind the cache.** One event of each read of inotify is
  processed, the watch is set only after the file has been read and sent, it may
  not be had at all, and two paths of one file share a watch.
- **Text cut in place.** The form parser writes NULs into the text that it
  searches next; the range parser computes with `size_t` that wraps.
- **Numbers from clients.** A Content-Length and the ends of ranges go through the
  int of `atoi` to `size_t`, so that they can become huge or lose bits.

Each component's correctness properties, in words:

- Cache: the list is one chain that agrees with `num_items`; there is one item
  per file; the lock count is the number of users; a buffer in use is never
  freed; an outdated item is never handed out; every buffer has one owner.
- Cache and files: an item that is out of step with its file is found outdated;
  no watch outlives the items it is for.
- `http_send_file`: buffers and locks are given back exactly once however the
  request ends; every request ends; a success means that all bytes were sent.
- Connections: no buffer is freed under a read in flight, leaks, or is too small for
  what is read into it; every open connection has a read in flight; a client that hangs up is closed and the
  application told.
- Transfers: memory lent by the application is returned once and not touched
  after; the bytes moved are those of the loan, once and in order; the copies of
  iovecs are freed once; every loan ends.
- Parser: a range has the bytes that were asked for and starts inside the file; a
  request is refused only for a cause; the items of a form are its parts.

`PROJECT.json` lists the hazards with their lines and the properties for each.

## Modules

| Module | What it is | Code |
|---|---|---|
| `NodeList` | a doubly linked list as `head`, `tail`, `next`, `prev`: unlink, push to the front, promote | the pointer assignments of `lru.cpp` |
| `LruCache` | every method of `lru_file_cache` down to pointers and heap, with callers | `lru.cpp`, `lru.hpp` |
| `CacheItems` | the cache as a sequence of items, most recent first, as operators | the same, without pointers |
| `FileCache` | abstract specification: what the cache promises, a state machine over `CacheItems` | |
| `LruCacheRefinement` | the refinement mapping from `LruCache` to `FileCache` | |
| `CacheCoherence` | files, watches and events around `CacheItems` and its requests | `lru.cpp`, INOTIFY_READ in `read.cpp`, the cache's side of `http_send_file.cpp` |
| `HttpSendFile` | `http_send_file` for several clients over `CacheItems` | `http_send_file.cpp` and the HTTP_SEND_FILE branches of the callbacks |
| `ConnectionReads` | connections from accept to close | `accept.cpp`, `read.cpp`, `http.cpp`, `core.cpp`, `close.cpp`, the end of `write.cpp` |
| `Iovecs` | arrays of iovecs and what is left of them after a short operation | `vector_ops_progress` in `common.cpp` |
| `Transfers` | every read and write on memory of the application | `http.cpp`, `raw_ops.cpp`, `websocket.cpp`, `write.cpp`, `writev.cpp`, `readv.cpp`, RAW_READ in `read.cpp`, `close.cpp` |
| `LentBuffers` | abstract specification: what an application that lends memory can rely on | |
| `TransfersRefinement` | the refinement mapping from `Transfers` to `LentBuffers` | |
| `HttpRequest` | `get_ranges` and `extract_post_data_items`, one turn of their loops at a time | `http_request.cpp` |
| `DataLemmas` | lemmas on numbers and sequences, induction among them, that the proofs share | |
| `NodeListProofs`, `LruCacheProofs`, `CacheCoherenceProofs`, `HttpSendFileProofs`, `ConnectionReadsProofs`, `TransfersProofs`, `HttpRequestProofs` | proofs | |
| `MCLruCache`, `MCCacheCoherence`, `MCHttpSendFile`, `MCConnectionReads`, `MCTransfers`, `MCHttpRequest` | instances for TLC | |

`CacheItems` is used three times: `FileCache` makes the abstract cache of it,
which `LruCache` is shown to implement, and `HttpSendFile` and `CacheCoherence`
compose requests and files with the same operators.  So what is checked of
requests is checked against a cache that the pointer code implements.

### LruCache

Variables are the members of the class: `list` has `head`, `tail` and the nodes'
pointers, `num_items` the counter, and one function each for the fields of
`item_data`; `live` and `allocated` are the heap's nodes and buffers.  Callers
appear with what the class demands of them (`http_send_file.cpp` is the only
one): who got an item holds it until it unlocks the name, and who did not may
read the file and offer a buffer.  Each return path of each method is an action:
`GetHit`, `GetMiss`, `GetStale`, `GetStaleInUse`, `Unlock`, `AddUpdates`,
`AddInserts`, `AddEvicts`, `AddRefused`, `ProcessInotifyEvent`, `RemoveItem`,
`Destroy`.

### CacheCoherence

Paths lead to inodes, inodes have versions, and the content of an item's buffer
is the inode and version that were read.  `Modify`, `Delete` and `MoveAway` are
what others do to the files; inotify's own behaviour is taken from its manual
page: a file has one watch, whose descriptor every `inotify_add_watch` on it
returns; an event equal to the last one in the queue is merged with it;
`inotify_rm_watch` and the deletion of a file end the watch with an IN_IGNORED
event, which also reaches an item that shared the watch; `inotify_add_watch` may
fail, and the item then has the watch `NoWatch` (-1), since the code does not test
the result; what the full queue has no room for is lost, and an event with the
descriptor -1 tells so, which `process_inotify_event` takes for one of an item
without a watch.  That a deleted file lives on until it is closed is left out.

`ReadEvents` is the INOTIFY_READ branch: the buffer may hold `Batch` events, of
which the first is processed and the others are lost when the buffer is
cleared.  `Process` finds the first item with the watch descriptor, and `Miss`,
`Offer` and the removals that they lead to add and end watches.

The server keeps no record of the changes that it fails to notice.  `blind` is a
history variable that does: for each item, the known ways in which it lost touch
with its file.  They are

- `late`: the file changed between the read of it and the watch on it;
- `moved`: IN_MOVE_SELF is not asked for;
- `unwatched`: `inotify_add_watch` failed;
- `shared`: the event went to another item with the same watch;
- `overwritten`: the event came second in a read;
- `overflow`: the kernel's queue had no room for the event.

`LostOnlyInKnownWays` says that there is no seventh way, which is what makes the
list worth having; all but the last one are weaknesses of the code, and the last
one is one too as far as the event that tells of an overflow is not heeded.

### HttpSendFile

One task per client goes through `idle`, `reading`, `sending` and an end
(`done`, `failed` when a write failed, `dropped`, or `refused` with a 416).  The
actions are the return paths of `http_send_file` and the branches of the two
completion callbacks.  `op` says whether the task's operation is in flight or
was rejected, in which case nothing ever happens to the task again.  Bytes are
counted, not named: what the properties tell apart is how many are sent, where
a body is taken from, and what its count began with (`from`).  `Faults` says what
the kernel does to a run: short operations, interruptions (at most `MaxEintr` for
each client), errors, failing submissions.

`SuccessMeansSent` says what a success can be relied on for: every byte that was
announced was sent, but for the last one of a range, whose iovec is one byte
short.  Requests with a response whose count began above zero are excepted,
because `task.progress` is reset neither between the read of the file and the
first response nor between two responses.

### ConnectionReads

`task_data` is the table; `pending` are the tasks with an operation in flight,
and `heap[t]` is the buffer that the server allocated for task `t`, `broken` if
it is freed twice.  `NetworkRead` and `PostReadAll` are the completions that end
in `network_read_procedure`, which has three outcomes: `ReadOn` (part of a POST
body: a larger buffer is read into), `Serve` (the application is called, the
task reads again) and `Refuse` (the connection is closed).  Requests are records
of what `http_response_method` looks at: POST or not, valid or not, and the
Content-Length; sizes are in units, with `HeaderSize` the length of a complete
header, so that bodies can be missing, partial, complete or longer than
announced, and the buffer for a body smaller than, as large as or larger than
`READ_SIZE`.  The Content-Length may be negative, as far as `NegBody` below zero:
`SizeT` is the conversion of the int that `atoi` makes of it to a `size_t` of `Word`
values, which is a body without end, and `LargeSize` the buffer for it, which wraps
again.  Where that is half of all addresses or more there is no memory for it, and
the copy into it ends the server (`ReadOnFails`); otherwise it is less than a
header, and the copy and the reads go past its end, which sets `overrun`, after
which the server may end at any time (`Crashes`) or seem to go on.  What else the
memory past the end of a buffer was is left out.

A failed read of the NETWORK_READ kind calls the application with a failed request,
which it may still answer.  The application may answer a request at any later time by writing
or closing, or not at all.

`event_manager` is modelled from its use: an operation that was submitted
completes once, and each `close_pfd` leads to one `close_callback` with its
task.  The repeated "connection closed: 3" lines of `errors.txt` agree with it.
That a closed `pfd` may be given to a new connection is left out, as are short
writes, which are in `Transfers`.  An interrupted one is not: it is submitted again
and then taken to be complete, which closes the connection (`WriteInterrupted`).

### Transfers

A task has the loan (`lent`: one block for a buffer, several for iovecs) and the
`progress` field; `flight` has the iovecs of its submissions, `moved` the bytes
that were transferred, by position in the loan, in the order in which they were.
A handler is split where it calls the application: one action up to the
callback, during which `calling` is set and the application may `Begin` more
operations, and `AfterCallback` for the rest: freeing the copy of the iovecs and
`close_pfd`.  `get_task` may move `task_data` during the callback; the handler's
reference is then in `dangling`, and what it frees through it is arbitrary.

`flight` is a set because write_callback can have two submissions of one write:
on `EINTR` it submits the write again and then runs the code below the switch
with the negative result.  `Interruptible` says which operations are interrupted
in an instance; plain writes among them are what `Uninterrupted` excepts from the
properties, and what `AlwaysUnused` is violated by.  `raw_writev` submits a
`readv`, so RAW_WRITEV is among the reads.  The model has no direction of a
transfer, and no pfd: no handler looks into it.

`LentBuffers` is what the application sees of a loan: its bytes come one after
the other, and one report ends it and tells how many there were.

### HttpRequest

Text is a sequence of tokens: the strings the code searches for, the characters
it cuts at, NULs and words.  `get_ranges` takes one spec of the header in each
turn, in arithmetic modulo `Word`.  `Value` is what a number in the text comes to:
`strtol` keeps it in the range of a long (`Cut`), of which `atoi` returns the lower
bits as an int, which is then converted to `size_t`.  So a number above `IntMax` may
become huge, or smaller than it is; one that becomes zero is taken for a malformed
one.  `Fits` says that a number is not changed by all this, and the properties
require what is asked for in such numbers only.  `extract_post_data_items` finds the next
boundary, cuts the part's fields by writing NULs, and goes on behind the
boundary.  Its quirks are kept: `max_ptr` is the last byte instead of the one
after it, the section with a part's fields includes its data but not that data's
last byte, and `items` keeps what earlier calls found.

Forms are well formed, as browsers write them, and the boundary is one that is not
in the data (`WordsAssumption`, `FormsAssumption`); the data may have anything else
in it, the searched strings included.  A header whose range string is
shorter than "bytes=" and the carriage return that `content_type` may keep are
left out.

## What the runs check

Passing:

| Run | Instance | Shows |
|---|---|---|
| `lru_cache` | 4 files, 2 callers, a cache of 3 items (`CACHE_SIZE`), 5 buffers | list, counter, names, locks, buffers, outdated items; the cache implements `FileCache` |
| `coherence` | 2 paths, of one file or two, 2 clients, caches of 1 and 2 items, 2 changes, a queue of 2 events, reads of up to 2 that may fail, watches that may fail | an item out of step with its file has an event to come or was lost in one of the six known ways; no watch outlives its items; under `FairSpec` a stale item does not stay unless it is known to be lost |
| `send_file` | 3 clients, a file of 2 bytes and an empty one, the whole file, one range or two, cache of 1, short and failing operations | one owner for every buffer; no lock outlives its user; only a task that read the file itself takes locks it does not own |
| `send_file_ends` | 2 clients, the same files and ranges, every fault, rejected submissions and interruptions included | what success means; one owner for every buffer even when tasks never complete; under `FairSpec` every task ends unless a submission was rejected |
| `reads` | 2 connections, 4 tasks, reads of 3 units, headers of 2, a Content-Length from -3 to 2, everything may fail | no buffer is freed under a read, or twice; none is too small for what is read into it, unless it was made for a negative Content-Length |
| `reads_end` | the same, while submissions succeed | no read buffer leaks; open connections are watched; who hangs up is closed and the application told |
| `transfers` | 2 operations of any kind, on buffers of 0 and 2 bytes or on blocks of 2, 0 and 1, the second one possibly begun in the callback of the first; short, interrupted, failing, at the end of the stream, first submissions failing | memory comes back once and is not touched afterwards; operations resume where they stopped; copies of iovecs are freed once; every loan ends; the application sees `LentBuffers` |
| `request` | every list of up to two specs with numbers that an int holds (up to 3), that it does not (4, 8, 9), that a long does not (16) or with a sign, missing or malformed, for files of 0, 1, 2, 4 and 10 bytes; every form of up to two parts with six kinds of data; two calls each | ranges have what was asked for in numbers that an int holds, and start inside the file; refusals have a cause; the items of a form are its parts, one for each in every call |

Violated, each with a trace that shows how the code departs from a sentence of
the repository (`findings` in `PROJECT.json` quotes them):

| Run | What happens |
|---|---|
| `send_file_lock` | a request that read the file itself drops another one's lock and replaces the buffer that one is sending |
| `send_file_ranges` | the second range is sent from the array of iovecs instead of the file |
| `reads_one` | a POST with its body leaves two reads in flight on its connection |
| `transfers_interrupted` | an interrupted write is submitted again, and also reported to the application as complete while it is in flight |

The properties that fail are stated separately from those that hold, and where a
property has an exception it is the smallest that the code needs:
`OnlyReadersStealLocks` says how far the damage of `send_file_lock` goes,
`LostOnlyInKnownWays` names the ways in which changes are missed, and
`BuffersLiveWhileRead` the one kind of request whose buffer is too small.

Every property of a passing run has a mutant: a small bug in one definition
(named after it, in front of it) that makes TLC find the property violated.

### Departures without a run

What the code does differently from what its texts or its purpose suggest, as far
as the models show it and no run is there for it:

- `http_send_file.cpp:191`: when neither the file nor the 404 page can be opened
  the application gets no callback, although `README.md:20` promises one
  "regardless of error outcome" (`RequestNotFound`, outcome `dropped`).
- `http_send_file.cpp:15`: `task.progress` is not reset after the file has been
  read, or between responses, so that a short write is resumed in the wrong place,
  or a response taken for complete (`Response.from`).
- `http_send_file.cpp:96`: a failed writev is reported as a success.
- `http_send_file.cpp:50`: the iovec of a range lacks the last byte that the
  header announces.
- `http_send_file.cpp:161`: a cached file whose writev cannot be submitted stays
  locked for ever.
- `callbacks/read.cpp:143`: a connection's read that cannot be submitted again
  leaves the connection open with nothing to close it; `reads_end` assumes that
  it does not happen.
- `callbacks/read.cpp:25`: a failed raw read is reported without `failed_req`, with
  a pointer into the middle of the buffer if some of it had been read, and a raw
  read that meets the end of its stream is not reported at all.
- `callbacks/read.cpp:157`: when a read of inotify fails, no later change is
  noticed.
- `callbacks/readv.cpp:44`: a readv at the end of its stream is submitted again
  without end (`LoansEnd` excepts it).
- `raw_ops.cpp:16`: `raw_writev` submits a readv.
- `http.cpp:71`, and the other vector operations: the copy of the iovecs leaks
  when the submission fails.
- `http_request.cpp:341`: a suffix as long as the file, or longer, has a start that
  wraps.  `http_request.cpp:311`: a range that starts at the last byte is refused
  with a 416, and no range of an empty file is.
- `http_request.cpp:309`: a first byte from 2^31 on is converted to a number that is
  huge, so that the request is refused with a 416 although the file has that byte, or
  that lacks the upper bits, so that other bytes are announced.
  `http_request.cpp:332`: so is the last byte, and the range ends far outside the
  file, or early, even before it starts.  `http_request.cpp:338`: and a suffix, also
  one that is written with a sign, whose start then lies outside the file.
- `http.cpp:16`: a negative Content-Length is a huge `size_t`.  The buffer of line 33
  is then smaller than what line 38 copies into it and line 43 reads into it
  (`overrun`; `BuffersLiveWhileRead` names this case), or there is no memory for it,
  which line 37 does not test.
- `lru.cpp:58`: the result of `inotify_add_watch` is not tested.  An item whose file
  cannot be watched stays in the cache, and no change of its file is noticed (way
  `unwatched`).
- `http_response.cpp:104`: the constructor with a content writes the size without
  the name of the header field.  This one is from reading, not from a model.

### Bounds

- Cache: with three items there are a head, a tail and one in between; with one
  more file than items it evicts, and refuses when all are in use; two buffers
  more than items are one on offer for each caller.  The proofs of `LruCache`
  hold for every size.  In `HttpSendFile` a cache of one item makes every
  addition meet an item in use or evict one.
- `CacheCoherence`: two paths are what it takes to share a watch or to be evicted
  for another, and two requests to be late.  `MaxChanges` is 2: one change to miss
  and one more to be told of it, or a modification and a deletion.  `MaxInodes` of
  3 is two files and a replacement, `MaxWatches` of 2 is a watch for each item or
  one item that comes back after its watch has ended.  `MaxEvents` is the kernel's limit (16384 by default): a
  queue of 2 overflows with the third event.  Two events in a `Batch` are one
  processed and one overwritten.  The liveness property rules
  out symmetry; `MCInit` leaves out the initial states that differ from others
  only in how the inodes are numbered, which have no order.
- Files of two bytes are the smallest that can be read and written in two parts
  with a boundary inside a body; an empty file takes the path of a read that
  returns 0 at once.  Three clients are one that sends a cached file, one that
  cached it and one that replaces it.  One interruption per client (`MaxEintr`)
  is enough to reach every retry; fairness must not depend on the bound, and does
  not, since every retry is a step of its own.  Ranges that end before they start,
  whose length wraps, are left out (`RangesAssumption`), and so are ranges that
  leave the file; no range starts at the last byte, which `get_ranges` refuses.
- `MaxTasks` bounds `task_data`, which only grows in the code.  In
  `ConnectionReads` four tasks are two connections with one more read and an
  answer each, or one connection with a POST in two parts, its extra read and its
  answer.  In `Transfers` two tasks are an operation and one that is begun in its
  callback.  The bound only keeps requests and calls from coming; operations in
  flight complete without allocating.  The proofs hold for every `MaxTasks`.
  A Content-Length of -3 with a header of 2 wraps twice, -1 and -2 leave a buffer of
  1 and of 0 units.  `Word` is 10, so that half of it is more than any buffer that a
  request of the instance needs.  `MaxBurst` bounds what one read of the rest of a
  body returns, since after a negative length that rest is almost all of memory.
- `Transfers`: blocks of 2, 0 and 1 bytes can end a part inside a block, at its
  end and before an empty one.  `Errno` is 4, the value of `EINTR`; with `Word`
  16 for the 2^64 of `size_t` a progress minus `Errno` wraps as in the code.
  `MaxReports` bounds the reports of a write that is interrupted again and again.
- `HttpRequest`: sizes up to 4 and numbers up to 4 put both ends of a range before,
  at and after the last byte of each file.  `IntMax` is 3 and `Word` 32: 4 becomes
  negative and then huge, 8 becomes 0, 9 becomes 1, and 16 is more than a long holds;
  the file of 10 bytes stands for those above 2 GiB.  With two specs a request can be
  refused after a first range was taken.  A second part is damaged if the first
  one's NULs reach too far; a second call finds the text as the first one left it.
- Symmetry is used over clients, buffers, connections and paths, never with liveness.

### Fairness

- `HttpSendFile`: submitted operations complete.
- `ConnectionReads`: a read of a finished connection and a close complete.
- `Transfers`: operations complete and are not interrupted for ever, closes
  complete, and the application's callbacks return.
- `CacheCoherence`: a read of inotify completes when there are events.

That is what io_uring does, and the event loop waits for nothing else.  Nothing
is assumed of clients and applications otherwise: they may never send, answer or
hang up.

## What is proved

TLAPS checks the proofs for all values of the constants, under the assumptions
named in the modules: sizes are natural numbers, the heap and the clients are
finite, `NULL` is no node or number, ranges end where they start or later.

- `DataLemmas`: what the other proofs need of data.  The library's induction
  theorems take an operator, which the provers cannot instantiate; here induction
  is about a set, `InductionFrom` (a set with the first number, and with the one
  after each that it has, has all numbers up to the last), and rests on every
  set of numbers having a smallest one.  From it follows that a recursive function
  satisfies its recursion (`RecursionExists`), which the other modules apply to
  their sums, traversals and texts.  The rest says what sequences that lose or gain
  an element, or are joined, have at each index.
- `NodeListProofs`: unlinking, pushing and promoting keep a list well formed,
  and change the set of its nodes as they should.  Well-formedness is stated with
  a set of nodes.  From it follows by induction that the nodes have an order, in
  which `next` leads from each to the following one and a traversal meets each
  once (`ListHasOrder`; the traversal cannot meet a node again, so it ends after
  as many steps as there are nodes), and then what each surgery does to the order.
- `LruCacheProofs`: `TypeCorrect`, `ListStaysIntact`, `CountStaysAccurate`,
  `NamesAreUnique`, `LocksAlwaysMatchUsers`, `BuffersAreSafe`,
  `BuffersHaveOneOwner`, `OutdatedIsNeverLent`.  The invariant `IInv` is the
  conjunction of the checked properties, because none is inductive alone: a lock
  count can only be right if a file has one item, a buffer can only be safe if the
  lock count is right, and the loops only find what was put in if the list is
  intact.  `CacheKeepsThePromise` is the refinement of `FileCache`: the abstract
  items are a table of the nodes mapped over the order of the list, so an action
  changes the order (`ItemRemoved`, `ItemPromoted`, `ItemPushed`,
  `LastItemReplaced`) or the table (`ItemChanged`), and there is one lemma per
  action that says which abstract action that is.  The abstract cache frees
  the buffers that no item has any more; that this is the one buffer that the code
  frees is where `OneOwnerEach` is needed.
- `CacheCoherenceProofs`: `CacheCoherenceTypeCorrect`, `WatchesDoNotLeak`,
  `LossesAreKnown`.  `IInv` has the types, `OneWatch` (a file is watched by one
  descriptor), `NoWatchLeaks`, and `AllCovered`: an item that is not what a request
  would read now, or is not watched, is outdated, or has an event in the queue, or is in `blind`.
  Each action is reduced to what it does to the items (`Kept`: some go, none is
  outdated no more) and to the queue (`Extends`: events are added at the end,
  unless they repeat the last one).
- `HttpSendFileProofs`: `TypeCorrect`, `BuffersHaveOneOwner` and `SuccessIsHonest`
  under all faults, `LocksAreReturned` and `StealersAreReaders` if submissions
  succeed (a rejected writev leaves a lock behind).  First come lemmas on what each
  operator of `CacheItems` does to the names, buffers and locks of the items, which
  follow from where `RemoveAt`, `Append` and the like put an element and need no
  induction.  `IInv` is the types, what each stage says of its task, and the
  owners of buffers.  `LocksCovered` adds that locks are at most the users: an
  unlock of a task that never locked can make them fewer, never more, and `LockStep`
  describes what each action does to the difference.  `AllSent` counts bytes: what
  was sent of a response that began at zero is what `progress` says, so that the
  test for completeness is right.
- `ConnectionReadsProofs`: `TypeCorrect` and `ReadBuffersAreSafe` for all
  faults, `NothingIsForgotten` and `BuffersAreFreed` if submissions succeed.
  `IInv` adds to the properties that tasks beyond the end of the table have no
  buffer and no close in flight.  That buffers are large enough rests on
  `LargeSizes`: for a length that is not negative `LargeSize` is the sum it should
  be, and for a negative one it is less than a header or cannot be allocated; `Kept`, the second invariant, is what holds on
  top of it when submissions succeed.
- `TransfersProofs`: `TypeCorrect`, `MemoryComesBackOnce` and `CopiesAreFreed`,
  with resubmissions that may fail too.  The heart of `IInv` is `Lone`: one
  submission in flight and no report, or one report and nothing in flight.  That
  is what the code below the switch of `write_callback` breaks.  On top of it
  `InSequence`: what was moved is the first `progress` bytes of the loan, and what
  is in flight is the rest.  It is inductive because the iovecs that
  `vector_ops_progress` leaves are exactly the rest, wherever in the blocks the
  operation stopped (`ProgressIsLeft`, by induction on the blocks).
  `TransfersResume` follows, and `TransfersKeepThePromise`: every completion is a
  step of `LentBuffers`, or none.
- `HttpRequestProofs`: `RangesAreTyped`, `NothingAskedIsMissing`,
  `RangesStartInside`, `RefusalsHaveACause`, for all widths of int and `size_t`.
  `AtoiTyped` and `ValueTyped` say what becomes of a number: always a `size_t`, and
  itself if an int holds it.  They are inductive once it is known that a call that refused is over (`StillValid`).
  Of the form parser `PointersStayInside`, `OneItemForEachPart` and
  `ItemsAreThePosted`, for every number of parts and of calls and all data.  First
  comes where everything is in the posted text (`PartTokens`, `PostedLayout`, by
  induction on the parts), then what the searches find there (`NextBoundary`,
  `SectionEnds`, `KeysFound`) and which tokens a turn cuts (`PartIsCut`).
  `FormInv` says that all that was ever written are NULs and none is over a
  boundary (`TextInv`), that a call has extracted the first `k` parts and goes on
  behind the boundary of the last of them (`ItemsInv`), and that each part
  is either as posted, if it has no item yet, or cut exactly where `Cuts` says
  (`PartsInv`).  A turn for a part that earlier calls have cut finds the same places
  and cuts them again, because `strchr` stops at NULs; that and the sections of two
  parts being disjoint (`OtherParts`) make it inductive.

In each module there is one lemma per action (or one step), and `Next` combines
them.

Only model-checked: liveness (`EveryTaskEnds`, `HangUpsAreTold`, `LoansEnd`,
`ChangesNoticed`), which is out of the prover's reach.  Every safety property that
a passing run checks is a theorem.

## Not modelled

- `event_manager` and io_uring, except as above; `vendor/`.
- `event_callback`, which has no state: it submits the event again and calls the
  application, also when it was interrupted.  The eventfd methods pass their
  arguments on to `event_manager`.
- `setup_listener`, printing, the debug allocator, string formatting, base64 and
  the websocket handshake response, which the server never sends by itself.
- The splitting of a request's header text into a request line and fields.
- The thread of debug builds that prints the cache's statistics while the loop
  changes the list: it only reads, so no invariant of the fields can tell.
- `websocket_frame_response_method` and `websocket_broadcast`, which are stubs.
- A second `http_close_callback` for one client.  `close_pfd` is called more than
  once for most connections (after a response, and again when the read in flight
  ends), but what follows from that is up to `event_manager`.
- The application in `example/`, a user of the library.

## Plan

What is left, in this order:

1. `HttpSendFile` with the ranges of `HttpRequest` as its inputs, those that wrap
   included.
2. Reuse of a closed `pfd` by a new connection in `ConnectionReads`, if
   `event_manager` becomes available to translate from.
