# Verification of zener

zener is a multi-threaded HTTP server in C++: an epoll reactor in the main
thread, a pool of worker threads that run the HTTP work, a timer that closes idle
connections, a cache of mapped files, and a pool of MySQL connections. This
directory holds TLA+ models of its core, TLC configurations that check them on
small instances, and proofs checked by TLAPS. Paths below are relative to the
repository.

## 1. Inventory

| part | state | operations | shares with |
|---|---|---|---|
| `ThreadPool` (`include/task/threadpool_1.h`) | queue, `isClosed`, `activeThreads`, one mutex, one condition variable | `AddTask`, worker loop, `Shutdown` (graceful phase, forced phase), destructor | every worker, the reactor, the shutting-down thread and its `std::async` waiter |
| `Server` (`src/core/server.cpp`) | `_users`: fd → (`unique_ptr<Conn>`, connId), `_nextConnId`, event modes | `Run`, `dealListen`, `addClient`, `closeConn`, `dealRead/Write`, `onRead/Process/Write`, `extentTime`, two timer callbacks | `_connMutex`; raw `Conn*` in tasks; timers keyed by fd; epoll |
| `Epoller` (`src/core/epoller.cpp`) | the kernel's registrations | `AddFd`, `ModFd`, `DelFd`, `Wait` | main thread waits, all threads modify |
| `http::Conn` (`src/http/conn.cpp`) | fd, `isClose`, two buffers, request, response, static `userCount` | `Init`, `Read`, `Process`, `Write`, `Close`, destructor | used by whichever thread holds the pointer |
| `Buffer` (`src/buffer/buffer.cpp`) | bytes, read index, write index | `Append`, `EnsureWritable`, `Retrieve*`, `ReadFd`, `WriteFd`, `makeSpace`, move | one `Conn` |
| `FileCache` (`src/http/file_cache.cpp`) | path → mapping, time, reference count | `GetFileMapping`, `ReleaseFileMapping`, `CleanupCache` | all responses, `shared_mutex` |
| `Response` (`src/http/response.cpp`) | `_file`, `_fileStat`, `_cachedFilePath` | `Init`, `MakeResponse`, `addContent`, `UnmapFile` | file cache |
| `SqlConnector`, `SqlConnRAII` (`src/database`, `include/database`) | queue of connections | `Init`, `GetConn`, `FreeConn` | all workers |
| `Request::userVerify` (`src/http/request.cpp`) | rows of table `user` | SELECT, then INSERT | the database |
| `Request` parser | parse state, header, form | `parse`, `parsePost` | the read buffer |
| heap timer (`src/task/timer/heaptimer.cpp`) | heap of nodes and its index, key tables | `Schedule`, `ScheduleWithKey`, `CancelByKey`, `Tick`, `GetNextTick` | main thread ticks, workers schedule |
| map timer (`src/task/timer/maptimer.cpp`) | multimap of nodes, key tables, `_bClosed` | the same, and `Update`, `Stop` | `shared_mutex`; callbacks run without it |
| start and end (`cmd/server/main.cpp`, `NewServerFromConfig`, constructor, `initSocket`, `Stop`, destructor) | `_isClose`, `_listenFd`, the connection pool | the steps of the start, each of which may fail; `Run`; `Stop` | main thread, a thread that stops, the logger |
| `Logger` (`src/utils/log/use_spd_log.cpp`) | `sLoggerMutex`, `_sInitialized`, the spdlog logger | `Init`, `log`, `WriteToFile`, `Flush`, `Shutdown` | every thread |
| `Config` | a map, filled once | `Init`, `GetConfig` | the start |
| old `ThreadPool`, `BlockDeque`, `SafeQueue` | – | – | unused |

**What is hard here.** A connection is known by three names of different
lifetimes: a descriptor, which the kernel reuses at once; a pointer, which tasks
and `closeConn` keep past the mutex; and a connId, which is never reused. Events
of one `epoll_wait`, timers and queued tasks all outlive the connection they were
made for. One-shot and edge-triggered registrations turn a forgotten re-arm into
a connection that nobody looks at again. The pool notifies after unlocking and
shuts down on a condition variable shared with its workers. The file cache drops
one lock before it takes another, and releases by name. Requests arrive and answers
leave in pieces. The map timer tests under a mutex and acts without it, and the
logger takes a mutex it already holds. The database code checks
in one statement and acts in the next. `PROJECT.json` lists these as hazards,
each at its line with the properties that would catch it.

**What makes each part correct.**

- pool: tasks start once each, in order; no wakeup is lost; the count of active
  workers is exact; a graceful report is true; shutdown ends;
- server: the table owns live connections of its own descriptors; the user count
  is exact; no descriptor, object or registration leaks; no connection is
  forgotten; hang-ups are noticed; the backlog is drained;
- heap timer: the heap is ordered and its index exact; the key and repetition tables
  are in step with it; a cancelled or replaced timer never fires, a due one does;
- map timer: its tables are in step, no timer runs too early, too often or, once
  cancelled, more than the once that was under way, and none is lost;
- HTTP connection: what is on the wire is the answers, in order and whole; a request
  gets the answer it deserves; a connection that waits is registered for what it
  waits for;
- start and end: a failed start leaves nothing behind, a successful one keeps the
  registered listening socket it opened, a stop is seen, nobody waits for the logger for ever;
- buffer: a queue of bytes, with the room promised and bounded memory;
- file cache: one mapping per file, exact references, no stale bytes, no mapping
  removed in use;
- user verification: connections are exclusive and none is lost; with a text that
  stands for itself in a statement, no login without its row, and only overlapping
  registrations store a name twice.

## 2. Modules

| module | models | remarks |
|---|---|---|
| `ThreadPool` | `threadpool_1.h` | `ThreadPoolProofs`: theorems; `MCThreadPool` |
| `Server` | `server.cpp`, `epoller.cpp`, `conn.cpp` as the server sees it | `ServerProofs`: theorems; `MCServer` |
| `Buffer` | `buffer.cpp`, `buffer.h` | implements `ByteFifo`; theorems in the second part of `HttpConnProofs`; `MCBuffer` |
| `ByteFifo` | the abstract queue of bytes a buffer promises | |
| `HeapTimer` | `heaptimer.cpp`, `heaptimer.h` | implements `TimerService`; `HeapTimerProofs`: theorems; `MCHeapTimer` |
| `TimerService` | the abstract keyed timers a manager promises | |
| `FileCache` | `file_cache.cpp` and the part of `response.cpp` that uses it | `FileCacheProofs`: theorems; `MCFileCache` |
| `UserVerify` | `sql_connector.cpp`, `sqlconnRAII.hpp`, `Request::userVerify` | `UserVerifyProofs`: theorems; `MCUserVerify` |
| `HttpConn` | `request.cpp`, `conn.cpp`, `response.cpp` and the tasks of `server.cpp` that drive them, for one connection | `HttpConnProofs`: theorems; `MCHttpConn` |
| `MapTimer` | `maptimer.cpp`, `maptimer.h` | `MapTimerProofs`: theorems; `MCMapTimer` |
| `Lifecycle` | `main.cpp`, the start and end of `server.cpp`, `use_spd_log.cpp` | `LifecycleProofs`: theorems; `MCLifecycle` |

The modules meet where one abstracts what another details: `Server` sees of the HTTP
work what `HttpConn` shows in full for one connection, and of the timers what
`TimerService` promises; `HttpConn` takes from `UserVerify` that a form is granted or
not, and from `FileCache` that a file is mapped or not; `Lifecycle` has the loop of
`Run` with its events reduced to "something to handle".

`PROJECT.json` maps each definition to its lines. A definition whose comment
begins with "Mutant of" is not part of the model: it is a plausible bug, kept to
show that the property next to it can fail.

### ThreadPool

A step is what happens between two acquisitions of the mutex: a worker's pass
through its loop up to the next unlock or wait (`WorkerTop`, `WorkerBack`, a woken
wait), the task itself (`WorkerFinish`), `AddTask` and, apart from it, its
`notify_one` (`NotifyOne`), the four stages of `Shutdown`. A worker that waits may
wake spuriously. `notify_one` picks any one of the threads waiting on `cond`,
Shutdown's own waiter included. Histories (`hist`) record the tasks added,
started and finished. Shutdown may run `MaxShutdown` times (an explicit call, and
the destructor). A moved-from pool is not modelled.

### Server

The state is `_users`, the `Conn` objects at their addresses, `userCount`,
`_nextConnId`, one keyed timer per descriptor, the task queue, the batch of events
being handled, the program counter and locals of every thread and, as the
environment, sockets, backlog, epoll registrations and ready list.

- A critical section of `_connMutex`, a system call, and a dereference of a `Conn`
  outside the mutex are separate steps. Steps that commute with everything the
  other threads do are joined: `accept` with the emplace of `addClient`, and the
  main thread's `extentTime` with `AddTask`. A worker's `extentTime` is two steps
  (`WriteExtent`, `WriteSchedule`), since a close may come between. Joined too, although it is
  a dereference before the mutex, is the `GetFd` whose result a task passes to
  `checkFdAndMatchId` (`Checked`; `server.cpp:675`, `:718`, `:747`): a close in between has the same
  outcome, the check failing, as one before both.
- A freed `Conn` keeps its contents until its address is handed out again; reading
  through a stale pointer yields those contents or, for `_fd`, what the allocator
  wrote there, which is outside the range of descriptors (`BadFd`). So the
  invariants hold *despite* the stale reads.
- `operator[]` on `_users` inserts a default entry (`Phantom`); `erase` destroys
  the `Conn` (`Destroy`), which closes the descriptor and counts the user out.
- Registrations are `"in"` (edge-triggered; `AddFd` registers that whatever it is
  asked for), `"inLevel"` (what `onRead` passes after EAGAIN), `"inOnce"` and
  `"outOnce"`, and `"off"` after a one-shot event. The order of events within a batch
  is arbitrary. Sockets are always writable; a partial write is a choice.
- The HTTP work is what the server can see of it: whether there is data, output,
  a keep-alive; which way a request goes is a choice.
- The timer is a keyed table whose operations are atomic. The release build is
  modelled: `assert` is absent.

### HeapTimer and TimerService

`timer` is the heap and its index `_ref`, with places counted from 1; `ref` is total, 0
standing for no entry. `del` and `Add` are operators on the pair; the loops of `siftUp` and
`siftDown` are recursive functions on the pair and the code's `i` and `n` (`Sifting`). Every
operation of the manager is one step. `Tick` is one step to begin, one per popped node, one per end of a
callback and one to end; while a callback runs, the calls it makes are steps of
`Schedule`, `ScheduleWithKey` and `CancelByKey`, and so are calls of other threads,
taken as atomic. What is done to the tables after the callback depends on whether the
key is still this timer's (`CallbackLast`, `CallbackAgain`, `CallbackForever`,
`CallbackReplaced`); a callback that throws skips it (`CallbackThrow`). The clock has
`Res` units to the millisecond, and `Tick` compares whole milliseconds, truncated.
`Limit` stands for the 100 callbacks a `Tick` runs at most. `TimerService` has a set of
pending timers and the one that fires; `Implements` maps the nodes to it, the number
of times a timer is still to fire being read off `_repeats`.

### Buffer and ByteFifo

Bytes are numbered in order of arrival, so that a lost, repeated or reordered byte shows.
`InitSize`, `LowWater`, `Grow` and `ExtraSize` stand for the 1024, 1024, 4096 and 4096 of the
code (`buffer.cpp:114`: `ReadFd`'s second area is 4096 bytes). A failing `resize` is a choice
(`MayFail`): `ReadFd` then grows no further or, if the bytes have already been read into the
second area, drops them (`ReadFdTorn`, the code's own `catch`). `ByteFifo` has put, torn put,
take and clear; `FifoSpec` maps the buffer's readable bytes to its queue.

### FileCache

A file is its modification time, in seconds as the code compares it, and is
replaced by a change; a mapping remembers the time of the bytes it maps apart from
the time it was stat'ed with. Mappings are numbered as made, so that a pointer to an unmapped one can be
told from a pointer to its successor. The gap between `stat` and lookup, the gap
between the shared and the exclusive lock, the use of the mapping after unlock and
the sending are separate steps.

### UserVerify

Every statement is atomic. `GetConn` on an empty queue calls `front()` and `pop()`
on an empty `std::queue`: with libstdc++ the front is the slot of a connection
handed out before and the size is one less than the number of pushes, which is
what `debt` models.

The statements are made by `snprintf` into 256 bytes from the name and the password as they
came (`request.cpp:206`, `:254`), so that what a statement does depends on the text.
`PlainName` and `PlainPassword` are the texts that stand for themselves: they form a string
literal, are not cut short, and the column (`char(50)`) gives them back unchanged. With a plain
name the SELECT fetches a row of the names the collation of the table takes for the same
(`Folded`, `SameName`), and an INSERT of plain text adds its row. With any other text the
statement is another one, of which nothing is assumed: the SELECT fails or fetches any row that
could be, stored or not (`Fetchable`), and the INSERT adds any rows (`InsertOther`; the table
has no key it could violate, and `mysql_query` takes one statement). `LoginHonest` and
`OnceAWorker` are therefore about plain text, beside calls with any other; of a login under a
name that is not plain nothing holds and nothing is claimed. `rows` is a set, `stored` counts
the INSERTs of plain text. The table is empty at first; the row of `bootstrap.sql` is like one
a call has inserted. Rows with a NULL password, which only other text could
add, are not modelled.

### HttpConn

One connection, byte by byte. A request is a sequence of symbols, chosen so that a segment can
end at every place the parser treats differently: before, in and after the version, between a
header's name and value, between CR and LF, inside a form. An answer is `HeadLen` bytes of
headers and, if there is a file, `FileLen` bytes of it; a byte knows its answer and its place,
so a lost, repeated or misplaced one shows. A turn of the loop in `Request::parse` is a step,
an attempt of `writev` is a step, and the rest of `onRead`, `onProcess` and `onWrite` is one
step per return. `iov` holds the bytes the two vectors still point to; the second is set only
for an answer with a file, as in `Conn::Process`. The tasks of the connection run one after the
other: until the first `ModFd` two can be queued (`AddFd` drops the one-shot flag), which
`doubled` records; two of them *at once* are a data race on the `Conn`, which is not modelled.
`seen` records the requests that came whole, one at a time and `WellFormed` (a path, a form
only with POST and made of fields `key=value`); `torn` that something else was read, after
which `Served` claims nothing. `OnReadNothing` has the re-arming of `server.cpp:704` and the
`closeConn` that follows it in one step: an event in between could bring one more task of a
connection that is being closed.

### MapTimer

A critical section of `_timerMutex` and a user's callback are steps; so the test of the key
(`Check`), the unlocked one of the wrapper (`Wrap`), the callback (`Run`), what follows it
under the mutex (`After`, or `Catch`) and the re-insertion by `Update` (`Back`) can each be
separated by a call of another thread. `Tick` tests the flag in a step of its own (`Round`), so
that `Stop` may come between the test and `Update`. `Update` reads the clock before it takes
the mutex; nodes inserted in between are due later, so the two are one step (`Collect`, or
`NothingDue`). `ScheduleWithKey` is two critical sections. `info`, `runs` and `late` are
histories.

### Lifecycle

What a thread has still to do is a sequence of steps, `todo`; a function that logs is spliced
in as the logger's steps, so that `StopCall` and `Destructor` read as the code does. Each step
of the start succeeds (`StartStep`), or fails with its own consequence (`ConfigFails`,
`NoSocket`, `SocketFails`, `StartLogs`). Two failures that are only logged are remembered:
`blocking`, the listening socket that `setFdNonBlock` could not change (`server.cpp:862`), and
an `"empty"` pool none of whose connections could be opened (`sql_connector.cpp:29`). With a
socket that blocks, `dealListen` may wait in `accept` (stage `"accept"`) until a connection
comes (`AcceptReturns`), which nobody has to make. A null server and an uncaught exception end
the process. A thread that locks the mutex it owns waits for itself, as glibc's default mutex
does. What `epoll_wait` has to return is one flag.

## 3. Runs

| run | instance | checks |
|---|---|---|
| `pool` | 2 workers, 2 producers, 3 tasks, 2 shutdowns, timeouts, spurious wakeups | `ActiveExact`, `StartOrder`, `NoLostWakeup`, `GracefulIsTrue`; liveness `EveryTaskRuns`, `ShutdownEnds` |
| `server_safety` | 1 descriptor and 1 address reused by 2 connections, 2 workers, timers, FIN and RST, 1 failure of `fcntl`/`epoll_ctl`, limited accept loop | `TableOwns`, `UserCountExact`, `NothingLeaks`, `NoneForgotten` |
| `server_live` | 2 descriptors and 2 addresses, limit of 1 user, 1 worker, FIN, ET accept loop | the same, as `Consistent`, with batches going stale and peers turned away; liveness `AllAccepted`, `HangupIsClosed` |
| `timer` | 6 timers, of which 2 repeat or share a key; clock of 2 units to the millisecond; 2 callbacks per `Tick`; throwing callbacks | `HeapSound` (`HeapOrdered`, `RefExact`), `TablesInStep`, refinement `Implements`; liveness `EveryTimerFires` |
| `buffer` | 12 bytes, thresholds 2, 2, 3, 5, failing allocations | `EnsuredIsWritable`, `MemoryBounded`, refinement `FifoSpec` |
| `filecache` | 3 responses, 2 files, 1 change, 3 loads, failing loads, cleaning | `CacheSound` (`OneMapping`, `NotPinned`, and `RefCountExact` for files that never changed), `NotStale`; `HeldIsMapped` for files that never changed |
| `users` | 2 workers, 0 to 2 connections, 3 calls, 3 names of which 2 are the same to the collation and 1 is not plain, 2 passwords of which 1 is not plain, failing statements | `PoolSound` (`PoolExact`, `SizeRecovers`), `LoginHonest`, `OnceAWorker` |
| `http` | 5 dialogues of up to 2 requests (files, missing, denied, empty, complete and incomplete forms) in up to 2 segments; answers of 2 + 2 bytes against a send buffer of 3 | `OutputSound` (`WireExact`, `HeadsInOrder`), `Served`, `NoTaskAdded`; liveness `NothingStuck` |
| `maptimer` | 2 callers, 1 key, timers that run twice or for ever, with and without key, 2 timers, 2 nodes a round, 3 ms | `TimersSound` (`TablesInStep`, `AtMostRepeat`, `NotBefore`, `LateOnce`), `NotEarly`; liveness `RunsAll`, `StopEnds` |
| `lifecycle` | 1 worker, 2 threads that stop, 1 descriptor number, 1 log call besides those of start and end, a socket that blocks, an empty pool | `StartSound` (`KeepsListening`, `FailedLeavesNothing`); liveness `LogsEnd`, `StopIsSeen` |

An invariant with others in brackets is their conjunction, and of `TypeOK`, which says
that one part of the state is sound as a whole; each conjunct is a definition of its own.

Some of these deserve a word. `Served` is about peers whose requests are well formed and read
whole and one at a time, since that is all the parser gets right; it also says exactly what
such a peer gets too much. `WireExact` says of the bytes sent and still to be sent that they
are those of the answers, each once and in their order, and `HeadsInOrder` the same of the
headers alone. `WireExact` and `NothingStuck` except connections that had two tasks
(`doubled`): without the exception both fail. `NotEarly` bounds the runs of a keyed timer by
2^n - 1 in n periods, because that is how fast its nodes multiply; the count in `_repeats` is
then all that keeps `AtMostRepeat`. `NoTaskAdded` is about the number of a connection's tasks,
queued, running and awaited: under the first registration it may grow, from the first `ModFd`
on it may not, so that two tasks queued by then may still run in turn but never become three.
`OnceAWorker` is the most that can be said of `userVerify` without a UNIQUE key.
`KeepsListening` says what `Run` still has until somebody stops the server, not that it can
serve: the socket may block and the pool be empty. `LogsEnd` and `StopIsSeen` except a thread
inside `Logger::Shutdown`, and `StopIsSeen` a loop that waits in `accept`, and so say that
nothing else blocks the logger or the loop.

**Bounds.** Two workers are the fewest that interleave, and every race of the server needs at
most a worker, another worker and the main thread. One descriptor with two connections is what
reuse needs; two descriptors are what a batch with a stale member needs. One segment per
connection lets a request, an answer and a hang-up overlap; three responses are what a replaced
mapping needs (a holder of the old one, a holder of the new one, a third that reloads); two
files, one of which changes, tell what a change may disturb. Twelve bytes against thresholds of
2 to 5 take the buffer through compaction, growth, overflow into the second area and an
overflow that fails, several times. Six timers of two timeouts are the fewest for which
deleting in the middle of the heap makes a node rise; the first two are of every kind, the
others plain (`Requests`), which keeps the instance small. A send buffer of 3 against answers
of 2 + 2 makes `writev` stop within the headers, at their end, within the file and at its end.
Two segments put a cut at every symbol of every dialogue. Three milliseconds let a timer of
period 1 go through three rounds, so that its four nodes exceed the two of a round; two timers
of one key are what replacing needs. A second thread that stops is what finds nothing left to
close; one descriptor number is enough for a file that takes the listening socket's. Three
calls let two registrations overlap and a login follow, or two overlap with one whose text is
not plain. `MaxQueue` stops `Wait` while tasks pile up; tasks already queued are unaffected.
`CHECK_DEADLOCK FALSE` is set in all runs but `timer`, where `Tick` can always run: with
finitely many connections, calls, bytes or tasks the environment comes to an end (and in
`lifecycle` the stop itself hangs, as described below).

**Fairness.** The operating system runs every thread that can run: weak fairness
of each worker, of the main thread and of the pool's notify and shutdown steps. A
timer that stays set expires, since `Run` never sleeps longer than `GetNextTick`:
weak fairness per descriptor. (A worker's `ScheduleWithKey` does not wake an
`epoll_wait` that already sleeps, so this assumes a little more than the code gives;
only the counterexample of `server_idle` rests on it, and it is the stronger for it.)
For the heap itself: `Run` ticks in every round, so a step of `Tick` is taken again
and again, and the clock moves on. The timeout of `wait_for` expires however often
spurious wakeups interrupt it, being an absolute deadline: strong fairness of
`ShutdownExpire`. In `HttpConn` the main thread takes events and the worker goes on; that
the peer goes on reading is a premise of `NothingStuck`, as further events are of
`StopIsSeen`. In `MapTimer` the Tick thread runs and the clock moves; in `Lifecycle` every thread
that can go on does. Producers, peers, file changes and callers owe nothing.

**Where code and comments disagree.** Each `violation` run states one sentence of
the repository and TLC shows the code against it; `PROJECT.json` quotes the line.

| run | what happens |
|---|---|
| `server_duplicate` | a dead connection's timer inserts an entry; the next connection on that descriptor is refused |
| `server_idle` | after the first request the idle timeout closes nothing |

Others that the models show as steps, and that no run is kept for:

- `server.cpp:232`, `:266`: `closeConn` reads the descriptor and later erases the entry it
  then finds there; if another thread closed the connection in between and `accept()`
  reused the descriptor, the new connection is erased (`CloseConn`, `CloseConnErase`),
  although it is called thread-safe (`:224`);
- `file_cache.cpp:59`: a reload unmaps a file other responses are sending, without a
  look at the count that is to protect it (`Reload`; `response.cpp:155`), which is why
  `HeldIsMapped` is about files that never changed;
- `request.cpp:250`: registrations that overlap all insert their name (`OnceAWorker`);
- `request.cpp:66`: the body of a form is left in the buffer, and a keep-alive peer gets
  a second, unasked-for 404 after which its connection is closed (`Served`); a request
  that comes in two segments is answered from the first one, although
  `NEED_MORE_DATA` is there for it (`conn.h:30`); the line of a second request that
  arrives together with the first is taken for its body;
- `response.cpp:70`: a request that cannot be parsed has no path, which names the
  directory: it is answered 404, never 400 (`MakeResponse`);
- `conn.cpp:257`: `_iov[1]` is not reset for an answer without a file. If a second task
  made that answer over an unsent one, `_iovCnt` is 1 while the second vector is not
  empty, and `onWrite` re-arms for ever and writes nothing (`Respond`, `Writev`);
- `maptimer.cpp:28`: a timer with repeat 0, which is what the server asks for, never runs
  its callback (`Check`), nor does the node with which `Stop` wants to wake the thread;
  with `__USE_MAPTIMER` the server moreover calls `GetNextTick` only, never `Update`, so that
  nothing fires and `Run` spins once a timer is due;
- `maptimer.cpp:314`, `:81`: two nodes are inserted for every further execution, although
  there is to be one timer per descriptor (`server.cpp:625`); the nodes of a cancelled
  timer that repeats for ever come back for ever (`Back`), since
  `CleanupCancelledTimers` keeps all of them;
- `maptimer.cpp:233`: `DoScheduleWithKey` takes the key as an `int`, `CancelByKey` as a
  `uint64_t`; they agree below 2^31;
- `use_spd_log.cpp:178`: `Shutdown` locks the mutex and calls `Flush`, which locks it again:
  every thread that stops the server, and `~Server` itself, hangs there, and so does
  every later log call (`InShutdown`);
- `server.cpp:197`: `Stop` does not wake `epoll_wait`; `_wakeupFd`, which is to do so
  (`server.h:164`), is never created. `server.cpp:87`, `:198`: the number of the listening
  socket is closed by `Stop` and once more by `~Server`, whatever it names by then
  (`CloseListen`);
- `server.cpp:900`, `main.cpp:8`: without a configuration the server is null and is run
  all the same (`ConfigFails`); a failed `initSocket` throws where nothing catches;
- `threadpool_1.h:28`: the graceful phase of `Shutdown` is to wait for the tasks to complete
  (`:70`), but it closes the pool first, and every worker leaves its loop as soon as it sees that:
  a task still queued is never run, the wait can only time out, and the second phase drops
  it (`LoopExit`, `ShutdownDrain`). `GracefulIsTrue` is about what is reported, not about what is run;
- `threadpool_1.h:37`: nobody notifies when the last task ends, so only the timeout ends
  the wait of the graceful phase (`ShutdownExpire`; the reason it is fair and `ShutdownEnds`
  needs it);
- `server.cpp:862`: a listening socket that could not be made non-blocking is used in the
  accept loop all the same (`StartLogs`, `CanBlock`); the loop then waits in `accept` and neither
  serves nor sees a stop until a connection comes;
- `sql_connector.cpp:29`: a pool without a single connection counts as set up (`OpenSql`);
- `request.cpp:206`: the text of a form becomes part of the statement as it is, and one over
  the 256 bytes is cut (`Fetchable`, `InsertOther`);
- `epoller.cpp:25`: the first registration of a connection is not one-shot, so two
  workers may be inside one `Conn` (`AddClientRegister`);
- `server.cpp:576`, `:599`: a task keeps a raw `Conn*` past the mutex, and another
  worker may destroy the `Conn` before the task uses it (`FdRead`), although
  `dealRead` and `dealWrite` are called thread-safe;
- `heaptimer.cpp:322`: a repeating timer whose callback throws once never fires again,
  and its entries stay in the tables (`CallbackThrow`; `TablesInStep` excepts them);
- `server.cpp:704`: after EAGAIN the connection is re-armed and then closed
  (`ReadAgain`);
- `server.cpp:524`, `:535`: EMFILE, and the accept limit of the LT mode, leave
  connections in the backlog, because the listening socket is edge-triggered in
  every mode. `AllAccepted` is checked for the ET loop with descriptors to spare;
- `file_cache.cpp:78`: release by path can bring the count of a replaced file's new
  mapping to zero while it is in use, which is why `RefCountExact` is an equality
  only for files that never changed and `NotPinned` an inequality for all;
- `file_cache.cpp:60`: replacing an entry does not count the old mapping out of
  `_totalMappedFiles` (`Reload`);
- `file_cache.cpp:29`: `st_mtime` counts seconds, and a change within the second of
  a load is not seen; `NotStale` is about seconds;
- `sql_connector.cpp:45`: an empty pool hands out a connection a second time
  (`PopFront`), which is why `PoolExact` asks for a connection per worker;
- `request.cpp:262`: a failed INSERT is reported as success (`Insert`), which is
  why `LoginHonest` is about logins only.

## 4. Proofs

Proved for every value of the constants, from the named assumptions of the module only. Each
theorem of the form `Spec => []Inv` rests on an inductive invariant `IInv`, of which TLC has
checked the instance of the run (but not `Paced`, which speaks of every future moment and is
out of its reach); a lemma shows that `Init` gives it, one that every action keeps it, action
by action and part by part, and one that it gives the invariants. Lemmas about sequences, sets
and the operators of the model come first in each module.

**ThreadPoolProofs.** `TypeCorrect`, `ActiveIsExact`, `StartsInOrder`,
`WakeupsAreKept`, `GracefulIsHonest`. `IInv` is the five invariants and
`ClosedFirst` (a thread past the first stage of `Shutdown` has closed the pool),
`Fifo` (until the forced phase drops the queue, the tasks submitted are those started
followed by those queued), `Accounted` (a started task has finished or is held by a
running worker), `RunHasTask` and `EarlySubmitted` (a running worker holds a task; the
tasks recorded when the pool was closed had been submitted). `StartOrder` alone is not inductive without
`Fifo`, since a worker starts what is at the head of the queue; `GracefulIsTrue` needs
`ActiveExact` and `Accounted`, since the predicate looks at a counter and the claim is
about tasks.

**ServerProofs.** `TableIsSound`, `CountIsExact`, `NothingIsLeaked`, `NobodyIsForgotten`,
`ServerIsConsistent`, for any workers, any finite sets of descriptors and addresses, any
limits, peers and failures. The first three are inductive together with the facts that a
thread's locals are set where it uses them (`LocalsSet`, `EventsSet`), that an absent entry
has no `Conn`, and that `connId` 0 is nobody's (`EntriesSet`, `IdsSet`): `TableInv`. It says
nothing about what the pointers in flight refer to, since the code promises nothing there;
that it is inductive shows that the table survives any stale pointer. `NoneForgotten` is
stated for connections that nothing refers to, and is not inductive, because it is
silent while something does. `AllWatched` says for each entry who is still going to re-arm
or erase it: an event of the batch, a queued task, or a thread, which counts only if it has the
`Conn` the table has now and, once past its check, its descriptor too (`Cares`); when nobody
is left, the entry is armed, and on the ready list if it has something to report. One without
a registration is being added or erased (`Ending`).

**HttpConnProofs, the buffer.** `BufferTypeCorrect`, `EnsureWritableIsRight`,
`MemoryIsBounded`, `BufferIsFifo`, about the specification of `Buffer` (`BufferSpec`), of which a
connection has two. The indices are ordered and inside the buffer, the history variable of the
most unread bytes covers the bytes unread now, and the memory bound holds; the bound alone
is not inductive, since a growth is justified by the unread bytes at that moment. From
`SizeAssumption` only. The refinement is proved step by step: each action is a `Put`,
`PutTorn`, `Take`, `Clear` or a stutter of `ByteFifo`.

**FileCacheProofs.** `CacheIsSound`, `NeverStale`, `HeldStaysMapped`, for any finite set of
responses and any files. The counts are cardinalities of sets of responses, so the proof of
`RefCountExact` follows each response into and out of the set of a mapping's holders. What
has to be added: a mapping not made yet is known to nobody (`Fresh`), a response holds a
mapping of its own path (`Paths`), nobody is ahead of the file on disk (`Times`), what is held
of a file that never changed is still the table's (`HeldInTable`), and `_totalMappedFiles`
covers the entries (`TotalCovers`), from which it does not go below zero.

**UserVerifyProofs.** `PoolIsSound`, `LoginsAreHonest`, `StoredOnceAWorker`, for finite sets of
workers and connections (`WorkerAssumption`, `ConnAssumption`), at least one name and password
(`RowAssumption`), any of them plain (`PlainAssumption`) and any collation (`Folded`).
`PoolExact` needs `NoDebt`: with a connection for every worker the queue is never popped empty,
by counting the workers that have one. `LoginHonest` needs what `flag` means at each point of
the call (`FlagHonest`), and that rows only come (`KnownKept`). `OnceAWorker` is not inductive:
`Paid` counts the workers about to insert a name together with the INSERTs that stored it; a
worker enters that count only while there is none, since what is stored is found by a SELECT
(`StoredFound`), and an insertion moves one from the first to the second.

**HttpConnProofs.** `OutputIsSound` and the action property `TasksDoNotGrow`, for any requests,
any lengths of headers, files and send buffer and any segments. `TasksDoNotGrow` follows action
by action: an event makes one task and disarms a one-shot registration, or there is none and
hence no event (`OffIsQuiet`); only the task that runs makes another or re-arms, and it does so
by ending (`RunningTask`). `Serial` says that a connection with a task, queued or running, has
no armed one-shot registration, as long as it has not had two. `SentBeforeRead` says that
nothing is left to write while a request is read, parsed, answered or waited for: a new answer
then begins with empty vectors, which `WireExact` needs. `Parts` tells headers from files in
the two vectors, for `HeadsInOrder`, which must hold without `SentBeforeRead` once two tasks
have met. In this the parser takes no part: whatever it makes of a request, the answer is sent
whole.

`RequestsAreServed` is about what the parser makes of it, for any scripts, and rests on
`ServedInv`. `Served` looks at answers only, so it says nothing of a request between its reading
and its answer. `Phase` says where a connection is with the latest request it read: not answered
yet (`Asking`), answered with its body still in the buffer (`Replied`), its body being taken for a
request (`Mistaken`), or that refused (`Refused`). Within `Asking`, `InHeaders` says what is left
of the text before each turn of the parse loop and which fields of the request are set by then;
the lemmas on lines (`OneLine`, `EncodeIs`, `FirstLine`, `HeaderLine`, `BlankLine`, `FormLine`) say
where the next CRLF of that text is, so that each turn leads from one of these places to the
next. `FieldIsThere` shows of `parseFromUrlencoded` that a field with a value is one the form has.

**MapTimerProofs.** `TimersAreSound`, for any callers, keys, timings, limits and number of
timers. `AtMostRepeat` comes from `CountedAt`: as long as a timer's key names it, runs and remaining
count make up what was asked for, one run counted twice between the callback and the
critical section after it; when the key is another's, runs stay below while an
execution is still before its callback. `LateOnce` comes from `EndedAt`: a timer that is over is not its
key's, except while its exception is handled, and one that ran late has no
execution before its callback. Both need that no node, also of those that come back for
ever, belongs to a timer not scheduled yet, and that it is not due before
its first period (`Nodes`, `Issued`), which gives `NotBefore`; that a round takes no more than its
limit needs the order of the multimap (`Ordered`), which `Insert` is shown to keep. The proof also
shows that a callback that ran finds its count (`CountedAt`), which is why `After` has no case
without one.

`NobodyIsEarly` bounds runs by time. `NotEarly` is not inductive, since it forgets the nodes
that are to run still: two for each execution of a keyed timer, and one of another. `Paced`
gives each node of a timer a weight, the runs it can still lead to until a moment `h` (`Cap`),
and says for every `h` not yet past that the runs made and the weights together (`Ahead`) are
within the bound for the periods from the start to `h`. With `h` as the present that is
`NotEarly`. A run takes 1 from the weight of its node and leaves the rest to the two it comes
back as; every other step but the first scheduling keeps the weights or loses some. The weights
are summed over the multimap, the round and the nodes under way by partial sums (`Sum`), and
2^n - 1 is known by what it does at 0 and at n + 1, which `PowerOfTwo` gets from counting
subsets.

**HeapTimerProofs.** `HeapStaysSound`, `TablesStayInStep`, `ManagerImplementsService`, for any
callers, requests, limits and number of timers. The invariant is `TypeOK`, `TimerSound` (the
heap is ordered and `_ref` is its index, exactly: `Located`), `Issued` (ids are given out in order
and the node that runs is not in the heap), `KeysOwn` (a key names only a timer that has
it), `RunsValid` (a timer that runs and is to repeat has not lost its key), `InTick` and `InStep`
(`TablesInStep` put in terms of nodes). `TablesInStep` alone is not inductive: that a callback's
end finds the right entries needs `KeysOwn` and `RunsValid`. While a node is being sifted the heap
is ordered but for one place, whose node is early or late (`SortedBut`, `SortedButUp`,
`SortedButDown`): each exchange moves the exception to the next place, and the loop ends where there is
none. That the loops end, and keep what an exchange keeps, is shown without induction over an operator:
the place measures the way left, and among the numbers that a counterexample would have there
is a least (`LoopExists`, `LoopKeeps`). The refinement is proved step by step: each action
is a step of `TimerService` or a stutter, and the first of the heap is the earliest pending timer because
the heap is ordered.

**LifecycleProofs.** `StartIsSound`. `StartedInOrder` says what each stage of the start has
behind it (nothing of the two failures that are only logged), `OnlyLogs` that until somebody
stops no thread has anything but log calls to do, so that none can close what the start opened,
and `OneListener` that the only listening socket is the one `_listenFd` names.

**Only model-checked.** Liveness, which the prover does not reach: `EveryTaskRuns`,
`ShutdownEnds`, `HangupIsClosed`, `AllAccepted`, `EveryTimerFires`, `NothingStuck`, `RunsAll`,
`StopEnds`, `LogsEnd`, `StopIsSeen`. Every invariant, every action property and both
refinements of the passing runs are theorems.

## 5. Not modelled

- of the heap timer, `Adjust` and `doWork`, which nothing calls; the data race between
  workers that schedule and the main thread that ticks; that the server's keyed timers
  are those of `TimerService` (the two models are checked apart); the `shared_ptr` cycle
  of its callbacks (`heaptimer.cpp:319`);
- the unlocked look-up of the map timer's wrapper (`maptimer.h:80`) as a data race on a hash
  table: the model takes it as a read;
- the text of requests and responses below the symbols of `HttpConn`, the escapes of forms
  among it; two workers inside one `Conn` at the same time; the length of a mapping
  against a file that shrank; the descriptor `LoadFile` loses when `mmap` fails
  (`file_cache.cpp:146`);
- level-triggered connections in `HttpConn`, and the limits of 64 KB and 4 MB per call of
  `Read` and `Write`;
- what a statement does whose text is not plain: any choice that `Fetchable` and `InsertOther`
  allow; rows with a NULL password;
- exceptions of the allocator: `addClient` catches one with the lock held (`server.cpp:425`);
- the destructors of static objects at process exit, which the hang in `Logger::Shutdown`
  precedes; the deprecated `closeConnAsync` and `_closeConnInternal`; the moves of `Conn`;
- unused code: the old `ThreadPool`, `BlockDeque`, `SafeQueue`, `WriteToFileWithRotation`,
  framework stubs;
- spdlog, the parsing of the configuration file (a text conversion done once), the
  benchmark, the static files.

## 6. Plan

Done, in this order because the table of connections and the pool carry the
system: `ThreadPool`, `Server`, `Buffer` with `ByteFifo`, `FileCache`,
`UserVerify`, `HeapTimer` with `TimerService`; proofs of `ThreadPool` and `Buffer`; then
`HttpConn`, `MapTimer`, `Lifecycle`; then the proofs of `UserVerify`, `FileCache`, `Server`,
`Lifecycle`, `HttpConn` and `MapTimer`; then those of `HeapTimer` with its refinement, of
`NotEarly` and of `Served`.

`MapTimer` is not shown to implement `TimerService`, because it does not: its timers may
run a second time within a period and once after they were cancelled. `TimersSound` and
`NotEarly` say what it does promise.

What is left is in section 5, first of all the workers that schedule on the heap timer while
the main thread ticks, and one model in which the timers of `Server` are those of `HeapTimer`.
