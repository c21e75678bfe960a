# Verification of libio

TLA+ models of libio, a multithreaded C++ network library with an HTTP server
(`core/`, `model/`, `http/`), the TLC runs that check them on small instances,
and TLAPS proofs for instances of every size. `PROJECT.json` lists the runs,
the source lines each definition models, the mutants that show that each
property can fail, the hazards and the findings.

## The system

| Part | State | Operations | Interacts with |
|---|---|---|---|
| `http_multithread_server` | `threads`, `index`, listening socket | `start`, accept handler, `wakeup` | gives descriptors to `http_thread` through a `lock_queue` and an eventfd |
| `http_thread` | `clientQueue`, `hashConnections`, `emptyConnections`, a `reactor<epoll>` | wakeup handler, `make_connection`, `release_connection` | owns the connections; runs as a task of `thread_pool` |
| `http_connection` | `fd`, `status`, two buffers, `requests` | read and write handlers, `parse_request`, `send_*`, `close` | reactor of its thread, user handlers |
| `reactor`, `epoll`, `poll`, `select` | `channels`, `events`, `result`, `activeFd` | `set_*_handler`, `add`, `remove`, `listen`, `loop` | kernel, callbacks |
| `thread_pool` | `taskQue`, `threads`, `flags`, `isStop`, `isDone` | `push`, `resize`, `stop`, worker function | condition variable, `lock_queue` |
| `buffer` | block, `misalign_`, `off_`, `totallen_` | `read`, `write`, `push`, `pop`, `clear` | socket, parser |
| `request` | `status`, `headers`, `ntoread` | `parse*`, `set_*`, `send_to` | buffers |
| `time` | set of timers, id map | `set_timer`, `remove`, `process` | reactor loop |
| `thread_loop` | `clientQueue`, one for all workers, `threads` | `start`, accept handler, `wakeup_random`, wakeup handler | `thread_pool`, a `reactor<epoll>` per worker, user handlers |
| `process_loop`, `signal` | `processes`, `reap`, `terminate`, `live`, `delay`; `signal::callback` | `start`, `master_process_cycle`, `worker_process_cycle`, `reap_children`, `signal_worker_processes`, `set_handler`, `remove` | kernel (`fork`, `waitpid`, `sigsuspend`, `setitimer`), one listening socket for all workers |
| `proactor` | `ops`, `op_queue`, `inloop`, a mutex and a condition variable | `run`, `async_read`, `async_write`, `async_accept` | one reactor shared by all threads, callbacks |

What is hard in it: two threads that share a queue and an eventfd, and a
descriptor number that is reused by the kernel as soon as it is closed;
connection objects that are reused for other clients; a map of registrations
that is kept beside the kernel's own; a condition variable whose predicate has
side effects, and flags that are read by index while the vector they are in is
resized; a buffer whose content moves; a parser that is resumed in the middle of
a message; timers ordered by a key that is not unique; signal handlers that
are used once, in a master that waits for the next signal; a mutex that is held
while its owner waits for descriptors; callbacks that keep references to what
their caller deletes.

## Modules

* **`HttpDispatch`**: the main thread and the workers. `Accept`,
  `AcceptUnnamed`, `PushClient` and `Wakeup` are the accept handler of `start`, one action per
  operation on something shared. `Listen` ... `DrainDone` are the wakeup handler
  of `http_thread`; `CloseFd` and `ReleaseConnection` are the two halves of
  `http_connection::close`. Everything else a connection does is abstracted to
  its being in `hash`. A descriptor is a model value that the kernel may hand
  out again once it is not `open`. `wakeup` writes the eight bytes "0x123456",
  3.9e18 as a number, so an eventfd holds four messages: `MaxCount` is the number of messages after
  which a write fails.
* **`Handoff`**: what the server promises about accepted connections, without
  queues and eventfds. `HttpDispatch` implements it with `turn` computed from
  `index` and the acceptor's position, `pending` the queues, and `serving` the
  connections whose descriptor is not closed.
* **`HttpConnection`**: one `http_thread` with its reactor loop, its connection
  objects and their clients. A step is one system call with the assignments
  that follow it, or one turn of the loop of `parse_request`. Requests are
  pieces: `keep`, `close`, `bad`, `part` (of a request line), `blank` (line).
  Clients send, shut down and abort at any time between steps. `Rearmed` is the
  end of `parse_request` when more is needed: `add_read`, and `add_write` if
  replies are buffered.
* **`Epoll`**: `epoll::add` and `remove` as functions on the map `events` and
  the kernel's registrations. `HttpConnection` uses it for every call.
* **`ThreadPool`**: the owner of a pool, which calls `push`, `resize` and
  `stop`, and its workers. `opc` and `wpc` are program counters. A read of a
  flag that has moved or is gone is a data race or a read past the end: it
  yields any value of `Garbage`, or the program crashes (`Crash`). Between
  `flags.resize` and `make_shared` the element is a null pointer, and the read
  always crashes.
* **`Buffer`**: the class `buffer`, with the block as a function from offsets to
  byte values, and `wild` set by a write outside of it. **`ByteFifo`** is the
  queue of bytes it implements, with the content as the mapping of its state.
* **`Request`**: both ends of a connection. `Parts` is what `set_request`,
  `set_response`, `send_to` and the `send_chunk` functions write, as tokens; the
  actions under `Parse` are the state machine of `request::parse`, one line or one
  run of body bytes a step, called whenever data has arrived (`Call`) and repeated
  while messages are complete (`More`), as `parse_request` does. With `Split` the
  network cuts anywhere; without, only between lines, between chunks and inside
  bodies. Header values are numbers, a folded line adds a digit. A request with
  `Connection: close` ends the reading (`Closing`), but not the parsing of what
  has been read. `Sendable` says what senders write, malformed messages
  included: one header of the user's, folded over any number of lines, and a
  body or chunks. It leaves out
  content behind a start line that has no body for `parse` (`GET`, `HEAD`, 1xx,
  204, 304), which `set_request` and `set_response` accept from the caller, and
  of which `set_response` adds an error page by itself for a code such as 304;
  `send_chunk` of an empty buffer, which writes the end of all chunks; requests
  in chunks, which the library does not send; and a second header of the user's.
* **`Reactor`**: `reactor<select>` and `reactor<poll>` (`mux`) with `time`.
  Callbacks are user code that may call the reactor (`SetTimer`, `SetHandler`,
  `RemoveHandler`, `SetTerminated`) at any point of a turn. The set of timers
  keeps no two with the same timeout: the second is `"lost"`. `process` is the
  steps `Fire`, `Fired`, `Processed`, with its iterator `it`; it is called by
  `shortest_time` and by the loop. `in` and `out` are the bit sets of `select`,
  or `pollfdMap` and `result` of `poll`; `highest` and `size` are what
  `select::add` and `resize` compute. `Refused` is its error return for
  descriptors above 1024, at which the reactor does not look. A handler may be
  set in the turn in which the descriptor lost its last one; the channel is
  then dropped with it, and the history variable `revived` remembers where that
  happened. `poll` keeps its last result when it times
  out or fails: `fresh` is false in such a turn. `"no channel"`, `"no entry"` and
  `"wild write"` are the places where the loop can crash.
* **`ThreadLoop`**: the main thread of a `thread_loop` and its workers, with
  `Epoll` for each worker. `AddThread`, `Grown`, `PushTask` and `StartLoop` are
  the start, in which workers read a vector that is still growing; `Accept` ...
  `Wakeup` are the accept handler, `ReadEventfd`, `PopClient` and `Drained` the
  wakeup handler. `CallHandler` is a user handler that closes what it is given.
* **`ProcessLoop`**: the master of a `process_loop` with the class `signal`, and
  its workers as processes, which run and end. Signals are pending, blocked and
  delivered as by the kernel; `Handle` is `signal::__handler`, `Reap` and
  `Manage` are the body of the loop of the master.
* **`Proactor`**: threads in `run()`. `Look`, `Check` and `Wait` are the three
  branches, `Pop` ... `Return` execute an operation, `Enter` ... `Leave` are the
  reactor, under the mutex; `Post` is `async_*`, called by a callback.
* **`HttpDispatchProofs`**, **`BufferProofs`**, **`HttpConnectionProofs`**,
  **`ThreadPoolProofs`**, **`ReactorProofs`**, **`ProactorProofs`**,
  **`RequestProofs`**: theorems about the module of that name; **`LoopProofs`**:
  theorems about `ThreadLoop` and `ProcessLoop`, whose definitions have different
  names (`MasterInit`, `MasterNext`, `MasterSpec`) for that reason.
* **`MC*`**: instances for TLC.

## Runs

| Run | Checks | Bounds |
|---|---|---|
| `dispatch` | types and eventfd capacity; `NoForgottenClient`, `SingleOwner`, `OpenIsHeld`; `ImplementsHandoff` (with fairness) | 2 workers, 3 descriptors, 2 messages per eventfd |
| `connection` | `RepliesInOrder`, `DispatchSafe`, `EventsCoverKernel`, `UnsentIsArmed`, `UnwatchedIsStale` | 2 clients, 2 descriptors, 2 objects, 2 pieces each, whole or partial; 1 failure of `epoll_wait` |
| `connection_live` | `RepliesDelivered`, `ClosingFinishes` | 2 clients on 1 descriptor, 2 pieces each, malformed and blank ones too |
| `connection_half_close` | `HalfClosedFinishes`, violated | 1 client |
| `request` | `HandledIsSent`, `Aligned`, `RejectsOnlyMalformed`, `AllHandled` | 2 messages out of 15 shapes, headers folded once and twice, cut at every harmless place |
| `request_split` | `HandledIsSent` when the network cuts anywhere, violated | 1 `GET` |
| `reactor` | `HandlersMatch`, `DispatchHasChannel`, `SetsCover`, `FiresInOrder`, `TimersFire`, `ReadyIsServed` | `select` and `poll`; 2 timers, descriptors 1, 200 and 2000 (`select`), 3 handlers, 2 calls from callbacks or failures of `listen`, 2 instants |
| `thread_pool` | `TaskConserved`, `NoStrandedTask`, `TasksFinish`, `StopReturns` | 2 tasks, 3 threads in all, 2 calls of `resize` |
| `thread_loop` | `NoForgottenClient`, `InOnePlace`, `UnwatchedIsReused`, `ClientsTaken` | 2 workers, 3 clients on 2 descriptors, 2 messages per eventfd |
| `process_loop` | `LeavesNoWorker`, `TableIsTrue`, `InterruptEnds` | 4 workers, signals at any time |
| `proactor` | `HandlersMatch`, `ExecutedOnce`, `NoStrandedOp`, `OpsExecuted` | 2 threads, 5 operations, of which 4 are posted by callbacks, reading and writing on one socket |
| `buffer` | `ContentFits`, `NoWildWrite`, `ImplementsByteFifo` | 4 byte values, blocks of up to 4 bytes |

`TypeOK` is part of one invariant of each module: of `DispatchSafe` in
`HttpConnection`, `Aligned` in `Request`, `HandlersMatch` in `Reactor` and
`Proactor`, `TaskConserved` in `ThreadPool`, `InOnePlace` in `ThreadLoop`,
`TableIsTrue` in `ProcessLoop` (where it is `MasterTypeOK`).

Why the bounds suffice. In `dispatch` a worker has a connection queued, one
being closed and one just accepted on the number of the latter at the same time,
and an eventfd is full; beyond that the theorems take over, for every number of workers.
In `connection` an object and a descriptor serve two clients in turn, in the same
and in crossed pairing, and two requests are pipelined. In `thread_pool` a thread
is detached, its flag cut off and a new thread started at the same index, while
tasks are pushed, and it reads its flag at every point of this. In `request` every
pair of shapes is pipelined; the parser keeps nothing but `NewRequest` from one
message to the next. In `reactor` a timer that has fired sets another, or
removes a handler of a descriptor that is about to be dispatched, one callback
removes a handler and sets it again, and two timers
are due together; descriptor 200 makes the sets of `select` grow, and is added
before and after 1, and descriptor 2000 is refused. What is watched differs
between the classes (`Events`): `poll` knows no limit. In `thread_loop` an eventfd is full, both wakeups go to the
same worker, a worker drains what another was woken for, and a number is used
again by the same and by another worker. In `process_loop` forks fail, workers
end before and while the master is interrupted, in every order with the timer,
and more than one of them between two signals. In `proactor` a thread fails to
pop what it has seen, and a callback posts to a socket before, between and after
the turns of the reactor that another thread runs. In `buffer` every branch of `__expand` and every position of a
line end in the block occurs; the sizes 128, 256 and 4096 are parameters, and the
proofs do not depend on them.

Deadlock is not checked: a server without clients, a pool without tasks and a
stopped pool rightly do nothing.

### What fails

Two runs are disagreements of the code with its documentation.

* A client that closes an idle connection: the read handler sets `CLOSING` and
  unregisters reading, but only the write handler closes, and it is not
  registered. The descriptor is never closed (`connection_half_close`).
* A request cut inside a header line is taken to have no more headers, since
  `buffer::pop` returns the same for "no line yet" and for a blank line
  (`request_split`). The `request` run shows that cuts between lines are
  harmless; cuts between the size and the data of a chunk, or before a folded
  line, are not.

The models also contain these, which no document denies. Where one of them limits
a property of a passing run, the property names it as an exception, and there
are no others.

* A request with `Connection: close` followed by part of another request
  registers reading again. `close` does not tell `epoll`, so the map `events`
  keeps the entry while the kernel drops the registration, and the next
  connection with that number is not watched (`UnwatchedIsStale`). The same
  happens in `thread_loop`, whose handlers close descriptors without a word to
  the reactor (`UnwatchedIsReused`).
* When `epoll_wait` fails, the previous batch is dispatched once more. If a
  connection was closed in it, the loop dereferences a null channel
  (`DispatchSafe`). If its number has been given to a new connection meanwhile,
  and is stale, the loop reads a request of the new client; the reply stays in
  the buffer, because nothing can be registered for the number (the exception in
  `UnsentIsArmed`; it takes three clients, more than the run has, and came
  to light when the proof failed without it). `poll` keeps its result also when
  it merely times out (`DispatchHasChannel`), and `poll::remove` throws for a
  handler that is removed twice.
* A callback that removes the last handler of a descriptor and sets one again:
  `needclean` still has the number, so that the channel is erased at the end of
  the turn while the descriptor stays registered, and when it is ready the loop
  dereferences a null channel (`HandlersMatch`, `DispatchHasChannel`).
* From descriptor 192 on `select::add` enlarges its sets, and `resize` clears
  memory far behind them (`SetsCover`). Above 1024 it fails, which the reactor
  ignores: the handler is there and never called (`HandlersMatch`), and removing
  it clears a bit behind the sets.
* A thread that `resize` has detached reads its flag by index. If the pool grows
  again first, it finds the flag of the new thread and does not end, or a null
  pointer where that flag is not yet made, and the program crashes (`TasksFinish`
  and `StopReturns` except the crash).
* A header that is folded over more than two lines, as in
  `http_multiline_header_test` (`regress_http_client.cc:281-289`), keeps its first
  line and its last: `v` is not updated (`request.cc:77`). A body that was sent in
  chunks has a CR LF behind each chunk (`request.cc:114`). `HandledIsSent` says
  that these are the only differences.
* A thread of the proactor that has something to notify or to post asks for a
  mutex that another holds while it waits for descriptors. If none of these
  becomes ready, such as a listening socket to which nobody connects, what is in
  `op_queue` and what is to be posted wait for ever (`NoStrandedOp` and
  `OpsExecuted` except it as `Listening`).
* A handler of the proactor that removes itself destroys the closure it is
  running in, and then reads from it (`OpsExecuted` excepts the crash).
* Handlers of `thread_loop` and `process_loop` are called with a reference to a
  field of a `client_info` that has been deleted.
* `thread_loop` starts workers while the vector they read is being filled
  (`ClientsTaken` excepts the crash).
* The callbacks for SIGINT and SIGCHLD are gone after their first use: a worker
  that ends later is never reaped, and the table goes stale. Then `live` never
  becomes false and the master ends by SIGALRM, for which it has no handler,
  instead of `exit(0)`. `InterruptEnds` says that it does end. An interrupt
  delivered before the first `sigsuspend` is noticed only at the next signal.
  One that comes while workers are forked, before `set_handler`, ends the master
  and leaves the workers running (`LeavesNoWorker` excepts it).
* `signal_worker_processes` calls `kill(-1, SIGKILL)` for an entry whose worker
  was reaped or never forked: all processes of the user (`Signalled`).

### Fairness

* `HttpDispatch`: the main thread finishes what it has accepted and each worker
  takes its next step if it can (weak fairness per thread). Clients need not
  connect and connections need not end.
* `HttpConnection`: weak fairness of the loop, and strong fairness, per
  descriptor, of a write that takes some bytes: a client that goes on reading makes room
  again and again. A client that has aborted is excepted.
* `Request`: TCP delivers what was sent and the reader, which is registered for
  reading until a request asks to close, reads it (weak fairness of each).
* `Reactor`: weak fairness of the loop, in which callbacks return, and of the
  clock. Descriptors need not become ready.
* `ThreadLoop`: the main thread finishes what it has accepted, and each worker
  takes its next step if it can. Clients need not connect, handlers need not
  close.
* `ProcessLoop`: the master runs, the interval timer expires (the master restarts
  it in every turn, so this assumes that signals pause for its 50 ms), and SIGKILL
  ends a worker. Workers need not end by themselves, interrupts need not come.
* `Proactor`: strong fairness of each thread, for the mutex. Descriptors need not
  become ready: a client may never come, or never send. Spurious wakeups may but
  need not happen.
* `ThreadPool`: strong fairness of each thread, because a mutex that is free
  again and again is granted in the end. Tasks return. Spurious wakeups may but
  need not happen.

## Proofs

`HttpDispatchProofs`, for every positive number of workers and every eventfd
capacity:

* `TypeCorrect`. `TypeOK` is not inductive: a push appends `accfd`, which is a
  descriptor only at that point of the handler. `PcOK` relates the program
  counters to `accfd`, `closing` and `hash`.
* `NoLostWakeup`: `NoForgottenClient` is inductive relative to `TypeOK`. The
  order of the handler matters: it reads the eventfd before it drains.
* `OneOwner`, `NoneLost`: `SingleOwner` and `OpenIsHeld` are inductive only
  together, with `TypeOK` and `PcOK`. The kernel gives a number that is not
  open, and `OpenIsHeld` says that nobody then holds it.
* `DispatchImplementsHandoff`: every step is a step of `Handoff` or a stutter,
  from the same invariant (the safety part, `H!SafeSpec`).

`BufferProofs`, for all sizes and byte values:

* lemmas on blocks of memory (`Store`, `Slice`), then one per private function
  (`AlignFits`, `ReallocFits`, `ExpandedFits`, `DrainFits`, `AppendFits`,
  `CutFits`): what it does to the content, and that the content still fits;
* `ContentAlwaysFits`, `NeverWild`: the invariant is their conjunction, since
  room is computed from counters that must be right;
* `BufferIsByteFifo`: every call is a step of `ByteFifo`.

`HttpConnectionProofs`, for any number of clients, descriptors, objects, pieces
and failures of `epoll_wait`. The five theorems `RepliesStayInOrder`,
`DispatchIsSafe`, `EventsAlwaysCover`, `UnsentAlwaysArmed` and
`UnwatchedAlwaysStale` follow from one invariant, `IInv`; none of the five
properties is inductive. Its parts:

* `Linked`, `Sockets`, `Busy`: channels and objects point at each other, an
  object without descriptor is as a new one (so nothing of its last client is
  left in it), no open descriptor is queued and served at once, and no two have
  the same client. Without `Sockets` a reply written to a descriptor could be
  another client's.
* `Registers`: where `events` and the kernel disagree, the kernel has nothing and
  `events` says reading. `AddBecomes` and `RemoveBecomes` sum `epoll::add` and
  `remove` up from that: they do what they should, or nothing.
* `Fresh`, `Armed`: while `epoll_wait` works, only descriptors for which `events`
  is right are dispatched, so that only for those replies are buffered; what is
  registered suits status and write buffer.
* `Ordered`: what a client has got, followed by what its object has buffered, is
  what was answered; what is in flight and in the read buffer is the client's own;
  and a client is not answered more often than it has sent, which bounds
  `answered`.

The steps of the loop that change an object without closing it are summed up by
`Callback(f, X)`: the callback of `f` changes one object and one registration.
`CallbacksServe` shows that each of them is such a step, `CallbackStructure` and
`CallbackArmed` are then proved once.

`ThreadPoolProofs`, for any tasks, threads, sizes and any outcome of a read of a
stale flag: `TasksConserved` and `NoTaskStranded`. A task is in one place
(`Once`). That no wakeup is lost needs a count: while a worker waits, the queue
is no longer than the number of workers that will look into it, plus one if a
notification is due (`Counted`). It is preserved because a worker that has found
the queue empty still holds the mutex, and at most one task was pushed since
(`Guarded`).

`LoopProofs`, for `thread_loop` with any number of workers and clients: `NoClientForgotten`,
`OnePlaceEach`, `UnwatchedOnlyIfReused`. The invariant adds where the main thread
is (`MainOK`) and that `events` has entries only for descriptors whose clients
the worker has taken (`RegistersTaken`).

`ReactorProofs`, for `select` and `poll`, any timers and any descriptors:
`HandlersAlwaysMatch`, `DispatchFindsChannel`, `SetsAlwaysCover`, and the action
property `TimersFireInOrder`. The latter rests on what the iterator of `process`
may have left behind: only timers added since the clock was read
(`NextInOrder`), and no two with one timeout (`TimeoutsDiffer`). The first timer
of a set exists by `LeastNumber`, which is proved from the well-foundedness of
inclusion of finite sets.

`ProactorProofs`, for any threads and operations: `HandlersAlwaysMatch`,
`NoOpStranded`, `OpsExecutedOnce`. `Once` says for every operation that it waits,
is queued, is held by one thread, is still to be posted by one callback, or was
executed. `NoStrandedOp` follows from what the threads have seen: one of them has
not yet seen `op_queue` empty while it is not, and is on its way to it unless it
asks for the mutex of a thread that waits for descriptors. That an operation is posted by one callback, and once, is
`PostedOnceAssumption`: a callback makes a new operation for each call of
`async_*`.

`LoopProofs`, for `process_loop` with any number of workers: `TableStaysTrue`,
`NoWorkerLeft`.
What the flags say of the workers (`Flags`) needs where the master is
(`Progress`): after an interrupt none is started, and SIGALRM, the one signal
without a handler, comes only after SIGKILL was sent to all.

`RequestProofs`, for any number of `Sendable` messages, with bodies and chunks of
any length and any number of folded lines:
`OnlyMalformedRejected`, `AlwaysAligned` and `AllHandledWereSent`, that is all
safety properties of the `request` run. Their hypothesis is `~Split`: for a
network that cuts anywhere they are false, as the run `request_split` shows. None
of the three is inductive, because in the middle of a message they say nothing.
The invariant `IInv` says where the parser is in the stream:

* `Reading`: what is in the read buffer and on the wire is a suffix of what was
  sent, from the place the parser has come to: a start line (`AtStart`), the line
  of a header (`InHeaders`), a body or a chunk (`InBody`), the blank line at the
  end of the chunks (`InTrailer`). With the place go the fields of `req` that have been
  read up to it: which headers are in the map, with which values, and how many
  bytes of the body. `Cut` says that the buffer ends where the network may cut:
  so `buffer::pop` finds a line end whenever there is anything to read, which is
  what fails with `Split`.
* `Done`: the requests handed over match the messages they were read from.
* `Sent`, `Types`: the messages are of the kind `Init` chooses; types.

Each action is then one lemma on what the first line or the first bytes of the
stream are at that place. The streams are folds (`Flat`), about which facts need
induction: over sequences and over the headers and chunks of a message. The
library's induction theorems cannot be used, so `LeastNumber` (a nonempty set of
numbers has a least element, from the well-foundedness of inclusion of finite
sets) gives `Induction` for whatever can be stated as membership in a set, and
`Flat` is reasoned about through the function by which its fold is defined.

The proofs rest on the named assumptions of the modules: positive sizes, null
values outside of their sets, descriptors that are natural numbers, and, in
`Proactor`, a finite set of operations to begin with and
`PostedOnceAssumption`, and in `Request` `MessagesAssumption` (all messages are
`Sendable`). `MaxTotal` bounds the block in `Buffer`: a reallocation
beyond it does not happen; `MaxSend`, `MaxErrors`, `MaxCalls` and their like are
any natural numbers.

Only model-checked: liveness, with the fairness it needs, including that of
`Handoff` (`ImplementsHandoff`), which is out of the prover's reach:
`RepliesDelivered`, `ClosingFinishes`, `AllHandled`, `TimersFire`, `ReadyIsServed`,
`TasksFinish`, `StopReturns`, `ClientsTaken`, `InterruptEnds` and `OpsExecuted`.

## Not modelled

* `string.hh`, `file.hh` and most of `socket.hh` are wrappers of system calls and
  text conversions (`tcp::accept` is part of `HttpDispatch` and `ThreadLoop`);
  `lock_list` has no caller, and `buffer::find`, a query, only a test;
  `sample/` and `test/` are clients of the library.
* `HttpConnection`: replies sent after the handler has returned (timers); SIGPIPE
  is taken to be ignored.
* `ThreadPool`: `pop()` and the counter behind `idle_size()`; there is one owner,
  since the library never calls a pool from two threads.
* `Reactor`: the map from ids to timers with `remove`, which nobody calls, and
  `set_persistent`, which a test calls right after `set_timer`, as if it were its
  argument; `loop(nonblock, once)` except as `Proactor` uses it (`sample/bench.cc`
  calls `loop(true, true)`), and error handlers, which are never called.
* `ProcessLoop`: the socket pair between master and worker, on which nothing is
  ever sent, the flag `quit`, which is never set, `signal::set_persistent`, which
  only a test calls, and what a worker does with its
  clients (its accept handler is that of `ThreadLoop` without a queue).
* `Proactor`: `stopped`, which nobody sets, and operations posted by threads that
  are not in `run()`.
* Integer overflow of the block length of a `buffer`: it needs a gigabyte of data.

## State of the project

Every invariant that a passing run checks is stated by a theorem, and so are the
action property `FiresInOrder`, the refinement of `ByteFifo` and the safety part of
the refinement of `Handoff`. What could be added:

1. Shorter proofs: `HttpConnectionProofs` and `ProactorProofs` repeat for several
   actions what one lemma about updates of a record could say.
2. Action properties that the invariants already support, such as that a
   connection object changes its descriptor only by `Adopt` and `Close`.
