# Specifications of mod_surrealdb

mod_surrealdb connects FreeSWITCH to SurrealDB: a C module with an event and CDR
sink and API commands, a Rust library with a C interface in front of the SurrealDB
SDK, and two external workers that run commands found in a table. This directory
holds TLA+ models of it, the configurations that TLC checks, and proofs that TLAPS
checks.

## 1. The system

| component | state it keeps | operations | interacts with |
|---|---|---|---|
| **Event and CDR sink** (`mod_surrealdb.c` 380–608) | `events_running`, `send_queue`, `event_thread`, `cb_reset_time`, `event_nodes`, the messages in flight | start, bind, event and CDR handler, sender thread, stop and drain | FreeSWITCH dispatcher threads call the handlers; the sender calls `surreal_publish`; load and shutdown start and stop it |
| **Connection handle** (`surrealdb_ffi/src/lib.rs` 241–435, 578–714) | `client`, `last_error_msg`, `last_error_code` | connect, publish, update, select, get, close, last error | called by the sender and by the API commands from any thread, with no lock |
| **Command workers** (`main.rs`, `surreal_commands_worker.py`) | nothing of their own but the row in hand; the `status` of the rows is the shared state | LIVE loop, poll loop, claim, run, ack | each other and the producers, only through the table |
| **Subscription** (`lib.rs` 449–576) | `subs`, one spawned task per table with its `stop` flag | subscribe, unsubscribe, the LIVE loop | calls the module's callback from a runtime thread |
| **Command callback** (`mod_surrealdb.c` 235–377) | none | `on_command_cb` | called by the subscription, runs FreeSWITCH API commands, calls `surreal_update` |
| **Module life cycle and configuration** (`mod_surrealdb.c` 107–211, 611–682) | `cfg`, `handle` | read_config, try_connect, load, shutdown | order of all the others |
| **API commands** (`mod_surrealdb.c` 684–969) | none | publish, select, get, update | the handle |
| **URL normalization** (`lib.rs` 31–69, 287–293, `main.rs` 45–53) | none | parse_host_port, tcp_probe, normalize | connect, of the stub, the real client and the Rust worker |
| **Stub build of the library** (`lib.rs` 4–191) | the handle, its registered callback and the mutex around it | the same entry points; subscribe, unsubscribe and debug_emit take the mutex | called from any thread, calls the callback with the mutex held |
| build scripts, examples | none | | |

What is hard here: handlers run on FreeSWITCH's threads while the module stops; the
breaker's variable is written by all of them without a lock; the queue has an end;
messages are plain `malloc`ed memory handed from thread to thread; the handle is a
`&mut` made from a raw pointer, by several threads at once; publishes fail, or
succeed without the answer arriving; workers crash between the claim and the
result, requests of theirs are lost, notifications are stale.

What makes each component correct:

* *sink*: every message is freed exactly once on every path; no handler or sender
  uses a queue or handle that is gone; nothing is bound that nobody serves; rows
  appear in queue order and never twice; the breaker drops for a bounded time; the
  shutdown ends.
* *handle*: no request through a closed connection; a failed connection is replaced,
  not leaked; the return code, the error code and the text are those of the call.
* *workers*: a command is run at most once; a result is that of a run and stays; each
  row gets its result.
* *subscription and callback*: a command is run for being offered as new and for
  nothing else; a claimed command is run; the task follows the table, ends when it is
  told to and begins nothing more; a result is that of a run.
* *urls and stub*: the address probed is the one the url names; a callback that was
  unsubscribed does not run; every call returns; nothing is written behind a buffer.

`PROJECT.json` lists the hazards line by line with the properties that cover them, or
the reason why none does, and maps every definition to the lines it models.

## 2. Modules

| module | what it is |
|---|---|
| `EventSink` | the sink: load, bind, handlers, sender thread, shutdown |
| `LossyFifo` | what the sink promises: an abstract lossy FIFO channel |
| `CommandFeed` | what those who run commands promise, the external workers and the subscription alike: an abstract feed of requests, begins and reports |
| `SurHandle` | the connection handle and its concurrent callers |
| `CommandWorkers` | the table of commands and the workers of both kinds |
| `Subscription` | `surreal_subscribe`, the spawned task, unsubscribe, close, and the callback `on_command_cb` |
| `UrlForms` | the operators on urls, and the forms that urls are written in |
| `FfiStub` | the stub build, which probes with `UrlForms` |
| `MCEventSink`, `MCSurHandle`, `MCCommandWorkers`, `MCSubscription`, `MCFfiStub` | model values, filters and symmetry for TLC |
| `SequenceFacts` | lemmas on `Range` and injectivity of `Append` and `Tail`, and on counting the places of a sequence |
| `EventSinkProofs`, `LossyFifoProofs`, `SurHandleProofs`, `SubscriptionProofs`, `UrlFormsProofs`, `FfiStubProofs`, `CommandWorkersProofs` | theorems and proofs |

Definitions marked `fault:` are not used by the specifications. They are variants of
the definition below them, with a plausible slip of the code in it, and serve to show
that each property notices one: put `Peeked` in the place of `Popped` and `OneOwner`
is violated. `PROJECT.json` pairs them with the properties.

### EventSink

One action per step between two accesses to shared state.

* `control` is the position in `mod_surrealdb_load` (from the start of
  `mod_surrealdb_start_event_sink`) and in `mod_surrealdb_shutdown`. `SinkSkipped`,
  `QueueCreateFails`, `ThreadCreateFails` are its early returns, `BindNode` one turn
  of the binding loop (bound, or left out by an unknown name or a failed bind),
  `StopBegin` … `Close` the shutdown in the order of the code.
* `pc[d]` is the position of a handler: entered, clock read, message built, found the
  queue full. The two handlers take the same steps with different contents, so one
  set of actions stands for both; the node in the message tells them apart. A
  "dispatcher" of the model is one delivery of one event to one bound node.
* `event_thread` is the position of the sender. `Publish(ok, stored)` separates the
  return code from what the database did: rc 0 with nothing stored (a statement
  error is not looked at) and an error although the row was stored both happen.
* `heap` and `rows` are ghosts: the allocated messages and the stored rows.

External, modelled from its use: FreeSWITCH's event system delivers under a read lock
that bind and unbind take for writing (`NoHandlerRuns`), and its queue is a bounded
FIFO. Each event is delivered once to each node. The clock never goes back; its tick
is smaller than the breaker's interval. `Init` stands for any configuration and any
outcome of connecting.

### SurHandle

`Connect` is `surreal_connect` or its token form: a handle with one connection, or
NULL. `Call` to `Report` follow one call of `surreal_publish`, `surreal_update`,
`surreal_select` or `surreal_get` through its accesses to `h.client`, the error text
and the error code: argument checks, clearing the text (publish only), `as_ref()`,
lazy reconnect, the store and the second read with `unwrap()`, the request, the
text, the code, the reset (publish only). The return codes are those of the code; each
entry point has its own. Between any two steps another thread may run, since no
lock is held. A connection is a number; `dropped` holds those closed. `ReadCode` and
`Report` are the API command reading code and text after an error. `Close` is
`surreal_close`, which shutdown calls when no call is in progress. What reference
or result a data race could produce beyond these interleavings is not modelled:
the interleavings already show the violation. A table name that is no identifier
fails inside the request of `surreal_publish` and so costs it a healthy connection:
`QueryFails` stands for that as well.

### CommandWorkers

A row's `status` is the shared state. Rust workers connect, again and again until it
succeeds, follow the LIVE stream if it starts and poll otherwise or after it ends;
Python workers poll. `Take` to `Ack` are `handle_row` and `handle`. `Update` is an UPDATE that reaches the
row or is lost unnoticed. A Rust worker cannot read a numeric key (`IntKey`) and
writes keys unescaped (`QuotedKey`: its statements miss the row). Whether the SDK
decodes an id that the query has cast to a string is not in this repository, so
`decodes` is either. An action that is no string (`Malformed`) is none that the Rust
worker decodes. In the Python worker its `.lower()` raises, after the claim and outside
the `try`: `Raise` leaves the row processing and gives up the rest of the batch, which
`main` catches. `Deployments` says which workers may be installed together. `Touch` is a
producer that edits a row while it is new: it makes a second notification. `Crash` loses
everything but the table. `crashes` is a ghost: for each crash the row that the worker
had claimed and not acknowledged, so that `Orphaned` rows are only those.

### Subscription

`Subscribe` spawns a task; `Begin` to `ClaimAnswered` are the statements of its `async`
block between two awaits or two accesses to what it shares: the stop flag, its
client, its LIVE query. `Run`, `CheckHandle` and `Ack` are the callback, which the
task calls on the runtime's thread: it runs the command, tests `g_mod.handle`, and
later uses it. Every write to the table is notified to every LIVE query (`Notify`), those
of the claims and results too. Four things need a word:

* `nests`. The task calls `open_client`, which calls `block_on` on a thread of the same
  runtime; tokio panics there. So does the `block_on` of `surreal_update`, which the
  callback calls from the task. `nests` holds those of the two that are let through.
  The code as it is lets none: every task ends in `Begin`, which is what `sub_starts`
  shows. With `open_client` alone the loop runs until its first result (`AckPanics`),
  with both it is the loop as written. `sub_loop` checks all three, and for safety, the
  refinement and the end after an unsubscribe only: that the loop comes to follow the
  table, or runs what it is told of, is not true of the code and is not claimed. (The
  panic leaves an `extern "C"` function, at which recent compilers end the process: then
  nothing runs any more. `AckPanics` is the milder outcome.)
* `QuotedKey`. The claim is written with the bare key. For a key such as a UUID that is no
  SurrealQL: `ClaimFails` passes the command over.
* Undefined behaviour. `id` points into JSON that has been freed, and the handle may be
  freed between the test and the use. `Ack` therefore reaches the row or nothing,
  whatever else holds. More could happen; that no other row is written is an
  assumption.
* `Cancel`. An abort takes effect at an await; the model lets it do so at each of them
  as long as the task is there, also where the await would have been ready at once.

A detached task (its entry in `subs` replaced, or the handle closed) goes on
with nobody to stop it, as in the code. `offered`, `called` and `after` are ghosts.

### CommandFeed

What `CommandWorkers` and `Subscription` have in common: a command is asked for, and asking again
takes a report back; it is begun for having been asked for, once for each time; it is
reported as done only after it was begun, unless it is a refused one; a report may be
withdrawn, for both claim a row without looking at its status. The mappings differ in
where a request comes from. The workers' table asks each installed worker for a row once
when it is created and again when it is edited while new (`asked`), whatever way a worker
learns of it. A LIVE query asks once for each notification, so that two tasks on one table are asked twice
(`offered`). Rows whose key a Rust worker cannot write (`QuotedKey`) are left out on the
workers' side: its claims of them miss the row, which it runs again at every poll.

### UrlForms and FfiStub

A url is a sequence of pieces (`ws`, `://`, `ip4`, `:`, `8000`, `/`, `rpc`), enough for the
operators to find, split and strip what the code does. `Form` enumerates how urls are
written and `Named` says which address each names, independently of the operators.
What the SDK makes of its endpoint is not in this repository; `SameHostAsReal` compares
the endpoint itself, as text, with the host that the stub has found in the same url.
Blanks around a url are not among the forms: the real client trims them and the stub
does not.

`FfiStub` has one action per access to the mutex of the callback. `Emit` calls the callback
and keeps the mutex; the callback returns or calls an entry point itself
(`Nested`). A program whose callback subscribes or unsubscribes deadlocks with
itself: `Nested` leaves these out because the only callback of this repository,
`on_command_cb`, calls `surreal_update` alone.

## 3. What TLC checks

Every passing run completes within about two minutes with `tlc -config X.cfg M`.

| run | result | what it shows |
|---|---|---|
| `sink` | passes | with two handlers, a queue of two places and shutdown at any time: ownership of messages (`HeapAccounted`, `OneOwner`, `NothingLeaks`), order of shutdown (`QueueOutlivesHandlers`, `SenderOutlived`, `BoundIsServed`), `BreakerBounded`, the inductive invariant `IInv`; the sink implements `LossyFifo` (so that nothing is stored twice), and under fairness queued messages settle and a shutdown ends |
| `sink_cdr` | violation | "one row per `CHANNEL_HANGUP_COMPLETE`" (quickstart) does not hold: in TLC's trace the database rejects the statement, `surreal_publish` returns 0 all the same ("Returns 0 on success", says its header), and the CDR is destroyed as published. A full queue, a failed publish and the drain lose one as well |
| `handle_alone` | passes | one caller, from connect to close: no closed or failed connection is used, none leaks, the code and text it reads after a failed request are of that call (`ReportIsOwn`) |
| `handle_shared` | passes | three threads: safe until the first failed publish |
| `handle_unwrap` | violation | two publishes: `unwrap()` meets the `None` the other has written |
| `worker_one` | passes | a single worker of either kind that may crash runs a command at most once (twice if its producer edited it while new), never marks a refused one done, keeps results, implements `CommandFeed`, and by polling settles every readable row although unreadable ones fill places of each batch and an exception ends one; the exception is a row that it had claimed when it crashed |
| `worker_team` | passes | two workers that share a table, with a crash: a row is run by each of them at most once for every time the table asked for it (`RunsBounded`), the bound that is left when `worker_pair` has shown that the claim excludes nobody; together they implement `CommandFeed` |
| `worker_pair` | violation | two workers run the same row: the claim is unconditional |
| `worker_report` | violation | a lost result is not sent again; the row stays `processing` |
| `sub_loop` | passes | the task, whatever of its nested `block_on` is let through: commands run only for being offered as new and once per offer (`OfferedThenRun`), a claimed command is run if nothing fails (`NothingAbandoned`), a stopped task begins at most the command in hand (`LastCommandOnly`); all tasks together implement `CommandFeed` (so that no row says done that was not run); a task ends after an unsubscribe |
| `sub_starts` | violation | "On subscribe, the module starts a live stream" (commands.md): `surreal_subscribe` returns 0 and the task panics |
| `stub` | passes | all 120 forms of url, of which those with an IPv4 address and a port on which something listens connect (`ConnectsWhereNamed`) and the real client's endpoint for the same url is the host probed, then nothing, a port or a path (`SameHostAsReal`); the registered callback is the one that runs; whoever has the mutex can go on (`HolderCanStep`); the NUL is inside the buffer; every call returns |

Deadlock is not checked, since each system may stop: the module shuts down, the
workers idle when no row is new, and the callers' number of calls is bounded.

### Bounds

* *Sink.* Three events, one of them a hangup that both an event node and the CDR node
  receive: four deliveries, enough to fill a queue of two places, to be refused by it and
  to be shed by the breaker, with one message in the sender. Two handlers at once are
  enough for every pairwise race on the queue and on `cb_reset_time`; the theorems have
  no such bound. Within `MaxTime` an interval begins, is moved and ends.
* *Subscription.* Four commands: one that is refused, one whose status is written in
  capitals, one with a numeric key, one whose key needs brackets. Two tasks, so that one
  can be detached or be aborted while the other follows. Three events, the subscriptions
  among them: a subscription, its command, and a repetition, a lost connection, a
  deletion or a second subscription.
* *Stub.* Two threads and two callbacks: one replaces or removes what the other
  runs. Buffers of 0, 1 and 3 bytes: refused, only the NUL, cut and complete.
* *Handle.* Two or three connections: the first, the one after a failure and one
  more. Three callers with two kinds of call, of which only one resets.
* *Workers.* `worker_one` has five rows, one of each kind that is treated differently: one
  with a numeric key, one with an action that is no string, one with a key that needs
  brackets, one refused, one touched. `LIMIT 4` so that a batch can be full, and three
  rows stay behind that a Rust worker cannot handle. One crash. `worker_team` has three
  rows, a Rust and a Python worker or two Python workers, and one crash. `MaxRuns` only
  stops the counter, above the bound that the properties state.

### Fairness

* *Sink.* Weak fairness of the load/shutdown function, the sender and each handler:
  threads are scheduled, and every database request returns. The last is an
  assumption, for `block_on` has no timeout; without it the join waits for ever.
  `UnbindNode` needs a moment without handlers. Weak fairness is enough because a
  finite number of deliveries is left, as FreeSWITCH's writer-preferring lock would
  also guarantee. Nothing makes events arrive or the shutdown begin.
* *Workers.* Weak fairness of polling and handling: the workers' loops never end and
  their requests are answered or time out. `StreamEnds` and `Crash` are not fair.
  Connecting is tried for ever and succeeds or falls back to polling.
* *Subscription.* Weak fairness of each task: the runtime polls its tasks and every
  request returns. Nothing says that connecting or LIVE ever succeeds. Producers, the
  owner and lost connections have no fairness.
* *Stub.* Weak fairness of each thread's steps, strong fairness of taking the mutex:
  a `std::sync::Mutex` is not fair, but no thread is starved for ever by others that
  release it again and again.

## 4. What TLAPS proves

For every value of the constants that satisfies `ConstantsAssumption` (positive queue
size and interval, as `read_config` guarantees), `HandleAssumption`,
`WorkersAssumption`, `SubscriptionAssumption` or `StubAssumption`:

* `EventSinkProofs!Invariant`: `Spec => []IInv`. The safety properties are not
  inductive. `QueueOutlivesHandlers` speaks of handlers and the queue, but what
  keeps it true is that a handler runs only while some node is bound
  (`HandlersBound`), that a node is bound only while the sink runs or is being
  unbound, and that the queue is given up only after that (`Lifecycle`). `OneOwner`
  needs that each delivery is started once, so that messages in handlers,
  queue and sender are pairwise different (`InFlightDistinct`). `BreakerBounded`
  needs that a handler's clock reading is not in the future (`ClockRead`). `IInv`
  is their conjunction; TLC checks it in `sink`.
* `Ownership`, `ShutdownOrder`, `BreakerInterval` follow from it. The type part bounds
  the queue by `send-queue-size`.
* `SinkIsLossyFifo`: under the mapping `fresh`, `transit`, `rows` the initial states
  map to initial states and each action to a step of the channel or to a
  stutter. A handler that pushes accepts, one that returns otherwise rejects; a
  publish delivers if the row was stored and loses otherwise; the drain loses.
* `LossyFifoProofs!DeliveredOnce` proves of the channel that nothing is delivered
  twice, and `StoredOnce` carries it over to the sink.
* `SurHandleProofs!SharedUntilFailure`: for any number of callers, while no publish has
  failed only the first connection exists and nobody is on the reconnect path
  (`OnlyFirst`), hence `SafeUntilFailure`.
* `AloneReconnects`, `AloneDoesNotLeak`: with one caller, whatever fails, by
  `AloneInv`: the reference of the caller is the handle's client, there is none while
  it reconnects, and every other connection is closed. `AloneReportsItsOwn` adds
  `ReportInv`, which follows text and code from where they are written to where they
  are read. `OneCaller` is an assumption of these theorems: two callers violate them.
* `SubscriptionProofs!StopsAfterOne`: a task that was told to stop and has begun a command
  since is past the point where it could have taken another (`StopInv`), however
  subscriptions and aborts interleave. `ClaimedIsRun`: `LiveInv` says that as long
  as nothing was rejected, lost or stopped a connected task is live, so that no answer
  of a claim is missed. `DoneMeansRun`: `OkInv` ties `ok` to a row that has been
  run and is not a refused one.
  `CallsAreOffered`: `OfferInv` counts the places where a command is still waiting, in the
  streams of all tasks and in their hands (`Open`), and what was called and what waits
  is never more than what was offered. A write that is not a producer's, and a deletion,
  add no such place (`SilentSetStatus`, `SilentNotify`), which is the gate on the status;
  taking a notification moves a place and does not add one (`PoppedOpen`).
  `TasksAreAFeed`: each step of the tasks, the callback and the owner is a step of
  `CommandFeed` or a stutter; a call is a `Begin` because `OfferInv` holds after it too.
* `UrlFormsProofs!ParsesWhatIsNamed`, `NormalizesToTheRest`: what the operators on urls compute,
  not for the enumerated urls alone but from how a url is made of pieces: where the
  first `://`, the first `/` and the last `:` of it are (`AtFirst`, `Cut`, `PortCut`), and
  what remains when the pieces before them are taken away. The second holds for any number
  of blanks on both sides. `EndpointBeginsWithTheHost` puts together what the endpoint and
  the parsed host of one url have in common.
* `FfiStubProofs!RunsWhatIsRegistered`: `LockInv`, the mutual exclusion of the mutex and
  that the callback in progress is the registered one. `WritesInside` needs the
  early return for a size of 0: otherwise `len - 1` would wrap. `ProbesTheSameHost` and
  `ConnectsExactlyWhereNamed` carry the facts about urls into the states and steps of the
  stub (`UrlInv`: the url in hand is one of the forms). `WaitsForAStep`: the holder of the
  mutex is never itself waiting for it. It assumes `NestedTakesNoMutex`, that a callback
  calls no entry point which takes the mutex; with one that does the holder waits for
  itself.
* `CommandWorkersProofs!DoneMeansRun`: for any number of workers that crash and lose
  requests, by `GoodResult` (a good result exists only where a row has just been run).
  `RunsWhatItClaimed`, under the assumption that no request is lost: a
  row that is run has left 'new' (`ClaimHolds`) and nothing brings it back
  (`NeverNewAgain`); workers that are not installed are idle (`OffIsIdle`).
  `RunsAreAskedFor`, for any finite number of workers on one table: a worker has a row in
  its hand, its batch or its stream once, or twice if the producer edited it while it was
  new (`FewPlaces`). A row that is still new has not been run; of any other, the runs so far
  and the places where it still waits (`Waiting`, over all workers) stay within what the
  table asked of them (`CountInv`). When a row leaves new the places are counted
  (`FewPairs`), and from then on no poll and no notification adds one: a run takes one away,
  and so does a crash (`WaitingShrinks`). `WorkersAreAFeed`: each step is a step of
  `CommandFeed` or a stutter; a run is a `Begin` because `RunsBounded` holds after it too.
  Both assume that no request is lost (`~StatementsMayFail`), for a lost claim leaves the
  row new and the next poll brings it again. `ResultsStay`: for a row its producer has not
  edited there is one place at most (`KeptInv`), and a row with a result has none, hence
  nobody writes it again. It holds also if requests are lost, but assumes `OneWorker`: of
  two workers that run the same row (`worker_pair`) the second overwrites what the first
  has written.
* Type correctness of every module but `UrlForms`, which has no state.

Every safety invariant, action property and refinement that a passing run checks is so
proved for all values of the constants, under the assumptions named above. Only model-checked: liveness (`SettlesQueued`,
`ShutdownCompletes`, `PollSettles`, `UnsubscribedEnds`, `CallsReturn`), which is out of the
prover's reach, and of course the runs that show a violation. `CommandFeed` has no
theorem of its own: what it promises is its actions.

## 5. Not modelled

The contents of events, rows and statements; FreeSWITCH, the SurrealDB server and the SDK
beyond what the code relies on; the build scripts and examples; reading the XML
configuration (any configuration is an initial state); splitting the arguments of the API
commands and printing their answers. In particular:

* whether the server accepts the body the Python worker sends (`json.dumps` of the
  query), and whether the SDK reconnects by itself;
* what a handle whose client broke outside of a publish does: update, select and get
  keep such a client; that the error text is still the one of an earlier call when one of
  these fails to connect, since only publish clears it first (`ReportIsOwn` is about
  requests that failed);
* workers that share a table and lose claims: no bound on the runs holds of them, since the
  row stays new and is fetched again;
* the global error code: `surreal_connect` with a NULL argument (a token that is
  empty, without a user) returns NULL without setting it, and the module reports
  "code 0: unknown";
* sizes and intervals that `read_config` takes from a negative number, and a filter with as
  many entries as `event_nodes` has places;
* a command that hangs: `fs_cli` has no timeout in the Rust worker (the fairness of handling
  says that it ends);
* commands created while the subscription's connection is down, which LIVE does not
  tell of, and commands without a status, which the gate skips although
  commands.md calls the status optional;
* TLS: `wss://` is stripped and the real client connects with `Ws` all the same;
* the logger: `surreal_set_logger(NULL)` does not disable logging, it writes
  to stderr, where the header says it disables it; `debug_emit` of the real build,
  which returns -1; a NULL callback, with which the task claims rows and runs
  nothing; in the stub, a surreal_last_error_global that the module links to and the
  stub does not have.

## 6. Plan

Done: `EventSink` and `LossyFifo`; `SurHandle` from connect to close; `CommandWorkers`;
`Subscription` with the callback; `UrlForms` and `FfiStub`; the proofs of all of them;
`CommandFeed`, which `Subscription` and `CommandWorkers` both implement. What would come
next, were the project to go on:

1. `ModuleLifecycle`: read_config, connect, subscribe, start of the sink, shutdown, composing
   `EventSink` with `SurHandle` (whose publish the sender calls) and `Subscription`.
2. The splitting of arguments of the API commands as operators.
