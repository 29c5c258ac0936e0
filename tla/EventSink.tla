------------------------------ MODULE EventSink ------------------------------
(***************************************************************************)
(* The event and CDR sink of mod_surrealdb.c: FreeSWITCH dispatcher threads *)
(* run the bound handlers, which push serialized events into a bounded      *)
(* queue; one sender thread pops and publishes them; the module's load and  *)
(* shutdown functions start and stop the whole.                             *)
(*                                                                          *)
(* A dispatcher of the model is one delivery of one event to one bound      *)
(* node.  switch_event_deliver runs it under the read lock that             *)
(* switch_event_bind_removable and switch_event_unbind take for writing:    *)
(* that is FreeSWITCH, modelled from how the module relies on it.           *)
(***************************************************************************)
EXTENDS Integers, Sequences, Functions

CONSTANTS
  Event,          \* occurrences of FreeSWITCH events
  Hangup,         \* those of type CHANNEL_HANGUP_COMPLETE
  EventFilter,    \* one set of matching events per entry of event-filter
  Dispatcher,     \* concurrent deliveries
  SendQueueSize,  \* send-queue-size
  CircuitBreaker, \* circuit-breaker-ms, in clock ticks
  MaxTime,        \* bound of the clock
  NoMsg           \* the null message pointer

\* The node of entry k of the filter is k, the CDR node comes after them.
CdrNode == Len(EventFilter) + 1
NodeIds == 1 .. CdrNode
Matches(k) == IF k = CdrNode THEN Hangup ELSE EventFilter[k]
Msg == { m \in [node : NodeIds, event : Event] : m.event \in Matches(m.node) }

\* mod_surrealdb_read_config keeps the defaults when either value is 0.
ASSUME ConstantsAssumption ==
  /\ Hangup \subseteq Event
  /\ EventFilter \in Seq(SUBSET Event)
  /\ SendQueueSize \in Nat \ {0}
  /\ CircuitBreaker \in Nat \ {0}
  /\ MaxTime \in Nat \ {0}
  /\ NoMsg \notin Msg

VARIABLES
  enable_events, enable_cdr, event_table,  \* g_mod.cfg: switches, table set?
  handle,          \* g_mod.handle is not NULL
  control,         \* where the load or shutdown function is
  bind_next,       \* next node that mod_surrealdb_start_event_sink binds
  event_nodes,     \* bound nodes
  events_running,
  queue_open,      \* g_mod.send_queue is not NULL
  send_queue,      \* its contents
  event_thread,    \* where the sender thread is
  sending,         \* the message it popped
  cb_reset_time,   \* end of the circuit breaker's interval, 0 if never opened
  now,             \* switch_time_now()
  seen,            \* deliveries FreeSWITCH has started
  pc, msg, t,      \* per dispatcher: handler's position, message, local `now'
  heap,            \* messages allocated and not freed
  rows             \* messages stored by the database, in order

cfgVars == <<enable_events, enable_cdr, event_table>>
controlVars == <<control, bind_next, event_nodes, events_running, handle>>
handlerVars == <<seen, pc, msg, t>>
senderVars == <<event_thread, sending>>
vars == <<cfgVars, controlVars, handlerVars, senderVars,
          queue_open, send_queue, cb_reset_time, now, heap, rows>>

TypeOK ==
  /\ enable_events \in BOOLEAN /\ enable_cdr \in BOOLEAN /\ event_table \in BOOLEAN
  /\ handle \in BOOLEAN
  /\ control \in {"load", "bind", "loaded", "unbind", "drain", "close", "down"}
  /\ bind_next \in 1 .. CdrNode + 1
  /\ event_nodes \in SUBSET NodeIds
  /\ events_running \in BOOLEAN
  /\ queue_open \in BOOLEAN
  /\ send_queue \in Seq(Msg)
  /\ Len(send_queue) <= SendQueueSize
  /\ event_thread \in {"none", "check", "pop", "publish", "backoff", "exited"}
  /\ sending \in Msg \cup {NoMsg}
  /\ event_thread \in {"publish", "backoff"} => sending \in Msg
  /\ cb_reset_time \in Nat
  /\ now \in 1 .. MaxTime
  /\ seen \in SUBSET Msg
  /\ pc \in [Dispatcher -> {"idle", "entered", "timed", "built", "full"}]
  /\ msg \in [Dispatcher -> Msg \cup {NoMsg}]
  /\ \A d \in Dispatcher : pc[d] # "idle" => msg[d] \in Msg
  /\ t \in [Dispatcher -> Nat]
  /\ heap \in SUBSET Msg
  /\ rows \in Seq(Msg)

Init ==
  /\ enable_events \in BOOLEAN
  /\ enable_cdr \in BOOLEAN
  /\ event_table \in BOOLEAN
  /\ handle \in BOOLEAN                 \* connecting may have failed
  /\ control = "load"
  /\ bind_next = 1
  /\ event_nodes = {}
  /\ events_running = FALSE
  /\ queue_open = FALSE
  /\ send_queue = <<>>
  /\ event_thread = "none"
  /\ sending = NoMsg
  /\ cb_reset_time = 0
  /\ now = 1
  /\ seen = {}
  /\ pc = [d \in Dispatcher |-> "idle"]
  /\ msg = [d \in Dispatcher |-> NoMsg]
  /\ t = [d \in Dispatcher |-> 0]
  /\ heap = {}
  /\ rows = <<>>
-----------------------------------------------------------------------------
(* Load: mod_surrealdb_start_event_sink                                     *)

SinkWanted == (enable_events \/ enable_cdr) /\ handle

SinkSkipped ==
  /\ control = "load"
  /\ ~SinkWanted
  /\ control' = "loaded"
  /\ UNCHANGED <<cfgVars, bind_next, event_nodes, events_running, handle,
                 handlerVars, senderVars, queue_open, send_queue,
                 cb_reset_time, now, heap, rows>>

\* Without event-table only the event sink is switched off: the CDR sink goes on.
NormalizeConfig ==
  /\ enable_events' = (enable_events /\ event_table)
  /\ UNCHANGED <<enable_cdr, event_table>>

QueueCreateFails ==
  /\ control = "load"
  /\ SinkWanted
  /\ NormalizeConfig
  /\ control' = "loaded"
  /\ UNCHANGED <<bind_next, event_nodes, events_running, handle, handlerVars,
                 senderVars, queue_open, send_queue, cb_reset_time, now, heap, rows>>

BindAnyway == "bind"                               \* fault: no return here
AfterThreadFailure == "loaded"

ThreadCreateFails ==
  /\ control = "load"
  /\ SinkWanted
  /\ NormalizeConfig
  /\ queue_open' = TRUE
  /\ control' = AfterThreadFailure
  /\ UNCHANGED <<bind_next, event_nodes, events_running, handle, handlerVars,
                 senderVars, send_queue, cb_reset_time, now, heap, rows>>

SinkStarted ==
  /\ control = "load"
  /\ SinkWanted
  /\ NormalizeConfig
  /\ queue_open' = TRUE
  /\ events_running' = TRUE
  /\ event_thread' = "check"
  /\ control' = "bind"
  /\ UNCHANGED <<bind_next, event_nodes, handle, handlerVars, sending,
                 send_queue, cb_reset_time, now, heap, rows>>

Wanted(k) == IF k = CdrNode THEN enable_cdr ELSE enable_events

\* The write lock of switch_event_bind_removable and switch_event_unbind.
NoHandlerRuns == \A d \in Dispatcher : pc[d] = "idle"

\* An unknown event name or a failed bind is logged and leaves the node out.
BindNode(k) ==
  /\ control = "bind"
  /\ bind_next = k
  /\ \/ Wanted(k) /\ NoHandlerRuns /\ event_nodes' = event_nodes \cup {k}
     \/ UNCHANGED event_nodes
  /\ bind_next' = k + 1
  /\ control' = IF k = CdrNode THEN "loaded" ELSE "bind"
  /\ UNCHANGED <<cfgVars, events_running, handle, handlerVars, senderVars,
                 queue_open, send_queue, cb_reset_time, now, heap, rows>>
-----------------------------------------------------------------------------
(* mod_surrealdb_event_handler and mod_surrealdb_cdr_handler, which take     *)
(* the same steps.  `now' is read once; cb_reset_time and events_running     *)
(* are read and written without a lock.                                      *)

Dispatch(d, m) ==
  /\ pc[d] = "idle"
  /\ m.node \in event_nodes
  /\ m \notin seen
  /\ seen' = seen \cup {m}
  /\ pc' = [pc EXCEPT ![d] = "entered"]
  /\ msg' = [msg EXCEPT ![d] = m]
  /\ UNCHANGED <<cfgVars, controlVars, senderVars, t, queue_open, send_queue,
                 cb_reset_time, now, heap, rows>>

Return(d) ==
  /\ pc' = [pc EXCEPT ![d] = "idle"]
  /\ msg' = [msg EXCEPT ![d] = NoMsg]
  /\ t' = [t EXCEPT ![d] = 0]

NotRunning(d) ==
  /\ pc[d] = "entered"
  /\ ~events_running
  /\ Return(d)
  /\ UNCHANGED <<cfgVars, controlVars, senderVars, seen, queue_open, send_queue,
                 cb_reset_time, now, heap, rows>>

ReadClock(d) ==
  /\ pc[d] = "entered"
  /\ events_running
  /\ pc' = [pc EXCEPT ![d] = "timed"]
  /\ t' = [t EXCEPT ![d] = now]
  /\ UNCHANGED <<cfgVars, controlVars, senderVars, seen, msg, queue_open,
                 send_queue, cb_reset_time, now, heap, rows>>

BreakerOpen(tm) == cb_reset_time # 0 /\ tm < cb_reset_time

Shed(d) ==
  /\ pc[d] = "timed"
  /\ BreakerOpen(t[d])
  /\ Return(d)
  /\ UNCHANGED <<cfgVars, controlVars, senderVars, seen, queue_open, send_queue,
                 cb_reset_time, now, heap, rows>>

\* malloc, the serialization or cJSON fails; what was allocated is freed.
BuildFails(d) ==
  /\ pc[d] = "timed"
  /\ ~BreakerOpen(t[d])
  /\ Return(d)
  /\ UNCHANGED <<cfgVars, controlVars, senderVars, seen, queue_open, send_queue,
                 cb_reset_time, now, heap, rows>>

Build(d) ==
  /\ pc[d] = "timed"
  /\ ~BreakerOpen(t[d])
  /\ heap' = heap \cup {msg[d]}
  /\ pc' = [pc EXCEPT ![d] = "built"]
  /\ UNCHANGED <<cfgVars, controlVars, senderVars, seen, msg, t, queue_open,
                 send_queue, cb_reset_time, now, rows>>

Unbounded == FALSE                                 \* fault: no capacity
QueueFull == Len(send_queue) = SendQueueSize

PushedFirst(m) == <<m>> \o send_queue               \* fault: a stack
Pushed(m) == Append(send_queue, m)

TryPush(d) ==
  /\ pc[d] = "built"
  /\ ~QueueFull
  /\ send_queue' = Pushed(msg[d])
  /\ Return(d)
  /\ UNCHANGED <<cfgVars, controlVars, senderVars, seen, queue_open,
                 cb_reset_time, now, heap, rows>>

PushFails(d) ==
  /\ pc[d] = "built"
  /\ QueueFull
  /\ pc' = [pc EXCEPT ![d] = "full"]
  /\ UNCHANGED <<cfgVars, controlVars, senderVars, seen, msg, t, queue_open,
                 send_queue, cb_reset_time, now, heap, rows>>

ExtendedEnd(tm) == cb_reset_time + tm + CircuitBreaker \* fault: += for =
BreakerEnd(tm) == tm + CircuitBreaker

Forget(m) == heap' = heap                          \* fault: not destroyed
Destroy(m) == heap' = heap \ {m}

OpenBreaker(d) ==
  /\ pc[d] = "full"
  /\ cb_reset_time' = BreakerEnd(t[d])
  /\ Destroy(msg[d])
  /\ Return(d)
  /\ UNCHANGED <<cfgVars, controlVars, senderVars, seen, queue_open,
                 send_queue, now, rows>>

Handler(d) ==
  \/ NotRunning(d) \/ ReadClock(d) \/ Shed(d) \/ BuildFails(d) \/ Build(d)
  \/ TryPush(d) \/ PushFails(d) \/ OpenBreaker(d)
-----------------------------------------------------------------------------
(* mod_surrealdb_event_thread                                               *)

RunForever == TRUE                                 \* fault: while (1)
KeepRunning == events_running

Check ==
  /\ event_thread = "check"
  /\ event_thread' = IF KeepRunning THEN "pop" ELSE "exited"
  /\ UNCHANGED <<cfgVars, controlVars, handlerVars, sending, queue_open,
                 send_queue, cb_reset_time, now, heap, rows>>

PopTimeout ==
  /\ event_thread = "pop"
  /\ send_queue = <<>>
  /\ event_thread' = "check"
  /\ UNCHANGED <<cfgVars, controlVars, handlerVars, sending, queue_open,
                 send_queue, cb_reset_time, now, heap, rows>>

Peeked == send_queue                               \* fault: not removed
Popped == Tail(send_queue)

Pop ==
  /\ event_thread = "pop"
  /\ send_queue # <<>>
  /\ sending' = Head(send_queue)
  /\ send_queue' = Popped
  /\ event_thread' = "publish"
  /\ UNCHANGED <<cfgVars, controlVars, handlerVars, queue_open,
                 cb_reset_time, now, heap, rows>>

\* surreal_publish: ok is rc = 0, stored whether the row was created.  A
\* statement error is not in rc, and an answer may be lost after the commit.
Publish(ok, stored) ==
  /\ event_thread = "publish"
  /\ rows' = IF stored THEN Append(rows, sending) ELSE rows
  /\ IF ok
     THEN /\ event_thread' = "check"
          /\ Destroy(sending)
          /\ sending' = NoMsg
     ELSE /\ event_thread' = "backoff"
          /\ UNCHANGED <<heap, sending>>
  /\ UNCHANGED <<cfgVars, controlVars, handlerVars, queue_open, send_queue,
                 cb_reset_time, now>>

\* The message of a failed publish is not retried but destroyed.
Backoff ==
  /\ event_thread = "backoff"
  /\ event_thread' = "check"
  /\ Destroy(sending)
  /\ sending' = NoMsg
  /\ UNCHANGED <<cfgVars, controlVars, handlerVars, queue_open, send_queue,
                 cb_reset_time, now, rows>>

Sender ==
  \/ Check \/ PopTimeout \/ Pop \/ Backoff
  \/ \E ok, stored \in BOOLEAN : Publish(ok, stored)
-----------------------------------------------------------------------------
(* Shutdown: mod_surrealdb_stop_event_sink, then surreal_close               *)

StopBegin ==
  /\ control = "loaded"
  /\ events_running' = FALSE
  /\ control' = IF events_running THEN "unbind" ELSE "close"
  /\ UNCHANGED <<cfgVars, bind_next, event_nodes, handle, handlerVars,
                 senderVars, queue_open, send_queue, cb_reset_time, now, heap, rows>>

UnbindNode(k) ==
  /\ control = "unbind"
  /\ k \in event_nodes
  /\ \A j \in event_nodes : k <= j
  /\ NoHandlerRuns
  /\ event_nodes' = event_nodes \ {k}
  /\ UNCHANGED <<cfgVars, control, bind_next, events_running, handle,
                 handlerVars, senderVars, queue_open, send_queue,
                 cb_reset_time, now, heap, rows>>

UnboundLater == TRUE                               \* fault: unbind after join
AllUnbound == event_nodes = {}
SenderDetached == TRUE                             \* fault: no join
SenderExited == event_thread = "exited"

Join ==
  /\ control = "unbind"
  /\ AllUnbound
  /\ SenderExited
  /\ control' = "drain"
  /\ UNCHANGED <<cfgVars, bind_next, event_nodes, events_running, handle,
                 handlerVars, senderVars, queue_open, send_queue,
                 cb_reset_time, now, heap, rows>>

DrainOne ==
  /\ control = "drain"
  /\ send_queue # <<>>
  /\ Destroy(Head(send_queue))
  /\ send_queue' = Tail(send_queue)
  /\ UNCHANGED <<cfgVars, controlVars, handlerVars, senderVars, queue_open,
                 cb_reset_time, now, rows>>

DrainSkipped == TRUE                               \* fault: no drain
DrainDone == send_queue = <<>>

FinishDrain ==
  /\ control = "drain"
  /\ DrainDone
  /\ queue_open' = FALSE
  /\ control' = "close"
  /\ UNCHANGED <<cfgVars, bind_next, event_nodes, events_running, handle,
                 handlerVars, senderVars, send_queue, cb_reset_time, now, heap, rows>>

Close ==
  /\ control = "close"
  /\ handle' = FALSE
  /\ control' = "down"
  /\ UNCHANGED <<cfgVars, bind_next, event_nodes, events_running,
                 handlerVars, senderVars, queue_open, send_queue,
                 cb_reset_time, now, heap, rows>>

\* Every step of the load and shutdown functions but the request to stop.
Control ==
  \/ SinkSkipped \/ QueueCreateFails \/ ThreadCreateFails \/ SinkStarted
  \/ \E k \in NodeIds : BindNode(k) \/ UnbindNode(k)
  \/ Join \/ DrainOne \/ FinishDrain \/ Close

Tick ==
  /\ now < MaxTime
  /\ now' = now + 1
  /\ UNCHANGED <<cfgVars, controlVars, handlerVars, senderVars, queue_open,
                 send_queue, cb_reset_time, heap, rows>>

Next ==
  \/ Control \/ StopBegin \/ Sender \/ Tick
  \/ \E d \in Dispatcher : Handler(d) \/ \E m \in Msg : Dispatch(d, m)

Spec == Init /\ [][Next]_vars

\* Threads are scheduled and every database call returns.
Fairness ==
  /\ WF_vars(Control)
  /\ WF_vars(Sender)
  /\ \A d \in Dispatcher : WF_vars(Handler(d))

FairSpec == Spec /\ Fairness
-----------------------------------------------------------------------------
(* Who owns an allocated message: a handler until it pushes or destroys it,  *)
(* then the queue, then the sender thread.                                   *)

Holding == {"built", "full"}
HeldBy(d) == IF pc[d] \in Holding THEN {msg[d]} ELSE {}
Held == UNION { HeldBy(d) : d \in Dispatcher }
Queued == Range(send_queue)
InSender == IF event_thread \in {"publish", "backoff"} THEN {sending} ELSE {}

\* mod_surrealdb_evtmsg_destroy: every allocated message has an owner that will
\* free it, and what an owner holds is allocated: nothing leaks on any of the
\* paths out of the handlers, the sender and the drain, and no freed message is
\* pushed, published or freed again.
HeapAccounted == heap = Held \cup Queued \cup InSender

\* The owners are disjoint: handing a message on ends the old ownership.
OneOwner ==
  /\ \A d, e \in Dispatcher : d # e => HeldBy(d) \cap HeldBy(e) = {}
  /\ \A d \in Dispatcher : HeldBy(d) \cap (Queued \cup InSender) = {}
  /\ IsInjective(send_queue)
  /\ Queued \cap InSender = {}

\* After shutdown no message is still allocated.
NothingLeaks == control = "down" => heap = {}

\* A handler never finds g_mod.send_queue NULL, although it tests events_running
\* once and mod_surrealdb_stop_event_sink may run between the test and the push.
QueueOutlivesHandlers == \A d \in Dispatcher : pc[d] # "idle" => queue_open

\* The sender never publishes on a closed handle nor pops from a destroyed queue:
\* it is joined before the drain and before surreal_close.
SenderOutlived ==
  event_thread \in {"check", "pop", "publish", "backoff"} => queue_open /\ handle

\* While a node is bound there is a queue, a connection and a sender thread, and
\* unless the module is stopping that thread is still running; a stopped or a
\* half-started sink leaves no node bound.
BoundIsServed ==
  event_nodes # {} =>
    /\ queue_open /\ handle /\ event_thread # "none"
    /\ control \in {"bind", "loaded"} => events_running /\ event_thread # "exited"
    /\ control \in {"bind", "loaded", "unbind"}

\* The breaker drops events for at most its interval: however the unlocked
\* writes of the handlers interleave, its end is never farther away than that.
BreakerBounded == cb_reset_time <= now + CircuitBreaker

\* What the sink promises: a lossy FIFO of the deliveries.  Rows appear in the
\* order the messages were queued, none twice, and only the oldest can be lost.
transit == (IF event_thread = "publish" THEN <<sending>> ELSE <<>>) \o send_queue
fresh == (Msg \ seen) \cup { msg[d] : d \in { e \in Dispatcher : pc[e] # "idle" } }

Fifo == INSTANCE LossyFifo WITH delivered <- rows

\* No delivery is stored twice, and none is stored and queued at once.
AtMostOnce == Fifo!AtMostOnce

\* The sink implements the channel, safety only.
ImplementsFifo == Fifo!Spec

\* And with fairness: a queued message is published or destroyed in the end, also
\* when the module is shut down with a full queue.
SettlesQueued == Fifo!FairSpec

\* A shutdown that has begun completes: the write lock of each unbind is
\* obtained, the sender sees events_running and exits, the drain ends.
ShutdownCompletes == control = "unbind" ~> control = "down"
-----------------------------------------------------------------------------
(* The inductive invariant behind the safety properties.                     *)

\* What the position of the load and shutdown functions says of the rest.
Lifecycle ==
  /\ control = "load" => event_thread = "none" /\ ~queue_open
  /\ control = "bind" => events_running
  /\ events_running =>
       control \in {"bind", "loaded"} /\ queue_open /\ handle /\ event_thread \notin {"none", "exited"}
  /\ control \in {"unbind", "drain"} => queue_open /\ handle /\ event_thread # "none"
  /\ control = "drain" => event_thread = "exited"
  /\ event_thread \notin {"none", "exited"} => events_running \/ control = "unbind"
  /\ event_nodes # {} => events_running \/ control = "unbind"
  /\ send_queue # <<>> => events_running \/ control \in {"unbind", "drain"}

\* The read lock: a handler runs only while some node is bound.
HandlersBound == \A d \in Dispatcher : pc[d] # "idle" => event_nodes # {}

\* Each delivery is started once, so the messages in flight, in the queue and in
\* the sender are all different.
InFlightDistinct ==
  /\ \A d \in Dispatcher : pc[d] # "idle" => msg[d] \in seen \ (Queued \cup InSender)
  /\ \A d, e \in Dispatcher : d # e /\ pc[d] # "idle" /\ pc[e] # "idle" => msg[d] # msg[e]
  /\ Queued \cup InSender \subseteq seen
  /\ IsInjective(send_queue)
  /\ Queued \cap InSender = {}

ClockRead == \A d \in Dispatcher : t[d] <= now

IInv ==
  /\ TypeOK
  /\ Lifecycle
  /\ HandlersBound
  /\ InFlightDistinct
  /\ HeapAccounted
  /\ ClockRead
  /\ BreakerBounded
-----------------------------------------------------------------------------
(* A statement of the documentation the code does not keep.                   *)

\* docs/quickstart.md: "The module writes one row per CHANNEL_HANGUP_COMPLETE":
\* a CDR message is destroyed only after its row has been written.
CdrDestroyedOnceWritten ==
  [][\A m \in heap : m.node = CdrNode /\ m \notin heap' =>
        \E i \in 1 .. Len(rows') : rows'[i] = m]_vars
=============================================================================
