--------------------------- MODULE EventSinkProofs ---------------------------
(* Theorems about EventSink, for every value of its constants. *)
EXTENDS EventSink, SequenceFacts, TLAPS

LEMMA NodeIdsType == CdrNode \in Nat \ {0} /\ NodeIds \subseteq Nat
BY ConstantsAssumption DEF ConstantsAssumption, CdrNode, NodeIds

LEMMA InitTypeOK == Init => TypeOK
<1> SUFFICES ASSUME Init PROVE TypeOK
  OBVIOUS
<1>1. bind_next \in 1 .. CdrNode + 1 /\ now \in 1 .. MaxTime
  BY NodeIdsType, ConstantsAssumption DEF Init, ConstantsAssumption
<1>2. send_queue \in Seq(Msg) /\ Len(send_queue) <= SendQueueSize
  BY ConstantsAssumption DEF Init, ConstantsAssumption
<1>3. \A d \in Dispatcher : pc[d] # "idle" => msg[d] \in Msg
  BY DEF Init
<1>4. /\ pc \in [Dispatcher -> {"idle", "entered", "timed", "built", "full"}]
      /\ msg \in [Dispatcher -> Msg \cup {NoMsg}]
      /\ t \in [Dispatcher -> Nat]
  BY DEF Init
<1> QED
  BY <1>1, <1>2, <1>3, <1>4 DEF Init, TypeOK

\* The variables keep their types: in particular the queue stays within
\* send-queue-size, and a handler's message and clock reading are defined.
LEMMA NextTypeOK == TypeOK /\ [Next]_vars => TypeOK'
<1> SUFFICES ASSUME TypeOK, [Next]_vars PROVE TypeOK'
  OBVIOUS
<1> USE DEF TypeOK
<1>1. CASE SinkSkipped
  BY <1>1 DEF SinkSkipped, cfgVars, handlerVars, senderVars
<1>2. CASE QueueCreateFails
  BY <1>2 DEF QueueCreateFails, NormalizeConfig, handlerVars, senderVars
<1>3. CASE ThreadCreateFails
  BY <1>3 DEF ThreadCreateFails, NormalizeConfig, AfterThreadFailure, handlerVars, senderVars
<1>4. CASE SinkStarted
  BY <1>4 DEF SinkStarted, NormalizeConfig, handlerVars
<1>5. ASSUME NEW k \in NodeIds, BindNode(k) PROVE TypeOK'
  <2>1. bind_next' \in 1 .. CdrNode + 1
    BY <1>5, NodeIdsType DEF BindNode, NodeIds
  <2>2. event_nodes' \in SUBSET NodeIds
    BY <1>5 DEF BindNode
  <2>3. control' \in {"loaded", "bind"}
    BY <1>5 DEF BindNode
  <2> QED
    BY <1>5, <2>1, <2>2, <2>3 DEF BindNode, cfgVars, handlerVars, senderVars
<1>6. ASSUME NEW k \in NodeIds, UnbindNode(k) PROVE TypeOK'
  BY <1>6 DEF UnbindNode, cfgVars, handlerVars, senderVars
<1>7. CASE Join
  BY <1>7 DEF Join, cfgVars, handlerVars, senderVars
<1>8. CASE DrainOne
  <2>1. send_queue' \in Seq(Msg) /\ Len(send_queue') <= SendQueueSize
    BY <1>8, ConstantsAssumption DEF DrainOne, ConstantsAssumption
  <2> QED
    BY <1>8, <2>1 DEF DrainOne, Destroy, cfgVars, controlVars, handlerVars, senderVars
<1>9. CASE FinishDrain
  BY <1>9 DEF FinishDrain, cfgVars, handlerVars, senderVars
<1>10. CASE Close
  BY <1>10 DEF Close, cfgVars, handlerVars, senderVars
<1>11. CASE StopBegin
  BY <1>11 DEF StopBegin, cfgVars, handlerVars, senderVars
<1>12. CASE Check
  BY <1>12 DEF Check, KeepRunning, cfgVars, controlVars, handlerVars
<1>13. CASE PopTimeout
  BY <1>13 DEF PopTimeout, cfgVars, controlVars, handlerVars
<1>14. CASE Pop
  <2>1. send_queue' \in Seq(Msg) /\ Len(send_queue') <= SendQueueSize /\ sending' \in Msg
    BY <1>14, ConstantsAssumption DEF Pop, Popped, ConstantsAssumption
  <2> QED
    BY <1>14, <2>1 DEF Pop, cfgVars, controlVars, handlerVars
<1>15. ASSUME NEW ok \in BOOLEAN, NEW stored \in BOOLEAN, Publish(ok, stored)
       PROVE TypeOK'
  <2>1. sending \in Msg /\ rows' \in Seq(Msg)
    BY <1>15 DEF Publish
  <2> QED
    BY <1>15, <2>1 DEF Publish, Destroy, cfgVars, controlVars, handlerVars
<1>16. CASE Backoff
  BY <1>16 DEF Backoff, Destroy, cfgVars, controlVars, handlerVars
<1>17. CASE Tick
  BY <1>17, ConstantsAssumption DEF Tick, ConstantsAssumption, cfgVars, controlVars, handlerVars, senderVars
<1>18. ASSUME NEW d \in Dispatcher, NEW m \in Msg, Dispatch(d, m) PROVE TypeOK'
  BY <1>18 DEF Dispatch, cfgVars, controlVars, senderVars
<1>19. ASSUME NEW d \in Dispatcher, Handler(d) PROVE TypeOK'
  <2>1. CASE NotRunning(d)
    BY <2>1 DEF NotRunning, Return, cfgVars, controlVars, senderVars
  <2>2. CASE ReadClock(d)
    BY <2>2, ConstantsAssumption DEF ReadClock, ConstantsAssumption, cfgVars, controlVars, senderVars
  <2>3. CASE Shed(d)
    BY <2>3 DEF Shed, Return, cfgVars, controlVars, senderVars
  <2>4. CASE BuildFails(d)
    BY <2>4 DEF BuildFails, Return, cfgVars, controlVars, senderVars
  <2>5. CASE Build(d)
    BY <2>5 DEF Build, cfgVars, controlVars, senderVars
  <2>6. CASE TryPush(d)
    <3>1. msg[d] \in Msg
      BY <2>6 DEF TryPush
    <3>2. send_queue' \in Seq(Msg) /\ Len(send_queue') <= SendQueueSize
      BY <2>6, <3>1, ConstantsAssumption DEF TryPush, Pushed, QueueFull, ConstantsAssumption
    <3> QED
      BY <2>6, <3>2 DEF TryPush, Return, cfgVars, controlVars, senderVars
  <2>7. CASE PushFails(d)
    BY <2>7 DEF PushFails, cfgVars, controlVars, senderVars
  <2>8. CASE OpenBreaker(d)
    BY <2>8, ConstantsAssumption
    DEF OpenBreaker, BreakerEnd, Destroy, Return, ConstantsAssumption, cfgVars, controlVars, senderVars
  <2> QED
    BY <1>19, <2>1, <2>2, <2>3, <2>4, <2>5, <2>6, <2>7, <2>8 DEF Handler
<1>20. CASE UNCHANGED vars
  BY <1>20 DEF vars, cfgVars, controlVars, handlerVars, senderVars
<1> QED
  BY <1>1, <1>2, <1>3, <1>4, <1>5, <1>6, <1>7, <1>8, <1>9, <1>10, <1>11, <1>12, <1>13,
     <1>14, <1>15, <1>16, <1>17, <1>18, <1>19, <1>20
  DEF Next, Control, Sender

\* Every reachable state is well typed.
THEOREM TypeCorrect == Spec => []TypeOK
BY InitTypeOK, NextTypeOK, PTL DEF Spec
-----------------------------------------------------------------------------
(* The inductive invariant.                                                  *)

\* What the load, shutdown and sender functions say of each other is kept by
\* every step.
LEMMA NextLifecycle == TypeOK /\ Lifecycle /\ HandlersBound /\ [Next]_vars => Lifecycle'
<1> SUFFICES ASSUME TypeOK, Lifecycle, HandlersBound, [Next]_vars PROVE Lifecycle'
  OBVIOUS
<1> USE DEF Lifecycle
<1>1. CASE SinkSkipped
  BY <1>1 DEF SinkSkipped, cfgVars, handlerVars, senderVars
<1>2. CASE QueueCreateFails
  BY <1>2 DEF QueueCreateFails, handlerVars, senderVars
<1>3. CASE ThreadCreateFails
  BY <1>3 DEF ThreadCreateFails, AfterThreadFailure, handlerVars, senderVars
<1>4. CASE SinkStarted
  BY <1>4 DEF SinkStarted, SinkWanted, handlerVars
<1>5. ASSUME NEW k \in NodeIds, BindNode(k) PROVE Lifecycle'
  BY <1>5 DEF BindNode, cfgVars, handlerVars, senderVars
<1>6. ASSUME NEW k \in NodeIds, UnbindNode(k) PROVE Lifecycle'
  BY <1>6 DEF UnbindNode, cfgVars, handlerVars, senderVars
<1>7. CASE Join
  BY <1>7 DEF Join, AllUnbound, SenderExited, cfgVars, handlerVars, senderVars
<1>8. CASE DrainOne
  BY <1>8 DEF DrainOne, cfgVars, controlVars, handlerVars, senderVars
<1>9. CASE FinishDrain
  BY <1>9 DEF FinishDrain, DrainDone, cfgVars, handlerVars, senderVars
<1>10. CASE Close
  BY <1>10 DEF Close, cfgVars, handlerVars, senderVars
<1>11. CASE StopBegin
  BY <1>11 DEF StopBegin, cfgVars, handlerVars, senderVars
<1>12. CASE Check
  BY <1>12 DEF Check, KeepRunning, cfgVars, controlVars, handlerVars
<1>13. CASE PopTimeout
  BY <1>13 DEF PopTimeout, cfgVars, controlVars, handlerVars
<1>14. CASE Pop
  BY <1>14 DEF Pop, cfgVars, controlVars, handlerVars
<1>15. ASSUME NEW ok \in BOOLEAN, NEW stored \in BOOLEAN, Publish(ok, stored)
       PROVE Lifecycle'
  BY <1>15 DEF Publish, cfgVars, controlVars, handlerVars
<1>16. CASE Backoff
  BY <1>16 DEF Backoff, cfgVars, controlVars, handlerVars
<1>17. CASE Tick
  BY <1>17 DEF Tick, cfgVars, controlVars, handlerVars, senderVars
<1>18. ASSUME NEW d \in Dispatcher, NEW m \in Msg, Dispatch(d, m) PROVE Lifecycle'
  BY <1>18 DEF Dispatch, cfgVars, controlVars, senderVars
<1>19. ASSUME NEW d \in Dispatcher, TryPush(d) PROVE Lifecycle'
  <2>1. event_nodes # {}
    BY <1>19 DEF TryPush, HandlersBound
  <2> QED
    BY <1>19, <2>1 DEF TryPush, cfgVars, controlVars, senderVars
<1>20. ASSUME NEW d \in Dispatcher, Handler(d), ~TryPush(d) PROVE Lifecycle'
  <2>1. UNCHANGED <<controlVars, senderVars, queue_open, send_queue>>
    BY <1>20 DEF Handler, NotRunning, ReadClock, Shed, BuildFails, Build, PushFails, OpenBreaker
  <2> QED
    BY <2>1 DEF controlVars, senderVars
<1>21. CASE UNCHANGED vars
  BY <1>21 DEF vars, cfgVars, controlVars, handlerVars, senderVars
<1> QED
  BY <1>1, <1>2, <1>3, <1>4, <1>5, <1>6, <1>7, <1>8, <1>9, <1>10, <1>11, <1>12, <1>13,
     <1>14, <1>15, <1>16, <1>17, <1>18, <1>19, <1>20, <1>21
  DEF Next, Control, Sender

\* Node by node: unbinding waits for the handlers, and a delivery needs a node.
LEMMA NextHandlersBound == TypeOK /\ HandlersBound /\ [Next]_vars => HandlersBound'
<1> SUFFICES ASSUME TypeOK, HandlersBound, [Next]_vars PROVE HandlersBound'
  OBVIOUS
<1> USE DEF TypeOK, HandlersBound
<1>1. ASSUME NEW k \in NodeIds, BindNode(k) PROVE HandlersBound'
  BY <1>1 DEF BindNode, handlerVars
<1>2. ASSUME NEW k \in NodeIds, UnbindNode(k) PROVE HandlersBound'
  BY <1>2 DEF UnbindNode, NoHandlerRuns, handlerVars
<1>3. ASSUME NEW d \in Dispatcher, NEW m \in Msg, Dispatch(d, m) PROVE HandlersBound'
  BY <1>3 DEF Dispatch, controlVars
<1>4. ASSUME NEW d \in Dispatcher, Handler(d) PROVE HandlersBound'
  <2>1. event_nodes # {} /\ event_nodes' = event_nodes
    BY <1>4 DEF Handler, NotRunning, ReadClock, Shed, BuildFails, Build, TryPush, PushFails,
       OpenBreaker, controlVars
  <2> QED
    BY <2>1
<1>5. CASE UNCHANGED <<pc, event_nodes>>
  BY <1>5
<1>6. ASSUME Control, ~(\E k \in NodeIds : BindNode(k) \/ UnbindNode(k))
      PROVE  UNCHANGED <<pc, event_nodes>>
  BY <1>6 DEF Control, SinkSkipped, QueueCreateFails, ThreadCreateFails, SinkStarted, Join,
     DrainOne, FinishDrain, Close, controlVars, handlerVars
<1>7. StopBegin \/ Sender \/ Tick \/ UNCHANGED vars => UNCHANGED <<pc, event_nodes>>
  BY DEF StopBegin, Sender, Check, PopTimeout, Pop, Publish, Backoff, Tick, vars, controlVars,
     handlerVars
<1> QED
  BY <1>1, <1>2, <1>3, <1>4, <1>5, <1>6, <1>7 DEF Next

\* A handler's clock reading and the end of the breaker's interval are never
\* later than the clock allows.
LEMMA NextClock ==
  TypeOK /\ ClockRead /\ BreakerBounded /\ [Next]_vars => ClockRead' /\ BreakerBounded'
<1> SUFFICES ASSUME TypeOK, ClockRead, BreakerBounded, [Next]_vars
             PROVE  ClockRead' /\ BreakerBounded'
  OBVIOUS
<1> USE ConstantsAssumption DEF ConstantsAssumption, TypeOK, ClockRead, BreakerBounded
<1>1. ASSUME NEW d \in Dispatcher, OpenBreaker(d) PROVE ClockRead' /\ BreakerBounded'
  BY <1>1 DEF OpenBreaker, BreakerEnd, Return
<1>2. ASSUME NEW d \in Dispatcher, ReadClock(d) PROVE ClockRead' /\ BreakerBounded'
  BY <1>2 DEF ReadClock
<1>3. ASSUME NEW d \in Dispatcher, Handler(d), ~OpenBreaker(d), ~ReadClock(d)
      PROVE  ClockRead' /\ BreakerBounded'
  <2>1. UNCHANGED <<cb_reset_time, now>> /\ (t' = t \/ t' = [t EXCEPT ![d] = 0])
    BY <1>3 DEF Handler, NotRunning, Shed, BuildFails, Build, TryPush, PushFails, Return
  <2> QED
    BY <2>1
<1>4. CASE Tick
  BY <1>4 DEF Tick, handlerVars
<1>5. CASE UNCHANGED <<t, now, cb_reset_time>>
  BY <1>5
<1>6. Control \/ StopBegin \/ Sender \/ UNCHANGED vars => UNCHANGED <<t, now, cb_reset_time>>
  BY DEF Control, SinkSkipped, QueueCreateFails, ThreadCreateFails, SinkStarted, BindNode,
     UnbindNode, Join, DrainOne, FinishDrain, Close, StopBegin, Sender, Check, PopTimeout, Pop,
     Publish, Backoff, vars, handlerVars
<1>7. ASSUME NEW d \in Dispatcher, NEW m \in Msg, Dispatch(d, m)
      PROVE  UNCHANGED <<t, now, cb_reset_time>>
  BY <1>7 DEF Dispatch
<1> QED
  BY <1>1, <1>2, <1>3, <1>4, <1>5, <1>6, <1>7 DEF Next

\* Steps that move no message.
Quiet == UNCHANGED <<pc, msg, seen, send_queue, sending, heap>> /\ InSender' = InSender

LEMMA QuietSteps ==
  ASSUME TypeOK,
         \/ SinkSkipped \/ QueueCreateFails \/ ThreadCreateFails
         \/ SinkStarted /\ event_thread = "none"
         \/ (\E k \in NodeIds : BindNode(k) \/ UnbindNode(k))
         \/ Join \/ FinishDrain \/ Close \/ StopBegin \/ Check \/ PopTimeout \/ Tick
         \/ UNCHANGED vars
  PROVE  Quiet
<1> USE DEF Quiet, InSender
<1>1. CASE SinkStarted /\ event_thread = "none"
  BY <1>1 DEF SinkStarted, handlerVars
<1>2. CASE Check
  BY <1>2 DEF Check, KeepRunning, handlerVars
<1>3. CASE PopTimeout
  BY <1>3 DEF PopTimeout, handlerVars
<1>4. ASSUME SinkSkipped \/ QueueCreateFails \/ ThreadCreateFails \/ FinishDrain \/ Close
      PROVE  Quiet
  BY <1>4 DEF SinkSkipped, QueueCreateFails, ThreadCreateFails, FinishDrain, Close,
     handlerVars, senderVars
<1>5. ASSUME (\E k \in NodeIds : BindNode(k) \/ UnbindNode(k)) PROVE Quiet
  BY <1>5 DEF BindNode, UnbindNode, handlerVars, senderVars
<1>6. ASSUME Join \/ StopBegin \/ Tick \/ UNCHANGED vars PROVE Quiet
  BY <1>6 DEF Join, StopBegin, Tick, vars, handlerVars, senderVars
<1> QED
  BY <1>1, <1>2, <1>3, <1>4, <1>5, <1>6

\* Messages in flight, queued and in the sender stay different.
LEMMA NextInFlightDistinct ==
  TypeOK /\ Lifecycle /\ InFlightDistinct /\ [Next]_vars => InFlightDistinct'
<1> SUFFICES ASSUME TypeOK, Lifecycle, InFlightDistinct, [Next]_vars PROVE InFlightDistinct'
  OBVIOUS
<1> USE DEF TypeOK, InFlightDistinct
<1>1. CASE Quiet
  BY <1>1 DEF Quiet, Queued
<1>2. CASE DrainOne
  <2>1. IsInjective(send_queue') /\ Range(send_queue') \subseteq Range(send_queue)
    BY <1>2, RangeOfTail, InjectiveTail DEF DrainOne
  <2>2. UNCHANGED <<pc, msg, seen>> /\ InSender' = InSender
    BY <1>2 DEF DrainOne, InSender, handlerVars, senderVars
  <2> QED
    BY <2>1, <2>2 DEF Queued
<1>3. CASE Pop
  <2>1. /\ IsInjective(send_queue')
        /\ Range(send_queue) = {Head(send_queue)} \cup Range(send_queue')
        /\ Head(send_queue) \notin Range(send_queue')
    BY <1>3, RangeOfTail, InjectiveTail DEF Pop, Popped
  <2>2. UNCHANGED <<pc, msg, seen>> /\ InSender' = {Head(send_queue)} /\ InSender = {}
    BY <1>3 DEF Pop, InSender, handlerVars
  <2> QED
    BY <2>1, <2>2 DEF Queued
<1>4. ASSUME NEW ok \in BOOLEAN, NEW stored \in BOOLEAN, Publish(ok, stored)
      PROVE InFlightDistinct'
  <2>1. UNCHANGED <<pc, msg, seen, send_queue>> /\ InSender' \subseteq InSender
    BY <1>4 DEF Publish, InSender, handlerVars
  <2> QED
    BY <2>1 DEF Queued
<1>5. CASE Backoff
  <2>1. UNCHANGED <<pc, msg, seen, send_queue>> /\ InSender' \subseteq InSender
    BY <1>5 DEF Backoff, InSender, handlerVars
  <2> QED
    BY <2>1 DEF Queued
<1>6. ASSUME NEW d \in Dispatcher, NEW m \in Msg, Dispatch(d, m) PROVE InFlightDistinct'
  <2>1. UNCHANGED send_queue /\ InSender' = InSender /\ m \notin seen /\ seen' = seen \cup {m}
    BY <1>6 DEF Dispatch, InSender, senderVars
  <2>2. pc' = [pc EXCEPT ![d] = "entered"] /\ msg' = [msg EXCEPT ![d] = m]
    BY <1>6 DEF Dispatch
  <2> QED
    BY <2>1, <2>2 DEF Queued
<1>7. ASSUME NEW d \in Dispatcher, TryPush(d) PROVE InFlightDistinct'
  <2>1. msg[d] \in Msg /\ pc[d] # "idle"
    BY <1>7 DEF TryPush
  <2>2. IsInjective(send_queue') /\ Range(send_queue') = Range(send_queue) \cup {msg[d]}
    BY <1>7, <2>1, RangeOfAppend, InjectiveAppend DEF TryPush, Pushed, Queued
  <2>3. UNCHANGED seen /\ InSender' = InSender
    BY <1>7 DEF TryPush, InSender, senderVars
  <2>4. pc' = [pc EXCEPT ![d] = "idle"] /\ msg' = [msg EXCEPT ![d] = NoMsg]
    BY <1>7 DEF TryPush, Return
  <2> QED
    BY <2>1, <2>2, <2>3, <2>4 DEF Queued
<1>8. ASSUME NEW d \in Dispatcher, Handler(d), ~TryPush(d) PROVE InFlightDistinct'
  <2>1. UNCHANGED <<seen, send_queue>> /\ InSender' = InSender
    BY <1>8 DEF Handler, NotRunning, ReadClock, Shed, BuildFails, Build, PushFails, OpenBreaker,
       InSender, senderVars
  <2>2. \A e \in Dispatcher : pc'[e] # "idle" => pc[e] # "idle" /\ msg'[e] = msg[e]
    BY <1>8 DEF Handler, NotRunning, ReadClock, Shed, BuildFails, Build, PushFails, OpenBreaker,
       Return
  <2> QED
    BY <2>1, <2>2 DEF Queued
<1> QED
  BY <1>1, <1>2, <1>3, <1>4, <1>5, <1>6, <1>7, <1>8, QuietSteps
  DEF Next, Control, Sender, SinkStarted, Lifecycle

\* What is allocated is what is owned.
LEMMA NextHeapAccounted ==
  TypeOK /\ Lifecycle /\ InFlightDistinct /\ HeapAccounted /\ [Next]_vars => HeapAccounted'
<1> SUFFICES ASSUME TypeOK, Lifecycle, InFlightDistinct, HeapAccounted, [Next]_vars
             PROVE  HeapAccounted'
  OBVIOUS
<1>a. heap = Held \cup Queued \cup InSender
  BY DEF HeapAccounted
<1>b. \A x : x \in Held <=> \E d \in Dispatcher : pc[d] \in Holding /\ x = msg[d]
  <2>1. \A x : x \in Held <=> \E d \in Dispatcher : x \in HeldBy(d)
    BY DEF Held
  <2>2. \A d \in Dispatcher : \A x : x \in HeldBy(d) <=> pc[d] \in Holding /\ x = msg[d]
    BY DEF HeldBy
  <2> QED
    BY <2>1, <2>2
<1>c. \A x : x \in Held' <=> \E d \in Dispatcher : pc'[d] \in Holding /\ x = msg'[d]
  <2>1. \A x : x \in Held' <=> \E d \in Dispatcher : x \in HeldBy(d)'
    BY DEF Held
  <2>2. \A d \in Dispatcher : \A x : x \in HeldBy(d)' <=> pc'[d] \in Holding /\ x = msg'[d]
    BY DEF HeldBy, Holding
  <2> QED
    BY <2>1, <2>2
<1>d. \A x \in Held : x \notin Queued /\ x \notin InSender
  BY <1>b DEF InFlightDistinct, Holding
<1>e. SUFFICES heap' = Held' \cup Queued' \cup InSender'
  BY DEF HeapAccounted
<1>f. UNCHANGED <<pc, msg>> => Held' = Held
  BY <1>b, <1>c
<1>1. CASE Quiet
  BY <1>1, <1>a, <1>f DEF Quiet, Queued
<1>2. CASE DrainOne
  <2>1. /\ Range(send_queue) = {Head(send_queue)} \cup Range(send_queue')
        /\ Head(send_queue) \notin Range(send_queue')
    BY <1>2, RangeOfTail, InjectiveTail DEF DrainOne, TypeOK, InFlightDistinct
  <2>2. UNCHANGED <<pc, msg>> /\ InSender' = InSender /\ heap' = heap \ {Head(send_queue)}
    BY <1>2 DEF DrainOne, Destroy, InSender, handlerVars, senderVars
  <2>3. Head(send_queue) \notin Held \cup InSender
    BY <2>1, <1>d DEF Queued, InFlightDistinct
  <2> QED
    BY <2>1, <2>2, <2>3, <1>a, <1>f DEF Queued
<1>3. CASE Pop
  <2>1. Range(send_queue) = {Head(send_queue)} \cup Range(send_queue')
    BY <1>3, RangeOfTail DEF Pop, Popped, TypeOK
  <2>2. UNCHANGED <<pc, msg, heap>> /\ InSender' = {Head(send_queue)} /\ InSender = {}
    BY <1>3 DEF Pop, InSender, handlerVars
  <2> QED
    BY <2>1, <2>2, <1>a, <1>f DEF Queued
<1>4. ASSUME event_thread \in {"publish", "backoff"}, event_thread' = "check", Destroy(sending),
             UNCHANGED <<pc, msg, send_queue>>
      PROVE  heap' = Held' \cup Queued' \cup InSender'
  <2>1. InSender = {sending} /\ InSender' = {} /\ heap' = heap \ {sending}
    BY <1>4 DEF InSender, Destroy
  <2>2. sending \notin Held \cup Queued
    BY <2>1, <1>d DEF InFlightDistinct
  <2> QED
    BY <1>4, <2>1, <2>2, <1>a, <1>f DEF Queued
<1>5. ASSUME NEW ok \in BOOLEAN, NEW stored \in BOOLEAN, Publish(ok, stored)
      PROVE  heap' = Held' \cup Queued' \cup InSender'
  <2>1. CASE ok
    BY <1>4, <1>5, <2>1 DEF Publish, handlerVars
  <2>2. CASE ~ok
    <3>1. InSender' = InSender /\ UNCHANGED <<pc, msg, heap, send_queue>>
      BY <1>5, <2>2 DEF Publish, InSender, handlerVars
    <3> QED
      BY <3>1, <1>a, <1>f DEF Queued
  <2> QED
    BY <2>1, <2>2
<1>6. CASE Backoff
  BY <1>4, <1>6 DEF Backoff, handlerVars
<1>7. ASSUME NEW d \in Dispatcher, NEW m \in Msg, Dispatch(d, m)
      PROVE  heap' = Held' \cup Queued' \cup InSender'
  <2>1. UNCHANGED <<heap, send_queue>> /\ InSender' = InSender
    BY <1>7 DEF Dispatch, InSender, senderVars
  <2>2. \A e \in Dispatcher : /\ pc'[e] \in Holding <=> pc[e] \in Holding
                              /\ pc[e] \in Holding => msg'[e] = msg[e]
    BY <1>7 DEF Dispatch, Holding, TypeOK
  <2>3. Held' = Held
    BY <2>2, <1>b, <1>c
  <2> QED
    BY <2>1, <2>3, <1>a DEF Queued
<1>8. ASSUME NEW d \in Dispatcher, NotRunning(d) \/ ReadClock(d) \/ Shed(d) \/ BuildFails(d) \/ PushFails(d)
      PROVE  heap' = Held' \cup Queued' \cup InSender'
  <2>1. UNCHANGED <<heap, send_queue>> /\ InSender' = InSender
    BY <1>8 DEF NotRunning, ReadClock, Shed, BuildFails, PushFails, InSender, senderVars
  <2>2. \A e \in Dispatcher : /\ pc'[e] \in Holding <=> pc[e] \in Holding
                              /\ pc[e] \in Holding => msg'[e] = msg[e]
    BY <1>8 DEF NotRunning, ReadClock, Shed, BuildFails, PushFails, Return, Holding, TypeOK
  <2>3. Held' = Held
    BY <2>2, <1>b, <1>c
  <2> QED
    BY <2>1, <2>3, <1>a DEF Queued
<1>9. ASSUME NEW d \in Dispatcher, Build(d)
      PROVE  heap' = Held' \cup Queued' \cup InSender'
  <2>1. UNCHANGED send_queue /\ InSender' = InSender /\ heap' = heap \cup {msg[d]}
    BY <1>9 DEF Build, InSender, senderVars
  <2>2. msg' = msg /\ pc' = [pc EXCEPT ![d] = "built"] /\ pc[d] = "timed"
    BY <1>9 DEF Build
  <2>3. Held' = Held \cup {msg[d]}
    BY <2>2, <1>b, <1>c DEF Holding, TypeOK
  <2> QED
    BY <2>1, <2>3, <1>a DEF Queued
<1>10. ASSUME NEW d \in Dispatcher, TryPush(d) \/ OpenBreaker(d)
       PROVE  heap' = Held' \cup Queued' \cup InSender'
  <2>1. /\ pc[d] \in Holding /\ InSender' = InSender
        /\ pc' = [pc EXCEPT ![d] = "idle"] /\ msg' = [msg EXCEPT ![d] = NoMsg]
    BY <1>10 DEF TryPush, OpenBreaker, Return, Holding, InSender, senderVars
  <2>2. Held = Held' \cup {msg[d]} /\ msg[d] \notin Held'
    BY <2>1, <1>b, <1>c DEF Holding, TypeOK, InFlightDistinct
  <2>3. msg[d] \notin Queued \cup InSender
    BY <2>1 DEF InFlightDistinct, Holding
  <2>4. CASE TryPush(d)
    <3>1. msg[d] \in Msg /\ heap' = heap
      BY <2>4 DEF TryPush, TypeOK
    <3>2. Range(send_queue') = Range(send_queue) \cup {msg[d]}
      BY <2>4, <3>1, RangeOfAppend DEF TryPush, Pushed, TypeOK
    <3> QED
      BY <3>1, <3>2, <2>1, <2>2, <1>a DEF Queued
  <2>5. CASE OpenBreaker(d)
    <3>1. UNCHANGED send_queue /\ heap' = heap \ {msg[d]}
      BY <2>5 DEF OpenBreaker, Destroy
    <3> QED
      BY <3>1, <2>1, <2>2, <2>3, <1>a DEF Queued
  <2> QED
    BY <1>10, <2>4, <2>5
<1> QED
  BY <1>1, <1>2, <1>3, <1>5, <1>6, <1>7, <1>8, <1>9, <1>10, QuietSteps
  DEF Next, Control, Sender, Handler, SinkStarted, Lifecycle

LEMMA InitIInv == Init => IInv
<1> SUFFICES ASSUME Init PROVE IInv
  OBVIOUS
<1>1. Range(send_queue) = {} /\ IsInjective(send_queue)
  BY DEF Init, Range, IsInjective
<1>2. HeapAccounted /\ InFlightDistinct
  BY <1>1 DEF Init, HeapAccounted, InFlightDistinct, Held, HeldBy, Holding, Queued, InSender
<1>3. Lifecycle /\ HandlersBound
  BY DEF Init, Lifecycle, HandlersBound
<1>4. ClockRead /\ BreakerBounded
  BY ConstantsAssumption DEF ConstantsAssumption, Init, ClockRead, BreakerBounded
<1> QED
  BY <1>2, <1>3, <1>4, InitTypeOK DEF IInv

LEMMA NextIInv == IInv /\ [Next]_vars => IInv'
BY NextTypeOK, NextLifecycle, NextHandlersBound, NextInFlightDistinct, NextHeapAccounted, NextClock
DEF IInv

\* The inductive invariant holds in every reachable state.
THEOREM Invariant == Spec => []IInv
BY InitIInv, NextIInv, PTL DEF Spec
-----------------------------------------------------------------------------
(* The safety properties that follow from it.                                *)

\* Every allocated message has exactly one owner, and none is left after shutdown.
THEOREM Ownership == Spec => [](HeapAccounted /\ OneOwner /\ NothingLeaks)
<1>1. ASSUME IInv PROVE HeapAccounted /\ OneOwner /\ NothingLeaks
  <2> USE <1>1 DEF IInv
  <2>1. OneOwner
    BY DEF InFlightDistinct, OneOwner, HeldBy, Holding
  <2>2. ASSUME control = "down" PROVE heap = {}
    <3>1. ~events_running /\ event_nodes = {} /\ send_queue = <<>>
          /\ event_thread \in {"none", "exited"}
      BY <2>2 DEF Lifecycle, TypeOK
    <3>2. \A d \in Dispatcher : HeldBy(d) = {}
      BY <3>1 DEF HandlersBound, HeldBy, Holding
    <3>3. Queued = {} /\ InSender = {}
      BY <3>1 DEF Queued, InSender, Range
    <3> QED
      BY <3>2, <3>3 DEF HeapAccounted, Held
  <2> QED
    BY <2>1, <2>2 DEF NothingLeaks
<1> QED
  BY <1>1, Invariant, PTL

\* Neither a handler nor the sender thread meets a queue or a connection that the
\* shutdown has already taken down.
THEOREM ShutdownOrder == Spec => [](QueueOutlivesHandlers /\ SenderOutlived /\ BoundIsServed)
<1>1. ASSUME IInv PROVE QueueOutlivesHandlers /\ SenderOutlived /\ BoundIsServed
  BY <1>1 DEF IInv, TypeOK, Lifecycle, HandlersBound, QueueOutlivesHandlers, SenderOutlived,
     BoundIsServed
<1> QED
  BY <1>1, Invariant, PTL

\* The breaker's end is at most one interval away.
THEOREM BreakerInterval == Spec => []BreakerBounded
BY Invariant, PTL DEF IInv
-----------------------------------------------------------------------------
(* The sink implements the lossy FIFO channel.                               *)

LEMMA InFresh ==
  /\ \A x : x \in fresh <=> x \in Msg \ seen \/ \E d \in Dispatcher : pc[d] # "idle" /\ x = msg[d]
  /\ \A x : x \in fresh' <=> x \in Msg \ seen' \/ \E d \in Dispatcher : pc'[d] # "idle" /\ x = msg'[d]
BY DEF fresh

\* A handler that gives its delivery up rejects it.
LEMMA HandlerRejects ==
  ASSUME TypeOK, InFlightDistinct, NEW d \in Dispatcher, pc[d] # "idle", Return(d), seen' = seen
  PROVE  msg[d] \in fresh /\ msg[d] \in Msg /\ fresh' = fresh \ {msg[d]}
<1>1. /\ msg[d] \in Msg /\ msg[d] \in seen
      /\ \A e \in Dispatcher : e # d /\ pc[e] # "idle" => msg[e] # msg[d]
  BY DEF TypeOK, InFlightDistinct
<1>2. \A e \in Dispatcher : /\ pc'[e] # "idle" <=> pc[e] # "idle" /\ e # d
                            /\ e # d => msg'[e] = msg[e]
  BY DEF Return, TypeOK
<1>3. \A x : x \in fresh' <=> x \in fresh /\ x # msg[d]
  BY <1>1, <1>2, InFresh
<1> QED
  BY <1>1, <1>3, InFresh

\* A step that keeps each handler's message keeps the set of fresh messages.
LEMMA FreshKept ==
  ASSUME UNCHANGED <<msg, seen>>, \A e \in Dispatcher : pc'[e] # "idle" <=> pc[e] # "idle"
  PROVE  fresh' = fresh
<1>1. \A x : x \in fresh' <=> x \in fresh
  BY InFresh
<1> QED
  BY <1>1

LEMMA SinkStep == IInv /\ [Next]_vars => [Fifo!Next]_(Fifo!vars)
<1> SUFFICES ASSUME IInv, [Next]_vars PROVE [Fifo!Next]_(Fifo!vars)
  OBVIOUS
<1>t. TypeOK /\ Lifecycle /\ InFlightDistinct
  BY DEF IInv
<1>s. send_queue \in Seq(Msg)
  BY <1>t DEF TypeOK
<1>a. ASSUME UNCHANGED <<fresh, transit, rows>> PROVE [Fifo!Next]_(Fifo!vars)
  BY <1>a DEF Fifo!vars
<1>b. ASSUME NEW m \in Msg, m \in fresh, fresh' = fresh \ {m}, UNCHANGED <<transit, rows>>
      PROVE  [Fifo!Next]_(Fifo!vars)
  BY <1>b DEF Fifo!Next, Fifo!Reject
<1>1. CASE UNCHANGED <<msg, pc, seen, send_queue, sending, rows>> /\ event_thread' # "publish" /\ event_thread # "publish"
  <2>1. fresh' = fresh
    BY <1>1, FreshKept
  <2> QED
    BY <1>1, <1>a, <2>1 DEF transit
<1>2. CASE UNCHANGED <<msg, pc, seen, send_queue, sending, rows, event_thread>>
  <2>1. fresh' = fresh
    BY <1>2, FreshKept
  <2> QED
    BY <1>2, <1>a, <2>1 DEF transit
<1>3. CASE DrainOne
  <2>1. event_thread = "exited" /\ event_thread' = "exited"
    BY <1>3, <1>t DEF DrainOne, Lifecycle, senderVars
  <2>2. transit = send_queue /\ transit' = Tail(send_queue)
    BY <1>3, <1>s, <2>1 DEF DrainOne, transit
  <2>3. fresh' = fresh
    BY <1>3, FreshKept DEF DrainOne, handlerVars
  <2> QED
    BY <1>3, <2>2, <2>3 DEF DrainOne, Fifo!Next, Fifo!Settle, Fifo!Lose
<1>4. CASE Pop
  <2>1. send_queue = <<Head(send_queue)>> \o Tail(send_queue)
    BY <1>4, <1>s DEF Pop
  <2>2. transit' = transit
    BY <1>4, <1>s, <2>1 DEF Pop, Popped, transit
  <2>3. fresh' = fresh
    BY <1>4, FreshKept DEF Pop, handlerVars
  <2> QED
    BY <1>4, <1>a, <2>2, <2>3 DEF Pop
<1>5. ASSUME NEW ok \in BOOLEAN, NEW stored \in BOOLEAN, Publish(ok, stored)
      PROVE  [Fifo!Next]_(Fifo!vars)
  <2>1. sending \in Msg /\ event_thread' # "publish"
    BY <1>5, <1>t DEF Publish, TypeOK
  <2>2. /\ transit # <<>> /\ Head(transit) = sending
        /\ transit' = Tail(transit)
    BY <1>5, <1>s, <2>1 DEF Publish, transit
  <2>3. fresh' = fresh
    BY <1>5, FreshKept DEF Publish, handlerVars
  <2>4. CASE stored
    BY <1>5, <2>2, <2>3, <2>4 DEF Publish, Fifo!Next, Fifo!Settle, Fifo!Deliver
  <2>5. CASE ~stored
    BY <1>5, <2>2, <2>3, <2>5 DEF Publish, Fifo!Next, Fifo!Settle, Fifo!Lose
  <2> QED
    BY <2>4, <2>5
<1>6. CASE Backoff
  <2>1. fresh' = fresh
    BY <1>6, FreshKept DEF Backoff, handlerVars
  <2> QED
    BY <1>6, <1>a, <2>1 DEF Backoff, transit
<1>7. ASSUME NEW d \in Dispatcher, NEW m \in Msg, Dispatch(d, m) PROVE [Fifo!Next]_(Fifo!vars)
  <2>1. /\ pc[d] = "idle" /\ m \notin seen /\ seen' = seen \cup {m}
        /\ pc' = [pc EXCEPT ![d] = "entered"] /\ msg' = [msg EXCEPT ![d] = m]
    BY <1>7 DEF Dispatch
  <2>2. \A e \in Dispatcher : /\ pc'[e] # "idle" <=> pc[e] # "idle" \/ e = d
                              /\ msg'[e] = IF e = d THEN m ELSE msg[e]
    BY <2>1, <1>t DEF TypeOK
  <2>3. \A x : x \in fresh' <=> x \in fresh
    BY <2>1, <2>2, InFresh
  <2>4. fresh' = fresh
    BY <2>3
  <2> QED
    BY <1>7, <1>a, <2>4 DEF Dispatch, transit, senderVars
<1>8. ASSUME NEW d \in Dispatcher, NotRunning(d) \/ Shed(d) \/ BuildFails(d) \/ OpenBreaker(d)
      PROVE  [Fifo!Next]_(Fifo!vars)
  <2>1. pc[d] # "idle" /\ Return(d) /\ UNCHANGED <<seen, send_queue, senderVars, rows>>
    BY <1>8 DEF NotRunning, Shed, BuildFails, OpenBreaker
  <2>2. transit' = transit
    BY <2>1 DEF transit, senderVars
  <2> QED
    BY <1>b, <1>t, <2>1, <2>2, HandlerRejects
<1>9. ASSUME NEW d \in Dispatcher, ReadClock(d) \/ Build(d) \/ PushFails(d)
      PROVE  [Fifo!Next]_(Fifo!vars)
  <2>1. UNCHANGED <<msg, seen, send_queue, senderVars, rows>>
    BY <1>9 DEF ReadClock, Build, PushFails
  <2>2. \A e \in Dispatcher : pc'[e] # "idle" <=> pc[e] # "idle"
    BY <1>9, <1>t DEF ReadClock, Build, PushFails, TypeOK
  <2> QED
    BY <1>a, <2>1, <2>2, FreshKept DEF transit, senderVars
<1>10. ASSUME NEW d \in Dispatcher, TryPush(d) PROVE [Fifo!Next]_(Fifo!vars)
  <2>1. /\ pc[d] # "idle" /\ Return(d) /\ UNCHANGED <<seen, senderVars, rows>>
        /\ send_queue' = Append(send_queue, msg[d])
    BY <1>10 DEF TryPush, Pushed
  <2>2. msg[d] \in fresh /\ msg[d] \in Msg /\ fresh' = fresh \ {msg[d]}
    BY <1>t, <2>1, HandlerRejects
  <2>3. transit' = Append(transit, msg[d])
    <3>1. CASE event_thread = "publish"
      <4>1. sending \in Msg
        BY <3>1, <1>t DEF TypeOK
      <4>2. <<sending>> \o Append(send_queue, msg[d]) = Append(<<sending>> \o send_queue, msg[d])
        BY <4>1, <2>2, <1>s
      <4> QED
        BY <3>1, <4>2, <2>1 DEF transit, senderVars
    <3>2. CASE event_thread # "publish"
      BY <3>2, <2>1, <2>2, <1>s DEF transit, senderVars
    <3> QED
      BY <3>1, <3>2
  <2> QED
    BY <2>1, <2>2, <2>3 DEF Fifo!Next, Fifo!Accept
<1>11. SinkStarted => /\ UNCHANGED <<msg, pc, seen, send_queue, sending, rows>>
                      /\ event_thread' # "publish" /\ event_thread # "publish"
  BY <1>t DEF SinkStarted, handlerVars, Lifecycle
<1>14. SinkSkipped \/ QueueCreateFails \/ ThreadCreateFails \/ Join \/ FinishDrain \/ Close
         => UNCHANGED <<msg, pc, seen, send_queue, sending, rows, event_thread>>
  BY DEF SinkSkipped, QueueCreateFails, ThreadCreateFails, Join, FinishDrain, Close,
     handlerVars, senderVars
<1>15. ASSUME NEW k \in NodeIds, BindNode(k) \/ UnbindNode(k)
       PROVE  UNCHANGED <<msg, pc, seen, send_queue, sending, rows, event_thread>>
  BY <1>15 DEF BindNode, UnbindNode, handlerVars, senderVars
<1>12. StopBegin \/ Tick \/ UNCHANGED vars =>
         UNCHANGED <<msg, pc, seen, send_queue, sending, rows, event_thread>>
  BY DEF StopBegin, Tick, vars, handlerVars, senderVars
<1>13. Check \/ PopTimeout => UNCHANGED <<msg, pc, seen, send_queue, sending, rows>>
                              /\ event_thread' # "publish" /\ event_thread # "publish"
  BY DEF Check, PopTimeout, KeepRunning, handlerVars
<1> QED
  BY <1>1, <1>2, <1>3, <1>4, <1>5, <1>6, <1>7, <1>8, <1>9, <1>10, <1>11, <1>12, <1>13,
     <1>14, <1>15
  DEF Next, Control, Sender, Handler

LEMMA SinkInit == Init => Fifo!Init
<1> SUFFICES ASSUME Init PROVE Fifo!Init
  OBVIOUS
<1>1. fresh = Msg
  <2>1. \A x : x \in fresh <=> x \in Msg
    BY InFresh DEF Init
  <2> QED
    BY <2>1
<1>2. transit = <<>>
  BY DEF Init, transit
<1> QED
  BY <1>1, <1>2 DEF Init, Fifo!Init

\* The event sink is a lossy FIFO channel: rows are written in queueing order and
\* only the oldest queued message is ever lost.
THEOREM SinkIsLossyFifo == Spec => ImplementsFifo
BY SinkInit, SinkStep, Invariant, PTL DEF Spec, ImplementsFifo, Fifo!Spec

FifoProofs == INSTANCE LossyFifoProofs WITH delivered <- rows

\* Hence no delivery is stored twice.
THEOREM StoredOnce == Spec => []AtMostOnce
<1>1. Fifo!Init <=> FifoProofs!Init
  BY DEF Fifo!Init, FifoProofs!Init
<1>2. [Fifo!Next]_(Fifo!vars) <=> [FifoProofs!Next]_(FifoProofs!vars)
  BY DEF Fifo!Next, Fifo!Accept, Fifo!Reject, Fifo!Settle, Fifo!Deliver, Fifo!Lose, Fifo!vars,
     FifoProofs!Next, FifoProofs!Accept, FifoProofs!Reject, FifoProofs!Settle, FifoProofs!Deliver,
     FifoProofs!Lose, FifoProofs!vars
<1>3. FifoProofs!AtMostOnce <=> AtMostOnce
  BY DEF FifoProofs!AtMostOnce, AtMostOnce, Fifo!AtMostOnce, FifoProofs!IsInjective,
     Fifo!IsInjective, FifoProofs!Range, Fifo!Range
<1>4. FifoProofs!Spec => []FifoProofs!AtMostOnce
  BY FifoProofs!DeliveredOnce
<1> QED
  BY <1>1, <1>2, <1>3, <1>4, SinkIsLossyFifo, PTL DEF ImplementsFifo, Fifo!Spec, FifoProofs!Spec
=============================================================================
