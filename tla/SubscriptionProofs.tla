-------------------------- MODULE SubscriptionProofs --------------------------
(* Theorems about Subscription, for any commands, number of tasks and events, *)
(* wherever block_on may be nested.                                           *)
EXTENDS Subscription, SequenceFacts, TLAPS

InHandPhases == {"claim", "answer", "run", "ack", "update"}
TypedStream == stream \in [Task -> Seq(Notification)]

LEMMA InitTypeOK == Init => TypeOK
<1> SUFFICES ASSUME Init PROVE TypeOK
  OBVIOUS
<1>1. stream \in [Task -> Seq(Notification)]
  BY DEF Init
<1>2. /\ status \in [Command -> Status] /\ handle = "open"
      /\ offered \in [Command -> Nat] /\ called \in [Command -> Nat]
  BY DEF Init, Status
<1>3. /\ phase \in [Task -> Phases] /\ after \in [Task -> Nat]
      /\ {connected, live, ok, stop} \subseteq [Task -> BOOLEAN]
  BY DEF Init, Phases
<1>4. /\ spawned \in 0 .. MaxTasks /\ sub \in 0 .. spawned /\ events \in 0 .. MaxEvents
      /\ \A t \in Task : phase[t] = "unborn" <=> t > spawned
  BY SubscriptionAssumption DEF Init, SubscriptionAssumption, Task, NoTask
<1>5. /\ \A t \in Task : phase[t] = "unborn" /\ cur[t] = NoCommand
      /\ cur \in [Task -> Command \cup {NoCommand}]
  BY DEF Init
<1>6. nests \in SUBSET {"open_client", "surreal_update"}
  BY SubscriptionAssumption DEF Init, SubscriptionAssumption
<1> QED
  BY <1>1, <1>2, <1>3, <1>4, <1>5, <1>6 DEF Init, TypeOK

\* A notification that is sent is appended to the streams of the LIVE queries.
LEMMA NotifyTyped ==
  ASSUME TypeOK, NEW a \in {"write", "delete"}, NEW c \in Command, NEW s \in Status, Notify(a, c, s)
  PROVE  TypedStream'
<1>1. [action |-> a, cmd |-> c, status |-> s] \in Notification
  BY DEF Notification
<1> QED
  BY <1>1 DEF Notify, TypeOK, TypedStream

LEMMA SetStatusTyped ==
  ASSUME TypeOK, NEW c \in Command, NEW s \in Status, SetStatus(c, s)
  PROVE  status' \in [Command -> Status] /\ TypedStream'
<1>1. CASE status[c] = "absent"
  BY <1>1 DEF SetStatus, TypeOK, TypedStream
<1>2. CASE status[c] # "absent"
  BY <1>2, NotifyTyped DEF SetStatus, TypeOK
<1> QED
  BY <1>1, <1>2

LEMMA LeaveTyped ==
  ASSUME TypeOK, NEW t \in Task, phase[t] # "unborn", NEW p \in {"ended", "panicked"}, Leave(t, p),
         UNCHANGED <<status, ownerVars, nests, faulty, events, lost, offered, called>>
  PROVE  TypeOK'
<1>1. /\ phase' \in [Task -> Phases] /\ after' \in [Task -> Nat]
      /\ {connected, live, ok, stop}' \subseteq [Task -> BOOLEAN]
  BY DEF Leave, Goto, TypeOK, Phases, ownerVars
<1>2. stream' \in [Task -> Seq(Notification)] /\ cur' \in [Task -> Command \cup {NoCommand}]
  BY DEF Leave, TypeOK
<1>3. \A u \in Task : phase'[u] = "unborn" <=> u > spawned'
  BY DEF Leave, Goto, TypeOK, ownerVars
<1>4. \A u \in Task : IF phase'[u] \in InHandPhases THEN cur'[u] \in Command ELSE cur'[u] = NoCommand
  <2>1. cur' = [cur EXCEPT ![t] = NoCommand] /\ phase' = [phase EXCEPT ![t] = p]
    BY DEF Leave, Goto
  <2> QED
    BY <2>1 DEF TypeOK, InHandPhases
<1> QED
  BY <1>1, <1>2, <1>3, <1>4 DEF TypeOK, ownerVars, InHandPhases

LEMMA LiveTasksFinite == Cardinality({ t \in Task : live[t] }) \in Nat
<1>1. IsFiniteSet(Task)
  BY FS_Interval, SubscriptionAssumption DEF Task, SubscriptionAssumption
<1>2. IsFiniteSet({ t \in Task : live[t] })
  BY <1>1, FS_Subset
<1> QED
  BY <1>2, FS_CardinalityType

\* A writer of the table keeps the types: a producer, or a connection that breaks.
LEMMA WorldTyped ==
  TypeOK /\ (Producers \/ \E t \in Task : ConnectionLost(t)) => TypeOK'
<1> SUFFICES ASSUME TypeOK, Producers \/ \E t \in Task : ConnectionLost(t) PROVE TypeOK'
  OBVIOUS
<1> USE DEF ownerVars, taskVars, Event
<1>1. Event => events' \in 0 .. MaxEvents
  BY SubscriptionAssumption DEF TypeOK, SubscriptionAssumption
<1>2. ASSUME NEW c \in Command, Put(c) PROVE TypeOK'
  <2>1. status' \in [Command -> Status] /\ status'[c] \in Status
    BY <1>2 DEF Put, TypeOK, Status
  <2>2. TypedStream'
    BY <1>2, <2>1, NotifyTyped DEF Put
  <2>3. offered' \in [Command -> Nat]
    BY <1>2, LiveTasksFinite DEF Put, TypeOK
  <2> QED
    BY <1>1, <1>2, <2>1, <2>2, <2>3 DEF Put, TypeOK, TypedStream
<1>3. ASSUME NEW c \in Command, Remove(c) PROVE TypeOK'
  <2>1. status' \in [Command -> Status] /\ status[c] \in Status
    BY <1>3 DEF Remove, TypeOK, Status
  <2>2. TypedStream'
    BY <1>3, <2>1, NotifyTyped DEF Remove
  <2> QED
    BY <1>1, <1>3, <2>1, <2>2 DEF Remove, TypeOK, TypedStream
<1>4. ASSUME NEW t \in Task, ConnectionLost(t) PROVE TypeOK'
  <2>1. TypedStream'
    <3>1. PICK n \in 0 .. Len(stream[t]) : stream' = [stream EXCEPT ![t] = SubSeq(@, 1, n)]
      BY <1>4 DEF ConnectionLost
    <3>2. SubSeq(stream[t], 1, n) \in Seq(Notification)
      BY <3>1 DEF TypeOK
    <3> QED
      BY <3>1, <3>2 DEF TypeOK, TypedStream
  <2> QED
    BY <1>1, <1>4, <2>1 DEF ConnectionLost, TypeOK, TypedStream
<1> QED
  BY <1>2, <1>3, <1>4 DEF Producers

\* The spawned task keeps them: what it has in hand is a command of the table.
LEMMA StreamingTyped == ASSUME TypeOK, NEW t \in Task, Streaming(t) PROVE TypeOK'
<1> USE DEF ownerVars, taskVars, tableVars, worldVars, Goto
<1>1. ASSUME NEW opened \in BOOLEAN, Begin(t, opened) PROVE TypeOK'
  <2>1. CASE "open_client" \in nests
    <3>1. /\ phase[t] = "start" /\ phase' = [phase EXCEPT ![t] = "top"]
          /\ connected' = [connected EXCEPT ![t] = opened]
          /\ UNCHANGED <<status, ownerVars, nests, faulty, events, lost, offered, called,
                         live, stream, cur, ok, after>>
      BY <1>1, <2>1 DEF Begin
    <3> QED
      BY <3>1 DEF TypeOK, Phases
  <2>2. CASE "open_client" \notin nests
    BY <1>1, <2>2, LeaveTyped DEF Begin
  <2> QED
    BY <2>1, <2>2
<1>2. ASSUME NEW opened \in BOOLEAN, Loop(t, opened) PROVE TypeOK'
  BY <1>2 DEF Loop, Retry, TypeOK, Phases
<1>3. ASSUME LoopBreaks(t) PROVE TypeOK'
  BY <1>3, LeaveTyped DEF LoopBreaks
<1>4. ASSUME NEW started \in BOOLEAN, StartLive(t, started) PROVE TypeOK'
  BY <1>4 DEF StartLive, Retry, TypeOK, Phases
<1>5. ASSUME EndOfStream(t) PROVE TypeOK'
  BY <1>5 DEF EndOfStream, Retry, TypeOK, Phases
<1>6. ASSUME WakeUp(t) PROVE TypeOK'
  BY <1>6 DEF WakeUp, TypeOK, Phases
<1>7. ASSUME Receive(t) PROVE TypeOK'
  <2>1. CASE Stopping(t)
    BY <1>7, <2>1, LeaveTyped DEF Receive
  <2>2. CASE ~Stopping(t)
    <3>1. Head(stream[t]) \in Notification /\ Tail(stream[t]) \in Seq(Notification)
      BY <1>7 DEF Receive, TypeOK
    <3>2. Head(stream[t]).cmd \in Command
      BY <3>1 DEF Notification
    <3>3. stream' = [stream EXCEPT ![t] = Tail(stream[t])]
      BY <1>7, <2>2 DEF Receive
    <3>4. TypedStream'
      BY <3>1, <3>3 DEF TypeOK, TypedStream
    <3>5. CASE Wanted(Head(stream[t]))
      <4>1. /\ phase' = [phase EXCEPT ![t] = "claim"]
            /\ cur' = [cur EXCEPT ![t] = Head(stream[t]).cmd]
        BY <1>7, <2>2, <3>5 DEF Receive, Goto
      <4>2. UNCHANGED <<status, ownerVars, nests, faulty, events, lost, offered, called,
                        connected, live, ok, after>>
        BY <1>7, <2>2 DEF Receive
      <4>3. phase[t] = "next"
        BY <1>7 DEF Receive
      <4>4. phase' \in [Task -> Phases] /\ cur' \in [Task -> Command \cup {NoCommand}]
        BY <3>2, <4>1 DEF TypeOK, Phases
      <4>5. \A u \in Task : phase'[u] = "unborn" <=> u > spawned
        BY <4>1, <4>3 DEF TypeOK
      <4>6. \A u \in Task :
              IF phase'[u] \in {"claim", "answer", "run", "ack", "update"}
              THEN cur'[u] \in Command ELSE cur'[u] = NoCommand
        BY <3>2, <4>1 DEF TypeOK
      <4> QED
        BY <3>4, <4>2, <4>4, <4>5, <4>6 DEF TypeOK, TypedStream
    <3>6. CASE ~Wanted(Head(stream[t]))
      BY <1>7, <2>2, <3>4, <3>6 DEF Receive, TypeOK, TypedStream
    <3> QED
      BY <3>5, <3>6
  <2> QED
    BY <2>1, <2>2
<1>8. ASSUME ReceiveError(t) PROVE TypeOK'
  <2>1. Tail(stream[t]) \in Seq(Notification)
    BY <1>8 DEF ReceiveError, TypeOK
  <2>2. TypedStream'
    BY <1>8, <2>1 DEF ReceiveError, TypeOK, TypedStream
  <2> QED
    BY <1>8, <2>2 DEF ReceiveError, TypeOK, TypedStream
<1>9. ASSUME Cancel(t) PROVE TypeOK'
  BY <1>9, LeaveTyped DEF Cancel, Awaiting
<1> QED
  BY <1>1, <1>2, <1>3, <1>4, <1>5, <1>6, <1>7, <1>8, <1>9 DEF Streaming

LEMMA HandlingTyped == ASSUME TypeOK, NEW t \in Task, Handling(t) PROVE TypeOK'
<1> USE DEF ownerVars, taskVars, tableVars, worldVars, Goto
<1>1. ASSUME Claim(t) PROVE TypeOK'
  <2>1. status' \in [Command -> Status] /\ TypedStream'
    <3>1. cur[t] \in Command
      BY <1>1 DEF Claim, TypeOK
    <3> QED
      BY <1>1, <3>1, SetStatusTyped DEF Claim, Status
  <2> QED
    BY <1>1, <2>1 DEF Claim, TypeOK, TypedStream, Phases
<1>2. ASSUME ClaimRejected(t) PROVE TypeOK'
  BY <1>2 DEF ClaimRejected, TypeOK, Phases
<1>3. ASSUME ClaimFails(t) PROVE TypeOK'
  BY <1>3 DEF ClaimFails, TypeOK, Phases
<1>4. ASSUME ClaimAnswered(t) PROVE TypeOK'
  BY <1>4 DEF ClaimAnswered, CallNow, TypeOK, Phases
<1>5. ASSUME Run(t) PROVE TypeOK'
  <2>1. called' \in [Command -> Nat] /\ after' \in [Task -> Nat] /\ ok' \in [Task -> BOOLEAN]
    BY <1>5 DEF Run, TypeOK
  <2> QED
    BY <1>5, <2>1 DEF Run, TypeOK, Phases
<1>6. ASSUME CheckHandle(t) PROVE TypeOK'
  BY <1>6 DEF CheckHandle, Handled, TypeOK, Phases
<1>7. ASSUME Ack(t) PROVE TypeOK'
  <2>1. status' \in [Command -> Status] /\ TypedStream'
    <3>1. cur[t] \in Command
      BY <1>7 DEF Ack, TypeOK
    <3>2. CASE SetStatus(cur[t], Outcome(t))
      BY <3>1, <3>2, SetStatusTyped DEF Outcome, Status
    <3>3. CASE UNCHANGED <<status, stream>>
      BY <3>3 DEF TypeOK, TypedStream
    <3> QED
      BY <1>7, <3>2, <3>3 DEF Ack
  <2> QED
    BY <1>7, <2>1 DEF Ack, Handled, TypeOK, TypedStream, Phases
<1>8. ASSUME AckPanics(t) PROVE TypeOK'
  BY <1>8, LeaveTyped DEF AckPanics
<1> QED
  BY <1>1, <1>2, <1>3, <1>4, <1>5, <1>6, <1>7, <1>8 DEF Handling

LEMMA OwnerTyped == TypeOK /\ Owner => TypeOK'
<1> SUFFICES ASSUME TypeOK, Owner PROVE TypeOK'
  OBVIOUS
<1> USE DEF ownerVars, taskVars, tableVars, worldVars, Goto, NoTask
<1>1. ASSUME Subscribe PROVE TypeOK'
  <2>1. spawned \in Nat /\ spawned + 1 \in Task
    BY <1>1, SubscriptionAssumption DEF Subscribe, TypeOK, Task, SubscriptionAssumption
  <2>2. /\ events' \in 0 .. MaxEvents /\ spawned' \in 0 .. MaxTasks /\ sub' \in 0 .. spawned'
        /\ phase' \in [Task -> Phases]
    BY <1>1, <2>1, SubscriptionAssumption
    DEF Subscribe, Event, TypeOK, Task, Phases, SubscriptionAssumption
  <2>3. /\ phase' = [phase EXCEPT ![spawned + 1] = "start"]
        /\ phase[spawned + 1] = "unborn" /\ spawned' = spawned + 1
    BY <1>1, <2>1 DEF Subscribe, TypeOK
  <2>4. \A u \in Task : phase'[u] = "unborn" <=> u > spawned'
    BY <2>1, <2>3 DEF TypeOK, Task
  <2>5. \A u \in Task : IF phase'[u] \in InHandPhases THEN cur[u] \in Command ELSE cur[u] = NoCommand
    BY <2>1, <2>3 DEF TypeOK, InHandPhases
  <2>6. /\ UNCHANGED <<status, stream, offered, nests, faulty, lost, live, handle, stop, connected,
                       cur, ok, after, called>>
    BY <1>1 DEF Subscribe
  <2> QED
    BY <2>2, <2>4, <2>5, <2>6 DEF TypeOK, InHandPhases
<1>2. ASSUME Unsubscribe PROVE TypeOK'
  <2>1. stop \in [Task -> BOOLEAN] /\ stop' = [stop EXCEPT ![sub] = TRUE]
    BY <1>2 DEF Unsubscribe, TypeOK
  <2>2. stop' \in [Task -> BOOLEAN]
    BY <2>1
  <2>3. sub' = 0 /\ spawned' = spawned /\ spawned \in 0 .. MaxTasks /\ 0 \in 0 .. spawned
    BY <1>2, SubscriptionAssumption DEF Unsubscribe, TypeOK, SubscriptionAssumption
  <2> QED
    BY <1>2, <2>2, <2>3 DEF Unsubscribe, TypeOK
<1>3. ASSUME Close PROVE TypeOK'
  BY <1>3 DEF Close, TypeOK
<1>4. ASSUME Forget PROVE TypeOK'
  BY <1>4 DEF Forget, TypeOK
<1> QED
  BY <1>1, <1>2, <1>3, <1>4 DEF Owner

\* surreal_subscribe's task, the callback and the owner keep every variable of its type.
THEOREM TypeCorrect == Spec => []TypeOK
<1>1. TypeOK /\ UNCHANGED vars => TypeOK'
  BY DEF TypeOK, vars, ownerVars, taskVars, tableVars, worldVars
<1>2. TypeOK /\ [Next]_vars => TypeOK'
  BY <1>1, WorldTyped, StreamingTyped, HandlingTyped, OwnerTyped DEF Next
<1> QED
  BY InitTypeOK, <1>2, PTL DEF Spec
-----------------------------------------------------------------------------
(* A task that was told to stop.                                             *)

WindingDown == {"ack", "update", "next", "sleep", "top", "ended", "panicked"}

\* The command it begins after that is the one it had in hand: from then on it is on
\* its way to the flag.
StopInv ==
  \A t \in Task :
    /\ phase[t] = "unborn" => ~stop[t]
    /\ ~stop[t] => after[t] = 0
    /\ after[t] # 0 => after[t] = 1 /\ phase[t] \in WindingDown

LEMMA NextStopInv == TypeOK /\ StopInv /\ [Next]_vars => StopInv'
<1> SUFFICES ASSUME TypeOK, StopInv, [Next]_vars PROVE StopInv'
  OBVIOUS
<1>1. /\ phase \in [Task -> Phases] /\ after \in [Task -> Nat] /\ stop \in [Task -> BOOLEAN]
      /\ sub \in 0 .. spawned /\ spawned \in 0 .. MaxTasks
      /\ \A t \in Task : phase[t] = "unborn" <=> t > spawned
  BY DEF TypeOK
<1> USE DEF StopInv, WindingDown, ownerVars, taskVars, tableVars, worldVars, NoTask
<1>2. ASSUME NEW t \in Task, NEW b \in BOOLEAN, Begin(t, b) PROVE StopInv'
  BY <1>1, <1>2 DEF Begin, Leave, Goto
<1>3. ASSUME NEW t \in Task, NEW b \in BOOLEAN, Loop(t, b) PROVE StopInv'
  BY <1>1, <1>3 DEF Loop, Stopping, Retry, Goto
<1>4. ASSUME NEW t \in Task, LoopBreaks(t) PROVE StopInv'
  BY <1>1, <1>4 DEF LoopBreaks, Stopping, Leave, Goto
<1>5. ASSUME NEW t \in Task, NEW b \in BOOLEAN, StartLive(t, b) PROVE StopInv'
  BY <1>1, <1>5 DEF StartLive, Retry, Goto
<1>6. ASSUME NEW t \in Task, EndOfStream(t) PROVE StopInv'
  BY <1>1, <1>6 DEF EndOfStream, Retry, Goto
<1>7. ASSUME NEW t \in Task, WakeUp(t) PROVE StopInv'
  BY <1>1, <1>7 DEF WakeUp, Goto
<1>8. ASSUME NEW t \in Task, Receive(t) PROVE StopInv'
  BY <1>1, <1>8 DEF Receive, Stopping, Leave, Goto
<1>9. ASSUME NEW t \in Task, ReceiveError(t) PROVE StopInv'
  BY <1>1, <1>9 DEF ReceiveError
<1>10. ASSUME NEW t \in Task, Cancel(t) PROVE StopInv'
  BY <1>1, <1>10 DEF Cancel, Aborted, Awaiting, Leave, Goto
<1>11. ASSUME NEW t \in Task, Claim(t) PROVE StopInv'
  BY <1>1, <1>11 DEF Claim, SetStatus, Goto
<1>12. ASSUME NEW t \in Task, ClaimRejected(t) PROVE StopInv'
  BY <1>1, <1>12 DEF ClaimRejected, Goto
<1>13. ASSUME NEW t \in Task, ClaimFails(t) PROVE StopInv'
  BY <1>1, <1>13 DEF ClaimFails, Goto
<1>14. ASSUME NEW t \in Task, ClaimAnswered(t) PROVE StopInv'
  BY <1>1, <1>14 DEF ClaimAnswered, CallNow, Goto
<1>15. ASSUME NEW t \in Task, Run(t) PROVE StopInv'
  BY <1>1, <1>15 DEF Run, Goto
<1>16. ASSUME NEW t \in Task, CheckHandle(t) PROVE StopInv'
  BY <1>1, <1>16 DEF CheckHandle, Handled, Goto
<1>17. ASSUME NEW t \in Task, Ack(t) PROVE StopInv'
  BY <1>1, <1>17 DEF Ack, SetStatus, Outcome, Handled, Goto
<1>26. ASSUME NEW t \in Task, AckPanics(t) PROVE StopInv'
  BY <1>1, <1>26 DEF AckPanics, Leave, Goto
<1>18. ASSUME NEW t \in Task, ConnectionLost(t) PROVE StopInv'
  BY <1>1, <1>18 DEF ConnectionLost
<1>19. ASSUME NEW c \in Command, Put(c) PROVE StopInv'
  BY <1>1, <1>19 DEF Put
<1>20. ASSUME NEW c \in Command, Remove(c) PROVE StopInv'
  BY <1>1, <1>20 DEF Remove
<1>21. ASSUME Subscribe PROVE StopInv'
  <2>1. spawned + 1 \in Task /\ phase[spawned + 1] = "unborn"
    BY <1>1, <1>21, SubscriptionAssumption DEF Subscribe, Task, SubscriptionAssumption
  <2> QED
    BY <1>1, <1>21, <2>1 DEF Subscribe, Goto
<1>22. ASSUME Unsubscribe PROVE StopInv'
  <2>1. sub \in Task /\ phase[sub] # "unborn" /\ after[sub] = after'[sub]
    BY <1>1, <1>22, SubscriptionAssumption DEF Unsubscribe, Task, SubscriptionAssumption
  <2> QED
    BY <1>1, <1>22, <2>1 DEF Unsubscribe
<1>23. ASSUME Close PROVE StopInv'
  BY <1>1, <1>23 DEF Close
<1>24. ASSUME Forget PROVE StopInv'
  BY <1>1, <1>24 DEF Forget
<1>25. ASSUME UNCHANGED vars PROVE StopInv'
  BY <1>1, <1>25 DEF vars
<1> QED
  BY <1>2, <1>3, <1>4, <1>5, <1>6, <1>7, <1>8, <1>9, <1>10, <1>11, <1>12, <1>13, <1>14,
     <1>15, <1>16, <1>17, <1>18, <1>19, <1>20, <1>21, <1>22, <1>23, <1>24, <1>25, <1>26
  DEF Next, Producers, Owner, Streaming, Handling

\* surreal_unsubscribe: the flag and the abort let a task finish the command it is on,
\* and begin at most the one it holds, whatever the timing.
THEOREM StopsAfterOne == Spec => []LastCommandOnly
<1>1. Init => StopInv
  BY DEF Init, StopInv
<1>2. StopInv => LastCommandOnly
  BY DEF StopInv, LastCommandOnly
<1> QED
  BY <1>1, <1>2, TypeCorrect, NextStopInv, PTL DEF Spec
-----------------------------------------------------------------------------
(* What a task holds.                                                        *)

Following == {"next"} \cup InHandPhases

\* As long as no connection was lost, the stream of a task that follows is running.
LiveInv == ~lost => \A t \in Task : phase[t] \in Following => live[t]

LEMMA NextLiveInv == TypeOK /\ LiveInv /\ [Next]_vars => LiveInv'
<1> SUFFICES ASSUME TypeOK, LiveInv, [Next]_vars PROVE LiveInv'
  OBVIOUS
<1>1. /\ phase \in [Task -> Phases] /\ live \in [Task -> BOOLEAN] /\ ok \in [Task -> BOOLEAN]
      /\ stop \in [Task -> BOOLEAN] /\ cur \in [Task -> Command \cup {NoCommand}]
      /\ status \in [Command -> Status] /\ called \in [Command -> Nat]
      /\ \A t \in Task : phase[t] \in InHandPhases => cur[t] \in Command
      /\ \A t \in Task : phase[t] = "unborn" <=> t > spawned
  BY DEF TypeOK, InHandPhases
<1> USE DEF LiveInv, Following, InHandPhases, ownerVars, taskVars, tableVars, worldVars
<1>2. ASSUME NEW t \in Task, NEW b \in BOOLEAN, Begin(t, b) PROVE LiveInv'
  BY <1>1, <1>2 DEF Begin, Leave, Goto
<1>3. ASSUME NEW t \in Task, NEW b \in BOOLEAN, Loop(t, b) PROVE LiveInv'
  BY <1>1, <1>3 DEF Loop, Stopping, Retry, Goto
<1>4. ASSUME NEW t \in Task, LoopBreaks(t) PROVE LiveInv'
  BY <1>1, <1>4 DEF LoopBreaks, Stopping, Leave, Goto
<1>5. ASSUME NEW t \in Task, NEW b \in BOOLEAN, StartLive(t, b) PROVE LiveInv'
  BY <1>1, <1>5 DEF StartLive, Retry, Goto
<1>6. ASSUME NEW t \in Task, EndOfStream(t) PROVE LiveInv'
  BY <1>1, <1>6 DEF EndOfStream, Retry, Goto
<1>7. ASSUME NEW t \in Task, WakeUp(t) PROVE LiveInv'
  BY <1>1, <1>7 DEF WakeUp, Goto
<1>8. ASSUME NEW t \in Task, Receive(t) PROVE LiveInv'
  BY <1>1, <1>8 DEF Receive, Stopping, Leave, Goto
<1>9. ASSUME NEW t \in Task, ReceiveError(t) PROVE LiveInv'
  BY <1>1, <1>9 DEF ReceiveError
<1>10. ASSUME NEW t \in Task, Cancel(t) PROVE LiveInv'
  BY <1>1, <1>10 DEF Cancel, Aborted, Awaiting, Leave, Goto
<1>11. ASSUME NEW t \in Task, Claim(t) PROVE LiveInv'
  BY <1>1, <1>11 DEF Claim, SetStatus, Goto
<1>12. ASSUME NEW t \in Task, ClaimRejected(t) PROVE LiveInv'
  BY <1>1, <1>12 DEF ClaimRejected, Goto
<1>13. ASSUME NEW t \in Task, ClaimFails(t) PROVE LiveInv'
  BY <1>1, <1>13 DEF ClaimFails, Goto
<1>14. ASSUME NEW t \in Task, ClaimAnswered(t) PROVE LiveInv'
  BY <1>1, <1>14 DEF ClaimAnswered, CallNow, Goto
<1>15. ASSUME NEW t \in Task, Run(t) PROVE LiveInv'
  BY <1>1, <1>15 DEF Run, Goto
<1>16. ASSUME NEW t \in Task, CheckHandle(t) PROVE LiveInv'
  BY <1>1, <1>16 DEF CheckHandle, Handled, Goto
<1>17. ASSUME NEW t \in Task, Ack(t) PROVE LiveInv'
  BY <1>1, <1>17 DEF Ack, SetStatus, Outcome, Handled, Goto
<1>26. ASSUME NEW t \in Task, AckPanics(t) PROVE LiveInv'
  BY <1>1, <1>26 DEF AckPanics, Leave, Goto
<1>18. ASSUME NEW t \in Task, ConnectionLost(t) PROVE LiveInv'
  BY <1>1, <1>18 DEF ConnectionLost
<1>19. ASSUME NEW c \in Command, Put(c) PROVE LiveInv'
  BY <1>1, <1>19 DEF Put
<1>20. ASSUME NEW c \in Command, Remove(c) PROVE LiveInv'
  BY <1>1, <1>20 DEF Remove
<1>21. ASSUME Subscribe PROVE LiveInv'
  <2>1. spawned + 1 \in Task /\ phase[spawned + 1] = "unborn"
    BY <1>21, SubscriptionAssumption DEF Subscribe, TypeOK, Task, SubscriptionAssumption
  <2> QED
    BY <1>1, <1>21, <2>1 DEF Subscribe, Goto
<1>22. ASSUME Unsubscribe PROVE LiveInv'
  BY <1>1, <1>22 DEF Unsubscribe
<1>23. ASSUME Close PROVE LiveInv'
  BY <1>1, <1>23 DEF Close
<1>24. ASSUME Forget PROVE LiveInv'
  BY <1>1, <1>24 DEF Forget
<1>25. ASSUME UNCHANGED vars PROVE LiveInv'
  BY <1>1, <1>25 DEF vars
<1> QED
  BY <1>2, <1>3, <1>4, <1>5, <1>6, <1>7, <1>8, <1>9, <1>10, <1>11, <1>12, <1>13, <1>14,
     <1>15, <1>16, <1>17, <1>18, <1>19, <1>20, <1>21, <1>22, <1>23, <1>24, <1>25, <1>26
  DEF Next, Producers, Owner, Streaming, Handling

LEMMA NextNothingAbandoned ==
  TypeOK /\ LiveInv /\ NothingAbandoned /\ [Next]_vars => NothingAbandoned'
<1> SUFFICES ASSUME TypeOK, LiveInv, NothingAbandoned, [Next]_vars PROVE NothingAbandoned'
  OBVIOUS
<1>1. /\ phase \in [Task -> Phases] /\ live \in [Task -> BOOLEAN] /\ ok \in [Task -> BOOLEAN]
      /\ stop \in [Task -> BOOLEAN] /\ cur \in [Task -> Command \cup {NoCommand}]
      /\ status \in [Command -> Status] /\ called \in [Command -> Nat]
      /\ \A t \in Task : phase[t] \in InHandPhases => cur[t] \in Command
      /\ \A t \in Task : phase[t] = "unborn" <=> t > spawned
  BY DEF TypeOK, InHandPhases
<1> USE DEF NothingAbandoned, InHand, LiveInv, Following, InHandPhases,
        ownerVars, taskVars, tableVars, worldVars
<1>2. ASSUME NEW t \in Task, NEW b \in BOOLEAN, Begin(t, b) PROVE NothingAbandoned'
  BY <1>1, <1>2 DEF Begin, Leave, Goto
<1>3. ASSUME NEW t \in Task, NEW b \in BOOLEAN, Loop(t, b) PROVE NothingAbandoned'
  BY <1>1, <1>3 DEF Loop, Stopping, Retry, Goto
<1>4. ASSUME NEW t \in Task, LoopBreaks(t) PROVE NothingAbandoned'
  BY <1>1, <1>4 DEF LoopBreaks, Stopping, Leave, Goto
<1>5. ASSUME NEW t \in Task, NEW b \in BOOLEAN, StartLive(t, b) PROVE NothingAbandoned'
  BY <1>1, <1>5 DEF StartLive, Retry, Goto
<1>6. ASSUME NEW t \in Task, EndOfStream(t) PROVE NothingAbandoned'
  BY <1>1, <1>6 DEF EndOfStream, Retry, Goto
<1>7. ASSUME NEW t \in Task, WakeUp(t) PROVE NothingAbandoned'
  BY <1>1, <1>7 DEF WakeUp, Goto
<1>8. ASSUME NEW t \in Task, Receive(t) PROVE NothingAbandoned'
  BY <1>1, <1>8 DEF Receive, Stopping, Leave, Goto
<1>9. ASSUME NEW t \in Task, ReceiveError(t) PROVE NothingAbandoned'
  BY <1>1, <1>9 DEF ReceiveError
<1>10. ASSUME NEW t \in Task, Cancel(t) PROVE NothingAbandoned'
  BY <1>1, <1>10 DEF Cancel, Aborted, Awaiting, Leave, Goto
<1>11. ASSUME NEW t \in Task, Claim(t) PROVE NothingAbandoned'
  BY <1>1, <1>11 DEF Claim, SetStatus, Goto
<1>12. ASSUME NEW t \in Task, ClaimRejected(t) PROVE NothingAbandoned'
  BY <1>1, <1>12 DEF ClaimRejected, Goto
<1>13. ASSUME NEW t \in Task, ClaimFails(t) PROVE NothingAbandoned'
  BY <1>1, <1>13 DEF ClaimFails, Goto
<1>14. ASSUME NEW t \in Task, ClaimAnswered(t) PROVE NothingAbandoned'
  BY <1>1, <1>14 DEF ClaimAnswered, CallNow, Goto
<1>15. ASSUME NEW t \in Task, Run(t) PROVE NothingAbandoned'
  BY <1>1, <1>15 DEF Run, Goto
<1>16. ASSUME NEW t \in Task, CheckHandle(t) PROVE NothingAbandoned'
  BY <1>1, <1>16 DEF CheckHandle, Handled, Goto
<1>17. ASSUME NEW t \in Task, Ack(t) PROVE NothingAbandoned'
  BY <1>1, <1>17 DEF Ack, SetStatus, Outcome, Handled, Goto
<1>26. ASSUME NEW t \in Task, AckPanics(t) PROVE NothingAbandoned'
  BY <1>1, <1>26 DEF AckPanics, Leave, Goto
<1>18. ASSUME NEW t \in Task, ConnectionLost(t) PROVE NothingAbandoned'
  BY <1>1, <1>18 DEF ConnectionLost
<1>19. ASSUME NEW c \in Command, Put(c) PROVE NothingAbandoned'
  BY <1>1, <1>19 DEF Put
<1>20. ASSUME NEW c \in Command, Remove(c) PROVE NothingAbandoned'
  BY <1>1, <1>20 DEF Remove
<1>21. ASSUME Subscribe PROVE NothingAbandoned'
  <2>1. spawned + 1 \in Task /\ phase[spawned + 1] = "unborn"
    BY <1>21, SubscriptionAssumption DEF Subscribe, TypeOK, Task, SubscriptionAssumption
  <2> QED
    BY <1>1, <1>21, <2>1 DEF Subscribe, Goto
<1>22. ASSUME Unsubscribe PROVE NothingAbandoned'
  BY <1>1, <1>22 DEF Unsubscribe
<1>23. ASSUME Close PROVE NothingAbandoned'
  BY <1>1, <1>23 DEF Close
<1>24. ASSUME Forget PROVE NothingAbandoned'
  BY <1>1, <1>24 DEF Forget
<1>25. ASSUME UNCHANGED vars PROVE NothingAbandoned'
  BY <1>1, <1>25 DEF vars
<1> QED
  BY <1>2, <1>3, <1>4, <1>5, <1>6, <1>7, <1>8, <1>9, <1>10, <1>11, <1>12, <1>13, <1>14,
     <1>15, <1>16, <1>17, <1>18, <1>19, <1>20, <1>21, <1>22, <1>23, <1>24, <1>25, <1>26
  DEF Next, Producers, Owner, Streaming, Handling

\* A claim that reached the database is followed by the command, as long as the
\* database answers, the connection holds and nobody unsubscribes.
THEOREM ClaimedIsRun == Spec => []NothingAbandoned
<1>1. Init => LiveInv /\ NothingAbandoned
  BY DEF Init, LiveInv, Following, InHandPhases, NothingAbandoned
<1> QED
  BY <1>1, TypeCorrect, NextLiveInv, NextNothingAbandoned, PTL DEF Spec
-----------------------------------------------------------------------------
(* What is written back.                                                     *)

\* A task reports success of a command that it has just run.
OkInv ==
  \A t \in Task : phase[t] \in {"ack", "update"} /\ ok[t] =>
    called[cur[t]] > 0 /\ cur[t] \notin Refused

DoneInv == OkInv /\ DoneWasRun

LEMMA NextDoneInv == TypeOK /\ DoneInv /\ [Next]_vars => DoneInv'
<1> SUFFICES ASSUME TypeOK, DoneInv, [Next]_vars PROVE DoneInv'
  OBVIOUS
<1>1. /\ phase \in [Task -> Phases] /\ live \in [Task -> BOOLEAN] /\ ok \in [Task -> BOOLEAN]
      /\ stop \in [Task -> BOOLEAN] /\ cur \in [Task -> Command \cup {NoCommand}]
      /\ status \in [Command -> Status] /\ called \in [Command -> Nat]
      /\ \A t \in Task : phase[t] \in InHandPhases => cur[t] \in Command
      /\ \A t \in Task : phase[t] = "unborn" <=> t > spawned
  BY DEF TypeOK, InHandPhases
<1> USE DEF DoneInv, OkInv, DoneWasRun, InHandPhases, ownerVars, taskVars, tableVars, worldVars
<1>2. ASSUME NEW t \in Task, NEW b \in BOOLEAN, Begin(t, b) PROVE DoneInv'
  BY <1>1, <1>2 DEF Begin, Leave, Goto
<1>3. ASSUME NEW t \in Task, NEW b \in BOOLEAN, Loop(t, b) PROVE DoneInv'
  BY <1>1, <1>3 DEF Loop, Stopping, Retry, Goto
<1>4. ASSUME NEW t \in Task, LoopBreaks(t) PROVE DoneInv'
  BY <1>1, <1>4 DEF LoopBreaks, Stopping, Leave, Goto
<1>5. ASSUME NEW t \in Task, NEW b \in BOOLEAN, StartLive(t, b) PROVE DoneInv'
  BY <1>1, <1>5 DEF StartLive, Retry, Goto
<1>6. ASSUME NEW t \in Task, EndOfStream(t) PROVE DoneInv'
  BY <1>1, <1>6 DEF EndOfStream, Retry, Goto
<1>7. ASSUME NEW t \in Task, WakeUp(t) PROVE DoneInv'
  BY <1>1, <1>7 DEF WakeUp, Goto
<1>8. ASSUME NEW t \in Task, Receive(t) PROVE DoneInv'
  BY <1>1, <1>8 DEF Receive, Stopping, Leave, Goto
<1>9. ASSUME NEW t \in Task, ReceiveError(t) PROVE DoneInv'
  BY <1>1, <1>9 DEF ReceiveError
<1>10. ASSUME NEW t \in Task, Cancel(t) PROVE DoneInv'
  BY <1>1, <1>10 DEF Cancel, Aborted, Awaiting, Leave, Goto
<1>11. ASSUME NEW t \in Task, Claim(t) PROVE DoneInv'
  BY <1>1, <1>11 DEF Claim, SetStatus, Goto
<1>12. ASSUME NEW t \in Task, ClaimRejected(t) PROVE DoneInv'
  BY <1>1, <1>12 DEF ClaimRejected, Goto
<1>13. ASSUME NEW t \in Task, ClaimFails(t) PROVE DoneInv'
  BY <1>1, <1>13 DEF ClaimFails, Goto
<1>14. ASSUME NEW t \in Task, ClaimAnswered(t) PROVE DoneInv'
  BY <1>1, <1>14 DEF ClaimAnswered, CallNow, Goto
<1>15. ASSUME NEW t \in Task, Run(t) PROVE DoneInv'
  BY <1>1, <1>15 DEF Run, Goto
<1>16. ASSUME NEW t \in Task, CheckHandle(t) PROVE DoneInv'
  BY <1>1, <1>16 DEF CheckHandle, Handled, Goto
<1>17. ASSUME NEW t \in Task, Ack(t) PROVE DoneInv'
  BY <1>1, <1>17 DEF Ack, SetStatus, Outcome, Handled, Goto
<1>26. ASSUME NEW t \in Task, AckPanics(t) PROVE DoneInv'
  BY <1>1, <1>26 DEF AckPanics, Leave, Goto
<1>18. ASSUME NEW t \in Task, ConnectionLost(t) PROVE DoneInv'
  BY <1>1, <1>18 DEF ConnectionLost
<1>19. ASSUME NEW c \in Command, Put(c) PROVE DoneInv'
  BY <1>1, <1>19 DEF Put
<1>20. ASSUME NEW c \in Command, Remove(c) PROVE DoneInv'
  BY <1>1, <1>20 DEF Remove
<1>21. ASSUME Subscribe PROVE DoneInv'
  <2>1. spawned + 1 \in Task /\ phase[spawned + 1] = "unborn"
    BY <1>21, SubscriptionAssumption DEF Subscribe, TypeOK, Task, SubscriptionAssumption
  <2> QED
    BY <1>1, <1>21, <2>1 DEF Subscribe, Goto
<1>22. ASSUME Unsubscribe PROVE DoneInv'
  BY <1>1, <1>22 DEF Unsubscribe
<1>23. ASSUME Close PROVE DoneInv'
  BY <1>1, <1>23 DEF Close
<1>24. ASSUME Forget PROVE DoneInv'
  BY <1>1, <1>24 DEF Forget
<1>25. ASSUME UNCHANGED vars PROVE DoneInv'
  BY <1>1, <1>25 DEF vars
<1> QED
  BY <1>2, <1>3, <1>4, <1>5, <1>6, <1>7, <1>8, <1>9, <1>10, <1>11, <1>12, <1>13, <1>14,
     <1>15, <1>16, <1>17, <1>18, <1>19, <1>20, <1>21, <1>22, <1>23, <1>24, <1>25, <1>26
  DEF Next, Producers, Owner, Streaming, Handling

\* on_command_cb writes done for no command that it refused or did not run, however
\* many tasks are left running by renewed subscriptions.
THEOREM DoneMeansRun == Spec => []DoneWasRun
<1>1. Init => DoneInv
  BY DEF Init, DoneInv, OkInv, DoneWasRun
<1> QED
  BY <1>1, TypeCorrect, NextDoneInv, PTL DEF Spec, DoneInv
-----------------------------------------------------------------------------
(* Every call of the callback is paid for by an offer.                       *)

\* The notifications that ask for a command.
Asks(c) == { n \in Notification : n.action = "write" /\ n.cmd = c /\ IsNew(n.status) }

\* Where a task holds a command that it has not run yet: 0 is the command in hand, the
\* others are places of its stream.
Holds(t, c) ==
  Places(stream[t], Asks(c)) \cup
  (IF phase[t] \in {"claim", "answer", "run"} /\ cur[t] = c THEN {0} ELSE {})

Open(c) == { p \in Task \X Nat : p[2] \in Holds(p[1], c) }

OfferInv ==
  \A c \in Command :
    IsFiniteSet(Open(c)) /\ called[c] + Cardinality(Open(c)) <= offered[c]

\* Writes other than a producer's, and deletions, ask for nothing.
LEMMA SilentNotify ==
  ASSUME TypeOK, NEW a \in {"write", "delete"}, NEW d \in Command, NEW s \in Status,
         Notify(a, d, s), a = "delete" \/ ~IsNew(s),
         NEW t \in Task, NEW c \in Command
  PROVE  Places(stream'[t], Asks(c)) = Places(stream[t], Asks(c))
<1> DEFINE n == [action |-> a, cmd |-> d, status |-> s]
<1>1. n \in Notification /\ n \notin Asks(c)
  BY DEF Notification, Asks
<1>2. stream[t] \in Seq(Notification)
  BY DEF TypeOK
<1>3. stream'[t] = stream[t] \/ stream'[t] = Append(stream[t], n)
  BY DEF Notify
<1> HIDE DEF n
<1>4. Places(Append(stream[t], n), Asks(c)) = Places(stream[t], Asks(c))
  <2>1. Places(Append(stream[t], n), Asks(c))
          = Places(stream[t], Asks(c)) \cup (IF n \in Asks(c) THEN {Len(stream[t]) + 1} ELSE {})
    BY <1>1, <1>2, PlacesOfAppend
  <2> QED
    BY <1>1, <2>1
<1> QED
  BY <1>3, <1>4

LEMMA SilentSetStatus ==
  ASSUME TypeOK, NEW d \in Command, NEW s \in Status, SetStatus(d, s), ~IsNew(s),
         NEW t \in Task, NEW c \in Command
  PROVE  Places(stream'[t], Asks(c)) = Places(stream[t], Asks(c))
BY SilentNotify DEF SetStatus

\* A step after which no task holds more, and without a call, keeps the balance.
LEMMA NoMoreOpen ==
  ASSUME OfferInv, NEW c \in Command, called'[c] = called[c], offered'[c] = offered[c],
         \A t \in Task : Holds(t, c)' \subseteq Holds(t, c), called[c] \in Nat, offered[c] \in Nat
  PROVE  IsFiniteSet(Open(c)') /\ called'[c] + Cardinality(Open(c)') <= offered'[c]
<1>1. Open(c)' \subseteq Open(c)
  BY DEF Open
<1>2. IsFiniteSet(Open(c)) /\ called[c] + Cardinality(Open(c)) <= offered[c]
  BY DEF OfferInv
<1>3. IsFiniteSet(Open(c)') /\ Cardinality(Open(c)') <= Cardinality(Open(c))
  BY <1>1, <1>2, FS_Subset
<1>4. Cardinality(Open(c)') \in Nat /\ Cardinality(Open(c)) \in Nat
  BY <1>2, <1>3, FS_CardinalityType
<1> QED
  BY <1>2, <1>3, <1>4

\* Nor does a notification taken from a stream, whether it is passed over or put in hand:
\* every place of the task moves one to the front.
LEMMA PoppedOpen ==
  ASSUME TypeOK, TypeOK', OfferInv, NEW c \in Command, called'[c] = called[c], offered'[c] = offered[c],
         NEW t \in Task, \A i \in Holds(t, c)' : i + 1 \in Holds(t, c),
         \A u \in Task \ {t} : Holds(u, c)' \subseteq Holds(u, c)
  PROVE  IsFiniteSet(Open(c)') /\ called'[c] + Cardinality(Open(c)') <= offered'[c]
<1> DEFINE S == Open(c)'
           T == Open(c)
           move == [p \in S |-> IF p[1] = t THEN <<t, p[2] + 1>> ELSE p]
<1>1. \A p \in S : p \in Task \X Nat /\ p[2] \in Holds(p[1], c)'
  BY DEF Open
<1>2. ASSUME NEW p \in S PROVE move[p] \in T
  <2>1. CASE p[1] = t
    <3>1. p[2] \in Nat /\ p[2] + 1 \in Nat /\ p[2] + 1 \in Holds(t, c)
      BY <1>1, <1>2, <2>1
    <3>2. <<t, p[2] + 1>> \in T
      BY <3>1 DEF Open
    <3> QED
      BY <1>2, <2>1, <3>2
  <2>2. CASE p[1] # t
    BY <1>1, <1>2, <2>2 DEF Open
  <2> QED
    BY <2>1, <2>2
<1>3. ASSUME NEW p \in S, NEW q \in S, move[p] = move[q] PROVE p = q
  <2>1. /\ p = <<p[1], p[2]>> /\ q = <<q[1], q[2]>>
        /\ p[2] \in Nat /\ q[2] \in Nat
    BY <1>1
  <2>2. /\ move[p] = IF p[1] = t THEN <<t, p[2] + 1>> ELSE p
        /\ move[q] = IF q[1] = t THEN <<t, q[2] + 1>> ELSE q
    BY <1>3
  <2>3. p[1] = q[1]
    BY <1>3, <2>1, <2>2
  <2>4. p[2] = q[2]
    BY <1>3, <2>1, <2>2, <2>3
  <2> QED
    BY <2>1, <2>3, <2>4
<1>4. move \in [S -> T]
  BY <1>2
<1>5. IsFiniteSet(T) /\ called[c] + Cardinality(T) <= offered[c]
  BY DEF OfferInv
<1> HIDE DEF S, T, move
<1>6. IsFiniteSet(S) /\ Cardinality(S) <= Cardinality(T)
  BY <1>3, <1>4, <1>5, NoMoreThan
<1>7. Cardinality(S) \in Nat /\ Cardinality(T) \in Nat /\ called[c] \in Nat /\ offered[c] \in Nat
  BY <1>5, <1>6, FS_CardinalityType DEF TypeOK
<1>8. IsFiniteSet(S) /\ called'[c] + Cardinality(S) <= offered'[c]
  BY <1>5, <1>6, <1>7
<1> QED
  BY <1>8 DEF S

\* An offer goes to every LIVE query that is running: as many are added as it counts.
LEMMA OfferedOpen ==
  ASSUME TypeOK, TypeOK', OfferInv, NEW c \in Command, Put(c)
  PROVE  IsFiniteSet(Open(c)') /\ called'[c] + Cardinality(Open(c)') <= offered'[c]
<1> DEFINE Live == { t \in Task : live[t] }
           New == { p \in Task \X Nat : p[1] \in Live /\ p[2] = Len(stream[p[1]]) + 1 }
           n == [action |-> "write", cmd |-> c, status |-> status'[c]]
           first == [p \in New |-> p[1]]
<1>1. /\ n \in Notification
      /\ \A t \in Task : stream[t] \in Seq(Notification)
      /\ \A t \in Task : stream'[t] = IF t \in Live THEN Append(stream[t], n) ELSE stream[t]
      /\ UNCHANGED <<phase, cur, called>>
  BY DEF Put, Notify, Notification, TypeOK, taskVars
<1>2. offered'[c] = offered[c] + Cardinality(Live)
  BY DEF Put, TypeOK
<1>3. IsFiniteSet(Live) /\ Cardinality(Live) \in Nat
  <2>1. IsFiniteSet(Task)
    BY FS_Interval, SubscriptionAssumption DEF Task, SubscriptionAssumption
  <2>2. IsFiniteSet(Live)
    BY <2>1, FS_Subset
  <2> QED
    BY <2>2, FS_CardinalityType
<1>4. IsFiniteSet(New) /\ Cardinality(New) <= Cardinality(Live)
  <2>1. first \in [New -> Live]
    OBVIOUS
  <2>2. \A p, q \in New : first[p] = first[q] => p = q
    <3>1. \A p \in New : p = <<first[p], Len(stream[first[p]]) + 1>>
      OBVIOUS
    <3> HIDE DEF first, New
    <3> QED
      BY <3>1
  <2> HIDE DEF first, New, Live
  <2> QED
    BY <1>3, <2>1, <2>2, NoMoreThan
<1>5. ASSUME NEW p \in Open(c)' PROVE p \in Open(c) \/ p \in New
  <2>1. p \in Task \X Nat /\ p[1] \in Task /\ p[2] \in Holds(p[1], c)'
    BY <1>5 DEF Open
  <2>2. CASE p[1] \in Live
    <3> HIDE DEF n
    <3>1. Places(stream'[p[1]], Asks(c)) \subseteq
            Places(stream[p[1]], Asks(c)) \cup {Len(stream[p[1]]) + 1}
      <4>1. stream'[p[1]] = Append(stream[p[1]], n) /\ stream[p[1]] \in Seq(Notification)
        BY <1>1, <2>1, <2>2
      <4>2. Places(Append(stream[p[1]], n), Asks(c)) = Places(stream[p[1]], Asks(c)) \cup
              (IF n \in Asks(c) THEN {Len(stream[p[1]]) + 1} ELSE {})
        BY <1>1, <4>1, PlacesOfAppend
      <4> QED
        BY <4>1, <4>2
    <3>2. p[2] \in Holds(p[1], c) \/ p[2] = Len(stream[p[1]]) + 1
      BY <1>1, <2>1, <3>1 DEF Holds
    <3> QED
      BY <2>1, <2>2, <3>2 DEF Open
  <2>3. CASE p[1] \notin Live
    <3>1. p[2] \in Holds(p[1], c)
      BY <1>1, <2>1, <2>3 DEF Holds
    <3> QED
      BY <2>1, <3>1 DEF Open
  <2> QED
    BY <2>2, <2>3
<1>6. IsFiniteSet(Open(c)) /\ called[c] + Cardinality(Open(c)) <= offered[c]
  BY DEF OfferInv
<1> HIDE DEF Live, New, n, first
<1>7. /\ IsFiniteSet(Open(c) \cup New)
      /\ Cardinality(Open(c) \cup New) <= Cardinality(Open(c)) + Cardinality(New)
  <2>1. /\ Cardinality(Open(c) \cup New) =
             Cardinality(Open(c)) + Cardinality(New) - Cardinality(Open(c) \cap New)
        /\ IsFiniteSet(Open(c) \cup New)
    BY <1>4, <1>6, FS_Union
  <2>2. IsFiniteSet(Open(c) \cap New)
    BY <1>4, FS_Intersection
  <2>3. /\ Cardinality(Open(c) \cap New) \in Nat /\ Cardinality(Open(c)) \in Nat
        /\ Cardinality(New) \in Nat
    BY <1>4, <1>6, <2>2, FS_CardinalityType
  <2> QED
    BY <2>1, <2>3
<1>8. IsFiniteSet(Open(c)') /\ Cardinality(Open(c)') <= Cardinality(Open(c) \cup New)
  <2>1. Open(c)' \subseteq Open(c) \cup New
    BY <1>5
  <2> QED
    BY <1>7, <2>1, FS_Subset
<1>9. /\ Cardinality(Open(c)') \in Nat /\ Cardinality(Open(c) \cup New) \in Nat
      /\ Cardinality(Open(c)) \in Nat /\ Cardinality(New) \in Nat
      /\ called[c] \in Nat /\ offered[c] \in Nat
  BY <1>4, <1>6, <1>7, <1>8, FS_CardinalityType DEF TypeOK
<1> QED
  BY <1>1, <1>2, <1>3, <1>4, <1>6, <1>7, <1>8, <1>9

\* A call uses up what was in hand.
LEMMA CalledOpen ==
  ASSUME TypeOK, OfferInv, NEW t \in Task, Run(t), NEW c \in Command, cur[t] = c
  PROVE  IsFiniteSet(Open(c)') /\ called'[c] + Cardinality(Open(c)') <= offered'[c]
<1>1. /\ phase[t] = "run" /\ phase' = [phase EXCEPT ![t] = "ack"]
      /\ called'[c] = called[c] + 1 /\ UNCHANGED <<stream, cur, offered>>
      /\ called[c] \in Nat /\ offered[c] \in Nat
  BY DEF Run, Goto, TypeOK, tableVars
<1>2. <<t, 0>> \in Open(c)
  BY <1>1 DEF Open, Holds
<1>3. Open(c)' \subseteq Open(c) \ {<<t, 0>>}
  <2>1. \A u \in Task : Holds(u, c)' \subseteq Holds(u, c)
    BY <1>1 DEF Holds, TypeOK
  <2>2. 0 \notin Holds(t, c)'
    BY <1>1, PlacesFinite DEF Holds, TypeOK
  <2> QED
    BY <2>1, <2>2 DEF Open
<1>4. IsFiniteSet(Open(c)) /\ called[c] + Cardinality(Open(c)) <= offered[c]
  BY DEF OfferInv
<1>5. /\ IsFiniteSet(Open(c) \ {<<t, 0>>})
      /\ Cardinality(Open(c) \ {<<t, 0>>}) = Cardinality(Open(c)) - 1
  BY <1>2, <1>4, FS_RemoveElement
<1>6. IsFiniteSet(Open(c)') /\ Cardinality(Open(c)') <= Cardinality(Open(c) \ {<<t, 0>>})
  BY <1>3, <1>5, FS_Subset
<1>7. Cardinality(Open(c)') \in Nat /\ Cardinality(Open(c)) \in Nat
  BY <1>4, <1>6, FS_CardinalityType
<1> QED
  BY <1>1, <1>4, <1>5, <1>6, <1>7

\* No other step puts a command into anybody's hands or calls the callback.
Quiet ==
  /\ UNCHANGED <<called, offered>>
  /\ \A u \in Task, c \in Command : Holds(u, c)' \subseteq Holds(u, c)

LEMMA QuietTask ==
  ASSUME TypeOK, NEW t \in Task,
         \/ (\E b \in BOOLEAN : Begin(t, b) \/ Loop(t, b) \/ StartLive(t, b))
         \/ LoopBreaks(t) \/ EndOfStream(t) \/ WakeUp(t) \/ Cancel(t) \/ ConnectionLost(t)
         \/ AckPanics(t)
  PROVE  Quiet
<1> USE DEF Quiet, Holds, ownerVars, taskVars, tableVars, worldVars, Goto
<1>t. /\ phase \in [Task -> Phases] /\ cur \in [Task -> Command \cup {NoCommand}]
      /\ stream \in [Task -> Seq(Notification)]
  BY DEF TypeOK
<1>p. \A E : Places(<<>>, E) = {}
  BY DEF Places
<1>1. ASSUME Leave(t, "ended") \/ Leave(t, "panicked"), UNCHANGED <<called, offered>> PROVE Quiet
  BY <1>t, <1>p, <1>1 DEF Leave
<1>2. ASSUME NEW b \in BOOLEAN, Begin(t, b) PROVE Quiet
  BY <1>t, <1>1, <1>2 DEF Begin
<1>3. ASSUME NEW b \in BOOLEAN, Loop(t, b) PROVE Quiet
  BY <1>t, <1>3 DEF Loop, Retry
<1>4. ASSUME NEW b \in BOOLEAN, StartLive(t, b) PROVE Quiet
  BY <1>t, <1>4 DEF StartLive, Retry
<1>5. CASE LoopBreaks(t) \/ Cancel(t) \/ AckPanics(t)
  BY <1>1, <1>5 DEF LoopBreaks, Cancel, AckPanics
<1>6. CASE EndOfStream(t) \/ WakeUp(t)
  BY <1>t, <1>6 DEF EndOfStream, WakeUp, Retry
<1>7. ASSUME ConnectionLost(t) PROVE Quiet
  <2>1. PICK n \in 0 .. Len(stream[t]) : stream' = [stream EXCEPT ![t] = SubSeq(@, 1, n)]
    BY <1>7 DEF ConnectionLost
  <2>2. \A E : Places(SubSeq(stream[t], 1, n), E) \subseteq Places(stream[t], E)
    <3>1. stream[t] \in Seq(Notification)
      BY <1>t
    <3>2. /\ Len(SubSeq(stream[t], 1, n)) = n
          /\ \A i \in 1 .. n : SubSeq(stream[t], 1, n)[i] = stream[t][i] /\ i \in 1 .. Len(stream[t])
      BY <2>1, <3>1
    <3> QED
      BY <3>2 DEF Places
  <2>3. \A u \in Task : \A E : Places(stream'[u], E) \subseteq Places(stream[u], E)
    BY <1>t, <2>1, <2>2
  <2> QED
    BY <1>7, <2>3 DEF ConnectionLost
<1> QED
  BY <1>2, <1>3, <1>4, <1>5, <1>6, <1>7

LEMMA QuietHandling ==
  ASSUME TypeOK, NEW t \in Task,
         Claim(t) \/ ClaimRejected(t) \/ ClaimFails(t) \/ ClaimAnswered(t) \/ CheckHandle(t) \/ Ack(t)
  PROVE  Quiet
<1> USE DEF Quiet, Holds, ownerVars, taskVars, tableVars, worldVars, Goto
<1>t. /\ phase \in [Task -> Phases] /\ cur \in [Task -> Command \cup {NoCommand}]
      /\ (phase[t] \in InHandPhases => cur[t] \in Command)
  BY DEF TypeOK, InHandPhases
<1>1. ASSUME Claim(t) PROVE Quiet
  <2>1. \A u \in Task, c \in Command : Places(stream'[u], Asks(c)) = Places(stream[u], Asks(c))
    BY <1>t, <1>1, SilentSetStatus DEF Claim, InHandPhases, Status, IsNew
  <2> QED
    BY <1>t, <1>1, <2>1 DEF Claim
<1>2. CASE ClaimRejected(t) \/ ClaimAnswered(t)
  BY <1>t, <1>2 DEF ClaimRejected, ClaimAnswered, CallNow
<1>3. CASE ClaimFails(t)
  BY <1>t, <1>3 DEF ClaimFails
<1>4. CASE CheckHandle(t)
  BY <1>t, <1>4 DEF CheckHandle, Handled
<1>5. ASSUME Ack(t) PROVE Quiet
  <2>1. Outcome(t) \in Status /\ ~IsNew(Outcome(t)) /\ cur[t] \in Command
    BY <1>t, <1>5 DEF Ack, Outcome, Status, IsNew, InHandPhases
  <2>2. \A u \in Task, c \in Command : Places(stream'[u], Asks(c)) = Places(stream[u], Asks(c))
    BY <1>5, <2>1, SilentSetStatus DEF Ack
  <2> QED
    BY <1>t, <1>5, <2>2 DEF Ack, Handled
<1> QED
  BY <1>1, <1>2, <1>3, <1>4, <1>5

LEMMA QuietOthers ==
  ASSUME TypeOK, Owner \/ UNCHANGED vars \/ \E d \in Command : Remove(d)
  PROVE  Quiet
<1> USE DEF Quiet, Holds, ownerVars, taskVars, tableVars, worldVars, Goto
<1>t. phase \in [Task -> Phases]
  BY DEF TypeOK
<1>1. ASSUME NEW d \in Command, Remove(d) PROVE Quiet
  <2>1. \A u \in Task, c \in Command : Places(stream'[u], Asks(c)) = Places(stream[u], Asks(c))
    BY <1>1, SilentNotify DEF Remove, TypeOK
  <2> QED
    BY <1>1, <2>1 DEF Remove
<1>2. CASE Subscribe
  BY <1>t, <1>2 DEF Subscribe
<1>3. CASE Unsubscribe \/ Close \/ Forget \/ UNCHANGED vars
  BY <1>3 DEF Unsubscribe, Close, Forget, vars
<1> QED
  BY <1>1, <1>2, <1>3 DEF Owner

\* Taking a notification: at most the first place is put in hand.
LEMMA ReceivedPlaces ==
  ASSUME TypeOK, NEW t \in Task, Receive(t) \/ ReceiveError(t), NEW c \in Command
  PROVE  \/ \A i \in Holds(t, c)' : i + 1 \in Holds(t, c)
         \/ Holds(t, c)' \subseteq Holds(t, c)
<1> USE DEF Goto, taskVars
<1>t. /\ phase[t] = "next" /\ stream[t] # <<>> /\ stream[t] \in Seq(Notification)
      /\ phase \in [Task -> Phases] /\ cur \in [Task -> Command \cup {NoCommand}]
      /\ stream \in [Task -> Seq(Notification)]
  BY DEF Receive, ReceiveError, TypeOK
<1>1. CASE Receive(t) /\ Stopping(t)
  <2>1. stream'[t] = <<>> /\ phase'[t] = "ended"
    BY <1>t, <1>1 DEF Receive, Leave
  <2> QED
    BY <2>1 DEF Holds, Places
<1>2. CASE stream' = [stream EXCEPT ![t] = Tail(stream[t])]
  <2>1. stream'[t] = Tail(stream[t])
    BY <1>t, <1>2
  <2>2. /\ \A i \in Places(stream'[t], Asks(c)) : i + 1 \in Places(stream[t], Asks(c))
        /\ Head(stream[t]) \in Asks(c) => 1 \in Places(stream[t], Asks(c))
    BY <1>t, <2>1, PlacesOfTail
  <2>3. ASSUME phase'[t] \in {"claim", "answer", "run"} /\ cur'[t] = c
        PROVE  0 + 1 \in Places(stream[t], Asks(c))
    <3>1. /\ phase' = [phase EXCEPT ![t] = "claim"] /\ Wanted(Head(stream[t]))
          /\ cur' = [cur EXCEPT ![t] = Head(stream[t]).cmd]
      BY <1>t, <1>2, <2>3 DEF Receive, ReceiveError, Leave
    <3>2. Head(stream[t]) \in Notification /\ Head(stream[t]).cmd = c
      BY <1>t, <2>3, <3>1
    <3>3. Head(stream[t]) \in Asks(c)
      BY <3>1, <3>2 DEF Asks, Wanted
    <3> QED
      BY <2>2, <3>3
  <2>4. \A i \in Holds(t, c)' : i + 1 \in Places(stream[t], Asks(c))
    BY <2>2, <2>3 DEF Holds
  <2> QED
    BY <2>4 DEF Holds
<1> QED
  BY <1>1, <1>2 DEF Receive, ReceiveError

LEMMA NextOfferInv == TypeOK /\ TypeOK' /\ OfferInv /\ [Next]_vars => OfferInv'
<1> SUFFICES ASSUME TypeOK, TypeOK', OfferInv, [Next]_vars, NEW c \in Command
             PROVE  IsFiniteSet(Open(c)') /\ called'[c] + Cardinality(Open(c)') <= offered'[c]
  BY DEF OfferInv
<1> DEFINE Balanced == IsFiniteSet(Open(c)') /\ called'[c] + Cardinality(Open(c)') <= offered'[c]
<1>0. called[c] \in Nat /\ offered[c] \in Nat
  BY DEF TypeOK
<1>1. CASE Quiet
  BY <1>0, <1>1, NoMoreOpen DEF Quiet
<1>2. ASSUME NEW d \in Command, Put(d) PROVE Balanced
  <2>1. CASE d = c
    BY <1>2, <2>1, OfferedOpen
  <2>2. CASE d # c
    <3>1. /\ called'[c] = called[c] /\ offered'[c] = offered[c] /\ UNCHANGED <<phase, cur>>
          /\ status'[d] \in Status /\ Notify("write", d, status'[d])
      BY <1>2, <2>2 DEF Put, TypeOK, taskVars
    <3>2. \A u \in Task : Places(stream'[u], Asks(c)) = Places(stream[u], Asks(c))
      <4> DEFINE n == [action |-> "write", cmd |-> d, status |-> status'[d]]
      <4>1. n \in Notification /\ n \notin Asks(c)
        BY <2>2, <3>1 DEF Notification, Asks
      <4>2. \A u \in Task : /\ stream[u] \in Seq(Notification)
                            /\ stream'[u] = stream[u] \/ stream'[u] = Append(stream[u], n)
        BY <3>1 DEF Notify, TypeOK
      <4> HIDE DEF n
      <4>3. ASSUME NEW u \in Task
            PROVE  Places(Append(stream[u], n), Asks(c)) = Places(stream[u], Asks(c))
        <5>1. Places(Append(stream[u], n), Asks(c))
                = Places(stream[u], Asks(c)) \cup (IF n \in Asks(c) THEN {Len(stream[u]) + 1} ELSE {})
          BY <4>1, <4>2, PlacesOfAppend
        <5> QED
          BY <4>1, <5>1
      <4> QED
        BY <4>2, <4>3
    <3>3. \A u \in Task : Holds(u, c)' \subseteq Holds(u, c)
      BY <3>1, <3>2 DEF Holds
    <3> QED
      BY <1>0, <3>1, <3>3, NoMoreOpen
  <2> QED
    BY <2>1, <2>2
<1>3. ASSUME NEW t \in Task, Receive(t) \/ ReceiveError(t) PROVE Balanced
  <2>1. called' = called /\ offered' = offered
    BY <1>3 DEF Receive, ReceiveError
  <2>2. \A u \in Task \ {t} : Holds(u, c)' \subseteq Holds(u, c)
    BY <1>3 DEF Receive, ReceiveError, Leave, Goto, Holds, TypeOK, taskVars
  <2>3. CASE \A i \in Holds(t, c)' : i + 1 \in Holds(t, c)
    BY <2>1, <2>2, <2>3, PoppedOpen
  <2>4. CASE Holds(t, c)' \subseteq Holds(t, c)
    BY <1>0, <2>1, <2>2, <2>4, NoMoreOpen
  <2> QED
    BY <1>3, <2>3, <2>4, ReceivedPlaces
<1>4. ASSUME NEW t \in Task, Run(t) PROVE Balanced
  <2>1. CASE cur[t] = c
    BY <1>4, <2>1, CalledOpen
  <2>2. CASE cur[t] # c
    <3>1. called'[c] = called[c] /\ offered' = offered
      BY <1>4, <2>2 DEF Run, TypeOK, tableVars
    <3>2. \A u \in Task : Holds(u, c)' \subseteq Holds(u, c)
      BY <1>4 DEF Run, Goto, Holds, TypeOK, tableVars
    <3> QED
      BY <1>0, <3>1, <3>2, NoMoreOpen
  <2> QED
    BY <2>1, <2>2
<1>5. \/ Quiet \/ (\E d \in Command : Put(d))
      \/ \E t \in Task : Receive(t) \/ ReceiveError(t) \/ Run(t)
  BY QuietTask, QuietHandling, QuietOthers DEF Next, Producers, Streaming, Handling
<1> QED
  BY <1>1, <1>2, <1>3, <1>4, <1>5

LEMMA InitOfferInv == Init => OfferInv
<1> SUFFICES ASSUME Init, NEW c \in Command
             PROVE  IsFiniteSet(Open(c)) /\ called[c] + Cardinality(Open(c)) <= offered[c]
  BY DEF OfferInv
<1>1. Open(c) = {}
  BY DEF Init, Open, Holds, Places
<1> QED
  BY <1>1, FS_EmptySet DEF Init

\* The callback is called no more often than the command was offered as new to a LIVE
\* query: not for the notifications of claims and results, whoever writes them, not for
\* deletions, and not again after a failure, for any number of tasks on one table.
THEOREM CallsAreOffered == Spec => []OfferedThenRun
<1>1. TypeOK /\ OfferInv => OfferedThenRun
  <2> SUFFICES ASSUME TypeOK, OfferInv, NEW c \in Command PROVE called[c] <= offered[c]
    BY DEF OfferedThenRun
  <2>1. Cardinality(Open(c)) \in Nat /\ called[c] + Cardinality(Open(c)) <= offered[c]
    BY FS_CardinalityType DEF OfferInv
  <2> QED
    BY <2>1 DEF TypeOK
<1> QED
  BY InitOfferInv, <1>1, TypeCorrect, NextOfferInv, PTL DEF Spec
-----------------------------------------------------------------------------
(* The tasks implement the command feed.                                      *)

LEMMA InFinished ==
  /\ \A x : x \in finished <=> x \in Command /\ status[x] = "done"
  /\ \A x : x \in finished' <=> x \in Command /\ status'[x] = "done"
BY DEF finished

\* A row that is written takes part in what is reported with its new status.
LEMMA SetFinished ==
  ASSUME TypeOK, NEW c \in Command, NEW s \in Status, SetStatus(c, s)
  PROVE  finished' = finished \/ finished' = IF s = "done" THEN finished \cup {c} ELSE finished \ {c}
<1>1. CASE status[c] = "absent"
  BY <1>1 DEF SetStatus, finished
<1>2. CASE status[c] # "absent"
  <2>1. status' = [status EXCEPT ![c] = s]
    BY <1>2 DEF SetStatus
  <2>2. \A x \in Command : status'[x] = IF x = c THEN s ELSE status[x]
    BY <2>1 DEF TypeOK
  <2>3. CASE s = "done"
    <3>1. \A x : x \in finished' <=> x \in finished \cup {c}
      BY <2>2, <2>3, InFinished
    <3> QED
      BY <2>3, <3>1
  <2>4. CASE s # "done"
    <3>1. \A x : x \in finished' <=> x \in finished \ {c}
      BY <2>2, <2>4, InFinished
    <3> QED
      BY <2>4, <3>1
  <2> QED
    BY <2>3, <2>4
<1> QED
  BY <1>1, <1>2

\* A producer's write asks; a deletion only takes the report back.
LEMMA ProducerFeeds ==
  ASSUME TypeOK, TypeOK', Producers
  PROVE  [Feed!Next]_(Feed!vars)
<1>1. ASSUME NEW c \in Command, Put(c) PROVE Feed!Ask(c)
  <2>1. status'[c] # "done" /\ \A x \in Command \ {c} : status'[x] = status[x]
    BY <1>1 DEF Put, TypeOK
  <2>2. \A x : x \in finished' <=> x \in finished \ {c}
    BY <2>1, InFinished
  <2>3. finished' = finished \ {c}
    BY <2>2
  <2>4. offered' \in [Command -> Nat] /\ offered \in [Command -> Nat]
    BY DEF TypeOK
  <2>5. offered'[c] >= offered[c] /\ \A x \in Command \ {c} : offered'[x] = offered[x]
    BY <1>1, <2>4, LiveTasksFinite DEF Put
  <2>6. called' = called
    BY <1>1 DEF Put
  <2> QED
    BY <2>3, <2>4, <2>5, <2>6 DEF Feed!Ask
<1>2. ASSUME NEW c \in Command, Remove(c) PROVE Feed!Withdraw(c)
  <2>1. status'[c] # "done" /\ \A x \in Command \ {c} : status'[x] = status[x]
    BY <1>2 DEF Remove, TypeOK
  <2>2. \A x : x \in finished' <=> x \in finished \ {c}
    BY <2>1, InFinished
  <2>3. finished' = finished \ {c} /\ UNCHANGED <<offered, called>>
    BY <1>2, <2>2 DEF Remove
  <2> QED
    BY <2>3 DEF Feed!Withdraw
<1> QED
  BY <1>1, <1>2 DEF Producers, Feed!Next

\* Claiming takes a report back, the call begins the command, and the write of its
\* result reports it if it succeeded.
LEMMA HandlingFeeds ==
  ASSUME TypeOK, TypeOK', OkInv, OfferInv', NEW t \in Task, Handling(t)
  PROVE  [Feed!Next]_(Feed!vars)
<1> USE DEF taskVars, tableVars, ownerVars, worldVars
<1>0. phase[t] \in {"claim", "run", "update"} => cur[t] \in Command
  BY DEF TypeOK
<1>a. ASSUME finished' = finished, UNCHANGED <<offered, called>> PROVE [Feed!Next]_(Feed!vars)
  BY <1>a DEF Feed!vars
<1>b. ASSUME NEW c \in Command, finished' = finished \ {c}, UNCHANGED <<offered, called>>
      PROVE  [Feed!Next]_(Feed!vars)
  BY <1>b DEF Feed!Next, Feed!Withdraw
<1>1. ASSUME Claim(t) PROVE [Feed!Next]_(Feed!vars)
  <2>1. cur[t] \in Command /\ SetStatus(cur[t], "processing") /\ UNCHANGED <<offered, called>>
    BY <1>0, <1>1 DEF Claim
  <2>2. finished' = finished \/ finished' = finished \ {cur[t]}
    BY <2>1, SetFinished DEF Status
  <2> QED
    BY <1>a, <1>b, <2>1, <2>2
<1>2. ASSUME \/ ClaimRejected(t) \/ ClaimFails(t) \/ ClaimAnswered(t) \/ CheckHandle(t)
             \/ AckPanics(t)
      PROVE  [Feed!Next]_(Feed!vars)
  <2>1. UNCHANGED <<status, offered, called>>
    BY <1>2 DEF ClaimRejected, ClaimFails, ClaimAnswered, CheckHandle, AckPanics
  <2> QED
    BY <1>a, <2>1 DEF finished
<1>3. ASSUME Run(t) PROVE [Feed!Next]_(Feed!vars)
  <2>1. /\ cur[t] \in Command /\ called' = [called EXCEPT ![cur[t]] = @ + 1]
        /\ UNCHANGED <<status, offered>>
    BY <1>0, <1>3 DEF Run
  <2>2. \A c \in Command : called'[c] <= offered'[c]
    <3>1. \A c \in Command : IsFiniteSet(Open(c)') /\ called'[c] + Cardinality(Open(c)') <= offered'[c]
      BY DEF OfferInv
    <3>2. \A c \in Command : Cardinality(Open(c)') \in Nat
      BY <3>1, FS_CardinalityType
    <3> QED
      BY <3>1, <3>2 DEF TypeOK
  <2>3. called[cur[t]] < offered[cur[t]]
    BY <2>1, <2>2 DEF TypeOK
  <2>4. finished' = finished
    BY <2>1 DEF finished
  <2> QED
    BY <2>1, <2>3, <2>4 DEF Feed!Next, Feed!Begin
<1>4. ASSUME Ack(t) PROVE [Feed!Next]_(Feed!vars)
  <2>1. cur[t] \in Command /\ UNCHANGED <<offered, called>>
    BY <1>0, <1>4 DEF Ack
  <2>2. CASE UNCHANGED <<status, stream>>
    BY <1>a, <2>1, <2>2 DEF finished
  <2>3. CASE SetStatus(cur[t], Outcome(t))
    <3>1. CASE ok[t]
      <4>1. called[cur[t]] > 0 /\ cur[t] \notin Refused
        BY <1>4, <3>1 DEF Ack, OkInv
      <4>2. finished' = finished \/ finished' = finished \cup {cur[t]}
        BY <2>1, <2>3, <3>1, SetFinished DEF Outcome, Status
      <4> QED
        BY <1>a, <2>1, <4>1, <4>2 DEF Feed!Next, Feed!Report
    <3>2. CASE ~ok[t]
      <4>1. finished' = finished \/ finished' = finished \ {cur[t]}
        BY <2>1, <2>3, <3>2, SetFinished DEF Outcome, Status
      <4> QED
        BY <1>a, <1>b, <2>1, <4>1
    <3> QED
      BY <3>1, <3>2
  <2> QED
    BY <1>4, <2>2, <2>3 DEF Ack
<1> QED
  BY <1>1, <1>2, <1>3, <1>4 DEF Handling

LEMMA FeedStep ==
  TypeOK /\ TypeOK' /\ OkInv /\ OfferInv' /\ [Next]_vars => [Feed!Next]_(Feed!vars)
<1> SUFFICES ASSUME TypeOK, TypeOK', OkInv, OfferInv', [Next]_vars PROVE [Feed!Next]_(Feed!vars)
  OBVIOUS
<1>1. ASSUME UNCHANGED <<status, offered, called>> PROVE [Feed!Next]_(Feed!vars)
  BY <1>1 DEF Feed!vars, finished
<1>2. Owner \/ UNCHANGED vars => UNCHANGED <<status, offered, called>>
  BY DEF Owner, Subscribe, Unsubscribe, Close, Forget, vars, tableVars
<1>3. ASSUME NEW t \in Task, Streaming(t) \/ ConnectionLost(t)
      PROVE  UNCHANGED <<status, offered, called>>
  BY <1>3 DEF Streaming, Begin, Loop, LoopBreaks, StartLive, EndOfStream, WakeUp, Receive,
     ReceiveError, Cancel, ConnectionLost, tableVars
<1> QED
  BY <1>1, <1>2, <1>3, ProducerFeeds, HandlingFeeds DEF Next

\* The tasks that were ever spawned, those that were replaced or told to stop included,
\* implement the command feed: the callback begins only what was offered and not yet
\* begun for it, and a result that says done is written only after that.
THEOREM TasksAreAFeed == Spec => ImplementsFeed
<1>1. Init => Feed!Init /\ OfferInv /\ DoneInv
  <2> SUFFICES ASSUME Init PROVE Feed!Init /\ OfferInv /\ DoneInv
    OBVIOUS
  <2>1. finished = {}
    BY DEF Init, finished
  <2>2. offered \in [Command -> Nat] /\ called = [c \in Command |-> 0]
    BY DEF Init
  <2>3. DoneInv
    BY DEF Init, DoneInv, OkInv, DoneWasRun
  <2> QED
    BY <2>1, <2>2, <2>3, InitOfferInv DEF Feed!Init
<1>2. TypeOK /\ TypeOK' /\ OfferInv /\ DoneInv /\ [Next]_vars
        => OfferInv' /\ DoneInv' /\ [Feed!Next]_(Feed!vars)
  BY NextOfferInv, NextDoneInv, FeedStep DEF DoneInv
<1> QED
  BY <1>1, <1>2, TypeCorrect, PTL DEF Spec, ImplementsFeed, Feed!Spec
=============================================================================
