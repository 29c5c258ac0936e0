----------------------------- MODULE Subscription -----------------------------
(***************************************************************************)
(* surreal_subscribe of surrealdb_ffi (feature real): the task it spawns on  *)
(* the runtime, which follows a LIVE query of the commands table, claims     *)
(* each new command and calls the module's callback; surreal_unsubscribe,    *)
(* surreal_close, and the callback on_command_cb, which runs the command and *)
(* writes its result back.  One table; the owner of the handle is the module *)
(* (subscribe at load, close at shutdown) or another user of the library.    *)
(***************************************************************************)
EXTENDS Naturals, Sequences, FiniteSets

CONSTANTS
  Command,        \* rows of the table
  Capital,        \* rows whose producer writes their status in upper case
  NumberKey,      \* rows whose key is not a string
  QuotedKey,      \* rows whose key SurrealQL writes in brackets, such as a UUID
  Refused,        \* rows with an unknown action or a missing argument
  Unprintable,    \* rows whose result has a quote in it
  Nestings,       \* what may call block_on on a thread of its own runtime
  MaxTasks,       \* bound on subscriptions made
  MaxEvents       \* bound on subscriptions, writes of producers and lost connections

ASSUME SubscriptionAssumption ==
  /\ (Capital \cup NumberKey \cup QuotedKey \cup Refused \cup Unprintable) \subseteq Command
  /\ Nestings \subseteq SUBSET {"open_client", "surreal_update"}
  /\ MaxTasks \in Nat /\ MaxEvents \in Nat

Task == 1 .. MaxTasks
NoTask == 0
Status == {"absent", "new", "NEW", "processing", "done", "failed"}
Final == {"done", "failed"}

VARIABLES
  status,    \* the rows
  handle,    \* g_mod.handle and what it points to: open, freed, or set to NULL
  sub,       \* the task in h.subs
  spawned,   \* tasks spawned so far
  phase,     \* task: where it is
  connected, \* task: client.is_some()
  live,      \* task: is its LIVE query running in the database?
  stream,    \* task: notifications that it has not received yet
  cur,       \* task: the command in hand
  ok,        \* task: did the command succeed?
  stop,      \* task: the stop flag is set and the task aborted
  nests,     \* the functions that tokio lets nest a block_on: none in the code as it is
  faulty,    \* does the database reject statements or lose answers?
  events, lost,    \* events so far; has a connection been lost?
  offered, called,  \* per command: notifications as new, and calls of the callback
  after             \* task: commands it began after it was told to stop

vars == <<status, handle, sub, spawned, phase, connected, live, stream, cur, ok, stop,
          nests, faulty, events, lost, offered, called, after>>
taskVars == <<phase, connected, cur, ok, after>>
ownerVars == <<handle, sub, spawned, stop>>
tableVars == <<status, stream, offered>>
worldVars == <<nests, faulty, events, lost, live>>

NoCommand == "none"
Phases == {"unborn", "start", "top", "select", "next", "claim", "answer", "run", "ack",
           "update", "sleep", "ended", "panicked"}

\* The points where the task awaits: there an abort takes effect.
Awaiting == {"start", "select", "next", "claim", "answer", "sleep"}

Notification == [action : {"write", "delete"}, cmd : Command, status : Status]

TypeOK ==
  /\ status \in [Command -> Status]
  /\ handle \in {"open", "freed", "null"}
  /\ spawned \in 0 .. MaxTasks /\ sub \in 0 .. spawned
  /\ phase \in [Task -> Phases]
  /\ \A t \in Task : phase[t] = "unborn" <=> t > spawned
  /\ {connected, live, ok, stop} \subseteq [Task -> BOOLEAN]
  /\ stream \in [Task -> Seq(Notification)]
  /\ cur \in [Task -> Command \cup {NoCommand}]
  /\ \A t \in Task : IF phase[t] \in {"claim", "answer", "run", "ack", "update"}
                     THEN cur[t] \in Command ELSE cur[t] = NoCommand
  /\ nests \in SUBSET {"open_client", "surreal_update"}
  /\ faulty \in BOOLEAN
  /\ events \in 0 .. MaxEvents /\ lost \in BOOLEAN
  /\ {offered, called} \subseteq [Command -> Nat]
  /\ after \in [Task -> Nat]

Init ==
  /\ status = [c \in Command |-> "absent"]
  /\ handle = "open" /\ sub = NoTask /\ spawned = 0
  /\ phase = [t \in Task |-> "unborn"]
  /\ connected = [t \in Task |-> FALSE]
  /\ live = [t \in Task |-> FALSE]
  /\ stream = [t \in Task |-> <<>>]
  /\ cur = [t \in Task |-> NoCommand]
  /\ ok = [t \in Task |-> FALSE]
  /\ stop = [t \in Task |-> FALSE]
  /\ nests \in Nestings
  /\ faulty \in BOOLEAN
  /\ events = 0 /\ lost = FALSE
  /\ offered = [c \in Command |-> 0]
  /\ called = [c \in Command |-> 0]
  /\ after = [t \in Task |-> 0]
-----------------------------------------------------------------------------
(* The table, and the notifications that every write to it sends.            *)

Event == events < MaxEvents /\ events' = events + 1

IsNew(s) == s \in {"new", "NEW"}

Notify(a, c, s) ==
  stream' = [t \in Task |->
    IF live[t] THEN Append(stream[t], [action |-> a, cmd |-> c, status |-> s])
               ELSE stream[t]]

\* An UPDATE of the task or of the callback reaches the row, if it still exists.
SetStatus(c, s) ==
  IF status[c] = "absent"
  THEN UNCHANGED <<status, stream>>
  ELSE status' = [status EXCEPT ![c] = s] /\ Notify("write", c, s)

\* A producer creates a command, edits one that is new, or asks for it again.
Put(c) ==
  /\ Event
  /\ status' = [status EXCEPT ![c] = IF c \in Capital THEN "NEW" ELSE "new"]
  /\ Notify("write", c, status'[c])
  /\ offered' = [offered EXCEPT ![c] = @ + Cardinality({ t \in Task : live[t] })]
  /\ UNCHANGED <<ownerVars, taskVars, nests, faulty, lost, live, called>>

\* It deletes one; the notification carries the row as it was.
Remove(c) ==
  /\ status[c] # "absent"
  /\ Event
  /\ status' = [status EXCEPT ![c] = "absent"]
  /\ Notify("delete", c, status[c])
  /\ UNCHANGED <<ownerVars, taskVars, nests, faulty, lost, live, offered, called>>

\* The database closes the stream, or the connection breaks: what has arrived of the
\* stream can still be read.
ConnectionLost(t) ==
  /\ live[t]
  /\ Event
  /\ lost' = TRUE
  /\ live' = [live EXCEPT ![t] = FALSE]
  /\ \E n \in 0 .. Len(stream[t]) : stream' = [stream EXCEPT ![t] = SubSeq(@, 1, n)]
  /\ UNCHANGED <<status, ownerVars, taskVars, nests, faulty, offered, called>>
-----------------------------------------------------------------------------
(* The spawned task.                                                         *)

Goto(t, p) == phase' = [phase EXCEPT ![t] = p]

\* The task is over: its client and its stream are dropped.
Leave(t, p) ==
  /\ Goto(t, p)
  /\ connected' = [connected EXCEPT ![t] = FALSE]
  /\ live' = [live EXCEPT ![t] = FALSE]
  /\ stream' = [stream EXCEPT ![t] = <<>>]
  /\ cur' = [cur EXCEPT ![t] = NoCommand]
  /\ UNCHANGED <<ok, after>>

\* open_client is a plain function that calls block_on, here on a thread of the
\* runtime: tokio panics, and nobody looks at the task's JoinHandle.
Begin(t, opened) ==
  /\ phase[t] = "start"
  /\ IF "open_client" \in nests
     THEN /\ Goto(t, "top")
          /\ connected' = [connected EXCEPT ![t] = opened]
          /\ UNCHANGED <<live, stream, cur, ok, after>>
     ELSE Leave(t, "panicked")
  /\ UNCHANGED <<status, ownerVars, nests, faulty, events, lost, offered, called>>

NeverStops(t) == FALSE                               \* fault: flag not looked at
Stopping(t) == stop[t]

Retry == "sleep"

\* The head of the outer loop.
Loop(t, opened) ==
  /\ phase[t] = "top" /\ ~Stopping(t)
  /\ connected[t] => opened
  /\ connected' = [connected EXCEPT ![t] = opened]
  /\ Goto(t, IF opened THEN "select" ELSE Retry)
  /\ UNCHANGED <<tableVars, ownerVars, worldVars, cur, ok, after, called>>

LoopBreaks(t) ==
  /\ phase[t] = "top" /\ Stopping(t)
  /\ Leave(t, "ended")
  /\ UNCHANGED <<status, ownerVars, nests, faulty, events, lost, offered, called>>

StartLive(t, started) ==
  /\ phase[t] = "select"
  /\ connected' = [connected EXCEPT ![t] = started]
  /\ live' = [live EXCEPT ![t] = started]
  /\ Goto(t, IF started THEN "next" ELSE Retry)
  /\ UNCHANGED <<tableVars, ownerVars, nests, faulty, events, lost, cur, ok, after, called>>

EndOfStream(t) ==
  /\ phase[t] = "next" /\ ~live[t]
  /\ stream[t] = <<>>
  /\ connected' = [connected EXCEPT ![t] = FALSE]
  /\ Goto(t, Retry)
  /\ UNCHANGED <<tableVars, ownerVars, worldVars, cur, ok, after, called>>

WakeUp(t) ==
  /\ phase[t] = "sleep"
  /\ Goto(t, "top")
  /\ UNCHANGED <<tableVars, ownerVars, worldVars, connected, cur, ok, after, called>>

AnyStatus(n) == n.action = "write" /\ n.cmd \notin NumberKey    \* fault: no gate
Wanted(n) == n.action = "write" /\ IsNew(n.status) /\ n.cmd \notin NumberKey

\* stream.next() yields a notification.  Every write to the table is notified, those
\* of the task's own claims and results included: only the status tells them apart.
Receive(t) ==
  /\ phase[t] = "next" /\ stream[t] # <<>>
  /\ IF Stopping(t)
     THEN Leave(t, "ended")
     ELSE LET n == Head(stream[t]) IN
          /\ stream' = [stream EXCEPT ![t] = Tail(@)]
          /\ IF Wanted(n)
             THEN Goto(t, "claim") /\ cur' = [cur EXCEPT ![t] = n.cmd]
             ELSE UNCHANGED <<phase, cur>>
          /\ UNCHANGED <<connected, live, ok, after>>
  /\ UNCHANGED <<status, ownerVars, nests, faulty, events, lost, offered, called>>

\* The notification is an error: it is skipped.
ReceiveError(t) ==
  /\ phase[t] = "next" /\ stream[t] # <<>> /\ faulty
  /\ stream' = [stream EXCEPT ![t] = Tail(@)]
  /\ UNCHANGED <<status, ownerVars, taskVars, worldVars, offered, called>>

\* The UPDATE that claims the row, without a condition on its status, is executed.
Claim(t) ==
  /\ phase[t] = "claim" /\ cur[t] \notin QuotedKey
  /\ SetStatus(cur[t], "processing")
  /\ Goto(t, "answer")
  /\ UNCHANGED <<ownerVars, worldVars, connected, cur, ok, after, offered, called>>

\* Or the database rejects it in an answer that is not looked at.
ClaimRejected(t) ==
  /\ phase[t] = "claim" /\ cur[t] \notin QuotedKey
  /\ faulty
  /\ Goto(t, "answer")
  /\ UNCHANGED <<tableVars, ownerVars, worldVars, connected, cur, ok, after, called>>

\* The request fails, before or after it was executed, or is no SurrealQL since the key
\* is written without its brackets: the command is passed over.
ClaimFails(t) ==
  /\ phase[t] \in {"claim", "answer"}
  /\ faulty \/ ~live[t] \/ (phase[t] = "claim" /\ cur[t] \in QuotedKey)
  /\ Goto(t, "next")
  /\ cur' = [cur EXCEPT ![t] = NoCommand]
  /\ UNCHANGED <<tableVars, ownerVars, worldVars, connected, ok, after, called>>

NoCallback(t) == Goto(t, "next") /\ cur' = [cur EXCEPT ![t] = NoCommand] \* fault
CallNow(t) == Goto(t, "run") /\ UNCHANGED cur

ClaimAnswered(t) ==
  /\ phase[t] = "answer"
  /\ CallNow(t)
  /\ UNCHANGED <<tableVars, ownerVars, worldVars, connected, ok, after, called>>
-----------------------------------------------------------------------------
(* on_command_cb, called by the task on the runtime's thread.                *)

\* It parses the row and runs the action as a FreeSWITCH API command, or refuses it.
Run(t) ==
  /\ phase[t] = "run"
  /\ called' = [called EXCEPT ![cur[t]] = @ + 1]
  /\ after' = [after EXCEPT ![t] = IF stop[t] THEN @ + 1 ELSE @]
  /\ \E result \in BOOLEAN :
       /\ result => cur[t] \notin Refused
       /\ ok' = [ok EXCEPT ![t] = result]
  /\ Goto(t, "ack")
  /\ UNCHANGED <<tableVars, ownerVars, worldVars, connected, cur>>

StillInHand(t) == Goto(t, "next") /\ UNCHANGED cur   \* fault: not put down
Handled(t) == Goto(t, "next") /\ cur' = [cur EXCEPT ![t] = NoCommand]

\* if (st->handle && id)
CheckHandle(t) ==
  /\ phase[t] = "ack"
  /\ IF handle = "null" THEN Handled(t) ELSE Goto(t, "update") /\ UNCHANGED cur
  /\ UNCHANGED <<tableVars, ownerVars, worldVars, connected, ok, after, called>>

AlwaysDone(t) == "done"                              \* fault: result ignored
Outcome(t) == IF ok[t] THEN "done" ELSE "failed"

\* surreal_update with the result, which is put into the patch as it is: a quote in it
\* makes the patch no JSON.  id points into the parsed row, which has been freed: it
\* may still be there, or not be an id any more.  So may a handle that was closed.
\* Whatever goes wrong is logged only.
Ack(t) ==
  /\ phase[t] = "update"
  /\ \/ /\ "surreal_update" \in nests /\ cur[t] \notin Unprintable
        /\ SetStatus(cur[t], Outcome(t))
     \/ UNCHANGED <<status, stream>>
  /\ Handled(t)
  /\ UNCHANGED <<ownerVars, worldVars, connected, ok, after, offered, called>>

\* Its block_on too is entered on a thread of the runtime, from within the task's poll:
\* the panic ends the task, where it does not end the process.
AckPanics(t) ==
  /\ phase[t] = "update" /\ cur[t] \notin Unprintable
  /\ "surreal_update" \notin nests
  /\ Leave(t, "panicked")
  /\ UNCHANGED <<status, ownerVars, nests, faulty, events, lost, offered, called>>
-----------------------------------------------------------------------------
(* The owner of the handle.                                                  *)

\* The task is spawned and entered in subs, where it takes the place of an earlier
\* one of the same table: that is detached, and goes on.
Subscribe ==
  /\ handle = "open"
  /\ spawned < MaxTasks
  /\ Event
  /\ spawned' = spawned + 1
  /\ sub' = spawned + 1
  /\ Goto(spawned + 1, "start")
  /\ UNCHANGED <<tableVars, nests, faulty, lost, live, handle, stop, connected, cur, ok, after, called>>

Unsubscribe ==
  /\ handle = "open"
  /\ sub # NoTask
  /\ stop' = [stop EXCEPT ![sub] = TRUE]
  /\ sub' = NoTask
  /\ UNCHANGED <<tableVars, worldVars, handle, spawned, taskVars, called>>

NotAborted(t) == FALSE                               \* fault: the flag alone
Aborted(t) == stop[t]

\* handle.abort() takes effect where the task awaits.
Cancel(t) ==
  /\ Aborted(t) /\ phase[t] \in Awaiting
  /\ Leave(t, "ended")
  /\ UNCHANGED <<status, ownerVars, nests, faulty, events, lost, offered, called>>

\* surreal_close drops the handle and with it subs: the tasks are detached.
Close ==
  /\ handle = "open"
  /\ handle' = "freed"
  /\ sub' = NoTask
  /\ UNCHANGED <<tableVars, worldVars, spawned, stop, taskVars, called>>

\* g_mod.handle = NULL, in the module's shutdown.
Forget ==
  /\ handle = "freed"
  /\ handle' = "null"
  /\ UNCHANGED <<tableVars, worldVars, sub, spawned, stop, taskVars, called>>

Producers == \E c \in Command : Put(c) \/ Remove(c)
Owner == Subscribe \/ Unsubscribe \/ Close \/ Forget

Streaming(t) ==
  \/ \E opened \in BOOLEAN : Begin(t, opened) \/ Loop(t, opened)
  \/ LoopBreaks(t) \/ \E started \in BOOLEAN : StartLive(t, started)
  \/ EndOfStream(t) \/ WakeUp(t) \/ Receive(t) \/ ReceiveError(t) \/ Cancel(t)

Handling(t) ==
  \/ Claim(t) \/ ClaimRejected(t) \/ ClaimFails(t) \/ ClaimAnswered(t)
  \/ Run(t) \/ CheckHandle(t) \/ Ack(t) \/ AckPanics(t)

Next ==
  \/ Producers \/ Owner
  \/ \E t \in Task : Streaming(t) \/ Handling(t) \/ ConnectionLost(t)

Spec == Init /\ [][Next]_vars

\* The runtime polls its tasks, and every request returns.
Fairness == \A t \in Task : WF_vars(Streaming(t) \/ Handling(t))

FairSpec == Spec /\ Fairness
-----------------------------------------------------------------------------
(* What the loop guarantees, wherever block_on may be nested.                *)

\* The callback runs for nothing but a command that was offered as new to a LIVE
\* query, and once for each offer: neither for the notifications of the claims and
\* results that the handling itself writes, nor for a deletion.
OfferedThenRun == \A c \in Command : called[c] <= offered[c]

\* Once told to stop, a task begins at most the one command it had in hand.
LastCommandOnly == \A t \in Task : after[t] <= 1

InHand(c) == \E t \in Task : cur[t] = c /\ phase[t] \in {"answer", "run"}

\* A claimed command is run: only a lost answer, a lost connection or an unsubscribe
\* can leave a row as processing that nobody has run.
NothingAbandoned ==
  ~faulty /\ ~lost /\ (\A t \in Task : ~stop[t]) =>
    \A c \in Command : status[c] = "processing" => called[c] > 0 \/ InHand(c)

\* done is never written for a command that was refused or not run.
DoneWasRun == \A c \in Command : status[c] = "done" => called[c] > 0 /\ c \notin Refused

Over == {"ended", "panicked"}

\* After an unsubscribe the task ends, even if no notification ever comes.
UnsubscribedEnds ==
  (\E t \in Task : stop[t]) ~> (\A t \in Task : stop[t] => phase[t] \in Over)
-----------------------------------------------------------------------------
(* Every LIVE query that is told of a command asks for it.                    *)

finished == { c \in Command : status[c] = "done" }

Feed == INSTANCE CommandFeed WITH asked <- offered, begun <- called, done <- finished

\* The tasks, all those that were ever spawned, implement the command feed of the
\* external workers.
ImplementsFeed == Feed!Spec
-----------------------------------------------------------------------------
(* What the documentation says.                                              *)

\* docs/commands.md: "On subscribe, the module starts a live stream".
StreamStarts == \A t \in Task : phase[t] = "start" ~> live[t] \/ stop[t]
=============================================================================
