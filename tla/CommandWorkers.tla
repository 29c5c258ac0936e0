---------------------------- MODULE CommandWorkers ----------------------------
(***************************************************************************)
(* The commands table and the external workers that run its rows through    *)
(* fs_cli: the Rust worker (cmd/surreal_commands_worker), which follows a    *)
(* LIVE query and falls back to polling, and the Python worker              *)
(* (scripts/surreal_commands_worker.py), which polls.  The table and its     *)
(* LIVE notifications are SurrealDB, modelled from how the workers use them. *)
(***************************************************************************)
EXTENDS Naturals, Sequences, FiniteSets

CONSTANTS
  Rust, Python,      \* the workers of each kind
  Deployments,       \* the sets of workers that may be installed together
  NumRows,           \* rows that are created; row ids are in key order
  IntKey,            \* rows whose key is a number
  QuotedKey,         \* rows whose key SurrealQL writes in brackets, such as a UUID
  Refused,           \* rows with an unknown action or a missing argument
  Malformed,         \* rows whose action is no string, such as a number
  Touchable,         \* rows whose producer edits them once while they are new
  PollLimit,         \* LIMIT of the polling query
  StatementsMayFail, \* may a database request fail?
  MaxCrashes,        \* bound on crashes of workers
  MaxRuns            \* bound of the execution counters

Worker == Rust \cup Python
Row == 1 .. NumRows
NoRow == 0

ASSUME WorkersAssumption ==
  /\ Rust \cap Python = {}
  /\ Deployments \subseteq SUBSET Worker
  /\ {NumRows, PollLimit, MaxCrashes, MaxRuns} \subseteq Nat
  /\ PollLimit > 0 /\ MaxRuns > 0
  /\ (IntKey \cup QuotedKey \cup Refused \cup Malformed \cup Touchable) \subseteq Row
  /\ StatementsMayFail \in BOOLEAN

VARIABLES
  status,    \* the row's status field
  touched,   \* rows their producer has edited
  runs,      \* how often fs_cli has been run for a row
  mode,      \* worker: not installed, connecting, connected, following LIVE,
             \* or polling
  todo,      \* worker: rows fetched or notified with status 'new', in order
  at, cur,   \* worker: position in handling a row, and the row
  ok,        \* worker: result of the action
  decodes,   \* does the Rust worker's from_value read an id cast to a string?
  crashes    \* for each crash, the row that the worker had claimed and not acked

vars == <<status, touched, runs, mode, todo, at, cur, ok, decodes, crashes>>

TypeOK ==
  /\ status \in [Row -> {"absent", "new", "processing", "done", "failed"}]
  /\ touched \in SUBSET Row
  /\ runs \in [Row -> 0 .. MaxRuns]
  /\ mode \in [Worker -> {"off", "connect", "connected", "live", "poll"}]
  /\ todo \in [Worker -> Seq(Row)]
  /\ at \in [Worker -> {"idle", "claim", "run", "ack"}]
  /\ cur \in [Worker -> Row \cup {NoRow}]
  /\ \A w \in Worker : at[w] = "idle" <=> cur[w] = NoRow
  /\ ok \in [Worker -> BOOLEAN]
  /\ decodes \in BOOLEAN
  /\ crashes \in Seq(Row \cup {NoRow}) /\ Len(crashes) <= MaxCrashes

\* How main begins.
FirstMode(w) == IF w \in Rust THEN "connect" ELSE "poll"

Init ==
  /\ \E installed \in Deployments :
       mode = [w \in Worker |-> IF w \in installed THEN FirstMode(w) ELSE "off"]
  /\ \E backlog \in SUBSET Row :           \* created before any worker runs
       status = [r \in Row |-> IF r \in backlog THEN "new" ELSE "absent"]
  /\ touched = {}
  /\ runs = [r \in Row |-> 0]
  /\ todo = [w \in Worker |-> <<>>]
  /\ at = [w \in Worker |-> "idle"]
  /\ cur = [w \in Worker |-> NoRow]
  /\ ok = [w \in Worker |-> FALSE]
  /\ decodes \in BOOLEAN
  /\ crashes = <<>>
-----------------------------------------------------------------------------
(* Producers, and the notifications of their writes.                         *)

Following == { w \in Worker : mode[w] = "live" }

\* The Create or Update notification of a row with status 'new'.  A notification
\* can be lost with the connection.  Those with another status are dropped by
\* live_loop, so that the workers' own writes notify nobody.
Notify(r) ==
  \E got \in IF StatementsMayFail THEN SUBSET Following ELSE {Following} :
    todo' = [w \in Worker |-> IF w \in got THEN Append(todo[w], r) ELSE todo[w]]

Create(r) ==
  /\ status[r] = "absent"
  /\ status' = [status EXCEPT ![r] = "new"]
  /\ Notify(r)
  /\ UNCHANGED <<touched, runs, mode, at, cur, ok, decodes, crashes>>

Touch(r) ==
  /\ r \in Touchable \ touched
  /\ status[r] = "new"
  /\ touched' = touched \cup {r}
  /\ Notify(r)
  /\ UNCHANGED <<status, runs, mode, at, cur, ok, decodes, crashes>>
-----------------------------------------------------------------------------
(* Where a worker gets its rows.                                             *)

\* main tries to connect every second until it succeeds.
Connect(w) ==
  /\ mode[w] = "connect"
  /\ mode' = [mode EXCEPT ![w] = "connected"]
  /\ UNCHANGED <<status, touched, runs, todo, at, cur, ok, decodes, crashes>>

\* LIVE is tried first, and polling replaces it if it cannot be started.
StartLive(w, started) ==
  /\ mode[w] = "connected"
  /\ mode' = [mode EXCEPT ![w] = IF started THEN "live" ELSE "poll"]
  /\ UNCHANGED <<status, touched, runs, todo, at, cur, ok, decodes, crashes>>

\* live_loop returns when the stream ends, after what was still in it; the worker
\* then polls and does not return to LIVE.
StreamEnds(w) ==
  /\ mode[w] = "live" /\ at[w] = "idle"
  /\ todo[w] = <<>>
  /\ mode' = [mode EXCEPT ![w] = "poll"]
  /\ UNCHANGED <<status, touched, runs, todo, at, cur, ok, decodes, crashes>>

AllRows == { r \in Row : status[r] # "absent" }      \* fault: no WHERE
Selected == { r \in Row : status[r] = "new" }
OneLess == PollLimit - 1                             \* fault: off by one
Limit == PollLimit
BatchSize == IF Cardinality(Selected) < Limit THEN Cardinality(Selected) ELSE Limit

\* The rows come in the order of their keys: there is one such batch.
Batches ==
  { batch \in [1 .. BatchSize -> Selected] :
      \A i \in 1 .. BatchSize, r \in Selected :
        r < batch[i] <=> \E j \in 1 .. i - 1 : batch[j] = r }

Fetched(w) == IF w \in Rust /\ ~decodes THEN {<<>>} ELSE Batches

\* A failed query is logged and tried again at the next turn, like an empty one.
Poll(w) ==
  /\ mode[w] = "poll" /\ at[w] = "idle"
  /\ todo[w] = <<>>
  /\ \E batch \in Fetched(w) : todo' = [todo EXCEPT ![w] = batch]
  /\ UNCHANGED <<status, touched, runs, mode, at, cur, ok, decodes, crashes>>
-----------------------------------------------------------------------------
(* handle_row and handle                                                     *)

\* A row whose action is no string is no CmdRow, and TryInto<String> of a number key
\* fails.  The Python worker decodes no row and splits the id, which is a string.
CanExtract(w, r) == ~(w \in Rust /\ r \in IntKey \cup Malformed)

\* The Rust worker writes the bare key into its statements, without brackets.
Addresses(w, r) == ~(w \in Rust /\ r \in QuotedKey)

Take(w) ==
  /\ at[w] = "idle"
  /\ todo[w] # <<>>
  /\ todo' = [todo EXCEPT ![w] = Tail(todo[w])]
  /\ IF CanExtract(w, Head(todo[w]))
     THEN /\ at' = [at EXCEPT ![w] = "claim"]
          /\ cur' = [cur EXCEPT ![w] = Head(todo[w])]
     ELSE UNCHANGED <<at, cur>>
  /\ UNCHANGED <<status, touched, runs, mode, ok, decodes, crashes>>

\* An UPDATE that reaches the row, or is lost without the worker taking notice.
Update(w, r, s) ==
  \/ Addresses(w, r) /\ status' = [status EXCEPT ![r] = s]
  \/ (StatementsMayFail \/ ~Addresses(w, r)) /\ UNCHANGED status

Unclaimed == "new"                                   \* fault: status not set
Claimed == "processing"

\* The UPDATE is unconditional, and its failure does not keep the worker from
\* running the row: Rust drops the error, Python's sql() never returns None.
Claim(w) ==
  /\ at[w] = "claim"
  /\ Update(w, cur[w], Claimed)
  /\ at' = [at EXCEPT ![w] = "run"]
  /\ UNCHANGED <<touched, runs, mode, todo, cur, ok, decodes, crashes>>

Run(w) ==
  /\ at[w] = "run"
  /\ cur[w] \notin Refused \cup Malformed
  /\ runs' = [runs EXCEPT ![cur[w]] = IF @ < MaxRuns THEN @ + 1 ELSE @]
  /\ \E result \in BOOLEAN : ok' = [ok EXCEPT ![w] = result]
  /\ at' = [at EXCEPT ![w] = "ack"]
  /\ UNCHANGED <<status, touched, mode, todo, cur, decodes, crashes>>

Refuse(w) ==
  /\ at[w] = "run"
  /\ cur[w] \in Refused \ Malformed
  /\ ok' = [ok EXCEPT ![w] = FALSE]
  /\ at' = [at EXCEPT ![w] = "ack"]
  /\ UNCHANGED <<status, touched, runs, mode, todo, cur, decodes, crashes>>

\* .lower() of an action that is no string raises outside handle's try block, after the
\* claim: there is no ack, and the rest of the batch is given up with the row.
Raise(w) ==
  /\ at[w] = "run"
  /\ cur[w] \in Malformed
  /\ todo' = [todo EXCEPT ![w] = <<>>]
  /\ at' = [at EXCEPT ![w] = "idle"]
  /\ cur' = [cur EXCEPT ![w] = NoRow]
  /\ UNCHANGED <<status, touched, runs, mode, ok, decodes, crashes>>

LogLabel(w) == IF ok[w] THEN "OK" ELSE "ERR"         \* fault: the log's label
AlwaysDone(w) == "done"                              \* fault: result ignored
Outcome(w) == IF ok[w] THEN "done" ELSE "failed"

\* The error of this UPDATE is dropped as well.
Ack(w) ==
  /\ at[w] = "ack"
  /\ Update(w, cur[w], Outcome(w))
  /\ at' = [at EXCEPT ![w] = "idle"]
  /\ cur' = [cur EXCEPT ![w] = NoRow]
  /\ ok' = [ok EXCEPT ![w] = FALSE]
  /\ UNCHANGED <<touched, runs, mode, todo, decodes, crashes>>

Handling(w) == Take(w) \/ Claim(w) \/ Run(w) \/ Refuse(w) \/ Raise(w) \/ Ack(w)

Claiming(w) == IF at[w] \in {"run", "ack"} THEN cur[w] ELSE NoRow

\* The process dies, or is interrupted in the middle of a row, and is restarted.
Crash(w) ==
  /\ mode[w] # "off"
  /\ Len(crashes) < MaxCrashes
  /\ crashes' = Append(crashes, Claiming(w))
  /\ mode' = [mode EXCEPT ![w] = FirstMode(w)]
  /\ todo' = [todo EXCEPT ![w] = <<>>]
  /\ at' = [at EXCEPT ![w] = "idle"]
  /\ cur' = [cur EXCEPT ![w] = NoRow]
  /\ ok' = [ok EXCEPT ![w] = FALSE]
  /\ UNCHANGED <<status, touched, runs, decodes>>

Next ==
  \/ \E r \in Row : Create(r) \/ Touch(r)
  \/ \E w \in Rust : Connect(w) \/ StreamEnds(w) \/ \E started \in BOOLEAN : StartLive(w, started)
  \/ \E w \in Worker : Poll(w) \/ Handling(w) \/ Crash(w)

Spec == Init /\ [][Next]_vars

\* Each worker keeps running, and what it waits for (a database answer within the
\* client's timeout, the end of fs_cli) arrives.
Fairness ==
  /\ \A w \in Worker : WF_vars(Poll(w) \/ Handling(w))
  /\ \A w \in Rust : WF_vars(Connect(w) \/ \E started \in BOOLEAN : StartLive(w, started))

FairSpec == Spec /\ Fairness
-----------------------------------------------------------------------------
(* What one worker guarantees.                                               *)

\* The statements of the workers that are installed reach the row.
Reached(r) == \A w \in Worker : mode[w] # "off" => Addresses(w, r)

Installed == { w \in Worker : mode[w] # "off" }

\* The table asks for a row once, and once more if its producer edited it while it was
\* new, since a LIVE notification carries the status of its own time.
Requests(r) == IF r \in touched THEN 2 ELSE 1

\* No worker runs a command more often than the table asked for, not even after a crash,
\* with every request served.  Workers that share a table each do so, as each may have
\* fetched the row before another claimed it; but none fetches it again afterwards.
RunsBounded ==
  \A r \in Row : Reached(r) => runs[r] <= Cardinality(Installed) * Requests(r)

\* The row of an action in progress is not 'new': no poll picks it up meanwhile.
RunIsClaimed ==
  \A w \in Worker :
    at[w] \in {"run", "ack"} /\ Reached(cur[w]) => status[cur[w]] # "new"

Final == {"done", "failed"}

\* A result that has been written back is not overwritten, unless the producer had
\* edited the row.
ResultKept == [][\A r \in Row \ touched : status[r] \in Final => status'[r] = status[r]]_vars

\* 'done' is written only for a command that was run: a refused one never gets it.
DoneWasRun == \A r \in Row : status[r] = "done" => runs[r] > 0 /\ r \notin Refused

Polling == \E w \in Worker : mode[w] = "poll" /\ (w \in Rust => decodes)

\* A worker died between the claim and the ack of the row: nobody will finish it.
Orphaned(r) == status[r] = "processing" /\ \E i \in 1 .. Len(crashes) : crashes[i] = r

\* A worker that keeps polling brings every row it can read from 'new' to a result,
\* unless it dies with the row in hand: also when rows it cannot read stay 'new' for
\* ever and are fetched at every turn, if they are fewer than the query's limit, and
\* when a row whose action raises an exception takes the batch it came in with it.
PollSettles ==
  \A r \in Row \ (IntKey \cup QuotedKey \cup Malformed) :
    status[r] = "new" /\ Polling ~> status[r] \in Final \/ Orphaned(r) \/ ~Polling
-----------------------------------------------------------------------------
(* The table asks each worker for a row when it is created, and again when it  *)
(* is edited.                                                                 *)

Plain == Row \ QuotedKey

asked ==
  [r \in Plain |-> IF status[r] = "absent" THEN 0 ELSE Cardinality(Installed) * Requests(r)]
begun == [r \in Plain |-> runs[r]]
finished == { r \in Plain : status[r] = "done" }

Feed == INSTANCE CommandFeed WITH Command <- Plain, done <- finished

\* The workers implement the command feed: no run is without its request, none is taken
\* back, and 'done' is reported of what has been run.
ImplementsFeed == Feed!Spec
-----------------------------------------------------------------------------
(* Statements of the Python worker's docstring.                              *)

\* "Claims each row (status='processing') to avoid duplicates."
AvoidsDuplicates == \A r \in Row : runs[r] <= 1

\* "Writes result/status back to SurrealDB": what has been run gets its result.
ResultWrittenBack ==
  \A r \in Row : runs[r] > 0 ~> status[r] \in Final
=============================================================================
