------------------------- MODULE CommandWorkersProofs -------------------------
(* Theorems about CommandWorkers, for any workers of both kinds and any rows. *)
EXTENDS CommandWorkers, SequenceFacts, TLAPS

\* What a poll fetches is a sequence of rows.
LEMMA FetchedTyped ==
  ASSUME NEW w \in Worker, NEW batch \in Fetched(w)
  PROVE  batch \in Seq(Row)
<1>1. CASE batch = <<>>
  BY <1>1
<1>2. CASE batch \in Batches
  <2>1. Cardinality(Selected) \in Nat
    <3>1. IsFiniteSet(Row)
      BY FS_Interval, WorkersAssumption DEF Row, WorkersAssumption
    <3>2. IsFiniteSet(Selected)
      BY <3>1, FS_Subset DEF Selected
    <3> QED
      BY <3>2, FS_CardinalityType
  <2>2. BatchSize \in Nat
    BY <2>1, WorkersAssumption DEF BatchSize, Limit, WorkersAssumption
  <2>3. batch \in [1 .. BatchSize -> Row]
    BY <1>2 DEF Batches, Selected
  <2> QED
    BY <2>2, <2>3
<1> QED
  BY <1>1, <1>2 DEF Fetched

LEMMA UpdateTyped ==
  ASSUME TypeOK, NEW w \in Worker, NEW r \in Row,
         NEW s \in {"processing", "done", "failed"}, Update(w, r, s)
  PROVE  status' \in [Row -> {"absent", "new", "processing", "done", "failed"}]
BY DEF Update, TypeOK

LEMMA NotifyTyped ==
  ASSUME TypeOK, NEW r \in Row, Notify(r)
  PROVE  todo' \in [Worker -> Seq(Row)]
BY DEF Notify, TypeOK

LEMMA InitTypeOK == Init => TypeOK
<1> SUFFICES ASSUME Init PROVE TypeOK
  OBVIOUS
<1>1. /\ MaxRuns \in Nat /\ MaxCrashes \in Nat /\ NoRow \notin Row
  BY WorkersAssumption DEF WorkersAssumption, Row, NoRow
<1>2. mode \in [Worker -> {"off", "connect", "connected", "live", "poll"}]
  BY DEF Init, FirstMode
<1>3. status \in [Row -> {"absent", "new", "processing", "done", "failed"}]
  BY DEF Init
<1>4. todo \in [Worker -> Seq(Row)]
  BY DEF Init
<1>5. crashes \in Seq(Row \cup {NoRow}) /\ Len(crashes) <= MaxCrashes
  BY <1>1 DEF Init
<1> QED
  BY <1>1, <1>2, <1>3, <1>4, <1>5 DEF Init, TypeOK

LEMMA NextTypeOK == TypeOK /\ [Next]_vars => TypeOK'
<1> SUFFICES ASSUME TypeOK, [Next]_vars PROVE TypeOK'
  OBVIOUS
<1>0. NoRow \notin Row /\ MaxRuns \in Nat /\ MaxCrashes \in Nat
  BY WorkersAssumption DEF Row, NoRow, WorkersAssumption
<1>1. ASSUME NEW r \in Row, Create(r) \/ Touch(r) PROVE TypeOK'
  <2>1. todo' \in [Worker -> Seq(Row)]
    BY <1>1, NotifyTyped DEF Create, Touch
  <2> QED
    BY <1>1, <2>1 DEF Create, Touch, TypeOK
<1>2. ASSUME NEW w \in Rust, Connect(w) PROVE TypeOK'
  BY <1>2 DEF Connect, TypeOK
<1>3. ASSUME NEW w \in Rust, StreamEnds(w) PROVE TypeOK'
  BY <1>3 DEF StreamEnds, TypeOK
<1>4. ASSUME NEW w \in Rust, NEW started \in BOOLEAN, StartLive(w, started) PROVE TypeOK'
  BY <1>4 DEF StartLive, TypeOK
<1>5. ASSUME NEW w \in Worker, Poll(w) PROVE TypeOK'
  <2>1. PICK batch \in Fetched(w) : todo' = [todo EXCEPT ![w] = batch]
    BY <1>5 DEF Poll
  <2>2. todo' \in [Worker -> Seq(Row)]
    BY <2>1, FetchedTyped DEF TypeOK
  <2> QED
    BY <1>5, <2>2 DEF Poll, TypeOK
<1>6. ASSUME NEW w \in Worker, Take(w) PROVE TypeOK'
  <2>1. Head(todo[w]) \in Row /\ Tail(todo[w]) \in Seq(Row)
    BY <1>6 DEF Take, TypeOK
  <2>2. todo' \in [Worker -> Seq(Row)]
    BY <1>6, <2>1 DEF Take, TypeOK
  <2>3. CASE CanExtract(w, Head(todo[w]))
    <3>1. at' = [at EXCEPT ![w] = "claim"] /\ cur' = [cur EXCEPT ![w] = Head(todo[w])]
      BY <1>6, <2>3 DEF Take
    <3>2. /\ at' \in [Worker -> {"idle", "claim", "run", "ack"}]
          /\ cur' \in [Worker -> Row \cup {NoRow}]
      BY <2>1, <3>1 DEF TypeOK
    <3>3. \A v \in Worker : at'[v] = "idle" <=> cur'[v] = NoRow
      BY <1>0, <2>1, <3>1 DEF TypeOK
    <3>4. UNCHANGED <<status, touched, runs, mode, ok, decodes, crashes>>
      BY <1>6 DEF Take
    <3> QED
      BY <2>2, <3>2, <3>3, <3>4 DEF TypeOK
  <2>4. CASE ~CanExtract(w, Head(todo[w]))
    BY <1>6, <2>2, <2>4 DEF Take, TypeOK
  <2> QED
    BY <2>3, <2>4
<1>7. ASSUME NEW w \in Worker, Claim(w) PROVE TypeOK'
  <2>1. cur[w] \in Row
    BY <1>7 DEF Claim, TypeOK
  <2>2. status' \in [Row -> {"absent", "new", "processing", "done", "failed"}]
    BY <1>7, <2>1, UpdateTyped DEF Claim, Claimed
  <2> QED
    BY <1>7, <2>2 DEF Claim, TypeOK
<1>8. ASSUME NEW w \in Worker, Run(w) PROVE TypeOK'
  <2>1. runs' \in [Row -> 0 .. MaxRuns] /\ ok' \in [Worker -> BOOLEAN]
    BY <1>0, <1>8 DEF Run, TypeOK
  <2> QED
    BY <1>8, <2>1 DEF Run, TypeOK
<1>9. ASSUME NEW w \in Worker, Refuse(w) PROVE TypeOK'
  BY <1>9 DEF Refuse, TypeOK
<1>10. ASSUME NEW w \in Worker, Ack(w) PROVE TypeOK'
  <2>1. cur[w] \in Row
    BY <1>10 DEF Ack, TypeOK
  <2>2. status' \in [Row -> {"absent", "new", "processing", "done", "failed"}]
    BY <1>10, <2>1, UpdateTyped DEF Ack, Outcome
  <2> QED
    BY <1>0, <1>10, <2>2 DEF Ack, TypeOK
<1>11. ASSUME NEW w \in Worker, Crash(w) PROVE TypeOK'
  <2>1. todo' \in [Worker -> Seq(Row)]
    BY <1>11 DEF Crash, TypeOK
  <2>2. crashes' \in Seq(Row \cup {NoRow}) /\ Len(crashes') <= MaxCrashes
    <3>1. Claiming(w) \in Row \cup {NoRow}
      BY DEF Claiming, TypeOK
    <3>2. /\ crashes \in Seq(Row \cup {NoRow}) /\ Len(crashes) < MaxCrashes
          /\ crashes' = Append(crashes, Claiming(w))
      BY <1>11 DEF Crash, TypeOK
    <3>3. Len(crashes') = Len(crashes) + 1 /\ Len(crashes) \in Nat
      BY <3>1, <3>2
    <3> QED
      BY <1>0, <3>1, <3>2, <3>3
  <2> QED
    BY <1>0, <1>11, <2>1, <2>2 DEF Crash, FirstMode, TypeOK
<1>14. ASSUME NEW w \in Worker, Raise(w) PROVE TypeOK'
  BY <1>0, <1>14 DEF Raise, TypeOK
<1>12. CASE UNCHANGED vars
  BY <1>12 DEF vars, TypeOK
<1>13. Rust \subseteq Worker
  BY DEF Worker
<1> QED
  BY <1>1, <1>2, <1>3, <1>4, <1>5, <1>6, <1>7, <1>8, <1>9, <1>10, <1>11, <1>12, <1>14
  DEF Next, Handling

\* The rows and the workers' state keep their types.
THEOREM TypeCorrect == Spec => []TypeOK
BY InitTypeOK, NextTypeOK, PTL DEF Spec
-----------------------------------------------------------------------------
(* 'done' says that the command ran.                                         *)

\* A result is good only where a row that is not refused has just been run.
GoodResult ==
  \A w \in Worker :
    ok[w] => /\ at[w] = "ack"
             /\ runs[cur[w]] > 0
             /\ cur[w] \notin Refused

\* The runs of a row only grow, and no other write than the one of a good result
\* makes a row 'done'.
LEMMA ReportsKept ==
  ASSUME TypeOK, TypeOK', GoodResult, DoneWasRun, [Next]_vars
  PROVE  GoodResult' /\ DoneWasRun'
<1>0. MaxRuns \in Nat /\ MaxRuns > 0 /\ Rust \subseteq Worker /\ NoRow \notin Row
  BY WorkersAssumption DEF Row, NoRow, WorkersAssumption, Worker
<1>1. ASSUME NEW r \in Row, Create(r) \/ Touch(r) PROVE GoodResult' /\ DoneWasRun'
  BY <1>1 DEF Create, Touch, GoodResult, DoneWasRun, TypeOK
<1>2. ASSUME NEW w \in Worker,
             \/ Connect(w) \/ StreamEnds(w) \/ Poll(w)
             \/ \E started \in BOOLEAN : StartLive(w, started)
      PROVE GoodResult' /\ DoneWasRun'
  BY <1>2 DEF Connect, StreamEnds, Poll, StartLive, GoodResult, DoneWasRun, TypeOK
<1>3. ASSUME NEW w \in Worker, Take(w) PROVE GoodResult' /\ DoneWasRun'
  <2>1. ~ok[w]
    BY <1>3 DEF Take, GoodResult
  <2>2. \A v \in Worker \ {w} : at'[v] = at[v] /\ cur'[v] = cur[v]
    BY <1>3 DEF Take, TypeOK
  <2> QED
    BY <1>3, <2>1, <2>2 DEF Take, GoodResult, DoneWasRun, TypeOK
<1>4. ASSUME NEW w \in Worker, Claim(w) PROVE GoodResult' /\ DoneWasRun'
  <2>1. ~ok[w]
    BY <1>4 DEF Claim, GoodResult
  <2>2. GoodResult'
    BY <1>4, <2>1 DEF Claim, GoodResult, TypeOK
  <2>3. \A r \in Row : status'[r] = "done" => status[r] = "done"
    BY <1>4 DEF Claim, Update, Claimed, TypeOK
  <2> QED
    BY <1>4, <2>2, <2>3 DEF Claim, DoneWasRun
<1>5. ASSUME NEW w \in Worker, Run(w) PROVE GoodResult' /\ DoneWasRun'
  <2>1. cur[w] \in Row /\ ~ok[w]
    BY <1>5 DEF Run, GoodResult, TypeOK
  <2>2. \A r \in Row : runs[r] > 0 => runs'[r] > 0
    BY <1>0, <1>5 DEF Run, TypeOK
  <2>3. runs'[cur[w]] > 0
    BY <1>0, <1>5, <2>1 DEF Run, TypeOK
  <2>4. \A v \in Worker : ok'[v] /\ v # w => ok[v] /\ at'[v] = at[v]
    BY <1>5 DEF Run, TypeOK
  <2>5. at'[w] = "ack" /\ cur[w] \notin Refused /\ cur' = cur /\ status' = status
    BY <1>5 DEF Run, TypeOK
  <2>6. \A v \in Worker : ok[v] => cur[v] \in Row
    BY DEF GoodResult, TypeOK
  <2> QED
    BY <2>2, <2>3, <2>4, <2>5, <2>6 DEF GoodResult, DoneWasRun
<1>6. ASSUME NEW w \in Worker, Refuse(w) PROVE GoodResult' /\ DoneWasRun'
  BY <1>6 DEF Refuse, GoodResult, DoneWasRun, TypeOK
<1>10. ASSUME NEW w \in Worker, Raise(w) PROVE GoodResult' /\ DoneWasRun'
  BY <1>10 DEF Raise, GoodResult, DoneWasRun, TypeOK
<1>7. ASSUME NEW w \in Worker, Ack(w) PROVE GoodResult' /\ DoneWasRun'
  <2>1. GoodResult'
    BY <1>7 DEF Ack, GoodResult, TypeOK
  <2>2. \A r \in Row : status'[r] = "done" => status[r] = "done" \/ (r = cur[w] /\ ok[w])
    BY <1>7 DEF Ack, Update, Outcome, TypeOK
  <2> QED
    BY <1>7, <2>1, <2>2 DEF Ack, GoodResult, DoneWasRun
<1>8. ASSUME NEW w \in Worker, Crash(w) PROVE GoodResult' /\ DoneWasRun'
  BY <1>8 DEF Crash, GoodResult, DoneWasRun, TypeOK
<1>9. CASE UNCHANGED vars
  BY <1>9 DEF vars, GoodResult, DoneWasRun
<1> QED
  BY <1>0, <1>1, <1>2, <1>3, <1>4, <1>5, <1>6, <1>7, <1>8, <1>9, <1>10 DEF Next, Handling

\* A command whose row says 'done' was run and was not a refused one, for any number
\* of workers that crash, lose requests and run the same row side by side.
THEOREM DoneMeansRun == Spec => []DoneWasRun
<1>1. Init => GoodResult /\ DoneWasRun
  BY DEF Init, GoodResult, DoneWasRun
<1>2. TypeOK /\ TypeOK' /\ GoodResult /\ DoneWasRun /\ [Next]_vars => GoodResult' /\ DoneWasRun'
  BY ReportsKept
<1> QED
  BY <1>1, <1>2, TypeCorrect, PTL DEF Spec
-----------------------------------------------------------------------------
(* Where every statement arrives, a row that is run has been claimed.        *)

\* A worker that is not installed has no row in hand.
OffIsIdle == \A w \in Worker : mode[w] = "off" => at[w] = "idle" /\ todo[w] = <<>>

\* Installed workers stay installed.
LEMMA ReachedKept ==
  ASSUME TypeOK, OffIsIdle, [Next]_vars
  PROVE  /\ OffIsIdle'
         /\ \A w \in Worker : mode'[w] = "off" <=> mode[w] = "off"
<1>0. Rust \subseteq Worker
  BY DEF Worker
<1>1. ASSUME NEW r \in Row, Create(r) \/ Touch(r)
      PROVE OffIsIdle' /\ \A w \in Worker : mode'[w] = "off" <=> mode[w] = "off"
  <2>1. mode' = mode /\ at' = at /\ Notify(r)
    BY <1>1 DEF Create, Touch
  <2>2. PICK got \in SUBSET Following :
          todo' = [w \in Worker |-> IF w \in got THEN Append(todo[w], r) ELSE todo[w]]
    BY <2>1 DEF Notify
  <2>3. \A w \in Worker : mode[w] = "off" => todo'[w] = todo[w]
    BY <2>2 DEF Following
  <2> QED
    BY <2>1, <2>3 DEF OffIsIdle
<1>2. ASSUME NEW w \in Worker,
             \/ Connect(w) \/ StreamEnds(w)
             \/ \E started \in BOOLEAN : StartLive(w, started)
      PROVE OffIsIdle' /\ \A v \in Worker : mode'[v] = "off" <=> mode[v] = "off"
  BY <1>2 DEF Connect, StreamEnds, StartLive, OffIsIdle, TypeOK
<1>3. ASSUME NEW w \in Worker, Poll(w)
      PROVE OffIsIdle' /\ \A v \in Worker : mode'[v] = "off" <=> mode[v] = "off"
  BY <1>3 DEF Poll, OffIsIdle, TypeOK
<1>4. ASSUME NEW w \in Worker, Take(w)
      PROVE OffIsIdle' /\ \A v \in Worker : mode'[v] = "off" <=> mode[v] = "off"
  <2>1. mode[w] # "off"
    BY <1>4 DEF Take, OffIsIdle
  <2>2. \A v \in Worker \ {w} : at'[v] = at[v] /\ todo'[v] = todo[v]
    BY <1>4 DEF Take, TypeOK
  <2> QED
    BY <1>4, <2>1, <2>2 DEF Take, OffIsIdle
<1>5. ASSUME NEW w \in Worker, Claim(w) \/ Run(w) \/ Refuse(w) \/ Raise(w) \/ Ack(w)
      PROVE OffIsIdle' /\ \A v \in Worker : mode'[v] = "off" <=> mode[v] = "off"
  BY <1>5 DEF Claim, Run, Refuse, Raise, Ack, OffIsIdle, TypeOK
<1>6. ASSUME NEW w \in Worker, Crash(w)
      PROVE OffIsIdle' /\ \A v \in Worker : mode'[v] = "off" <=> mode[v] = "off"
  BY <1>6 DEF Crash, FirstMode, OffIsIdle, TypeOK
<1>7. CASE UNCHANGED vars
  BY <1>7 DEF vars, OffIsIdle
<1> QED
  BY <1>0, <1>1, <1>2, <1>3, <1>4, <1>5, <1>6, <1>7 DEF Next, Handling

\* The row of an action in progress has left 'new' behind, if every statement of the
\* installed workers reaches it.
ClaimHolds ==
  \A w \in Worker :
    at[w] \in {"run", "ack"} /\ Reached(cur[w]) => status[cur[w]] \notin {"absent", "new"}

\* No write brings a row back to 'new'.
LEMMA NeverNewAgain ==
  ASSUME TypeOK, [Next]_vars, NEW r \in Row, status[r] \notin {"absent", "new"}
  PROVE  status'[r] \notin {"absent", "new"}
<1>0. Rust \subseteq Worker
  BY DEF Worker
<1>1. ASSUME NEW q \in Row, Create(q) PROVE status'[r] \notin {"absent", "new"}
  BY <1>1 DEF Create, TypeOK
<1>2. ASSUME NEW w \in Worker, Claim(w) \/ Ack(w)
      PROVE status'[r] \notin {"absent", "new"}
  BY <1>2 DEF Claim, Ack, Update, Claimed, Outcome, TypeOK
<1>3. CASE UNCHANGED status
  BY <1>3
<1> QED
  BY <1>0, <1>1, <1>2, <1>3 DEF Next, Handling, Touch, Connect, StartLive, StreamEnds,
     Poll, Take, Run, Refuse, Raise, Crash, vars

LEMMA ClaimKept ==
  ASSUME ~StatementsMayFail, TypeOK, TypeOK', OffIsIdle, ClaimHolds, [Next]_vars
  PROVE  ClaimHolds'
<1> SUFFICES ASSUME NEW w \in Worker, at'[w] \in {"run", "ack"},
                    \A v \in Worker : mode'[v] # "off" => Addresses(v, cur'[w])
             PROVE  status'[cur'[w]] \notin {"absent", "new"}
  BY DEF ClaimHolds, Reached, Addresses
<1>0. Rust \subseteq Worker /\ cur'[w] \in Row
  BY DEF Worker, TypeOK
<1>1. Reached(cur'[w])
  BY ReachedKept DEF Reached
<1>2. CASE at[w] \in {"run", "ack"} /\ cur'[w] = cur[w]
  BY <1>0, <1>1, <1>2, NeverNewAgain DEF ClaimHolds
<1>3. CASE Claim(w)
  <2>1. mode[w] # "off" /\ cur'[w] = cur[w]
    BY <1>3 DEF Claim, OffIsIdle
  <2>2. Addresses(w, cur[w])
    BY <1>1, <2>1 DEF Reached
  <2>3. status' = [status EXCEPT ![cur[w]] = "processing"]
    BY <1>3, <2>2 DEF Claim, Update, Claimed
  <2> QED
    BY <1>0, <2>1, <2>3 DEF TypeOK
<1>4. ASSUME NEW v \in Worker, Handling(v) \/ Crash(v), ~Claim(w)
      PROVE  at[w] \in {"run", "ack"} /\ cur'[w] = cur[w]
  <2>1. CASE v = w
    <3>1. CASE Run(w) \/ Refuse(w)
      BY <3>1 DEF Run, Refuse, TypeOK
    <3>2. ~Ack(w) /\ ~Crash(w) /\ ~Raise(w)
      BY DEF Ack, Crash, Raise, TypeOK
    <3>3. CASE Take(w)
      BY <3>3 DEF Take, TypeOK
    <3> QED
      BY <1>4, <2>1, <3>1, <3>2, <3>3 DEF Handling
  <2>2. CASE v # w
    <3>1. at'[w] = at[w] /\ cur'[w] = cur[w]
      BY <1>4, <2>2 DEF Handling, Take, Claim, Run, Refuse, Raise, Ack, Crash, TypeOK
    <3> QED
      BY <3>1
  <2> QED
    BY <2>1, <2>2
<1>5. CASE UNCHANGED <<at, cur>>
  BY <1>2, <1>5
<1> QED
  BY <1>0, <1>2, <1>3, <1>4, <1>5 DEF Next, Create, Touch, Connect, StartLive, StreamEnds,
     Poll, vars

\* If no request is lost, the row a worker runs is not 'new', so that no poll picks it
\* up meanwhile: with any number of workers, also those that run the same row.
THEOREM RunsWhatItClaimed == ASSUME ~StatementsMayFail PROVE Spec => []RunIsClaimed
<1>1. Init => OffIsIdle /\ ClaimHolds
  BY DEF Init, OffIsIdle, ClaimHolds
<1>2. TypeOK /\ TypeOK' /\ OffIsIdle /\ ClaimHolds /\ [Next]_vars => OffIsIdle' /\ ClaimHolds'
  BY ReachedKept, ClaimKept
<1>3. ClaimHolds => RunIsClaimed
  BY DEF ClaimHolds, RunIsClaimed
<1> QED
  BY <1>1, <1>2, <1>3, TypeCorrect, PTL DEF Spec
-----------------------------------------------------------------------------
(* What a worker has in hand of a row.                                       *)

\* No two workers are installed together.
OneWorker == \A d \in Deployments : \A v, w \in d : v = w

Alone == \A v, w \in Worker : mode[v] # "off" /\ mode[w] # "off" => v = w

LEMMA AloneCorrect == ASSUME OneWorker PROVE Spec => [](OffIsIdle /\ Alone)
<1>1. Init => OffIsIdle /\ Alone
  BY DEF Init, OffIsIdle, Alone, OneWorker, FirstMode
<1>2. TypeOK /\ OffIsIdle /\ Alone /\ [Next]_vars => (OffIsIdle /\ Alone)'
  BY ReachedKept DEF Alone
<1> QED
  BY <1>1, <1>2, TypeCorrect, PTL DEF Spec

\* The places of a row in the hands of a worker: 0 is the row that it handles, the
\* others are those in its queue.
InHand(w, r) == Places(todo[w], {r}) \cup (IF cur[w] = r THEN {0} ELSE {})

\* A poll finds each row once, and only those that are new.
LEMMA FetchedOnce ==
  ASSUME NEW w \in Worker, NEW batch \in Fetched(w), NEW r \in Row
  PROVE  /\ \A i, j \in Places(batch, {r}) : i = j
         /\ Places(batch, {r}) # {} => status[r] = "new"
<1>1. CASE batch = <<>>
  BY <1>1 DEF Places
<1>2. CASE batch \in Batches
  <2>1. IsFiniteSet(Row) /\ Selected \subseteq Row /\ Row \subseteq Int
    BY FS_Interval, WorkersAssumption DEF Row, WorkersAssumption, Selected
  <2>2. BatchSize \in Nat
    BY <2>1, FS_Subset, FS_CardinalityType, WorkersAssumption DEF BatchSize, Limit, WorkersAssumption
  <2>3. /\ batch \in [1 .. BatchSize -> Selected]
        /\ \A i \in 1 .. BatchSize, q \in Selected :
             q < batch[i] <=> \E j \in 1 .. i - 1 : batch[j] = q
    BY <1>2 DEF Batches
  <2>4. Len(batch) = BatchSize
    BY <2>2, <2>3
  <2>5. ASSUME NEW i \in 1 .. BatchSize, NEW j \in 1 .. BatchSize, batch[i] = batch[j], i < j
        PROVE  FALSE
    <3>0. batch[j] \in Selected /\ i \in 1 .. j - 1
      BY <2>2, <2>3, <2>5
    <3>1. batch[j] \in Int
      BY <2>1, <3>0
    <3>2. batch[j] < batch[j]
      BY <2>3, <2>5, <3>0
    <3> QED
      BY <3>1, <3>2
  <2>6. \A i, j \in 1 .. BatchSize : batch[i] = batch[j] => i = j
    BY <2>2, <2>5
  <2> QED
    BY <2>3, <2>4, <2>6 DEF Places, Selected
<1> QED
  BY <1>1, <1>2 DEF Fetched

\* A row notified again stands behind the others.
LEMMA NotifiedPlaces ==
  ASSUME TypeOK, NEW q \in Row, Notify(q), UNCHANGED cur, NEW w \in Worker, NEW r \in Row
  PROVE  \/ InHand(w, r)' = InHand(w, r)
         \/ q = r /\ InHand(w, r)' = InHand(w, r) \cup {Len(todo[w]) + 1}
<1>1. todo[w] \in Seq(Row)
  BY DEF TypeOK
<1>2. todo'[w] = todo[w] \/ todo'[w] = Append(todo[w], q)
  BY DEF Notify
<1>3. CASE todo'[w] = todo[w]
  BY <1>3 DEF InHand
<1>4. CASE todo'[w] = Append(todo[w], q)
  <2>1. Places(todo'[w], {r}) = Places(todo[w], {r}) \cup (IF q \in {r} THEN {Len(todo[w]) + 1} ELSE {})
    BY <1>1, <1>4, PlacesOfAppend
  <2> QED
    BY <2>1 DEF InHand
<1> QED
  BY <1>2, <1>3, <1>4

\* A worker that takes a row moves every place one to the front, or drops the first.
LEMMA TakenPlaces ==
  ASSUME TypeOK, NEW w \in Worker, Take(w), NEW r \in Row
  PROVE  \A i \in InHand(w, r)' : i \in Nat /\ i + 1 \in InHand(w, r)
<1>1. /\ todo[w] \in Seq(Row) /\ todo[w] # <<>> /\ todo'[w] = Tail(todo[w])
      /\ cur[w] = NoRow /\ NoRow # r
  BY DEF Take, TypeOK, NoRow, Row
<1>2. cur'[w] = NoRow \/ cur'[w] = Head(todo[w])
  BY <1>1 DEF Take, TypeOK
<1>3. Tail(todo[w]) \in Seq(Row)
  BY <1>1
<1>4. ASSUME NEW i \in Places(todo'[w], {r}) PROVE i \in Nat /\ i + 1 \in InHand(w, r)
  BY <1>1, <1>3, <1>4, PlacesOfTail, PlacesFinite DEF InHand
<1>5. ASSUME cur'[w] = r PROVE 0 + 1 \in InHand(w, r)
  <2>1. Head(todo[w]) \in {r}
    BY <1>1, <1>2, <1>5
  <2>2. 1 \in Places(todo[w], {r})
    BY <1>1, <2>1, PlacesOfTail
  <2> QED
    BY <2>2 DEF InHand
<1>6. InHand(w, r)' = Places(todo'[w], {r}) \cup (IF cur'[w] = r THEN {0} ELSE {})
  BY DEF InHand
<1> QED
  BY <1>4, <1>5, <1>6

\* Who has nothing has no place for a row.
LEMMA EmptyHands ==
  ASSUME NEW w \in Worker, todo[w] = <<>>, cur[w] = NoRow, NEW r \in Row
  PROVE  InHand(w, r) = {}
<1>1. NoRow # r
  BY DEF NoRow, Row
<1> QED
  BY <1>1 DEF InHand, Places

\* Whoever takes a step is installed: the only worker.
LEMMA StepIsOfTheOne ==
  ASSUME TypeOK, OffIsIdle, Alone, NEW w \in Worker, mode[w] # "off",
         NEW v \in Worker,
         \/ Connect(v) \/ StreamEnds(v) \/ (\E started \in BOOLEAN : StartLive(v, started))
         \/ Poll(v) \/ Handling(v) \/ Crash(v)
  PROVE  v = w
<1>1. mode[v] # "off"
  BY DEF Connect, StreamEnds, StartLive, Poll, Handling, Take, Claim, Run, Refuse, Raise, Ack, Crash, OffIsIdle
<1> QED
  BY <1>1 DEF Alone
-----------------------------------------------------------------------------
(* One worker: results stay.                                                 *)

\* A row that its producer has not edited is in hand once, and not any more when it
\* has its result.
InHandOnce(w, r) ==
  /\ \A i, j \in InHand(w, r) : i = j
  /\ status[r] \in Final \cup {"absent"} => InHand(w, r) = {}

KeptInv == \A w \in Worker, r \in Row \ touched : InHandOnce(w, r)

LEMMA KeptKept ==
  ASSUME TypeOK, TypeOK', OffIsIdle, OffIsIdle', Alone, KeptInv, [Next]_vars
  PROVE  KeptInv'
<1> SUFFICES ASSUME NEW w \in Worker, NEW r \in Row, r \notin touched'
             PROVE  InHandOnce(w, r)'
  BY DEF KeptInv
<1>1. CASE mode'[w] = "off"
  <2>1. todo'[w] = <<>> /\ cur'[w] = NoRow
    BY <1>1 DEF OffIsIdle, TypeOK
  <2>2. InHand(w, r)' = {}
    BY <2>1 DEF InHand, Places, NoRow, Row
  <2> QED
    BY <2>2 DEF InHandOnce
<1>2. CASE mode'[w] # "off"
  <2>0. mode[w] # "off" /\ Rust \subseteq Worker
    BY <1>2, ReachedKept DEF Worker
  <2>t. r \notin touched
    BY DEF Next, Create, Touch, Connect, StreamEnds, StartLive, Poll, Handling, Take, Claim,
       Run, Refuse, Raise, Ack, Crash, vars
  <2>i. InHandOnce(w, r)
    BY <2>t DEF KeptInv
  <2>u. ASSUME UNCHANGED <<todo, cur>>, status'[r] = status[r] PROVE InHandOnce(w, r)'
    <3>1. InHand(w, r)' = InHand(w, r)
      BY <2>u DEF InHand
    <3> QED
      BY <2>i, <2>u, <3>1 DEF InHandOnce
  <2>1. ASSUME NEW q \in Row, Create(q) PROVE InHandOnce(w, r)'
    <3>1. CASE q = r
      <4>1. status[r] = "absent" /\ status'[r] = "new" /\ Notify(q) /\ UNCHANGED cur
        BY <2>1, <3>1 DEF Create, TypeOK
      <4>2. InHand(w, r) = {}
        BY <2>i, <4>1 DEF InHandOnce
      <4>3. InHand(w, r)' = {} \/ InHand(w, r)' = {Len(todo[w]) + 1}
        BY <4>1, <4>2, NotifiedPlaces
      <4> QED
        BY <4>1, <4>3 DEF InHandOnce, Final
    <3>2. CASE q # r
      <4>1. InHand(w, r)' = InHand(w, r) /\ status'[r] = status[r]
        BY <2>1, <3>2, NotifiedPlaces DEF Create, TypeOK
      <4> QED
        BY <2>i, <4>1 DEF InHandOnce
    <3> QED
      BY <3>1, <3>2
  <2>2. ASSUME NEW q \in Row, Touch(q) PROVE InHandOnce(w, r)'
    <3>1. q # r
      BY <2>2 DEF Touch
    <3>2. InHand(w, r)' = InHand(w, r) /\ status'[r] = status[r]
      BY <2>2, <3>1, NotifiedPlaces DEF Touch
    <3> QED
      BY <2>i, <3>2 DEF InHandOnce
  <2>3. ASSUME NEW v \in Worker,
               \/ Connect(v) \/ StreamEnds(v) \/ (\E started \in BOOLEAN : StartLive(v, started))
               \/ Run(v) \/ Refuse(v)
        PROVE  InHandOnce(w, r)'
    BY <2>3, <2>u DEF Connect, StreamEnds, StartLive, Run, Refuse
  <2>4. ASSUME Poll(w) PROVE InHandOnce(w, r)'
    <3>1. PICK batch \in Fetched(w) : todo'[w] = batch
      BY <2>4 DEF Poll, TypeOK
    <3>2. cur'[w] = NoRow /\ status' = status
      BY <2>4 DEF Poll, TypeOK
    <3>3. InHand(w, r)' = Places(batch, {r})
      BY <3>1, <3>2 DEF InHand, NoRow, Row
    <3> QED
      BY <3>2, <3>3, FetchedOnce DEF InHandOnce, Final
  <2>5. ASSUME Take(w) PROVE InHandOnce(w, r)'
    <3>1. \A i \in InHand(w, r)' : i \in Nat /\ i + 1 \in InHand(w, r)
      BY <2>5, TakenPlaces
    <3>2. status' = status
      BY <2>5 DEF Take
    <3>3. ASSUME NEW i \in InHand(w, r)', NEW j \in InHand(w, r)' PROVE i = j
      <4>1. i + 1 = j + 1 /\ i \in Nat /\ j \in Nat
        BY <2>i, <3>1 DEF InHandOnce
      <4> QED
        BY <4>1
    <3> QED
      BY <2>i, <3>1, <3>2, <3>3 DEF InHandOnce
  <2>6. ASSUME Claim(w) PROVE InHandOnce(w, r)'
    <3>1. UNCHANGED <<todo, cur>>
      BY <2>6 DEF Claim
    <3>2. CASE status'[r] = status[r]
      BY <2>u, <3>1, <3>2
    <3>3. CASE status'[r] # status[r]
      <4>1. status'[r] = "processing"
        BY <2>6, <3>3 DEF Claim, Update, Claimed, TypeOK
      <4>2. InHand(w, r)' = InHand(w, r)
        BY <3>1 DEF InHand
      <4> QED
        BY <2>i, <4>1, <4>2 DEF InHandOnce, Final
    <3> QED
      BY <3>2, <3>3
  <2>7. ASSUME Ack(w) PROVE InHandOnce(w, r)'
    <3>1. todo' = todo /\ cur'[w] = NoRow /\ NoRow # r
      BY <2>7 DEF Ack, TypeOK, NoRow, Row
    <3>2. InHand(w, r)' = Places(todo[w], {r}) /\ Places(todo[w], {r}) \subseteq Nat \ {0}
      BY <3>1, PlacesFinite DEF InHand, TypeOK
    <3>3. CASE cur[w] = r
      <4>1. 0 \in InHand(w, r) /\ Places(todo[w], {r}) \subseteq InHand(w, r)
        BY <3>3 DEF InHand
      <4>2. InHand(w, r)' = {}
        BY <2>i, <3>2, <4>1 DEF InHandOnce
      <4> QED
        BY <4>2 DEF InHandOnce
    <3>4. CASE cur[w] # r
      <4>1. InHand(w, r)' = InHand(w, r)
        BY <3>2, <3>4 DEF InHand
      <4>2. status'[r] = status[r]
        BY <2>7, <3>4 DEF Ack, Update, TypeOK
      <4> QED
        BY <2>i, <4>1, <4>2 DEF InHandOnce
    <3> QED
      BY <3>3, <3>4
  <2>8. ASSUME Crash(w) \/ Raise(w) PROVE InHandOnce(w, r)'
    <3>1. todo'[w] = <<>> /\ cur'[w] = NoRow
      BY <2>8 DEF Crash, Raise, TypeOK
    <3>2. InHand(w, r)' = {}
      BY <3>1 DEF InHand, Places, NoRow, Row
    <3> QED
      BY <3>2 DEF InHandOnce
  <2>9. CASE UNCHANGED vars
    BY <2>9, <2>u DEF vars
  <2>10. ASSUME NEW v \in Worker, Poll(v) \/ Handling(v) \/ Crash(v) PROVE v = w
    BY <2>0, <2>10, StepIsOfTheOne
  <2> QED
    BY <2>0, <2>1, <2>2, <2>3, <2>4, <2>5, <2>6, <2>7, <2>8, <2>9, <2>10 DEF Next, Handling
<1> QED
  BY <1>1, <1>2

\* A single worker overwrites no result that it has written back, whichever requests
\* it loses and however often it crashes and is restarted.
THEOREM ResultsStay == ASSUME OneWorker PROVE Spec => ResultKept
<1>1. Init => KeptInv
  <2> SUFFICES ASSUME Init, NEW w \in Worker, NEW r \in Row PROVE InHandOnce(w, r)
    BY DEF KeptInv
  <2>1. InHand(w, r) = {}
    BY EmptyHands DEF Init
  <2> QED
    BY <2>1 DEF InHandOnce
<1>2. TypeOK /\ TypeOK' /\ OffIsIdle /\ OffIsIdle' /\ Alone /\ KeptInv /\ [Next]_vars => KeptInv'
  BY KeptKept
<1>3. TypeOK /\ KeptInv /\ [Next]_vars =>
        [\A r \in Row \ touched : status[r] \in Final => status'[r] = status[r]]_vars
  <2> SUFFICES ASSUME TypeOK, KeptInv, [Next]_vars,
                      NEW r \in Row, r \notin touched, status[r] \in Final
               PROVE  status'[r] = status[r]
    OBVIOUS
  <2>1. \A w \in Worker : cur[w] # r
    BY DEF KeptInv, InHandOnce, InHand
  <2>2. ASSUME NEW q \in Row, Create(q) PROVE status'[r] = status[r]
    BY <2>2 DEF Create, TypeOK, Final
  <2>3. ASSUME NEW w \in Worker, Claim(w) \/ Ack(w) PROVE status'[r] = status[r]
    BY <2>1, <2>3 DEF Claim, Ack, Update, TypeOK
  <2>4. CASE UNCHANGED status
    BY <2>4
  <2>5. Rust \subseteq Worker
    BY DEF Worker
  <2> QED
    BY <2>2, <2>3, <2>4, <2>5 DEF Next, Handling, Touch, Connect, StartLive, StreamEnds,
       Poll, Take, Run, Refuse, Raise, Crash, vars
<1> QED
  BY <1>1, <1>2, <1>3, TypeCorrect, AloneCorrect, PTL DEF Spec, ResultKept
-----------------------------------------------------------------------------
(* Any workers: runs are counted against what the table asked for.           *)

\* A worker has a row in hand once, or twice if its producer edited it.
FewPlaces(w, r) ==
  /\ \A i, j, k \in InHand(w, r) : i = j \/ j = k \/ i = k
  /\ r \notin touched => \A i, j \in InHand(w, r) : i = j
  /\ status[r] = "absent" => InHand(w, r) = {}

FewInv == \A w \in Worker, r \in Row : FewPlaces(w, r)

LEMMA FewKept ==
  ASSUME TypeOK, TypeOK', FewInv, [Next]_vars
  PROVE  FewInv'
<1> SUFFICES ASSUME NEW w \in Worker, NEW r \in Row PROVE FewPlaces(w, r)'
  BY DEF FewInv
<1>0. FewPlaces(w, r) /\ Rust \subseteq Worker
  BY DEF FewInv, Worker
<1>a. status'[r] = "absent" => status[r] = "absent"
  <2>1. ASSUME NEW v \in Worker, Claim(v) \/ Ack(v)
        PROVE  status'[r] = "absent" => status[r] = "absent"
    BY <2>1 DEF Claim, Ack, Update, Claimed, Outcome, TypeOK
  <2>2. ASSUME NEW q \in Row, Create(q) PROVE status'[r] = "absent" => status[r] = "absent"
    BY <2>2 DEF Create, TypeOK
  <2>3. CASE UNCHANGED status
    BY <2>3
  <2> QED
    BY <1>0, <2>1, <2>2, <2>3 DEF Next, Handling, Touch, Connect, StartLive, StreamEnds,
       Poll, Take, Run, Refuse, Raise, Crash, vars
<1>s. ASSUME InHand(w, r)' \subseteq InHand(w, r), UNCHANGED touched PROVE FewPlaces(w, r)'
  BY <1>0, <1>a, <1>s DEF FewPlaces
<1>u. ASSUME UNCHANGED touched, todo'[w] = todo[w], cur'[w] = cur[w] PROVE FewPlaces(w, r)'
  BY <1>s, <1>u DEF InHand
<1>1. ASSUME NEW q \in Row, Create(q) PROVE FewPlaces(w, r)'
  <2>1. UNCHANGED touched /\ (q = r => InHand(w, r) = {})
    BY <1>0, <1>1 DEF Create, FewPlaces
  <2>2. q = r => status'[r] = "new"
    BY <1>1 DEF Create, TypeOK
  <2>3. \/ InHand(w, r)' = InHand(w, r)
        \/ q = r /\ InHand(w, r)' = InHand(w, r) \cup {Len(todo[w]) + 1}
    BY <1>1, NotifiedPlaces DEF Create
  <2> QED
    BY <1>s, <2>1, <2>2, <2>3 DEF FewPlaces
<1>2. ASSUME NEW q \in Row, Touch(q) PROVE FewPlaces(w, r)'
  <2>1. /\ touched' = touched \cup {q} /\ status' = status
        /\ q \notin touched /\ status[q] = "new"
    BY <1>2 DEF Touch
  <2>2. \/ InHand(w, r)' = InHand(w, r)
        \/ q = r /\ InHand(w, r)' = InHand(w, r) \cup {Len(todo[w]) + 1}
    BY <1>2, NotifiedPlaces DEF Touch
  <2> QED
    BY <1>0, <2>1, <2>2 DEF FewPlaces
<1>3. ASSUME NEW v \in Worker,
             \/ Connect(v) \/ StreamEnds(v) \/ (\E started \in BOOLEAN : StartLive(v, started))
             \/ Claim(v) \/ Run(v) \/ Refuse(v)
      PROVE  FewPlaces(w, r)'
  BY <1>3, <1>u DEF Connect, StreamEnds, StartLive, Claim, Run, Refuse
<1>4. ASSUME NEW v \in Worker, Poll(v) \/ Take(v) \/ Raise(v) \/ Ack(v) \/ Crash(v), v # w
      PROVE  FewPlaces(w, r)'
  BY <1>4, <1>u DEF Poll, Take, Raise, Ack, Crash, TypeOK
<1>5. ASSUME Poll(w) PROVE FewPlaces(w, r)'
  <2>1. PICK batch \in Fetched(w) : todo'[w] = batch
    BY <1>5 DEF Poll, TypeOK
  <2>2. cur'[w] = NoRow /\ UNCHANGED <<status, touched>>
    BY <1>5 DEF Poll, TypeOK
  <2>3. InHand(w, r)' = Places(batch, {r})
    BY <2>1, <2>2 DEF InHand, NoRow, Row
  <2> QED
    BY <2>2, <2>3, FetchedOnce DEF FewPlaces
<1>6. ASSUME Take(w) PROVE FewPlaces(w, r)'
  <2>1. UNCHANGED <<status, touched>>
    BY <1>6 DEF Take
  <2>2. \A i \in InHand(w, r)' : i \in Nat /\ i + 1 \in InHand(w, r)
    BY <1>6, TakenPlaces
  <2>3. ASSUME NEW i \in InHand(w, r)', NEW j \in InHand(w, r)', i + 1 = j + 1 PROVE i = j
    BY <2>2, <2>3
  <2>4. \A i, j, k \in InHand(w, r)' : i + 1 = j + 1 \/ j + 1 = k + 1 \/ i + 1 = k + 1
    BY <1>0, <2>2 DEF FewPlaces
  <2>5. r \notin touched => \A i, j \in InHand(w, r)' : i + 1 = j + 1
    BY <1>0, <2>2 DEF FewPlaces
  <2>6. status[r] = "absent" => InHand(w, r)' = {}
    BY <1>0, <2>2 DEF FewPlaces
  <2> QED
    BY <2>1, <2>3, <2>4, <2>5, <2>6 DEF FewPlaces
<1>7. ASSUME Ack(w) \/ Raise(w) \/ Crash(w) PROVE FewPlaces(w, r)'
  <2>1. /\ todo'[w] = todo[w] \/ todo'[w] = <<>>
        /\ cur'[w] = NoRow /\ UNCHANGED touched
    BY <1>7 DEF Ack, Raise, Crash, TypeOK
  <2>2. InHand(w, r)' \subseteq InHand(w, r)
    BY <2>1 DEF InHand, Places, NoRow, Row
  <2> QED
    BY <1>s, <2>1, <2>2
<1>8. CASE UNCHANGED vars
  BY <1>8, <1>u DEF vars
<1> QED
  BY <1>0, <1>1, <1>2, <1>3, <1>4, <1>5, <1>6, <1>7, <1>8 DEF Next, Handling

\* The places of a row that is still to be run, with the worker that has it in hand.
Unrun(w, r) == InHand(w, r) \ (IF at[w] = "ack" THEN {0} ELSE {})
Waiting(r) == { p \in Installed \X Nat : p[2] \in Unrun(p[1], r) }

\* There is one of them for each request of each worker at most.
Counted(r) ==
  /\ IsFiniteSet(Waiting(r)) /\ Cardinality(Waiting(r)) \in Nat
  /\ Cardinality(Installed) \in Nat
  /\ Cardinality(Waiting(r)) <= Cardinality(Installed) * Requests(r)

LEMMA WaitingCounted ==
  TypeOK /\ FewInv /\ IsFiniteSet(Installed) => \A r \in Row : Counted(r)
<1> SUFFICES ASSUME TypeOK, FewInv, IsFiniteSet(Installed), NEW r \in Row PROVE Counted(r)
  OBVIOUS
<1> DEFINE u == [w \in Installed |-> Unrun(w, r)]
           n == Requests(r)
<1>1. Installed \subseteq Worker /\ n \in {1, 2}
  BY DEF Installed, Requests
<1>2. u \in [Installed -> SUBSET Nat]
  <2>1. ASSUME NEW w \in Installed PROVE Unrun(w, r) \subseteq Nat
    BY <1>1, PlacesFinite DEF Unrun, InHand, TypeOK
  <2> QED
    BY <2>1
<1>3. ASSUME NEW w \in Installed
      PROVE  /\ \A i, j, k \in u[w] : i = j \/ j = k \/ i = k
             /\ n = 1 => \A i, j \in u[w] : i = j
  <2>1. FewPlaces(w, r) /\ u[w] \subseteq InHand(w, r)
    BY <1>1 DEF FewInv, Unrun
  <2> QED
    BY <2>1 DEF FewPlaces, Requests
<1>4. Waiting(r) = { p \in Installed \X Nat : p[2] \in u[p[1]] }
  BY DEF Waiting
<1> HIDE DEF u, n
<1>5. LET W == { p \in Installed \X Nat : p[2] \in u[p[1]] }
      IN /\ IsFiniteSet(W) /\ Cardinality(W) \in Nat
         /\ Cardinality(Installed) \in Nat /\ Cardinality(W) <= Cardinality(Installed) * n
  BY <1>1, <1>2, <1>3, FewPairs
<1> QED
  BY <1>4, <1>5 DEF Counted, n

LEMMA WaitingCountedNext ==
  TypeOK' /\ FewInv' /\ IsFiniteSet(Installed)' => (\A r \in Row : Counted(r))'
BY WaitingCounted, PTL

\* A row that may still come with a poll or a notification has not been run, and of
\* another what was run and what will be stays within what the table asked for.
CountInv ==
  \A r \in Row : Reached(r) =>
    IF status[r] \in {"absent", "new"}
    THEN runs[r] = 0
    ELSE runs[r] + Cardinality(Waiting(r)) <= Cardinality(Installed) * Requests(r)

\* A row that is not 'new' is fetched and notified no more: those that wait for it
\* become fewer with every run.
LEMMA WaitingShrinks ==
  ASSUME TypeOK, TypeOK', OffIsIdle, FewInv, IsFiniteSet(Installed), [Next]_vars,
         NEW r \in Row, status[r] \notin {"absent", "new"}
  PROVE  /\ Cardinality(Waiting(r)') \in Nat
         /\ runs'[r] + Cardinality(Waiting(r)') <= runs[r] + Cardinality(Waiting(r))
<1>0. /\ IsFiniteSet(Waiting(r)) /\ Cardinality(Waiting(r)) \in Nat
      /\ runs[r] \in Nat /\ Rust \subseteq Worker
  <2>1. MaxRuns \in Nat /\ runs[r] \in 0 .. MaxRuns
    BY WorkersAssumption DEF WorkersAssumption, TypeOK
  <2> QED
    BY <2>1, WaitingCounted DEF Counted, Worker
<1>1. Installed' = Installed /\ Installed \subseteq Worker
  BY ReachedKept DEF Installed
<1>s. ASSUME \A v \in Worker : Unrun(v, r)' \subseteq Unrun(v, r), runs'[r] = runs[r]
      PROVE  /\ Cardinality(Waiting(r)') \in Nat
             /\ runs'[r] + Cardinality(Waiting(r)') <= runs[r] + Cardinality(Waiting(r))
  <2>1. Waiting(r)' \subseteq Waiting(r)
    BY <1>1, <1>s DEF Waiting
  <2>2. IsFiniteSet(Waiting(r)') /\ Cardinality(Waiting(r)') <= Cardinality(Waiting(r))
    BY <1>0, <2>1, FS_Subset
  <2>3. Cardinality(Waiting(r)') \in Nat
    BY <2>2, FS_CardinalityType
  <2> QED
    BY <1>0, <1>s, <2>2, <2>3
<1> DEFINE Goal == /\ Cardinality(Waiting(r)') \in Nat
                   /\ runs'[r] + Cardinality(Waiting(r)') <= runs[r] + Cardinality(Waiting(r))
<1> HIDE DEF Goal
<1>e. ASSUME \A v \in Worker : Unrun(v, r)' \subseteq Unrun(v, r), runs'[r] = runs[r]
      PROVE  Goal
  BY <1>s, <1>e DEF Goal
<1>2. ASSUME NEW q \in Row, Create(q) \/ Touch(q) PROVE Goal
  <2>1. q # r /\ Notify(q) /\ UNCHANGED <<runs, at, cur>>
    BY <1>2 DEF Create, Touch
  <2>2. \A v \in Worker : InHand(v, r)' = InHand(v, r)
    BY <2>1, NotifiedPlaces
  <2> QED
    BY <1>e, <2>1, <2>2 DEF Unrun
<1>3. ASSUME NEW w \in Worker,
             \/ Connect(w) \/ StreamEnds(w) \/ (\E started \in BOOLEAN : StartLive(w, started))
      PROVE  Goal
  <2>1. UNCHANGED <<runs, todo, at, cur>>
    BY <1>3 DEF Connect, StreamEnds, StartLive
  <2> QED
    BY <1>e, <2>1 DEF Unrun, InHand
<1>o. ASSUME NEW w \in Worker, Poll(w) \/ Handling(w) \/ Crash(w),
             Unrun(w, r)' \subseteq Unrun(w, r), runs'[r] = runs[r]
      PROVE  Goal
  <2>1. ASSUME NEW v \in Worker, v # w PROVE Unrun(v, r)' = Unrun(v, r)
    <3>1. todo'[v] = todo[v] /\ at'[v] = at[v] /\ cur'[v] = cur[v]
      <4>1. CASE Poll(w) \/ Take(w)
        BY <2>1, <4>1 DEF Poll, Take, TypeOK
      <4>2. CASE Claim(w) \/ Run(w) \/ Refuse(w)
        BY <2>1, <4>2 DEF Claim, Run, Refuse, TypeOK
      <4>3. CASE Raise(w) \/ Ack(w) \/ Crash(w)
        BY <2>1, <4>3 DEF Raise, Ack, Crash, TypeOK
      <4> QED
        BY <1>o, <4>1, <4>2, <4>3 DEF Handling
    <3> QED
      BY <3>1 DEF Unrun, InHand
  <2> QED
    BY <1>e, <1>o, <2>1
<1>4. ASSUME NEW w \in Worker, Poll(w) PROVE Goal
  <2>1. PICK batch \in Fetched(w) : todo'[w] = batch
    BY <1>4 DEF Poll, TypeOK
  <2>2. runs' = runs /\ cur'[w] = NoRow
    BY <1>4 DEF Poll, TypeOK
  <2>3. InHand(w, r)' = {}
    BY <2>1, <2>2, FetchedOnce DEF InHand, NoRow, Row
  <2> QED
    BY <1>4, <1>o, <2>2, <2>3 DEF Unrun
<1>5. ASSUME NEW w \in Worker, Take(w) PROVE Goal
  <2>0. w \in Installed
    BY <1>5 DEF Take, OffIsIdle, Installed
  <2>1. at[w] # "ack" /\ at'[w] # "ack" /\ runs' = runs
    BY <1>5 DEF Take, TypeOK
  <2>2. \A i \in Unrun(w, r)' : i \in Nat /\ i + 1 \in Unrun(w, r)
    BY <1>5, <2>1, TakenPlaces DEF Unrun
  <2>3. ASSUME NEW v \in Worker, v # w PROVE Unrun(v, r)' = Unrun(v, r)
    <3>1. todo'[v] = todo[v] /\ at'[v] = at[v] /\ cur'[v] = cur[v]
      BY <1>5, <2>3 DEF Take, TypeOK
    <3> QED
      BY <3>1 DEF Unrun, InHand
  <2> DEFINE S == Waiting(r)'
             T == Waiting(r)
             shift == [p \in S |-> IF p[1] = w THEN <<w, p[2] + 1>> ELSE p]
  <2>4. ASSUME NEW p \in S
        PROVE  /\ p = <<p[1], p[2]>> /\ p[1] \in Installed /\ p[2] \in Nat
               /\ p[2] \in Unrun(p[1], r)'
    BY <1>1 DEF Waiting
  <2>5. shift \in [S -> T]
    <3>1. ASSUME NEW p \in S, p[1] = w PROVE <<w, p[2] + 1>> \in T
      BY <2>0, <2>2, <2>4, <3>1 DEF Waiting
    <3>2. ASSUME NEW p \in S, p[1] # w PROVE p \in T
      BY <1>1, <2>3, <2>4, <3>2 DEF Waiting
    <3> HIDE DEF S, T
    <3> QED
      BY <3>1, <3>2
  <2>6. ASSUME NEW a \in S, NEW b \in S, shift[a] = shift[b] PROVE a = b
    <3>1. /\ a = <<a[1], a[2]>> /\ a[2] \in Nat
          /\ b = <<b[1], b[2]>> /\ b[2] \in Nat
      BY <2>4
    <3> HIDE DEF S, T
    <3>2. (IF a[1] = w THEN <<w, a[2] + 1>> ELSE a) = (IF b[1] = w THEN <<w, b[2] + 1>> ELSE b)
      BY <2>6
    <3>3. a[1] = b[1] /\ a[2] = b[2]
      BY <3>1, <3>2
    <3> QED
      BY <3>1, <3>3
  <2> HIDE DEF S, T, shift
  <2>7. IsFiniteSet(S) /\ Cardinality(S) <= Cardinality(T)
    <3>1. IsFiniteSet(T)
      BY <1>0 DEF T
    <3> QED
      BY <2>5, <2>6, <3>1, NoMoreThan
  <2>8. Cardinality(S) \in Nat
    BY <2>7, FS_CardinalityType
  <2> QED
    BY <1>0, <2>1, <2>7, <2>8 DEF S, T, Goal
<1>6. ASSUME NEW w \in Worker, Claim(w) PROVE Goal
  <2>1. UNCHANGED <<todo, cur, runs>> /\ at[w] # "ack"
    BY <1>6 DEF Claim
  <2> QED
    BY <1>6, <1>o, <2>1 DEF Handling, Unrun, InHand
<1>7. ASSUME NEW w \in Worker, Run(w) \/ Refuse(w) PROVE Goal
  <2>1. UNCHANGED <<todo, cur>> /\ at[w] = "run" /\ at'[w] = "ack"
    BY <1>7 DEF Run, Refuse, TypeOK
  <2>2. Unrun(w, r) = InHand(w, r) /\ Unrun(w, r)' = InHand(w, r) \ {0}
    BY <2>1 DEF Unrun, InHand
  <2>3. CASE cur[w] # r
    <3>1. runs'[r] = runs[r]
      BY <1>7, <2>3 DEF Run, Refuse, TypeOK
    <3> QED
      BY <1>7, <1>o, <2>2, <3>1 DEF Handling
  <2>4. CASE cur[w] = r
    <3>1. <<w, 0>> \in Waiting(r)
      BY <2>1, <2>2, <2>4 DEF Waiting, InHand, Installed, OffIsIdle
    <3>2. ASSUME NEW v \in Worker, v # w PROVE Unrun(v, r)' = Unrun(v, r)
      <4>1. todo'[v] = todo[v] /\ at'[v] = at[v] /\ cur'[v] = cur[v]
        BY <1>7, <3>2 DEF Run, Refuse, TypeOK
      <4> QED
        BY <4>1 DEF Unrun, InHand
    <3>3. Waiting(r)' \subseteq Waiting(r) \ {<<w, 0>>}
      BY <1>1, <2>2, <3>2 DEF Waiting
    <3>4. /\ IsFiniteSet(Waiting(r) \ {<<w, 0>>})
          /\ Cardinality(Waiting(r) \ {<<w, 0>>}) = Cardinality(Waiting(r)) - 1
      BY <1>0, <3>1, FS_RemoveElement
    <3>5. IsFiniteSet(Waiting(r)') /\ Cardinality(Waiting(r)') <= Cardinality(Waiting(r)) - 1
      BY <3>3, <3>4, FS_Subset
    <3>6. Cardinality(Waiting(r)') \in Nat
      BY <3>5, FS_CardinalityType
    <3>7. runs'[r] = runs[r] \/ runs'[r] = runs[r] + 1
      BY <1>7, <2>4 DEF Run, Refuse, TypeOK
    <3> QED
      BY <1>0, <3>5, <3>6, <3>7 DEF Goal
  <2> QED
    BY <2>3, <2>4
<1>8. ASSUME NEW w \in Worker, Ack(w) \/ Raise(w) \/ Crash(w) PROVE Goal
  <2>1. /\ todo'[w] = <<>> \/ (todo'[w] = todo[w] /\ at[w] = "ack")
        /\ runs' = runs /\ cur'[w] # r
    BY <1>8 DEF Ack, Raise, Crash, TypeOK, NoRow, Row
  <2>2. Unrun(w, r)' \subseteq Places(todo'[w], {r}) /\ Places(<<>>, {r}) = {}
    BY <2>1 DEF Unrun, InHand, Places
  <2>3. at[w] = "ack" => Places(todo[w], {r}) \subseteq Unrun(w, r)
    BY PlacesFinite DEF Unrun, InHand, TypeOK
  <2> QED
    BY <1>8, <1>o, <2>1, <2>2, <2>3 DEF Handling
<1>9. ASSUME UNCHANGED vars PROVE Goal
  BY <1>9, <1>e DEF vars, Unrun, InHand
<1>10. Goal
  BY <1>0, <1>2, <1>3, <1>4, <1>5, <1>6, <1>7, <1>8, <1>9 DEF Next, Handling
<1> QED
  BY <1>10 DEF Goal

LEMMA CountKept ==
  ASSUME TypeOK, TypeOK', OffIsIdle, FewInv, FewInv', IsFiniteSet(Installed), ClaimHolds,
         CountInv, [Next]_vars
  PROVE  CountInv'
<1> SUFFICES ASSUME NEW r \in Row, Reached(r)'
             PROVE  IF status'[r] \in {"absent", "new"}
                    THEN runs'[r] = 0
                    ELSE runs'[r] + Cardinality(Waiting(r)')
                           <= Cardinality(Installed') * Requests(r)'
  BY DEF CountInv
<1>1. Reached(r) /\ Installed' = Installed
  BY ReachedKept DEF Reached, Addresses, Installed
<1>2. CASE status[r] \in {"absent", "new"}
  <2>1. runs[r] = 0
    BY <1>1, <1>2 DEF CountInv
  <2>2. \A w \in Worker : at[w] = "run" => cur[w] # r
    BY <1>1, <1>2 DEF ClaimHolds
  <2>3. runs'[r] = runs[r]
    <3>1. ASSUME NEW w \in Worker, Run(w) PROVE runs'[r] = runs[r]
      BY <2>2, <3>1 DEF Run, TypeOK
    <3>2. CASE UNCHANGED runs
      BY <3>2
    <3> QED
      BY <3>1, <3>2 DEF Next, Create, Touch, Connect, StreamEnds, StartLive, Poll, Handling,
         Take, Claim, Refuse, Raise, Ack, Crash, vars
  <2>4. Counted(r)'
    BY <1>1, WaitingCountedNext
  <2> QED
    BY <2>1, <2>3, <2>4 DEF Counted
<1>3. CASE status[r] \notin {"absent", "new"}
  <2>1. status'[r] \notin {"absent", "new"}
    BY <1>3, NeverNewAgain
  <2>2. r \in touched' <=> r \in touched
    BY <1>3 DEF Next, Create, Touch, Connect, StreamEnds, StartLive, Poll, Handling, Take,
       Claim, Run, Refuse, Raise, Ack, Crash, vars
  <2>3. Requests(r)' = Requests(r)
    BY <2>2 DEF Requests
  <2>4. runs[r] + Cardinality(Waiting(r)) <= Cardinality(Installed) * Requests(r)
    BY <1>1, <1>3 DEF CountInv
  <2>5. /\ runs'[r] + Cardinality(Waiting(r)') <= runs[r] + Cardinality(Waiting(r))
        /\ Cardinality(Waiting(r)') \in Nat
    BY <1>3, WaitingShrinks
  <2>6. /\ Cardinality(Waiting(r)) \in Nat /\ Cardinality(Installed) \in Nat
        /\ Requests(r) \in Nat /\ runs[r] \in Nat /\ runs'[r] \in Nat
    <3>1. MaxRuns \in Nat /\ runs[r] \in 0 .. MaxRuns /\ runs'[r] \in 0 .. MaxRuns
      BY WorkersAssumption DEF WorkersAssumption, TypeOK
    <3> QED
      BY <3>1, WaitingCounted DEF Counted, Requests
  <2>7. ASSUME NEW x \in Int, x = Cardinality(Installed) * Requests(r)
        PROVE  runs'[r] + Cardinality(Waiting(r)') <= x
    BY <2>4, <2>5, <2>6, <2>7
  <2>8. Cardinality(Installed) * Requests(r) \in Int
    BY <2>6
  <2> QED
    BY <1>1, <2>1, <2>3, <2>7, <2>8
<1> QED
  BY <1>2, <1>3

LEMMA InitCount == Init => OffIsIdle /\ FewInv /\ ClaimHolds /\ CountInv
<1> SUFFICES ASSUME Init PROVE OffIsIdle /\ FewInv /\ ClaimHolds /\ CountInv
  OBVIOUS
<1>1. OffIsIdle /\ ClaimHolds /\ CountInv
  BY DEF Init, OffIsIdle, ClaimHolds, CountInv
<1>2. ASSUME NEW w \in Worker, NEW r \in Row PROVE FewPlaces(w, r)
  <2>1. InHand(w, r) = {}
    BY EmptyHands DEF Init
  <2> QED
    BY <2>1 DEF FewPlaces
<1> QED
  BY <1>1, <1>2 DEF FewInv

\* Those who are installed together are finitely many.
FiniteTeams == \A d \in Deployments : IsFiniteSet(d)

LEMMA TeamStaysFinite ==
  ASSUME FiniteTeams
  PROVE  /\ Init => IsFiniteSet(Installed)
         /\ TypeOK /\ OffIsIdle /\ [Next]_vars /\ IsFiniteSet(Installed) => IsFiniteSet(Installed)'
<1>1. ASSUME Init PROVE IsFiniteSet(Installed)
  <2>1. PICK d \in Deployments :
          mode = [w \in Worker |-> IF w \in d THEN FirstMode(w) ELSE "off"]
    BY <1>1 DEF Init
  <2>2. Installed \subseteq d
    BY <2>1 DEF Installed
  <2> QED
    BY <2>2, FS_Subset DEF FiniteTeams
<1>2. TypeOK /\ OffIsIdle /\ [Next]_vars => Installed' = Installed
  BY ReachedKept DEF Installed
<1> QED
  BY <1>1, <1>2

\* Workers that lose no request run a command once each, and once more each at most if
\* its producer edited it while it was new: for any number of workers on one table,
\* through any crashes, a change from LIVE to polling, and notifications that are stale
\* when they are read.
THEOREM RunsAreAskedFor ==
  ASSUME FiniteTeams, ~StatementsMayFail
  PROVE  Spec => []RunsBounded
<1>1. TypeOK /\ TypeOK' /\ OffIsIdle /\ FewInv /\ IsFiniteSet(Installed) /\ ClaimHolds /\ CountInv
      /\ [Next]_vars
        => OffIsIdle' /\ FewInv' /\ IsFiniteSet(Installed)' /\ ClaimHolds' /\ CountInv'
  BY ReachedKept, FewKept, ClaimKept, CountKept, TeamStaysFinite
<1>2. TypeOK /\ FewInv /\ IsFiniteSet(Installed) /\ CountInv => RunsBounded
  <2> SUFFICES ASSUME TypeOK, FewInv, IsFiniteSet(Installed), CountInv,
                      NEW r \in Row, Reached(r)
               PROVE  runs[r] <= Cardinality(Installed) * Requests(r)
    BY DEF RunsBounded
  <2>1. Counted(r) /\ runs[r] \in Nat
    <3>1. MaxRuns \in Nat /\ runs[r] \in 0 .. MaxRuns
      BY WorkersAssumption DEF WorkersAssumption, TypeOK
    <3> QED
      BY <3>1, WaitingCounted
  <2>2. ASSUME NEW x \in Int, x = Cardinality(Installed) * Requests(r) PROVE runs[r] <= x
    BY <2>1, <2>2 DEF Counted, CountInv
  <2>3. Cardinality(Installed) * Requests(r) \in Int
    BY <2>1 DEF Counted, Requests
  <2> QED
    BY <2>2, <2>3
<1> QED
  BY <1>1, <1>2, InitCount, TeamStaysFinite, TypeCorrect, PTL DEF Spec
-----------------------------------------------------------------------------
(* Workers that lose no request implement the command feed.                  *)

LEMMA InFinished ==
  /\ \A x : x \in finished <=> x \in Plain /\ status[x] = "done"
  /\ \A x : x \in finished' <=> x \in Plain /\ status'[x] = "done"
BY DEF finished

\* Every statement about a plain row reaches it.
LEMMA PlainReached ==
  ASSUME NEW r \in Plain
  PROVE  /\ r \in Row /\ Reached(r) /\ Reached(r)'
         /\ \A w \in Worker : Addresses(w, r)
BY DEF Plain, Reached, Addresses

\* A step that leaves touched and the absent rows alone asks for nothing.
LEMMA AskedKept ==
  ASSUME UNCHANGED <<touched, Installed>>,
         \A r \in Plain : status'[r] = "absent" <=> status[r] = "absent"
  PROVE  asked' = asked
BY DEF asked, Requests

\* Writing a row that exists: only its place among the reported ones may change.
LEMMA RowWritten ==
  ASSUME TypeOK, NEW w \in Worker, NEW r \in Row, status[r] # "absent",
         NEW s \in {"processing", "done", "failed"}, Update(w, r, s),
         UNCHANGED <<touched, runs, Installed>>
  PROVE  /\ UNCHANGED <<asked, begun>>
         /\ \/ finished' = finished
            \/ r \in Plain /\ finished' = IF s = "done" THEN finished \cup {r} ELSE finished \ {r}
<1>1. begun' = begun
  BY DEF begun
<1>2. CASE UNCHANGED status
  <2>1. asked' = asked
    BY <1>2, AskedKept
  <2> QED
    BY <1>1, <1>2, <2>1 DEF finished
<1>3. CASE status' = [status EXCEPT ![r] = s]
  <2>1. \A x \in Row : status'[x] = IF x = r THEN s ELSE status[x]
    BY <1>3 DEF TypeOK
  <2>2. asked' = asked
    BY <2>1, AskedKept DEF Plain
  <2>3. CASE r \notin Plain
    <3>1. \A x : x \in finished' <=> x \in finished
      BY <2>1, <2>3, InFinished DEF Plain
    <3>2. finished' = finished
      BY <3>1
    <3> QED
      BY <1>1, <2>2, <3>2
  <2>4. CASE r \in Plain /\ s = "done"
    <3>1. \A x : x \in finished' <=> x \in finished \cup {r}
      BY <2>1, <2>4, InFinished DEF Plain
    <3>2. finished' = finished \cup {r}
      BY <3>1
    <3> QED
      BY <1>1, <2>2, <2>4, <3>2
  <2>5. CASE r \in Plain /\ s # "done"
    <3>1. \A x : x \in finished' <=> x \in finished \ {r}
      BY <2>1, <2>5, InFinished DEF Plain
    <3>2. finished' = finished \ {r}
      BY <3>1
    <3> QED
      BY <1>1, <2>2, <2>5, <3>2
  <2> QED
    BY <2>3, <2>4, <2>5
<1> QED
  BY <1>2, <1>3 DEF Update

\* Creating a row and editing it ask for it.
LEMMA ProducerFeeds ==
  ASSUME TypeOK, TypeOK', Cardinality(Installed) \in Nat, UNCHANGED Installed,
         NEW r \in Row, Create(r) \/ Touch(r)
  PROVE  [Feed!Next]_(Feed!vars)
<1>1. /\ status[r] \in {"absent", "new"} /\ status'[r] = "new" /\ runs' = runs
      /\ \A x \in Row \ {r} : status'[x] = status[x] /\ (x \in touched' <=> x \in touched)
      /\ r \in touched => r \in touched'
  BY DEF Create, Touch, TypeOK
<1>2. begun' = begun
  BY <1>1 DEF begun
<1>3. finished' = finished \ {r}
  <2>1. \A x : x \in finished' <=> x \in finished \ {r}
    BY <1>1, InFinished DEF Plain
  <2> QED
    BY <2>1
<1>4. CASE r \in Plain
  <2>1. asked' \in [Plain -> Nat]
    BY DEF asked, Requests
  <2>2. asked'[r] >= asked[r]
    <3>1. CASE status[r] = "absent" \/ Requests(r)' = Requests(r)
      BY <1>1, <1>4, <2>1, <3>1 DEF asked, Requests
    <3>2. CASE Requests(r)' # Requests(r)
      <4>1. Requests(r) = 1 /\ Requests(r)' = 2
        BY <1>1, <3>2 DEF Requests
      <4> QED
        BY <1>1, <1>4, <4>1 DEF asked
    <3> QED
      BY <3>1, <3>2
  <2>3. \A x \in Plain \ {r} : asked'[x] = asked[x]
    BY <1>1 DEF asked, Plain, Requests
  <2> QED
    BY <1>2, <1>3, <1>4, <2>1, <2>2, <2>3 DEF Feed!Next, Feed!Ask
<1>5. CASE r \notin Plain
  <2>1. asked' = asked
    BY <1>1, <1>5 DEF asked, Plain, Requests
  <2>2. finished' = finished
    BY <1>3, <1>5 DEF finished
  <2> QED
    BY <1>2, <2>1, <2>2 DEF Feed!vars
<1> QED
  BY <1>4, <1>5

\* A worker claims no row that is absent, runs what was asked for, and reports what it
\* has run.
LEMMA HandlingFeeds ==
  ASSUME TypeOK, TypeOK', OffIsIdle, FewInv, ClaimHolds, RunsBounded', GoodResult,
         Cardinality(Installed) \in Nat, UNCHANGED Installed,
         NEW w \in Worker, Handling(w)
  PROVE  [Feed!Next]_(Feed!vars)
<1>0. mode[w] # "off" /\ (at[w] # "idle" => cur[w] \in Row)
  BY DEF Handling, Take, Claim, Run, Refuse, Raise, Ack, OffIsIdle, TypeOK
<1>a. ASSUME UNCHANGED <<asked, begun, finished>> PROVE [Feed!Next]_(Feed!vars)
  BY <1>a DEF Feed!vars
<1>1. ASSUME Take(w) \/ Refuse(w) \/ Raise(w) PROVE [Feed!Next]_(Feed!vars)
  <2>1. UNCHANGED <<status, touched, runs>>
    BY <1>1 DEF Take, Refuse, Raise
  <2> QED
    BY <1>a, <2>1 DEF asked, Requests, begun, finished
<1>2. ASSUME Claim(w) PROVE [Feed!Next]_(Feed!vars)
  <2>1. cur[w] \in Row /\ Update(w, cur[w], "processing") /\ UNCHANGED <<touched, runs>>
    BY <1>0, <1>2 DEF Claim, Claimed
  <2>2. CASE cur[w] \in Plain
    <3>1. 0 \in InHand(w, cur[w])
      BY DEF InHand
    <3>2. status[cur[w]] # "absent"
      BY <2>1, <3>1 DEF FewInv, FewPlaces
    <3>3. UNCHANGED <<asked, begun>> /\ (finished' = finished \/ finished' = finished \ {cur[w]})
      BY <2>1, <3>2, RowWritten
    <3> QED
      BY <1>a, <2>2, <3>3 DEF Feed!Next, Feed!Withdraw
  <2>3. CASE cur[w] \notin Plain
    <3>1. \A x \in Plain : status'[x] = status[x]
      BY <2>1, <2>3 DEF Update, Plain, TypeOK
    <3>2. asked' = asked /\ begun' = begun /\ finished' = finished
      BY <2>1, <3>1 DEF asked, Requests, begun, finished
    <3> QED
      BY <1>a, <3>2
  <2> QED
    BY <2>2, <2>3
<1>3. ASSUME Run(w) PROVE [Feed!Next]_(Feed!vars)
  <2>1. /\ cur[w] \in Row /\ at[w] = "run" /\ UNCHANGED <<status, touched>>
        /\ runs' = [runs EXCEPT ![cur[w]] = IF @ < MaxRuns THEN @ + 1 ELSE @]
    BY <1>0, <1>3 DEF Run
  <2>2. asked' = asked /\ finished' = finished
    BY <2>1 DEF asked, Requests, finished
  <2>3. CASE cur[w] \in Plain /\ runs[cur[w]] < MaxRuns
    <3>1. /\ runs'[cur[w]] = runs[cur[w]] + 1
          /\ runs'[cur[w]] <= Cardinality(Installed) * Requests(cur[w])
      BY <2>1, <2>3, PlainReached DEF RunsBounded, Requests, TypeOK
    <3>2. status[cur[w]] # "absent"
      BY <2>1, <2>3, PlainReached DEF ClaimHolds
    <3>3. runs[cur[w]] \in Nat
      BY <2>1, WorkersAssumption DEF WorkersAssumption, TypeOK
    <3>4. begun[cur[w]] < asked[cur[w]]
      <4>1. ASSUME NEW x \in Int, x = Cardinality(Installed) * Requests(cur[w])
            PROVE  runs[cur[w]] < x
        BY <3>1, <3>3, <4>1
      <4>2. Cardinality(Installed) * Requests(cur[w]) \in Int
        BY DEF Requests
      <4> QED
        BY <2>3, <3>2, <4>1, <4>2 DEF begun, asked
    <3>5. begun' = [begun EXCEPT ![cur[w]] = @ + 1]
      BY <2>1, <2>3, <3>1 DEF begun, Plain, TypeOK
    <3> QED
      BY <2>2, <2>3, <3>4, <3>5 DEF Feed!Next, Feed!Begin
  <2>4. CASE ~(cur[w] \in Plain /\ runs[cur[w]] < MaxRuns)
    <3>1. \A x \in Plain : runs'[x] = runs[x]
      BY <2>1, <2>4 DEF Plain, TypeOK
    <3>2. begun' = begun
      BY <3>1 DEF begun
    <3> QED
      BY <1>a, <2>2, <3>2
  <2> QED
    BY <2>3, <2>4
<1>4. ASSUME Ack(w) PROVE [Feed!Next]_(Feed!vars)
  <2>1. /\ cur[w] \in Row /\ Update(w, cur[w], Outcome(w)) /\ UNCHANGED <<touched, runs>>
        /\ at[w] = "ack" /\ Outcome(w) \in {"processing", "done", "failed"}
    BY <1>0, <1>4 DEF Ack, Outcome
  <2>2. CASE cur[w] \in Plain
    <3>1. status[cur[w]] # "absent"
      BY <2>1, <2>2, PlainReached DEF ClaimHolds
    <3>2. /\ UNCHANGED <<asked, begun>>
          /\ \/ finished' = finished
             \/ finished' = IF Outcome(w) = "done" THEN finished \cup {cur[w]} ELSE finished \ {cur[w]}
      BY <2>1, <3>1, RowWritten
    <3>3. CASE ok[w]
      <4>1. begun[cur[w]] > 0 /\ cur[w] \notin Refused
        BY <2>2, <3>3 DEF GoodResult, begun
      <4> QED
        BY <1>a, <2>2, <3>2, <3>3, <4>1 DEF Outcome, Feed!Next, Feed!Report
    <3>4. CASE ~ok[w]
      BY <1>a, <2>2, <3>2, <3>4 DEF Outcome, Feed!Next, Feed!Withdraw
    <3> QED
      BY <3>3, <3>4
  <2>3. CASE cur[w] \notin Plain
    <3>1. \A x \in Plain : status'[x] = status[x]
      BY <2>1, <2>3 DEF Update, Plain, TypeOK
    <3>2. asked' = asked /\ begun' = begun /\ finished' = finished
      BY <2>1, <3>1 DEF asked, Requests, begun, finished
    <3> QED
      BY <1>a, <3>2
  <2> QED
    BY <2>2, <2>3
<1> QED
  BY <1>1, <1>2, <1>3, <1>4 DEF Handling

LEMMA FeedStep ==
  ASSUME TypeOK, TypeOK', OffIsIdle, FewInv, IsFiniteSet(Installed), ClaimHolds, RunsBounded',
         GoodResult, [Next]_vars
  PROVE  [Feed!Next]_(Feed!vars)
<1>0. Cardinality(Installed) \in Nat /\ UNCHANGED Installed
  BY FS_CardinalityType, ReachedKept DEF Installed
<1>1. ASSUME UNCHANGED <<status, touched, runs>> PROVE [Feed!Next]_(Feed!vars)
  BY <1>0, <1>1 DEF Feed!vars, asked, Requests, begun, finished
<1>2. ASSUME NEW w \in Worker,
             \/ Connect(w) \/ StreamEnds(w) \/ (\E started \in BOOLEAN : StartLive(w, started))
             \/ Poll(w) \/ Crash(w)
      PROVE  UNCHANGED <<status, touched, runs>>
  BY <1>2 DEF Connect, StreamEnds, StartLive, Poll, Crash
<1>3. Rust \subseteq Worker
  BY DEF Worker
<1> QED
  BY <1>0, <1>1, <1>2, <1>3, ProducerFeeds, HandlingFeeds DEF Next, vars

\* Workers that share a table and lose no request implement the command feed: they begin
\* what the table has asked each of them for and not more often, take back no request,
\* and report as done what has been run, through crashes and the change from LIVE to
\* polling.
THEOREM WorkersAreAFeed ==
  ASSUME FiniteTeams, ~StatementsMayFail
  PROVE  Spec => ImplementsFeed
<1>1. Init => Feed!Init /\ GoodResult /\ DoneWasRun
  <2> SUFFICES ASSUME Init PROVE Feed!Init /\ GoodResult /\ DoneWasRun
    OBVIOUS
  <2>1. asked \in [Plain -> Nat]
    BY TeamStaysFinite, FS_CardinalityType DEF asked, Requests
  <2>2. begun = [r \in Plain |-> 0] /\ finished = {}
    BY DEF Init, begun, finished, Plain
  <2> QED
    BY <2>1, <2>2 DEF Init, Feed!Init, GoodResult, DoneWasRun
<1>2. TypeOK /\ TypeOK' /\ OffIsIdle /\ FewInv /\ IsFiniteSet(Installed) /\ ClaimHolds
      /\ RunsBounded' /\ GoodResult /\ DoneWasRun /\ [Next]_vars
        => /\ OffIsIdle' /\ FewInv' /\ IsFiniteSet(Installed)' /\ ClaimHolds'
           /\ GoodResult' /\ DoneWasRun' /\ [Feed!Next]_(Feed!vars)
  BY ReachedKept, FewKept, TeamStaysFinite, ClaimKept, ReportsKept, FeedStep
<1> QED
  BY <1>1, <1>2, InitCount, TeamStaysFinite, RunsAreAskedFor, TypeCorrect, PTL
  DEF Spec, ImplementsFeed, Feed!Spec
=============================================================================
