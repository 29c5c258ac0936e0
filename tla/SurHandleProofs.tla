--------------------------- MODULE SurHandleProofs ---------------------------
(* Theorems about SurHandle, for any set of callers and every bound. *)
EXTENDS SurHandle, TLAPS

LEMMA InitTypeOK == Init => TypeOK
BY HandleAssumption DEF HandleAssumption, Init, TypeOK, Positions, Codes, NoConn, NoText

\* The codes are those that the entry points return and store.
LEMMA CodesInRange ==
  ASSUME NEW o \in Op
  PROVE  /\ ArgumentCodes(o) \subseteq Codes
         /\ ReconnectCode(o) \in Codes /\ RequestCode(o) \in Codes /\ StoredCode(o) \in Codes
         /\ 0 \in Codes
<1>1. o \in {"publish", "update", "select", "get"}
  BY HandleAssumption DEF HandleAssumption
<1> QED
  BY <1>1 DEF ArgumentCodes, ReconnectCode, RequestCode, StoredCode, Codes

\* The variables keep their types: what a caller works with is a connection that
\* was opened, and an error text is that of a call that was made.
LEMMA NextTypeOK == TypeOK /\ [Next]_vars => TypeOK'
<1> SUFFICES ASSUME TypeOK, [Next]_vars PROVE TypeOK'
  OBVIOUS
<1> USE DEF TypeOK, Positions, NoConn, NoText, Goto, Finish, callVars
<1>1. ASSUME NEW c \in Caller, NEW o \in Op, NEW result \in {0} \cup ArgumentCodes(o), Call(c, o, result)
      PROVE  TypeOK'
  <2>1. calls' \in 0 .. MaxCalls /\ calls' = calls + 1 /\ calls \in Nat
    BY <1>1, HandleAssumption DEF Call, HandleAssumption
  <2>2. /\ call' \in [Caller -> 0 .. calls']
        /\ text' \in [Caller -> 0 .. calls']
        /\ last_error_msg' \in 0 .. calls'
    BY <1>1, <2>1 DEF Call
  <2>3. /\ pc' \in [Caller -> Positions] /\ op' \in [Caller -> Op]
    BY <1>1 DEF Call, FirstStep
  <2>5. rc' \in [Caller -> Codes] /\ code' \in [Caller -> Codes]
    BY <1>1, CodesInRange DEF Call, FirstStep
  <2>4. /\ UNCHANGED <<handle, client, opened, dropped, last_error_code, ref, failed>>
        /\ \A d \in Caller : pc'[d] \in {"store", "query", "error", "code", "reset"} => pc'[d] = pc[d]
        /\ handle = "open"
    BY <1>1 DEF Call, FirstStep
  <2> QED
    BY <2>1, <2>2, <2>3, <2>4, <2>5
<1>2. ASSUME NEW c \in Caller, ClearText(c) PROVE TypeOK'
  BY <1>2 DEF ClearText
<1>3. ASSUME NEW c \in Caller, Look(c) PROVE TypeOK'
  BY <1>3 DEF Look, HasClient
<1>4. ASSUME NEW c \in Caller, OpenClient(c) PROVE TypeOK'
  <2>1. opened \in Nat /\ opened' = opened + 1 /\ opened' \in 1 .. MaxConn
    BY <1>4, HandleAssumption DEF OpenClient, HandleAssumption
  <2>2. /\ client' \in 0 .. opened' /\ dropped' \in SUBSET (1 .. opened')
        /\ failed' \in SUBSET (1 .. opened')
    BY <1>4, <2>1 DEF OpenClient
  <2>3. /\ ref' \in [Caller -> 0 .. opened']
        /\ \A d \in Caller : pc'[d] \in {"store", "query", "error", "code", "reset"} => ref'[d] # NoConn
    BY <1>4, <2>1 DEF OpenClient
  <2> QED
    BY <1>4, <2>1, <2>2, <2>3 DEF OpenClient
<1>5. ASSUME NEW c \in Caller, OpenFails(c) PROVE TypeOK'
  BY <1>5, CodesInRange DEF OpenFails
<1>6. ASSUME NEW c \in Caller, Store(c) PROVE TypeOK'
  BY <1>6 DEF Store, Drop
<1>7. ASSUME NEW c \in Caller, Unwrap(c) PROVE TypeOK'
  BY <1>7 DEF Unwrap
<1>8. ASSUME NEW c \in Caller, NEW executed \in BOOLEAN, QueryAnswered(c, executed)
      PROVE  TypeOK'
  BY <1>8, CodesInRange DEF QueryAnswered
<1>9. ASSUME NEW c \in Caller, QueryFails(c) PROVE TypeOK'
  BY <1>9 DEF QueryFails
<1>10. ASSUME NEW c \in Caller, RecordError(c) PROVE TypeOK'
  BY <1>10 DEF RecordError, ErrorText
<1>14. ASSUME NEW c \in Caller, RecordCode(c) PROVE TypeOK'
  BY <1>14, CodesInRange DEF RecordCode
<1>15. ASSUME NEW c \in Caller, ReadCode(c) PROVE TypeOK'
  BY <1>15, CodesInRange DEF ReadCode
<1>16. ASSUME Connect PROVE TypeOK'
  <2>1. opened = 0 /\ client = 0 /\ dropped = {} /\ failed = {}
    BY <1>16 DEF Connect
  <2>2. /\ opened' \in 0 .. MaxConn /\ client' \in 0 .. opened' /\ opened' \in Nat
        /\ handle' \in {"null", "open"} /\ handle' = "null" => opened' = 0
    BY <1>16, <2>1, HandleAssumption DEF Connect, HandleAssumption
  <2>3. /\ dropped' \subseteq 1 .. opened' /\ failed' \subseteq 1 .. opened'
        /\ ref' \in [Caller -> 0 .. opened']
    BY <1>16, <2>1, <2>2 DEF Connect
  <2> QED
    BY <1>16, <2>2, <2>3 DEF Connect
<1>17. ASSUME Close PROVE TypeOK'
  BY <1>17 DEF Close, Drop
<1>11. ASSUME NEW c \in Caller, ResetClient(c) PROVE TypeOK'
  <2>1. client' = 0 /\ opened' = opened /\ pc[c] = "reset"
    BY <1>11 DEF ResetClient, AfterFailure
  <2>2. dropped' \in SUBSET (1 .. opened) /\ failed' \in SUBSET (1 .. opened)
    <3>1. ref[c] \in 1 .. opened
      BY <2>1
    <3>2. {client} \ {0} \subseteq 1 .. opened
      OBVIOUS
    <3> QED
      BY <1>11, <3>1, <3>2 DEF ResetClient, Drop
  <2> QED
    BY <1>11, <2>1, <2>2, CodesInRange DEF ResetClient
<1>12. ASSUME NEW c \in Caller, Report(c) PROVE TypeOK'
  BY <1>12 DEF Report
<1>13. CASE UNCHANGED vars
  BY <1>13 DEF vars
<1> QED
  BY <1>1, <1>2, <1>3, <1>4, <1>5, <1>6, <1>7, <1>8, <1>9, <1>10, <1>11, <1>12, <1>13,
     <1>14, <1>15, <1>16, <1>17
  DEF Next, Step

\* surreal_publish and its siblings keep the handle's fields well formed.
THEOREM TypeCorrect == Spec => []TypeOK
BY InitTypeOK, NextTypeOK, PTL DEF Spec
-----------------------------------------------------------------------------
(* Any number of callers, until a publish fails.                             *)

\* While no publish has failed the first connection is the only one, and nobody
\* has left the path that finds it.
OnlyFirst ==
  failed = {} =>
    /\ handle = "open" => client = 1 /\ dropped = {}
    /\ \A c \in Caller : pc[c] \notin {"open", "store", "unwrap", "panicked"}

LEMMA NextOnlyFirst == TypeOK /\ OnlyFirst /\ [Next]_vars => OnlyFirst'
<1> SUFFICES ASSUME TypeOK, OnlyFirst, [Next]_vars, failed' = {} PROVE OnlyFirst'
  BY DEF OnlyFirst
<1>1. pc \in [Caller -> Positions] /\ \A c \in Caller : pc[c] # "idle" => handle = "open"
  BY DEF TypeOK
<1> USE DEF OnlyFirst, NoConn, Goto, Finish, callVars
<1>2. ASSUME NEW c \in Caller, ResetClient(c) PROVE FALSE
  BY <1>2 DEF ResetClient
<1>3. failed = {}
  <2>1. ASSUME NEW c \in Caller, Step(c) PROVE failed' = failed
    <3>1. CASE \E o \in Op : \E result \in {0} \cup ArgumentCodes(o) : Call(c, o, result)
      BY <3>1 DEF Call
    <3>2. CASE \/ ClearText(c) \/ Look(c) \/ OpenClient(c) \/ OpenFails(c) \/ Store(c)
               \/ Unwrap(c) \/ QueryFails(c)
      BY <3>2 DEF ClearText, Look, OpenClient, OpenFails, Store, Unwrap, QueryFails
    <3>3. CASE \E executed \in BOOLEAN : QueryAnswered(c, executed)
      BY <3>3 DEF QueryAnswered
    <3>4. CASE RecordError(c) \/ RecordCode(c) \/ ReadCode(c) \/ Report(c)
      BY <3>4 DEF RecordError, RecordCode, ReadCode, Report
    <3> QED
      BY <2>1, <1>2, <3>1, <3>2, <3>3, <3>4 DEF Step
  <2>2. Connect \/ Close \/ UNCHANGED vars => failed' = failed
    BY DEF Connect, Close, vars
  <2>3. failed' = failed
    BY <2>1, <2>2 DEF Next
  <2> QED
    BY <2>3
<1>4. ASSUME NEW c \in Caller, Look(c) PROVE OnlyFirst'
  BY <1>1, <1>3, <1>4 DEF Look, HasClient
<1>5. ASSUME NEW c \in Caller, OpenClient(c) \/ OpenFails(c) \/ Store(c) \/ Unwrap(c) PROVE FALSE
  BY <1>3, <1>5 DEF OpenClient, OpenFails, Store, Unwrap
<1>6. ASSUME NEW c \in Caller, NEW o \in Op, NEW result \in {0} \cup ArgumentCodes(o), Call(c, o, result)
      PROVE  OnlyFirst'
  BY <1>1, <1>3, <1>6 DEF Call, FirstStep
<1>7. ASSUME NEW c \in Caller, ClearText(c) PROVE OnlyFirst'
  BY <1>1, <1>3, <1>7 DEF ClearText
<1>8. ASSUME NEW c \in Caller, NEW executed \in BOOLEAN, QueryAnswered(c, executed)
      PROVE  OnlyFirst'
  BY <1>1, <1>3, <1>8 DEF QueryAnswered
<1>9. ASSUME NEW c \in Caller, QueryFails(c) PROVE OnlyFirst'
  BY <1>1, <1>3, <1>9 DEF QueryFails
<1>10. ASSUME NEW c \in Caller, RecordError(c) PROVE OnlyFirst'
  BY <1>1, <1>3, <1>10 DEF RecordError
<1>11. ASSUME NEW c \in Caller, Report(c) PROVE OnlyFirst'
  BY <1>1, <1>3, <1>11 DEF Report
<1>12. CASE UNCHANGED vars
  BY <1>3, <1>12 DEF vars
<1>13. ASSUME NEW c \in Caller, RecordCode(c) PROVE OnlyFirst'
  BY <1>1, <1>3, <1>13 DEF RecordCode
<1>14. ASSUME NEW c \in Caller, ReadCode(c) PROVE OnlyFirst'
  BY <1>1, <1>3, <1>14 DEF ReadCode
<1>15. ASSUME Connect PROVE OnlyFirst'
  <2>1. opened = 0 /\ dropped = {}
    BY <1>15 DEF Connect, TypeOK
  <2> QED
    BY <1>1, <1>3, <1>15, <2>1 DEF Connect
<1>16. ASSUME Close PROVE OnlyFirst'
  BY <1>1, <1>3, <1>16 DEF Close
<1> QED
  BY <1>2, <1>4, <1>5, <1>6, <1>7, <1>8, <1>9, <1>10, <1>11, <1>12, <1>13, <1>14, <1>15, <1>16
  DEF Next, Step

\* The handle needs no lock as long as no publish fails: whatever the number of
\* threads, none uses a closed client and no .unwrap() meets None.
THEOREM SharedUntilFailure == Spec => []SafeUntilFailure
<1>1. Init => OnlyFirst
  BY DEF Init, OnlyFirst
<1>2. TypeOK /\ OnlyFirst => SafeUntilFailure
  BY DEF OnlyFirst, SafeUntilFailure, NoDanglingUse, TypeOK
<1> QED
  BY <1>1, <1>2, TypeCorrect, NextOnlyFirst, PTL DEF Spec
-----------------------------------------------------------------------------
(* One caller, whatever fails: the lazy reconnect.                           *)

OneCaller == \A c, d \in Caller : c = d

\* The caller's reference is the handle's client, and where it is about to store a
\* new one there is none; every connection but these has been closed, and those on
\* which a publish failed are among the closed ones.  All are while there is no handle.
AloneInv ==
  /\ failed \subseteq dropped
  /\ client \notin dropped
  /\ handle # "open" => client = NoConn /\ dropped = 1 .. opened
  /\ (\A c \in Caller : pc[c] # "store") => (1 .. opened) \ dropped = {client} \ {NoConn}
  /\ \A c \in Caller :
       /\ pc[c] \in {"query", "error", "code", "reset"} => ref[c] = client
       /\ pc[c] \in {"open", "store"} => client = NoConn
       /\ pc[c] = "store" => (1 .. opened) \ dropped = {ref[c]}
       /\ pc[c] = "unwrap" => client # NoConn
       /\ pc[c] # "panicked"

LEMMA NextAloneInv ==
  ASSUME OneCaller
  PROVE  TypeOK /\ AloneInv /\ [Next]_vars => AloneInv'
<1> SUFFICES ASSUME TypeOK, AloneInv, [Next]_vars PROVE AloneInv'
  OBVIOUS
<1>1. /\ pc \in [Caller -> Positions] /\ ref \in [Caller -> 0 .. opened]
      /\ \A c \in Caller : pc[c] # "idle" => handle = "open"
      /\ opened \in Nat /\ dropped \subseteq 1 .. opened /\ client \in 0 .. opened
  BY HandleAssumption DEF TypeOK, HandleAssumption
<1> USE DEF AloneInv, NoConn, Goto, Finish, callVars
<1>2. ASSUME NEW c \in Caller, NEW o \in Op, NEW result \in {0} \cup ArgumentCodes(o), Call(c, o, result)
      PROVE  AloneInv'
  BY <1>1, <1>2, OneCaller DEF Call, FirstStep, OneCaller
<1>3. ASSUME NEW c \in Caller, ClearText(c) PROVE AloneInv'
  BY <1>1, <1>3, OneCaller DEF ClearText, OneCaller
<1>4. ASSUME NEW c \in Caller, Look(c) PROVE AloneInv'
  BY <1>1, <1>4, OneCaller DEF Look, HasClient, OneCaller
<1>5. ASSUME NEW c \in Caller, OpenClient(c) PROVE AloneInv'
  <2>1. /\ client = 0 /\ client' = 0 /\ opened' = opened + 1
        /\ handle = "open" /\ handle' = "open"
        /\ dropped' = dropped /\ failed' = failed
        /\ pc'[c] = "store" /\ ref'[c] = opened + 1
    BY <1>1, <1>5 DEF OpenClient
  <2>2. (1 .. opened) \ dropped = {}
    <3>1. \A d \in Caller : pc[d] # "store"
      BY <1>5, OneCaller DEF OpenClient, OneCaller
    <3> QED
      BY <2>1, <3>1
  <2>3. (1 .. opened + 1) \ dropped = {opened + 1}
    BY <1>1, <2>2
  <2> QED
    BY <2>1, <2>3, OneCaller DEF OneCaller
<1>6. ASSUME NEW c \in Caller, OpenFails(c) PROVE AloneInv'
  BY <1>1, <1>6, OneCaller DEF OpenFails, OneCaller
<1>7. ASSUME NEW c \in Caller, Store(c) PROVE AloneInv'
  <2>1. /\ client = 0 /\ client' = ref[c] /\ dropped' = dropped /\ failed' = failed
        /\ handle = "open" /\ handle' = "open"
        /\ pc'[c] = "unwrap" /\ opened' = opened
    BY <1>1, <1>7 DEF Store, Drop
  <2>2. (1 .. opened) \ dropped = {ref[c]}
    BY <1>7 DEF Store
  <2> QED
    BY <1>1, <2>1, <2>2, OneCaller DEF OneCaller
<1>8. ASSUME NEW c \in Caller, Unwrap(c) PROVE AloneInv'
  BY <1>1, <1>8, OneCaller DEF Unwrap, OneCaller
<1>9. ASSUME NEW c \in Caller, NEW executed \in BOOLEAN, QueryAnswered(c, executed)
      PROVE  AloneInv'
  BY <1>1, <1>9, OneCaller DEF QueryAnswered, OneCaller
<1>10. ASSUME NEW c \in Caller, QueryFails(c) PROVE AloneInv'
  BY <1>1, <1>10, OneCaller DEF QueryFails, OneCaller
<1>11. ASSUME NEW c \in Caller, RecordError(c) PROVE AloneInv'
  BY <1>1, <1>11, OneCaller DEF RecordError, OneCaller
<1>12. ASSUME NEW c \in Caller, ResetClient(c) PROVE AloneInv'
  <2>1. /\ pc[c] = "reset" /\ ref[c] = client /\ client # 0
        /\ (1 .. opened) \ dropped = {client}
    BY <1>12 DEF ResetClient, TypeOK
  <2>2. /\ client' = 0 /\ opened' = opened /\ pc'[c] = "returned"
        /\ handle = "open" /\ handle' = "open"
        /\ dropped' = dropped \cup {client} /\ failed' = failed \cup {client}
    BY <1>1, <1>12, <2>1 DEF ResetClient, AfterFailure, Drop
  <2>3. (1 .. opened) \ dropped' = {}
    BY <2>1, <2>2
  <2>4. 0 \notin dropped'
    BY <1>1, <2>1, <2>2
  <2> QED
    BY <2>2, <2>3, <2>4, OneCaller DEF OneCaller
<1>13. ASSUME NEW c \in Caller, Report(c) PROVE AloneInv'
  BY <1>1, <1>13, OneCaller DEF Report, OneCaller
<1>14. CASE UNCHANGED vars
  BY <1>14 DEF vars
<1>15. ASSUME NEW c \in Caller, RecordCode(c) PROVE AloneInv'
  BY <1>1, <1>15, OneCaller DEF RecordCode, OneCaller
<1>16. ASSUME NEW c \in Caller, ReadCode(c) PROVE AloneInv'
  BY <1>1, <1>16, OneCaller DEF ReadCode, OneCaller
<1>17. ASSUME Connect PROVE AloneInv'
  <2>1. opened = 0 /\ dropped = {} /\ failed = {} /\ client = 0
    BY <1>1, <1>17 DEF Connect, TypeOK
  <2>2. 1 .. 1 = {1} /\ 1 .. 0 = {}
    OBVIOUS
  <2> QED
    BY <1>1, <1>17, <2>1, <2>2 DEF Connect
<1>18. ASSUME Close PROVE AloneInv'
  <2>1. /\ \A c \in Caller : pc'[c] = "idle" /\ pc[c] = "idle"
        /\ client' = 0 /\ opened' = opened /\ failed' = failed
        /\ dropped' = dropped \cup ({client} \ {0}) /\ handle' = "closed"
    BY <1>18 DEF Close, Drop
  <2>2. (1 .. opened) \ dropped = {client} \ {0}
    BY <1>18, <2>1 DEF Close
  <2>3. dropped' = 1 .. opened
    BY <1>1, <2>1, <2>2
  <2> QED
    BY <1>1, <2>1, <2>3
<1> QED
  BY <1>2, <1>3, <1>4, <1>5, <1>6, <1>7, <1>8, <1>9, <1>10, <1>11, <1>12, <1>13, <1>14,
     <1>15, <1>16, <1>17, <1>18
  DEF Next, Step

LEMMA AloneSafe ==
  ASSUME OneCaller
  PROVE  Spec => []AloneInv
<1>1. Init => AloneInv
  <2> SUFFICES ASSUME Init PROVE AloneInv
    OBVIOUS
  <2>1. 1 .. 0 = {}
    OBVIOUS
  <2> QED
    BY <2>1 DEF Init, AloneInv, NoConn
<1> QED
  BY <1>1, TypeCorrect, NextAloneInv, OneCaller, PTL DEF Spec

\* With one caller, such as the sender thread when the API commands are not used,
\* no request goes through a closed connection, one on which a publish failed is
\* never used again, and all but the current one are closed.
THEOREM AloneReconnects ==
  ASSUME OneCaller
  PROVE  Spec => [](NoDanglingUse /\ FailedNotReused)
<1>1. AloneInv => NoDanglingUse /\ FailedNotReused
  BY DEF AloneInv, NoDanglingUse, FailedNotReused
<1> QED
  BY <1>1, AloneSafe, OneCaller, PTL

\* Connections are not leaked, however often publishing fails and reconnects.
THEOREM AloneDoesNotLeak ==
  ASSUME OneCaller
  PROVE  Spec => []OneConnection
<1>1. TypeOK /\ AloneInv => OneConnection
  BY DEF TypeOK, AloneInv, OneConnection, NoConn
<1> QED
  BY <1>1, AloneSafe, TypeCorrect, OneCaller, PTL
-----------------------------------------------------------------------------
(* One caller: what it reports of a failure.                                 *)

LEMMA CodesApart ==
  ASSUME NEW o \in Op
  PROVE  /\ RequestCode(o) \notin {0} \cup ArgumentCodes(o) \cup {ReconnectCode(o)}
         /\ ReconnectCode("publish") \notin {0, RequestCode("publish")} \cup ArgumentCodes("publish")
<1>1. o \in {"publish", "update", "select", "get"}
  BY HandleAssumption DEF HandleAssumption
<1> QED
  BY <1>1 DEF ArgumentCodes, ReconnectCode, RequestCode

\* The text and the code stored stay those of the call in progress until they are read.
ReportInv ==
  \A c \in Caller :
    /\ pc[c] \in {"code", "reset"} => last_error_msg = call[c]
    /\ pc[c] = "reset" => op[c] = "publish" /\ last_error_code = StoredCode(op[c])
    /\ pc[c] \in {"returned", "report"} /\ rc[c] = RequestCode(op[c]) =>
         last_error_msg = call[c] /\ last_error_code = StoredCode(op[c])
    /\ pc[c] = "report" /\ rc[c] = RequestCode(op[c]) => code[c] = StoredCode(op[c])
    /\ op[c] = "publish" =>
         /\ pc[c] \in {"look", "open", "store", "unwrap", "query"} => last_error_msg = NoText
         /\ pc[c] \in {"returned", "report"} /\ rc[c] = ReconnectCode("publish") =>
              last_error_msg = NoText

LEMMA NextReportInv ==
  ASSUME OneCaller
  PROVE  TypeOK /\ ReportInv /\ ReportIsOwn /\ [Next]_vars => (ReportInv /\ ReportIsOwn)'
<1> SUFFICES ASSUME TypeOK, ReportInv, ReportIsOwn, [Next]_vars PROVE (ReportInv /\ ReportIsOwn)'
  OBVIOUS
<1>1. /\ pc \in [Caller -> Positions] /\ rc \in [Caller -> Codes] /\ op \in [Caller -> Op]
      /\ code \in [Caller -> Codes] /\ call \in [Caller -> 0 .. calls]
      /\ text \in [Caller -> 0 .. calls] /\ calls \in Nat
  BY HandleAssumption DEF TypeOK, HandleAssumption
<1>a. \A c, d \in Caller : c = d
  BY OneCaller DEF OneCaller
<1> USE DEF ReportInv, ReportIsOwn, Goto, Finish, callVars
<1>2. ASSUME NEW c \in Caller, NEW o \in Op,
             NEW result \in {0} \cup ArgumentCodes(o), Call(c, o, result)
      PROVE  (ReportInv /\ ReportIsOwn)'
  <2>1. /\ pc'[c] \in {"clear", "look", "returned"} /\ op'[c] = o
        /\ pc'[c] = "look" => o # "publish"
        /\ rc'[c] \in {0} \cup ArgumentCodes(o)
    BY <1>1, <1>2 DEF Call, FirstStep
  <2> QED
    BY <1>a, <2>1, CodesApart
<1>3. ASSUME NEW c \in Caller, ClearText(c) PROVE (ReportInv /\ ReportIsOwn)'
  BY <1>1, <1>3, <1>a DEF ClearText
<1>4. ASSUME NEW c \in Caller, Look(c) PROVE (ReportInv /\ ReportIsOwn)'
  BY <1>1, <1>4, <1>a DEF Look
<1>5. ASSUME NEW c \in Caller, OpenClient(c) PROVE (ReportInv /\ ReportIsOwn)'
  BY <1>1, <1>5, <1>a DEF OpenClient
<1>6. ASSUME NEW c \in Caller, OpenFails(c) PROVE (ReportInv /\ ReportIsOwn)'
  <2>1. pc'[c] = "returned" /\ rc'[c] = ReconnectCode(op'[c]) /\ op' = op
        /\ last_error_msg' = last_error_msg
    BY <1>1, <1>6 DEF OpenFails
  <2>2. op[c] = "publish" => last_error_msg = NoText
    BY <1>6 DEF OpenFails
  <2>3. rc'[c] # RequestCode(op'[c])
    BY <1>1, <2>1, CodesApart
  <2> QED
    BY <1>a, <2>1, <2>2, <2>3
<1>7. ASSUME NEW c \in Caller, Store(c) PROVE (ReportInv /\ ReportIsOwn)'
  BY <1>1, <1>7, <1>a DEF Store
<1>8. ASSUME NEW c \in Caller, Unwrap(c) PROVE (ReportInv /\ ReportIsOwn)'
  BY <1>1, <1>8, <1>a DEF Unwrap
<1>9. ASSUME NEW c \in Caller, NEW executed \in BOOLEAN, QueryAnswered(c, executed)
      PROVE  (ReportInv /\ ReportIsOwn)'
  <2>1. /\ pc'[c] \in {"error", "returned"} /\ op' = op /\ op[c] \in Op
        /\ pc'[c] = "returned" => rc'[c] = 0
    BY <1>1, <1>9 DEF QueryAnswered
  <2>2. pc'[c] = "returned" =>
          rc'[c] # RequestCode(op[c]) /\ rc'[c] # ReconnectCode("publish")
    BY <2>1, CodesApart
  <2> QED
    BY <1>a, <2>1, <2>2
<1>10. ASSUME NEW c \in Caller, QueryFails(c) PROVE (ReportInv /\ ReportIsOwn)'
  BY <1>1, <1>10, <1>a DEF QueryFails
<1>11. ASSUME NEW c \in Caller, RecordError(c) PROVE (ReportInv /\ ReportIsOwn)'
  BY <1>1, <1>11, <1>a DEF RecordError, ErrorText
<1>12. ASSUME NEW c \in Caller, RecordCode(c) PROVE (ReportInv /\ ReportIsOwn)'
  <2>1. /\ pc[c] = "code" /\ op' = op /\ call' = call /\ last_error_msg' = call[c]
        /\ last_error_code' = StoredCode(op[c])
        /\ \/ op[c] = "publish" /\ pc'[c] = "reset"
           \/ op[c] # "publish" /\ pc'[c] = "returned"
    BY <1>1, <1>12 DEF RecordCode
  <2> QED
    BY <1>a, <2>1
<1>13. ASSUME NEW c \in Caller, ResetClient(c) PROVE (ReportInv /\ ReportIsOwn)'
  <2>1. /\ pc[c] = "reset" /\ op' = op /\ call' = call /\ op[c] = "publish"
        /\ last_error_msg' = call[c] /\ last_error_code' = StoredCode(op[c])
        /\ pc'[c] = "returned" /\ rc'[c] = RequestCode("publish")
    BY <1>1, <1>13 DEF ResetClient
  <2>2. rc'[c] # ReconnectCode("publish")
    BY <1>1, <2>1, CodesApart
  <2> QED
    BY <1>a, <2>1, <2>2
<1>14. ASSUME NEW c \in Caller, ReadCode(c) PROVE (ReportInv /\ ReportIsOwn)'
  <2>1. /\ pc[c] = "returned" /\ pc'[c] = "report" /\ op' = op /\ call' = call /\ rc' = rc
        /\ last_error_msg' = last_error_msg /\ last_error_code' = last_error_code
        /\ code'[c] = IF rc[c] = 0 THEN 0 ELSE last_error_code
    BY <1>1, <1>14 DEF ReadCode
  <2>2. RequestCode(op[c]) # 0
    BY <1>1, CodesApart
  <2> QED
    BY <1>a, <2>1, <2>2
<1>15. ASSUME NEW c \in Caller, Report(c) PROVE (ReportInv /\ ReportIsOwn)'
  <2>1. /\ pc[c] = "report" /\ pc'[c] = "idle" /\ op' = op /\ call' = call /\ rc' = rc
        /\ code' = code
        /\ text'[c] = IF rc[c] = 0 THEN NoText ELSE last_error_msg
    BY <1>1, <1>15 DEF Report
  <2>2. RequestCode(op[c]) # 0
    BY <1>1, CodesApart
  <2> QED
    BY <1>a, <2>1, <2>2
<1>16. ASSUME Connect PROVE (ReportInv /\ ReportIsOwn)'
  BY <1>16 DEF Connect
<1>17. ASSUME Close PROVE (ReportInv /\ ReportIsOwn)'
  BY <1>17 DEF Close
<1>18. CASE UNCHANGED vars
  BY <1>18 DEF vars
<1> QED
  BY <1>2, <1>3, <1>4, <1>5, <1>6, <1>7, <1>8, <1>9, <1>10, <1>11, <1>12, <1>13, <1>14,
     <1>15, <1>16, <1>17, <1>18
  DEF Next, Step

\* What a lone caller such as the sender thread logs of a failed request is its own,
\* although the error text and code are never cleared by most entry points.
THEOREM AloneReportsItsOwn ==
  ASSUME OneCaller
  PROVE  Spec => []ReportIsOwn
<1>1. Init => ReportInv /\ ReportIsOwn
  BY DEF Init, ReportInv, ReportIsOwn
<1> QED
  BY <1>1, TypeCorrect, NextReportInv, OneCaller, PTL DEF Spec
=============================================================================
