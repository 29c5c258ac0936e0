------------------------------ MODULE SurHandle ------------------------------
(***************************************************************************)
(* The connection handle of surrealdb_ffi (feature real), from               *)
(* surreal_connect to surreal_close, while several threads call it: the      *)
(* sender thread of the event sink and the threads that run the surrealdb.*  *)
(* API commands.  Every entry point takes an exclusive reference to the      *)
(* handle from the raw pointer, and no lock: what one caller reads of        *)
(* `client' another may write before it is used.                             *)
(***************************************************************************)
EXTENDS Integers, FiniteSets

CONSTANTS
  Caller,    \* threads
  Op,        \* the entry points they call
  MaxConn,   \* bound on connections opened
  MaxCalls   \* bound on calls

ASSUME HandleAssumption ==
  /\ Op \subseteq {"publish", "update", "select", "get"}
  /\ MaxConn \in Nat \ {0} /\ MaxCalls \in Nat

NoConn == 0                    \* connections are numbered from 1 as they are opened
NoText == 0                    \* the empty error text; others are named by their call

VARIABLES
  handle,          \* not connected yet, NULL, open or closed
  client,          \* h.client
  opened,          \* connections opened so far
  dropped,         \* connections whose client has been dropped
  last_error_msg,  \* the call that wrote the text
  last_error_code, \* never cleared
  pc, op,          \* per caller: position in the entry point, and which it is
  call,            \* number of the call
  ref,             \* the client it works with: a reference into h.client
  rc,              \* the code it returns
  code, text,      \* last_error_code and the error text that the caller read back
  calls,           \* calls made
  failed           \* connections on which a publish has failed

vars == <<handle, client, opened, dropped, last_error_msg, last_error_code, pc, op, call,
          ref, rc, code, text, calls, failed>>
callVars == <<handle, op, call, code, text, calls>>

Positions == {"idle", "clear", "look", "open", "store", "unwrap", "query", "error",
              "code", "reset", "returned", "report", "panicked"}
Codes == -10 .. 0

\* The codes of each entry point: for arguments that do not pass the checks at its top
\* (not UTF-8, a bad table or id, no JSON, no room for the answer), for a failed
\* reconnect, for a failed request, and what the last of these leaves in last_error_code.
ArgumentCodes(o) ==
  CASE o = "publish" -> {-3, -4, -5}  [] o = "update" -> {-2, -3, -4, -5}
    [] o = "select" -> {-1, -2, -3}   [] o = "get" -> {-1, -2, -3, -4}
ReconnectCode(o) ==
  CASE o = "publish" -> -2 [] o = "update" -> -6 [] o = "select" -> -4 [] o = "get" -> -5
RequestCode(o) == IF o = "update" THEN -8 ELSE -6
StoredCode(o) ==
  CASE o = "publish" -> -6 [] o = "update" -> -8 [] o = "select" -> -9 [] o = "get" -> -10

TypeOK ==
  /\ handle \in {"unconnected", "null", "open", "closed"}
  /\ opened \in 0 .. MaxConn
  /\ client \in 0 .. opened
  /\ dropped \in SUBSET (1 .. opened)
  /\ last_error_msg \in 0 .. calls
  /\ last_error_code \in Codes
  /\ pc \in [Caller -> Positions]
  /\ op \in [Caller -> Op]
  /\ call \in [Caller -> 0 .. calls]
  /\ ref \in [Caller -> 0 .. opened]
  /\ \A c \in Caller : pc[c] \in {"store", "query", "error", "code", "reset"} => ref[c] # NoConn
  /\ rc \in [Caller -> Codes]
  /\ code \in [Caller -> Codes]
  /\ text \in [Caller -> 0 .. calls]
  /\ calls \in 0 .. MaxCalls
  /\ failed \in SUBSET (1 .. opened)
  /\ handle \in {"unconnected", "null"} => opened = 0
  /\ handle # "open" => \A c \in Caller : pc[c] = "idle"

Init ==
  /\ handle = "unconnected"
  /\ client = NoConn /\ opened = 0
  /\ dropped = {}
  /\ last_error_msg = NoText /\ last_error_code = 0
  /\ pc = [c \in Caller |-> "idle"]
  /\ op \in [Caller -> Op]
  /\ call = [c \in Caller |-> 0]
  /\ ref = [c \in Caller |-> NoConn]
  /\ rc = [c \in Caller |-> 0]
  /\ code = [c \in Caller |-> 0]
  /\ text = [c \in Caller |-> NoText]
  /\ calls = 0
  /\ failed = {}

Goto(c, p) == pc' = [pc EXCEPT ![c] = p]
Finish(c, result) == Goto(c, "returned") /\ rc' = [rc EXCEPT ![c] = result]
-----------------------------------------------------------------------------
\* surreal_connect, with a password or a token, before any other thread knows the
\* handle: NULL if an argument is NULL, the runtime is missing, or connecting, signing
\* in or choosing the database fails.
Connect ==
  /\ handle = "unconnected"
  /\ \/ handle' = "open" /\ client' = 1 /\ opened' = 1
     \/ handle' = "null" /\ UNCHANGED <<client, opened>>
  /\ UNCHANGED <<dropped, last_error_msg, last_error_code, pc, op, call, ref, rc,
                 code, text, calls, failed>>

\* A call of o, with arguments that pass the checks at its top (result 0) or do not.
\* Only surreal_publish clears the error text, and only after these checks.
FirstStep(o) == IF o = "publish" THEN "clear" ELSE "look"

Call(c, o, result) ==
  /\ handle = "open" /\ pc[c] = "idle"
  /\ calls < MaxCalls
  /\ calls' = calls + 1
  /\ call' = [call EXCEPT ![c] = calls + 1]
  /\ op' = [op EXCEPT ![c] = o]
  /\ text' = [text EXCEPT ![c] = NoText]
  /\ code' = [code EXCEPT ![c] = 0]
  /\ IF result = 0
     THEN Goto(c, FirstStep(o)) /\ rc' = [rc EXCEPT ![c] = 0]
     ELSE Finish(c, result)
  /\ UNCHANGED <<handle, client, opened, dropped, last_error_msg, last_error_code, ref, failed>>

ClearText(c) ==
  /\ pc[c] = "clear"
  /\ last_error_msg' = NoText
  /\ Goto(c, "look")
  /\ UNCHANGED <<client, opened, dropped, last_error_code, ref, rc, callVars, failed>>

NoneCached == FALSE                                  \* fault: connects on every call
HasClient == client # NoConn

\* match h.client.as_ref()
Look(c) ==
  /\ pc[c] = "look"
  /\ IF HasClient
     THEN Goto(c, "query") /\ ref' = [ref EXCEPT ![c] = client]
     ELSE Goto(c, "open") /\ UNCHANGED ref
  /\ UNCHANGED <<client, opened, dropped, last_error_msg, last_error_code, rc, callVars, failed>>

\* open_client, the lazy reconnect
OpenClient(c) ==
  /\ pc[c] = "open"
  /\ opened < MaxConn
  /\ opened' = opened + 1
  /\ ref' = [ref EXCEPT ![c] = opened + 1]
  /\ Goto(c, "store")
  /\ UNCHANGED <<client, dropped, last_error_msg, last_error_code, rc, callVars, failed>>

OpenFails(c) ==
  /\ pc[c] = "open"
  /\ Finish(c, ReconnectCode(op[c]))
  /\ UNCHANGED <<client, opened, dropped, last_error_msg, last_error_code, ref, callVars, failed>>

Leak(old) == dropped' = dropped                      \* fault: not closed
DropAlways(old) == dropped' = dropped \cup {old}     \* fault: also when there is none
Drop(old) == dropped' = dropped \cup ({old} \ {NoConn})

\* h.client = Some(c) drops the client that was there.
Store(c) ==
  /\ pc[c] = "store"
  /\ client' = ref[c]
  /\ Drop(client)
  /\ Goto(c, "unwrap")
  /\ UNCHANGED <<opened, last_error_msg, last_error_code, ref, rc, callVars, failed>>

\* h.client.as_ref().unwrap() reads the field again.
Unwrap(c) ==
  /\ pc[c] = "unwrap"
  /\ IF client # NoConn
     THEN Goto(c, "query") /\ ref' = [ref EXCEPT ![c] = client]
     ELSE Goto(c, "panicked") /\ UNCHANGED ref
  /\ UNCHANGED <<client, opened, dropped, last_error_msg, last_error_code, rc, callVars, failed>>

\* The request is answered.  The result of the statement is looked at by select and
\* get, which decode the rows, and discarded by publish and update.
Discarded == {"publish", "update"}

QueryAnswered(c, executed) ==
  /\ pc[c] = "query"
  /\ IF executed \/ op[c] \in Discarded
     THEN Finish(c, 0)
     ELSE Goto(c, "error") /\ UNCHANGED rc
  /\ UNCHANGED <<handle, client, opened, dropped, last_error_msg, last_error_code, op, call,
                 ref, code, text, calls, failed>>

\* The request fails, or its answer is lost; or surreal_publish sends none because the
\* table's name is no identifier, which counts the same.
QueryFails(c) ==
  /\ pc[c] = "query"
  /\ Goto(c, "error")
  /\ UNCHANGED <<handle, client, opened, dropped, last_error_msg, last_error_code, op, call,
                 ref, rc, code, text, calls, failed>>

KeepText(c) == last_error_msg                        \* fault: text not written
ErrorText(c) == call[c]

RecordError(c) ==
  /\ pc[c] = "error"
  /\ last_error_msg' = ErrorText(c)
  /\ Goto(c, "code")
  /\ UNCHANGED <<client, opened, dropped, last_error_code, ref, rc, callVars, failed>>

RecordCode(c) ==
  /\ pc[c] = "code"
  /\ last_error_code' = StoredCode(op[c])
  /\ IF op[c] = "publish"
     THEN Goto(c, "reset") /\ UNCHANGED rc
     ELSE Finish(c, RequestCode(op[c]))
  /\ UNCHANGED <<client, opened, dropped, last_error_msg, ref, callVars, failed>>

KeepClient == client                                 \* fault: closed, but left in place
AfterFailure == NoConn

\* h.client = None, by surreal_publish only.
ResetClient(c) ==
  /\ pc[c] = "reset"
  /\ client' = AfterFailure
  /\ Drop(client)
  /\ failed' = failed \cup {ref[c]}
  /\ Finish(c, RequestCode(op[c]))
  /\ UNCHANGED <<opened, last_error_msg, last_error_code, ref, callVars>>

\* After an error the caller reads surreal_last_error_code, then the error text.
ReadCode(c) ==
  /\ pc[c] = "returned"
  /\ code' = [code EXCEPT ![c] = IF rc[c] = 0 THEN 0 ELSE last_error_code]
  /\ Goto(c, "report")
  /\ UNCHANGED <<handle, client, opened, dropped, last_error_msg, last_error_code, op, call,
                 ref, rc, text, calls, failed>>

Report(c) ==
  /\ pc[c] = "report"
  /\ text' = [text EXCEPT ![c] = IF rc[c] = 0 THEN NoText ELSE last_error_msg]
  /\ Goto(c, "idle")
  /\ ref' = [ref EXCEPT ![c] = NoConn]
  /\ UNCHANGED <<handle, client, opened, dropped, last_error_msg, last_error_code, op, call,
                 rc, code, calls, failed>>

\* surreal_close drops the handle and its client, when no call is in progress.
Close ==
  /\ handle = "open" /\ \A c \in Caller : pc[c] = "idle"
  /\ handle' = "closed"
  /\ client' = NoConn
  /\ Drop(client)
  /\ UNCHANGED <<opened, last_error_msg, last_error_code, pc, op, call, ref, rc, code,
                 text, calls, failed>>

Step(c) ==
  \/ \E o \in Op : \E result \in {0} \cup ArgumentCodes(o) : Call(c, o, result)
  \/ ClearText(c) \/ Look(c) \/ OpenClient(c) \/ OpenFails(c) \/ Store(c) \/ Unwrap(c)
  \/ \E executed \in BOOLEAN : QueryAnswered(c, executed)
  \/ QueryFails(c) \/ RecordError(c) \/ RecordCode(c) \/ ResetClient(c)
  \/ ReadCode(c) \/ Report(c)

Next == Connect \/ Close \/ \E c \in Caller : Step(c)

Spec == Init /\ [][Next]_vars
-----------------------------------------------------------------------------
\* No request is sent through a client that has been dropped.
NoDanglingUse == \A c \in Caller : pc[c] = "query" => ref[c] \notin dropped

\* Any number of threads may share the handle until a publish fails: only that
\* takes the client away, and from then on the calls are no longer safe.
SafeUntilFailure ==
  failed = {} => NoDanglingUse /\ \A c \in Caller : pc[c] # "panicked"

\* With one caller the lazy reconnect works: a connection on which a publish has
\* failed is never used again.
FailedNotReused == \A c \in Caller : pc[c] = "query" => ref[c] \notin failed

\* And it does not leak connections: every one but the current is closed, and that
\* too after surreal_close.
OneConnection ==
  (\A c \in Caller : pc[c] = "idle") =>
    (1 .. opened) \ dropped = IF handle = "open" THEN {client} \ {NoConn} ELSE {}

\* What a lone caller reports of a failed request, last_error_code and text, is of this
\* call, never of an earlier one; and publish reports no text for a failed reconnect.
ReportIsOwn ==
  \A c \in Caller : pc[c] = "idle" /\ calls > 0 =>
    /\ rc[c] = RequestCode(op[c]) => text[c] = call[c] /\ code[c] = StoredCode(op[c])
    /\ op[c] = "publish" /\ rc[c] = ReconnectCode("publish") => text[c] = NoText
-----------------------------------------------------------------------------
(* What the code or its documentation states and does not hold.               *)

\* The .unwrap() after the reconnect finds a client.
UnwrapFindsClient == \A c \in Caller : pc[c] # "panicked"
=============================================================================
