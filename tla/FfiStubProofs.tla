---------------------------- MODULE FfiStubProofs ----------------------------
(* Theorems about FfiStub, for any threads, callbacks, urls and buffers. *)
EXTENDS FfiStub, UrlFormsProofs, TLAPS

\* The NUL of a text that was cut or not lies inside the buffer.
LEMMA CopiedFits ==
  ASSUME NEW len \in Nat, NEW size \in Nat, size > 0
  PROVE  Copied(len, size) \in Nat /\ Copied(len, size) < size
BY DEF Copied

LEMMA InitTypeOK == Init => TypeOK
BY DEF Init, TypeOK, Locking, Reading, Constant

LEMMA NextTypeOK == TypeOK /\ [Next]_vars => TypeOK'
<1> SUFFICES ASSUME TypeOK, [Next]_vars PROVE TypeOK'
  OBVIOUS
<1> USE DEF TypeOK, Goto, Code
<1>1. ASSUME NEW t \in Thread, NEW o \in Constant, NEW given \in BOOLEAN, CallConstant(t, o, given)
      PROVE  TypeOK'
  BY <1>1 DEF CallConstant, ConstantCode
<1>2. ASSUME NEW t \in Thread, NEW o \in Reading, NEW size \in Buffers, CallReading(t, o, size)
      PROVE  TypeOK'
  <2>1. size \in Nat /\ TextLength[o] \in Nat
    BY StubAssumption DEF StubAssumption, TextLength, Reading
  <2>2. CASE handle = "null" \/ size = 0
    <3>1. /\ buf' = [buf EXCEPT ![t] = [size |-> size, len |-> 0]]
          /\ rc' = [rc EXCEPT ![t] = -1] /\ op' = [op EXCEPT ![t] = o]
          /\ UNCHANGED <<handle, url, callback, lock, pc, arg>>
      BY <1>2, <2>2 DEF CallReading
    <3>2. [size |-> size, len |-> 0] \in [size : Buffers \cup {0}, len : Nat]
      OBVIOUS
    <3> QED
      BY <3>1, <3>2
  <2>3. CASE ~(handle = "null" \/ size = 0)
    <3> DEFINE n == Copied(TextLength[o], size)
    <3>1. n \in Nat
      BY <2>1, <2>3, CopiedFits
    <3>2. /\ buf' = [buf EXCEPT ![t] = [size |-> size, len |-> n]]
          /\ rc' = [rc EXCEPT ![t] = IF o = "last_error_text" THEN n ELSE 0]
          /\ op' = [op EXCEPT ![t] = o]
          /\ UNCHANGED <<handle, url, callback, lock, pc, arg>>
      BY <1>2, <2>3 DEF CallReading
    <3> HIDE DEF n
    <3> QED
      BY <3>1, <3>2
  <2> QED
    BY <2>2, <2>3
<1>3. ASSUME NEW t \in Thread, NEW o \in Locking, NEW c \in Callback \cup {"null"}, Enter(t, o, c)
      PROVE  TypeOK'
  BY <1>3 DEF Enter
<1>4. ASSUME NEW t \in Thread, Acquire(t) PROVE TypeOK'
  BY <1>4 DEF Acquire
<1>5. ASSUME NEW t \in Thread, Register(t) PROVE TypeOK'
  BY <1>5 DEF Register
<1>6. ASSUME NEW t \in Thread, Emit(t) PROVE TypeOK'
  BY <1>6 DEF Emit, Held
<1>7. ASSUME NEW t \in Thread, NEW o \in Nested, CallbackRuns(t, o) PROVE TypeOK'
  BY <1>7 DEF CallbackRuns
<1>8. ASSUME NEW t \in Thread, Unlock(t) PROVE TypeOK'
  BY <1>8 DEF Unlock
<1>9. ASSUME Connect PROVE TypeOK'
  BY <1>9 DEF Connect
<1>10. CASE Close \/ UNCHANGED vars
  BY <1>10 DEF Close, vars
<1> QED
  BY <1>1, <1>2, <1>3, <1>4, <1>5, <1>6, <1>7, <1>8, <1>9, <1>10 DEF Next, Work, Calls

\* The entry points of the stub keep every variable of its type.
THEOREM TypeCorrect == Spec => []TypeOK
BY InitTypeOK, NextTypeOK, PTL DEF Spec
-----------------------------------------------------------------------------
BufferInv ==
  /\ buf \in [Thread -> [size : Nat, len : Nat]]
  /\ NulInside

LEMMA NextBufferInv == BufferInv /\ [Next]_vars => BufferInv'
<1> SUFFICES ASSUME BufferInv, [Next]_vars PROVE BufferInv'
  OBVIOUS
<1> USE DEF BufferInv, NulInside
<1>1. ASSUME NEW t \in Thread, NEW o \in Reading, NEW size \in Buffers, CallReading(t, o, size)
      PROVE  BufferInv'
  <2>1. size \in Nat /\ TextLength[o] \in Nat
    BY StubAssumption DEF StubAssumption, TextLength, Reading
  <2>2. CASE handle = "null" \/ size = 0
    BY <1>1, <2>1, <2>2 DEF CallReading
  <2>3. CASE ~(handle = "null" \/ size = 0)
    <3>1. buf' = [buf EXCEPT ![t] = [size |-> size, len |-> Copied(TextLength[o], size)]]
      BY <1>1, <2>3 DEF CallReading
    <3> QED
      BY <2>1, <2>3, <3>1, CopiedFits
  <2> QED
    BY <2>2, <2>3
<1>2. CASE UNCHANGED buf
  BY <1>2
<1>3. ASSUME NEW t \in Thread, Work(t) PROVE UNCHANGED buf
  BY <1>3 DEF Work, Acquire, Register, Emit, Unlock, CallbackRuns
<1>4. ASSUME NEW t \in Thread, Calls(t) PROVE BufferInv'
  BY <1>1, <1>2, <1>4 DEF Calls, CallConstant, Enter
<1> QED
  BY <1>2, <1>3, <1>4 DEF Next, Connect, Close, vars

\* surreal_select, surreal_get and surreal_last_error_text never write past the end of
\* the buffer, whatever its size.
THEOREM WritesInside == Spec => []NulInside
<1>1. Init => BufferInv
  BY DEF Init, BufferInv, NulInside
<1>2. BufferInv => NulInside
  BY DEF BufferInv
<1> QED
  BY <1>1, <1>2, NextBufferInv, PTL DEF Spec
-----------------------------------------------------------------------------
\* Whoever is between lock and unlock holds the mutex, and a callback that runs is the
\* one that is registered.
LockInv ==
  \A t \in Thread :
    /\ pc[t] \in {"locked", "callback", "nested", "unlock"} => lock = t
    /\ pc[t] \in {"callback", "nested"} => callback = arg[t]

LEMMA NextLockInv == TypeOK /\ LockInv /\ [Next]_vars => LockInv'
<1> SUFFICES ASSUME TypeOK, LockInv, [Next]_vars PROVE LockInv'
  OBVIOUS
<1>t. /\ pc \in [Thread -> {"idle", "lock", "locked", "callback", "nested", "unlock"}]
      /\ arg \in [Thread -> Callback \cup {None, "null"}]
  BY DEF TypeOK
<1> USE DEF LockInv, Goto
<1>1. ASSUME NEW t \in Thread, NEW o \in Constant, NEW given \in BOOLEAN, CallConstant(t, o, given)
      PROVE  LockInv'
  BY <1>t, <1>1 DEF CallConstant
<1>2. ASSUME NEW t \in Thread, NEW o \in Reading, NEW size \in Buffers, CallReading(t, o, size)
      PROVE  LockInv'
  BY <1>t, <1>2 DEF CallReading
<1>3. ASSUME NEW t \in Thread, NEW o \in Locking, NEW c \in Callback \cup {"null"}, Enter(t, o, c)
      PROVE  LockInv'
  BY <1>t, <1>3 DEF Enter
<1>4. ASSUME NEW t \in Thread, Acquire(t) PROVE LockInv'
  BY <1>t, <1>4, StubAssumption DEF Acquire, StubAssumption
<1>5. ASSUME NEW t \in Thread, Register(t) PROVE LockInv'
  BY <1>t, <1>5 DEF Register
<1>6. ASSUME NEW t \in Thread, Emit(t) PROVE LockInv'
  BY <1>t, <1>6 DEF Emit, Held
<1>7. ASSUME NEW t \in Thread, NEW o \in Nested, CallbackRuns(t, o) PROVE LockInv'
  BY <1>t, <1>7 DEF CallbackRuns
<1>8. ASSUME NEW t \in Thread, Unlock(t) PROVE LockInv'
  BY <1>t, <1>8 DEF Unlock
<1>9. CASE Connect \/ Close \/ UNCHANGED vars
  BY <1>t, <1>9 DEF Connect, Close, vars
<1> QED
  BY <1>1, <1>2, <1>3, <1>4, <1>5, <1>6, <1>7, <1>8, <1>9 DEF Next, Work, Calls

\* The mutex that surreal_debug_emit holds while it calls keeps a replaced or removed
\* callback from running: its user_data may be freed after unsubscribe returned.
THEOREM RunsWhatIsRegistered == Spec => []OnlyRegisteredRuns
<1>1. Init => LockInv
  BY DEF Init, LockInv
<1>2. LockInv => OnlyRegisteredRuns
  BY DEF LockInv, OnlyRegisteredRuns
<1> QED
  BY <1>1, <1>2, TypeCorrect, NextLockInv, PTL DEF Spec
-----------------------------------------------------------------------------
(* Nobody waits for a thread that waits.                                      *)

\* A callback that takes the mutex would wait for its own thread, which holds it.
NestedTakesNoMutex == Nested \cap Locking = {}

LEMMA NextHolder ==
  ASSUME NestedTakesNoMutex, TypeOK, LockInv, HolderCanStep, [Next]_vars
  PROVE  HolderCanStep'
<1>t. /\ pc \in [Thread -> {"idle", "lock", "locked", "callback", "nested", "unlock"}]
      /\ lock \in Thread \cup {NoThread} /\ NoThread \notin Thread
  BY StubAssumption DEF TypeOK, StubAssumption
<1>m. \A t \in Thread : pc[t] \in {"locked", "callback", "nested", "unlock"} => lock = t
  BY DEF LockInv
<1> USE DEF HolderCanStep, Goto
<1>1. ASSUME NEW t \in Thread, Calls(t) PROVE HolderCanStep'
  <2>1. lock' = lock /\ pc[t] = "idle"
    BY <1>1 DEF Calls, CallConstant, CallReading, Enter
  <2>2. pc' = pc \/ pc' = [pc EXCEPT ![t] = "lock"]
    BY <1>1 DEF Calls, CallConstant, CallReading, Enter
  <2> QED
    BY <1>t, <2>1, <2>2
<1>2. ASSUME NEW t \in Thread, Acquire(t) PROVE HolderCanStep'
  BY <1>t, <1>2 DEF Acquire
<1>3. ASSUME NEW t \in Thread, Register(t) PROVE HolderCanStep'
  BY <1>t, <1>3 DEF Register
<1>4. ASSUME NEW t \in Thread, Emit(t) PROVE HolderCanStep'
  BY <1>t, <1>4 DEF Emit, Held
<1>5. ASSUME NEW t \in Thread, NEW o \in Nested, CallbackRuns(t, o) PROVE HolderCanStep'
  BY <1>t, <1>5 DEF CallbackRuns, NeedsMutex, NestedTakesNoMutex
<1>6. ASSUME NEW t \in Thread, Unlock(t) PROVE HolderCanStep'
  <2>1. lock = t
    BY <1>m, <1>6 DEF Unlock
  <2> QED
    BY <1>6, <2>1 DEF Unlock
<1>7. CASE Connect \/ Close \/ UNCHANGED vars
  BY <1>7 DEF Connect, Close, vars
<1> QED
  BY <1>1, <1>2, <1>3, <1>4, <1>5, <1>6, <1>7 DEF Next, Work

\* The mutex that surreal_debug_emit keeps while it calls is always on its way to be
\* released, if no callback takes it again: on_command_cb calls surreal_update alone.
THEOREM WaitsForAStep == ASSUME NestedTakesNoMutex PROVE Spec => []HolderCanStep
<1>1. Init => LockInv /\ HolderCanStep
  BY DEF Init, LockInv, HolderCanStep
<1>2. TypeOK /\ LockInv /\ HolderCanStep /\ [Next]_vars => HolderCanStep'
  BY NextHolder
<1> QED
  BY <1>1, <1>2, TypeCorrect, NextLockInv, PTL DEF Spec
-----------------------------------------------------------------------------
(* What becomes of the url: from the theorems of UrlFormsProofs.              *)

UrlInv ==
  /\ url \in Urls \cup {NoUrl}
  /\ handle = "unconnected" => url \in Urls

LEMMA NextUrlInv == UrlInv /\ [Next]_vars => UrlInv'
<1> SUFFICES ASSUME UrlInv, [Next]_vars PROVE UrlInv'
  OBVIOUS
<1> USE DEF UrlInv
<1>1. CASE Connect
  BY <1>1 DEF Connect
<1>2. CASE Close
  BY <1>2 DEF Close
<1>3. ASSUME NEW t \in Thread, Work(t) \/ Calls(t) PROVE UNCHANGED <<handle, url>>
  BY <1>3 DEF Work, Acquire, Register, Emit, Unlock, CallbackRuns, Calls, CallConstant,
              CallReading, Enter
<1> QED
  BY <1>1, <1>2, <1>3 DEF Next, vars

LEMMA UrlCorrect == Spec => []UrlInv
<1>1. Init => UrlInv
  BY DEF Init, UrlInv
<1> QED
  BY <1>1, NextUrlInv, PTL DEF Spec

\* For every url that surreal_connect can be given, the endpoint that the real client would
\* take from it (normalize_ws_url) is the host that the stub probes (parse_host_port), as
\* a url has it, followed by nothing, a port or a path.
THEOREM ProbesTheSameHost == Spec => []SameHostAsReal
<1>1. UrlInv => SameHostAsReal
  <2> SUFFICES ASSUME UrlInv, url # NoUrl PROVE SameHostAsReal
    BY DEF SameHostAsReal
  <2>1. url \in Form
    BY StubAssumption DEF UrlInv, StubAssumption
  <2> QED
    BY <2>1, ParsesWhatIsNamed, EndpointBeginsWithTheHost, Zenon DEF SameHostAsReal
<1> QED
  BY <1>1, UrlCorrect, PTL DEF Spec

\* surreal_connect of the stub returns a handle exactly where the url names an address of
\* IPv4 at whose port something listens, whatever listens.
THEOREM ConnectsExactlyWhereNamed == Spec => ConnectsWhereNamed
<1>1. UrlInv /\ [Next]_vars =>
        [handle = "unconnected" /\ handle' # handle =>
           (handle' = "open" <=> Named(url).host = <<"ip4">> /\ Named(url).port \in Listening)]_vars
  <2> SUFFICES ASSUME UrlInv, Next, handle = "unconnected", handle' # handle
               PROVE  handle' = "open" <=> /\ Named(url).host = <<"ip4">>
                                           /\ Named(url).port \in Listening
    OBVIOUS
  <2>1. ASSUME NEW t \in Thread, Work(t) \/ Calls(t) PROVE UNCHANGED handle
    BY <2>1 DEF Work, Acquire, Register, Emit, Unlock, CallbackRuns, Calls, CallConstant,
                CallReading, Enter
  <2>2. Connect
    BY <2>1 DEF Next, Close, vars
  <2>3. url \in Form
    BY StubAssumption DEF UrlInv, StubAssumption
  <2>4. ParseHostPort(Written(url)) = Named(url)
    BY <2>3, ParsesWhatIsNamed
  <2>5. Probe(url) <=> Named(url).host = <<"ip4">> /\ Named(url).port \in Listening
    <3>1. <<"ip4">> # <<>> /\ NoAddress.host = <<>>
      BY DEF NoAddress
    <3>2. Probe(url) <=> IsSocketAddress(Named(url)) /\ Named(url).port \in Listening
      BY <2>4, Zenon DEF Probe
    <3>3. IsSocketAddress(Named(url)) <=> Named(url).host = <<"ip4">>
      BY <3>1, Zenon DEF IsSocketAddress
    <3> QED
      BY <3>2, <3>3
  <2>6. handle' = "open" <=> Probe(url)
    BY <2>2 DEF Connect
  <2> QED
    BY <2>5, <2>6
<1> QED
  BY <1>1, UrlCorrect, PTL DEF Spec, ConnectsWhereNamed
=============================================================================
