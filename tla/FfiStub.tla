------------------------------- MODULE FfiStub -------------------------------
(***************************************************************************)
(* The stub build of surrealdb_ffi (feature stub): connecting is a probe of   *)
(* the address, the callback is one per handle, under a mutex that            *)
(* surreal_debug_emit holds while it calls it, and the other entry points      *)
(* return constants.  Several threads call it, and the callback itself may.    *)
(***************************************************************************)
EXTENDS UrlForms

CONSTANTS
  Thread,       \* threads of the program that uses the library
  Callback,     \* functions that it registers
  Nested,       \* what a callback calls: entry points, or "nothing"
  Urls,         \* forms of the urls it connects to
  Listening,    \* ports of the probed machine on which something listens
  Buffers       \* sizes of its buffers

Locking == {"subscribe", "unsubscribe", "debug_emit"}
Reading == {"select", "get", "last_error_text"}
Constant == {"publish", "update"}

NoThread == "nobody"

ASSUME StubAssumption ==
  /\ NoThread \notin Thread
  /\ Nested \subseteq Locking \cup Constant \cup {"nothing"}
  /\ Urls \subseteq Form
  /\ Listening \subseteq Nat /\ Buffers \subseteq Nat

None == "none"      \* callback: nothing registered; a NULL function pointer is "null"
NoUrl == [scheme |-> "none"]

VARIABLES
  handle,     \* not connected yet, NULL, open, or closed
  url,        \* the form of the url that surreal_connect is given
  callback,   \* h.callback
  lock,       \* the thread that holds its mutex
  pc, op,     \* thread: position, and the entry point it is in
  arg,        \* thread: the callback it registers or runs
  rc,         \* thread: return code
  buf         \* thread: size of its buffer and the length written into it

vars == <<handle, url, callback, lock, pc, op, arg, rc, buf>>

TypeOK ==
  /\ handle \in {"unconnected", "null", "open", "closed"}
  /\ url \in Urls \cup {NoUrl}
  /\ callback \in Callback \cup {None, "null"}
  /\ lock \in Thread \cup {NoThread}
  /\ pc \in [Thread -> {"idle", "lock", "locked", "callback", "nested", "unlock"}]
  /\ op \in [Thread -> Locking \cup Reading \cup Constant]
  /\ arg \in [Thread -> Callback \cup {None, "null"}]
  /\ rc \in [Thread -> {0, -1, -3, -4} \cup Nat]
  /\ buf \in [Thread -> [size : Buffers \cup {0}, len : Nat]]

Init ==
  /\ handle = "unconnected" /\ url \in Urls
  /\ callback = None /\ lock = NoThread
  /\ pc = [t \in Thread |-> "idle"]
  /\ op = [t \in Thread |-> "publish"]
  /\ arg = [t \in Thread |-> None]
  /\ rc = [t \in Thread |-> 0]
  /\ buf = [t \in Thread |-> [size |-> 0, len |-> 0]]

Idle == \A t \in Thread : pc[t] = "idle"
Goto(t, p) == pc' = [pc EXCEPT ![t] = p]
Code(t, c) == rc' = [rc EXCEPT ![t] = c]

\* A thread uses the handle that it was given, NULL included, until it is closed.
MayCall == handle \in {"null", "open"}
-----------------------------------------------------------------------------
\* tcp_probe decides whether there is a handle; the credentials are not looked at.
Probe(f) ==
  LET a == ParseHostPort(Written(f))
  IN IsSocketAddress(a) /\ a.port \in Listening

Connect ==
  /\ handle = "unconnected"
  /\ handle' = IF Probe(url) THEN "open" ELSE "null"
  /\ url' = NoUrl                       \* the caller's string is not kept
  /\ UNCHANGED <<callback, lock, pc, op, arg, rc, buf>>

\* The caller sees to it that no call is in progress.
Close ==
  /\ handle = "open" /\ Idle
  /\ handle' = "closed"
  /\ UNCHANGED <<url, callback, lock, pc, op, arg, rc, buf>>

\* surreal_publish reports success of whatever it is given, on a handle; surreal_update
\* does not even look at the handle, but refuses a patch that is NULL.
UnderNoHandle(o, given) == IF handle = "null" THEN 0 ELSE -2 \* fault: check inverted
ConstantCode(o, given) ==
  IF o = "update" THEN IF given THEN 0 ELSE -4
  ELSE IF handle = "open" THEN 0 ELSE -1

CallConstant(t, o, given) ==
  /\ MayCall /\ pc[t] = "idle"
  /\ op' = [op EXCEPT ![t] = o]
  /\ Code(t, ConstantCode(o, given))
  /\ UNCHANGED <<handle, url, callback, lock, pc, arg, buf>>

\* The text of each is shorter than a real one, but copied in the same way.
TextLength == [o \in Reading |-> CASE o = "select" -> 2 [] o = "get" -> 4
                                   [] o = "last_error_text" -> 0]

WholeBuffer(len, size) == IF len < size THEN len ELSE size   \* fault: no place for the NUL
Copied(len, size) == IF len < size - 1 THEN len ELSE size - 1

\* select and get return 0 even if the text was cut, last_error_text returns its length.
CallReading(t, o, size) ==
  /\ MayCall /\ pc[t] = "idle"
  /\ op' = [op EXCEPT ![t] = o]
  /\ IF handle = "null" \/ size = 0
     THEN Code(t, -1) /\ buf' = [buf EXCEPT ![t] = [size |-> size, len |-> 0]]
     ELSE LET n == Copied(TextLength[o], size)
          IN /\ buf' = [buf EXCEPT ![t] = [size |-> size, len |-> n]]
             /\ Code(t, IF o = "last_error_text" THEN n ELSE 0)
  /\ UNCHANGED <<handle, url, callback, lock, pc, arg>>
-----------------------------------------------------------------------------
(* The entry points that take the mutex of the callback.                      *)

Enter(t, o, c) ==
  /\ MayCall /\ pc[t] = "idle"
  /\ op' = [op EXCEPT ![t] = o]
  /\ arg' = [arg EXCEPT ![t] = IF o = "subscribe" THEN c ELSE None]
  /\ IF handle = "null" THEN Code(t, -1) /\ UNCHANGED pc
                        ELSE Goto(t, "lock") /\ UNCHANGED rc
  /\ UNCHANGED <<handle, url, callback, lock, buf>>

Acquire(t) ==
  /\ pc[t] = "lock" /\ lock = NoThread
  /\ lock' = t
  /\ Goto(t, "locked")
  /\ UNCHANGED <<handle, url, callback, op, arg, rc, buf>>

\* The topic is not looked at: the last to subscribe takes the place of the others, and
\* anybody's unsubscribe removes it.
Register(t) ==
  /\ pc[t] = "locked" /\ op[t] \in {"subscribe", "unsubscribe"}
  /\ callback' = arg[t]
  /\ Code(t, 0)
  /\ Goto(t, "unlock")
  /\ UNCHANGED <<handle, url, lock, op, arg, buf>>

Released(t) == NoThread        \* fault: the guard is dropped before the call
Held(t) == lock

\* The callback is called with the mutex held.
Emit(t) ==
  /\ pc[t] = "locked" /\ op[t] = "debug_emit"
  /\ IF callback \in Callback
     THEN /\ arg' = [arg EXCEPT ![t] = callback]
          /\ lock' = Held(t)
          /\ Code(t, 0)
          /\ Goto(t, "callback")
     ELSE Code(t, -3) /\ Goto(t, "unlock") /\ UNCHANGED <<arg, lock>>
  /\ UNCHANGED <<handle, url, callback, op, buf>>

TakesMutex(o) == TRUE          \* fault: every entry point takes it
NeedsMutex(o) == o \in Locking

\* The callback returns, or calls the library on its own thread first: an entry point
\* that takes no mutex returns to it; the others wait for this very thread, for ever.
CallbackRuns(t, o) ==
  /\ pc[t] = "callback"
  /\ Goto(t, IF NeedsMutex(o) /\ o # "nothing" THEN "nested" ELSE "unlock")
  /\ UNCHANGED <<handle, url, callback, lock, op, arg, rc, buf>>

Unlock(t) ==
  /\ pc[t] = "unlock"
  /\ lock' = IF lock = t THEN NoThread ELSE lock
  /\ arg' = [arg EXCEPT ![t] = None]
  /\ Goto(t, "idle")
  /\ UNCHANGED <<handle, url, callback, op, rc, buf>>

Work(t) ==
  \/ Acquire(t) \/ Register(t) \/ Emit(t) \/ Unlock(t)
  \/ (\E o \in Nested : CallbackRuns(t, o))

Calls(t) ==
  \/ \E o \in Constant, given \in BOOLEAN : CallConstant(t, o, given)
  \/ \E o \in Reading, size \in Buffers : CallReading(t, o, size)
  \/ \E o \in Locking, c \in Callback \cup {"null"} : Enter(t, o, c)

Next == Connect \/ Close \/ \E t \in Thread : Work(t) \/ Calls(t)

Spec == Init /\ [][Next]_vars

\* Threads are scheduled, and one that waits for the mutex gets it in the end.
Fairness == \A t \in Thread : WF_vars(Work(t)) /\ SF_vars(Acquire(t))

FairSpec == Spec /\ Fairness
-----------------------------------------------------------------------------
\* A callback that has been replaced or unsubscribed does not run: once either call
\* has returned the program may free what its user_data points to.
OnlyRegisteredRuns ==
  \A t \in Thread : pc[t] \in {"callback", "nested"} => callback = arg[t]

\* Whoever holds the mutex has a step of its own to take: a thread that waits for it waits
\* neither for itself nor for one that waits as well.
HolderCanStep == lock # NoThread => pc[lock] \in {"locked", "callback", "unlock"}

\* The NUL is written inside the buffer, whatever its size.
NulInside == \A t \in Thread : buf[t].size > 0 => buf[t].len < buf[t].size

\* There is a handle exactly if something listens at the address the url names, and
\* that is one of IPv4.
ConnectsWhereNamed ==
  [][handle = "unconnected" /\ handle' # handle =>
       (handle' = "open" <=> Named(url).host = <<"ip4">> /\ Named(url).port \in Listening)]_vars

\* The endpoint that the real client would be given for the same url is the host that the
\* stub probes, and behind it nothing, a port or a path.
SameHostAsReal ==
  url # NoUrl =>
    LET endpoint == NormalizeWsUrl(Written(url))
        probed == AsWritten(ParseHostPort(Written(url)).host)
        rest == After(Len(probed), endpoint)
    IN /\ endpoint = probed \o rest
       /\ rest = <<>> \/ Head(rest) \in {":", "/"}

\* Every call returns, also while another thread's callback runs or calls the library.
CallsReturn == \A t \in Thread : pc[t] # "idle" ~> pc[t] = "idle"
=============================================================================
