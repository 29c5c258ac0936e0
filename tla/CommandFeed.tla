----------------------------- MODULE CommandFeed -----------------------------
(***************************************************************************)
(* What those who run the commands of a table promise, whichever program     *)
(* they are and however they learn of them: a command is begun for having    *)
(* been asked for, once for each time, and is reported as done only after it *)
(* was begun.  A report may be withdrawn.  CommandWorkers with workers that  *)
(* lose no request, and Subscription, implement this specification.          *)
(***************************************************************************)
EXTENDS Naturals

CONSTANTS
  Command,
  Refused      \* commands that are never done

VARIABLES
  asked,       \* command: how often it was asked for
  begun,       \* command: how often it was begun
  done         \* commands that are reported as done

vars == <<asked, begun, done>>

\* Some may have been asked for before anybody listens.
Init ==
  /\ asked \in [Command -> Nat]
  /\ begun = [c \in Command |-> 0]
  /\ done = {}

\* Asking for it again, of any number of listeners, takes the report back.
Ask(c) ==
  /\ asked' \in [Command -> Nat]
  /\ asked'[c] >= asked[c]
  /\ \A d \in Command \ {c} : asked'[d] = asked[d]
  /\ done' = done \ {c}
  /\ UNCHANGED begun

Begin(c) ==
  /\ begun[c] < asked[c]
  /\ begun' = [begun EXCEPT ![c] = @ + 1]
  /\ UNCHANGED <<asked, done>>

Report(c) ==
  /\ begun[c] > 0 /\ c \notin Refused
  /\ done' = done \cup {c}
  /\ UNCHANGED <<asked, begun>>

Withdraw(c) ==
  /\ done' = done \ {c}
  /\ UNCHANGED <<asked, begun>>

Next == \E c \in Command : Ask(c) \/ Begin(c) \/ Report(c) \/ Withdraw(c)

Spec == Init /\ [][Next]_vars
=============================================================================
