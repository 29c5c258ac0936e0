------------------------------ MODULE MCFfiStub ------------------------------
(* Instances of FfiStub for TLC. *)
EXTENDS FfiStub

CONSTANTS t1, t2, first, second

\* Every form of url.
AllForms == Form

\* What on_command_cb calls, and a callback that only looks at its arguments.
CommandCallback == {"update", "nothing"}
=============================================================================
