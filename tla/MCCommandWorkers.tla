-------------------------- MODULE MCCommandWorkers --------------------------
(* Instances of CommandWorkers for TLC. *)
EXTENDS CommandWorkers

CONSTANTS r1, p1, p2
=============================================================================
