----------------------------- MODULE MCSurHandle -----------------------------
(* Instances of SurHandle for TLC. *)
EXTENDS SurHandle, TLC

CONSTANTS sender, api1, api2

CallerSymmetry == Permutations({sender, api1, api2})
=============================================================================
