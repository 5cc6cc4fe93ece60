-------------------------- MODULE MCProcessMonitor --------------------------
(***************************************************************************)
(* ProcessMonitor for TLC.                                                 *)
(***************************************************************************)
EXTENDS ProcessMonitor, TLC

Symmetry == Permutations(Pid) \cup Permutations(Rec)

=============================================================================
