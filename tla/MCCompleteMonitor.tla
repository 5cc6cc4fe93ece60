------------------------- MODULE MCCompleteMonitor -------------------------
(***************************************************************************)
(* CompleteMonitor for TLC.  Pids are only compared for equality and the   *)
(* memory of a record has no address, so both are symmetric; a run that    *)
(* checks a liveness property does not use the symmetry.                   *)
(***************************************************************************)
EXTENDS CompleteMonitor, TLC

Symmetry == Permutations(Pid) \cup Permutations(Rec)

=============================================================================
