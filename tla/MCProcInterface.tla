-------------------------- MODULE MCProcInterface --------------------------
(* Small instances of ProcInterface.  Users are alike.                     *)
EXTENDS ProcInterface, TLC

Symmetry == Permutations(User)

=============================================================================
