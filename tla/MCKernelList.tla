---------------------------- MODULE MCKernelList ----------------------------
(* Small instances of KernelList.  Users and records are alike.            *)
EXTENDS KernelList, TLC

Symmetry == Permutations(User) \cup Permutations(Record)

=============================================================================
