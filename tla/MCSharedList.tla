---------------------------- MODULE MCSharedList ----------------------------
(* Small instances of SharedList: operations that share a lock, and not.   *)
EXTENDS SharedList, TLC

OneLock  == {{"spin", "show", "clear"}, {"mutex"}, {"rwlock", "read"}}
AllLocks == {Operations}
Safe     == OneLock \cup AllLocks
Mixed    == {{"spin", "mutex"}}
None     == {}

Symmetry == Permutations(Worker) \cup Permutations(User) \cup Permutations(Item)

=============================================================================
