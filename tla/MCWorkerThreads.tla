-------------------------- MODULE MCWorkerThreads --------------------------
(* Small instances of WorkerThreads.  Writers and threads are alike.       *)
EXTENDS WorkerThreads, TLC

Symmetry == Permutations(Writer) \cup Permutations(Thread)

=============================================================================
