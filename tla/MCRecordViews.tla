--------------------------- MODULE MCRecordViews ---------------------------
(* A small instance of RecordViews.                                        *)
EXTENDS RecordViews, TLC

CONSTANTS r1, r2, r3, r4, sh, ls

Infos ==
  r1 :> [pid |-> 1, ppid |-> 7, comm |-> sh, start_time |-> 2, running |-> TRUE,  lifetime |-> 0] @@
  r2 :> [pid |-> 2, ppid |-> 7, comm |-> sh, start_time |-> 1, running |-> FALSE, lifetime |-> 1] @@
  r3 :> [pid |-> 2, ppid |-> 1, comm |-> ls, start_time |-> 1, running |-> FALSE, lifetime |-> 3] @@
  r4 :> [pid |-> 1, ppid |-> 1, comm |-> sh, start_time |-> 2, running |-> FALSE, lifetime |-> 2]

Settings ==
  [enabled |-> {0, 1}, target_pid |-> {0, 2}, target_ppid |-> {7},
   target_comm |-> {sh}, min_lifetime |-> {2, -1}, max_lifetime |-> {2, -1}]

=============================================================================
