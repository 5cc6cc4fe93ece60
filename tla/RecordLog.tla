----------------------------- MODULE RecordLog -----------------------------
(***************************************************************************)
(* What a monitor promises of its process records, whatever it keeps them  *)
(* in: a bounded log, oldest first.  A new record is RUNNING and goes to   *)
(* the end, and when the log is full the oldest record makes room for it;  *)
(* an exit turns one RUNNING record of the exiting pid into an EXITED one  *)
(* where it stands, its other fields untouched; a clear empties the log.   *)
(***************************************************************************)
EXTENDS Naturals, Sequences

CONSTANTS Pid,            \* process identifiers
          MaxRecords,     \* MAX_PROCESS_RECORDS
          Time            \* the values jiffies takes

RUNNING == 1
EXITED  == 0

Record == [pid : Pid, start_time : Time, end_time : Time, status : {RUNNING, EXITED}]

VARIABLE log

Insert(r) ==
  /\ r.status = RUNNING
  /\ log' = Append(IF Len(log) >= MaxRecords THEN Tail(log) ELSE log, r)

MarkExited(i, now) ==
  /\ log[i].status = RUNNING
  /\ now >= log[i].start_time
  /\ log' = [log EXCEPT ![i].status = EXITED, ![i].end_time = now]

Clear == log' = <<>>

Init == log = <<>>

Next == \/ \E r \in Record : Insert(r)
        \/ \E i \in DOMAIN log, now \in Time : MarkExited(i, now)
        \/ Clear

Spec == Init /\ [][Next]_log

=============================================================================
