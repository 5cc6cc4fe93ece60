--------------------------- MODULE ProcessMonitor ---------------------------
(***************************************************************************)
(* process_monitor.c, the first monitor: one list of records under one     *)
(* spin lock, four counters, and a /proc file that shows and clears both.  *)
(* An exit marks the OLDEST running record of the pid, "clear" sets the    *)
(* counters back together with the list.  The show function, which only    *)
(* reads, is left out.                                                     *)
(*                                                                         *)
(* After its unlock a handler reads no shared state, so that it is back    *)
(* with the end of its critical section.                                   *)
(***************************************************************************)
EXTENDS MonitorStats, Sequences, FiniteSets, Functions

CONSTANTS
  Pid,            \* the pids that fork and exit; a pid is used again
  Rec,            \* the memory kmalloc hands out, a record at a time
  NoRec,          \* the value of a pointer not yet set
  MaxRecords,     \* MAX_PROCESS_RECORDS
  MaxJiffies,     \* bound: the clock stops here
  MaxCreated      \* bound: so many creations, counted or on their way, at most

ASSUME NoRecAssumption == NoRec \notin Rec
ASSUME BoundsAssumption ==
  /\ MaxRecords \in Nat \ {0}
  /\ MaxJiffies \in Nat
  /\ MaxCreated \in 0 .. ULongMax
  /\ IsFiniteSet(Pid)

VARIABLES
  phase,               \* how far the module is loaded or unloaded
  process_list,        \* the records, oldest first
  record_count,
  stats,
  heap,                \* what is allocated: its domain is the live memory
  pc,                  \* where the handler of each process is
  ptr,                 \* the local variable "record" of that handler
  jiffies

vars == <<phase, process_list, record_count, stats, heap, pc, ptr, jiffies>>

RUNNING == 1
EXITED  == 0

Time == 0 .. MaxJiffies

\* struct process_record; ppid and comm decide nothing.
Record == [pid : Pid, start_time : Time, end_time : Time, status : {RUNNING, EXITED}]

(***************************************************************************)
(* A process is at one of                                                  *)
(*   "user"    no handler runs for it                                      *)
(*   "add"     its record is filled in, add_process_record wants the lock  *)
(*   "mark"    mark_process_exit wants the lock                            *)
(*   "exited"  its exit has been marked; its pid is free                   *)
(***************************************************************************)
Handler == {"user", "add", "mark", "exited"}

InHandler(where) == {p \in Pid : pc[p] \in where}

Phase == {"loading",        \* before proc_create
          "created",        \* the proc file exists, no probe is registered
          "fork_probed",    \* the fork probe is registered
          "live",           \* loaded
          "abort",          \* the exit probe failed: the fork probe goes away
          "cleanup",        \* the proc file goes away, init returns an error
          "failed",
          "exit_fork",      \* rmmod: the fork probe goes away
          "exit_exit",      \* the exit probe goes away
          "exit_proc",      \* the proc file goes away
          "exit_free",      \* the records are freed
          "unloaded"}

ForkProbed == phase \in {"fork_probed", "live"}
ExitProbed == phase \in {"live", "exit_fork"}
FileExists == phase \in {"created", "fork_probed", "live", "abort", "cleanup",
                         "exit_fork", "exit_exit", "exit_proc"}

Init ==
  /\ phase = "loading"
  /\ process_list = <<>>
  /\ record_count = 0
  /\ stats = ZeroCountStats
  /\ heap = [r \in {} |-> NoRec]
  /\ pc = [p \in Pid |-> "user"]
  /\ ptr = [p \in Pid |-> NoRec]
  /\ jiffies = 0

Allocated == DOMAIN heap

Kmalloc(r, value) ==
  heap' = [x \in Allocated \cup {r} |-> IF x = r THEN value ELSE heap[x]]

Kfree(S) == heap' = [x \in Allocated \ S |-> heap[x]]

-----------------------------------------------------------------------------
(* The probes.                                                             *)

NewRecord(p) ==
  [pid |-> p, start_time |-> jiffies, end_time |-> 0, status |-> RUNNING]

\* add_process_record up to its lock, with the memory it asked for.
ForkEnter(p) ==
  /\ ForkProbed
  /\ pc[p] = "user"
  /\ stats.total_processes_created + Cardinality(InHandler({"add"})) < MaxCreated
  /\ \E r \in Rec \ Allocated :
       /\ Kmalloc(r, NewRecord(p))
       /\ ptr' = [ptr EXCEPT ![p] = r]
  /\ pc' = [pc EXCEPT ![p] = "add"]
  /\ UNCHANGED <<phase, process_list, record_count, stats, jiffies>>

InsertWithRoom(r) ==
  /\ record_count < MaxRecords
  /\ process_list' = Append(process_list, r)
  /\ record_count' = record_count + 1
  /\ UNCHANGED heap

\* Mutants: the eviction forgets record_count--, forgets kfree, or takes the
\* newest record.
InsertKeepingCount(r) ==
  /\ record_count >= MaxRecords
  /\ process_list' = Append(Tail(process_list), r)
  /\ record_count' = record_count + 1
  /\ Kfree({Head(process_list)})

InsertLeakingOldest(r) ==
  /\ record_count >= MaxRecords
  /\ process_list' = Append(Tail(process_list), r)
  /\ record_count' = record_count
  /\ UNCHANGED heap

InsertEvictingNewest(r) ==
  /\ record_count >= MaxRecords
  /\ process_list' = [process_list EXCEPT ![Len(process_list)] = r]
  /\ record_count' = record_count
  /\ Kfree({process_list[Len(process_list)]})

InsertEvictingOldest(r) ==
  /\ record_count >= MaxRecords
  /\ process_list' = Append(Tail(process_list), r)
  /\ record_count' = record_count
  /\ Kfree({Head(process_list)})

\* The critical section of add_process_record.
AddRecord(p) ==
  /\ pc[p] = "add"
  /\ InsertWithRoom(ptr[p]) \/ InsertEvictingOldest(ptr[p])
  /\ stats' = CountCreate(stats)
  /\ pc' = [pc EXCEPT ![p] = "user"]
  /\ ptr' = [ptr EXCEPT ![p] = NoRec]
  /\ UNCHANGED <<phase, jiffies>>

ExitEnter(p) ==
  /\ ExitProbed
  /\ pc[p] = "user"
  /\ pc' = [pc EXCEPT ![p] = "mark"]
  /\ UNCHANGED <<phase, process_list, record_count, stats, heap, ptr, jiffies>>

IsRunningOf(r, p) == heap[r].pid = p /\ heap[r].status = RUNNING

\* The places of the list that the loop of mark_process_exit stops at.
RunningOf(p) == {i \in DOMAIN process_list : IsRunningOf(process_list[i], p)}

\* Mutant: the loop runs from the tail of the list.
MarkNewest(p) ==
  \E i \in RunningOf(p) :
    /\ \A j \in RunningOf(p) : i >= j
    /\ heap' = [heap EXCEPT ![process_list[i]].status = EXITED,
                            ![process_list[i]].end_time = jiffies]
    /\ stats' = CountExit(stats)

MarkOldest(p) ==
  \E i \in RunningOf(p) :
    /\ \A j \in RunningOf(p) : i <= j
    /\ heap' = [heap EXCEPT ![process_list[i]].status = EXITED,
                            ![process_list[i]].end_time = jiffies]
    /\ stats' = CountExit(stats)

\* Mutant: an exit is counted whether or not a record is found.
MarkExitAlways(p) ==
  /\ pc[p] = "mark"
  /\ \/ MarkOldest(p)
     \/ RunningOf(p) = {} /\ stats' = CountExit(stats) /\ UNCHANGED heap
  /\ pc' = [pc EXCEPT ![p] = "exited"]
  /\ UNCHANGED <<phase, process_list, record_count, ptr, jiffies>>

\* The critical section of mark_process_exit.
MarkExit(p) ==
  /\ pc[p] = "mark"
  /\ \/ MarkOldest(p)
     \/ RunningOf(p) = {} /\ UNCHANGED <<heap, stats>>
  /\ pc' = [pc EXCEPT ![p] = "exited"]
  /\ UNCHANGED <<phase, process_list, record_count, ptr, jiffies>>

\* Another process gets the pid.
ReusePid(p) ==
  /\ pc[p] = "exited"
  /\ pc' = [pc EXCEPT ![p] = "user"]
  /\ UNCHANGED <<phase, process_list, record_count, stats, heap, ptr, jiffies>>

-----------------------------------------------------------------------------
(* /proc/process_monitor.                                                  *)

\* process_monitor_write of "clear".
ClearRecords ==
  /\ FileExists
  /\ Kfree(Range(process_list))
  /\ process_list' = <<>>
  /\ stats' = ZeroCountStats
  /\ record_count' = 0
  /\ UNCHANGED <<phase, pc, ptr, jiffies>>

-----------------------------------------------------------------------------
(* Loading and unloading.  unregister_kprobe disarms a probe and waits for *)
(* its handlers.                                                           *)

NoneIn(where) == InHandler(where) = {}

Step(from, to) ==
  /\ phase = from
  /\ phase' = to
  /\ UNCHANGED <<process_list, record_count, stats, heap, pc, ptr, jiffies>>

Load == \/ Step("loading", "created")
        \/ Step("loading", "failed")
        \/ Step("created", "fork_probed")
        \/ Step("created", "cleanup")
        \/ Step("fork_probed", "live")
        \/ Step("fork_probed", "abort")
        \/ NoneIn({"add"}) /\ Step("abort", "cleanup")
        \/ Step("cleanup", "failed")

Rmmod == Step("live", "exit_fork")

FreeRecords ==
  /\ phase = "exit_free"
  /\ phase' = "unloaded"
  /\ Kfree(Range(process_list))
  /\ process_list' = <<>>
  /\ UNCHANGED <<record_count, stats, pc, ptr, jiffies>>

\* Mutant: the fork probe is unregistered without waiting for its handlers.
UnloadAtOnce == \/ Step("exit_fork", "exit_exit")
                \/ NoneIn({"mark"}) /\ Step("exit_exit", "exit_proc")
                \/ Step("exit_proc", "exit_free")
                \/ FreeRecords

Unload == \/ NoneIn({"add"}) /\ Step("exit_fork", "exit_exit")
          \/ NoneIn({"mark"}) /\ Step("exit_exit", "exit_proc")
          \/ Step("exit_proc", "exit_free")
          \/ FreeRecords

-----------------------------------------------------------------------------

Tick ==
  /\ jiffies < MaxJiffies
  /\ jiffies' = jiffies + 1
  /\ UNCHANGED <<phase, process_list, record_count, stats, heap, pc, ptr>>

\* The module is out of the kernel: nothing more can happen.
Gone == phase \in {"failed", "unloaded"} /\ UNCHANGED vars

Next == \/ \E p \in Pid : \/ ForkEnter(p) \/ AddRecord(p)
                          \/ ExitEnter(p) \/ MarkExit(p) \/ ReusePid(p)
        \/ ClearRecords
        \/ Load \/ Rmmod \/ Unload
        \/ Tick
        \/ Gone

Spec == Init /\ [][Next]_vars

-----------------------------------------------------------------------------
(* Properties.                                                             *)

TypeOK ==
  /\ phase \in Phase
  /\ process_list \in Seq(Rec)
  /\ record_count \in 0 .. MaxRecords
  /\ stats \in CountStats
  /\ Allocated \in SUBSET Rec
  /\ heap \in [Allocated -> Record]
  /\ pc \in [Pid -> Handler]
  /\ ptr \in [Pid -> Rec \cup {NoRec}]
  /\ jiffies \in Time

\* The records whose handler has filled them in and waits for the lock.
Filled == {ptr[p] : p \in InHandler({"add"})}

\* Memory has exactly one owner, the list or the handler that has filled the
\* record in (lines 54-79), and record_count is the length of the list: it is
\* what decides that the list has a head to evict (lines 70-76).  The count
\* of an unloaded module is the one it had.
RecordsOwnedOnce ==
  /\ Allocated = Range(process_list) \cup Filled
  /\ Range(process_list) \cap Filled = {}
  /\ IsInjective(process_list)
  /\ \A p, q \in InHandler({"add"}) : ptr[p] = ptr[q] => p = q
  /\ phase # "unloaded" => record_count = Len(process_list)

Listed(status) == {i \in DOMAIN process_list : heap[process_list[i]].status = status}

\* The counters and the list tell one story, clears and evictions included:
\* every creation is current or exited, the peak is between the current
\* number and the creations, and the list shows no RUNNING record beyond
\* current_processes and no EXITED one beyond total_processes_exited (lines
\* 81-85, 104-105, 184-190).
Accounting ==
  /\ stats.total_processes_created
       = stats.total_processes_exited + stats.current_processes
  /\ stats.current_processes <= stats.peak_processes
  /\ stats.peak_processes <= stats.total_processes_created
  /\ Cardinality(Listed(RUNNING)) <= stats.current_processes
  /\ Cardinality(Listed(EXITED)) <= stats.total_processes_exited

\* The loop of lines 100-108 starts at the oldest record: of the records of
\* one pid, those that are EXITED come before those that are RUNNING.
ExitsInForkOrder ==
  \A i, j \in DOMAIN process_list :
    LET a == heap[process_list[i]]
        b == heap[process_list[j]]
    IN  i < j /\ a.pid = b.pid /\ b.status = EXITED => a.status = EXITED

\* Nothing stays allocated when the module is unloaded: the fork probe is
\* drained before the loop of lines 264-267 runs.
UnloadFreesAll == phase = "unloaded" => Allocated = {}

\* The list implements the bounded log.
ListedRecords == [i \in DOMAIN process_list |-> heap[process_list[i]]]

Log == INSTANCE RecordLog WITH log <- ListedRecords
ImplementsLog == Log!Spec

-----------------------------------------------------------------------------
(* What the program's texts say and its code does not do.                  *)

\* A load that fails undoes what it did (lines 239-244).
FailedLoadFreesAll == phase = "failed" => Allocated = {}

=============================================================================
