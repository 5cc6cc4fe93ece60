-------------------------- MODULE CompleteMonitor --------------------------
(***************************************************************************)
(* experiments/05_complete_monitor.c: a kernel module that records forks   *)
(* and exits from two kprobes and keeps every record in three structures   *)
(* at once, a list (age), a hash chain (search by pid) and a tree (order   *)
(* by start time).  A handler runs on the CPU of the process that forks or *)
(* exits, in three stretches: what it does before it takes process_lock,   *)
(* its critical section, and what it does after the unlock.  Each stretch  *)
(* is an action, so that the handlers of different processes, the writes   *)
(* to /proc/.../control and the loading and unloading of the module        *)
(* interleave between them.                                                *)
(*                                                                         *)
(* A stretch that changes nothing is not an action: a handler that finds   *)
(* the monitoring stopped or gets no memory, a write of an unknown command *)
(* and the four show functions, which hold the lock while they print.      *)
(***************************************************************************)
EXTENDS MonitorStats, Sequences, SequencesExt

CONSTANTS
  Pid,            \* the pids that fork and exit; a pid is used again
  Rec,            \* the memory kmalloc hands out, a record at a time
  NoRec,          \* the NULL pointer
  MaxRecords,     \* MAX_PROCESS_RECORDS
  HZ,             \* jiffies in a second
  MaxJiffies,     \* bound: the clock stops here
  MaxCreated      \* bound: so many creations, counted or on their way, at most

ASSUME NoRecAssumption == NoRec \notin Rec
ASSUME BoundsAssumption ==
  /\ MaxRecords \in Nat \ {0}
  /\ HZ \in Nat \ {0}
  /\ MaxJiffies \in Nat
  /\ MaxCreated \in Nat
  /\ MaxJiffies <= ULongMax
  /\ IsFiniteSet(Pid)

VARIABLES
  phase,               \* how far the module is loaded or unloaded
  process_list,        \* the records, oldest first
  process_hash,        \* the hash chain, newest first
  process_tree,        \* the records in the red-black tree
  record_count,
  stats,
  monitoring_enabled,
  filter_enabled,      \* filter.enabled
  heap,                \* what is allocated: its domain is the live memory
  pc,                  \* where the handler of each process is
  ptr,                 \* the local variable "record" of that handler
  jiffies

indexes == <<process_list, process_hash, process_tree, record_count>>
vars == <<phase, indexes, stats, monitoring_enabled, filter_enabled, heap, pc,
          ptr, jiffies>>

RUNNING == 1
EXITED  == 0

Time == 0 .. MaxJiffies

\* struct process_record: ppid, comm, exit_code and the two sums that stay 0
\* decide nothing that is modelled here.
Record == [pid : Pid, start_time : Time, end_time : Time, status : {RUNNING, EXITED}]

(***************************************************************************)
(* The handler of a process is at one of                                   *)
(*   "user"    no handler runs for it                                      *)
(*   "add"     its record is filled in, add_process_record wants the lock  *)
(*   "added"   add_process_record has unlocked and may read its record     *)
(*   "mark"    mark_process_exit wants the lock                            *)
(*   "marked"  mark_process_exit has unlocked and may read its record      *)
(***************************************************************************)
Handler == {"user", "add", "added", "mark", "marked"}

InHandler(where) == {p \in Pid : pc[p] \in where}

Phase == {"loading",        \* before proc_mkdir
          "created",        \* the proc files exist, no probe is registered
          "fork_probed",    \* the fork probe is registered
          "live",           \* loaded
          "abort",          \* the exit probe failed: the fork probe goes away
          "cleanup",        \* at cleanup_proc
          "failed",         \* init returned an error
          "exit_fork",      \* rmmod: the fork probe goes away
          "exit_exit",      \* the exit probe goes away
          "exit_proc",      \* the proc files go away
          "exit_free",      \* the records are freed
          "unloaded"}

\* Mutant: unregister_kprobe waits without disarming the exit probe first.
ExitProbedStillArmed == phase \in {"live", "exit_fork", "exit_exit"}

ForkProbed  == phase \in {"fork_probed", "live"}
ExitProbed  == phase \in {"live", "exit_fork"}
FilesExist  == phase \in {"created", "fork_probed", "live", "abort", "cleanup",
                          "exit_fork", "exit_exit", "exit_proc"}

Init ==
  /\ phase = "loading"
  /\ process_list = <<>>
  /\ process_hash = <<>>
  /\ process_tree = {}
  /\ record_count = 0
  /\ stats = ZeroFullStats
  /\ monitoring_enabled = TRUE
  /\ filter_enabled = FALSE
  /\ heap = [r \in {} |-> NoRec]
  /\ pc = [p \in Pid |-> "user"]
  /\ ptr = [p \in Pid |-> NoRec]
  /\ jiffies = 0

-----------------------------------------------------------------------------
(* Memory, the hash chain and the search in it.                            *)

Allocated == DOMAIN heap

\* The creations that are counted, and those whose handler wants the lock.
Promised == stats.total_processes_created + Cardinality(InHandler({"add"}))

NewRecord(p) ==
  [pid |-> p, start_time |-> jiffies, end_time |-> 0, status |-> RUNNING]

Kmalloc(r, value) ==
  heap' = [x \in Allocated \cup {r} |-> IF x = r THEN value ELSE heap[x]]

Kfree(S) == heap' = [x \in Allocated \ S |-> heap[x]]

\* hash_add puts a record in front of its chain, hash_del takes it out.  The
\* buckets are kept as one chain: the search skips the records of other pids.
HashAdd(chain, r) == <<r>> \o chain
HashDel(chain, r) == RemoveAt(chain, CHOOSE i \in DOMAIN chain : chain[i] = r)

\* Mutant: the clear loop forgets hash_del.
HashDelAllForgotten(chain, S) == chain

\* hash_del of every record of S, one after the other.  The first case is a
\* value of the second one, named because it is what a clear comes to.
HashDelAll(chain, S) ==
  IF Range(chain) \subseteq S THEN <<>> ELSE SelectSeq(chain, LAMBDA r : r \notin S)

\* Mutant: find_process_by_pid forgets to look at the status.
AnyOf(p) == {i \in DOMAIN process_hash : heap[process_hash[i]].pid = p}

RunningOf(p) ==
  {i \in DOMAIN process_hash : /\ heap[process_hash[i]].pid = p
                               /\ heap[process_hash[i]].status = RUNNING}

\* find_process_by_pid: the first match in the chain, or NULL.
IsFoundByPid(r, p) ==
  IF RunningOf(p) = {}
    THEN r = NoRec
    ELSE \E i \in RunningOf(p) : /\ r = process_hash[i]
                                 /\ \A j \in RunningOf(p) : i <= j

-----------------------------------------------------------------------------
(* The fork probe: add_process_record.                                     *)

\* Mutant: add_process_record does not look at monitoring_enabled.
ForkEnterUnchecked(p) ==
  /\ ForkProbed
  /\ pc[p] = "user"
  /\ Promised < MaxCreated
  /\ \E r \in Rec \ Allocated :
       /\ Kmalloc(r, NewRecord(p))
       /\ ptr' = [ptr EXCEPT ![p] = r]
  /\ pc' = [pc EXCEPT ![p] = "add"]
  /\ UNCHANGED <<phase, indexes, stats, monitoring_enabled, filter_enabled, jiffies>>

\* Up to the lock: the flag is read without it, and so is the clock.
ForkEnter(p) ==
  /\ ForkProbed
  /\ pc[p] = "user"
  /\ monitoring_enabled
  /\ Promised < MaxCreated
  /\ \E r \in Rec \ Allocated :
       /\ Kmalloc(r, NewRecord(p))
       /\ ptr' = [ptr EXCEPT ![p] = r]
  /\ pc' = [pc EXCEPT ![p] = "add"]
  /\ UNCHANGED <<phase, indexes, stats, monitoring_enabled, filter_enabled, jiffies>>

InsertWithRoom(r) ==
  /\ record_count < MaxRecords
  /\ process_list' = Append(process_list, r)
  /\ process_hash' = HashAdd(process_hash, r)
  /\ process_tree' = process_tree \cup {r}
  /\ record_count' = record_count + 1
  /\ UNCHANGED heap

\* Mutants: the eviction forgets record_count--, or kfree.
InsertKeepingCount(r) ==
  LET oldest == Head(process_list)
  IN  /\ record_count >= MaxRecords
      /\ process_list' = Append(Tail(process_list), r)
      /\ process_hash' = HashAdd(HashDel(process_hash, oldest), r)
      /\ process_tree' = (process_tree \ {oldest}) \cup {r}
      /\ record_count' = record_count + 1
      /\ Kfree({oldest})

InsertLeakingOldest(r) ==
  LET oldest == Head(process_list)
  IN  /\ record_count >= MaxRecords
      /\ process_list' = Append(Tail(process_list), r)
      /\ process_hash' = HashAdd(HashDel(process_hash, oldest), r)
      /\ process_tree' = (process_tree \ {oldest}) \cup {r}
      /\ record_count' = record_count
      /\ UNCHANGED heap

InsertEvictingOldest(r) ==
  LET oldest == Head(process_list)
  IN  /\ record_count >= MaxRecords
      /\ process_list' = Append(Tail(process_list), r)
      /\ process_hash' = HashAdd(HashDel(process_hash, oldest), r)
      /\ process_tree' = (process_tree \ {oldest}) \cup {r}
      /\ record_count' = record_count
      /\ Kfree({oldest})

\* The critical section.
AddRecord(p) ==
  /\ pc[p] = "add"
  /\ InsertWithRoom(ptr[p]) \/ InsertEvictingOldest(ptr[p])
  /\ stats' = CountCreate(stats)
  /\ pc' = [pc EXCEPT ![p] = "added"]
  /\ UNCHANGED <<phase, monitoring_enabled, filter_enabled, ptr, jiffies>>

\* After the unlock: process_matches_filter(record), then back to the fork.
AddReturn(p) ==
  /\ pc[p] = "added"
  /\ pc' = [pc EXCEPT ![p] = "user"]
  /\ ptr' = [ptr EXCEPT ![p] = NoRec]
  /\ UNCHANGED <<phase, indexes, stats, monitoring_enabled, filter_enabled, heap,
                 jiffies>>

-----------------------------------------------------------------------------
(* The exit probe: mark_process_exit.                                      *)

ExitEnter(p) ==
  /\ ExitProbed
  /\ pc[p] = "user"
  /\ monitoring_enabled
  /\ pc' = [pc EXCEPT ![p] = "mark"]
  /\ UNCHANGED <<phase, indexes, stats, monitoring_enabled, filter_enabled, heap,
                 ptr, jiffies>>

Exited(record) == [record EXCEPT !.status = EXITED, !.end_time = jiffies]

Lifetime(record) == (record.end_time - record.start_time) \div HZ

\* The critical section, with a record and without one.
MarkFound(r) ==
  /\ heap' = [heap EXCEPT ![r] = Exited(@)]
  /\ stats' = NoteLifetime(CountExit(stats), Lifetime(Exited(heap[r])))

MarkExit(p) ==
  /\ pc[p] = "mark"
  /\ \E r \in Range(process_hash) \cup {NoRec} :
       /\ IsFoundByPid(r, p)
       /\ ptr' = [ptr EXCEPT ![p] = r]
       /\ IF r = NoRec THEN UNCHANGED <<heap, stats>> ELSE MarkFound(r)
  /\ pc' = [pc EXCEPT ![p] = "marked"]
  /\ UNCHANGED <<phase, indexes, monitoring_enabled, filter_enabled, jiffies>>

\* After the unlock.  The process is gone; its pid is free for another one.
MarkReturn(p) ==
  /\ pc[p] = "marked"
  /\ pc' = [pc EXCEPT ![p] = "user"]
  /\ ptr' = [ptr EXCEPT ![p] = NoRec]
  /\ UNCHANGED <<phase, indexes, stats, monitoring_enabled, filter_enabled, heap,
                 jiffies>>

-----------------------------------------------------------------------------
(* Writes to /proc/process_monitor/control and .../filter.                 *)

\* "start" and "stop": no lock is taken.
SetMonitoring(on) ==
  /\ FilesExist
  /\ monitoring_enabled' = on
  /\ UNCHANGED <<phase, indexes, stats, filter_enabled, heap, pc, ptr, jiffies>>

\* "clear": every record leaves the three structures; the statistics stay.
ClearRecords ==
  /\ FilesExist
  /\ Kfree(Range(process_list))
  /\ process_hash' = HashDelAll(process_hash, Range(process_list))
  /\ process_tree' = process_tree \ Range(process_list)
  /\ process_list' = <<>>
  /\ record_count' = 0
  /\ UNCHANGED <<phase, stats, monitoring_enabled, filter_enabled, pc, ptr, jiffies>>

\* Mutant: reset_stats spares current_processes.
ResetStatsButCurrent ==
  /\ FilesExist
  /\ stats' = [ZeroFullStats EXCEPT !.current_processes = stats.current_processes]
  /\ UNCHANGED <<phase, indexes, monitoring_enabled, filter_enabled, heap, pc, ptr,
                 jiffies>>

\* "reset_stats": the statistics go back to 0; the records stay.
ResetStats ==
  /\ FilesExist
  /\ stats' = ZeroFullStats
  /\ UNCHANGED <<phase, indexes, monitoring_enabled, filter_enabled, heap, pc, ptr,
                 jiffies>>

\* "enable", "disable" and "reset" of the filter, under config_mutex.
SetFilter(on) ==
  /\ FilesExist
  /\ filter_enabled' = on
  /\ UNCHANGED <<phase, indexes, stats, monitoring_enabled, heap, pc, ptr, jiffies>>

-----------------------------------------------------------------------------
(* Loading and unloading.  unregister_kprobe disarms a probe and then      *)
(* waits for the handlers that are already running.                        *)

Adders  == InHandler({"add", "added"})
Markers == InHandler({"mark", "marked"})

Step(from, to) ==
  /\ phase = from
  /\ phase' = to
  /\ UNCHANGED <<indexes, stats, monitoring_enabled, filter_enabled, heap, pc, ptr,
                 jiffies>>

CreateFiles      == Step("loading", "created")
MkdirFails       == Step("loading", "failed")
CreateFileFails  == Step("loading", "cleanup")
RegisterFork     == Step("created", "fork_probed")
RegisterForkFails == Step("created", "cleanup")
RegisterExit     == Step("fork_probed", "live")
RegisterExitFails == Step("fork_probed", "abort")
AbortFork        == Adders = {} /\ Step("abort", "cleanup")
CleanupProc      == Step("cleanup", "failed")

Load == \/ CreateFiles \/ MkdirFails \/ CreateFileFails
        \/ RegisterFork \/ RegisterForkFails
        \/ RegisterExit \/ RegisterExitFails \/ AbortFork \/ CleanupProc

\* Mutant: the fork probe is unregistered without waiting for its handlers.
UnregisterForkAtOnce == Step("exit_fork", "exit_exit")

Rmmod          == Step("live", "exit_fork")
UnregisterFork == Adders = {} /\ Step("exit_fork", "exit_exit")
UnregisterExit == Markers = {} /\ Step("exit_exit", "exit_proc")
RemoveFiles    == Step("exit_proc", "exit_free")

\* The last loop unlinks and frees the records of the list, and leaves the
\* hash table, the tree and the count as they are.
FreeRecords ==
  /\ phase = "exit_free"
  /\ phase' = "unloaded"
  /\ Kfree(Range(process_list))
  /\ process_list' = <<>>
  /\ UNCHANGED <<process_hash, process_tree, record_count, stats,
                 monitoring_enabled, filter_enabled, pc, ptr, jiffies>>

Unload == UnregisterFork \/ UnregisterExit \/ RemoveFiles \/ FreeRecords

-----------------------------------------------------------------------------

Tick ==
  /\ jiffies < MaxJiffies
  /\ jiffies' = jiffies + 1
  /\ UNCHANGED <<phase, indexes, stats, monitoring_enabled, filter_enabled, heap, pc,
                 ptr>>

\* The module is out of the kernel: nothing more can happen.
Gone == phase \in {"failed", "unloaded"} /\ UNCHANGED vars

Enter(p)  == ForkEnter(p) \/ ExitEnter(p)
Resume(p) == AddRecord(p) \/ AddReturn(p) \/ MarkExit(p) \/ MarkReturn(p)

Write == \/ \E on \in BOOLEAN : SetMonitoring(on) \/ SetFilter(on)
         \/ ClearRecords
         \/ ResetStats

Next == \/ \E p \in Pid : Enter(p) \/ Resume(p)
        \/ Write
        \/ Load
        \/ Rmmod
        \/ Unload
        \/ Tick
        \/ Gone

Spec == Init /\ [][Next]_vars

\* Handlers run with preemption off, and the rmmod system call runs to its
\* end; nothing makes a process fork or exit, a user write, or rmmod start.
FairSpec == /\ Spec
            /\ \A p \in Pid : WF_vars(Resume(p))
            /\ WF_vars(Unload)

-----------------------------------------------------------------------------
(* Properties.                                                             *)

TypeOK ==
  /\ phase \in Phase
  /\ process_list \in Seq(Rec)
  /\ process_hash \in Seq(Rec)
  /\ process_tree \in SUBSET Rec
  /\ record_count \in 0 .. MaxRecords
  /\ stats \in FullStats
  /\ monitoring_enabled \in BOOLEAN
  /\ filter_enabled \in BOOLEAN
  /\ Allocated \in SUBSET Rec
  /\ heap \in [Allocated -> Record]
  /\ pc \in [Pid -> Handler]
  /\ ptr \in [Pid -> Rec \cup {NoRec}]
  /\ jiffies \in Time

\* The records whose handler has filled them in and waits for the lock.
Filled == {ptr[p] : p \in InHandler({"add"})}

\* While the module can be used, the list, the hash chain, the tree and the
\* count speak of the same records: every path that links, evicts or clears
\* (lines 173-186 and 469-480) does it in all of them, and the order of the
\* chain is the reverse of the order of the list.
IndexesAgree ==
  phase # "unloaded" =>
    /\ process_hash = Reverse(process_list)
    /\ process_tree = Range(process_list)
    /\ record_count = Len(process_list)

\* Memory has exactly one owner: what is allocated is in the list, once, or
\* belongs to the one handler that has filled it in and not linked it yet
\* (lines 154-183).  So an eviction, a clear and an unload leak nothing, and
\* free nothing that a list, a chain or a tree still reaches.
RecordsOwnedOnce ==
  /\ Allocated = Range(process_list) \cup Filled
  /\ Range(process_list) \cap Filled = {}
  /\ IsInjective(process_list)
  /\ \A p, q \in InHandler({"add"}) : ptr[p] = ptr[q] => p = q

\* Unregistering a probe waits for its handlers before the files and the
\* records go (lines 590-602): none is left to touch them, so that no record
\* is linked after the loop that frees them and nothing stays allocated.
UnloadLeavesNothing ==
  /\ phase \in {"exit_proc", "exit_free", "unloaded"} => Adders = {} /\ Markers = {}
  /\ phase = "unloaded" => Allocated = {}

\* Whatever is interleaved, current_processes is created minus exited, as far
\* as an unsigned long can say (lines 188-189, 221-222, 485): after a reset
\* the three restart together, and the difference may wrap below zero.
CountsConserved ==
  stats.current_processes =
    Minus(stats.total_processes_created, stats.total_processes_exited)

\* The average of lines 225-238 stays between the shortest and the longest
\* lifetime, for all its rounding down and for every reset in between.
LifetimesOrdered ==
  stats.total_processes_exited > 0 =>
    /\ stats.shortest_lifetime <= stats.avg_lifetime
    /\ stats.avg_lifetime <= stats.longest_lifetime

\* Once monitoring is stopped, only handlers that had passed the check of
\* line 151 before still count a creation, each of them once.
StopBoundsCreations ==
  [][~monitoring_enabled => Promised' <= Promised]_vars

\* The three structures together implement the bounded log of RecordLog:
\* what is evicted is the oldest record, what an exit marks is one RUNNING
\* record of the log, in place, and nothing else ever changes a record.
ListedRecords == [i \in DOMAIN process_list |-> heap[process_list[i]]]

Log == INSTANCE RecordLog WITH log <- ListedRecords
ImplementsLog == Log!Spec

\* An rmmod that has begun ends: the handlers it waits for need nothing that
\* it holds (lines 590-602).
UnloadTerminates == phase = "exit_fork" ~> phase = "unloaded"

-----------------------------------------------------------------------------
(* What the documentation says and the code does not do.                   *)

\* A spin lock protects the shared data: what process_matches_filter reads
\* of a record after the unlock (lines 196 and 243) is still allocated.
PostUnlockReadsLive ==
  filter_enabled =>
    \A p \in InHandler({"added", "marked"}) : ptr[p] # NoRec => ptr[p] \in Allocated

=============================================================================
