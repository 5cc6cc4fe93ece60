----------------------------- MODULE KernelList -----------------------------
(***************************************************************************)
(* experiments/02_kernel_list.c: a bounded list without any lock.          *)
(*                                                                         *)
(* Anybody may write to the file (mode 0666), on any processor.  So each   *)
(* read and each write of record_count, of next_id, of the list and of a   *)
(* record is a step of its caller.  Only the functions of list.h are taken *)
(* whole; two of them at once are worse in the kernel than they are here.  *)
(*                                                                         *)
(* Of a record there is its id; name and time stamp only go to the output. *)
(***************************************************************************)
EXTENDS Integers, SequencesExt

CONSTANTS
  User,         \* the writers to /proc/kernel_list_demo
  Module,       \* who loads and unloads the module
  Record,       \* the memory that kmalloc can hand out
  NULL,         \* no record: list_entry of the list's own head
  MAX_RECORDS,
  MaxId         \* bound of the exploration: the last id that is handed out

ASSUME CallersAssumption == Module \notin User
ASSUME NullAssumption    == NULL \notin Record
ASSUME LimitsAssumption  == MAX_RECORDS \in Nat \ {0} /\ MaxId \in Nat

VARIABLES
  phase,        \* how far the module is loaded or unloaded
  initial,      \* the records that the load has tried to add
  record_list, record_count, next_id,
  Allocated,    \* the memory in use
  id,           \* the id in each record
  pc, op,       \* of each caller: its place and the function it is in,
  rec, tmp,     \* the record in its hands and the next one of its loop,
  v             \* the number that it has loaded, or looks for

module  == <<phase, initial>>
memory  == <<record_list, Allocated>>
numbers == <<record_count, next_id, id>>
locals  == <<op, rec, tmp, v>>
vars    == <<module, memory, numbers, pc, locals>>

Caller == User \cup {Module}
Busy   == {c \in Caller : pc[c] # "idle"}

Init ==
  /\ phase = "loading" /\ initial = 0
  /\ record_list = <<>> /\ record_count = 0 /\ next_id = 1
  /\ Allocated = {} /\ id = [r \in Record |-> 0]
  /\ pc = [c \in Caller |-> "idle"] /\ op = [c \in Caller |-> "add"]
  /\ rec = [c \in Caller |-> NULL] /\ tmp = [c \in Caller |-> NULL]
  /\ v = [c \in Caller |-> 0]

\* Caller c moves from one place to another.
Step(c, from, to) == pc[c] = from /\ pc' = [pc EXCEPT ![c] = to]

Take(c, r)     == rec' = [rec EXCEPT ![c] = r]
Load(c, value) == v' = [v EXCEPT ![c] = value]

\* The call returns; a load goes on to its next record.
Return(c) ==
  /\ op' = [op EXCEPT ![c] = "add"]
  /\ Take(c, NULL) /\ tmp' = [tmp EXCEPT ![c] = NULL] /\ Load(c, 0)
  /\ initial' = IF c = Module /\ phase = "init" THEN initial + 1 ELSE initial
  /\ UNCHANGED phase

\* The record at a place of the list, which ends at its head.
Nth(n)     == IF n \in DOMAIN record_list THEN record_list[n] ELSE NULL
NextOf(r)  == Nth(1 + CHOOSE n \in DOMAIN record_list : record_list[n] = r)
InList(r)  == r \in Range(record_list)

-----------------------------------------------------------------------------
(* Commands.  The load adds two records of its own, with the file already  *)
(* there.                                                                  *)

Ready(c) == IF c = Module THEN phase = "init" /\ initial < 2 ELSE phase \in {"init", "live"}

AddCall(c) ==
  /\ Ready(c) /\ next_id <= MaxId
  /\ Step(c, "idle", "check")
  /\ UNCHANGED <<module, memory, numbers, locals>>

DelCall(c, x) ==
  /\ c \in User /\ Ready(c)
  /\ Step(c, "idle", "walk")
  /\ op' = [op EXCEPT ![c] = "del"] /\ Load(c, x)
  /\ UNCHANGED <<module, memory, numbers, rec, tmp>>

ClearCall(c) ==
  /\ c \in User /\ Ready(c)
  /\ Step(c, "idle", "walk")
  /\ op' = [op EXCEPT ![c] = "clear"]
  /\ UNCHANGED <<module, memory, numbers, rec, tmp, v>>

-----------------------------------------------------------------------------
(* What list and records are asked for.                                    *)

\* Mutant: the limit is off by one.
CheckLate(c) ==
  /\ Step(c, "check", IF record_count > MAX_RECORDS THEN "oldest" ELSE "kmalloc")
  /\ UNCHANGED <<module, memory, numbers, locals>>

Check(c) ==
  /\ Step(c, "check", IF record_count >= MAX_RECORDS THEN "oldest" ELSE "kmalloc")
  /\ UNCHANGED <<module, memory, numbers, locals>>

\* list_first_entry, of an empty list as well.
Oldest(c) ==
  /\ Step(c, "oldest", "unlink")
  /\ Take(c, Nth(1))
  /\ UNCHANGED <<module, memory, numbers, op, tmp, v>>

\* list_for_each_entry_safe: its first record, then each time the next one of
\* the record that its body is about to see.
WalkBegin(c) ==
  /\ Step(c, "walk", "next")
  /\ tmp' = [tmp EXCEPT ![c] = Nth(1)]
  /\ UNCHANGED <<module, memory, numbers, op, rec, v>>

\* Mutant: list_for_each_entry, which goes on from the record itself.
WalkNextUnsafe(c) ==
  /\ InList(tmp[c])
  /\ Step(c, "next", IF op[c] = "del" THEN "test" ELSE "unlink")
  /\ Take(c, tmp[c])
  /\ UNCHANGED <<module, memory, numbers, op, tmp, v>>

WalkNext(c) ==
  /\ InList(tmp[c])
  /\ Step(c, "next", IF op[c] = "del" THEN "test" ELSE "unlink")
  /\ Take(c, tmp[c])
  /\ tmp' = [tmp EXCEPT ![c] = NextOf(tmp[c])]
  /\ UNCHANGED <<module, memory, numbers, op, v>>

\* Mutant: an id that is not found is counted as removed.
WalkEndsCounting(c) ==
  /\ tmp[c] = NULL
  /\ Step(c, "next", IF op[c] = "del" THEN "less" ELSE "reset")
  /\ UNCHANGED <<module, memory, numbers, locals>>

\* The end of the list: no record has that id, or all are cleared.
WalkEnds(c) ==
  /\ tmp[c] = NULL
  /\ Step(c, "next", IF op[c] = "del" THEN "idle" ELSE "reset")
  /\ IF op[c] = "del" THEN Return(c) ELSE UNCHANGED <<module, locals>>
  /\ UNCHANGED <<memory, numbers>>

TestId(c) ==
  /\ rec[c] \in Allocated
  /\ Step(c, "test", IF id[rec[c]] = v[c] THEN "unlink" ELSE "next")
  /\ UNCHANGED <<module, memory, numbers, locals>>

Unlink(c) ==
  /\ InList(rec[c])
  /\ Step(c, "unlink", "free")
  /\ record_list' = RemoveFirst(record_list, rec[c])
  /\ UNCHANGED <<module, Allocated, numbers, locals>>

Free(c) ==
  /\ Step(c, "free", IF op[c] = "clear" THEN "next" ELSE "less")
  /\ Allocated' = Allocated \ {rec[c]}
  /\ UNCHANGED <<module, record_list, numbers, locals>>

\* The log line of an add reads the record that it has linked.
Report(c) ==
  /\ rec[c] \in Allocated
  /\ Step(c, "report", "idle") /\ Return(c)
  /\ UNCHANGED <<memory, numbers>>

\* Memory that is no record of the list any more is used as one: list_del
\* follows its poisoned pointers, or what kfree has left is read.  What the
\* caller does then is not followed any further: it has no action.
Misuse(c) ==
  \/ pc[c] = "unlink" /\ ~InList(rec[c])
  \/ pc[c] = "next" /\ tmp[c] # NULL /\ ~InList(tmp[c])
  \/ pc[c] \in {"test", "report"} /\ rec[c] \notin Allocated

-----------------------------------------------------------------------------
(* What is counted, and the new record.                                    *)

\* record_count--, of an eviction or a removal.
LessLoad(c) ==
  /\ Step(c, "less", "less_store") /\ Load(c, record_count)
  /\ UNCHANGED <<module, memory, numbers, op, rec, tmp>>

LessStore(c) ==
  /\ Step(c, "less_store", IF op[c] = "add" THEN "kmalloc" ELSE "idle")
  /\ record_count' = v[c] - 1
  /\ IF op[c] = "add" THEN UNCHANGED <<module, locals>> ELSE Return(c)
  /\ UNCHANGED <<memory, next_id, id>>

\* Mutant: a clear forgets the count.
ResetNot(c) ==
  /\ Step(c, "reset", "idle") /\ Return(c)
  /\ UNCHANGED <<memory, numbers>>

Reset(c) ==
  /\ Step(c, "reset", "idle") /\ Return(c)
  /\ record_count' = 0
  /\ UNCHANGED <<memory, next_id, id>>

KmallocFails(c) ==
  /\ Step(c, "kmalloc", "idle") /\ Return(c)
  /\ UNCHANGED <<memory, numbers>>

Kmalloc(c) ==
  /\ Step(c, "kmalloc", "number")
  /\ \E r \in Record \ Allocated : Take(c, r) /\ Allocated' = Allocated \cup {r}
  /\ UNCHANGED <<module, record_list, numbers, op, tmp, v>>

\* record->id = next_id++.
IdLoad(c) ==
  /\ Step(c, "number", "number_store") /\ Load(c, next_id)
  /\ UNCHANGED <<module, memory, numbers, op, rec, tmp>>

IdStore(c) ==
  /\ Step(c, "number_store", "link")
  /\ next_id' = v[c] + 1
  /\ id' = [id EXCEPT ![rec[c]] = v[c]]
  /\ UNCHANGED <<module, memory, record_count, locals>>

\* Mutant: list_add in the place of list_add_tail.
LinkFirst(c) ==
  /\ Step(c, "link", "more")
  /\ record_list' = <<rec[c]>> \o record_list
  /\ UNCHANGED <<module, Allocated, numbers, locals>>

Link(c) ==
  /\ Step(c, "link", "more")
  /\ record_list' = Append(record_list, rec[c])
  /\ UNCHANGED <<module, Allocated, numbers, locals>>

\* record_count++.
MoreLoad(c) ==
  /\ Step(c, "more", "more_store") /\ Load(c, record_count)
  /\ UNCHANGED <<module, memory, numbers, op, rec, tmp>>

MoreStore(c) ==
  /\ Step(c, "more_store", "report")
  /\ record_count' = v[c] + 1
  /\ UNCHANGED <<module, memory, next_id, id, locals>>

-----------------------------------------------------------------------------
(* Load and unload.                                                        *)

CreateFile ==
  /\ phase = "loading"
  /\ phase' \in {"init", "failed"}
  /\ UNCHANGED <<initial, memory, numbers, pc, locals>>

Loaded ==
  /\ phase = "init" /\ initial = 2
  /\ phase' = "live"
  /\ UNCHANGED <<initial, memory, numbers, pc, locals>>

\* proc_remove waits for the writers; then clear_all_records.
Exit ==
  /\ phase = "live" /\ \A c \in User : pc[c] = "idle"
  /\ phase' = "exit"
  /\ Step(Module, "idle", "walk")
  /\ op' = [op EXCEPT ![Module] = "clear"]
  /\ UNCHANGED <<initial, memory, numbers, rec, tmp, v>>

ExitReturn ==
  /\ phase = "exit" /\ pc[Module] = "idle"
  /\ phase' = "unloaded"
  /\ UNCHANGED <<initial, memory, numbers, pc, locals>>

Over == phase \in {"failed", "unloaded"} \/ \E c \in Caller : Misuse(c)

Gone == Over /\ UNCHANGED vars

Add(c)  == AddCall(c) \/ Check(c) \/ Oldest(c) \/ KmallocFails(c) \/ Kmalloc(c)
           \/ IdLoad(c) \/ IdStore(c) \/ Link(c) \/ MoreLoad(c) \/ MoreStore(c) \/ Report(c)
Walk(c) == WalkBegin(c) \/ WalkNext(c) \/ WalkEnds(c) \/ TestId(c) \/ Reset(c)
Drop(c) == Unlink(c) \/ Free(c) \/ LessLoad(c) \/ LessStore(c)

Next ==
  \/ \E c \in Caller : Add(c) \/ Walk(c) \/ Drop(c)
  \/ \E c \in User : ClearCall(c) \/ \E x \in 1 .. MaxId : DelCall(c, x)
  \/ CreateFile \/ Loaded \/ Exit \/ ExitReturn \/ Gone

Spec == Init /\ [][Next]_vars

\* 02_test.c and simple_run_02.sh write one command after the other, each by a
\* process that ends when its write has.
Alone == \A c, d \in Busy : c = d

SessionNext == Next /\ Alone'

SessionSpec == Init /\ [][SessionNext]_vars

-----------------------------------------------------------------------------
(* Properties.                                                             *)

TypeOK ==
  /\ phase \in {"loading", "failed", "init", "live", "exit", "unloaded"}
  /\ initial \in 0 .. 2
  /\ record_list \in Seq(Record) /\ Allocated \subseteq Record
  /\ record_count \in 0 .. MAX_RECORDS /\ next_id \in 1 .. MaxId + 1
  /\ id \in [Record -> 0 .. MaxId]
  /\ pc \in [Caller -> {"idle", "check", "oldest", "walk", "next", "test", "unlink", "free",
                        "less", "less_store", "reset", "kmalloc", "number",
                        "number_store", "link", "more", "more_store", "report"}]
  /\ op \in [Caller -> {"add", "del", "clear"}]
  /\ rec \in [Caller -> Record \cup {NULL}] /\ tmp \in [Caller -> Record \cup {NULL}]
  /\ v \in [Caller -> Nat]

\* Ids ascend along the list, below next_id, through evictions, removals,
\* clears and failed allocations: a "del" has one record to find (line 68), and
\* the head that an eviction takes is the oldest (lines 37, 51, 56).
IdsAscend ==
  \A i \in DOMAIN record_list :
    /\ id[record_list[i]] < next_id
    /\ \A j \in DOMAIN record_list : i < j => id[record_list[i]] < id[record_list[j]]

\* "Total Records: %d/%d" (line 101): the list has no more than MAX_RECORDS, by
\* the count and in truth (lines 35-57).
LimitKept == record_count <= MAX_RECORDS /\ Len(record_list) <= MAX_RECORDS

\* Between commands the count is the length of the list and the memory is the
\* list's: an eviction followed by a failed kmalloc (lines 35-49), a removal and
\* a clear keep the three together, and the unload leaves nothing (line 199).
MemoryCounted ==
  /\ Busy = {} => /\ record_count = Len(record_list)
                  /\ Allocated = Range(record_list) /\ IsInjective(record_list)
  /\ phase = "unloaded" => Allocated = {}

\* list_del gets records of the list only, no loop goes on from one that is
\* unlinked, and nothing that kfree has taken is read (lines 37-41, 60, 67-72,
\* 86-90).
TouchesOnlyRecords == \A c \in Caller : ~Misuse(c)

=============================================================================
