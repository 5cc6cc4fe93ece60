# Verification of the process monitors

The repository holds six Linux kernel modules, each a step on the way to a
process monitor: `process_monitor.c` and `experiments/01` to `05`. This
directory holds TLA+ models of them, the TLC runs that check the models on
small instances, and proofs, checked by TLAPS, of what holds for every
instance. Line numbers below are those of the C files under `src/`.

## The system

| part | state | operations | what is hard | what makes it correct |
|---|---|---|---|---|
| **complete monitor** `05_complete_monitor.c` | list, hash table, red-black tree, `record_count` of the same records; statistics; filter; `monitoring_enabled` | fork probe, exit probe, writes to `control` and `filter`, four shows, init with error paths, exit | handlers on all CPUs, a lock that covers only the middle of a handler, eviction at the limit, unsigned counters that are reset, unloading under load | the indexes agree and are in order, memory has one owner, the counters balance, a match follows one configuration of the filter, unloading leaves nothing |
| **first monitor** `process_monitor.c` | one list, `record_count`, four counters | fork probe, exit probe, show, write of `clear`, init, exit | the same with one index | list and counters tell one story |
| **concurrency demo** `04` | a list with a count, three locks, statistics, five worker threads | add (under a spin lock, a mutex, or a write lock), read, start, stop, clear, exit | three locks guard one list; start, stop and unload race | every item owned once and not used after it is freed, every thread stopped once and before the unload |
| **kernel list demo** `02` | a list with a count and the next id | add, delete, clear, show, load with two adds, exit | no lock at all, and a file that anybody may write; evicts before it allocates, and sleeps in between | ids unique and ascending, count is the length, the limit is kept, no record used after it is freed: all of them only while writers do not overlap |
| **proc interface demo** `03` | a counter, a message, a time stamp | show and write of each, init that undoes itself | no lock; the message is copied in place | no lost count, no torn message, a failed load leaves no file |
| **intercept demo** `01` | two counters | fork probe, exit probe | `++` on several CPUs | no lost count |

The monitors share no state with each other; only one is loaded at a time by
the scripts. Inside a monitor the parts interact through shared memory: probe
handlers (entered by the kernel whenever a process forks or exits), file
operations (entered by readers and writers of `/proc`), and the loading and
unloading thread. The kernel supplies `kmalloc`, `kprobes` (whose
`unregister_kprobe` waits for running handlers), `proc_remove` (which waits for
running file operations) and `jiffies`; the models take them from their use and
mark them external.

Two facts of the code that readers of its documentation may not expect, and
that the models follow: the fork probe sits at the entry of `_do_fork`, where
`current` is the *parent*, so that a record carries the pid of the process that
forks and one process may own several; and the eviction is first in, first out,
although `执行说明.txt:6` calls it LRU.

## Modules

| module | models |
|---|---|
| `MonitorStats` | the arithmetic of `struct monitor_stats` in both monitors, unsigned with wrapping |
| `RecordLog` | the abstract specification: a bounded log that inserts, marks one RUNNING record EXITED, and clears |
| `CompleteMonitor` | `05_complete_monitor.c` |
| `RecordViews` | the filter of `05`, the show that reads it, and the order of the tree |
| `ProcessMonitor` | `process_monitor.c` without its show, which only reads |
| `WorkerThreads` | start, stop and unload of the worker threads of `04_concurrency_control.c` |
| `SharedList` | the data list of `04_concurrency_control.c` and its three locks |
| `KernelList` | `02_kernel_list.c` |
| `ProcInterface` | `03_proc_interface.c` |
| `MC*` | symmetry sets for TLC; the `.cfg` files give the constants |
| `ListLemmas` | lemmas about lists, which the proofs share |
| `CompleteMonitorProofs`, `RecordViewsProofs`, `ProcessMonitorProofs`, `WorkerThreadsProofs`, `SharedListProofs`, `KernelListProofs`, `ProcInterfaceProofs` | the theorems about each |

Names are those of the code. In `CompleteMonitor`:

- **A handler is three actions**, because it holds the lock only in the middle:
  `ForkEnter` (flag, `kmalloc`, filling in: 146-169), `AddRecord` (171-194),
  `AddReturn` (196-200, where the filter reads the record); `ExitEnter`
  (208-211), `MarkExit` (211-241), `MarkReturn` (243-247). `pc[p]` says where
  the handler of process `p` is and `ptr[p]` is its local `record`. A stretch
  under the lock is one action: nothing that takes the lock can be seen inside
  it. A handler that returns early changes nothing and is not an action.
- **Memory** is the function `heap` from allocated records to their contents:
  `kmalloc` extends its domain, `kfree` shrinks it. A pointer kept after `kfree`
  is an element outside the domain, and the same address may be allocated again.
- **The indexes**: `process_list` oldest first; `process_hash` with `hash_add` in
  front, all buckets as one chain (the search skips other pids); `process_tree`
  as a set.
- **Control writes** `SetMonitoring` (no lock), `ClearRecords`, `ResetStats`, and
  `SetFilter` for the effect of `enable`, `disable` and `reset` on
  `filter.enabled`.
- **Loading and unloading** is `phase`, one step per call that may fail or wait.
  `AbortFork`, `UnregisterFork` and `UnregisterExit` wait for the handlers of the
  probe they take away; probes fire as soon as they are registered, so that
  records exist before the load has succeeded.

`ProcessMonitor` has the same shape. Its handlers touch nothing shared after the
unlock, so that the critical section ends them. The process stays at "exited"
until its pid is used again (`ReusePid`).

`RecordViews` takes up what `CompleteMonitor` keeps abstract. Records enter list
and tree in one section (`AddRecord`, `Descend`, `LinkNode`: 171-185 and 95-113);
a record was filled in before the lock was taken, so that any order of start
times may arrive. The tree is its records from left to right, and a descent may
meet any record of the part that is left: every shape that the kernel's rotations
give is among these, and what holds for all of them holds for it. A show (295-336)
holds the lock, and its matches (120-144) read each field of the filter once to
see whether it is set and a second time to compare it (`Test`, `Compare`); the
compiler may do that in one load, so that the second value is the first or a new
one. `filter_write` (401-443) changes the fields in between, under a mutex that
the match does not take; `comm` and `reset` take several steps. The variables
`allowed`, `overlaps` and `steady` record which configurations a match has met.

In `WorkerThreads` no lock guards anything, so that the grain is finer: each read
and each write of `worker_running` and of a place of `worker_threads` is a step
(213-254), the callers are the writers of the proc file and the unloading
process, `i` is the loop counter and `v` the pointer a caller has in hand. Where
the source reads `worker_threads[i]` twice (225-227, 246-247) the second value is
the one in hand or a new one. `kthread_run` fails at will; `kthread_stop` of
anything but a thread that has not ended reads memory that is not a thread's: the
phase "oops", where the model stops. What the workers do to the list between two
looks at `kthread_should_stop` is `SharedList`.

In `SharedList` a call is picked by a worker (184-205) or a user (352-363), goes
from `kmalloc` to the lock (`Alloc`, `TakeLock`, or `Interrupted` by a signal), and
under it looks at the limit (`Room`), takes the oldest item (`First`), unlinks, frees
and uncounts it (`Unlink`, `Free`, `LessLoad`, `LessStore`), links its own and counts
it (`Link`, `MoreLoad`, `MoreStore`). Each is a step of its own, because a user of
another lock may come between any two; `v[c]` is the number a caller has loaded,
`data[c]` the item it has in hand and `tmp[c]` the next one that
`list_for_each_entry_safe` keeps. The three adds differ in their lock only, and share
their actions; read, show and clear go item by item. A caller that is about to use memory which
is no item of the list any more, or none at all (`Misuse`), goes no further. Nothing in
the code keeps its users to one lock. `Families` is the constant that says which
operations are in use together, and `InTurn` which of these families are called one
call after the other, as the first part of `04_test.c` does (27-57); its second part
(82-128) forks writers that mix the locks. `stop_worker_threads` and `proc_remove`
before the last clear are `Exit`, which waits for everyone (see `WorkerThreads` for
what that rests on).

`KernelList` has the same grain and no lock: the check of the limit (35), the first
record (37), `list_del`, `kfree`, both halves of `record_count--`, `kmalloc` (45, where
the caller may also sleep), both halves of `next_id++` (51), the insertion (56), both
halves of `record_count++` (57) and the log line that reads the new record (59-60) are
steps between which any other caller may act, as on several processors. `Spec` lets
all writers overlap, `SessionSpec` has one command after the other, as `02_test.c` and
`simple_run_02.sh` give them. The load's two adds (188-189) come with the file already
there, so that users' commands may precede them in either. What overlapping writers do
under `Spec` is said below the table of the runs.

In `ProcInterface` the users are inside the files of one directory. The counter's
`++` is a load and a store; `copy_from_user` puts its bytes into the shared buffer
one at a time (`CopyByte`), may meet an unmapped address (`CopyFault`), and the
terminator comes after it. The load creates the five entries of `Order`; when one
cannot be made it jumps to a label, which is the table `Cleanup`, and falls through
the `proc_remove`s from there down (`RemoveEntry`, which waits for users, and takes a
directory's files with it). The unload goes through all of them.

Abstractions: `comm`, `ppid` and `exit_code` decide nothing that is modelled;
`total_cpu_time` only ever has 0 added to it; log lines and layout are left out;
`strncmp(cmd, ...)` on commands is the choice of an action.

## Runs

| run | what it asks | result |
|---|---|---|
| `complete_monitor` | all safety of `CompleteMonitor`, and that it implements `RecordLog` | holds |
| `complete_lifetimes` | the average lies between the shortest and the longest lifetime; a begun rmmod ends | holds |
| `complete_post_unlock` | what the filter reads after the unlock is still allocated | **violated** |
| `record_views` | a match says what the configuration before or after an overlapping command says; an undisturbed show prints the first matches; the tree is sorted by start time, stably | holds |
| `process_monitor` | all safety of `ProcessMonitor`, and that it implements `RecordLog` | holds |
| `process_failed_load` | a failed load frees what it allocated | **violated** |
| `worker_sessions` | one command after the other: workers stay reachable, are stopped once, `worker_running` tells the truth; a stop ends | holds |
| `worker_unload` | no worker outlives the module | **violated** |
| `shared_list` | with the users of one lock, or calls in turn: count is length, items are owned once and not used when freed, walks see all, unprotected counters are never ahead | holds |
| `shared_list_mixed` | count is length, with users of the spin lock and of the mutex | **violated** |
| `kernel_list` | one command after the other: ids ascend, the limit is kept, count and memory agree, no record is used when freed | holds |
| `proc_interface` | wherever the load fails, all that was made is removed once; the message ends in its buffer and is whole after a lone write, the counter counts nothing twice | holds |

What the violated ones show:

- `PostUnlockReadsLive`: fork handler p1 links its record and unlocks; p2, with
  the list at its limit, evicts and frees it; p1 calls `process_matches_filter`
  on it (line 196; 243 for exits). With the filter off nothing is read.
- `FailedLoadFreesAll`: a fork between lines 224 and 238, then the exit probe
  fails; the list keeps its record and nobody can free it. `05` has the same hole
  at lines 563-566.
- `CountIsLength` with two locks: both adds load the same `data_count` (79 and
  114), and it stays behind the length of the list until the next clear.
- `NoWorkerOutlivesModule`: `concurrency_exit` stops the workers (403), a `start` finds
  `worker_running` clear, and `proc_remove` (404) waits until it has started its
  threads; then the module is gone and they are not. No two commands overlap in this.

What the models say besides, and no run is kept for:

- `reset_stats` between a fork and its exit makes `current_processes` 0 minus 1;
  `CountsConserved` states what is left, the balance modulo the width.
- Two forks of one process leave one record RUNNING after its exit, in both
  monitors, since the record's pid is the parent's and an exit marks one record.
- The show of `process_monitor.c` reads its counters before it takes the lock
  (136-140); a fork in between makes created differ from exited plus current.
- `VerdictOfOneConfiguration` leaves out three commands, because for them it
  does not hold: `pid 0` between the two reads of line 128 compares a pid with
  0 and hides a record that matches before and after the command; `comm` shows a
  half-copied name; `reset` is any mixture. Bounds are ints compared with
  `unsigned long` (137-139): `minlife -1` hides every exited record and
  `maxlife -1` none, which is what `Wanted` says.
- **Overlapping writers of the kernel list** lose all five properties of `kernel_list`,
  which therefore hold for one command after the other and are not claimed for more. With
  `Spec` in the place of `SessionSpec` in `MCKernelList.cfg`, TLC finds: two adds that
  both pass the check of line 35 before either counts, and a list longer than the
  `MAX_RECORDS` that line 101 prints (`LimitKept`); two adds that load the same
  `next_id` (51), so that a `del` leaves a record with that id behind (`IdsAscend`); a
  lost `record_count++` (57, `MemoryCounted`), and a count that leaves its range
  (`TypeOK`); an add that logs its record (59-60) after a clear has freed it, and
  two adds that evict the same record (37-41, `TouchesOnlyRecords`).
- **Users of two locks of the data list** do not only miscount. With
  `MAX_DATA_ITEMS = 1` and `TouchesOnlyItems` in `MCSharedListMixed.cfg`, both adds find
  the list full and take the same first item (72 and 107); the second `list_del` is of an
  item that is unlinked, or freed. With the family of `show` and `mutex`, a show stands on
  an item, which an add under the mutex evicts and frees before the show prints it
  (303) or goes on from it.
- **Overlapping starts and stops.** With `Spec` in `MCWorkerThreads.cfg`, two starts
  have passed the check of line 217 and the second `kthread_run` overwrites the only
  pointer to a thread of the first (`WorkersReachable`); a stop finds in
  `worker_threads[i]` the error pointer of a `kthread_run` that has failed (225), before
  line 229 clears it, and two stops call `kthread_stop` on one thread
  (`StopsOnlyThreads`).

`worker_sessions`, `worker_unload` and `kernel_list` check `SessionSpec`, in which at most
one command is under way; in `WorkerThreads` the stop of the unload is one of them, and
a command may come after it. That is what `04_test.c` and `simple_run_04.sh` do with
`start` and `stop`: one process gives them, each through a `system` call that returns
when the write has. (`04_test.c` forks writers of adds and reads only.) `02_test.c` and
`simple_run_02.sh` do it with `add`, `del` and `clear`. Nothing in the two modules
enforces it, and the points above say what is lost without it.

**Bounds.** Two processes let handlers of both kinds overlap and let one act
between two stretches of another. `MaxRecords` 2 (or 1) makes evictions common;
one more element in `Rec` than the list holds is the record in flight, so that
memory is used again after each eviction and `kmalloc` fails when two are in
flight on a full list. Three or four creations evict, mark, clear and evict
again. `MaxCreated` bounds the creations that are counted or on their way; a
`reset_stats` lets them begin again, so that records of before a reset meet
counters of after it. A small `ULongMax` makes wrapping happen within these
bounds: 15 is beyond what three creations reach upward but not beyond a
decrement of 0. `complete_lifetimes` has lifetimes of 0, 1 and 2 and three
creations, so that two different ones are averaged, rounded, and averaged again with a
third, with counters wide enough that products do not wrap, as they do not on
a 64-bit kernel; the theorem about it has no such bounds. A list of one record and
memory for two let rmmod meet an eviction, and handlers of both probes that wait. Deadlock is checked in every run: a module that is gone stutters
explicitly (`Gone`), as does one with a `Misuse`; any other stop would be reported.

`worker_sessions`: two workers, four threads and two writers let `start`, `stop`
and `start` again meet failures of `kthread_run` in either place; `worker_unload` has
the same.

`shared_list`: three callers let two readers overlap with a third that waits, and
two adds wait for one lock; a list of two items and four items of memory make an
eviction happen with another item in flight; five calls fill the list, evict, and
leave two for a reader or a clear. A show prints one item, fewer than the list has.
`kernel_list`: seven ids let a list of two be filled, evicted from, cleared and filled
again, with two records of memory to spare; the commands of two writers and of the load
follow one another in every order.
`proc_interface`: a buffer of three bytes holds messages of no, one and two bytes
and refuses three; an `int` of three bits wraps within the four shows from the
value that was set. `record_views`: four records with equal and decreasing start times, running
and exited, one more than the list holds; a show of two; values of each field that
tell the records apart, `pid 0` and negative bounds among them; 15 as the largest
`unsigned long` is beyond every lifetime.

**Fairness.** `complete_lifetimes`: weak fairness of every stretch
of a handler that has begun (handlers run with preemption disabled, so that a
CPU in one runs on to its end) and of the unloading thread (a system call that
has begun). `worker_sessions`: weak fairness of every caller that has begun, and of a
worker that has been told to stop, which looks at `kthread_should_stop` between
sleeps of bounded length (184-207). Nothing makes a process fork or exit, a user write, or an rmmod
begin.

**Symmetry** is over processes, records, items, workers, users, writers and threads,
which no definition tells apart; the runs with a liveness property use none, nor
does `record_views`, where each record has contents of its own.

**Mutants.** Beside each definition that a property depends on stands a wrong
version of it, marked "Mutant" and used by no specification: a forgotten
`hash_del`, `kfree` or `record_count--`, a missing check, a probe that is
unregistered without waiting, an off-by-one in the average, a missing
terminator, a loop that goes on from what it has freed, a label too low, a comparison
without its conversion. `PROJECT.json` pairs
each property with the one that must break it.

## Proofs

Every invariant that a passing run checks is a theorem as well, proved by TLAPS for
every value of the constants, and so are the action properties and the
refinements. The runs came first: each inductive invariant was checked by TLC
before it was proved. What the theorems assume is what the modules assume of their constants, and,
where a line below says so, a hypothesis of the theorem.

### CompleteMonitor

For any finite set of processes, any memory, any positive limit, any clock bound
and any width of `unsigned long`:

| theorem | states |
|---|---|
| `TypeCorrect` | `Spec => []TypeOK` |
| `IndexesAlwaysAgree` | `Spec => []IndexesAgree` |
| `RecordsAlwaysOwnedOnce` | `Spec => []RecordsOwnedOnce` |
| `UnloadAlwaysLeavesNothing` | `Spec => []UnloadLeavesNothing` |
| `CountsAlwaysConserved` | `Spec => []CountsConserved` |
| `StopAlwaysBoundsCreations` | `Spec => StopBoundsCreations` |
| `MonitorImplementsLog` | `Spec => ImplementsLog` |
| `LifetimesOrderedWhileSumsFit` | `Spec /\ []SumsFit => []LifetimesOrdered` |
| `LifetimesAlwaysOrdered` | `Spec => []LifetimesOrdered`, if `MaxCreated <= ULongMax` and `MaxJiffies * (MaxCreated + MaxRecords) <= ULongMax` |

None of the invariants is inductive alone. The inductive one is

    IInv == TypeOK /\ IndexesAgree /\ RecordsOwnedOnce /\ Drained /\ StartedBefore

and each part is there for another: a full list has a head to evict because
`record_count` is its length (`IndexesAgree`); the record that an exit finds in
the chain is allocated because the chain holds what the list holds and the list
holds only allocated memory (`RecordsOwnedOnce`); the record that a handler
inserts is in no index yet because it has no other owner; the agreement is not
disturbed after an unload because no handler is left then (`Drained`: which
handlers each phase of loading and unloading can still meet); a lifetime is not
negative because no record starts in the future (`StartedBefore`).
`CompleteMonitorProofs` has one lemma per action that `IInv` survives it;
`ListLemmas` has what `Append`, `Tail` and `Reverse` do to the range, the
injectivity and the reversal of a list, which is all that insertion and eviction
do to the list and the chain.

`CountsConserved` and `StopBoundsCreations` follow from how each action changes
the statistics (`StatsSteps`, `StoppedSteps`). For the refinement,
`FilledRunning` adds that a record that waits for the lock is RUNNING;
`AddRecordInserts` and `MarkExitMarks` map the two critical sections to `Insert`
and `MarkExited`, clear and the final free map to `Clear`, and every other action
leaves the log as it is.

`LifetimesOrdered` is about `(avg * (n - 1) + lifetime) / n`, and holds only while that
sum does not wrap: with counters of three bits it fails. `SumsFit` says that as many
lifetimes as have been counted, all of the longest, fit into an `unsigned long`
together; then the two sides of the average stay between `min * n` and `max * n`
(`AverageBetween`, from `ProductMonotone` and `QuotientBetween`), and rounding down does
not leave the interval. `LifetimesAlwaysOrdered` replaces this condition on states by
one on constants: a record exits once, and a reset forgets the creations of at most
as many records as the list holds, so that the exits are at most the creations and
`MaxRecords` (`ExitsCounted`). The clock and the number of creations are bounds of the
model; with 64 bits the code would have to run for centuries to go beyond.

### ProcessMonitor

For any processes, memory, positive limit, clock and width of `unsigned long`, with
creations that an `unsigned long` can count (`MaxCreated` in `BoundsAssumption`):
`TypeCorrect`, `RecordsAlwaysOwnedOnce`, `UnloadAlwaysFreesAll`,
`ExitsAlwaysInForkOrder`, `AlwaysAccounting` and `ListImplementsLog`
(`Spec => ImplementsLog`).

The inductive invariant has the parts of the one above, without indexes to agree and
with `FilledRunning`. `LogSteps` says what any step does to log and counters together:
insert a RUNNING record and count a creation, mark the oldest RUNNING record of a pid
and count an exit, empty the log, or neither. The other results are about these four
cases: they are steps of `RecordLog`; marking the *oldest* keeps the exits of a pid in
the order of its forks; and a creation that cannot wrap (`Counted`), an eviction that
takes a record away and an exit that finds one RUNNING record, and so a `current_processes`
that is not 0, keep `Accounting`. The numbers of RUNNING and EXITED records are counts of
places of the list (`Places` in `ListLemmas`).

### WorkerThreads

For any number of writers, threads and places, under `SessionSpec`, one command after
the other (under the unrestricted `Spec` the properties are false, see above):
`TypeCorrect`, `WorkersAlwaysReachable`, `StoppedAlwaysMeansNone` and
`AlwaysStopsOnlyThreads`, with the unload's stop among the commands and a start after it.

The inductive invariant says where in its loop a command is: a start has found the
places from `i` on empty (`Starting`), a stop has emptied those before `i`
(`Stopping`), and the pointer either has in hand is what the place holds, because nobody
else is under way. Threads that have not ended and places correspond (`Distinct`,
`LiveHeld`, `HeldLive`), but for the one whose end a stop waits for; an error pointer is there
only between `kthread_run` and the test that clears it (`ErrorHeld`); without
`worker_running` every place is NULL; and the phases of the unload come after the last
command (`Phases`).

### SharedList

For any workers, users, items, limits and families, with the hypothesis `FamiliesKept`,
that the operations used together share one lock or are called one after the other:
`TypeCorrect`, `CountAlwaysLength`, `ItemsAlwaysOwnedOnce`, `AlwaysTouchesOnlyItems`,
`WalkAlwaysSeesAll` and `SharedCountersStayBehind`. `shared_list` satisfies the
hypothesis; `shared_list_mixed` does not, and loses `CountIsLength`, and with a full list
`TouchesOnlyItems`.

From `FamiliesKept` follows `LockInv`: a section is entered with its lock (`Holding`),
and whoever is in one is alone or among readers (`Exclusive`). So the places of one
caller describe list and count together: `AddAt` says for each step of an add by how
much `data_count` and the length of the list differ and that the item in hand is the
first one, `WalkAt` that a read or a show stands at the item after those it has seen,
`ClearAt` that a clear is at the front of the list and has the next one in `tmp`.
`Owned` says whose the items are that are not in the list, on the way in (`Adding`) or out
(`Freeing`). The counters that nothing guards are bounded by counting calls: what is
stored, and what anybody has loaded, added to the number of calls that have still to
count, is at most the number of calls (`ReadsCounted`, `ValuesCounted`); for
`access_count` those are the readers that have not gone by the item yet
(`VisitsCounted`), and the list does not change under them.

### RecordViews

For any records with any start times, any limits and any settings of the filter:
`TypeCorrect`, `TreeAlwaysSorted`, `VerdictAlwaysOfOneConfiguration` and
`ShowAlwaysFirstMatches`. `TornAssumption` says that a half-copied name is none of the
names a command sets; `BoundsAssumption` that a bound, as an `int`, fits into the wider
`unsigned long` and that a negative one converts to more than any lifetime, which is the
case when lifetimes are below 2^63.

- *The tree.* `TreeInv`: between the sections tree and list have the same records, and
  any two stand in the tree by start time, then by place in the list. During a
  descent everything left of `lo` belongs before the new record and everything right of
  `hi` after it (`Descended`), whichever record of the rest the descent meets.
  `EvictionKeepsOrder` and `LinkKeepsOrder` are about the sequences alone.
- *The match.* `MatchInv`: as long as not every verdict is allowed, the match has met
  two configurations that differ in one field, `g`, which was `y` before (`Follows`); every
  field that it has passed would have passed in the one or the other, and so would the value it
  has in hand. `AllPassed`: if it passes all fields, one of the two configurations passes them all,
  because all fields but `g` are the same in both. `OneRejected` is the dual. `PassesAll` and
  `RejectsOne` compare the field-by-field code, unsigned bounds included, with
  `Wanted`, which is in integers.
- *The show.* `ShowInv`: while no command has disturbed the show, what it has
  printed are the matches before `i`, the k-th of them in the k-th place, and the only verdict
  allowed is that of the filter. `ShowsFirstMatches` says "the first matches" by
  counting (`Matches`) because a selection from a sequence is a recursive definition,
  about which nothing could be proved.

### KernelList and ProcInterface

Every property that `kernel_list` and `proc_interface` check is a theorem.

For any set of users, any limit and any number of ids, under `SessionSpec`, one command
after the other: `TypeCorrect`, `IdsAlwaysAscend`, `LimitAlwaysKept`, `MemoryAlwaysCounted`
and `AlwaysTouchesOnlyRecords`, from `CallersAssumption`, `NullAssumption` and
`LimitsAssumption`. Without the restriction they are false, as the section on the runs says.
The inductive invariant says, for each place of the one caller that is under way, what
count, list and memory are there: which of them is ahead by a record, that the record in
hand is the first of the list or one that a walk has come to, that the number loaded is
still the value, and that the next record of a loop is the one behind the record in
hand. The properties need one another: the record that a full list evicts exists because
the count is the length, and a removal takes one record because ids ascend.

For any set of users, any buffer of at least two bytes and any `int`: `TypeCorrect`,
`AlwaysRemovedOnceAndAll`, `MessageAlwaysTerminated`, `MessageAlwaysWhole` and
`CounterNeverGetsAhead`, from `MarksAssumption`, `BoundsAssumption` and
`ValuesAssumption`. `EntriesCounted` says that the entries are those of `Order` up to
`at`, through the load, its undoing and the unload, and `CallsHaveFiles` that users are
only inside these; `CopiesFit` keeps every copy short of the
last byte of the buffer, which is therefore always the terminator; `LoadsBehind` keeps a
loaded counter below what the shows allow; `LoneCopy` follows a message that meets
no other, byte by byte, to its end.

### What is only model-checked

`UnloadTerminates` and `StopEnds`: liveness under fairness is out of the prover's
reach. The violated runs are TLC's counterexamples.

## Not modelled, and the plan

What is left to do is on the side of the proofs: for `WorkerThreads` and
`CompleteMonitor`, the safety half of the two liveness properties, a measure that every
step of a stop and of an unload lowers and none raises; and for `CompleteMonitor`, that
the filter's reads after the unlock are safe when no eviction or clear can run.

Not modelled:

- `01_syscall_intercept.c`: two counters incremented in probe handlers and
  printed to the log. The updates that `++` loses on several CPUs are those of
  `CounterNeverAhead` in `ProcInterface`, and its load registers two probes as
  `process_monitor.c` does.
- `last_access` and the time in `03`, names and time stamps in `02`, and the text
  that the shows print: output only.
- The inside of `list_add_tail` and `list_del`: two of them at once corrupt the pointers
  of the list. The models let overlapping writers do less harm than the kernel does,
  and what they violate is violated there as well.
- The red-black rotations, `kprobes`, `proc_fs` and the allocator: the kernel's.
- The user-space test programs and the scripts: they drive the proc files one
  command after the other, and are the environment of the models.
