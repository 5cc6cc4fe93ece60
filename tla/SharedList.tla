----------------------------- MODULE SharedList -----------------------------
(***************************************************************************)
(* experiments/04_concurrency_control.c: the data list and its three       *)
(* locks.  Workers and users add items under the spin lock, the mutex or   *)
(* the write lock, visit them under the read lock, show and clear them     *)
(* under the spin lock, all on one list with one data_count.               *)
(*                                                                         *)
(* Nothing in the code keeps its users to one lock; Families says which    *)
(* operations are used together.  A lock only keeps out those that take    *)
(* the same one, so that each read and each write of the list, of an item  *)
(* and of a counter is a step of its own.  Only list.h's functions are     *)
(* taken whole: a mixture of locks is worse in the kernel than it is here. *)
(***************************************************************************)
EXTENDS Integers, SequencesExt, FiniteSetsExt

CONSTANTS
  Worker, User, Rmmod,  \* who calls: worker threads, writers, the unload
  Item,                 \* the memory that kmalloc can hand out
  NULL,                 \* no item, which is the list's own head, and nobody
  MAX_DATA_ITEMS,
  SHOWN_ITEMS,          \* how many items a show prints, 10 in the code
  Families,             \* the sets of operations that are used together
  InTurn,               \* those among them that are called one after the other
  MaxCalls              \* bound of the exploration

Adds       == {"spin", "mutex", "rwlock"}
Operations == Adds \cup {"read", "show", "clear"}

ASSUME CallersAssumption  == Worker \cap User = {} /\ Rmmod \notin Worker \cup User
ASSUME NullAssumption     == NULL \notin Item \cup Worker \cup User \cup {Rmmod}
ASSUME BoundsAssumption   == {MAX_DATA_ITEMS, SHOWN_ITEMS} \subseteq Nat \ {0} /\ MaxCalls \in Nat
ASSUME FamiliesAssumption == InTurn \subseteq Families /\ Families \subseteq SUBSET Operations

VARIABLES
  phase, family,
  data_list, Allocated,
  data_count, stats, access_count, next_value,
  holder, readers,  \* of the three locks, and of the rwlock for reading
  pc, op, v,        \* of each caller: its place, operation and loaded value,
  new, data, tmp,   \* its new item, the one at hand and the next of its loop
  seen,             \* the items its loop has been through
  calls             \* how often each operation was called

memory   == <<data_list, Allocated>>
counters == <<data_count, stats, access_count, next_value>>
locks    == <<holder, readers>>
fixed    == <<phase, family, calls>>
items    == <<new, data, tmp>>
vars     == <<fixed, memory, counters, locks, pc, op, v, items, seen>>

Task   == Worker \cup User
Caller == Task \cup {Rmmod}
Lock   == {"spinlock", "mutex", "rwlock"}
LockOf == [spin |-> "spinlock", show |-> "spinlock", clear |-> "spinlock",
           mutex |-> "mutex", rwlock |-> "rwlock", read |-> "rwlock"]

Init ==
  /\ phase = "live" /\ family \in Families
  /\ data_list = <<>> /\ Allocated = {}
  /\ data_count = 0 /\ next_value = 1
  /\ stats = [o \in Adds \cup {"read"} |-> 0]
  /\ access_count = [n \in Item |-> 0]
  /\ holder = [l \in Lock |-> NULL] /\ readers = {}
  /\ pc = [c \in Caller |-> "idle"] /\ op = [c \in Caller |-> "clear"]
  /\ new = [c \in Caller |-> NULL] /\ data = [c \in Caller |-> NULL]
  /\ tmp = [c \in Caller |-> NULL]
  /\ v = [c \in Caller |-> 0] /\ seen = [c \in Caller |-> 0]
  /\ calls = [o \in Operations |-> 0]

\* Caller c moves from one place to another.
Step(c, from, to) == pc[c] = from /\ pc' = [pc EXCEPT ![c] = to]

Load(c, value) == v' = [v EXCEPT ![c] = value]
Take(c, n)     == data' = [data EXCEPT ![c] = n]

\* The call returns, and its variables are gone.
Return(c) ==
  /\ new' = [new EXCEPT ![c] = NULL]
  /\ Take(c, NULL) /\ tmp' = [tmp EXCEPT ![c] = NULL]
  /\ Load(c, 0)
  /\ seen' = [seen EXCEPT ![c] = 0]
  /\ op' = [op EXCEPT ![c] = "clear"]

\* The item at a place of the list, which ends at its head.
Nth(n)    == IF n \in DOMAIN data_list THEN data_list[n] ELSE NULL
NextOf(n) == Nth(1 + CHOOSE k \in DOMAIN data_list : data_list[k] = n)
InList(n) == n \in Range(data_list)

TotalCalls == MapThenSumSet(LAMBDA o : calls[o], Operations)

-----------------------------------------------------------------------------
(* Up to the lock.                                                         *)

\* A worker picks one of its four operations, a user writes a command or
\* reads the file.  A worker takes the value of its item from next_value.
Call(c, o) ==
  /\ phase = "live" /\ o \in family
  /\ c \in Worker => o \notin {"show", "clear"}
  /\ family \in InTurn => \A d \in Task : pc[d] = "idle"
  /\ TotalCalls < MaxCalls
  /\ calls' = [calls EXCEPT ![o] = @ + 1]
  /\ op' = [op EXCEPT ![c] = o]
  /\ Step(c, "idle",
          IF o \notin Adds THEN "lock" ELSE IF c \in Worker THEN "fetch" ELSE "alloc")
  /\ UNCHANGED <<phase, family, memory, counters, locks, v, items, seen>>

FetchLoad(c) ==
  /\ Step(c, "fetch", "fetched")
  /\ Load(c, next_value)
  /\ UNCHANGED <<fixed, memory, counters, locks, op, items, seen>>

FetchStore(c) ==
  /\ Step(c, "fetched", "alloc")
  /\ next_value' = v[c] + 1
  /\ Load(c, 0)
  /\ UNCHANGED <<fixed, memory, data_count, stats, access_count, locks, op, items, seen>>

\* kmalloc, which may fail, and the fields of the item.
Alloc(c) ==
  /\ \/ /\ Step(c, "alloc", "idle") /\ Return(c)
        /\ UNCHANGED <<Allocated, access_count>>
     \/ /\ Step(c, "alloc", "lock") /\ UNCHANGED <<op, v, data, tmp, seen>>
        /\ \E n \in Item \ Allocated :
             /\ Allocated' = Allocated \cup {n}
             /\ new' = [new EXCEPT ![c] = n]
             /\ access_count' = [access_count EXCEPT ![n] = 0]
  /\ UNCHANGED <<fixed, data_list, data_count, stats, next_value, locks>>

\* Mutant: an interrupted caller forgets its item.
InterruptedLeaking(c) ==
  /\ Step(c, "lock", "idle") /\ op[c] = "mutex" /\ Return(c)
  /\ UNCHANGED <<fixed, memory, counters, locks>>

\* mutex_lock_interruptible returns because of a signal.
Interrupted(c) ==
  /\ Step(c, "lock", "idle") /\ op[c] = "mutex" /\ Return(c)
  /\ Allocated' = Allocated \ {new[c]}
  /\ UNCHANGED <<fixed, data_list, counters, locks>>

\* Mutant: a writer does not wait for the readers.
IsFreeOfWriters(o) == holder[LockOf[o]] = NULL

IsFree(o) == holder[LockOf[o]] = NULL /\ (o = "rwlock" => readers = {})

TakeLock(c) ==
  /\ IsFree(op[c])
  /\ Step(c, "lock", IF op[c] \in Adds THEN "room" ELSE "first")
  /\ IF op[c] = "read"
     THEN readers' = readers \cup {c} /\ UNCHANGED holder
     ELSE holder' = [holder EXCEPT ![LockOf[op[c]]] = c] /\ UNCHANGED readers
  /\ seen' = [seen EXCEPT ![c] = 0]
  /\ UNCHANGED <<fixed, memory, counters, op, v, items>>

Unlock(c) ==
  /\ Step(c, "unlock", "idle") /\ Return(c)
  /\ IF op[c] = "read"
     THEN readers' = readers \ {c} /\ UNCHANGED holder
     ELSE holder' = [holder EXCEPT ![LockOf[op[c]]] = NULL] /\ UNCHANGED readers
  /\ UNCHANGED <<fixed, memory, counters>>

-----------------------------------------------------------------------------
(* The list, under the lock.                                               *)

\* Mutant: the limit is off by one.
RoomForOneMore(c) ==
  /\ Step(c, "room", IF data_count > MAX_DATA_ITEMS THEN "first" ELSE "link")
  /\ UNCHANGED <<fixed, memory, counters, locks, op, v, items, seen>>

Room(c) ==
  /\ Step(c, "room", IF data_count >= MAX_DATA_ITEMS THEN "first" ELSE "link")
  /\ UNCHANGED <<fixed, memory, counters, locks, op, v, items, seen>>

\* list_first_entry of an eviction, also of an empty list, and the first item
\* of a loop.
First(c) ==
  /\ Step(c, "first", IF op[c] \in Adds THEN "unlink" ELSE "walk")
  /\ Take(c, Nth(1))
  /\ UNCHANGED <<fixed, memory, counters, locks, op, v, new, tmp, seen>>

Unlink(c) ==
  /\ InList(data[c])
  /\ Step(c, "unlink", "free")
  /\ data_list' = RemoveFirst(data_list, data[c])
  /\ UNCHANGED <<fixed, Allocated, counters, locks, op, v, items, seen>>

Free(c) ==
  /\ Step(c, "free", IF op[c] = "clear" THEN "next" ELSE "less")
  /\ Take(c, NULL)
  /\ Allocated' = Allocated \ {data[c]}
  /\ UNCHANGED <<fixed, data_list, counters, locks, op, v, new, tmp, seen>>

\* data_count--.
LessLoad(c) ==
  /\ Step(c, "less", "less_store")
  /\ Load(c, data_count)
  /\ UNCHANGED <<fixed, memory, counters, locks, op, items, seen>>

LessStore(c) ==
  /\ Step(c, "less_store", "link")
  /\ data_count' = v[c] - 1
  /\ UNCHANGED <<fixed, memory, stats, access_count, next_value, locks, op, v, items, seen>>

Link(c) ==
  /\ Step(c, "link", "more")
  /\ data_list' = Append(data_list, new[c])
  /\ UNCHANGED <<fixed, Allocated, counters, locks, op, v, items, seen>>

\* data_count++.
MoreLoad(c) ==
  /\ Step(c, "more", "more_store")
  /\ Load(c, data_count)
  /\ UNCHANGED <<fixed, memory, counters, locks, op, items, seen>>

MoreStore(c) ==
  /\ Step(c, "more_store", "stat")
  /\ data_count' = v[c] + 1
  /\ UNCHANGED <<fixed, memory, stats, access_count, next_value, locks, op, v, items, seen>>

-----------------------------------------------------------------------------
(* The loops, under the lock.                                              *)

\* The loop of a read, a show or a clear has another item.
More(c) == data[c] # NULL /\ (op[c] = "show" => seen[c] < SHOWN_ITEMS)

\* The load of data->access_count++ of a reader, and its store.
VisitLoad(c) ==
  /\ More(c) /\ op[c] # "clear" /\ data[c] \in Allocated
  /\ Step(c, "walk", "visit")
  /\ Load(c, access_count[data[c]])
  /\ UNCHANGED <<fixed, memory, counters, locks, op, items, seen>>

\* Mutant: the operation is counted once for every item.
VisitCounting(c) ==
  /\ data[c] \in Allocated
  /\ Step(c, "visit", "next")
  /\ seen' = [seen EXCEPT ![c] = @ + 1]
  /\ IF op[c] = "read"
     THEN /\ access_count' = [access_count EXCEPT ![data[c]] = v[c] + 1]
          /\ stats' = [stats EXCEPT !["read"] = @ + 1]
     ELSE UNCHANGED <<access_count, stats>>
  /\ UNCHANGED <<fixed, memory, data_count, next_value, locks, op, v, items>>

Visit(c) ==
  /\ data[c] \in Allocated
  /\ Step(c, "visit", "next")
  /\ seen' = [seen EXCEPT ![c] = @ + 1]
  /\ access_count' = IF op[c] = "read"
                     THEN [access_count EXCEPT ![data[c]] = v[c] + 1]
                     ELSE access_count
  /\ UNCHANGED <<fixed, memory, data_count, stats, next_value, locks, op, v, items>>

\* Mutant: list_for_each_entry instead of list_for_each_entry_safe.
KeepUnsafe(c) ==
  /\ More(c) /\ op[c] = "clear" /\ InList(data[c])
  /\ Step(c, "walk", "unlink")
  /\ tmp' = [tmp EXCEPT ![c] = data[c]]
  /\ UNCHANGED <<fixed, memory, counters, locks, op, v, new, data, seen>>

\* list_for_each_entry_safe keeps the next item before its body frees this one.
Keep(c) ==
  /\ More(c) /\ op[c] = "clear" /\ InList(data[c])
  /\ Step(c, "walk", "unlink")
  /\ tmp' = [tmp EXCEPT ![c] = NextOf(data[c])]
  /\ UNCHANGED <<fixed, memory, counters, locks, op, v, new, data, seen>>

Advance(c) ==
  /\ op[c] # "clear" => InList(data[c])
  /\ Step(c, "next", "walk")
  /\ Take(c, IF op[c] = "clear" THEN tmp[c] ELSE NextOf(data[c]))
  /\ UNCHANGED <<fixed, memory, counters, locks, op, v, new, tmp, seen>>

WalkEnds(c) ==
  /\ ~More(c)
  /\ Step(c, "walk",
          IF op[c] = "clear" THEN "reset" ELSE IF op[c] = "read" THEN "stat" ELSE "unlock")
  /\ UNCHANGED <<fixed, memory, counters, locks, op, v, items, seen>>

\* Memory that is no item of the list any more is used as one: its poisoned
\* pointers are followed, or what kfree has left is read or written.  What the
\* caller does then is not followed any further: it has no action.
Misuse(c) ==
  \/ pc[c] = "unlink" /\ ~InList(data[c])
  \/ pc[c] = "walk" /\ op[c] = "clear" /\ More(c) /\ ~InList(data[c])
  \/ pc[c] = "next" /\ op[c] # "clear" /\ ~InList(data[c])
  \/ pc[c] = "walk" /\ op[c] # "clear" /\ More(c) /\ data[c] \notin Allocated
  \/ pc[c] = "visit" /\ data[c] \notin Allocated

-----------------------------------------------------------------------------
(* What is counted, under the lock.                                        *)

\* stats.<lock>_ops++, of which several readers may be in the middle.
StatLoad(c) ==
  /\ Step(c, "stat", "stat_store")
  /\ Load(c, stats[op[c]])
  /\ UNCHANGED <<fixed, memory, counters, locks, op, items, seen>>

StatStore(c) ==
  /\ Step(c, "stat_store", "unlock")
  /\ stats' = [stats EXCEPT ![op[c]] = v[c] + 1]
  /\ UNCHANGED <<fixed, memory, data_count, access_count, next_value, locks, op, v, items, seen>>

\* Mutant: data_count is forgotten.
ResetNot(c) ==
  /\ Step(c, "reset", "memset")
  /\ UNCHANGED <<fixed, memory, counters, locks, op, v, items, seen>>

\* The end of a clear.
Reset(c) ==
  /\ Step(c, "reset", "memset")
  /\ data_count' = 0
  /\ UNCHANGED <<fixed, memory, stats, access_count, next_value, locks, op, v, items, seen>>

ResetStats(c) ==
  /\ Step(c, "memset", "unlock")
  /\ stats' = [o \in DOMAIN stats |-> 0]
  /\ UNCHANGED <<fixed, memory, data_count, access_count, next_value, locks, op, v, items, seen>>

-----------------------------------------------------------------------------
\* The unload: stop_worker_threads and proc_remove wait for everyone, and
\* clear_all_data frees what is left.
Exit ==
  /\ phase = "live" /\ \A c \in Task : pc[c] = "idle"
  /\ phase' = "exit"
  /\ Step(Rmmod, "idle", "lock")
  /\ UNCHANGED <<family, calls, memory, counters, locks, op, v, items, seen>>

ExitReturn ==
  /\ phase = "exit" /\ pc[Rmmod] = "idle"
  /\ phase' = "unloaded"
  /\ UNCHANGED <<family, calls, memory, counters, locks, pc, op, v, items, seen>>

Over == phase = "unloaded" \/ \E c \in Caller : Misuse(c)

Gone == Over /\ UNCHANGED vars

Add(c)  == FetchLoad(c) \/ FetchStore(c) \/ Alloc(c) \/ Room(c) \/ Link(c)
           \/ MoreLoad(c) \/ MoreStore(c)
Drop(c) == First(c) \/ Unlink(c) \/ Free(c) \/ LessLoad(c) \/ LessStore(c)
Walk(c) == VisitLoad(c) \/ Visit(c) \/ Keep(c) \/ Advance(c) \/ WalkEnds(c)
Stat(c) == StatLoad(c) \/ StatStore(c) \/ Reset(c) \/ ResetStats(c)

Next ==
  \/ \E c \in Task, o \in Operations : Call(c, o)
  \/ \E c \in Caller : Add(c) \/ Drop(c) \/ Walk(c) \/ Stat(c)
  \/ \E c \in Caller : TakeLock(c) \/ Interrupted(c) \/ Unlock(c)
  \/ Exit \/ ExitReturn \/ Gone

Spec == Init /\ [][Next]_vars

-----------------------------------------------------------------------------
(* Properties.                                                             *)

At(places) == {c \in Caller : pc[c] \in places}
InSection  == Caller \ At({"idle", "fetch", "fetched", "alloc", "lock"})

TypeOK ==
  /\ phase \in {"live", "exit", "unloaded"} /\ family \in Families
  /\ data_list \in Seq(Item) /\ Allocated \subseteq Item
  /\ data_count \in 0 .. MAX_DATA_ITEMS /\ next_value \in Nat
  /\ stats \in [Adds \cup {"read"} -> Nat] /\ access_count \in [Item -> Nat]
  /\ holder \in [Lock -> Caller \cup {NULL}] /\ readers \subseteq Caller
  /\ op \in [Caller -> Operations] /\ v \in [Caller -> Nat] /\ seen \in [Caller -> Nat]
  /\ {new, data, tmp} \subseteq [Caller -> Item \cup {NULL}]

\* As long as all who change the list use one lock, or take turns, data_count
\* is the length of the list whenever nobody is inside a section (lines 68-82,
\* 100-119, 158-172, 261-271), so that an eviction finds an item.
CountIsLength == InSection = {} => data_count = Len(data_list)

\* Every allocated item is in the list once, or with the one caller that adds
\* it or takes it out: no eviction, failure, signal (lines 100-103) or clear
\* leaks an item or shares it out, and nothing is left after an unload (line
\* 405).
ItemsOwnedOnce ==
  LET adding  == {c \in At({"lock", "room", "first", "unlink", "free", "less",
                            "less_store", "link"}) : op[c] \in Adds}
      freeing == At({"free"})
      private == {new[c] : c \in adding} \cup {data[c] : c \in freeing}
  IN /\ Allocated = Range(data_list) \cup private
     /\ Range(data_list) \cap private = {}
     /\ IsInjective(data_list)
     /\ \A c, d \in adding : new[c] = new[d] => c = d
     /\ \A c, d \in freeing : data[c] = data[d] => c = d
     /\ \A c \in adding, d \in freeing : new[c] # data[d]
     /\ phase = "unloaded" => Allocated = {}

\* list_del gets items of the list only, no loop goes on from one that is
\* unlinked, and nothing that kfree has taken is read or written (lines 70-76,
\* 105-111, 132-135, 160-166, 263-266, 299-303).
TouchesOnlyItems == \A c \in Caller : ~Misuse(c)

\* A reader goes through every item and returns their number (lines 130-141),
\* and a show through as many as it prints (lines 295-311): the list does not
\* change under either, though readers overlap one another.
WalkSeesAll ==
  \A c \in At({"stat", "stat_store", "unlock"}) :
    /\ op[c] = "read" => seen[c] = Len(data_list) /\ seen[c] = data_count
    /\ op[c] = "show" =>
         seen[c] = IF data_count < SHOWN_ITEMS THEN data_count ELSE SHOWN_ITEMS

\* What readers and workers count without excluding each other (lines 133,
\* 137, 190-199) may lose updates and never counts anything twice.
SharedCountersNeverAhead ==
  /\ stats["read"] <= calls["read"]
  /\ \A n \in Item : access_count[n] <= calls["read"]
  /\ next_value <= 1 + calls["spin"] + calls["mutex"] + calls["rwlock"]

=============================================================================
