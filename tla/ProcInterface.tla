--------------------------- MODULE ProcInterface ---------------------------
(***************************************************************************)
(* experiments/03_proc_interface.c: a counter and a message that files     *)
(* below /proc/proc_demo share without a lock, a load that undoes itself   *)
(* when it cannot create a file, and an unload in the same order.          *)
(*                                                                         *)
(* A user's message is his own mark, n times; its bytes arrive one by one  *)
(* in the shared buffer, and the terminator after them.  last_access and   *)
(* the time only go to the output and are left out.                        *)
(***************************************************************************)
EXTENDS Integers, Sequences, FiniteSets

CONSTANTS
  User,         \* readers and writers of the files
  Module,       \* whose mark is the message of the start
  NUL,          \* the byte that ends a string, and no message
  BufferSize,   \* sizeof(user_message)
  IntMax,       \* the largest int
  Values,       \* what users set the counter to
  MaxShows      \* bound of the exploration: shows of the counter

ASSUME MarksAssumption  == Module \notin User /\ NUL \notin User \cup {Module}
ASSUME BoundsAssumption ==
  BufferSize \in Nat \ {0, 1} /\ IntMax \in Nat /\ MaxShows \in Nat
ASSUME ValuesAssumption == Values \subseteq -(IntMax + 1) .. IntMax

VARIABLES
  phase,
  entries,      \* the entries that there are
  at,           \* how far the load has come in Order, or the removals have to go
  counter, user_message,
  pc,           \* where each user is
  file,         \* the file he has called
  n,            \* the value he has loaded, or the length of his message
  pos,          \* the bytes of it that are copied
  shows,        \* how often the counter was shown
  highest,      \* the highest value it was set to
  whole         \* the message of the last write, if it met no other and no fault

pdata   == <<counter, user_message>>
locals  == <<n, pos>>
history == <<shows, highest, whole>>
loading == <<phase, entries, at>>
vars    == <<loading, pdata, pc, file, locals, history>>

\* The entries, in the order of their creation.
File  == {"info", "counter", "message", "time"}
Entry == File \cup {"dir"}
Order == <<"dir", "info", "counter", "message", "time">>
CInt == -(IntMax + 1) .. IntMax
Cell  == 0 .. BufferSize - 1

Init ==
  /\ phase = "loading" /\ entries = {} /\ at = 0
  /\ counter = 0
  /\ user_message = [k \in Cell |-> IF k = 0 THEN Module ELSE NUL]
  /\ pc = [u \in User |-> "idle"] /\ file = [u \in User |-> "info"]
  /\ n = [u \in User |-> 0] /\ pos = [u \in User |-> 0]
  /\ shows = 0 /\ highest = 0
  /\ whole = NUL

Step(u, from, to) == pc[u] = from /\ pc' = [pc EXCEPT ![u] = to]

InFile(f) == {u \in User : pc[u] # "idle" /\ file[u] = f}

\* A file can be called from its creation on, until proc_remove begins.
Enter(u, f, place) ==
  /\ f \in entries
  /\ Step(u, "idle", place)
  /\ file' = [file EXCEPT ![u] = f]

\* info_show, message_show and time_show, which only read.
Show(u, f) ==
  /\ f # "counter"
  /\ Enter(u, f, "return")
  /\ UNCHANGED <<loading, pdata, locals, history>>

Return(u) ==
  /\ Step(u, "return", "idle")
  /\ n' = [n EXCEPT ![u] = 0] /\ pos' = [pos EXCEPT ![u] = 0]
  /\ UNCHANGED <<loading, pdata, file, history>>

-----------------------------------------------------------------------------
(* The counter.                                                            *)

\* pdata.counter++ of counter_show.
CounterLoad(u) ==
  /\ shows < MaxShows
  /\ Enter(u, "counter", "shown")
  /\ shows' = shows + 1
  /\ n' = [n EXCEPT ![u] = counter]
  /\ UNCHANGED <<loading, pdata, pos, highest, whole>>

\* Mutant: the lines that print the counter raise it as well.
NextOfPrinted(x) == x + 2

\* An int wraps around in the kernel.
NextInt(x) == IF x = IntMax THEN -(IntMax + 1) ELSE x + 1

\* Mutant: an int without end.
CounterStoreUnbounded(u) ==
  /\ Step(u, "shown", "return")
  /\ counter' = n[u] + 1
  /\ UNCHANGED <<loading, user_message, file, locals, history>>

CounterStore(u) ==
  /\ Step(u, "shown", "return")
  /\ counter' = NextInt(n[u])
  /\ UNCHANGED <<loading, user_message, file, locals, history>>

\* counter_write with "reset" or a number.
CounterWrite(u, x) ==
  /\ Enter(u, "counter", "return")
  /\ counter' = x
  /\ highest' = IF x > highest THEN x ELSE highest
  /\ UNCHANGED <<loading, user_message, locals, shows, whole>>

-----------------------------------------------------------------------------
(* The message.                                                            *)

\* Mutant: the terminator has no room.
FitsWithoutEnd(count) == count <= BufferSize

Fits(count) == count < BufferSize

MessageEnter(u, count) ==
  /\ Fits(count)
  /\ Enter(u, "message", "copy")
  /\ n' = [n EXCEPT ![u] = count]
  /\ whole' = IF \E w \in InFile("message") : pc[w] = "copy" THEN NUL ELSE <<u, count>>
  /\ UNCHANGED <<loading, pdata, pos, shows, highest>>

CopyByte(u) ==
  /\ Step(u, "copy", "copy")
  /\ pos[u] < n[u]
  /\ user_message' = [user_message EXCEPT ![pos[u]] = u]
  /\ pos' = [pos EXCEPT ![u] = @ + 1]
  /\ UNCHANGED <<loading, counter, file, n, history>>

\* copy_from_user meets an address that is not mapped: what it has copied
\* stays, and it fills the rest of the length with zeros.
CopyFault(u) ==
  /\ Step(u, "copy", "return")
  /\ pos[u] < n[u]
  /\ user_message' = [k \in Cell |-> IF k \in pos[u] .. n[u] - 1 THEN NUL ELSE user_message[k]]
  /\ whole' = NUL
  /\ UNCHANGED <<loading, counter, file, locals, shows, highest>>

\* Mutant: the rest of the previous message stays.
TerminateNot(u) ==
  /\ Step(u, "copy", "return")
  /\ pos[u] = n[u]
  /\ UNCHANGED <<loading, pdata, file, locals, history>>

Terminate(u) ==
  /\ Step(u, "copy", "return")
  /\ pos[u] = n[u]
  /\ user_message' = [user_message EXCEPT ![n[u]] = NUL]
  /\ UNCHANGED <<loading, counter, file, locals, history>>

-----------------------------------------------------------------------------
(* Load and unload.                                                        *)

Create ==
  /\ phase = "loading"
  /\ at' = at + 1
  /\ entries' = entries \cup {Order[at']}
  /\ phase' = IF at' = Len(Order) THEN "live" ELSE "loading"
  /\ UNCHANGED <<pdata, pc, file, locals, history>>

\* Mutant: every label is the next one below.
CleanupTooLow == <<0, 0, 1, 2, 3>>

\* The label that the load goes to when it cannot make the k-th entry, as the
\* place of the entry that is removed there first: the labels fall through
\* from cleanup_message to cleanup_dir, and without a directory there is none.
Cleanup == <<0, 1, 2, 3, 4>>

CreateFails ==
  /\ phase = "loading"
  /\ at' = Cleanup[at + 1]
  /\ phase' = IF at' = 0 THEN "failed" ELSE "undo"
  /\ UNCHANGED <<entries, pdata, pc, file, locals, history>>

Exit ==
  /\ phase = "live"
  /\ phase' = "exit"
  /\ UNCHANGED <<entries, at, pdata, pc, file, locals, history>>

\* proc_remove of a directory takes what is in it as well.
Below(e) == IF e = "dir" THEN Entry ELSE {e}

\* proc_remove, which waits for those inside; then the next one in line.
RemoveEntry ==
  /\ phase \in {"undo", "exit"}
  /\ \A f \in Below(Order[at]) \cap File : InFile(f) = {}
  /\ entries' = entries \ Below(Order[at])
  /\ at' = at - 1
  /\ phase' = IF at' > 0 THEN phase ELSE IF phase = "undo" THEN "failed" ELSE "unloaded"
  /\ UNCHANGED <<pdata, pc, file, locals, history>>

Gone == phase \in {"failed", "unloaded"} /\ UNCHANGED vars

Counter(u) == CounterLoad(u) \/ CounterStore(u) \/ \E x \in Values : CounterWrite(u, x)
Message(u) == CopyByte(u) \/ CopyFault(u) \/ Terminate(u)

Next ==
  \/ \E u \in User : Counter(u) \/ Message(u) \/ Return(u)
  \/ \E u \in User, f \in File : Show(u, f)
  \/ \E u \in User, count \in 0 .. BufferSize : MessageEnter(u, count)
  \/ Create \/ CreateFails \/ Exit \/ RemoveEntry \/ Gone

Spec == Init /\ [][Next]_vars

-----------------------------------------------------------------------------
(* Properties.                                                             *)

TypeOK ==
  /\ phase \in {"loading", "live", "undo", "exit", "failed", "unloaded"}
  /\ entries \subseteq Entry /\ at \in 0 .. Len(Order)
  /\ counter \in CInt
  /\ user_message \in [Cell -> User \cup {Module, NUL}]
  /\ pc \in [User -> {"idle", "return", "shown", "copy"}]
  /\ file \in [User -> File]
  /\ n \in [User -> Int] /\ pos \in [User -> 0 .. BufferSize]

\* From whichever entry a load fails at, its labels (lines 203-238) take back
\* all that it has made, and so does the unload (lines 245-249): nothing of
\* them stays below /proc, nobody is inside, and no proc_remove is given what
\* is gone, with its directory or before.
RemovedOnceAndAll ==
  /\ phase \in {"failed", "unloaded"} =>
       entries = {} /\ \A u \in User : pc[u] = "idle"
  /\ phase \in {"undo", "exit"} => Order[at] \in entries

\* However the bytes of several writes mix, with faults in the middle (lines
\* 147-153), the buffer holds a terminator: a show (lines 53, 73) stops in it.
MessageTerminated == \E k \in Cell : user_message[k] = NUL

\* A write that met no other write and no fault (lines 150-153) has left its
\* message whole, and nothing of a longer one behind it.
MessageWhole ==
  whole # NUL /\ (\A u \in User : pc[u] # "copy") =>
    LET count == whole[2]
    IN /\ \A k \in 0 .. count - 1 : user_message[k] = whole[1]
       /\ user_message[count] = NUL

\* counter++ without a lock (line 60) may lose a show, or a reset to a show
\* that had loaded the counter before (line 129), and counts none twice.
CounterNeverAhead == counter <= highest + shows

=============================================================================
