------------------------ MODULE ProcInterfaceProofs ------------------------
(***************************************************************************)
(* The safety of ProcInterface for every set of users, every buffer of at  *)
(* least two bytes and every width of int.                                 *)
(***************************************************************************)
EXTENDS ProcInterface, TLAPS

\* The entries are the first ones in the order of their creation, and the
\* phases know how many.
EntriesCounted ==
  /\ entries = {Order[k] : k \in 1 .. at}
  /\ phase = "loading" => at < Len(Order)
  /\ phase = "live" => at = Len(Order)
  /\ phase \in {"undo", "exit"} => at > 0
  /\ phase \in {"failed", "unloaded"} => at = 0

\* A user is inside a file that there is.
CallsHaveFiles == \A u \in User : pc[u] # "idle" => file[u] \in entries

\* A copy goes on within the length of its message, which leaves room for
\* the end; so that the last byte of the buffer is never anything else.
CopiesFit ==
  /\ \A u \in User : pc[u] = "copy" =>
       file[u] = "message" /\ n[u] \in Cell /\ pos[u] \in 0 .. n[u]
  /\ \A u \in User : pc[u] = "idle" => pos[u] = 0
  /\ user_message[BufferSize - 1] = NUL

\* A value that was loaded is one below what the shows allow.
LoadsBehind ==
  /\ shows \in Nat /\ highest \in Nat /\ counter <= highest + shows
  /\ \A u \in User : pc[u] = "shown" => n[u] \in CInt /\ n[u] < highest + shows

\* A message that meets no other is the only one under way, and its bytes are
\* there as far as they are copied.
LoneCopy ==
  whole # NUL =>
    \E w \in User, count \in Cell :
      /\ whole = <<w, count>>
      /\ \A u \in User : pc[u] = "copy" =>
           u = w /\ n[u] = count /\ \A k \in 0 .. pos[u] - 1 : user_message[k] = w
      /\ (\A u \in User : pc[u] # "copy") =>
           /\ \A k \in 0 .. count - 1 : user_message[k] = w
           /\ user_message[count] = NUL

IInv == TypeOK /\ CallsHaveFiles /\ EntriesCounted /\ CopiesFit /\ LoadsBehind /\ LoneCopy

-----------------------------------------------------------------------------

\* The five entries have different names, and the directory is none of the files.
LEMMA EntriesDiffer ==
  /\ Len(Order) = 5
  /\ Order \in [1 .. 5 -> Entry]
  /\ \A j, k \in 1 .. 5 : Order[j] = Order[k] => j = k
  /\ \A k \in 1 .. 5 : Order[k] = "dir" <=> k = 1
BY DEF Order, Entry, File

LEMMA InitIInv == Init => IInv
<1> SUFFICES ASSUME Init PROVE IInv
  OBVIOUS
<1> USE BoundsAssumption, MarksAssumption, EntriesDiffer
<1>1. TypeOK
  BY DEF Init, TypeOK, CInt, Cell, File
<1>2. CallsHaveFiles /\ EntriesCounted
  BY DEF Init, CallsHaveFiles, EntriesCounted
<1>3. CopiesFit
  BY DEF Init, CopiesFit, Cell
<1>4. LoadsBehind
  BY DEF Init, LoadsBehind
<1>5. LoneCopy
  BY DEF Init, LoneCopy
<1> QED BY <1>1, <1>2, <1>3, <1>4, <1>5 DEF IInv

-----------------------------------------------------------------------------
(* Users.                                                                  *)

\* A user who enters a file stands in one that exists.
LEMMA EnterHasFile ==
  ASSUME TypeOK, CallsHaveFiles, NEW u \in User, NEW g \in File, NEW place,
         Enter(u, g, place), UNCHANGED loading
  PROVE  CallsHaveFiles'
<1>1. pc' = [pc EXCEPT ![u] = place] /\ file' = [file EXCEPT ![u] = g]
  BY DEF Enter, Step
<1> QED BY <1>1 DEF Enter, CallsHaveFiles, TypeOK, loading

\* A user who goes on or returns is in no other file than before.
LEMMA StepHasFile ==
  ASSUME TypeOK, CallsHaveFiles, NEW u \in User, NEW from, from # "idle",
         NEW to, Step(u, from, to), UNCHANGED <<loading, file>>
  PROVE  CallsHaveFiles'
BY DEF CallsHaveFiles, TypeOK, Step, loading

LEMMA ShowIInv ==
  ASSUME IInv, NEW u \in User, NEW g \in File, Show(u, g)
  PROVE  IInv'
<1> USE DEF loading
<1>1. CallsHaveFiles'
  BY EnterHasFile DEF Show, IInv
<1>2. TypeOK'
  BY DEF Show, Enter, Step, IInv, TypeOK, pdata, locals
<1>3. EntriesCounted' /\ CopiesFit' /\ LoadsBehind' /\ LoneCopy'
  BY DEF Show, Enter, Step, IInv, TypeOK, EntriesCounted, CopiesFit, LoadsBehind, LoneCopy,
         pdata, locals, history
<1> QED BY <1>1, <1>2, <1>3 DEF IInv

LEMMA ReturnIInv ==
  ASSUME IInv, NEW u \in User, Return(u)
  PROVE  IInv'
<1> USE DEF loading
<1>1. CallsHaveFiles'
  BY StepHasFile DEF Return, IInv
<1>2. TypeOK'
  BY BoundsAssumption DEF Return, Step, IInv, TypeOK, pdata
<1>3. EntriesCounted' /\ CopiesFit' /\ LoadsBehind' /\ LoneCopy'
  BY DEF Return, Step, IInv, TypeOK, EntriesCounted, CopiesFit, LoadsBehind, LoneCopy,
         pdata, history
<1> QED BY <1>1, <1>2, <1>3 DEF IInv

\* The load of counter++ counts the show, so that its store may.
LEMMA CounterLoadIInv ==
  ASSUME IInv, NEW u \in User, CounterLoad(u)
  PROVE  IInv'
<1> USE DEF loading
<1>1. CallsHaveFiles'
  BY EnterHasFile DEF CounterLoad, IInv, File
<1>2. TypeOK'
  BY BoundsAssumption DEF CounterLoad, Enter, Step, IInv, TypeOK, CInt, File, pdata
<1>3. EntriesCounted' /\ CopiesFit' /\ LoneCopy'
  BY DEF CounterLoad, Enter, Step, IInv, TypeOK, EntriesCounted, CopiesFit, LoneCopy,
         pdata
<1>4. LoadsBehind'
  BY BoundsAssumption
  DEF CounterLoad, Enter, Step, IInv, TypeOK, LoadsBehind, CInt, pdata
<1> QED BY <1>1, <1>2, <1>3, <1>4 DEF IInv

LEMMA CounterStoreIInv ==
  ASSUME IInv, NEW u \in User, CounterStore(u)
  PROVE  IInv'
<1> USE DEF loading
<1>1. CallsHaveFiles'
  BY StepHasFile DEF CounterStore, IInv
<1>2. counter' \in CInt /\ counter' <= highest + shows
  BY BoundsAssumption DEF CounterStore, Step, NextInt, IInv, LoadsBehind, CInt
<1>3. TypeOK'
  BY <1>2 DEF CounterStore, Step, IInv, TypeOK, locals
<1>4. EntriesCounted' /\ CopiesFit' /\ LoneCopy'
  BY DEF CounterStore, Step, IInv, TypeOK, EntriesCounted, CopiesFit, LoneCopy,
         locals, history
<1>5. LoadsBehind'
  BY <1>2 DEF CounterStore, Step, IInv, TypeOK, LoadsBehind, locals, history
<1> QED BY <1>1, <1>3, <1>4, <1>5 DEF IInv

LEMMA CounterWriteIInv ==
  ASSUME IInv, NEW u \in User, NEW x \in Values, CounterWrite(u, x)
  PROVE  IInv'
<1> USE DEF loading
<1> USE ValuesAssumption, BoundsAssumption
<1>1. CallsHaveFiles'
  BY EnterHasFile DEF CounterWrite, IInv, File
<1>2. TypeOK'
  BY DEF CounterWrite, Enter, Step, IInv, TypeOK, CInt, File, locals
<1>3. EntriesCounted' /\ CopiesFit' /\ LoneCopy'
  BY DEF CounterWrite, Enter, Step, IInv, TypeOK, EntriesCounted, CopiesFit, LoneCopy,
         locals
<1>4. LoadsBehind'
  BY DEF CounterWrite, Enter, Step, IInv, TypeOK, LoadsBehind, CInt, locals
<1> QED BY <1>1, <1>2, <1>3, <1>4 DEF IInv

\* A message begins: it meets another, or is the only one.
LEMMA MessageEnterIInv ==
  ASSUME IInv, NEW u \in User, NEW count \in 0 .. BufferSize, MessageEnter(u, count)
  PROVE  IInv'
<1> USE DEF loading
<1>1. count \in Cell
  BY BoundsAssumption DEF MessageEnter, Fits, Cell
<1>2. CallsHaveFiles'
  BY EnterHasFile DEF MessageEnter, IInv, File
<1>3. TypeOK'
  BY <1>1 DEF MessageEnter, Enter, Step, IInv, TypeOK, File, Cell, pdata
<1>4. EntriesCounted' /\ LoadsBehind'
  BY DEF MessageEnter, Enter, Step, IInv, TypeOK, EntriesCounted, LoadsBehind, pdata
<1>5. CopiesFit'
  BY <1>1 DEF MessageEnter, Enter, Step, IInv, TypeOK, CopiesFit, Cell, pdata
<1>6. LoneCopy'
  <2>1. CASE \E w \in InFile("message") : pc[w] = "copy"
    BY <2>1 DEF MessageEnter, LoneCopy
  <2>2. CASE ~\E w \in InFile("message") : pc[w] = "copy"
    <3>1. whole' = <<u, count>>
      BY <2>2 DEF MessageEnter
    <3>2. \A w \in User : pc'[w] = "copy" => w = u
      BY <2>2 DEF MessageEnter, Enter, Step, InFile, IInv, TypeOK, CopiesFit
    <3>3. pc'[u] = "copy" /\ n'[u] = count /\ pos'[u] = 0
      BY DEF MessageEnter, Enter, Step, IInv, TypeOK, CopiesFit
    <3> QED BY <1>1, <3>1, <3>2, <3>3 DEF LoneCopy
  <2> QED BY <2>1, <2>2
<1> QED BY <1>2, <1>3, <1>4, <1>5, <1>6 DEF IInv

\* A byte arrives, below the last of the buffer.
LEMMA CopyByteIInv ==
  ASSUME IInv, NEW u \in User, CopyByte(u)
  PROVE  IInv'
<1> USE DEF loading
<1>1. /\ pc[u] = "copy" /\ pc' = pc
      /\ n[u] \in Cell /\ pos[u] \in 0 .. n[u] - 1 /\ pos[u] \in Cell
      /\ pos[u] # BufferSize - 1
  BY BoundsAssumption DEF CopyByte, Step, IInv, TypeOK, CopiesFit, Cell
<1>2. CallsHaveFiles'
  BY <1>1 DEF CopyByte, IInv, CallsHaveFiles
<1>3. TypeOK'
  BY <1>1, BoundsAssumption DEF CopyByte, IInv, TypeOK, Cell
<1>4. EntriesCounted' /\ LoadsBehind'
  BY <1>1 DEF CopyByte, IInv, EntriesCounted, LoadsBehind, history
<1>5. CopiesFit'
  BY <1>1, BoundsAssumption DEF CopyByte, IInv, TypeOK, CopiesFit, Cell
<1>6. LoneCopy'
  <2> SUFFICES ASSUME whole # NUL
               PROVE  LoneCopy'
    BY DEF LoneCopy, CopyByte, history
  <2>1. PICK w \in User, count \in Cell :
          /\ whole = <<w, count>>
          /\ \A v \in User : pc[v] = "copy" =>
               v = w /\ n[v] = count /\ \A k \in 0 .. pos[v] - 1 : user_message[k] = w
    BY DEF IInv, LoneCopy
  <2>2. u = w /\ \A k \in 0 .. pos[u] - 1 : user_message[k] = w
    BY <1>1, <2>1
  <2>3. ASSUME NEW k \in 0 .. pos'[u] - 1
        PROVE  user_message'[k] = w
    <3>1. pos'[u] = pos[u] + 1 /\ k \in Cell
      BY <1>1, <2>3, BoundsAssumption DEF CopyByte, IInv, TypeOK, Cell
    <3>2. k \in 0 .. pos[u] - 1 \/ k = pos[u]
      BY <1>1, <2>3, <3>1 DEF Cell
    <3> QED BY <1>1, <2>2, <3>1, <3>2 DEF CopyByte, IInv, TypeOK
  <2>4. UNCHANGED <<pc, n, whole>>
    BY <1>1 DEF CopyByte, history
  <2> QED BY <1>1, <2>1, <2>2, <2>3, <2>4 DEF LoneCopy
<1> QED BY <1>2, <1>3, <1>4, <1>5, <1>6 DEF IInv

\* A fault ends a copy with zeros, which end the message as well.
LEMMA CopyFaultIInv ==
  ASSUME IInv, NEW u \in User, CopyFault(u)
  PROVE  IInv'
<1> USE DEF loading
<1> USE BoundsAssumption
<1>1. CallsHaveFiles'
  BY StepHasFile DEF CopyFault, IInv
<1>2. TypeOK'
  <2>1. user_message' \in [Cell -> User \cup {Module, NUL}]
    BY DEF CopyFault, IInv, TypeOK
  <2> QED BY <2>1 DEF CopyFault, Step, IInv, TypeOK, locals
<1>3. EntriesCounted' /\ LoadsBehind'
  BY DEF CopyFault, Step, IInv, TypeOK, EntriesCounted, LoadsBehind, locals
<1>4. CopiesFit'
  <2>1. user_message'[BufferSize - 1] = NUL
    BY DEF CopyFault, IInv, CopiesFit, Cell
  <2> QED BY <2>1 DEF CopyFault, Step, IInv, TypeOK, CopiesFit, locals
<1>5. LoneCopy'
  BY DEF CopyFault, LoneCopy
<1> QED BY <1>1, <1>2, <1>3, <1>4, <1>5 DEF IInv

\* The terminator follows the last byte, and within the buffer.
LEMMA TerminateIInv ==
  ASSUME IInv, NEW u \in User, Terminate(u)
  PROVE  IInv'
<1> USE DEF loading
<1> USE BoundsAssumption
<1>1. /\ pc[u] = "copy" /\ pc' = [pc EXCEPT ![u] = "return"]
      /\ n[u] \in Cell /\ pos[u] = n[u]
      /\ user_message' = [user_message EXCEPT ![n[u]] = NUL]
  BY DEF Terminate, Step, IInv, CopiesFit
<1>2. CallsHaveFiles'
  BY StepHasFile DEF Terminate, IInv
<1>3. TypeOK'
  BY <1>1 DEF Terminate, IInv, TypeOK, locals
<1>4. EntriesCounted' /\ LoadsBehind'
  BY <1>1 DEF Terminate, IInv, TypeOK, EntriesCounted, LoadsBehind, locals, history
<1>5. CopiesFit'
  BY <1>1 DEF Terminate, IInv, TypeOK, CopiesFit, Cell, locals
<1>6. LoneCopy'
  <2> SUFFICES ASSUME whole # NUL
               PROVE  LoneCopy'
    BY DEF LoneCopy, Terminate, history
  <2>1. PICK w \in User, count \in Cell :
          /\ whole = <<w, count>>
          /\ \A v \in User : pc[v] = "copy" =>
               v = w /\ n[v] = count /\ \A k \in 0 .. pos[v] - 1 : user_message[k] = w
    BY DEF IInv, LoneCopy
  <2>2. u = w /\ n[u] = count /\ \A k \in 0 .. count - 1 : user_message[k] = w
    BY <1>1, <2>1
  <2>3. \A v \in User : pc'[v] # "copy"
    BY <1>1, <2>1, <2>2 DEF IInv, TypeOK
  <2>4. user_message'[count] = NUL /\ \A k \in 0 .. count - 1 : user_message'[k] = w
    BY <1>1, <2>2 DEF IInv, TypeOK, Cell
  <2>5. whole' = whole
    BY DEF Terminate, history
  <2> QED BY <2>1, <2>3, <2>4, <2>5 DEF LoneCopy
<1> QED BY <1>2, <1>3, <1>4, <1>5, <1>6 DEF IInv

-----------------------------------------------------------------------------
(* Load and unload.                                                        *)

\* Nothing but the entries and the phase changes, so that it is enough to
\* know what becomes of them.
LEMMA EntriesOnly ==
  ASSUME IInv, UNCHANGED <<pdata, pc, file, locals, history>>,
         phase' \in {"loading", "live", "undo", "exit", "failed", "unloaded"},
         entries' \subseteq Entry, at' \in 0 .. Len(Order), EntriesCounted', CallsHaveFiles'
  PROVE  IInv'
<1>1. TypeOK'
  BY DEF IInv, TypeOK, pdata, locals
<1>2. CopiesFit' /\ LoadsBehind' /\ LoneCopy'
  BY DEF IInv, CopiesFit, LoadsBehind, LoneCopy, pdata, locals, history
<1> QED BY <1>1, <1>2 DEF IInv

LEMMA CreateIInv == IInv /\ Create => IInv'
<1> SUFFICES ASSUME IInv, Create PROVE IInv'
  OBVIOUS
<1> USE EntriesDiffer
<1>1. at \in 0 .. 4 /\ at' = at + 1 /\ entries' = entries \cup {Order[at + 1]}
  BY DEF Create, IInv, TypeOK, EntriesCounted
<1>2. /\ phase' \in {"loading", "live"}
      /\ phase' = "loading" => at' < Len(Order)
      /\ phase' = "live" => at' = Len(Order)
  BY <1>1 DEF Create
<1>3. entries' = {Order[k] : k \in 1 .. at'}
  BY <1>1 DEF IInv, EntriesCounted
<1>4. UNCHANGED <<pdata, pc, file, locals, history>>
  BY DEF Create
<1>5. EntriesCounted' /\ CallsHaveFiles'
  BY <1>1, <1>2, <1>3, <1>4 DEF IInv, EntriesCounted, CallsHaveFiles
<1>6. entries' \subseteq Entry
  BY <1>1 DEF IInv, TypeOK
<1> QED BY <1>1, <1>2, <1>4, <1>5, <1>6, EntriesOnly

\* Each label begins with the entry that was made last.
LEMMA CreateFailsIInv == IInv /\ CreateFails => IInv'
<1> SUFFICES ASSUME IInv, CreateFails PROVE IInv'
  OBVIOUS
<1> USE EntriesDiffer
<1>1. at \in 0 .. 4 /\ at' = at
  BY DEF CreateFails, Cleanup, IInv, TypeOK, EntriesCounted
<1>2. UNCHANGED <<entries, pdata, pc, file, locals, history>>
  BY DEF CreateFails
<1>3. phase' = IF at' = 0 THEN "failed" ELSE "undo"
  BY DEF CreateFails
<1>4. EntriesCounted' /\ CallsHaveFiles'
  BY <1>1, <1>2, <1>3 DEF IInv, EntriesCounted, CallsHaveFiles
<1>5. entries' \subseteq Entry
  BY <1>2 DEF IInv, TypeOK
<1> QED BY <1>1, <1>2, <1>3, <1>4, <1>5, EntriesOnly

LEMMA ExitIInv == IInv /\ Exit => IInv'
<1> SUFFICES ASSUME IInv, Exit PROVE IInv'
  OBVIOUS
<1> USE EntriesDiffer
<1>1. UNCHANGED <<entries, at, pdata, pc, file, locals, history>> /\ phase' = "exit"
  BY DEF Exit
<1>2. EntriesCounted' /\ CallsHaveFiles'
  BY <1>1 DEF Exit, IInv, EntriesCounted, CallsHaveFiles
<1> QED BY <1>1, <1>2, EntriesOnly DEF IInv, TypeOK

\* proc_remove has waited for the users of the youngest entry, and those of
\* the others keep theirs; what comes last is the directory, empty by then.
LEMMA RemoveEntryIInv == IInv /\ RemoveEntry => IInv'
<1> SUFFICES ASSUME IInv, RemoveEntry PROVE IInv'
  OBVIOUS
<1> USE EntriesDiffer
<1>1. at \in 1 .. 5 /\ at' = at - 1 /\ entries = {Order[k] : k \in 1 .. at}
  BY DEF RemoveEntry, IInv, TypeOK, EntriesCounted
<1>2. entries' = entries \ {Order[at]}
  <2>1. CASE at = 1
    BY <1>1, <2>1 DEF RemoveEntry, Below, Entry
  <2>2. CASE at # 1
    BY <1>1, <2>2 DEF RemoveEntry, Below
  <2> QED BY <2>1, <2>2
<1>3. entries' = {Order[k] : k \in 1 .. at'}
  BY <1>1, <1>2
<1>4. /\ phase' \in {"undo", "exit", "failed", "unloaded"}
      /\ phase' \in {"undo", "exit"} => at' > 0
      /\ phase' \in {"failed", "unloaded"} => at' = 0
  BY <1>1 DEF RemoveEntry
<1>5. UNCHANGED <<pdata, pc, file, locals, history>>
  BY DEF RemoveEntry
<1>6. CallsHaveFiles'
  <2> SUFFICES ASSUME NEW u \in User, pc[u] # "idle"
               PROVE  file[u] \in entries'
    BY <1>5 DEF CallsHaveFiles
  <2>1. file[u] \in entries /\ file[u] \in File
    BY DEF IInv, TypeOK, CallsHaveFiles
  <2>2. file[u] # Order[at]
    <3>1. Order[at] \in Below(Order[at])
      BY <1>1 DEF Below
    <3> QED BY <2>1, <3>1 DEF RemoveEntry, InFile
  <2> QED BY <1>2, <2>1, <2>2
<1>7. EntriesCounted'
  BY <1>1, <1>3, <1>4 DEF EntriesCounted
<1>8. entries' \subseteq Entry
  BY <1>2 DEF IInv, TypeOK
<1> QED BY <1>1, <1>4, <1>5, <1>6, <1>7, <1>8, EntriesOnly

LEMMA NextIInv == IInv /\ [Next]_vars => IInv'
<1> SUFFICES ASSUME IInv, [Next]_vars PROVE IInv'
  OBVIOUS
<1>1. ASSUME NEW u \in User, Counter(u) \/ Message(u) \/ Return(u)
      PROVE  IInv'
  BY <1>1, CounterLoadIInv, CounterStoreIInv, CounterWriteIInv, CopyByteIInv,
     CopyFaultIInv, TerminateIInv, ReturnIInv DEF Counter, Message
<1>2. CASE \E u \in User, g \in File : Show(u, g)
  BY <1>2, ShowIInv
<1>3. CASE \E u \in User, count \in 0 .. BufferSize : MessageEnter(u, count)
  BY <1>3, MessageEnterIInv
<1>4. CASE Create \/ CreateFails \/ Exit \/ RemoveEntry
  BY <1>4, CreateIInv, CreateFailsIInv, ExitIInv, RemoveEntryIInv
<1>5. CASE Gone \/ UNCHANGED vars
  <2>1. UNCHANGED <<pdata, pc, file, locals, history, phase, entries, at>>
    BY <1>5 DEF Gone, vars, loading
  <2>2. EntriesCounted' /\ CallsHaveFiles'
    BY <2>1 DEF IInv, EntriesCounted, CallsHaveFiles
  <2> QED BY <2>1, <2>2, EntriesOnly DEF IInv, TypeOK
<1> QED BY <1>1, <1>2, <1>3, <1>4, <1>5 DEF Next

LEMMA IInvAlways == Spec => []IInv
BY InitIInv, NextIInv, PTL DEF Spec

-----------------------------------------------------------------------------
(* Theorems.                                                               *)

\* Every variable keeps its type; the counter is an int, whoever shows it.
THEOREM TypeCorrect == Spec => []TypeOK
BY IInvAlways, PTL DEF IInv

\* A load that fails, at whichever entry, and an unload take back every entry,
\* the directory last, and nobody is left inside.
THEOREM AlwaysRemovedOnceAndAll == Spec => []RemovedOnceAndAll
<1>1. IInv => RemovedOnceAndAll
  <2> SUFFICES ASSUME IInv PROVE RemovedOnceAndAll
    OBVIOUS
  <2>1. /\ at \in 0 .. 5 /\ entries = {Order[k] : k \in 1 .. at}
        /\ phase \in {"undo", "exit"} => at > 0
        /\ phase \in {"failed", "unloaded"} => at = 0
    BY EntriesDiffer DEF IInv, TypeOK, EntriesCounted
  <2>2. phase \in {"failed", "unloaded"} => entries = {} /\ \A u \in User : pc[u] = "idle"
    BY <2>1 DEF IInv, CallsHaveFiles
  <2>3. phase \in {"undo", "exit"} => Order[at] \in entries
    BY <2>1
  <2> QED BY <2>2, <2>3 DEF RemovedOnceAndAll
<1> QED BY <1>1, IInvAlways, PTL

\* The message has an end in its buffer, whatever writes and faults mix.
THEOREM MessageAlwaysTerminated == Spec => []MessageTerminated
<1>1. IInv => MessageTerminated
  <2> SUFFICES ASSUME IInv PROVE MessageTerminated
    OBVIOUS
  <2>1. BufferSize - 1 \in Cell /\ user_message[BufferSize - 1] = NUL
    BY BoundsAssumption DEF IInv, CopiesFit, Cell
  <2> QED BY <2>1 DEF MessageTerminated
<1> QED BY <1>1, IInvAlways, PTL

\* A write that met no other and no fault has left its message whole.
THEOREM MessageAlwaysWhole == Spec => []MessageWhole
<1>1. IInv => MessageWhole
  BY DEF IInv, LoneCopy, MessageWhole
<1> QED BY <1>1, IInvAlways, PTL

\* No show is counted twice.
THEOREM CounterNeverGetsAhead == Spec => []CounterNeverAhead
<1>1. IInv => CounterNeverAhead
  BY DEF IInv, LoadsBehind, CounterNeverAhead
<1> QED BY <1>1, IInvAlways, PTL

=============================================================================
