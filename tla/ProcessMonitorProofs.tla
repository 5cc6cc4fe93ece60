------------------------ MODULE ProcessMonitorProofs ------------------------
(***************************************************************************)
(* The safety of ProcessMonitor for every number of processes, records and *)
(* list places, every clock and every width of unsigned long, and that it  *)
(* implements RecordLog.                                                   *)
(*                                                                         *)
(* IInv is about memory, and the invariants of its parts need each other;  *)
(* the order of exits and the accounts follow step by step from what a     *)
(* step of the monitor does to the log and to the counters together.       *)
(***************************************************************************)
EXTENDS ProcessMonitor, ListLemmas

-----------------------------------------------------------------------------
(* The statistics.                                                         *)

\* What an unsigned long can be is what the three operations on one return.
LEMMA ULongTyped ==
  /\ \A n \in ULong : Incr(n) \in ULong /\ Decr(n) \in ULong
  /\ \A n \in Nat : Wrap(n) \in ULong
<1>1. \A n \in ULong : Incr(n) \in ULong /\ Decr(n) \in ULong
  BY ULongMaxAssumption DEF ULong, Incr, Decr
<1>2. \A n \in Nat : Wrap(n) \in ULong
  BY ULongMaxAssumption DEF ULong, Wrap
<1> QED BY <1>1, <1>2

\* The statistics stay unsigned longs.
LEMMA CountStatsTyped ==
  ASSUME NEW s \in CountStats
  PROVE  CountCreate(s) \in CountStats /\ CountExit(s) \in CountStats
<1>1. /\ s.total_processes_created \in ULong
      /\ s.total_processes_exited \in ULong
      /\ s.current_processes \in ULong
      /\ s.peak_processes \in ULong
  BY DEF CountStats
<1>2. CountCreate(s) \in CountStats
  BY <1>1, ULongTyped DEF CountStats, CountCreate
<1>3. CountExit(s) \in CountStats
  BY <1>1, ULongTyped DEF CountStats, CountExit
<1> QED BY <1>2, <1>3

-----------------------------------------------------------------------------
(* The inductive invariant.                                                *)

\* The handlers that have a record and have not inserted it yet.
Inserters == InHandler({"add"})

\* In these phases no fork handler is left, and in the last one no record.
Drained ==
  /\ phase \in {"loading", "created", "cleanup", "failed", "exit_exit",
                "exit_proc", "exit_free", "unloaded"} => Inserters = {}
  /\ phase = "unloaded" => process_list = <<>>

\* A record that a handler has filled in is RUNNING until it is linked: only
\* a listed record is marked.
FilledRunning == \A p \in Inserters : heap[ptr[p]].status = RUNNING

\* No record starts in the future.
StartedBefore == \A r \in Allocated : heap[r].start_time <= jiffies

\* Each is needed by the others.
IInv == TypeOK /\ RecordsOwnedOnce /\ Drained /\ FilledRunning /\ StartedBefore

-----------------------------------------------------------------------------

\* The module starts with no record, no count and no handler running.
LEMMA InitIInv == Init => IInv
<1> SUFFICES ASSUME Init PROVE IInv
  OBVIOUS
<1>1. <<>> \in Seq(Rec) /\ Len(<<>>) = 0 /\ Range(<<>>) = {} /\ IsInjective(<<>>)
  BY DEF Range, IsInjective
<1>2. ZeroCountStats \in CountStats
  BY ULongMaxAssumption DEF ZeroCountStats, CountStats, ULong
<1>3. Allocated = {} /\ heap \in [Allocated -> Record]
  BY DEF Init, Allocated
<1>4. TypeOK
  <2>1. phase \in Phase /\ jiffies \in Time /\ record_count \in 0 .. MaxRecords
    BY BoundsAssumption DEF Init, Phase, Time
  <2>2. pc \in [Pid -> Handler] /\ ptr \in [Pid -> Rec \cup {NoRec}]
    BY DEF Init, Handler
  <2> QED BY <1>1, <1>2, <1>3, <2>1, <2>2 DEF Init, TypeOK
<1>5. Inserters = {} /\ Filled = {}
  BY DEF Init, Inserters, InHandler, Filled
<1>6. RecordsOwnedOnce
  BY <1>1, <1>3, <1>5 DEF Init, RecordsOwnedOnce, Inserters
<1>7. Drained /\ FilledRunning /\ StartedBefore
  BY <1>3, <1>5 DEF Init, Drained, FilledRunning, StartedBefore
<1> QED BY <1>4, <1>6, <1>7 DEF IInv

\* Who owns what does not change when no record moves and no handler fills
\* one in or hands one over.
LEMMA OwnershipFrame ==
  ASSUME RecordsOwnedOnce,
         UNCHANGED <<process_list, record_count, ptr>>, Allocated' = Allocated,
         phase' # "unloaded" => phase # "unloaded",
         Inserters' = Inserters
  PROVE  RecordsOwnedOnce'
<1>1. Filled' = Filled
  BY DEF Filled, Inserters
<1> QED BY <1>1 DEF RecordsOwnedOnce, Inserters

-----------------------------------------------------------------------------

\* kmalloc hands the record to the handler that fills it in.
LEMMA ForkEnterIInv ==
  ASSUME IInv, NEW p \in Pid, ForkEnter(p)
  PROVE  IInv'
<1> USE DEF IInv
<1>1. PICK r \in Rec \ Allocated :
        /\ Kmalloc(r, NewRecord(p))
        /\ ptr' = [ptr EXCEPT ![p] = r]
  BY DEF ForkEnter
<1>2. /\ ForkProbed /\ pc[p] = "user"
      /\ pc' = [pc EXCEPT ![p] = "add"]
      /\ UNCHANGED <<phase, process_list, record_count, stats, jiffies>>
  BY DEF ForkEnter
<1>3. /\ NewRecord(p) \in Record
      /\ NewRecord(p).start_time = jiffies
      /\ NewRecord(p).status = RUNNING
  BY BoundsAssumption DEF TypeOK, NewRecord, Record, Time, RUNNING, EXITED
<1>4. /\ Allocated' = Allocated \cup {r}
      /\ heap' \in [Allocated' -> Record]
      /\ heap'[r] = NewRecord(p)
      /\ \A x \in Allocated : heap'[x] = heap[x]
  BY <1>1, <1>3 DEF Kmalloc, Allocated, TypeOK
<1>5. pc' \in [Pid -> Handler] /\ ptr' \in [Pid -> Rec \cup {NoRec}]
  BY <1>1, <1>2 DEF TypeOK, Handler
<1>6. TypeOK'
  BY <1>1, <1>2, <1>4, <1>5 DEF TypeOK
<1>7. Inserters' = Inserters \cup {p} /\ p \notin Inserters
  BY <1>2 DEF TypeOK, Inserters, InHandler
<1>8. ptr'[p] = r /\ \A q \in Inserters : ptr'[q] = ptr[q]
  BY <1>1, <1>7 DEF TypeOK, Inserters, InHandler
<1>9. Filled' = Filled \cup {r}
  BY <1>7, <1>8 DEF Filled, Inserters
<1>10. \A q \in Inserters : ptr[q] \in Filled /\ ptr[q] \in Allocated
  BY DEF Filled, Inserters, RecordsOwnedOnce
<1>11. RecordsOwnedOnce'
  <2>1. r \notin Filled /\ r \notin Range(process_list)
    BY <1>1 DEF RecordsOwnedOnce
  <2>2. \A q1, q2 \in Inserters' : ptr'[q1] = ptr'[q2] => q1 = q2
    BY <1>1, <1>7, <1>8, <1>10 DEF RecordsOwnedOnce, Inserters
  <2> QED BY <1>2, <1>4, <1>9, <2>1, <2>2 DEF RecordsOwnedOnce, Inserters
<1>12. Drained'
  BY <1>2, <1>7 DEF Drained, ForkProbed
<1>13. FilledRunning'
  BY <1>3, <1>4, <1>7, <1>8, <1>10 DEF FilledRunning
<1>14. StartedBefore'
  <2>1. jiffies \in Int
    BY BoundsAssumption DEF TypeOK, Time
  <2> QED BY <1>2, <1>3, <1>4, <2>1 DEF StartedBefore
<1> QED BY <1>6, <1>11, <1>12, <1>13, <1>14

\* What is true when a handler enters the critical section of an insertion:
\* it owns its record, and nobody does once it has returned.
LEMMA HandOver ==
  ASSUME IInv, NEW p \in Pid, AddRecord(p)
  PROVE  /\ phase # "unloaded" /\ record_count = Len(process_list)
         /\ process_list \in Seq(Rec) /\ IsInjective(process_list)
         /\ ptr[p] \in Rec /\ ptr[p] \in Allocated /\ ptr[p] \notin Range(process_list)
         /\ heap[ptr[p]] \in Record /\ heap[ptr[p]].status = RUNNING
         /\ p \in Inserters /\ Inserters' = Inserters \ {p}
         /\ Filled' = Filled \ {ptr[p]}
         /\ \A q \in Inserters' : ptr'[q] = ptr[q]
<1> USE DEF IInv
<1>1. /\ pc[p] = "add"
      /\ pc' = [pc EXCEPT ![p] = "user"]
      /\ ptr' = [ptr EXCEPT ![p] = NoRec]
  BY DEF AddRecord
<1>2. p \in Inserters /\ Inserters' = Inserters \ {p}
  BY <1>1 DEF TypeOK, Inserters, InHandler
<1>3. phase # "unloaded"
  BY <1>2 DEF Drained
<1>4. ptr[p] \in Filled
  BY <1>2 DEF Filled, Inserters
<1>5. ptr[p] \in Allocated /\ ptr[p] \notin Range(process_list) /\ ptr[p] \in Rec
  BY <1>4 DEF RecordsOwnedOnce, TypeOK
<1>6. heap[ptr[p]] \in Record /\ heap[ptr[p]].status = RUNNING
  BY <1>2, <1>5 DEF FilledRunning, TypeOK
<1>7. \A q \in Inserters' : ptr'[q] = ptr[q]
  BY <1>1, <1>2 DEF TypeOK, Inserters, InHandler
<1>8. Filled' = Filled \ {ptr[p]}
  BY <1>2, <1>7 DEF Filled, RecordsOwnedOnce, Inserters
<1>9. record_count = Len(process_list) /\ process_list \in Seq(Rec) /\ IsInjective(process_list)
  BY <1>3 DEF RecordsOwnedOnce, TypeOK
<1> QED BY <1>2, <1>3, <1>5, <1>6, <1>7, <1>8, <1>9

\* The critical section of add_process_record, with and without eviction.
LEMMA AddRecordIInv ==
  ASSUME IInv, NEW p \in Pid, AddRecord(p)
  PROVE  IInv'
<1> USE DEF IInv
<1> DEFINE r == ptr[p]
<1>1. /\ InsertWithRoom(r) \/ InsertEvictingOldest(r)
      /\ stats' = CountCreate(stats)
      /\ pc' = [pc EXCEPT ![p] = "user"]
      /\ ptr' = [ptr EXCEPT ![p] = NoRec]
      /\ UNCHANGED <<phase, jiffies>>
  BY DEF AddRecord
<1>2. /\ phase # "unloaded" /\ record_count = Len(process_list)
      /\ process_list \in Seq(Rec) /\ IsInjective(process_list)
      /\ r \in Rec /\ r \in Allocated /\ r \notin Range(process_list)
      /\ Inserters' = Inserters \ {p}
      /\ Filled' = Filled \ {r}
      /\ \A q \in Inserters' : ptr'[q] = ptr[q]
  BY HandOver
<1>3. /\ stats' \in CountStats
      /\ pc' \in [Pid -> Handler]
      /\ ptr' \in [Pid -> Rec \cup {NoRec}]
  BY <1>1, CountStatsTyped DEF TypeOK, Handler
<1>4. Drained'
  BY <1>1, <1>2 DEF Drained
<1>5. \A q1, q2 \in Inserters' : ptr'[q1] = ptr'[q2] => q1 = q2
  BY <1>2 DEF RecordsOwnedOnce, Inserters
<1>6. \A q \in Inserters' : /\ ptr[q] \in Allocated
                            /\ ptr[q] \notin Range(process_list)
                            /\ heap[ptr[q]].status = RUNNING
  BY <1>2 DEF Filled, Inserters, RecordsOwnedOnce, FilledRunning
<1> HIDE DEF r
<1>7. CASE InsertWithRoom(r)
  <2>1. /\ record_count < MaxRecords
        /\ process_list' = Append(process_list, r)
        /\ record_count' = record_count + 1
        /\ heap' = heap /\ Allocated' = Allocated
    BY <1>7 DEF InsertWithRoom, Allocated
  <2>2. /\ process_list' \in Seq(Rec)
        /\ Len(process_list') = Len(process_list) + 1
        /\ Range(process_list') = Range(process_list) \cup {r}
        /\ IsInjective(process_list')
    BY <1>2, <2>1, AppendProperties, AppendRange
  <2>3. TypeOK'
    <3>1. record_count' \in 0 .. MaxRecords
      BY <2>1, BoundsAssumption DEF TypeOK
    <3> QED BY <1>1, <1>3, <2>1, <2>2, <3>1 DEF TypeOK
  <2>4. RecordsOwnedOnce'
    <3>1. Allocated' = Range(process_list') \cup Filled'
      BY <1>2, <2>1, <2>2 DEF RecordsOwnedOnce
    <3>2. Range(process_list') \cap Filled' = {}
      BY <1>2, <2>2 DEF RecordsOwnedOnce
    <3> QED BY <1>2, <1>5, <2>1, <2>2, <3>1, <3>2 DEF RecordsOwnedOnce, Inserters
  <2>5. FilledRunning' /\ StartedBefore'
    BY <1>1, <1>2, <1>6, <2>1 DEF FilledRunning, StartedBefore
  <2> QED BY <1>4, <2>3, <2>4, <2>5
<1>8. CASE InsertEvictingOldest(r)
  <2> DEFINE oldest == Head(process_list)
             kept == Tail(process_list)
  <2>1. /\ record_count >= MaxRecords
        /\ process_list' = Append(kept, r)
        /\ record_count' = record_count
        /\ heap' = [x \in Allocated \ {oldest} |-> heap[x]]
    BY <1>8 DEF InsertEvictingOldest, Kfree
  <2>2. process_list # <<>>
    BY <1>2, <2>1, BoundsAssumption
  <2>3. /\ kept \in Seq(Rec)
        /\ Len(kept) = Len(process_list) - 1
        /\ oldest \in Range(process_list)
        /\ Range(kept) = Range(process_list) \ {oldest}
        /\ IsInjective(kept)
    BY <1>2, <2>2, HeadTailProperties, TailRange
  <2> HIDE DEF oldest, kept
  <2>4. /\ process_list' \in Seq(Rec)
        /\ Len(process_list') = Len(kept) + 1
        /\ Range(process_list') = Range(kept) \cup {r}
        /\ IsInjective(process_list')
    BY <1>2, <2>1, <2>3, AppendProperties, AppendRange
  <2>5. Allocated' = Allocated \ {oldest} /\ heap' \in [Allocated' -> Record]
    BY <2>1 DEF Allocated, TypeOK
  <2>6. record_count' = Len(process_list')
    <3>1. Len(process_list) \in Nat
      BY <1>2, LenProperties
    <3> QED BY <1>2, <2>1, <2>3, <2>4, <3>1
  <2>7. TypeOK'
    BY <1>1, <1>3, <2>1, <2>4, <2>5 DEF TypeOK
  <2>8. RecordsOwnedOnce'
    <3>1. Allocated' = Range(process_list') \cup Filled'
      BY <1>2, <2>3, <2>4, <2>5 DEF RecordsOwnedOnce
    <3>2. Range(process_list') \cap Filled' = {}
      BY <1>2, <2>3, <2>4 DEF RecordsOwnedOnce
    <3> QED BY <1>5, <2>4, <2>6, <3>1, <3>2 DEF RecordsOwnedOnce, Inserters
  <2>9. FilledRunning'
    BY <1>2, <1>6, <2>1, <2>3 DEF FilledRunning
  <2>10. StartedBefore'
    BY <1>1, <2>1, <2>5 DEF StartedBefore
  <2> QED BY <1>4, <2>7, <2>8, <2>9, <2>10
<1> QED BY <1>1, <1>7, <1>8 DEF r

\* What a mark does to the memory: one listed record is EXITED now.
LEMMA MarkOldestHeap ==
  ASSUME IInv, NEW p \in Pid, MarkOldest(p)
  PROVE  /\ Allocated' = Allocated
         /\ heap' \in [Allocated -> Record]
         /\ \A x \in Allocated : heap'[x].start_time = heap[x].start_time
         /\ \A x \in Allocated \ Range(process_list) : heap'[x] = heap[x]
         /\ stats' = CountExit(stats)
<1>1. PICK i \in RunningOf(p) :
        /\ heap' = [heap EXCEPT ![process_list[i]].status = EXITED,
                                ![process_list[i]].end_time = jiffies]
        /\ stats' = CountExit(stats)
  BY DEF MarkOldest
<1> DEFINE r == process_list[i]
<1>2. r \in Range(process_list) /\ r \in Allocated
  BY DEF RunningOf, Range, IInv, RecordsOwnedOnce
<1>3. heap \in [Allocated -> Record] /\ heap[r] \in Record /\ jiffies \in Time
  BY <1>2 DEF IInv, TypeOK
<1> HIDE DEF r
<1> DEFINE marked == [heap[r] EXCEPT !.status = EXITED, !.end_time = jiffies]
<1>4. marked \in Record /\ marked.start_time = heap[r].start_time
  BY <1>3 DEF Record, EXITED
<1>5. heap' = [heap EXCEPT ![r] = marked]
  BY <1>1, <1>2, <1>3 DEF r
<1> HIDE DEF marked
<1>6. heap' \in [Allocated -> Record] /\ Allocated' = Allocated
  BY <1>3, <1>4, <1>5 DEF Allocated
<1>7. \A x \in Allocated : heap'[x] = IF x = r THEN marked ELSE heap[x]
  BY <1>3, <1>5
<1>8. \A x \in Allocated : heap'[x].start_time = heap[x].start_time
  BY <1>4, <1>7
<1>9. \A x \in Allocated \ Range(process_list) : heap'[x] = heap[x]
  BY <1>2, <1>7
<1> QED BY <1>1, <1>6, <1>8, <1>9

\* The critical section of mark_process_exit.
LEMMA MarkExitIInv ==
  ASSUME IInv, NEW p \in Pid, MarkExit(p)
  PROVE  IInv'
<1> USE DEF IInv
<1>1. /\ pc[p] = "mark"
      /\ pc' = [pc EXCEPT ![p] = "exited"]
      /\ UNCHANGED <<phase, process_list, record_count, ptr, jiffies>>
  BY DEF MarkExit
<1>2. pc' \in [Pid -> Handler] /\ Inserters' = Inserters
  BY <1>1 DEF TypeOK, Inserters, InHandler, Handler
<1>3. /\ Allocated' = Allocated
      /\ heap' \in [Allocated -> Record]
      /\ \A x \in Allocated : heap'[x].start_time = heap[x].start_time
      /\ \A x \in Allocated \ Range(process_list) : heap'[x] = heap[x]
      /\ stats' \in CountStats
  <2>1. CASE MarkOldest(p)
    BY <2>1, MarkOldestHeap, CountStatsTyped DEF TypeOK
  <2>2. CASE UNCHANGED <<heap, stats>>
    BY <2>2 DEF Allocated, TypeOK
  <2> QED BY <2>1, <2>2 DEF MarkExit
<1>4. RecordsOwnedOnce'
  BY <1>1, <1>2, <1>3, OwnershipFrame
<1>5. TypeOK'
  BY <1>1, <1>2, <1>3 DEF TypeOK
<1>6. \A q \in Inserters : ptr[q] \in Allocated \ Range(process_list)
  BY DEF Inserters, Filled, RecordsOwnedOnce
<1>7. Drained' /\ FilledRunning' /\ StartedBefore'
  BY <1>1, <1>2, <1>3, <1>6 DEF Drained, FilledRunning, StartedBefore
<1> QED BY <1>4, <1>5, <1>7

\* A handler that enters the exit probe, and a pid that is used again, touch
\* no record.
LEMMA EnterAndReuseIInv ==
  ASSUME IInv, NEW p \in Pid, ExitEnter(p) \/ ReusePid(p)
  PROVE  IInv'
<1> USE DEF IInv
<1>1. /\ pc[p] \in {"user", "exited"}
      /\ pc' = [pc EXCEPT ![p] = "mark"] \/ pc' = [pc EXCEPT ![p] = "user"]
      /\ UNCHANGED <<phase, process_list, record_count, stats, heap, ptr, jiffies>>
  BY DEF ExitEnter, ReusePid
<1>2. pc' \in [Pid -> Handler] /\ Inserters' = Inserters
  BY <1>1 DEF TypeOK, Inserters, InHandler, Handler
<1>3. Allocated' = Allocated
  BY <1>1 DEF Allocated
<1>4. RecordsOwnedOnce'
  BY <1>1, <1>2, <1>3, OwnershipFrame
<1>5. TypeOK'
  BY <1>1, <1>2, <1>3 DEF TypeOK
<1>6. Drained' /\ FilledRunning' /\ StartedBefore'
  BY <1>1, <1>2, <1>3 DEF Drained, FilledRunning, StartedBefore
<1> QED BY <1>4, <1>5, <1>6

\* A clear, and the loop of the unload, free what the list holds.
LEMMA FreeListIInv ==
  ASSUME IInv, ClearRecords \/ FreeRecords
  PROVE  IInv'
<1> USE DEF IInv
<1>1. /\ heap' = [x \in Allocated \ Range(process_list) |-> heap[x]]
      /\ process_list' = <<>>
      /\ UNCHANGED <<pc, ptr, jiffies>>
      /\ \/ phase' = phase /\ FileExists /\ stats' = ZeroCountStats /\ record_count' = 0
         \/ /\ phase = "exit_free" /\ phase' = "unloaded"
            /\ UNCHANGED <<stats, record_count>>
  BY DEF ClearRecords, FreeRecords, Kfree
<1>2. <<>> \in Seq(Rec) /\ Len(<<>>) = 0 /\ Range(<<>>) = {} /\ IsInjective(<<>>)
  BY DEF Range, IsInjective
<1>3. /\ Allocated' = Allocated \ Range(process_list)
      /\ heap' \in [Allocated' -> Record]
      /\ \A x \in Allocated' : heap'[x] = heap[x]
  BY <1>1 DEF Allocated, TypeOK
<1>4. Inserters' = Inserters /\ Filled' = Filled
  BY <1>1 DEF Inserters, InHandler, Filled
<1>5. TypeOK'
  <2>1. ZeroCountStats \in CountStats
    BY ULongMaxAssumption DEF ZeroCountStats, CountStats, ULong
  <2>2. phase' \in Phase /\ stats' \in CountStats /\ record_count' \in 0 .. MaxRecords
    BY <1>1, <2>1, BoundsAssumption DEF TypeOK, Phase
  <2> QED BY <1>1, <1>2, <1>3, <2>2 DEF TypeOK
<1>6. RecordsOwnedOnce'
  <2>1. phase' # "unloaded" => record_count' = Len(process_list')
    BY <1>1, <1>2
  <2> QED BY <1>1, <1>2, <1>3, <1>4, <2>1 DEF RecordsOwnedOnce, Inserters
<1>7. Drained'
  BY <1>1, <1>4 DEF Drained, FileExists
<1>8. \A q \in Inserters : ptr[q] \in Allocated \ Range(process_list)
  BY DEF Inserters, Filled, RecordsOwnedOnce
<1>9. FilledRunning' /\ StartedBefore'
  BY <1>1, <1>3, <1>4, <1>8 DEF FilledRunning, StartedBefore
<1> QED BY <1>5, <1>6, <1>7, <1>9

\* A phase that ends with a wait begins the next one with no handler left.
LEMMA StepIInv ==
  ASSUME IInv, Load \/ Rmmod \/ (Unload /\ ~FreeRecords)
  PROVE  IInv'
<1> USE DEF IInv
<1>1. /\ UNCHANGED <<process_list, record_count, stats, heap, pc, ptr, jiffies>>
      /\ phase # "unloaded" /\ phase' \in Phase \ {"unloaded"}
  BY DEF Load, Rmmod, Unload, Step, Phase
<1>2. Allocated' = Allocated /\ Inserters' = Inserters
  BY <1>1 DEF Allocated, Inserters, InHandler
<1>3. RecordsOwnedOnce'
  BY <1>1, <1>2, OwnershipFrame
<1>4. TypeOK'
  BY <1>1, <1>2 DEF TypeOK
<1>5. Drained'
  BY <1>1, <1>2 DEF Drained, Load, Rmmod, Unload, Step, NoneIn, Inserters
<1>6. FilledRunning' /\ StartedBefore'
  BY <1>1, <1>2 DEF FilledRunning, StartedBefore
<1> QED BY <1>3, <1>4, <1>5, <1>6

\* Time only moves on.
LEMMA TickIInv ==
  ASSUME IInv, Tick
  PROVE  IInv'
<1> USE DEF IInv
<1>1. /\ jiffies' = jiffies + 1 /\ jiffies' \in Time /\ jiffies \in Time
      /\ UNCHANGED <<phase, process_list, record_count, stats, heap, pc, ptr>>
  BY BoundsAssumption DEF Tick, TypeOK, Time
<1>2. Allocated' = Allocated /\ Inserters' = Inserters
  BY <1>1 DEF Allocated, Inserters, InHandler
<1>3. RecordsOwnedOnce'
  BY <1>1, <1>2, OwnershipFrame
<1>4. TypeOK'
  BY <1>1, <1>2 DEF TypeOK
<1>5. Drained' /\ FilledRunning'
  BY <1>1, <1>2 DEF Drained, FilledRunning
<1>6. StartedBefore'
  <2>1. \A r \in Allocated : heap[r].start_time \in Time
    BY DEF TypeOK, Record
  <2> QED BY <1>1, <1>2, <2>1, BoundsAssumption DEF StartedBefore, Time
<1> QED BY <1>3, <1>4, <1>5, <1>6

\* A step that changes no variable.
LEMMA StutterIInv ==
  ASSUME IInv, UNCHANGED vars
  PROVE  IInv'
  BY DEF IInv, vars, TypeOK, RecordsOwnedOnce, Drained, FilledRunning, StartedBefore,
         Allocated, Filled, InHandler, Inserters

\* IInv is inductive.
LEMMA NextIInv == IInv /\ [Next]_vars => IInv'
<1> SUFFICES ASSUME IInv, [Next]_vars PROVE IInv'
  OBVIOUS
<1>1. ASSUME NEW p \in Pid,
             ForkEnter(p) \/ AddRecord(p) \/ ExitEnter(p) \/ MarkExit(p) \/ ReusePid(p)
      PROVE  IInv'
  BY <1>1, ForkEnterIInv, AddRecordIInv, MarkExitIInv, EnterAndReuseIInv
<1>2. CASE ClearRecords \/ FreeRecords
  BY <1>2, FreeListIInv
<1>3. CASE Load \/ Rmmod \/ Unload
  BY <1>2, <1>3, StepIInv
<1>4. CASE Tick
  BY <1>4, TickIInv
<1>5. CASE Gone \/ UNCHANGED vars
  BY <1>5, StutterIInv DEF Gone
<1> QED BY <1>1, <1>2, <1>3, <1>4, <1>5 DEF Next

\* IInv holds always; the theorems below read their part off it.
LEMMA AlwaysIInv == Spec => []IInv
  BY InitIInv, NextIInv, PTL DEF Spec

\* Every variable keeps its type: record_count stays within MaxRecords, the
\* counters are unsigned longs, and what a section reads is a record.
THEOREM TypeCorrect == Spec => []TypeOK
<1>1. IInv => TypeOK
  BY DEF IInv
<1> QED BY <1>1, AlwaysIInv, PTL

\* Every allocated record has one owner, and record_count is the length of
\* the list, whatever forks, exits, clears, failed loads and unloads
\* interleave.
THEOREM RecordsAlwaysOwnedOnce == Spec => []RecordsOwnedOnce
<1>1. IInv => RecordsOwnedOnce
  BY DEF IInv
<1> QED BY <1>1, AlwaysIInv, PTL

\* The unloaded module has freed every record.
THEOREM UnloadAlwaysFreesAll == Spec => []UnloadFreesAll
<1>1. IInv => UnloadFreesAll
  <2> SUFFICES ASSUME IInv, phase = "unloaded" PROVE Allocated = {}
    BY DEF UnloadFreesAll
  <2>1. Filled = {} /\ Range(process_list) = {}
    BY DEF IInv, Drained, Inserters, Filled, Range
  <2> QED BY <2>1 DEF IInv, RecordsOwnedOnce
<1> QED BY <1>1, AlwaysIInv, PTL

-----------------------------------------------------------------------------
(* What a step does to the log and to the counters, together.              *)

\* One record more, the creation counted, and its handler done.
Inserted ==
  /\ \E r \in Record : Log!Insert(r)
  /\ stats' = CountCreate(stats)
  /\ \E p \in Inserters : Inserters' = Inserters \ {p}

\* The oldest RUNNING record of its pid is EXITED now, and the exit counted.
Marked ==
  /\ \E i \in DOMAIN ListedRecords :
       /\ Log!MarkExited(i, jiffies)
       /\ \A j \in DOMAIN ListedRecords :
            /\ j < i
            /\ ListedRecords[j].pid = ListedRecords[i].pid
            => ListedRecords[j].status = EXITED
  /\ stats' = CountExit(stats)
  /\ Inserters' = Inserters

\* No record is left, and the counters are reset or stay as they were.
Emptied ==
  /\ ListedRecords' = <<>>
  /\ stats' \in {stats, ZeroCountStats}
  /\ Inserters' = Inserters

\* Neither log nor counters change; a handler that fills a record in did so
\* within the bound of the model.
Untouched ==
  /\ ListedRecords' = ListedRecords
  /\ stats' = stats
  /\ \/ Inserters' = Inserters
     \/ /\ stats.total_processes_created + Cardinality(Inserters) < MaxCreated
        /\ \E p \in Pid : Inserters' = Inserters \cup {p}

\* The log is a sequence of records, one for every place of the list.
LogShape ==
  /\ ListedRecords \in Seq(Record)
  /\ Len(ListedRecords) = Len(process_list)
  /\ DOMAIN ListedRecords = 1 .. Len(process_list)
  /\ DOMAIN process_list = 1 .. Len(process_list)
  /\ \A i \in 1 .. Len(process_list) :
       /\ process_list[i] \in Range(process_list)
       /\ process_list[i] \in Allocated
       /\ ListedRecords[i] = heap[process_list[i]]

\* Every listed record is allocated, so the log has that shape.
LEMMA ListedRecordsType == IInv => LogShape
<1> SUFFICES ASSUME IInv PROVE LogShape
  OBVIOUS
<1>1. /\ process_list \in Seq(Rec)
      /\ \A x \in Range(process_list) : x \in Allocated /\ heap[x] \in Record
  BY DEF IInv, TypeOK, RecordsOwnedOnce
<1>2. ListedRecords = Mapped(process_list, heap)
  BY DEF ListedRecords, Mapped
<1> QED BY <1>1, <1>2, MappedPlaces, MappedType, LenProperties DEF LogShape

\* The critical section of add_process_record is an Insert of the log.
LEMMA AddRecordInserts ==
  ASSUME IInv, NEW p \in Pid, AddRecord(p)
  PROVE  Inserted
<1> DEFINE r == ptr[p]
           list == process_list
<1>1. /\ record_count = Len(list) /\ list \in Seq(Rec) /\ IsInjective(list)
      /\ r \in Rec /\ r \in Allocated /\ r \notin Range(list)
      /\ heap[r] \in Record /\ heap[r].status = RUNNING
      /\ p \in Inserters /\ Inserters' = Inserters \ {p}
  BY HandOver
<1>2. \A x \in Range(list) : x \in Allocated /\ heap[x] \in Record
  BY DEF IInv, TypeOK, RecordsOwnedOnce
<1>3. /\ ListedRecords = Mapped(list, heap)
      /\ ListedRecords' = Mapped(list', heap')
      /\ Len(ListedRecords) = Len(list)
  BY ListedRecordsType DEF ListedRecords, Mapped, LogShape
<1> DEFINE kept == IF Len(ListedRecords) >= MaxRecords
                   THEN Tail(ListedRecords) ELSE ListedRecords
<1> HIDE DEF r, list
<1>4. ASSUME InsertWithRoom(r)
      PROVE  ListedRecords' = Append(kept, heap[r])
  <2>1. /\ ~(Len(list) >= MaxRecords)
        /\ list' = Append(list, r)
        /\ heap' = heap
    BY <1>1, <1>4, BoundsAssumption, LenProperties DEF InsertWithRoom, list
  <2>2. Mapped(Append(list, r), heap) = Append(Mapped(list, heap), heap[r])
    BY <1>1, MappedAppend
  <2> QED BY <1>3, <2>1, <2>2
<1>5. ASSUME InsertEvictingOldest(r)
      PROVE  ListedRecords' = Append(kept, heap[r])
  <2> DEFINE tail == Tail(list)
  <2>1. /\ Len(list) >= MaxRecords
        /\ list' = Append(tail, r)
        /\ heap' = [x \in Allocated \ {Head(list)} |-> heap[x]]
    BY <1>1, <1>5 DEF InsertEvictingOldest, Kfree, list
  <2>2. list # <<>>
    BY <1>1, <2>1, BoundsAssumption
  <2>3. /\ tail \in Seq(Rec)
        /\ Head(list) \in Range(list)
        /\ Range(tail) = Range(list) \ {Head(list)}
    BY <1>1, <2>2, HeadTailProperties, TailRange
  <2>4. Mapped(tail, heap) = Tail(Mapped(list, heap))
    BY <1>1, <2>2, MappedTail
  <2> HIDE DEF tail
  <2>5. \A x \in Range(tail) \cup {r} : heap'[x] = heap[x]
    BY <1>1, <1>2, <2>1, <2>3
  <2>6. Range(Append(tail, r)) = Range(tail) \cup {r}
    BY <1>1, <2>3, AppendRange
  <2>7. Mapped(list', heap') = Mapped(Append(tail, r), heap)
    BY <2>1, <2>5, <2>6, MappedFrame
  <2>8. Mapped(Append(tail, r), heap) = Append(Mapped(tail, heap), heap[r])
    BY <1>1, <2>3, MappedAppend
  <2> QED BY <1>3, <2>1, <2>4, <2>7, <2>8
<1>6. ListedRecords' = Append(kept, heap[r]) /\ stats' = CountCreate(stats)
  BY <1>4, <1>5 DEF AddRecord, r
<1>7. Log!Insert(heap[r])
  BY <1>1, <1>6 DEF Log!Insert, RUNNING, Log!RUNNING
<1> QED BY <1>1, <1>6, <1>7 DEF Inserted

\* The critical section of mark_process_exit marks one record of the log, or
\* none when the process has no RUNNING record.
LEMMA MarkExitMarks ==
  ASSUME IInv, NEW p \in Pid, MarkExit(p)
  PROVE  Marked \/ Untouched
<1> DEFINE list == process_list
           log == ListedRecords
<1>1. list' = list /\ jiffies \in Time /\ Inserters' = Inserters
  BY DEF MarkExit, Inserters, InHandler, IInv, TypeOK
<1>2. CASE UNCHANGED <<heap, stats>>
  BY <1>1, <1>2 DEF ListedRecords, Untouched
<1>3. CASE MarkOldest(p)
  <2>1. PICK i \in RunningOf(p) :
          /\ \A j \in RunningOf(p) : i <= j
          /\ heap' = [heap EXCEPT ![list[i]].status = EXITED,
                                  ![list[i]].end_time = jiffies]
          /\ stats' = CountExit(stats)
    BY <1>3 DEF MarkOldest
  <2>2. /\ DOMAIN log = 1 .. Len(list) /\ DOMAIN list = 1 .. Len(list)
        /\ \A j \in 1 .. Len(list) : list[j] \in Allocated /\ log[j] = heap[list[j]]
        /\ Len(list) \in Nat /\ IsInjective(list)
    BY ListedRecordsType, LenProperties DEF LogShape, IInv, RecordsOwnedOnce, TypeOK
  <2>3. /\ i \in 1 .. Len(list)
        /\ log[i].pid = p /\ log[i].status = RUNNING
        /\ \A j \in 1 .. Len(list) : j < i => ~(log[j].pid = p /\ log[j].status = RUNNING)
    BY <2>1, <2>2 DEF RunningOf, IsRunningOf
  <2>4. \A j \in 1 .. Len(list) : heap[list[j]] \in Record
    BY <2>2 DEF IInv, TypeOK
  <2>5. \A j \in 1 .. Len(list) : j < i /\ log[j].pid = log[i].pid => log[j].status = EXITED
    BY <2>2, <2>3, <2>4 DEF Record
  <2> DEFINE marked == [log[i] EXCEPT !.status = EXITED, !.end_time = jiffies]
  <2>6. log' = [log EXCEPT ![i] = marked]
    <3>1. DOMAIN log' = 1 .. Len(list) /\ \A j \in 1 .. Len(list) : log'[j] = heap'[list[j]]
      BY <1>1, <2>2 DEF ListedRecords
    <3>2. \A j \in 1 .. Len(list) : j # i => list[j] # list[i]
      BY <2>2, <2>3 DEF IsInjective
    <3>3. \A j \in 1 .. Len(list) : j # i => log'[j] = log[j]
      BY <2>1, <2>2, <3>1, <3>2 DEF Allocated
    <3>4. log'[i] = marked
      <4>1. log[i] = heap[list[i]] /\ list[i] \in Allocated
        BY <2>2, <2>3
      <4>2. heap' = [heap EXCEPT ![list[i]] =
                       [heap[list[i]] EXCEPT !.status = EXITED, !.end_time = jiffies]]
        BY <2>1, <2>3, <2>4, <4>1 DEF IInv, TypeOK, Record
      <4>3. heap'[list[i]] = [heap[list[i]] EXCEPT !.status = EXITED, !.end_time = jiffies]
        BY <4>1, <4>2 DEF Allocated
      <4> QED BY <2>3, <3>1, <4>1, <4>3
    <3>5. log' = [j \in 1 .. Len(list) |-> log'[j]]
      BY <1>1, <2>2 DEF ListedRecords
    <3>6. log = [j \in 1 .. Len(list) |-> log[j]]
      BY <2>2 DEF ListedRecords
    <3> HIDE DEF log, list, marked
    <3> QED BY <2>3, <3>3, <3>4, <3>5, <3>6
  <2>7. log' = [log EXCEPT ![i].status = EXITED, ![i].end_time = jiffies]
    BY <2>2, <2>3, <2>6
  <2>8. jiffies >= log[i].start_time
    BY <2>2, <2>3 DEF IInv, StartedBefore
  <2>9. Log!MarkExited(i, jiffies)
    BY <2>3, <2>7, <2>8 DEF Log!MarkExited, Log!RUNNING, Log!EXITED, RUNNING, EXITED
  <2> QED BY <1>1, <2>1, <2>2, <2>3, <2>5, <2>9 DEF Marked
<1> QED BY <1>2, <1>3 DEF MarkExit

\* Every step is one of the four.
LEMMA LogSteps ==
  IInv /\ [Next]_vars => Inserted \/ Marked \/ Emptied \/ Untouched
<1> SUFFICES ASSUME IInv, [Next]_vars PROVE Inserted \/ Marked \/ Emptied \/ Untouched
  OBVIOUS
<1>1. ASSUME NEW p \in Pid, ForkEnter(p)
      PROVE  Untouched
  <2>1. \A x \in Range(process_list) : heap'[x] = heap[x]
    BY <1>1 DEF ForkEnter, Kmalloc, Allocated, IInv, RecordsOwnedOnce
  <2>2. Inserters' = Inserters \cup {p}
    BY <1>1 DEF ForkEnter, Inserters, InHandler, IInv, TypeOK
  <2>3. ListedRecords' = ListedRecords
    <3>1. process_list' = process_list
      BY <1>1 DEF ForkEnter
    <3>2. Mapped(process_list, heap) = Mapped(process_list, heap')
      BY <2>1, MappedFrame
    <3> QED BY <3>1, <3>2 DEF ListedRecords, Mapped
  <2> QED BY <1>1, <2>2, <2>3 DEF ForkEnter, Untouched, Inserters
<1>2. ASSUME NEW p \in Pid, AddRecord(p)
      PROVE  Inserted
  BY <1>2, AddRecordInserts
<1>3. ASSUME NEW p \in Pid, MarkExit(p)
      PROVE  Marked \/ Untouched
  BY <1>3, MarkExitMarks
<1>4. CASE ClearRecords \/ FreeRecords
  <2>1. process_list' = <<>> /\ stats' \in {stats, ZeroCountStats} /\ pc' = pc
    BY <1>4 DEF ClearRecords, FreeRecords
  <2> QED BY <2>1 DEF Emptied, ListedRecords, Inserters, InHandler
<1>5. ASSUME NEW p \in Pid, ExitEnter(p) \/ ReusePid(p)
      PROVE  Untouched
  <2>1. Inserters' = Inserters
    BY <1>5 DEF ExitEnter, ReusePid, Inserters, InHandler, IInv, TypeOK
  <2> QED BY <1>5, <2>1 DEF ExitEnter, ReusePid, Untouched, ListedRecords
<1>6. ASSUME UNCHANGED <<process_list, heap, stats, pc>>
      PROVE  Untouched
  BY <1>6 DEF Untouched, ListedRecords, Inserters, InHandler
<1>7. ASSUME Load \/ Rmmod \/ (Unload /\ ~FreeRecords) \/ Tick \/ Gone \/ UNCHANGED vars
      PROVE  UNCHANGED <<process_list, heap, stats, pc>>
  BY <1>7 DEF Load, Rmmod, Unload, Step, Tick, Gone, vars
<1> QED BY <1>1, <1>2, <1>3, <1>4, <1>5, <1>6, <1>7 DEF Next

\* The list implements the bounded log: what it evicts is the oldest record,
\* what an exit changes is one RUNNING record, in place, and nothing else ever
\* changes a record.
THEOREM ListImplementsLog == Spec => ImplementsLog
<1>1. Init => Log!Init
  BY DEF Init, Log!Init, ListedRecords
<1>2. IInv /\ [Next]_vars => [Log!Next]_ListedRecords
  <2> SUFFICES ASSUME IInv, [Next]_vars
               PROVE  Log!Next \/ ListedRecords' = ListedRecords
    OBVIOUS
  <2>1. Record = Log!Record
    BY DEF Record, Log!Record, RUNNING, EXITED, Log!RUNNING, Log!EXITED
  <2>2. Inserted => Log!Next
    BY <2>1 DEF Inserted, Log!Next
  <2>3. Marked => Log!Next
    BY DEF Marked, Log!Next, IInv, TypeOK
  <2>4. Emptied => Log!Next
    BY DEF Emptied, Log!Next, Log!Clear
  <2> QED BY <2>2, <2>3, <2>4, LogSteps DEF Untouched
<1> QED BY <1>1, <1>2, AlwaysIInv, PTL DEF Spec, ImplementsLog, Log!Spec

-----------------------------------------------------------------------------
(* The order of the exits.                                                 *)

\* ExitsInForkOrder, said of a log.
InForkOrder(log) ==
  \A i, j \in DOMAIN log :
    i < j /\ log[i].pid = log[j].pid /\ log[j].status = EXITED => log[i].status = EXITED

\* A log keeps its order when its oldest record leaves and a RUNNING one
\* comes in.
LEMMA InsertKeepsOrder ==
  ASSUME NEW log \in Seq(Record), NEW r \in Record, r.status = RUNNING, InForkOrder(log)
  PROVE  /\ InForkOrder(Append(log, r))
         /\ log # <<>> => InForkOrder(Append(Tail(log), r))
<1>1. ASSUME NEW l \in Seq(Record), InForkOrder(l)
      PROVE  InForkOrder(Append(l, r))
  <2> DEFINE a == Append(l, r)
  <2>1. /\ Len(l) \in Nat /\ DOMAIN l = 1 .. Len(l)
        /\ DOMAIN a = 1 .. Len(l) + 1
        /\ \A i \in 1 .. Len(l) : a[i] = l[i]
        /\ a[Len(l) + 1] = r
    BY AppendProperties, LenProperties
  <2> HIDE DEF a
  <2> SUFFICES ASSUME NEW i \in DOMAIN a, NEW j \in DOMAIN a, i < j,
                      a[i].pid = a[j].pid, a[j].status = EXITED
               PROVE  a[i].status = EXITED
    BY DEF InForkOrder, a
  <2>2. j # Len(l) + 1
    BY <2>1 DEF RUNNING, EXITED
  <2>3. i \in DOMAIN l /\ j \in DOMAIN l
    BY <2>1, <2>2
  <2> QED BY <1>1, <2>1, <2>3 DEF InForkOrder
<1>2. ASSUME log # <<>>
      PROVE  InForkOrder(Tail(log)) /\ Tail(log) \in Seq(Record)
  <2> DEFINE t == Tail(log)
  <2>1. /\ Len(log) \in Nat /\ DOMAIN log = 1 .. Len(log)
        /\ t \in Seq(Record)
        /\ DOMAIN t = 1 .. Len(log) - 1
        /\ \A i \in 1 .. Len(log) - 1 : t[i] = log[i + 1]
    BY <1>2, HeadTailProperties, LenProperties
  <2> HIDE DEF t
  <2>2. \A i \in DOMAIN t : i + 1 \in DOMAIN log
    BY <2>1
  <2>3. \A i, j \in DOMAIN t : i < j => i + 1 < j + 1
    BY <2>1
  <2>4. InForkOrder(t)
    BY <2>1, <2>2, <2>3 DEF InForkOrder
  <2> QED BY <2>1, <2>4 DEF t
<1> QED BY <1>1, <1>2

\* An exit marks the oldest RUNNING record of its pid: of the records of one
\* pid those that are EXITED come first, pid reuse, evictions and clears
\* included.
THEOREM ExitsAlwaysInForkOrder == Spec => []ExitsInForkOrder
<1> DEFINE log == ListedRecords
<1>1. ExitsInForkOrder <=> InForkOrder(log)
  BY DEF ExitsInForkOrder, InForkOrder, ListedRecords
<1>2. Init => InForkOrder(log)
  BY DEF Init, InForkOrder, ListedRecords
<1>3. IInv /\ [Next]_vars /\ InForkOrder(log) => InForkOrder(log')
  <2> SUFFICES ASSUME IInv, [Next]_vars, InForkOrder(log) PROVE InForkOrder(log')
    OBVIOUS
  <2>1. log \in Seq(Record) /\ DOMAIN log = 1 .. Len(log) /\ Len(log) \in Nat
    BY ListedRecordsType, LenProperties DEF LogShape
  <2>2. CASE Inserted
    <3>1. PICK r \in Record :
            /\ r.status = RUNNING
            /\ log' = Append(IF Len(log) >= MaxRecords THEN Tail(log) ELSE log, r)
      BY <2>2 DEF Inserted, Log!Insert, Log!RUNNING, RUNNING
    <3>2. Len(log) >= MaxRecords => log # <<>>
      BY BoundsAssumption, EmptySeq
    <3> HIDE DEF log
    <3> QED BY <2>1, <3>1, <3>2, InsertKeepsOrder
  <2>3. CASE Marked
    <3>1. PICK i \in DOMAIN log :
            /\ log' = [log EXCEPT ![i].status = EXITED, ![i].end_time = jiffies]
            /\ \A j \in DOMAIN log :
                 j < i /\ log[j].pid = log[i].pid => log[j].status = EXITED
      BY <2>3 DEF Marked, Log!MarkExited, Log!EXITED, EXITED
    <3>2. /\ DOMAIN log' = DOMAIN log
          /\ \A j \in DOMAIN log : j # i => log'[j] = log[j]
          /\ log[i] \in Record
      BY <2>1, <3>1
    <3>3. log'[i].pid = log[i].pid /\ log'[i].status = EXITED
      BY <2>1, <3>1, <3>2 DEF Record
    <3> HIDE DEF log
    <3> SUFFICES ASSUME NEW j \in DOMAIN log, NEW k \in DOMAIN log, j < k,
                        log'[j].pid = log'[k].pid, log'[k].status = EXITED
                 PROVE  log'[j].status = EXITED
      BY <3>2 DEF InForkOrder
    <3>4. CASE j = i
      BY <3>3, <3>4
    <3>5. CASE k = i
      BY <3>1, <3>2, <3>3, <3>5, <2>1
    <3>6. CASE j # i /\ k # i
      BY <3>2, <3>6 DEF InForkOrder
    <3> QED BY <3>4, <3>5, <3>6
  <2>4. CASE Emptied
    BY <2>4 DEF Emptied, InForkOrder
  <2>5. CASE Untouched
    BY <2>5 DEF Untouched
  <2> QED BY <2>2, <2>3, <2>4, <2>5, LogSteps
<1>4. Init => ExitsInForkOrder
  BY <1>1, <1>2
<1>5. IInv /\ [Next]_vars /\ ExitsInForkOrder => ExitsInForkOrder'
  <2>1. ExitsInForkOrder' <=> InForkOrder(log')
    BY DEF ExitsInForkOrder, InForkOrder, ListedRecords
  <2> QED BY <1>1, <1>3, <2>1
<1> QED BY <1>4, <1>5, AlwaysIInv, PTL DEF Spec

-----------------------------------------------------------------------------
(* The accounts.                                                           *)

\* Records that run, or that have exited.
WithStatus(status) == {r \in Record : r.status = status}

\* Creations, counted or on their way, stay within the bound of the model,
\* which an unsigned long holds.
Counted == stats.total_processes_created + Cardinality(Inserters) <= MaxCreated

\* What Accounting says of a log and of the counters s.
Accounts(log, s) ==
  /\ s.total_processes_created = s.total_processes_exited + s.current_processes
  /\ s.current_processes <= s.peak_processes
  /\ s.peak_processes <= s.total_processes_created
  /\ Cardinality(Places(log, WithStatus(RUNNING))) <= s.current_processes
  /\ Cardinality(Places(log, WithStatus(EXITED))) <= s.total_processes_exited

\* Given IInv, Accounting says that.
AccountsNow == Accounts(ListedRecords, stats)

LEMMA AccountingIsAccounts == IInv => (Accounting <=> AccountsNow)
<1> SUFFICES ASSUME IInv PROVE Accounting <=> Accounts(ListedRecords, stats)
  BY DEF AccountsNow
<1>1. ASSUME NEW status
      PROVE  Listed(status) = Places(ListedRecords, WithStatus(status))
  <2>1. /\ DOMAIN ListedRecords = DOMAIN process_list
        /\ \A i \in DOMAIN process_list :
             /\ ListedRecords[i] = heap[process_list[i]]
             /\ ListedRecords[i] \in Record
    BY ListedRecordsType DEF LogShape, IInv, TypeOK
  <2> QED BY <2>1 DEF Listed, Places, WithStatus
<1> QED BY <1>1 DEF Accounting, Accounts

\* An insertion that the counters can count keeps the accounts.
LEMMA InsertKeepsAccounts ==
  ASSUME NEW log \in Seq(Record), NEW s \in CountStats, Accounts(log, s),
         s.total_processes_created < ULongMax,
         NEW r \in Record, r.status = RUNNING
  PROVE  /\ Accounts(Append(log, r), CountCreate(s))
         /\ log # <<>> => Accounts(Append(Tail(log), r), CountCreate(s))
<1> DEFINE c == s.total_processes_created
           e == s.total_processes_exited
           x == s.current_processes
           k == s.peak_processes
           n(l, status) == Cardinality(Places(l, WithStatus(status)))
<1>1. c \in Nat /\ e \in Nat /\ x \in Nat /\ k \in Nat
  BY ULongMaxAssumption DEF CountStats, ULong
<1>2. /\ CountCreate(s).total_processes_created = c + 1
      /\ CountCreate(s).total_processes_exited = e
      /\ CountCreate(s).current_processes = x + 1
      /\ CountCreate(s).peak_processes = IF x + 1 > k THEN x + 1 ELSE k
  BY <1>1, ULongMaxAssumption DEF Accounts, CountCreate, CountStats, Incr
<1>3. r \in WithStatus(RUNNING) /\ r \notin WithStatus(EXITED)
  BY DEF WithStatus, RUNNING, EXITED
<1>4. ASSUME NEW l \in Seq(Record), n(l, RUNNING) <= x, n(l, EXITED) <= e
      PROVE  Accounts(Append(l, r), CountCreate(s))
  <2>1. n(l, RUNNING) \in Nat
    BY PlacesFinite
  <2>2. n(l, EXITED) \in Nat
    BY PlacesFinite
  <2>3. n(Append(l, r), RUNNING) = n(l, RUNNING) + 1
    BY <1>3, PlacesAppend
  <2>4. n(Append(l, r), EXITED) = n(l, EXITED)
    <3>1. n(Append(l, r), EXITED) = n(l, EXITED) + 0
      BY <1>3, PlacesAppend
    <3> HIDE DEF n
    <3> QED BY <2>2, <3>1
  <2>5. n(Append(l, r), RUNNING) <= x + 1 /\ n(Append(l, r), EXITED) <= e
    <3> HIDE DEF n
    <3> QED BY <1>1, <1>4, <2>1, <2>2, <2>3, <2>4
  <2>6. c = e + x /\ x <= k /\ k <= c
    BY DEF Accounts
  <2> HIDE DEF c, e, x, k
  <2> QED BY <1>1, <1>2, <2>5, <2>6 DEF Accounts
<1>5. n(log, RUNNING) <= x /\ n(log, EXITED) <= e
  BY DEF Accounts
<1>6. ASSUME log # <<>>
      PROVE  /\ Tail(log) \in Seq(Record)
             /\ n(Tail(log), RUNNING) <= x /\ n(Tail(log), EXITED) <= e
  <2>1. Tail(log) \in Seq(Record)
    BY <1>6, HeadTailProperties
  <2>2. n(Tail(log), RUNNING) <= n(log, RUNNING) /\ n(Tail(log), EXITED) <= n(log, EXITED)
    BY <1>6, PlacesTail
  <2>3. \A status : n(Tail(log), status) \in Nat /\ n(log, status) \in Nat
    BY <2>1, PlacesFinite
  <2> HIDE DEF n
  <2> QED BY <1>1, <1>5, <2>1, <2>2, <2>3
<1> HIDE DEF n
<1> QED BY <1>4, <1>5, <1>6

\* A mark moves one record from current to exited, here and there.
LEMMA MarkKeepsAccounts ==
  ASSUME NEW log \in Seq(Record), NEW s \in CountStats, Accounts(log, s),
         NEW i \in DOMAIN log, log[i].status = RUNNING,
         NEW e \in Record, e.status = EXITED
  PROVE  Accounts([log EXCEPT ![i] = e], CountExit(s))
<1> DEFINE u == [log EXCEPT ![i] = e]
           n(l, status) == Cardinality(Places(l, WithStatus(status)))
<1>1. /\ s.total_processes_created \in Nat /\ s.total_processes_exited \in Nat
      /\ s.current_processes \in Nat /\ s.peak_processes \in Nat
      /\ s.total_processes_created <= ULongMax
  BY ULongMaxAssumption DEF CountStats, ULong
<1>2. /\ e \in WithStatus(EXITED) /\ e \notin WithStatus(RUNNING)
      /\ log[i] \in WithStatus(RUNNING) /\ log[i] \notin WithStatus(EXITED)
  <2>1. log[i] \in Record
    BY LenProperties
  <2> QED BY <2>1 DEF WithStatus, RUNNING, EXITED
<1>3. \A status : n(log, status) \in Nat
  BY PlacesFinite
<1>4. n(u, RUNNING) = n(log, RUNNING) + 0 - 1
  BY <1>2, PlacesReplace
<1>5. n(u, EXITED) = n(log, EXITED) + 1 - 0
  BY <1>2, PlacesReplace
<1>6. n(u, RUNNING) \in Nat
  <2>1. u \in Seq(Record)
    BY LenProperties, ExceptSeq
  <2> QED BY <2>1, PlacesFinite
<1>7. /\ n(log, RUNNING) <= s.current_processes
      /\ n(log, EXITED) <= s.total_processes_exited
      /\ s.total_processes_created = s.total_processes_exited + s.current_processes
      /\ s.current_processes <= s.peak_processes
      /\ s.peak_processes <= s.total_processes_created
  BY DEF Accounts
<1> HIDE DEF n
<1>8. s.current_processes >= 1
  BY <1>1, <1>3, <1>4, <1>6, <1>7
<1>9. /\ CountExit(s).total_processes_created = s.total_processes_created
      /\ CountExit(s).total_processes_exited = s.total_processes_exited + 1
      /\ CountExit(s).current_processes = s.current_processes - 1
      /\ CountExit(s).peak_processes = s.peak_processes
  BY <1>1, <1>7, <1>8, ULongMaxAssumption DEF CountExit, CountStats, Incr, Decr
<1>10. /\ n(u, RUNNING) <= s.current_processes - 1
       /\ n(u, EXITED) <= s.total_processes_exited + 1
  BY <1>1, <1>3, <1>4, <1>5, <1>7
<1> DEFINE t == CountExit(s)
<1> HIDE DEF t, u
<1>11. /\ t.total_processes_created = t.total_processes_exited + t.current_processes
       /\ t.current_processes <= t.peak_processes
       /\ t.peak_processes <= t.total_processes_created
  BY <1>1, <1>7, <1>8, <1>9 DEF t
<1>12. /\ n(u, RUNNING) <= t.current_processes
       /\ n(u, EXITED) <= t.total_processes_exited
  BY <1>9, <1>10 DEF t
<1>13. Accounts(u, t)
  BY <1>11, <1>12 DEF Accounts, n
<1> QED BY <1>13 DEF t, u

\* The empty log is on no account.
LEMMA EmptyKeepsAccounts ==
  /\ \A s \in CountStats : \A log : Accounts(log, s) => Accounts(<<>>, s)
  /\ Accounts(<<>>, ZeroCountStats)
<1>1. \A status : Cardinality(Places(<<>>, WithStatus(status))) = 0
  <2>1. \A status : Places(<<>>, WithStatus(status)) = {}
    BY DEF Places
  <2> QED BY <2>1, FS_EmptySet
<1>2. ASSUME NEW s \in CountStats, NEW log, Accounts(log, s)
      PROVE  Accounts(<<>>, s)
  <2>1. 0 <= s.current_processes /\ 0 <= s.total_processes_exited
    BY ULongMaxAssumption DEF CountStats, ULong
  <2> QED BY <1>1, <1>2, <2>1 DEF Accounts
<1>3. Accounts(<<>>, ZeroCountStats)
  <2>1. /\ ZeroCountStats.total_processes_created = 0
        /\ ZeroCountStats.total_processes_exited = 0
        /\ ZeroCountStats.current_processes = 0
        /\ ZeroCountStats.peak_processes = 0
    BY DEF ZeroCountStats
  <2> QED BY <1>1, <2>1 DEF Accounts
<1> QED BY <1>2, <1>3

\* Counted is inductive, given IInv.
LEMMA NextCounted == IInv /\ [Next]_vars /\ Counted => Counted'
<1> SUFFICES ASSUME IInv, [Next]_vars, Counted PROVE Counted'
  OBVIOUS
<1> DEFINE c == stats.total_processes_created
<1>1. stats \in CountStats /\ c \in Nat /\ c <= ULongMax
  BY ULongMaxAssumption DEF IInv, TypeOK, CountStats, ULong
<1>2. IsFiniteSet(Inserters) /\ Cardinality(Inserters) \in Nat
  <2>1. IsFiniteSet(Inserters)
    BY BoundsAssumption, FS_Subset DEF Inserters, InHandler
  <2> QED BY <2>1, FS_CardinalityType
<1>3. MaxCreated \in Nat
  BY BoundsAssumption
<1>4. CASE Inserted
  <2>1. PICK p \in Inserters : Inserters' = Inserters \ {p}
    BY <1>4 DEF Inserted
  <2>2. Cardinality(Inserters') = Cardinality(Inserters) - 1
    BY <1>2, <2>1, FS_RemoveElement
  <2>3. c' = Incr(c)
    BY <1>1, <1>4 DEF Inserted, CountCreate, CountStats
  <2>4. c' <= c + 1 /\ c' \in Nat
    BY <1>1, <2>3 DEF Incr
  <2> QED BY <1>1, <1>2, <1>3, <2>2, <2>4 DEF Counted
<1>5. CASE Marked
  <2>1. c' = c
    BY <1>1, <1>5 DEF Marked, CountExit, CountStats
  <2> QED BY <1>5, <2>1 DEF Marked, Counted
<1>6. CASE Emptied
  <2>1. c' \in {c, 0} /\ Inserters' = Inserters
    BY <1>6 DEF Emptied, ZeroCountStats
  <2> QED BY <1>1, <1>2, <1>3, <2>1 DEF Counted
<1>7. CASE Untouched
  <2>1. CASE Inserters' = Inserters
    BY <1>7, <2>1 DEF Untouched, Counted
  <2>2. ASSUME c + Cardinality(Inserters) < MaxCreated,
               NEW p \in Pid, Inserters' = Inserters \cup {p}
        PROVE  Counted'
    <3>1. Cardinality(Inserters') \in {Cardinality(Inserters), Cardinality(Inserters) + 1}
      BY <1>2, <2>2, FS_AddElement
    <3> QED BY <1>1, <1>2, <1>3, <1>7, <2>2, <3>1 DEF Untouched, Counted
  <2> QED BY <1>7, <2>1, <2>2 DEF Untouched
<1> QED BY <1>4, <1>5, <1>6, <1>7, LogSteps

\* The counters and the list tell one story as long as the creations fit in
\* an unsigned long: creations are current or exited, the peak is between,
\* and the list shows no more of either than the counters say.
THEOREM AlwaysAccounting == Spec => []Accounting
<1> DEFINE log == ListedRecords
<1>1. Init => Counted /\ Accounting
  <2> SUFFICES ASSUME Init PROVE Counted /\ Accounting
    OBVIOUS
  <2>1. Inserters = {} /\ stats = ZeroCountStats /\ log = <<>>
    BY DEF Init, Inserters, InHandler, ListedRecords
  <2>2. Counted
    BY <2>1, FS_EmptySet, BoundsAssumption DEF Counted, ZeroCountStats
  <2> QED BY <2>1, <2>2, InitIInv, EmptyKeepsAccounts, AccountingIsAccounts
      DEF AccountsNow
<1>2. IInv /\ IInv' /\ Counted /\ [Next]_vars /\ Accounting => Accounting'
  <2> SUFFICES ASSUME IInv, IInv', Counted, [Next]_vars, Accounting PROVE Accounting'
    OBVIOUS
  <2>1. Accounts(log, stats)
    BY AccountingIsAccounts DEF AccountsNow
  <2>2. /\ log \in Seq(Record) /\ DOMAIN log = 1 .. Len(log) /\ Len(log) \in Nat
        /\ stats \in CountStats
    BY ListedRecordsType, LenProperties DEF LogShape, IInv, TypeOK
  <2>3. Accounts(log', stats')
    <3>1. CASE Inserted
      <4>1. PICK r \in Record :
              /\ r.status = RUNNING
              /\ log' = Append(IF Len(log) >= MaxRecords THEN Tail(log) ELSE log, r)
        BY <3>1 DEF Inserted, Log!Insert, Log!RUNNING, RUNNING
      <4>2. Len(log) >= MaxRecords => log # <<>>
        BY BoundsAssumption, EmptySeq
      <4>3. stats.total_processes_created < ULongMax
        <5>1. PICK p \in Inserters : TRUE
          BY <3>1 DEF Inserted
        <5>2. IsFiniteSet(Inserters)
          BY BoundsAssumption, FS_Subset DEF Inserters, InHandler
        <5>3. Cardinality(Inserters) \in Nat /\ Cardinality(Inserters) # 0
          BY <5>1, <5>2, FS_CardinalityType, FS_EmptySet
        <5>4. stats.total_processes_created \in Nat
          BY <2>2, ULongMaxAssumption DEF CountStats, ULong
        <5> QED BY <5>3, <5>4, BoundsAssumption, ULongMaxAssumption DEF Counted
      <4>4. stats' = CountCreate(stats)
        BY <3>1 DEF Inserted
      <4> HIDE DEF log
      <4> QED BY <2>1, <2>2, <4>1, <4>2, <4>3, <4>4, InsertKeepsAccounts
    <3>2. CASE Marked
      <4>1. PICK i \in DOMAIN log :
              /\ log[i].status = RUNNING
              /\ log' = [log EXCEPT ![i].status = EXITED, ![i].end_time = jiffies]
        BY <3>2 DEF Marked, Log!MarkExited, Log!RUNNING, Log!EXITED, RUNNING, EXITED
      <4> DEFINE marked == [log[i] EXCEPT !.status = EXITED, !.end_time = jiffies]
      <4>2. log[i] \in Record /\ jiffies \in Time
        BY <2>2 DEF IInv, TypeOK
      <4>3. marked \in Record /\ marked.status = EXITED
        BY <4>2 DEF Record, EXITED
      <4>4. log' = [log EXCEPT ![i] = marked]
        BY <4>1
      <4>5. stats' = CountExit(stats)
        BY <3>2 DEF Marked
      <4> HIDE DEF log, marked
      <4>6. log[i].status = RUNNING
        BY <4>1
      <4>7. Accounts([log EXCEPT ![i] = marked], CountExit(stats))
        BY <2>1, <2>2, <4>3, <4>6, MarkKeepsAccounts
      <4> QED BY <4>4, <4>5, <4>7
    <3>3. CASE Emptied
      <4>1. log' = <<>> /\ stats' \in {stats, ZeroCountStats}
        BY <3>3 DEF Emptied
      <4> HIDE DEF log
      <4> QED BY <2>1, <2>2, <4>1, EmptyKeepsAccounts
    <3>4. CASE Untouched
      BY <2>1, <3>4 DEF Untouched
    <3> QED BY <3>1, <3>2, <3>3, <3>4, LogSteps
  <2>4. IInv' => (Accounting' <=> AccountsNow')
    BY AccountingIsAccounts, PTL
  <2> QED BY <2>3, <2>4 DEF AccountsNow
<1> QED BY <1>1, <1>2, NextCounted, AlwaysIInv, PTL DEF Spec

=============================================================================
