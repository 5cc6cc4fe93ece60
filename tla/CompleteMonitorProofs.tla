----------------------- MODULE CompleteMonitorProofs -----------------------
(***************************************************************************)
(* The safety of CompleteMonitor for every number of processes, records    *)
(* and list places, every clock and every width of unsigned long.          *)
(*                                                                         *)
(* None of the invariants is inductive by itself: the head that a full     *)
(* list evicts exists because record_count is its length, the record an    *)
(* exit marks is allocated because the chain holds what the list holds,    *)
(* and nothing is linked after the module freed its list because no        *)
(* handler is left by then.  IInv is what they need of each other.  From   *)
(* it follow the balance of the counters, the refinement of RecordLog and, *)
(* with some non-linear arithmetic, where the average lifetime lies.       *)
(***************************************************************************)
EXTENDS CompleteMonitor, ListLemmas, FiniteSetTheorems

-----------------------------------------------------------------------------
(* The statistics.                                                         *)

\* What an unsigned long can be is what the three operations on one return.
LEMMA ULongTyped ==
  /\ \A n \in ULong : Incr(n) \in ULong /\ Decr(n) \in ULong
  /\ \A n \in Nat : Wrap(n) \in ULong
<1>1. \A n \in ULong : Incr(n) \in ULong /\ Decr(n) \in ULong
  BY ULongMaxAssumption DEF ULong, Incr, Decr
<1>2. \A n \in Nat : Wrap(n) \in ULong
  BY ULongMaxAssumption DEF ULong, Wrap
<1> QED BY <1>1, <1>2

\* The average of two unsigned longs, weighted, wrapped and divided, is one.
LEMMA AverageTyped ==
  ASSUME NEW avg \in ULong, NEW n \in ULong, n > 0, NEW lifetime \in ULong
  PROVE  NextAverage(avg, n, lifetime) \in ULong
<1>1. n - 1 \in Nat /\ avg \in Nat /\ lifetime \in Nat /\ n \in Nat \ {0}
  BY ULongMaxAssumption DEF ULong
<1>2. avg * (n - 1) \in Nat
  BY <1>1
<1>3. Wrap(avg * (n - 1)) \in ULong
  BY <1>2, ULongTyped
<1>4. Wrap(avg * (n - 1)) + lifetime \in Nat
  BY <1>1, <1>3 DEF ULong
<1> DEFINE w == Wrap(Wrap(avg * (n - 1)) + lifetime)
<1>5. w \in ULong
  BY <1>4, ULongTyped
<1> HIDE DEF w
<1>6. w \div n \in 0 .. w
  <2>1. w \in Nat
    BY <1>5 DEF ULong
  <2> QED BY <1>1, <2>1
<1>7. w \div n \in ULong
  BY <1>5, <1>6, ULongMaxAssumption DEF ULong
<1> QED BY <1>7 DEF NextAverage, w

\* The statistics stay unsigned longs, lifetimes included.
LEMMA FullStatsTyped ==
  ASSUME NEW s \in FullStats
  PROVE  /\ CountCreate(s) \in FullStats
         /\ CountExit(s) \in FullStats
         /\ \A lifetime \in ULong : NoteLifetime(s, lifetime) \in FullStats
<1>1. /\ s.total_processes_created \in ULong
      /\ s.total_processes_exited \in ULong
      /\ s.current_processes \in ULong
      /\ s.peak_processes \in ULong
      /\ s.avg_lifetime \in ULong
      /\ s.longest_lifetime \in ULong
      /\ s.shortest_lifetime \in ULong
  BY DEF FullStats
<1>2. CountCreate(s) \in FullStats
  BY <1>1, ULongTyped DEF FullStats, CountCreate
<1>3. CountExit(s) \in FullStats
  BY <1>1, ULongTyped DEF FullStats, CountExit
<1>4. ASSUME NEW lifetime \in ULong
      PROVE  NoteLifetime(s, lifetime) \in FullStats
  <2>1. s.total_processes_exited > 0
          => NextAverage(s.avg_lifetime, s.total_processes_exited, lifetime) \in ULong
    BY <1>1, AverageTyped
  <2> QED BY <1>1, <2>1 DEF FullStats, NoteLifetime
<1> QED BY <1>2, <1>3, <1>4

\* current_processes, in the arithmetic of unsigned longs.
Balanced(s) ==
  s.current_processes = Minus(s.total_processes_created, s.total_processes_exited)

\* A creation and an exit keep the balance, whatever wraps.
LEMMA BalanceKept ==
  ASSUME NEW s \in FullStats, Balanced(s)
  PROVE  /\ Balanced(CountCreate(s))
         /\ Balanced(CountExit(s))
         /\ \A lifetime : Balanced(NoteLifetime(CountExit(s), lifetime))
<1> DEFINE c == s.total_processes_created
           e == s.total_processes_exited
           x == s.current_processes
<1>1. /\ c \in ULong /\ e \in ULong /\ x \in ULong
      /\ x = Minus(c, e)
  BY DEF FullStats, Balanced
<1>2. /\ CountCreate(s).total_processes_created = Incr(c)
      /\ CountCreate(s).total_processes_exited = e
      /\ CountCreate(s).current_processes = Incr(x)
  BY DEF CountCreate, FullStats
<1>3. /\ CountExit(s).total_processes_created = c
      /\ CountExit(s).total_processes_exited = Incr(e)
      /\ CountExit(s).current_processes = Decr(x)
  BY DEF CountExit, FullStats
<1> HIDE DEF c, e, x
<1>4. Incr(x) = Minus(Incr(c), e)
  BY <1>1, ULongMaxAssumption DEF Incr, Minus, ULong
<1>5. Decr(x) = Minus(c, Incr(e))
  BY <1>1, ULongMaxAssumption DEF Incr, Decr, Minus, ULong
<1>6. CountExit(s) \in FullStats
  BY FullStatsTyped
<1>7. ASSUME NEW lifetime
      PROVE  Balanced(NoteLifetime(CountExit(s), lifetime))
  <2> DEFINE t == CountExit(s)
  <2>1. /\ NoteLifetime(t, lifetime).total_processes_created = t.total_processes_created
        /\ NoteLifetime(t, lifetime).total_processes_exited = t.total_processes_exited
        /\ NoteLifetime(t, lifetime).current_processes = t.current_processes
    <3> HIDE DEF t
    <3> t \in FullStats
      BY <1>6 DEF t
    <3> QED BY DEF NoteLifetime, FullStats
  <2> QED BY <1>3, <1>5, <2>1 DEF Balanced
<1> QED BY <1>2, <1>3, <1>4, <1>5, <1>7 DEF Balanced

-----------------------------------------------------------------------------
(* The inductive invariant.                                                *)

\* In these phases no fork handler is left, in the last three none at all, and
\* in the last no record.
Drained ==
  /\ phase \in {"loading", "created", "cleanup", "failed", "exit_exit",
                "exit_proc", "exit_free", "unloaded"} => Adders = {}
  /\ phase \in {"exit_proc", "exit_free", "unloaded"} => Markers = {}
  /\ phase = "unloaded" => process_list = <<>>

\* No record starts in the future: a lifetime is not negative.
StartedBefore == \A r \in Allocated : heap[r].start_time <= jiffies

\* Each is needed by the others.
IInv == TypeOK /\ IndexesAgree /\ RecordsOwnedOnce /\ Drained /\ StartedBefore

-----------------------------------------------------------------------------

\* The module starts with nothing in its structures and no handler running.
LEMMA InitIInv == Init => IInv
<1> SUFFICES ASSUME Init PROVE IInv
  OBVIOUS
<1>1. /\ <<>> \in Seq(Rec)
      /\ Len(<<>>) = 0
      /\ Range(<<>>) = {}
      /\ Reverse(<<>>) = <<>>
  BY DEF Range, Reverse
<1>2. ZeroFullStats \in FullStats
  BY ULongMaxAssumption DEF ZeroFullStats, FullStats, ULong
<1>3. Allocated = {} /\ heap \in [Allocated -> Record]
  BY DEF Init, Allocated
<1>4. TypeOK
  <2>1. phase \in Phase /\ jiffies \in Time /\ record_count \in 0 .. MaxRecords
    BY BoundsAssumption DEF Init, Phase, Time
  <2>2. pc \in [Pid -> Handler] /\ ptr \in [Pid -> Rec \cup {NoRec}]
    BY DEF Init, Handler
  <2> QED BY <1>1, <1>2, <1>3, <2>1, <2>2 DEF Init, TypeOK
<1>5. \A where : "user" \notin where => InHandler(where) = {}
  BY DEF Init, InHandler
<1>6. Adders = {} /\ Markers = {} /\ InHandler({"add"}) = {}
  BY <1>5 DEF Adders, Markers
<1>7. IndexesAgree
  BY <1>1 DEF Init, IndexesAgree
<1>8. RecordsOwnedOnce
  BY <1>1, <1>3, <1>6 DEF Init, RecordsOwnedOnce, Filled, IsInjective
<1>9. Drained /\ StartedBefore
  BY <1>3, <1>6 DEF Init, Drained, StartedBefore
<1> QED BY <1>4, <1>7, <1>8, <1>9 DEF IInv

\* Who owns what does not change when no record moves and no handler fills
\* one in or hands one over.
LEMMA OwnershipFrame ==
  ASSUME IndexesAgree, RecordsOwnedOnce,
         UNCHANGED indexes, Allocated' = Allocated,
         phase' # "unloaded" => phase # "unloaded",
         InHandler({"add"})' = InHandler({"add"}),
         \A p \in InHandler({"add"}) : ptr'[p] = ptr[p]
  PROVE  IndexesAgree' /\ RecordsOwnedOnce'
<1>1. Filled' = Filled
  BY DEF Filled
<1>2. IndexesAgree'
  BY DEF IndexesAgree, indexes
<1>3. RecordsOwnedOnce'
  BY <1>1 DEF RecordsOwnedOnce, indexes
<1> QED BY <1>2, <1>3

-----------------------------------------------------------------------------

\* kmalloc hands the record to the handler that fills it in.
LEMMA ForkEnterIInv ==
  ASSUME IInv, NEW p \in Pid, ForkEnter(p)
  PROVE  IInv'
<1> USE DEF IInv
<1>1. PICK r \in Rec \ Allocated :
        /\ Kmalloc(r, NewRecord(p))
        /\ ptr' = [ptr EXCEPT ![p] = r]
  BY DEF ForkEnter
<1>2. /\ ForkProbed /\ pc[p] = "user"
      /\ pc' = [pc EXCEPT ![p] = "add"]
      /\ UNCHANGED <<phase, indexes, stats, monitoring_enabled, filter_enabled, jiffies>>
  BY DEF ForkEnter
<1>3. /\ NewRecord(p) \in Record
      /\ NewRecord(p).start_time = jiffies
  BY BoundsAssumption DEF TypeOK, NewRecord, Record, Time, RUNNING, EXITED
<1>4. /\ Allocated' = Allocated \cup {r}
      /\ heap' \in [Allocated' -> Record]
      /\ heap'[r] = NewRecord(p)
      /\ \A x \in Allocated : heap'[x] = heap[x]
  BY <1>1, <1>3 DEF Kmalloc, Allocated, TypeOK
<1>5. pc' \in [Pid -> Handler] /\ ptr' \in [Pid -> Rec \cup {NoRec}]
  BY <1>1, <1>2 DEF TypeOK, Handler
<1>6. TypeOK'
  BY <1>1, <1>2, <1>4, <1>5 DEF TypeOK, indexes
<1>7. /\ InHandler({"add"})' = InHandler({"add"}) \cup {p}
      /\ p \notin InHandler({"add"})
      /\ Markers' = Markers
  BY <1>2 DEF TypeOK, InHandler, Markers
<1>8. /\ ptr'[p] = r
      /\ \A q \in Pid \ {p} : ptr'[q] = ptr[q]
  BY <1>1 DEF TypeOK
<1>9. Filled' = Filled \cup {r}
  BY <1>7, <1>8 DEF Filled, InHandler
<1>10. IndexesAgree'
  BY <1>2 DEF IndexesAgree, indexes
<1>11. RecordsOwnedOnce'
  <2>1. r \notin Filled /\ r \notin Range(process_list)
    BY <1>1 DEF RecordsOwnedOnce
  <2>2. \A q \in InHandler({"add"}) : ptr'[q] = ptr[q] /\ ptr[q] # r
    BY <1>7, <1>8, <2>1 DEF Filled, InHandler
  <2>3. \A q1, q2 \in InHandler({"add"})' : ptr'[q1] = ptr'[q2] => q1 = q2
    BY <1>7, <1>8, <2>2 DEF RecordsOwnedOnce
  <2> QED BY <1>2, <1>4, <1>9, <2>1, <2>3 DEF RecordsOwnedOnce, indexes
<1>12. Drained'
  BY <1>2, <1>7 DEF indexes, Drained, ForkProbed
<1>13. StartedBefore'
  <2>1. jiffies \in Int
    BY BoundsAssumption DEF TypeOK, Time
  <2> QED BY <1>2, <1>3, <1>4, <2>1 DEF StartedBefore
<1> QED BY <1>6, <1>10, <1>11, <1>12, <1>13

\* The handler that inserts its record owns it no more; the list does.
LEMMA HandOver ==
  ASSUME IInv, NEW p \in Pid, pc[p] = "add",
         pc' = [pc EXCEPT ![p] = "added"], ptr' = ptr
  PROVE  /\ phase # "unloaded"
         /\ ptr[p] \in Rec /\ ptr[p] \in Allocated /\ ptr[p] \notin Range(process_list)
         /\ Filled' = Filled \ {ptr[p]}
         /\ InHandler({"add"})' \subseteq InHandler({"add"})
         /\ Adders' = Adders /\ Markers' = Markers
         /\ pc' \in [Pid -> Handler]
<1> USE DEF IInv
<1>1. p \in InHandler({"add"}) /\ p \in Adders
  BY DEF InHandler, Adders
<1>2. phase # "unloaded"
  BY <1>1 DEF Drained
<1>3. ptr[p] \in Filled
  BY <1>1 DEF Filled
<1>4. ptr[p] \in Allocated /\ ptr[p] \notin Range(process_list) /\ ptr[p] \in Rec
  BY <1>3 DEF RecordsOwnedOnce, TypeOK
<1>5. /\ InHandler({"add"})' = InHandler({"add"}) \ {p}
      /\ Adders' = Adders /\ Markers' = Markers
      /\ pc' \in [Pid -> Handler]
  BY DEF TypeOK, InHandler, Adders, Markers, Handler
<1>6. Filled' = Filled \ {ptr[p]}
  BY <1>1, <1>5 DEF Filled, RecordsOwnedOnce
<1> QED BY <1>2, <1>4, <1>5, <1>6

\* The critical section of add_process_record, with and without eviction.
LEMMA AddRecordIInv ==
  ASSUME IInv, NEW p \in Pid, AddRecord(p)
  PROVE  IInv'
<1> USE DEF IInv
<1> DEFINE r == ptr[p]
<1>1. /\ pc[p] = "add"
      /\ InsertWithRoom(r) \/ InsertEvictingOldest(r)
      /\ stats' = CountCreate(stats)
      /\ pc' = [pc EXCEPT ![p] = "added"]
      /\ UNCHANGED <<phase, monitoring_enabled, filter_enabled, ptr, jiffies>>
  BY DEF AddRecord
<1>2. /\ phase # "unloaded"
      /\ r \in Rec /\ r \in Allocated /\ r \notin Range(process_list)
      /\ Filled' = Filled \ {r}
      /\ InHandler({"add"})' \subseteq InHandler({"add"})
      /\ Adders' = Adders /\ Markers' = Markers
      /\ pc' \in [Pid -> Handler]
  BY <1>1, HandOver
<1>3. /\ process_hash = Reverse(process_list)
      /\ process_tree = Range(process_list)
      /\ record_count = Len(process_list)
      /\ process_list \in Seq(Rec)
      /\ IsInjective(process_list)
  BY <1>2 DEF IndexesAgree, RecordsOwnedOnce, TypeOK
<1> HIDE DEF r
<1>4. stats' \in FullStats
  BY <1>1, FullStatsTyped DEF TypeOK
<1>5. Drained'
  BY <1>1, <1>2 DEF Drained
<1>6. \A q1, q2 \in InHandler({"add"})' : ptr'[q1] = ptr'[q2] => q1 = q2
  BY <1>1, <1>2 DEF RecordsOwnedOnce
<1>7. CASE InsertWithRoom(r)
  <2>1. /\ record_count < MaxRecords
        /\ process_list' = Append(process_list, r)
        /\ process_hash' = <<r>> \o process_hash
        /\ process_tree' = process_tree \cup {r}
        /\ record_count' = record_count + 1
        /\ heap' = heap /\ Allocated' = Allocated
    BY <1>7 DEF InsertWithRoom, HashAdd, Allocated
  <2>2. /\ process_list' \in Seq(Rec)
        /\ Len(process_list') = Len(process_list) + 1
        /\ Range(process_list') = Range(process_list) \cup {r}
        /\ IsInjective(process_list')
    BY <1>2, <1>3, <2>1, AppendProperties, AppendRange
  <2>3. process_hash' = Reverse(process_list')
    BY <1>2, <1>3, <2>1, ReverseAppend
  <2>4. IndexesAgree'
    BY <1>3, <2>1, <2>2, <2>3 DEF IndexesAgree
  <2>5. TypeOK'
    <3>1. process_hash' \in Seq(Rec)
      BY <2>2, <2>3, ReverseProperties
    <3>2. record_count' \in 0 .. MaxRecords
      BY <2>1, BoundsAssumption DEF TypeOK
    <3> QED BY <1>1, <1>2, <1>4, <2>1, <2>2, <3>1, <3>2 DEF TypeOK
  <2>6. RecordsOwnedOnce'
    <3>1. Allocated' = Range(process_list') \cup Filled'
      BY <1>2, <2>1, <2>2 DEF RecordsOwnedOnce
    <3>2. Range(process_list') \cap Filled' = {}
      BY <1>2, <2>2 DEF RecordsOwnedOnce
    <3> QED BY <1>6, <2>2, <3>1, <3>2 DEF RecordsOwnedOnce
  <2>7. StartedBefore'
    BY <1>1, <2>1 DEF StartedBefore
  <2> QED BY <1>5, <2>4, <2>5, <2>6, <2>7
<1>8. CASE InsertEvictingOldest(r)
  <2> DEFINE oldest == Head(process_list)
             kept == Tail(process_list)
  <2>1. /\ record_count >= MaxRecords
        /\ process_list' = Append(kept, r)
        /\ process_hash' = <<r>> \o HashDel(process_hash, oldest)
        /\ process_tree' = (process_tree \ {oldest}) \cup {r}
        /\ record_count' = record_count
        /\ heap' = [x \in Allocated \ {oldest} |-> heap[x]]
    BY <1>8 DEF InsertEvictingOldest, HashAdd, Kfree
  <2>2. process_list # <<>>
    BY <1>3, <2>1, BoundsAssumption
  <2>3. /\ kept \in Seq(Rec)
        /\ Len(kept) = Len(process_list) - 1
        /\ oldest \in Range(process_list)
        /\ Range(kept) = Range(process_list) \ {oldest}
        /\ IsInjective(kept)
    BY <1>3, <2>2, HeadTailProperties, TailRange
  <2>4. HashDel(process_hash, oldest) = Reverse(kept)
    BY <1>3, <2>2, ReverseTail DEF HashDel
  <2> HIDE DEF oldest, kept
  <2>5. /\ process_list' \in Seq(Rec)
        /\ Len(process_list') = Len(kept) + 1
        /\ Range(process_list') = Range(kept) \cup {r}
        /\ IsInjective(process_list')
    BY <1>2, <2>1, <2>3, AppendProperties, AppendRange
  <2>6. process_hash' = Reverse(process_list')
    BY <1>2, <2>1, <2>3, <2>4, ReverseAppend
  <2>7. Allocated' = Allocated \ {oldest} /\ heap' \in [Allocated' -> Record]
    BY <2>1 DEF Allocated, TypeOK
  <2>8. IndexesAgree'
    <3>1. Len(process_list) \in Nat
      BY <1>3, LenProperties
    <3>2. record_count' = Len(process_list')
      BY <1>3, <2>1, <2>3, <2>5, <3>1
    <3> QED BY <1>3, <2>1, <2>3, <2>5, <2>6, <3>2 DEF IndexesAgree
  <2>9. TypeOK'
    <3>1. process_hash' \in Seq(Rec)
      BY <2>5, <2>6, ReverseProperties
    <3>2. process_tree' \in SUBSET Rec
      BY <1>2, <2>1 DEF TypeOK
    <3> QED BY <1>1, <1>2, <1>4, <2>1, <2>5, <2>7, <3>1, <3>2 DEF TypeOK
  <2>10. RecordsOwnedOnce'
    <3>1. Allocated' = Range(process_list') \cup Filled'
      BY <1>2, <2>3, <2>5, <2>7 DEF RecordsOwnedOnce
    <3>2. Range(process_list') \cap Filled' = {}
      BY <1>2, <2>3, <2>5 DEF RecordsOwnedOnce
    <3> QED BY <1>6, <2>5, <3>1, <3>2 DEF RecordsOwnedOnce
  <2>11. StartedBefore'
    BY <1>1, <2>1, <2>7 DEF StartedBefore
  <2> QED BY <1>5, <2>8, <2>9, <2>10, <2>11
<1> QED BY <1>1, <1>7, <1>8 DEF r

\* The critical section of mark_process_exit writes the record it found in
\* the chain, which is allocated, and the time since it started.
LEMMA MarkExitIInv ==
  ASSUME IInv, NEW p \in Pid, MarkExit(p)
  PROVE  IInv'
<1> USE DEF IInv
<1>1. PICK r \in Range(process_hash) \cup {NoRec} :
        /\ ptr' = [ptr EXCEPT ![p] = r]
        /\ IF r = NoRec THEN UNCHANGED <<heap, stats>> ELSE MarkFound(r)
  BY DEF MarkExit
<1>2. /\ pc[p] = "mark"
      /\ pc' = [pc EXCEPT ![p] = "marked"]
      /\ UNCHANGED <<phase, indexes, monitoring_enabled, filter_enabled, jiffies>>
  BY DEF MarkExit
<1>3. /\ pc' \in [Pid -> Handler]
      /\ InHandler({"add"})' = InHandler({"add"})
      /\ p \notin InHandler({"add"})
      /\ Adders' = Adders /\ Markers' = Markers /\ p \in Markers
  BY <1>2 DEF TypeOK, InHandler, Adders, Markers, Handler
<1>4. r \in Rec \cup {NoRec} /\ (r # NoRec => r \in Allocated)
  <2>1. phase # "unloaded"
    BY <1>3 DEF Drained
  <2>2. Range(process_hash) = Range(process_list)
    BY <2>1, ReverseProperties DEF IndexesAgree, TypeOK
  <2> QED BY <1>1, <2>2 DEF RecordsOwnedOnce, TypeOK
<1>5. /\ ptr' \in [Pid -> Rec \cup {NoRec}]
      /\ \A q \in InHandler({"add"}) : ptr'[q] = ptr[q]
  BY <1>1, <1>3, <1>4 DEF TypeOK, InHandler
<1>6. /\ Allocated' = Allocated
      /\ heap' \in [Allocated -> Record]
      /\ \A x \in Allocated : heap'[x].start_time = heap[x].start_time
      /\ stats' \in FullStats
  <2>1. CASE r = NoRec
    BY <1>1, <2>1 DEF Allocated, TypeOK
  <2>2. CASE r # NoRec
    <3>1. /\ heap' = [heap EXCEPT ![r] = Exited(heap[r])]
          /\ stats' = NoteLifetime(CountExit(stats), Lifetime(Exited(heap[r])))
      BY <1>1, <2>2 DEF MarkFound
    <3>2. heap[r] \in Record /\ heap[r].start_time <= jiffies
      BY <1>4, <2>2 DEF TypeOK, StartedBefore
    <3>3. /\ Exited(heap[r]) \in Record
          /\ Exited(heap[r]).start_time = heap[r].start_time
          /\ Exited(heap[r]).end_time = jiffies
      BY <3>2 DEF Exited, Record, TypeOK, EXITED, RUNNING
    <3>4. Lifetime(Exited(heap[r])) \in ULong
      <4>1. /\ jiffies - heap[r].start_time \in 0 .. ULongMax
            /\ HZ \in Nat \ {0}
        BY <3>2, BoundsAssumption, ULongMaxAssumption DEF TypeOK, Record, Time
      <4>2. (jiffies - heap[r].start_time) \div HZ \in 0 .. (jiffies - heap[r].start_time)
        BY <4>1
      <4> QED BY <3>3, <4>1, <4>2, ULongMaxAssumption DEF Lifetime, ULong
    <3>5. stats' \in FullStats
      BY <3>1, <3>4, FullStatsTyped DEF TypeOK
    <3>6. /\ Allocated' = Allocated
          /\ heap' \in [Allocated -> Record]
          /\ \A x \in Allocated : heap'[x].start_time = heap[x].start_time
      BY <1>4, <2>2, <3>1, <3>3 DEF Allocated, TypeOK
    <3> QED BY <3>5, <3>6
  <2> QED BY <2>1, <2>2
<1>7. IndexesAgree' /\ RecordsOwnedOnce'
  BY <1>2, <1>3, <1>5, <1>6, OwnershipFrame
<1>8. TypeOK'
  BY <1>2, <1>3, <1>5, <1>6 DEF TypeOK, indexes
<1>9. Drained' /\ StartedBefore'
  BY <1>2, <1>3, <1>6 DEF indexes, Drained, StartedBefore
<1> QED BY <1>7, <1>8, <1>9

\* A handler that enters the exit probe or returns touches no record.
LEMMA EnterAndReturnIInv ==
  ASSUME IInv, NEW p \in Pid, ExitEnter(p) \/ AddReturn(p) \/ MarkReturn(p)
  PROVE  IInv'
<1> USE DEF IInv
<1>1. /\ pc[p] \in {"user", "added", "marked"}
      /\ pc' = [pc EXCEPT ![p] = "user"] \/ (pc' = [pc EXCEPT ![p] = "mark"] /\ ExitProbed)
      /\ ptr' = ptr \/ ptr' = [ptr EXCEPT ![p] = NoRec]
      /\ UNCHANGED <<phase, indexes, stats, monitoring_enabled, filter_enabled, heap,
                     jiffies>>
  BY DEF ExitEnter, AddReturn, MarkReturn
<1>2. /\ pc' \in [Pid -> Handler]
      /\ ptr' \in [Pid -> Rec \cup {NoRec}]
      /\ InHandler({"add"})' = InHandler({"add"})
      /\ \A q \in InHandler({"add"}) : ptr'[q] = ptr[q]
      /\ Adders' \subseteq Adders
      /\ ~ExitProbed => Markers' \subseteq Markers
  BY <1>1 DEF TypeOK, InHandler, Adders, Markers, Handler
<1>3. Allocated' = Allocated
  BY <1>1 DEF Allocated
<1>4. IndexesAgree' /\ RecordsOwnedOnce'
  BY <1>1, <1>2, <1>3, OwnershipFrame
<1>5. TypeOK'
  BY <1>1, <1>2, <1>3 DEF TypeOK, indexes
<1>6. Drained' /\ StartedBefore'
  BY <1>1, <1>2, <1>3 DEF indexes, Drained, StartedBefore, ExitProbed
<1> QED BY <1>4, <1>5, <1>6

\* The clear empties the three structures together.
LEMMA ClearRecordsIInv ==
  ASSUME IInv, ClearRecords
  PROVE  IInv'
<1> USE DEF IInv
<1>1. /\ FilesExist
      /\ heap' = [x \in Allocated \ Range(process_list) |-> heap[x]]
      /\ process_hash' = HashDelAll(process_hash, Range(process_list))
      /\ process_tree' = process_tree \ Range(process_list)
      /\ process_list' = <<>>
      /\ record_count' = 0
      /\ UNCHANGED <<phase, stats, monitoring_enabled, filter_enabled, pc, ptr, jiffies>>
  BY DEF ClearRecords, Kfree
<1>2. /\ process_hash = Reverse(process_list)
      /\ process_tree = Range(process_list)
  BY <1>1 DEF FilesExist, IndexesAgree
<1>3. process_hash' = <<>> /\ process_tree' = {}
  BY <1>1, <1>2, ReverseProperties DEF HashDelAll, TypeOK
<1>4. /\ <<>> \in Seq(Rec)
      /\ Len(<<>>) = 0
      /\ Range(<<>>) = {}
      /\ Reverse(<<>>) = <<>>
      /\ IsInjective(<<>>)
  BY DEF Range, Reverse, IsInjective
<1>5. /\ Allocated' = Allocated \ Range(process_list)
      /\ heap' \in [Allocated' -> Record]
      /\ \A x \in Allocated' : heap'[x] = heap[x]
  BY <1>1 DEF Allocated, TypeOK
<1>6. /\ InHandler({"add"})' = InHandler({"add"})
      /\ Filled' = Filled
      /\ Adders' = Adders /\ Markers' = Markers
  BY <1>1 DEF InHandler, Filled, Adders, Markers
<1>7. TypeOK'
  BY <1>1, <1>3, <1>4, <1>5, BoundsAssumption DEF TypeOK
<1>8. IndexesAgree'
  BY <1>1, <1>3, <1>4 DEF IndexesAgree
<1>9. RecordsOwnedOnce'
  BY <1>1, <1>4, <1>5, <1>6 DEF RecordsOwnedOnce
<1>10. Drained' /\ StartedBefore'
  BY <1>1, <1>5, <1>6 DEF indexes, Drained, StartedBefore
<1> QED BY <1>7, <1>8, <1>9, <1>10

\* The other writes change a flag, or the statistics.
LEMMA FlagsIInv ==
  ASSUME IInv, ResetStats \/ \E on \in BOOLEAN : SetMonitoring(on) \/ SetFilter(on)
  PROVE  IInv'
<1> USE DEF IInv
<1>1. /\ UNCHANGED <<phase, indexes, heap, pc, ptr, jiffies>>
      /\ stats' \in {stats, ZeroFullStats}
      /\ monitoring_enabled' \in BOOLEAN /\ filter_enabled' \in BOOLEAN
  BY DEF ResetStats, SetMonitoring, SetFilter, TypeOK
<1>2. ZeroFullStats \in FullStats
  BY ULongMaxAssumption DEF ZeroFullStats, FullStats, ULong
<1>3. /\ Allocated' = Allocated
      /\ InHandler({"add"})' = InHandler({"add"})
      /\ Adders' = Adders /\ Markers' = Markers
  BY <1>1 DEF Allocated, InHandler, Adders, Markers
<1>4. IndexesAgree' /\ RecordsOwnedOnce'
  BY <1>1, <1>3, OwnershipFrame
<1>5. TypeOK'
  BY <1>1, <1>2, <1>3 DEF TypeOK, indexes
<1>6. Drained' /\ StartedBefore'
  BY <1>1, <1>3 DEF indexes, Drained, StartedBefore
<1> QED BY <1>4, <1>5, <1>6

\* A phase that ends with a wait begins the next one with no handler left.
LEMMA StepIInv ==
  ASSUME IInv, Load \/ Rmmod \/ UnregisterFork \/ UnregisterExit \/ RemoveFiles
  PROVE  IInv'
<1> USE DEF IInv
<1>1. /\ UNCHANGED <<indexes, stats, monitoring_enabled, filter_enabled, heap, pc, ptr,
                     jiffies>>
      /\ phase \notin {"exit_free", "unloaded"}
      /\ phase' \in Phase \ {"unloaded"}
  BY DEF Load, CreateFiles, MkdirFails, CreateFileFails, RegisterFork,
         RegisterForkFails, RegisterExit, RegisterExitFails, AbortFork, CleanupProc,
         Rmmod, UnregisterFork, UnregisterExit, RemoveFiles, Step, Phase
<1>2. /\ Allocated' = Allocated
      /\ InHandler({"add"})' = InHandler({"add"})
      /\ Adders' = Adders /\ Markers' = Markers
  BY <1>1 DEF Allocated, InHandler, Adders, Markers
<1>3. IndexesAgree' /\ RecordsOwnedOnce'
  BY <1>1, <1>2, OwnershipFrame
<1>4. TypeOK'
  BY <1>1, <1>2 DEF TypeOK, indexes
<1>5. Drained'
  BY <1>1, <1>2
  DEF indexes, Drained, Load, CreateFiles, MkdirFails, CreateFileFails, RegisterFork,
      RegisterForkFails, RegisterExit, RegisterExitFails, AbortFork, CleanupProc,
      Rmmod, UnregisterFork, UnregisterExit, RemoveFiles, Step
<1>6. StartedBefore'
  BY <1>1, <1>2 DEF StartedBefore
<1> QED BY <1>3, <1>4, <1>5, <1>6

\* The last loop frees what the list holds, which is all there is.
LEMMA FreeRecordsIInv ==
  ASSUME IInv, FreeRecords
  PROVE  IInv' /\ Allocated' = {}
<1> USE DEF IInv
<1>1. /\ phase = "exit_free" /\ phase' = "unloaded"
      /\ heap' = [x \in Allocated \ Range(process_list) |-> heap[x]]
      /\ process_list' = <<>>
      /\ UNCHANGED <<process_hash, process_tree, record_count, stats,
                     monitoring_enabled, filter_enabled, pc, ptr, jiffies>>
  BY DEF FreeRecords, Kfree
<1>2. /\ InHandler({"add"})' = InHandler({"add"})
      /\ Filled' = Filled
      /\ Adders' = Adders /\ Markers' = Markers
  BY <1>1 DEF InHandler, Filled, Adders, Markers
<1>3. Filled = {}
  BY <1>1 DEF Drained, Filled, Adders, InHandler
<1>4. Allocated' = {} /\ heap' \in [Allocated' -> Record]
  <2>1. Allocated \ Range(process_list) = {}
    BY <1>3 DEF RecordsOwnedOnce
  <2> QED BY <1>1, <2>1 DEF Allocated
<1>5. /\ <<>> \in Seq(Rec)
      /\ Range(<<>>) = {}
      /\ IsInjective(<<>>)
  BY DEF Range, IsInjective
<1>6. TypeOK'
  BY <1>1, <1>4, <1>5 DEF TypeOK, Phase
<1>7. IndexesAgree'
  BY <1>1 DEF IndexesAgree
<1>8. RecordsOwnedOnce'
  BY <1>1, <1>2, <1>3, <1>4, <1>5 DEF RecordsOwnedOnce
<1>9. Drained' /\ StartedBefore'
  BY <1>1, <1>2, <1>4 DEF indexes, Drained, StartedBefore
<1> QED BY <1>4, <1>6, <1>7, <1>8, <1>9

\* Time only moves on.
LEMMA TickIInv ==
  ASSUME IInv, Tick
  PROVE  IInv'
<1> USE DEF IInv
<1>1. /\ jiffies' = jiffies + 1 /\ jiffies' \in Time /\ jiffies \in Time
      /\ UNCHANGED <<phase, indexes, stats, monitoring_enabled, filter_enabled, heap, pc,
                     ptr>>
  BY BoundsAssumption DEF Tick, TypeOK, Time
<1>2. /\ Allocated' = Allocated
      /\ InHandler({"add"})' = InHandler({"add"})
      /\ Adders' = Adders /\ Markers' = Markers
  BY <1>1 DEF Allocated, InHandler, Adders, Markers
<1>3. IndexesAgree' /\ RecordsOwnedOnce'
  BY <1>1, <1>2, OwnershipFrame
<1>4. TypeOK'
  BY <1>1, <1>2 DEF TypeOK, indexes
<1>5. StartedBefore'
  <2>1. \A r \in Allocated : heap[r].start_time \in Time
    BY DEF TypeOK, Record
  <2> QED BY <1>1, <1>2, <2>1, BoundsAssumption DEF StartedBefore, Time
<1>6. Drained'
  BY <1>1, <1>2 DEF indexes, Drained
<1> QED BY <1>3, <1>4, <1>5, <1>6

\* A step that changes no variable.
LEMMA StutterIInv ==
  ASSUME IInv, UNCHANGED vars
  PROVE  IInv'
  BY DEF IInv, vars, indexes, TypeOK, IndexesAgree, RecordsOwnedOnce, Drained,
         StartedBefore, Allocated, Filled, InHandler, Adders, Markers

-----------------------------------------------------------------------------

\* IInv is inductive.
LEMMA NextIInv == IInv /\ [Next]_vars => IInv'
<1> SUFFICES ASSUME IInv, [Next]_vars PROVE IInv'
  OBVIOUS
<1>1. ASSUME NEW p \in Pid, Enter(p) \/ Resume(p)
      PROVE  IInv'
  <2>1. CASE ForkEnter(p)
    BY <2>1, ForkEnterIInv
  <2>2. CASE AddRecord(p)
    BY <2>2, AddRecordIInv
  <2>3. CASE MarkExit(p)
    BY <2>3, MarkExitIInv
  <2>4. CASE ExitEnter(p) \/ AddReturn(p) \/ MarkReturn(p)
    BY <2>4, EnterAndReturnIInv
  <2> QED BY <1>1, <2>1, <2>2, <2>3, <2>4 DEF Enter, Resume
<1>2. CASE Write
  <2>1. CASE ClearRecords
    BY <2>1, ClearRecordsIInv
  <2>2. CASE ResetStats \/ \E on \in BOOLEAN : SetMonitoring(on) \/ SetFilter(on)
    BY <2>2, FlagsIInv
  <2> QED BY <1>2, <2>1, <2>2 DEF Write
<1>3. CASE Load \/ Rmmod
  BY <1>3, StepIInv
<1>4. CASE Unload
  BY <1>4, StepIInv, FreeRecordsIInv DEF Unload
<1>5. CASE Tick
  BY <1>5, TickIInv
<1>6. CASE Gone \/ UNCHANGED vars
  BY <1>6, StutterIInv DEF Gone
<1> QED BY <1>1, <1>2, <1>3, <1>4, <1>5, <1>6 DEF Next

\* IInv holds always; the theorems below read their part off it.
LEMMA AlwaysIInv == Spec => []IInv
  BY InitIInv, NextIInv, PTL DEF Spec

\* Every variable keeps its type: record_count stays within MaxRecords, and
\* what is read of a record in a critical section is a record.
THEOREM TypeCorrect == Spec => []TypeOK
<1>1. IInv => TypeOK
  BY DEF IInv
<1> QED BY <1>1, AlwaysIInv, PTL

\* List, hash chain, tree and count always speak of the same records.
THEOREM IndexesAlwaysAgree == Spec => []IndexesAgree
<1>1. IInv => IndexesAgree
  BY DEF IInv
<1> QED BY <1>1, AlwaysIInv, PTL

\* Every allocated record has one owner: no leak, no double free, no dangling
\* link, whatever forks, exits, clears and unloads interleave.
THEOREM RecordsAlwaysOwnedOnce == Spec => []RecordsOwnedOnce
<1>1. IInv => RecordsOwnedOnce
  BY DEF IInv
<1> QED BY <1>1, AlwaysIInv, PTL

\* The unloaded module has freed every record, and no handler is left.
THEOREM UnloadAlwaysLeavesNothing == Spec => []UnloadLeavesNothing
<1>1. IInv => UnloadLeavesNothing
  <2> SUFFICES ASSUME IInv PROVE UnloadLeavesNothing
    OBVIOUS
  <2>1. phase \in {"exit_proc", "exit_free", "unloaded"} => Adders = {} /\ Markers = {}
    BY DEF IInv, Drained
  <2>2. ASSUME phase = "unloaded"
        PROVE  Allocated = {}
    <3>1. Filled = {}
      BY <2>1, <2>2 DEF Filled, Adders, InHandler
    <3>2. Range(process_list) = {}
      BY <2>2 DEF IInv, Drained, Range
    <3> QED BY <3>1, <3>2 DEF IInv, RecordsOwnedOnce
  <2> QED BY <2>1, <2>2 DEF UnloadLeavesNothing
<1> QED BY <1>1, AlwaysIInv, PTL

-----------------------------------------------------------------------------

\* What each step does to the statistics.
LEMMA StatsSteps ==
  ASSUME [Next]_vars
  PROVE  \/ stats' = stats
         \/ stats' = ZeroFullStats
         \/ stats' = CountCreate(stats)
         \/ \E p \in Pid : /\ MarkExit(p)
                         /\ \E lifetime : stats' = NoteLifetime(CountExit(stats), lifetime)
<1>1. ASSUME NEW p \in Pid, AddRecord(p)
      PROVE  stats' = CountCreate(stats)
  BY <1>1 DEF AddRecord
<1>2. ASSUME NEW p \in Pid, MarkExit(p)
      PROVE  stats' = stats \/ \E lifetime : stats' = NoteLifetime(CountExit(stats), lifetime)
  BY <1>2 DEF MarkExit, MarkFound
<1>3. CASE ResetStats
  BY <1>3 DEF ResetStats
<1>4. ASSUME NEW p \in Pid, ForkEnter(p) \/ AddReturn(p) \/ ExitEnter(p) \/ MarkReturn(p)
      PROVE  stats' = stats
  BY <1>4 DEF ForkEnter, AddReturn, ExitEnter, MarkReturn
<1>5. ASSUME \/ ClearRecords \/ \E on \in BOOLEAN : SetMonitoring(on) \/ SetFilter(on)
      PROVE  stats' = stats
  BY <1>5 DEF ClearRecords, SetMonitoring, SetFilter
<1>6. ASSUME Load \/ Rmmod \/ Unload \/ Tick \/ Gone \/ UNCHANGED vars
      PROVE  stats' = stats
  BY <1>6
  DEF Load, CreateFiles, MkdirFails, CreateFileFails, RegisterFork, RegisterForkFails,
      RegisterExit, RegisterExitFails, AbortFork, CleanupProc, Rmmod, Unload,
      UnregisterFork, UnregisterExit, RemoveFiles, FreeRecords, Step, Tick, Gone, vars
<1> QED BY <1>1, <1>2, <1>3, <1>4, <1>5, <1>6 DEF Next, Enter, Resume, Write

\* current_processes is always created minus exited, resets and wrapping
\* around included.
THEOREM CountsAlwaysConserved == Spec => []CountsConserved
<1>1. Init => CountsConserved
  BY DEF Init, CountsConserved, ZeroFullStats, Minus
<1>2. TypeOK /\ CountsConserved /\ [Next]_vars => CountsConserved'
  <2> SUFFICES ASSUME TypeOK, CountsConserved, [Next]_vars PROVE CountsConserved'
    OBVIOUS
  <2>1. stats \in FullStats /\ Balanced(stats)
    BY DEF TypeOK, CountsConserved, Balanced
  <2>2. Balanced(ZeroFullStats)
    BY DEF Balanced, ZeroFullStats, Minus
  <2>3. Balanced(stats')
    BY <2>1, <2>2, StatsSteps, BalanceKept
  <2> QED BY <2>3 DEF CountsConserved, Balanced
<1> QED BY <1>1, <1>2, TypeCorrect, PTL DEF Spec

-----------------------------------------------------------------------------

\* The handlers that have passed the check and not inserted yet are finitely
\* many; the one that inserts is no longer among them.
LEMMA InsertersCounted ==
  ASSUME TypeOK
  PROVE  /\ Cardinality(InHandler({"add"})) \in Nat
         /\ \A p \in Pid : AddRecord(p) =>
              Cardinality(InHandler({"add"})') = Cardinality(InHandler({"add"})) - 1
<1>1. IsFiniteSet(InHandler({"add"}))
  BY BoundsAssumption, FS_Subset DEF InHandler
<1>2. ASSUME NEW p \in Pid, AddRecord(p)
      PROVE  /\ p \in InHandler({"add"})
             /\ InHandler({"add"})' = InHandler({"add"}) \ {p}
  BY <1>2 DEF AddRecord, InHandler, TypeOK
<1> QED BY <1>1, <1>2, FS_CardinalityType, FS_RemoveElement

\* The other steps of a stopped monitor leave the inserters as they are, and
\* count no creation.
LEMMA StoppedSteps ==
  ASSUME TypeOK, [Next]_vars, ~monitoring_enabled
  PROVE  \/ \E p \in Pid : AddRecord(p)
         \/ /\ InHandler({"add"})' = InHandler({"add"})
            /\ stats'.total_processes_created \in {stats.total_processes_created, 0}
<1> DEFINE Idle == /\ InHandler({"add"})' = InHandler({"add"})
                   /\ stats'.total_processes_created \in {stats.total_processes_created, 0}
<1>1. ASSUME NEW p \in Pid, AddReturn(p) \/ ExitEnter(p) \/ MarkReturn(p)
      PROVE  Idle
  BY <1>1 DEF AddReturn, ExitEnter, MarkReturn, InHandler, TypeOK
<1>2. ASSUME NEW p \in Pid, ForkEnter(p)
      PROVE  FALSE
  BY <1>2 DEF ForkEnter
<1>3. ASSUME NEW p \in Pid, MarkExit(p)
      PROVE  Idle
  <2>1. InHandler({"add"})' = InHandler({"add"})
    BY <1>3 DEF MarkExit, InHandler, TypeOK
  <2>2. CountExit(stats) \in FullStats
        /\ CountExit(stats).total_processes_created = stats.total_processes_created
    BY FullStatsTyped DEF TypeOK, CountExit, FullStats
  <2>3. \A s \in FullStats : \A lifetime :
          NoteLifetime(s, lifetime).total_processes_created = s.total_processes_created
    BY DEF NoteLifetime, FullStats
  <2>4. stats' = stats \/ \E lifetime : stats' = NoteLifetime(CountExit(stats), lifetime)
    BY <1>3 DEF MarkExit, MarkFound
  <2> QED BY <2>1, <2>2, <2>3, <2>4
<1>4. CASE Write
  BY <1>4 DEF Write, ClearRecords, ResetStats, SetMonitoring, SetFilter, InHandler,
              ZeroFullStats
<1>5. CASE Load \/ Rmmod \/ Unload \/ Tick \/ Gone \/ UNCHANGED vars
  BY <1>5
  DEF Load, CreateFiles, MkdirFails, CreateFileFails, RegisterFork, RegisterForkFails,
      RegisterExit, RegisterExitFails, AbortFork, CleanupProc, Rmmod, Unload,
      UnregisterFork, UnregisterExit, RemoveFiles, FreeRecords, Step, Tick, Gone, vars,
      InHandler
<1> QED BY <1>1, <1>2, <1>3, <1>4, <1>5 DEF Next, Enter, Resume

\* A stopped monitor creates no more records than handlers were on their way,
\* whoever writes, exits or unloads meanwhile.
THEOREM StopAlwaysBoundsCreations == Spec => StopBoundsCreations
<1>1. TypeOK /\ TypeOK' /\ [Next]_vars
        => [~monitoring_enabled => Promised' <= Promised]_vars
  <2> SUFFICES ASSUME TypeOK, TypeOK', [Next]_vars, ~monitoring_enabled
               PROVE  Promised' <= Promised
    OBVIOUS
  <2> DEFINE created == stats.total_processes_created
             n == Cardinality(InHandler({"add"}))
  <2>1. created \in ULong /\ created \in Nat /\ n \in Nat
    <3>1. created \in ULong
      BY DEF TypeOK, FullStats
    <3>2. n \in Nat
      BY InsertersCounted
    <3> QED BY <3>1, <3>2, ULongMaxAssumption DEF ULong
  <2>2. ASSUME NEW p \in Pid, AddRecord(p)
        PROVE  created' + n' <= created + n
    <3>1. n' = n - 1
      BY <2>2, InsertersCounted
    <3>2. created' = Incr(created)
      BY <2>2 DEF AddRecord, CountCreate, TypeOK, FullStats
    <3>3. created' <= created + 1 /\ created' \in Nat
      BY <2>1, <3>2 DEF Incr
    <3> QED BY <2>1, <3>1, <3>3
  <2>3. ASSUME InHandler({"add"})' = InHandler({"add"}),
               created' \in {created, 0}
        PROVE  created' + n' <= created + n
    BY <2>1, <2>3
  <2>4. created' + n' <= created + n
    BY <2>2, <2>3, StoppedSteps
  <2> QED BY <2>4 DEF Promised
<1> QED BY <1>1, TypeCorrect, PTL DEF StopBoundsCreations, Spec

-----------------------------------------------------------------------------
(* The average lifetime.                                                   *)

\* Products grow with their factors.
LEMMA ProductMonotone ==
  ASSUME NEW a \in Nat, NEW b \in Nat, NEW n \in Nat, a <= b
  PROVE  a * n \in Nat /\ b * n \in Nat /\ a * n <= b * n
<1> DEFINE d == b - a
<1>1. d \in Nat
  OBVIOUS
<1> HIDE DEF d
<1>2. d * n \in Nat
  BY <1>1
<1>3. d * n = b * n - a * n
  BY DEF d
<1>4. a * n \in Nat /\ b * n \in Nat
  OBVIOUS
<1> QED BY <1>2, <1>3, <1>4

\* A quotient, rounded down, stays between the bounds of what is divided.
LEMMA QuotientBetween ==
  ASSUME NEW low \in Nat, NEW high \in Nat, NEW n \in Nat \ {0}, NEW sum \in Nat,
         low * n <= sum, sum <= high * n
  PROVE  low <= sum \div n /\ sum \div n <= high
<1> DEFINE q == sum \div n
<1>1. q \in Nat
  OBVIOUS
<1>2. q * n <= sum /\ sum < (q + 1) * n
  OBVIOUS
<1> HIDE DEF q
<1>3. ASSUME low > q PROVE FALSE
  <2>1. (q + 1) * n <= low * n
    BY <1>1, <1>3, ProductMonotone
  <2>2. (q + 1) * n \in Nat /\ low * n \in Nat
    BY <1>1
  <2> QED BY <1>2, <2>1, <2>2
<1>4. ASSUME q > high PROVE FALSE
  <2>1. (high + 1) * n <= q * n
    BY <1>1, <1>4, ProductMonotone
  <2>2. (high + 1) * n = high * n + n /\ high * n \in Nat /\ q * n \in Nat
    BY <1>1
  <2> QED BY <1>2, <2>1, <2>2
<1> QED BY <1>1, <1>3, <1>4 DEF q

\* An unsigned long keeps what it can hold.
LEMMA WrapKeeps ==
  ASSUME NEW n \in Nat, n <= ULongMax
  PROVE  Wrap(n) = n
BY ULongMaxAssumption DEF Wrap

\* The new average is between what both the old one and the new lifetime are
\* between, if the sum that it divides fits into an unsigned long.
LEMMA AverageBetween ==
  ASSUME NEW low \in Nat, NEW high \in Nat, NEW avg \in low .. high,
         NEW lifetime \in low .. high, NEW n \in Nat \ {0}, high * n <= ULongMax
  PROVE  NextAverage(avg, n, lifetime) \in low .. high
<1> DEFINE product == avg * (n - 1)
           sum     == product + lifetime
<1>1. avg \in Nat /\ lifetime \in Nat /\ n - 1 \in Nat /\ n \in Nat
  OBVIOUS
<1>2. /\ low * (n - 1) <= product /\ product <= high * (n - 1)
      /\ product \in Nat /\ low * (n - 1) \in Nat /\ high * (n - 1) \in Nat
  BY <1>1, ProductMonotone
<1>3. low * n = low * (n - 1) + low /\ high * n = high * (n - 1) + high
  OBVIOUS
<1> HIDE DEF product
<1>4. /\ sum \in Nat /\ low * n <= sum /\ sum <= high * n
      /\ product <= ULongMax /\ sum <= ULongMax
  BY <1>1, <1>2, <1>3, ULongMaxAssumption
<1>5. Wrap(Wrap(product) + lifetime) = sum
  BY <1>2, <1>4, WrapKeeps
<1> HIDE DEF sum
<1>6. low <= sum \div n /\ sum \div n <= high
  BY <1>4, QuotientBetween
<1>7. sum \div n \in Int
  BY <1>4
<1>8. NextAverage(avg, n, lifetime) = sum \div n
  BY <1>5 DEF NextAverage, product
<1> QED BY <1>6, <1>7, <1>8

\* The lifetimes of s are ordered, and none is longer than the clock has run.
LifetimesWithin(s) ==
  s.total_processes_exited > 0 => /\ s.shortest_lifetime <= s.avg_lifetime
                                  /\ s.avg_lifetime <= s.longest_lifetime
                                  /\ s.longest_lifetime <= MaxJiffies

\* One more lifetime leaves them ordered, if that many of the longest fit into
\* an unsigned long.
LEMMA NoteKeepsOrder ==
  ASSUME NEW s \in FullStats, LifetimesWithin(s), NEW lifetime \in 0 .. MaxJiffies,
         MaxJiffies * Incr(s.total_processes_exited) <= ULongMax
  PROVE  LifetimesWithin(NoteLifetime(CountExit(s), lifetime))
<1> DEFINE e     == s.total_processes_exited
           n     == Incr(e)
           short == s.shortest_lifetime
           avg   == s.avg_lifetime
           long  == s.longest_lifetime
           t     == CountExit(s)
           u     == NoteLifetime(t, lifetime)
<1>1. /\ e \in 0 .. ULongMax /\ n \in Nat /\ short \in Nat /\ avg \in Nat /\ long \in Nat
      /\ MaxJiffies \in Nat /\ MaxJiffies <= ULongMax /\ ULongMax \in Nat \ {0}
      /\ lifetime \in Nat /\ lifetime <= MaxJiffies
      /\ n = e + 1 \/ n = 0
  BY ULongMaxAssumption, BoundsAssumption DEF FullStats, ULong, Incr
<1>2. /\ t \in FullStats /\ t.total_processes_exited = n
      /\ t.shortest_lifetime = short /\ t.avg_lifetime = avg /\ t.longest_lifetime = long
  BY FullStatsTyped DEF CountExit, FullStats
<1> DEFINE first == n = 1
           long2  == IF first \/ lifetime > long  THEN lifetime ELSE long
           short2 == IF first \/ lifetime < short THEN lifetime ELSE short
<1>3. /\ u.total_processes_exited = n
      /\ u.longest_lifetime = long2
      /\ u.shortest_lifetime = short2
      /\ n > 0 => u.avg_lifetime = NextAverage(avg, n, lifetime)
  <2> HIDE DEF t, n, short, avg, long
  <2> QED BY <1>1, <1>2 DEF NoteLifetime, FullStats
<1>4. e > 0 => short <= avg /\ avg <= long /\ long <= MaxJiffies
  BY DEF LifetimesWithin
<1>5. MaxJiffies * n <= ULongMax
  OBVIOUS
<1> SUFFICES LifetimesWithin(u)
  OBVIOUS
<1> HIDE DEF u, t, n, e, short, avg, long
<1>6. CASE n = 1
  <2>1. NextAverage(avg, n, lifetime) = lifetime
    <3>1. avg * (n - 1) = 0
      BY <1>1, <1>6
    <3>2. Wrap(0) = 0 /\ Wrap(lifetime) = lifetime
      BY <1>1, WrapKeeps
    <3>3. lifetime \div 1 = lifetime
      BY <1>1
    <3> QED BY <1>1, <1>6, <3>1, <3>2, <3>3 DEF NextAverage
  <2> QED BY <1>1, <1>3, <1>6, <2>1 DEF LifetimesWithin
<1>7. CASE n > 1
  <2>1. e > 0 /\ n \in Nat \ {0}
    BY <1>1, <1>7
  <2>2. /\ long2 \in Nat /\ short2 \in Nat /\ long2 <= MaxJiffies
        /\ avg \in short2 .. long2 /\ lifetime \in short2 .. long2
    BY <1>1, <1>4, <1>7, <2>1
  <2> HIDE DEF long2, short2
  <2>3. long2 * n <= ULongMax
    <3>1. long2 * n <= MaxJiffies * n /\ long2 * n \in Nat /\ MaxJiffies * n \in Nat
      BY <1>1, <2>2, ProductMonotone
    <3> QED BY <1>1, <1>5, <3>1
  <2>4. NextAverage(avg, n, lifetime) \in short2 .. long2
    BY <2>1, <2>2, <2>3, AverageBetween
  <2>5. /\ u.shortest_lifetime <= u.avg_lifetime /\ u.avg_lifetime <= u.longest_lifetime
        /\ u.longest_lifetime <= MaxJiffies
    BY <1>3, <2>1, <2>2, <2>4 DEF long2, short2
  <2> QED BY <2>5 DEF LifetimesWithin
<1>8. CASE n = 0
  BY <1>3, <1>8 DEF LifetimesWithin
<1> QED BY <1>1, <1>6, <1>7, <1>8

\* A lifetime is time on the clock.
LEMMA LifetimeOnClock ==
  ASSUME IInv, NEW p \in Pid, MarkExit(p)
  PROVE  \/ stats' = stats
         \/ \E lifetime \in 0 .. MaxJiffies : stats' = NoteLifetime(CountExit(stats), lifetime)
<1>1. PICK r \in Range(process_hash) \cup {NoRec} :
        IF r = NoRec THEN UNCHANGED <<heap, stats>> ELSE MarkFound(r)
  BY DEF MarkExit
<1>2. CASE r = NoRec
  BY <1>1, <1>2
<1>3. CASE r # NoRec
  <2>1. r \in Allocated
    <3>1. p \in Markers
      BY DEF MarkExit, Markers, InHandler, IInv, TypeOK
    <3>2. Range(process_hash) = Range(process_list)
      BY <3>1, ReverseProperties DEF IInv, Drained, IndexesAgree, TypeOK
    <3> QED BY <1>1, <1>3, <3>2 DEF IInv, RecordsOwnedOnce
  <2>2. /\ heap[r] \in Record /\ heap[r].start_time <= jiffies
        /\ heap[r].start_time \in Nat /\ jiffies \in 0 .. MaxJiffies
        /\ HZ \in Nat \ {0} /\ MaxJiffies \in Nat
    BY <2>1, BoundsAssumption DEF IInv, TypeOK, StartedBefore, Record, Time
  <2>3. jiffies - heap[r].start_time \in 0 .. MaxJiffies
    BY <2>2
  <2>4. (jiffies - heap[r].start_time) \div HZ \in 0 .. (jiffies - heap[r].start_time)
    BY <2>2, <2>3
  <2>5. /\ Exited(heap[r]).start_time = heap[r].start_time
        /\ Exited(heap[r]).end_time = jiffies
    BY <2>2 DEF Exited, Record
  <2>6. Lifetime(Exited(heap[r])) \in 0 .. MaxJiffies
    BY <2>2, <2>3, <2>4, <2>5 DEF Lifetime
  <2> QED BY <1>1, <1>3, <2>6 DEF MarkFound
<1> QED BY <1>2, <1>3

\* The longest lifetimes there can be, one for each exit counted, fit into an
\* unsigned long together.
SumsFit == MaxJiffies * stats.total_processes_exited <= ULongMax

\* While sums fit, and with 64 bits they do for long, the average is between the
\* shortest and the longest lifetime, however often it was rounded down and
\* the statistics were reset.
THEOREM LifetimesOrderedWhileSumsFit == Spec /\ []SumsFit => []LifetimesOrdered
<1> DEFINE Inv == LifetimesWithin(stats)
<1>1. Init => Inv
  BY DEF Init, LifetimesWithin, ZeroFullStats
<1>2. IInv /\ Inv /\ SumsFit' /\ [Next]_vars => Inv'
  <2> SUFFICES ASSUME IInv, LifetimesWithin(stats), SumsFit', [Next]_vars
               PROVE  LifetimesWithin(stats')
    BY DEF LifetimesWithin
  <2>1. stats \in FullStats
    BY DEF IInv, TypeOK
  <2>2. CASE stats' \in {stats, ZeroFullStats, CountCreate(stats)}
    <3>1. LifetimesWithin(ZeroFullStats)
      BY DEF LifetimesWithin, ZeroFullStats
    <3>2. LifetimesWithin(CountCreate(stats))
      BY <2>1 DEF LifetimesWithin, CountCreate, FullStats
    <3> QED BY <2>2, <3>1, <3>2
  <2>3. ASSUME NEW p \in Pid, MarkExit(p)
        PROVE  LifetimesWithin(stats')
    <3>1. CASE stats' = stats
      BY <3>1
    <3>2. ASSUME NEW lifetime \in 0 .. MaxJiffies,
                 stats' = NoteLifetime(CountExit(stats), lifetime)
          PROVE  LifetimesWithin(stats')
      <4>1. stats'.total_processes_exited = Incr(stats.total_processes_exited)
        BY <2>1, <3>2 DEF NoteLifetime, CountExit, FullStats
      <4>2. MaxJiffies * Incr(stats.total_processes_exited) <= ULongMax
        BY <4>1 DEF SumsFit
      <4> QED BY <2>1, <3>2, <4>2, NoteKeepsOrder
    <3> QED BY <2>3, <3>1, <3>2, LifetimeOnClock
  <2> QED BY <2>2, <2>3, StatsSteps
<1>3. Inv => LifetimesOrdered
  BY DEF LifetimesWithin, LifetimesOrdered
<1> QED BY <1>1, <1>2, <1>3, AlwaysIInv, PTL DEF Spec

-----------------------------------------------------------------------------
(* CompleteMonitor implements RecordLog: the records the list points to,   *)
(* in its order, are the log.  A step of the monitor inserts one record,   *)
(* marks one, clears the log, or does not change it at all.                *)

\* A record that a handler has filled in is RUNNING until it is linked: only
\* a record of the chain is marked.
FilledRunning == \A p \in InHandler({"add"}) : heap[ptr[p]].status = RUNNING

-----------------------------------------------------------------------------

\* The log is a sequence of records as long as the list.
LogShape ==
  /\ ListedRecords \in Seq(Record)
  /\ Len(ListedRecords) = Len(process_list)
  /\ DOMAIN ListedRecords = 1 .. Len(process_list)
  /\ \A i \in 1 .. Len(process_list) :
       /\ process_list[i] \in Range(process_list)
       /\ process_list[i] \in Allocated
       /\ ListedRecords[i] = heap[process_list[i]]

\* Every listed record is allocated, so the log has that shape.
LEMMA ListedRecordsType == IInv => LogShape
<1> SUFFICES ASSUME IInv PROVE LogShape
  OBVIOUS
<1>1. /\ Len(process_list) \in Nat
      /\ DOMAIN process_list = 1 .. Len(process_list)
  BY LenProperties DEF IInv, TypeOK
<1>2. \A i \in 1 .. Len(process_list) :
        process_list[i] \in Range(process_list) /\ process_list[i] \in Allocated
  BY <1>1 DEF IInv, RecordsOwnedOnce, Range
<1>3. /\ DOMAIN ListedRecords = 1 .. Len(process_list)
      /\ \A i \in 1 .. Len(process_list) : ListedRecords[i] = heap[process_list[i]]
      /\ ListedRecords \in [1 .. Len(process_list) -> Record]
  BY <1>1, <1>2 DEF ListedRecords, IInv, TypeOK
<1> QED BY <1>1, <1>2, <1>3 DEF LogShape

\* A step that leaves the list and its records alone leaves the log alone.
LEMMA LogFrame ==
  ASSUME IInv, process_list' = process_list,
         \A x \in Range(process_list) : heap'[x] = heap[x]
  PROVE  ListedRecords' = ListedRecords
<1>1. \A i \in DOMAIN process_list : process_list[i] \in Range(process_list)
  BY DEF Range
<1> QED BY <1>1 DEF ListedRecords

\* FilledRunning is inductive, given IInv.
LEMMA NextFilledRunning == IInv /\ FilledRunning /\ [Next]_vars => FilledRunning'
<1> SUFFICES ASSUME IInv, FilledRunning, [Next]_vars PROVE FilledRunning'
  OBVIOUS
<1> DEFINE H == InHandler({"add"})
<1>1. /\ \A q \in H : ptr[q] \in Filled /\ ptr[q] \in Allocated
      /\ \A q \in H : ptr[q] \notin Range(process_list)
  BY DEF Filled, IInv, RecordsOwnedOnce
<1>2. ASSUME NEW p \in Pid, ForkEnter(p)
      PROVE  FilledRunning'
  <2>1. PICK r \in Rec \ Allocated :
          /\ Kmalloc(r, NewRecord(p))
          /\ ptr' = [ptr EXCEPT ![p] = r]
    BY <1>2 DEF ForkEnter
  <2>2. H' = H \cup {p} /\ p \notin H
    BY <1>2 DEF ForkEnter, InHandler, IInv, TypeOK
  <2>3. heap'[r].status = RUNNING /\ \A x \in Allocated : heap'[x] = heap[x]
    BY <2>1 DEF Kmalloc, NewRecord, Allocated
  <2>4. ptr'[p] = r /\ \A q \in H : ptr'[q] = ptr[q]
    BY <2>1, <2>2 DEF InHandler, IInv, TypeOK
  <2> QED BY <1>1, <2>2, <2>3, <2>4 DEF FilledRunning
<1>3. ASSUME NEW p \in Pid, AddRecord(p)
      PROVE  FilledRunning'
  <2>1. H' \subseteq H /\ ptr' = ptr
    BY <1>3 DEF AddRecord, InHandler, IInv, TypeOK
  <2>2. CASE InsertWithRoom(ptr[p])
    BY <2>1, <2>2 DEF InsertWithRoom, FilledRunning
  <2>3. CASE InsertEvictingOldest(ptr[p])
    <3>1. phase # "unloaded"
      BY <1>3 DEF AddRecord, IInv, Drained, Adders, InHandler
    <3>2. process_list \in Seq(Rec) /\ process_list # <<>>
      BY <2>3, <3>1, BoundsAssumption DEF InsertEvictingOldest, IInv, IndexesAgree, TypeOK
    <3>3. Head(process_list) \in Range(process_list)
      BY <3>2, TailRange
    <3>4. \A x \in Allocated : x # Head(process_list) => heap'[x] = heap[x]
      BY <2>3 DEF InsertEvictingOldest, Kfree
    <3> QED BY <1>1, <2>1, <3>3, <3>4 DEF FilledRunning
  <2> QED BY <1>3, <2>2, <2>3 DEF AddRecord
<1>4. ASSUME NEW p \in Pid, MarkExit(p)
      PROVE  FilledRunning'
  <2>1. PICK r \in Range(process_hash) \cup {NoRec} :
          /\ ptr' = [ptr EXCEPT ![p] = r]
          /\ IF r = NoRec THEN UNCHANGED <<heap, stats>> ELSE MarkFound(r)
    BY <1>4 DEF MarkExit
  <2>2. H' = H /\ p \notin H /\ p \in Markers
    BY <1>4 DEF MarkExit, InHandler, Markers, IInv, TypeOK
  <2>3. Range(process_hash) = Range(process_list)
    BY <2>2, ReverseProperties DEF IInv, Drained, IndexesAgree, TypeOK
  <2>4. \A q \in H : heap'[ptr[q]] = heap[ptr[q]]
    BY <1>1, <2>1, <2>3 DEF MarkFound, Allocated
  <2>5. \A q \in H : ptr'[q] = ptr[q]
    BY <2>1, <2>2 DEF InHandler, IInv, TypeOK
  <2> QED BY <2>2, <2>4, <2>5 DEF FilledRunning
<1>5. ASSUME NEW p \in Pid, AddReturn(p) \/ ExitEnter(p) \/ MarkReturn(p)
      PROVE  FilledRunning'
  <2>1. H' = H /\ p \notin H /\ heap' = heap
    BY <1>5 DEF AddReturn, ExitEnter, MarkReturn, InHandler, IInv, TypeOK
  <2>2. \A q \in H : ptr'[q] = ptr[q]
    BY <1>5, <2>1 DEF AddReturn, ExitEnter, MarkReturn, InHandler, IInv, TypeOK
  <2> QED BY <2>1, <2>2 DEF FilledRunning
<1>6. CASE ClearRecords \/ FreeRecords
  <2>1. \A x \in Allocated \ Range(process_list) : heap'[x] = heap[x]
    BY <1>6 DEF ClearRecords, FreeRecords, Kfree
  <2>2. H' = H /\ ptr' = ptr
    BY <1>6 DEF ClearRecords, FreeRecords, InHandler
  <2> QED BY <1>1, <2>1, <2>2 DEF FilledRunning
<1>7. ASSUME UNCHANGED <<heap, pc, ptr>>
      PROVE  FilledRunning'
  BY <1>7 DEF FilledRunning, InHandler
<1>8. ASSUME \/ ResetStats \/ \E on \in BOOLEAN : SetMonitoring(on) \/ SetFilter(on)
             \/ Load \/ Rmmod \/ UnregisterFork \/ UnregisterExit \/ RemoveFiles
             \/ Tick \/ Gone \/ UNCHANGED vars
      PROVE  UNCHANGED <<heap, pc, ptr>>
  BY <1>8
  DEF ResetStats, SetMonitoring, SetFilter, Load, CreateFiles, MkdirFails,
      CreateFileFails, RegisterFork, RegisterForkFails, RegisterExit, RegisterExitFails,
      AbortFork, CleanupProc, Rmmod, UnregisterFork, UnregisterExit, RemoveFiles, Step,
      Tick, Gone, vars
<1> QED
  BY <1>2, <1>3, <1>4, <1>5, <1>6, <1>7, <1>8 DEF Next, Enter, Resume, Write, Unload

-----------------------------------------------------------------------------

\* The critical section of add_process_record is an Insert of the log.
LEMMA AddRecordInserts ==
  ASSUME IInv, FilledRunning, NEW p \in Pid, AddRecord(p)
  PROVE  heap[ptr[p]] \in Record /\ Log!Insert(heap[ptr[p]])
<1> DEFINE r == ptr[p]
           list == process_list
           log == ListedRecords
<1>1. /\ pc[p] = "add" /\ pc' = [pc EXCEPT ![p] = "added"] /\ ptr' = ptr
      /\ InsertWithRoom(r) \/ InsertEvictingOldest(r)
  BY DEF AddRecord
<1>2. /\ phase # "unloaded"
      /\ r \in Rec /\ r \in Allocated /\ r \notin Range(list)
  BY <1>1, HandOver
<1>3. heap[r] \in Record /\ heap[r].status = RUNNING
  BY <1>1, <1>2 DEF FilledRunning, InHandler, IInv, TypeOK
<1>4. /\ record_count = Len(list)
      /\ list \in Seq(Rec)
      /\ IsInjective(list)
      /\ Len(list) \in Nat
  BY <1>2, LenProperties DEF IInv, IndexesAgree, RecordsOwnedOnce, TypeOK
<1>5. IInv'
  BY AddRecordIInv
<1>6. /\ log \in Seq(Record) /\ log' \in Seq(Record)
      /\ Len(log) = Len(list) /\ Len(log') = Len(list')
      /\ \A i \in 1 .. Len(list) :
           list[i] \in Range(list) /\ list[i] \in Allocated /\ log[i] = heap[list[i]]
      /\ \A i \in 1 .. Len(list') : log'[i] = heap'[list'[i]]
  <2>1. IInv' => LogShape'
    BY ListedRecordsType, PTL
  <2> QED BY <1>5, <2>1, ListedRecordsType DEF LogShape
<1> DEFINE kept == IF Len(log) >= MaxRecords THEN Tail(log) ELSE log
<1>7. log' = Append(kept, heap[r])
  <2>1. CASE InsertWithRoom(r)
    <3>1. /\ ~(Len(log) >= MaxRecords)
          /\ list' = Append(list, r)
          /\ heap' = heap
      BY <1>4, <1>6, <2>1, BoundsAssumption DEF InsertWithRoom
    <3> HIDE DEF r, list, log
    <3>2. /\ Len(list') = Len(list) + 1
          /\ \A i \in 1 .. Len(list) : list'[i] = list[i]
          /\ list'[Len(list) + 1] = r
      BY <1>2, <1>4, <3>1, AppendProperties
    <3>3. /\ Append(log, heap[r]) \in Seq(Record)
          /\ Len(Append(log, heap[r])) = Len(log) + 1
          /\ \A i \in 1 .. Len(log) : Append(log, heap[r])[i] = log[i]
          /\ Append(log, heap[r])[Len(log) + 1] = heap[r]
      BY <1>3, <1>6, AppendProperties
    <3>4. \A i \in 1 .. Len(log') : log'[i] = Append(log, heap[r])[i]
      BY <1>4, <1>6, <3>1, <3>2, <3>3
    <3>5. log' = Append(log, heap[r])
      BY <1>6, <3>2, <3>3, <3>4, SeqEqual
    <3> QED BY <3>1, <3>5
  <2>2. CASE InsertEvictingOldest(r)
    <3>1. /\ Len(log) >= MaxRecords
          /\ list' = Append(Tail(list), r)
          /\ heap' = [x \in Allocated \ {Head(list)} |-> heap[x]]
      BY <1>4, <1>6, <2>2, BoundsAssumption DEF InsertEvictingOldest, Kfree
    <3> HIDE DEF r, list, log
    <3>2. list # <<>> /\ log # <<>>
      BY <1>4, <1>6, <3>1, BoundsAssumption
    <3>3. /\ Tail(list) \in Seq(Rec)
          /\ Len(Tail(list)) = Len(list) - 1
          /\ \A i \in 1 .. Len(list) - 1 : Tail(list)[i] = list[i + 1]
          /\ Tail(log) \in Seq(Record)
          /\ Len(Tail(log)) = Len(list) - 1
          /\ \A i \in 1 .. Len(list) - 1 : Tail(log)[i] = log[i + 1]
      BY <1>4, <1>6, <3>2, HeadTailProperties
    <3>4. /\ Len(list') = Len(list)
          /\ \A i \in 1 .. Len(list) - 1 : list'[i] = list[i + 1]
          /\ list'[Len(list)] = r
      BY <1>2, <1>4, <3>1, <3>3, AppendProperties
    <3>5. /\ Append(Tail(log), heap[r]) \in Seq(Record)
          /\ Len(Append(Tail(log), heap[r])) = Len(list)
          /\ \A i \in 1 .. Len(list) - 1 : Append(Tail(log), heap[r])[i] = log[i + 1]
          /\ Append(Tail(log), heap[r])[Len(list)] = heap[r]
      BY <1>3, <1>4, <3>3, AppendProperties
    <3>6. /\ Head(list) = list[1] /\ Head(list) \in Range(list)
          /\ \A i \in 1 .. Len(list) - 1 : list[i + 1] # Head(list)
      <4>1. Head(list) = list[1] /\ Head(list) \in Range(list)
        BY <1>4, <3>2, TailRange
      <4>2. DOMAIN list = 1 .. Len(list)
        BY <1>4, LenProperties
      <4> QED BY <1>4, <4>1, <4>2 DEF IsInjective
    <3>7. heap'[r] = heap[r]
      BY <1>2, <3>1, <3>6
    <3>8. \A i \in 1 .. Len(list) - 1 : heap'[list[i + 1]] = log[i + 1]
      BY <1>4, <1>6, <3>1, <3>6
    <3>9. \A i \in 1 .. Len(log') : log'[i] = Append(Tail(log), heap[r])[i]
      <4> SUFFICES ASSUME NEW i \in 1 .. Len(list)
                   PROVE  log'[i] = Append(Tail(log), heap[r])[i]
        BY <1>6, <3>4
      <4>1. CASE i = Len(list)
        BY <1>6, <3>4, <3>5, <3>7, <4>1
      <4>2. CASE i # Len(list)
        <5>1. i \in 1 .. Len(list) - 1
          BY <1>4, <4>2
        <5> QED BY <1>6, <3>4, <3>5, <3>8, <5>1
      <4> QED BY <4>1, <4>2
    <3>10. log' = Append(Tail(log), heap[r])
      BY <1>6, <3>4, <3>5, <3>9, SeqEqual
    <3> QED BY <3>1, <3>10
  <2> QED BY <1>1, <2>1, <2>2
<1>8. Log!Insert(heap[r])
  BY <1>3, <1>7 DEF Log!Insert, RUNNING, Log!RUNNING
<1> QED BY <1>3, <1>8

\* The critical section of mark_process_exit marks one record of the log, or
\* none when the process has no RUNNING record.
LEMMA MarkExitMarks ==
  ASSUME IInv, NEW p \in Pid, MarkExit(p)
  PROVE  \/ UNCHANGED <<ListedRecords, stats>>
         \/ \E i \in DOMAIN ListedRecords : Log!MarkExited(i, jiffies)
<1> DEFINE list == process_list
           log == ListedRecords
<1>1. PICK r \in Range(process_hash) \cup {NoRec} :
        /\ IsFoundByPid(r, p)
        /\ IF r = NoRec THEN UNCHANGED <<heap, stats>> ELSE MarkFound(r)
  BY DEF MarkExit
<1>2. p \in Markers /\ list' = list /\ jiffies \in Time
  BY DEF MarkExit, Markers, InHandler, indexes, IInv, TypeOK
<1>3. CASE r = NoRec
  BY <1>1, <1>2, <1>3, LogFrame
<1>4. CASE r # NoRec
  <2>1. Range(process_hash) = Range(list)
    BY <1>2, ReverseProperties DEF IInv, Drained, IndexesAgree, TypeOK
  <2>2. /\ \A i \in 1 .. Len(list) :
             list[i] \in Range(list) /\ list[i] \in Allocated /\ log[i] = heap[list[i]]
        /\ DOMAIN log = 1 .. Len(list)
        /\ DOMAIN list = 1 .. Len(list)
        /\ IsInjective(list)
    BY ListedRecordsType, LenProperties DEF LogShape, IInv, RecordsOwnedOnce, TypeOK
  <2>3. PICK i \in 1 .. Len(list) : list[i] = r
    BY <1>1, <1>4, <2>1, <2>2 DEF Range
  <2>4. heap[r].status = RUNNING
    <3>1. RunningOf(p) # {} /\ \E j \in RunningOf(p) : r = process_hash[j]
      BY <1>1, <1>4, NoRecAssumption DEF IsFoundByPid
    <3> QED BY <3>1 DEF RunningOf
  <2>5. heap' = [heap EXCEPT ![r] = Exited(heap[r])]
    BY <1>1, <1>4 DEF MarkFound
  <2>6. \A j \in 1 .. Len(list) : j # i => list[j] # r
    BY <2>2, <2>3 DEF IsInjective
  <2>7. heap[r] \in Record /\ r \in Allocated /\ heap[r].start_time <= jiffies
    BY <2>2, <2>3 DEF IInv, TypeOK, StartedBefore
  <2>8. log' = [log EXCEPT ![i] = Exited(heap[r])]
    <3>1. DOMAIN log' = 1 .. Len(list)
      BY <1>2, <2>2 DEF ListedRecords
    <3>2. \A j \in 1 .. Len(list) : log'[j] = heap'[list[j]]
      BY <1>2, <2>2 DEF ListedRecords
    <3>3. log'[i] = Exited(heap[r])
      BY <2>3, <2>5, <2>7, <3>2 DEF Allocated
    <3>4. \A j \in 1 .. Len(list) : j # i => log'[j] = log[j]
      BY <2>2, <2>5, <2>6, <3>2 DEF Allocated
    <3>5. log' = [j \in 1 .. Len(list) |-> log'[j]]
      BY <1>2, <2>2 DEF ListedRecords
    <3>6. log = [j \in 1 .. Len(list) |-> log[j]]
      BY <2>2 DEF ListedRecords
    <3> HIDE DEF log, list
    <3> QED BY <3>3, <3>4, <3>5, <3>6
  <2>9. log[i] = heap[r]
    BY <2>2, <2>3
  <2>10. log' = [log EXCEPT ![i].status = EXITED, ![i].end_time = jiffies]
    BY <2>2, <2>8, <2>9 DEF Exited
  <2>11. Log!MarkExited(i, jiffies)
    BY <2>4, <2>7, <2>9, <2>10
    DEF Log!MarkExited, Log!RUNNING, Log!EXITED, RUNNING, EXITED
  <2> QED BY <2>2, <2>11
<1> QED BY <1>3, <1>4

\* A clear, and the last loop of the unload, clear the log.
LEMMA ClearClears ==
  ASSUME process_list' = <<>>
  PROVE  Log!Next
<1>1. ListedRecords' = <<>>
  BY DEF ListedRecords
<1> QED BY <1>1 DEF Log!Next, Log!Clear

\* Every step of the monitor is a step of the log or leaves it alone.
LEMMA NextImplementsLog ==
  IInv /\ FilledRunning /\ [Next]_vars => [Log!Next]_ListedRecords
<1> SUFFICES ASSUME IInv, FilledRunning, [Next]_vars
             PROVE  Log!Next \/ ListedRecords' = ListedRecords
  OBVIOUS
<1>1. ASSUME NEW p \in Pid, ForkEnter(p)
      PROVE  ListedRecords' = ListedRecords
  <2>1. process_list' = process_list /\ \A x \in Allocated : heap'[x] = heap[x]
    BY <1>1 DEF ForkEnter, Kmalloc, Allocated, indexes
  <2> QED BY <2>1, LogFrame DEF IInv, RecordsOwnedOnce
<1>2. ASSUME NEW p \in Pid, AddRecord(p)
      PROVE  Log!Next
  <2>1. Log!Record = Record
    BY DEF Record, Log!Record, RUNNING, EXITED, Log!RUNNING, Log!EXITED
  <2> QED BY <1>2, <2>1, AddRecordInserts DEF Log!Next
<1>3. ASSUME NEW p \in Pid, MarkExit(p)
      PROVE  Log!Next \/ ListedRecords' = ListedRecords
  <2>1. jiffies \in Time
    BY DEF IInv, TypeOK
  <2> QED BY <1>3, <2>1, MarkExitMarks DEF Log!Next
<1>4. CASE ClearRecords \/ FreeRecords
  BY <1>4, ClearClears DEF ClearRecords, FreeRecords
<1>5. ASSUME UNCHANGED <<process_list, heap>>
      PROVE  ListedRecords' = ListedRecords
  BY <1>5 DEF ListedRecords
<1>6. ASSUME NEW p \in Pid, AddReturn(p) \/ ExitEnter(p) \/ MarkReturn(p)
      PROVE  UNCHANGED <<process_list, heap>>
  BY <1>6 DEF AddReturn, ExitEnter, MarkReturn, indexes
<1>7. ASSUME \/ ResetStats \/ \E on \in BOOLEAN : SetMonitoring(on) \/ SetFilter(on)
             \/ Load \/ Rmmod \/ UnregisterFork \/ UnregisterExit \/ RemoveFiles
             \/ Tick \/ Gone \/ UNCHANGED vars
      PROVE  UNCHANGED <<process_list, heap>>
  BY <1>7
  DEF ResetStats, SetMonitoring, SetFilter, Load, CreateFiles, MkdirFails,
      CreateFileFails, RegisterFork, RegisterForkFails, RegisterExit, RegisterExitFails,
      AbortFork, CleanupProc, Rmmod, UnregisterFork, UnregisterExit, RemoveFiles, Step,
      Tick, Gone, vars, indexes
<1> QED
  BY <1>1, <1>2, <1>3, <1>4, <1>5, <1>6, <1>7 DEF Next, Enter, Resume, Write, Unload

\* The monitor implements the bounded log: what it evicts is the oldest record,
\* what an exit changes is one RUNNING record, in place, and nothing else ever
\* changes a record.
THEOREM MonitorImplementsLog == Spec => ImplementsLog
<1>1. Init => Log!Init /\ FilledRunning
  BY DEF Init, Log!Init, ListedRecords, FilledRunning, InHandler
<1> QED
  BY <1>1, AlwaysIInv, NextFilledRunning, NextImplementsLog, PTL
  DEF Spec, ImplementsLog, Log!Spec

-----------------------------------------------------------------------------
(* Sums that fit for ever.                                                 *)

\* The contents of records that have not exited.
RunningRecords == {record \in Record : record.status = RUNNING}

\* A record exits once.  A reset forgets the creations of those that run, and
\* these are not more than the list holds.
ExitsCounted ==
  /\ Promised <= MaxCreated
  /\ stats.total_processes_exited + Cardinality(Places(ListedRecords, RunningRecords))
       <= stats.total_processes_created + MaxRecords

\* ExitsCounted is inductive, given IInv and FilledRunning, where the bound on
\* creations keeps their counter from wrapping.
LEMMA NextExitsCounted ==
  ASSUME MaxCreated <= ULongMax, IInv, FilledRunning, ExitsCounted, [Next]_vars
  PROVE  ExitsCounted'
<1> DEFINE log == ListedRecords
           H   == InHandler({"add"})
           n   == Cardinality(H)
           c   == stats.total_processes_created
           e   == stats.total_processes_exited
           running(l) == Cardinality(Places(l, RunningRecords))
<1>1. /\ stats \in FullStats /\ c \in Nat /\ e \in Nat /\ c <= ULongMax /\ e <= ULongMax
      /\ MaxCreated \in Nat /\ MaxRecords \in Nat \ {0} /\ ULongMax \in Nat \ {0}
  BY ULongMaxAssumption, BoundsAssumption DEF IInv, TypeOK, FullStats, ULong
<1>2. IsFiniteSet(H) /\ n \in Nat
  <2>1. IsFiniteSet(H)
    BY BoundsAssumption, FS_Subset DEF InHandler
  <2> QED BY <2>1, FS_CardinalityType
<1>3. /\ log \in Seq(Record) /\ Len(log) \in Nat /\ Len(log) <= MaxRecords
      /\ DOMAIN log = 1 .. Len(log)
  <2>1. log \in Seq(Record) /\ Len(log) = Len(process_list)
    BY ListedRecordsType DEF LogShape
  <2>2. CASE phase # "unloaded"
    BY <1>1, <2>1, <2>2, LenProperties DEF IInv, IndexesAgree, TypeOK
  <2>3. CASE phase = "unloaded"
    <3>1. process_list = <<>> /\ Len(<<>>) = 0
      BY <2>3 DEF IInv, Drained
    <3> QED BY <1>1, <2>1, <3>1, LenProperties
  <2> QED BY <2>2, <2>3
<1>4. \A l \in Seq(Record) : running(l) \in Nat
  BY PlacesFinite
<1>5. running(log) <= Len(log)
  <2>1. Places(log, RunningRecords) \in SUBSET (1 .. Len(log))
    BY <1>3 DEF Places
  <2>2. IsFiniteSet(1 .. Len(log)) /\ Cardinality(1 .. Len(log)) = Len(log)
    BY <1>3, FS_Interval
  <2> QED BY <2>1, <2>2, FS_Subset
<1>6. c + n <= MaxCreated /\ e + running(log) <= c + MaxRecords
  BY DEF ExitsCounted, Promised
<1>7. ASSUME c' + n' <= MaxCreated, e' + running(log)' <= c' + MaxRecords
      PROVE  ExitsCounted'
  BY <1>7 DEF ExitsCounted, Promised
<1> HIDE DEF log
<1>8. ASSUME NEW p \in Pid, AddRecord(p)
      PROVE  ExitsCounted'
  <2>1. n' = n - 1 /\ n # 0
    <3>1. p \in H
      BY <1>8 DEF AddRecord, InHandler
    <3> QED BY <1>2, <1>8, <3>1, InsertersCounted, FS_EmptySet DEF IInv
  <2>2. stats' = CountCreate(stats)
    BY <1>8 DEF AddRecord
  <2>3. c' = c + 1 /\ e' = e
    <3>1. c' = Incr(c) /\ e' = e
      BY <1>1, <2>2 DEF CountCreate, FullStats
    <3>2. c # ULongMax
      BY <1>1, <1>2, <1>6, <2>1
    <3> QED BY <3>1, <3>2 DEF Incr
  <2> DEFINE r    == heap[ptr[p]]
             kept == IF Len(log) >= MaxRecords THEN Tail(log) ELSE log
  <2>4. r \in Record /\ r \in RunningRecords /\ log' = Append(kept, r)
    BY <1>8, AddRecordInserts DEF Log!Insert, RunningRecords, log, RUNNING, Log!RUNNING
  <2>5. kept \in Seq(Record) /\ running(kept) <= running(log)
    <3>1. CASE Len(log) >= MaxRecords
      <4>1. log # <<>>
        BY <1>1, <1>3, <3>1, EmptySeq
      <4>2. Tail(log) \in Seq(Record) /\ running(Tail(log)) <= running(log)
        BY <1>3, <4>1, HeadTailProperties, PlacesTail
      <4> QED BY <3>1, <4>2
    <3>2. CASE ~(Len(log) >= MaxRecords)
      <4>1. running(log) \in Nat
        BY <1>3, <1>4
      <4> HIDE DEF running
      <4> QED BY <1>3, <3>2, <4>1
    <3> QED BY <3>1, <3>2
  <2> HIDE DEF kept, r
  <2>6. running(log') = running(kept) + 1
    BY <2>4, <2>5, PlacesAppend
  <2>7. running(kept) \in Nat /\ running(log) \in Nat
    BY <1>3, <1>4, <2>5
  <2>8. running(log)' = running(log')
    BY DEF RunningRecords, Places
  <2> HIDE DEF running, c, e, n
  <2>9. e' + running(log)' <= c' + MaxRecords
    <3>1. running(log)' <= running(log) + 1 /\ running(log)' \in Nat
      BY <2>5, <2>6, <2>7, <2>8
    <3> QED BY <1>1, <1>6, <2>3, <2>7, <3>1
  <2>10. c' + n' <= MaxCreated
    BY <1>1, <1>2, <1>6, <2>1, <2>3
  <2> QED BY <1>7, <2>9, <2>10
<1>9. ASSUME NEW p \in Pid, MarkExit(p)
      PROVE  ExitsCounted'
  <2>1. H' = H
    BY <1>9 DEF MarkExit, InHandler, IInv, TypeOK
  <2>2. c' = c /\ e' \in {e, Incr(e)}
    <3>1. CASE stats' = stats
      BY <3>1
    <3>2. ASSUME NEW lifetime, stats' = NoteLifetime(CountExit(stats), lifetime)
          PROVE  c' = c /\ e' \in {e, Incr(e)}
      BY <1>1, <3>2 DEF NoteLifetime, CountExit, FullStats
    <3> QED BY <1>9, <3>1, <3>2, LifetimeOnClock
  <2>3. e' \in Nat /\ e' <= e + 1
    BY <1>1, <2>2 DEF Incr
  <2>4. CASE UNCHANGED <<ListedRecords, stats>>
    <3>1. running(log)' = running(log)
      BY <2>4 DEF log, Places, RunningRecords
    <3> QED BY <1>6, <1>7, <2>1, <2>4, <3>1
  <2>5. CASE \E j \in DOMAIN ListedRecords : Log!MarkExited(j, jiffies)
    <3>1. PICK j \in DOMAIN log :
            /\ log[j].status = RUNNING
            /\ log' = [log EXCEPT ![j].status = EXITED, ![j].end_time = jiffies]
      BY <2>5 DEF Log!MarkExited, log, RUNNING, EXITED, Log!RUNNING, Log!EXITED
    <3> DEFINE d == [log[j] EXCEPT !.status = EXITED, !.end_time = jiffies]
    <3>2. log[j] \in Record /\ log[j] \in RunningRecords
      BY <1>3, <3>1, LenProperties DEF RunningRecords
    <3>3. d \in Record /\ d \notin RunningRecords
      <4>1. jiffies \in Time
        BY DEF IInv, TypeOK
      <4>2. d.status = EXITED /\ d \in Record
        BY <3>2, <4>1 DEF Record
      <4> HIDE DEF d
      <4> QED BY <4>2 DEF RunningRecords, RUNNING, EXITED
    <3>4. log' = [log EXCEPT ![j] = d]
      BY <3>1
    <3> HIDE DEF d
    <3>5. running(log') = running(log) + 0 - 1
      BY <1>3, <3>2, <3>3, <3>4, PlacesReplace
    <3>6. running(log)' = running(log') /\ running(log) \in Nat
      BY <1>3, <1>4 DEF RunningRecords, Places
    <3> HIDE DEF running
    <3>7. e' + running(log)' <= c' + MaxRecords
      BY <1>1, <1>6, <2>2, <2>3, <3>5, <3>6
    <3> HIDE DEF c, e
    <3>8. c' + n' <= MaxCreated
      BY <1>6, <2>1, <2>2
    <3> QED BY <1>7, <3>7, <3>8
  <2> QED BY <1>9, <2>4, <2>5, MarkExitMarks
<1>10. ASSUME stats' = stats, H' = H, log' = <<>>
       PROVE  ExitsCounted'
  <2>1. Places(<<>>, RunningRecords) = {}
    BY DEF Places
  <2>2. running(log)' = 0
    BY <1>10, <2>1, FS_EmptySet DEF RunningRecords, Places
  <2>3. running(log) \in Nat
    BY <1>3, <1>4
  <2> HIDE DEF running
  <2>4. e' + running(log)' <= c' + MaxRecords
    BY <1>1, <1>6, <1>10, <2>2, <2>3
  <2> QED BY <1>6, <1>7, <1>10, <2>4
<1>11. ASSUME stats' = ZeroFullStats, H' = H, log' = log
       PROVE  ExitsCounted'
  <2>1. running(log)' = running(log) /\ running(log) \in Nat
    BY <1>3, <1>4, <1>11 DEF RunningRecords, Places
  <2>2. c' = 0 /\ e' = 0
    BY <1>11 DEF ZeroFullStats
  <2> HIDE DEF running
  <2>3. e' + running(log)' <= c' + MaxRecords
    BY <1>1, <1>3, <1>5, <2>1, <2>2
  <2> HIDE DEF c, e
  <2>4. c' + n' <= MaxCreated
    BY <1>1, <1>2, <1>6, <1>11, <2>2
  <2> QED BY <1>7, <2>3, <2>4
<1>12. ASSUME stats' = stats, log' = log,
              H' = H \/ (c + n < MaxCreated /\ \E p : H' = H \cup {p})
       PROVE  ExitsCounted'
  <2>1. running(log)' = running(log)
    BY <1>12 DEF RunningRecords, Places
  <2>2. c + n' <= MaxCreated
    <3>1. CASE H' = H
      BY <1>6, <3>1
    <3>2. ASSUME c + n < MaxCreated, NEW p, H' = H \cup {p}
          PROVE  c + n' <= MaxCreated
      <4>1. Cardinality(H') \in {n, n + 1}
        BY <1>2, <3>2, FS_AddElement
      <4> QED BY <1>1, <1>2, <3>2, <4>1
    <3> QED BY <1>12, <3>1, <3>2
  <2> QED BY <1>6, <1>7, <1>12, <2>1, <2>2
<1>13. ASSUME NEW p \in Pid, ForkEnter(p)
       PROVE  ExitsCounted'
  <2>1. process_list' = process_list /\ \A z \in Allocated : heap'[z] = heap[z]
    BY <1>13 DEF ForkEnter, Kmalloc, Allocated, indexes
  <2>2. log' = log
    BY <2>1, LogFrame DEF IInv, RecordsOwnedOnce, log
  <2>3. stats' = stats /\ c + n < MaxCreated /\ H' = H \cup {p}
    BY <1>13 DEF ForkEnter, Promised, InHandler, IInv, TypeOK
  <2> QED BY <1>12, <2>2, <2>3
<1>14. CASE ClearRecords \/ FreeRecords
  BY <1>10, <1>14 DEF ClearRecords, FreeRecords, InHandler, ListedRecords, log
<1>15. CASE ResetStats
  <2>1. stats' = ZeroFullStats /\ UNCHANGED <<process_list, heap, pc>>
    BY <1>15 DEF ResetStats, indexes
  <2> QED BY <1>11, <2>1 DEF log, ListedRecords, InHandler
<1>16. ASSUME UNCHANGED <<stats, process_list, heap>>, H' = H
       PROVE  ExitsCounted'
  BY <1>12, <1>16 DEF log, ListedRecords
<1>17. ASSUME NEW p \in Pid, AddReturn(p) \/ ExitEnter(p) \/ MarkReturn(p)
       PROVE  UNCHANGED <<stats, process_list, heap>> /\ H' = H
  BY <1>17 DEF AddReturn, ExitEnter, MarkReturn, indexes, InHandler, IInv, TypeOK
<1>18. ASSUME \/ \E on \in BOOLEAN : SetMonitoring(on) \/ SetFilter(on)
              \/ Load \/ Rmmod \/ UnregisterFork \/ UnregisterExit \/ RemoveFiles
              \/ Tick \/ Gone \/ UNCHANGED vars
       PROVE  UNCHANGED <<stats, process_list, heap, pc>>
  BY <1>18
  DEF SetMonitoring, SetFilter, Load, CreateFiles, MkdirFails,
      CreateFileFails, RegisterFork, RegisterForkFails, RegisterExit, RegisterExitFails,
      AbortFork, CleanupProc, Rmmod, UnregisterFork, UnregisterExit, RemoveFiles, Step,
      Tick, Gone, vars, indexes
<1>19. UNCHANGED pc => H' = H
  BY DEF InHandler
<1> HIDE DEF H, n, c, e, running
<1> QED
  BY <1>8, <1>9, <1>13, <1>14, <1>15, <1>16, <1>17, <1>18, <1>19
  DEF Next, Enter, Resume, Write, Unload

\* The average is between the shortest and the longest lifetime whenever the
\* bounds let sums fit, with one exit for each creation and for each record
\* that a reset finds running.
THEOREM LifetimesAlwaysOrdered ==
  ASSUME MaxCreated <= ULongMax, MaxJiffies * (MaxCreated + MaxRecords) <= ULongMax
  PROVE  Spec => []LifetimesOrdered
<1>1. Init => FilledRunning /\ ExitsCounted
  <2> SUFFICES ASSUME Init PROVE FilledRunning /\ ExitsCounted
    OBVIOUS
  <2>1. InHandler({"add"}) = {} /\ ListedRecords = <<>> /\ Places(<<>>, RunningRecords) = {}
    BY DEF Init, InHandler, ListedRecords, Places
  <2>2. /\ stats.total_processes_created = 0 /\ stats.total_processes_exited = 0
        /\ MaxCreated \in Nat /\ MaxRecords \in Nat /\ Cardinality({}) = 0
    BY FS_EmptySet, BoundsAssumption DEF Init, ZeroFullStats
  <2>3. FilledRunning
    BY <2>1 DEF FilledRunning
  <2>4. Cardinality(Places(ListedRecords, RunningRecords)) = 0
    BY <2>1, <2>2
  <2>5. Cardinality(InHandler({"add"})) = 0
    BY <2>1, <2>2
  <2> QED BY <2>2, <2>3, <2>4, <2>5 DEF ExitsCounted, Promised
<1>2. IInv /\ FilledRunning /\ ExitsCounted /\ [Next]_vars => FilledRunning' /\ ExitsCounted'
  BY NextFilledRunning, NextExitsCounted
<1>3. IInv /\ ExitsCounted => SumsFit
  <2> SUFFICES ASSUME IInv, ExitsCounted PROVE SumsFit
    OBVIOUS
  <2> DEFINE e == stats.total_processes_exited
             c == stats.total_processes_created
             n == Cardinality(Places(ListedRecords, RunningRecords))
             h == Cardinality(InHandler({"add"}))
  <2>1. n \in Nat
    BY ListedRecordsType, PlacesFinite DEF LogShape
  <2>2. h \in Nat
    BY InsertersCounted DEF IInv
  <2>3. /\ e \in Nat /\ c \in Nat /\ MaxCreated \in Nat /\ MaxRecords \in Nat
        /\ MaxJiffies \in Nat /\ ULongMax \in Nat
    BY ULongMaxAssumption, BoundsAssumption DEF IInv, TypeOK, FullStats, ULong
  <2>4. c + h <= MaxCreated /\ e + n <= c + MaxRecords
    BY DEF ExitsCounted, Promised
  <2> HIDE DEF e, c, n, h
  <2>5. e <= MaxCreated + MaxRecords /\ MaxCreated + MaxRecords \in Nat
    BY <2>1, <2>2, <2>3, <2>4
  <2>6. e * MaxJiffies <= (MaxCreated + MaxRecords) * MaxJiffies
    BY <2>3, <2>5, ProductMonotone
  <2>7. /\ e * MaxJiffies = MaxJiffies * e
        /\ (MaxCreated + MaxRecords) * MaxJiffies = MaxJiffies * (MaxCreated + MaxRecords)
        /\ MaxJiffies * e \in Int /\ MaxJiffies * (MaxCreated + MaxRecords) \in Int
    BY <2>3, <2>5
  <2>8. MaxJiffies * e <= ULongMax
    BY <2>3, <2>6, <2>7
  <2> QED BY <2>8 DEF SumsFit, e
<1> QED
  BY <1>1, <1>2, <1>3, AlwaysIInv, LifetimesOrderedWhileSumsFit, PTL DEF Spec

=============================================================================
