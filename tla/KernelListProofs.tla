-------------------------- MODULE KernelListProofs --------------------------
(***************************************************************************)
(* The safety of KernelList while commands do not overlap, for every set   *)
(* of users and every limit.                                               *)
(*                                                                         *)
(* Nothing of the list, of the count or of the memory fits together in the *)
(* middle of a command, so the invariant says what the one command that is *)
(* running has done and has still to do at each of its places.             *)
(***************************************************************************)
EXTENDS KernelList, ListLemmas, FiniteSetTheorems, TLAPS

\* What the caller is doing.
Command(c) ==
  /\ pc[c] \in {"check", "oldest", "kmalloc", "number", "number_store", "link", "more",
                "more_store", "report"} => op[c] = "add"
  /\ pc[c] \in {"walk", "next"} => op[c] # "add"
  /\ pc[c] = "test" => op[c] = "del"
  /\ pc[c] \in {"less", "less_store"} => op[c] # "clear"
  /\ pc[c] = "reset" => op[c] = "clear"

\* Who owns the memory: the list, and the record between list and allocator.
Owned(c) ==
  IF pc[c] \in {"free", "number", "number_store", "link"}
  THEN rec[c] \in Record \ Range(record_list) /\ Allocated = Range(record_list) \cup {rec[c]}
  ELSE Allocated = Range(record_list)

\* How far the count is from the list; a clear catches up at its end.
Counted(c) ==
  /\ op[c] # "clear" /\ pc[c] \notin {"free", "less", "less_store", "more", "more_store"}
       => record_count = Len(record_list)
  /\ op[c] # "clear" /\ pc[c] \in {"free", "less", "less_store"}
       => record_count = Len(record_list) + 1
  /\ pc[c] \in {"more", "more_store"} => record_count = Len(record_list) - 1
  /\ pc[c] \in {"kmalloc", "number", "number_store", "link"}
       => Len(record_list) < MAX_RECORDS
  /\ pc[c] = "oldest" => record_list # <<>>
  /\ pc[c] \in {"less_store", "more_store"} => v[c] = record_count

\* Where the caller is in the list; a clear is always at its head.
Cursor(c) ==
  /\ pc[c] \in {"test", "unlink", "more", "more_store", "report"} => InList(rec[c])
  /\ pc[c] \in {"next", "test"} => tmp[c] = NULL \/ InList(tmp[c])
  /\ op[c] = "clear" =>
       /\ pc[c] \in {"next", "free"} => tmp[c] = Nth(1)
       /\ pc[c] = "unlink" => rec[c] = Nth(1) /\ tmp[c] = Nth(2)
       /\ pc[c] = "reset" => record_list = <<>>

\* The ids that are left, and the one of the new record.
Numbered(c) ==
  /\ op[c] = "add" /\ pc[c] \notin {"link", "more", "more_store", "report"}
       => next_id <= MaxId
  /\ pc[c] = "number_store" => v[c] = next_id
  /\ pc[c] = "link" => /\ id[rec[c]] < next_id
                       /\ \A i \in DOMAIN record_list : id[record_list[i]] < id[rec[c]]

Place(c) == Command(c) /\ Owned(c) /\ Counted(c) /\ Cursor(c) /\ Numbered(c)

\* Who may be running, and what is left of the list after the unload.
Phases ==
  /\ \A c \in User : pc[c] # "idle" => phase \in {"init", "live"}
  /\ pc[Module] # "idle" => \/ phase = "init" /\ op[Module] = "add" /\ initial < 2
                            \/ phase = "exit" /\ op[Module] = "clear"
  /\ phase \in {"exit", "unloaded"} /\ pc[Module] = "idle" => Allocated = {}

IInv ==
  /\ TypeOK /\ Alone /\ Phases
  /\ IsInjective(record_list) /\ IdsAscend /\ LimitKept /\ MemoryCounted
  /\ \A c \in Caller : pc[c] = "idle" => op[c] = "add"
  /\ \A c \in Busy : Place(c)

-----------------------------------------------------------------------------
(* One command at a time.                                                  *)

\* The records at the places of the list.
LEMMA RecordsPlaced ==
  ASSUME IInv
  PROVE  /\ record_list \in Seq(Record)
         /\ Len(record_list) \in Nat /\ DOMAIN record_list = 1 .. Len(record_list)
         /\ Range(record_list) \subseteq Record /\ NULL \notin Range(record_list)
         /\ \A n : Nth(n) = NULL \/ InList(Nth(n))
         /\ Nth(1) = NULL <=> record_list = <<>>
         /\ \A i, j \in DOMAIN record_list : record_list[i] = record_list[j] => i = j
<1>1. record_list \in Seq(Record)
  BY DEF IInv, TypeOK
<1>2. /\ Len(record_list) \in Nat /\ DOMAIN record_list = 1 .. Len(record_list)
      /\ \A i \in 1 .. Len(record_list) : record_list[i] \in Record
  BY <1>1, LenProperties, ElementOfSeq
<1>3. Range(record_list) \subseteq Record /\ NULL \notin Range(record_list)
  BY <1>2, NullAssumption DEF Range
<1>4. \A n : Nth(n) = NULL \/ InList(Nth(n))
  BY DEF Nth, InList, Range
<1>5. Nth(1) = NULL <=> record_list = <<>>
  <2>1. CASE record_list = <<>>
    <3>1. DOMAIN record_list = {}
      BY <1>1, <1>2, <2>1, EmptySeq
    <3> QED BY <2>1, <3>1 DEF Nth
  <2>2. CASE record_list # <<>>
    <3>1. 1 \in DOMAIN record_list
      BY <1>1, <1>2, <2>2, EmptySeq
    <3>2. Nth(1) \in Range(record_list)
      BY <3>1 DEF Nth, Range
    <3> QED BY <1>3, <2>2, <3>2
  <2> QED BY <2>1, <2>2
<1>6. \A i, j \in DOMAIN record_list : record_list[i] = record_list[j] => i = j
  BY DEF IInv, IsInjective
<1> QED BY <1>1, <1>2, <1>3, <1>4, <1>5, <1>6

\* Nobody else is inside before or after a step of a command.
LEMMA Solo ==
  ASSUME IInv, NEW c \in Caller, NEW from, NEW to, Step(c, from, to), Alone',
         from # "idle" \/ to # "idle"
  PROVE  /\ pc[c] = from /\ pc'[c] = to
         /\ \A d \in Caller \ {c} : pc[d] = "idle" /\ pc'[d] = "idle"
         /\ from # "idle" => Place(c)
         /\ from = "idle" => /\ Busy = {} /\ op[c] = "add"
                             /\ record_count = Len(record_list)
                             /\ Allocated = Range(record_list)
<1>1. pc \in [Caller -> {pc[d] : d \in Caller}]
  BY DEF IInv, TypeOK
<1>2. /\ pc[c] = from /\ pc'[c] = to
      /\ \A d \in Caller \ {c} : pc'[d] = pc[d]
  BY <1>1 DEF Step
<1>3. \A d \in Caller \ {c} : pc[d] = "idle"
  BY <1>2 DEF IInv, Alone, Busy
<1>4. from = "idle" => Busy = {} /\ op[c] = "add"
  BY <1>2, <1>3 DEF IInv, Busy
<1> QED BY <1>2, <1>3, <1>4 DEF IInv, Busy, MemoryCounted

\* A step in the middle of a command.
LEMMA Inside ==
  ASSUME IInv, NEW c \in Caller, NEW from, NEW to, Step(c, from, to), Alone',
         from # "idle", to # "idle", UNCHANGED <<phase, initial, op>>,
         TypeOK', IsInjective(record_list)', IdsAscend', LimitKept', Place(c)'
  PROVE  IInv'
<1>1. /\ pc[c] = from /\ pc'[c] = to
      /\ \A d \in Caller \ {c} : pc[d] = "idle" /\ pc'[d] = "idle"
  BY Solo
<1>2. \A d \in Caller : pc'[d] = "idle" => op'[d] = "add"
  BY <1>1 DEF IInv
<1>3. \A d \in Busy' : Place(d)'
  BY <1>1 DEF Busy
<1>4. Phases'
  BY <1>1 DEF IInv, Phases, Caller, Step
<1>5. MemoryCounted'
  <2>1. c \in Busy'
    BY <1>1 DEF Busy
  <2>2. phase # "unloaded"
    BY <1>1 DEF IInv, Phases, Caller
  <2> QED BY <2>1, <2>2 DEF MemoryCounted
<1> QED BY <1>2, <1>3, <1>4, <1>5 DEF IInv

\* The end of a command.
LEMMA Returned ==
  ASSUME IInv, NEW c \in Caller, NEW from, Step(c, from, "idle"), Alone',
         from # "idle", Return(c),
         TypeOK', IsInjective(record_list)', IdsAscend', LimitKept',
         (record_count = Len(record_list))', (Allocated = Range(record_list))',
         c = Module /\ op[c] = "clear" => Allocated' = {}
  PROVE  IInv'
<1>1. /\ pc[c] = from /\ pc'[c] = "idle"
      /\ \A d \in Caller \ {c} : pc[d] = "idle" /\ pc'[d] = "idle"
  BY Solo
<1>2. op \in [Caller -> {"add", "del", "clear"}]
  BY DEF IInv, TypeOK
<1>3. /\ op'[c] = "add" /\ \A d \in Caller \ {c} : op'[d] = op[d]
      /\ phase' = phase
  BY <1>2 DEF Return
<1>4. \A d \in Caller : pc'[d] = "idle" => op'[d] = "add"
  BY <1>1, <1>3 DEF IInv
<1>5. Busy' = {}
  BY <1>1 DEF Busy
<1>6. Phases'
  BY <1>1, <1>3 DEF IInv, Phases, Caller, Step
<1>7. MemoryCounted'
  <2>1. phase # "unloaded"
    BY <1>1 DEF IInv, Phases, Caller
  <2> QED BY <1>3, <2>1 DEF MemoryCounted
<1> QED BY <1>4, <1>5, <1>6, <1>7 DEF IInv

\* What the end of a command does to the types.
LEMMA ReturnType ==
  ASSUME IInv, NEW c \in Caller, NEW from, Step(c, from, "idle"), from # "idle", Return(c)
  PROVE  /\ pc' \in [Caller -> {"idle", "check", "oldest", "walk", "next", "test", "unlink",
                     "free", "less", "less_store", "reset", "kmalloc", "number",
                     "number_store", "link", "more", "more_store", "report"}]
         /\ op' \in [Caller -> {"add", "del", "clear"}]
         /\ rec' \in [Caller -> Record \cup {NULL}] /\ tmp' \in [Caller -> Record \cup {NULL}]
         /\ v' \in [Caller -> Nat] /\ initial' \in 0 .. 2 /\ phase' = phase
<1>1. initial' \in 0 .. 2
  BY DEF IInv, TypeOK, Phases, Return, Step
<1> QED BY <1>1 DEF IInv, TypeOK, Return, Take, Load, Step

\* The beginning of a command.
LEMMA Begun ==
  ASSUME IInv, NEW c \in Caller, NEW to, Step(c, "idle", to), Alone', to # "idle",
         UNCHANGED <<memory, numbers>>, \A d \in Caller \ {c} : op'[d] = op[d],
         TypeOK', Phases', Place(c)', phase' # "unloaded"
  PROVE  IInv'
<1>1. /\ pc'[c] = to
      /\ \A d \in Caller \ {c} : pc[d] = "idle" /\ pc'[d] = "idle"
  BY Solo
<1>2. \A d \in Caller : pc'[d] = "idle" => op'[d] = "add"
  BY <1>1 DEF IInv
<1>3. \A d \in Busy' : Place(d)'
  BY <1>1 DEF Busy
<1>4. MemoryCounted'
  BY <1>1 DEF MemoryCounted, Busy
<1>5. IsInjective(record_list)' /\ IdsAscend' /\ LimitKept'
  BY DEF IInv, IdsAscend, LimitKept, memory, numbers
<1> QED BY <1>2, <1>3, <1>4, <1>5 DEF IInv

\* A record that list_del takes out leaves the others in their order.
LEMMA UnlinkKeeps ==
  ASSUME IInv, NEW r, InList(r), record_list' = RemoveFirst(record_list, r),
         UNCHANGED <<id, next_id>>
  PROVE  /\ record_list' \in Seq(Record) /\ Len(record_list') = Len(record_list) - 1
         /\ Len(record_list) \in Nat \ {0}
         /\ Range(record_list') = Range(record_list) \ {r}
         /\ IsInjective(record_list)' /\ IdsAscend'
         /\ r = Nth(1) => Nth(1)' = Nth(2)
<1>1. /\ record_list \in Seq(Record) /\ IsInjective(record_list)
      /\ Len(record_list) \in Nat /\ DOMAIN record_list = 1 .. Len(record_list)
      /\ \A i, j \in DOMAIN record_list : record_list[i] = record_list[j] => i = j
  BY RecordsPlaced DEF IInv
<1>2. PICK n \in 1 .. Len(record_list) : record_list[n] = r
  BY <1>1 DEF InList, Range
<1> DEFINE t == RemoveFirst(record_list, r)
<1>3. /\ t \in Seq(Record) /\ Len(t) = Len(record_list) - 1
      /\ \A i \in 1 .. Len(record_list) - 1 :
           t[i] = IF i < n THEN record_list[i] ELSE record_list[i + 1]
  <2>1. t = RemoveFirst(record_list, record_list[n])
    BY <1>2
  <2> HIDE DEF t
  <2>2. /\ RemoveFirst(record_list, record_list[n]) \in Seq(Record)
        /\ Len(RemoveFirst(record_list, record_list[n])) = Len(record_list) - 1
        /\ \A i \in 1 .. Len(record_list) - 1 :
             RemoveFirst(record_list, record_list[n])[i]
               = IF i < n THEN record_list[i] ELSE record_list[i + 1]
    <3>1. record_list \in Seq(Record) /\ IsInjective(record_list)
      BY <1>1
    <3> QED BY <3>1, RemoveFirstProperties
  <2> QED BY <2>1, <2>2
<1>4. Range(t) = Range(record_list) \ {r} /\ IsInjective(t)
  BY <1>1, <1>2, RemoveFirstRange
<1>5. DOMAIN t = 1 .. Len(record_list) - 1
  BY <1>3, LenProperties
<1> HIDE DEF t
<1> DEFINE at(i) == IF i < n THEN i ELSE i + 1
<1>6. \A i \in DOMAIN t : at(i) \in DOMAIN record_list /\ t[i] = record_list[at(i)]
  <2> SUFFICES ASSUME NEW i \in DOMAIN t
               PROVE  at(i) \in DOMAIN record_list /\ t[i] = record_list[at(i)]
    OBVIOUS
  <2>1. at(i) \in DOMAIN record_list
    BY <1>1, <1>5
  <2> QED BY <1>3, <1>5, <2>1
<1>7. \A i, j \in DOMAIN t : i < j => at(i) < at(j)
  BY <1>1, <1>5
<1> HIDE DEF at
<1>8. \A i \in DOMAIN t :
        /\ id[t[i]] < next_id
        /\ \A j \in DOMAIN t : i < j => id[t[i]] < id[t[j]]
  BY <1>6, <1>7 DEF IInv, IdsAscend
<1>9. record_list' = t
  BY DEF t
<1>10. IdsAscend'
  BY <1>8, <1>9 DEF IdsAscend
<1>11. ASSUME r = Nth(1) PROVE Nth(1)' = Nth(2)
  <2>1. 1 \in DOMAIN record_list /\ n = 1
    BY <1>1, <1>2, <1>11 DEF Nth
  <2>2. CASE Len(record_list) = 1
    <3>1. 1 \notin DOMAIN t /\ 2 \notin DOMAIN record_list
      BY <1>1, <1>5, <2>2
    <3> QED BY <1>9, <3>1 DEF Nth
  <2>3. CASE Len(record_list) # 1
    <3>1. /\ 1 \in DOMAIN t /\ 2 \in DOMAIN record_list
          /\ 1 \in 1 .. Len(record_list) - 1
      BY <1>1, <1>5, <2>1, <2>3
    <3>2. t[1] = record_list[2]
      BY <1>3, <2>1, <3>1
    <3> QED BY <1>9, <3>1, <3>2 DEF Nth
  <2> QED BY <2>2, <2>3
<1>12. Len(record_list) \in Nat \ {0}
  BY <1>1, <1>2
<1>13. IsInjective(record_list)'
  BY <1>4, <1>9
<1> QED BY <1>3, <1>4, <1>9, <1>10, <1>11, <1>12, <1>13

\* A new record with the latest id comes last.
LEMMA LinkKeeps ==
  ASSUME IInv, NEW r \in Record, r \notin Range(record_list), id[r] < next_id,
         \A i \in DOMAIN record_list : id[record_list[i]] < id[r],
         record_list' = Append(record_list, r), UNCHANGED <<id, next_id>>
  PROVE  /\ record_list' \in Seq(Record) /\ Len(record_list') = Len(record_list) + 1
         /\ Len(record_list) \in Nat
         /\ Range(record_list') = Range(record_list) \cup {r}
         /\ IsInjective(record_list)' /\ IdsAscend'
<1>1. /\ record_list \in Seq(Record) /\ IsInjective(record_list)
      /\ Len(record_list) \in Nat /\ DOMAIN record_list = 1 .. Len(record_list)
  BY RecordsPlaced DEF IInv
<1> DEFINE t == Append(record_list, r)
           l == Len(record_list) + 1
<1>2. /\ t \in Seq(Record) /\ Len(t) = l
      /\ \A i \in 1 .. Len(record_list) : t[i] = record_list[i]
      /\ t[l] = r
  BY <1>1, AppendProperties
<1>3. Range(t) = Range(record_list) \cup {r} /\ IsInjective(t)
  BY <1>1, AppendRange
<1>4. DOMAIN t = 1 .. l
  BY <1>2, LenProperties
<1> HIDE DEF t
<1>5. /\ \A i \in DOMAIN t : i = l \/ i \in DOMAIN record_list
      /\ l \notin DOMAIN record_list /\ \A i \in DOMAIN record_list : ~(l < i)
  BY <1>1, <1>4
<1> HIDE DEF l
<1>6. \A i \in DOMAIN record_list : t[i] = record_list[i]
  BY <1>1, <1>2
<1>7. ASSUME NEW i \in DOMAIN t
      PROVE  /\ id[t[i]] < next_id
             /\ \A j \in DOMAIN t : i < j => id[t[i]] < id[t[j]]
  <2>1. CASE i = l
    <3>1. \A j \in DOMAIN t : ~(i < j)
      BY <1>5, <1>1, <2>1 DEF l
    <3> QED BY <1>2, <2>1, <3>1
  <2>2. CASE i \in DOMAIN record_list
    BY <1>2, <1>5, <1>6, <2>2 DEF IInv, IdsAscend
  <2> QED BY <1>5, <2>1, <2>2
<1>8. record_list' = t
  BY DEF t
<1>9. IdsAscend'
  BY <1>7, <1>8 DEF IdsAscend
<1> QED BY <1>1, <1>2, <1>3, <1>8, <1>9 DEF l

-----------------------------------------------------------------------------
(* Every step.                                                             *)

LEMMA InitIInv == Init => IInv
<1> SUFFICES ASSUME Init PROVE IInv
  OBVIOUS
<1>1. record_list = <<>> /\ Len(record_list) = 0 /\ DOMAIN record_list = {}
      /\ Range(record_list) = {} /\ record_list \in Seq(Record)
  BY EmptySeq, LenProperties DEF Init, Range
<1>2. Busy = {}
  BY DEF Init, Busy
<1>3. TypeOK
  BY <1>1, LimitsAssumption DEF Init, TypeOK
<1>4. IsInjective(record_list) /\ IdsAscend /\ LimitKept /\ MemoryCounted
  BY <1>1, LimitsAssumption DEF Init, IsInjective, IdsAscend, LimitKept, MemoryCounted
<1>5. Alone /\ Phases
  BY <1>2, CallersAssumption DEF Init, Alone, Phases, Caller
<1> QED BY <1>2, <1>3, <1>4, <1>5 DEF Init, IInv

LEMMA CallIInv ==
  ASSUME IInv, NEW c \in Caller, Alone',
         AddCall(c) \/ ClearCall(c) \/ \E x \in 1 .. MaxId : DelCall(c, x)
  PROVE  IInv'
<1>1. CASE AddCall(c)
  <2>1. Step(c, "idle", "check") /\ Ready(c) /\ next_id <= MaxId
        /\ UNCHANGED <<module, memory, numbers, locals>>
    BY <1>1 DEF AddCall
  <2>2. /\ pc'[c] = "check" /\ op[c] = "add" /\ Busy = {}
        /\ record_count = Len(record_list) /\ Allocated = Range(record_list)
        /\ \A d \in Caller \ {c} : pc[d] = "idle" /\ pc'[d] = "idle"
    BY <2>1, Solo
  <2>3. TypeOK'
    BY <2>1 DEF IInv, TypeOK, Step, module, memory, numbers, locals
  <2>4. Place(c)'
    BY <2>1, <2>2 DEF Place, Command, Owned, Counted, Cursor, Numbered, module, memory, numbers, locals
  <2>5. Phases' /\ phase' # "unloaded"
    BY <2>1, <2>2 DEF IInv, Phases, Caller, Ready, Step, module, locals
  <2> QED BY <2>1, <2>3, <2>4, <2>5, Begun DEF locals
<1>2. CASE ClearCall(c)
  <2>1. Step(c, "idle", "walk") /\ Ready(c) /\ c \in User
        /\ op' = [op EXCEPT ![c] = "clear"]
        /\ UNCHANGED <<module, memory, numbers, rec, tmp, v>>
    BY <1>2 DEF ClearCall
  <2>2. /\ pc'[c] = "walk" /\ op'[c] = "clear" /\ \A d \in Caller \ {c} : op'[d] = op[d]
        /\ Allocated = Range(record_list)
        /\ \A d \in Caller \ {c} : pc[d] = "idle" /\ pc'[d] = "idle"
    BY <2>1, Solo DEF IInv, TypeOK
  <2>3. TypeOK'
    BY <2>1 DEF IInv, TypeOK, Step, module, memory, numbers
  <2>4. Place(c)'
    BY <2>1, <2>2 DEF Place, Command, Owned, Counted, Cursor, Numbered, memory, numbers
  <2>5. Phases' /\ phase' # "unloaded"
    BY <2>1, <2>2, CallersAssumption DEF IInv, Phases, Caller, Ready, Step, module
  <2> QED BY <2>1, <2>2, <2>3, <2>4, <2>5, Begun
<1>3. CASE \E x \in 1 .. MaxId : DelCall(c, x)
  <2> PICK x \in 1 .. MaxId : DelCall(c, x)
    BY <1>3
  <2>1. Step(c, "idle", "walk") /\ Ready(c) /\ c \in User
        /\ op' = [op EXCEPT ![c] = "del"] /\ v' = [v EXCEPT ![c] = x]
        /\ UNCHANGED <<module, memory, numbers, rec, tmp>>
    BY DEF DelCall, Load
  <2>2. /\ pc'[c] = "walk" /\ op'[c] = "del" /\ \A d \in Caller \ {c} : op'[d] = op[d]
        /\ Allocated = Range(record_list) /\ record_count = Len(record_list)
        /\ \A d \in Caller \ {c} : pc[d] = "idle" /\ pc'[d] = "idle"
    BY <2>1, Solo DEF IInv, TypeOK
  <2>3. TypeOK'
    BY <2>1, LimitsAssumption DEF IInv, TypeOK, Step, module, memory, numbers
  <2>4. Place(c)'
    BY <2>1, <2>2 DEF Place, Command, Owned, Counted, Cursor, Numbered, memory, numbers
  <2>5. Phases' /\ phase' # "unloaded"
    BY <2>1, <2>2, CallersAssumption DEF IInv, Phases, Caller, Ready, Step, module
  <2> QED BY <2>1, <2>2, <2>3, <2>4, <2>5, Begun
<1> QED BY <1>1, <1>2, <1>3

\* A step that only looks at the list leaves everything but the caller's own
\* variables alone.
LEMMA LooksIInv ==
  ASSUME IInv, NEW c \in Caller, NEW from, NEW to, Step(c, from, to), Alone',
         from # "idle", to # "idle", UNCHANGED <<phase, initial, op, memory, numbers>>,
         rec' \in [Caller -> Record \cup {NULL}], tmp' \in [Caller -> Record \cup {NULL}],
         v' \in [Caller -> Nat],
         to \in {"oldest", "next", "test", "unlink", "reset", "kmalloc",
                 "less_store", "more_store", "number_store"},
         Place(c)'
  PROVE  IInv'
<1>1. TypeOK'
  BY DEF IInv, TypeOK, Step, memory, numbers
<1>2. IsInjective(record_list)' /\ IdsAscend' /\ LimitKept'
  BY DEF IInv, IdsAscend, LimitKept, memory, numbers
<1> QED BY <1>1, <1>2, Inside

LEMMA CheckIInv ==
  ASSUME IInv, NEW c \in Caller, Alone', Check(c)
  PROVE  IInv'
<1> DEFINE to == IF record_count >= MAX_RECORDS THEN "oldest" ELSE "kmalloc"
<1>1. Step(c, "check", to) /\ UNCHANGED <<module, memory, numbers, locals>>
  BY DEF Check
<1>2. to # "idle" /\ to \in {"oldest", "kmalloc"}
  OBVIOUS
<1>3. /\ pc[c] = "check" /\ pc'[c] = to /\ Place(c)
  BY <1>1, Solo
<1>4. /\ op[c] = "add" /\ record_count = Len(record_list) /\ Len(record_list) \in Nat
      /\ Allocated = Range(record_list) /\ next_id <= MaxId
  BY <1>3, RecordsPlaced DEF Place, Command, Owned, Counted, Numbered
<1>5. to = "oldest" => record_list # <<>>
  BY <1>4, LimitsAssumption, EmptySeq
<1>6. to = "kmalloc" => Len(record_list) < MAX_RECORDS
  BY <1>4, LimitsAssumption
<1> HIDE DEF to
<1>7. Place(c)'
  BY <1>1, <1>2, <1>3, <1>4, <1>5, <1>6
  DEF Place, Command, Owned, Counted, Cursor, Numbered, memory, numbers, locals
<1> QED
  BY <1>1, <1>2, <1>7, LooksIInv DEF IInv, TypeOK, module, memory, numbers, locals

\* A full list has an oldest record.
LEMMA OldestIInv ==
  ASSUME IInv, NEW c \in Caller, Alone', Oldest(c)
  PROVE  IInv'
<1>1. /\ Step(c, "oldest", "unlink") /\ rec' = [rec EXCEPT ![c] = Nth(1)]
      /\ UNCHANGED <<module, memory, numbers, op, tmp, v>>
  BY DEF Oldest, Take
<1>2. /\ pc[c] = "oldest" /\ pc'[c] = "unlink" /\ Place(c)
  BY <1>1, Solo
<1>3. InList(Nth(1)) /\ Nth(1) \in Record
  BY <1>2, RecordsPlaced DEF Place, Counted, InList
<1>4. rec' \in [Caller -> Record \cup {NULL}] /\ rec'[c] = Nth(1)
  BY <1>1, <1>3 DEF IInv, TypeOK
<1>5. Place(c)'
  BY <1>1, <1>2, <1>3, <1>4
  DEF Place, Command, Owned, Counted, Cursor, Numbered, InList, memory, numbers
<1> QED
  BY <1>1, <1>4, <1>5, LooksIInv DEF IInv, TypeOK, module

LEMMA WalkBeginIInv ==
  ASSUME IInv, NEW c \in Caller, Alone', WalkBegin(c)
  PROVE  IInv'
<1>1. /\ Step(c, "walk", "next") /\ tmp' = [tmp EXCEPT ![c] = Nth(1)]
      /\ UNCHANGED <<module, memory, numbers, op, rec, v>>
  BY DEF WalkBegin
<1>2. /\ pc[c] = "walk" /\ pc'[c] = "next" /\ Place(c)
  BY <1>1, Solo
<1>3. (Nth(1) = NULL \/ InList(Nth(1))) /\ Nth(1) \in Record \cup {NULL}
  BY RecordsPlaced DEF InList
<1>4. tmp' \in [Caller -> Record \cup {NULL}] /\ tmp'[c] = Nth(1)
  BY <1>1, <1>3 DEF IInv, TypeOK
<1>5. Nth(1)' = Nth(1)
  BY <1>1 DEF Nth, memory
<1>6. Place(c)'
  BY <1>1, <1>2, <1>3, <1>4, <1>5
  DEF Place, Command, Owned, Counted, Cursor, Numbered, InList, memory, numbers
<1> QED
  BY <1>1, <1>4, <1>6, LooksIInv DEF IInv, TypeOK, module

\* A clear stays at the head of the list.
LEMMA WalkNextIInv ==
  ASSUME IInv, NEW c \in Caller, Alone', WalkNext(c)
  PROVE  IInv'
<1> DEFINE to == IF op[c] = "del" THEN "test" ELSE "unlink"
           next == NextOf(tmp[c])
<1>1. /\ Step(c, "next", to) /\ InList(tmp[c])
      /\ rec' = [rec EXCEPT ![c] = tmp[c]] /\ tmp' = [tmp EXCEPT ![c] = next]
      /\ UNCHANGED <<module, memory, numbers, op, v>>
  BY DEF WalkNext, Take
<1>2. to # "idle" /\ to \in {"test", "unlink"} /\ (to = "unlink" <=> op[c] # "del")
  OBVIOUS
<1>3. /\ pc[c] = "next" /\ pc'[c] = to /\ Place(c)
  BY <1>1, Solo
<1>4. (next = NULL \/ InList(next)) /\ next \in Record \cup {NULL}
  BY RecordsPlaced DEF InList, NextOf
<1>5. op[c] = "clear" => tmp[c] = Nth(1) /\ next = Nth(2)
  <2> SUFFICES ASSUME op[c] = "clear" PROVE tmp[c] = Nth(1) /\ next = Nth(2)
    OBVIOUS
  <2>1. tmp[c] = Nth(1)
    BY <1>3 DEF Place, Cursor
  <2>2. 1 \in DOMAIN record_list /\ tmp[c] = record_list[1]
    BY <1>1, <2>1, RecordsPlaced DEF Nth, InList
  <2>3. \A n \in DOMAIN record_list : record_list[n] = record_list[1] => n = 1
    BY <2>2, RecordsPlaced
  <2> DEFINE place == CHOOSE n \in DOMAIN record_list : record_list[n] = tmp[c]
  <2>4. place = 1
    BY <2>2, <2>3
  <2>5. next = Nth(1 + place)
    BY DEF NextOf
  <2> HIDE DEF place
  <2>6. 1 + place = 2
    BY <2>4
  <2> QED BY <2>1, <2>5, <2>6
<1> HIDE DEF to, next
<1>6. /\ rec' \in [Caller -> Record \cup {NULL}] /\ rec'[c] = tmp[c]
      /\ tmp' \in [Caller -> Record \cup {NULL}] /\ tmp'[c] = next
  BY <1>1, <1>4 DEF IInv, TypeOK
<1>7. Nth(1)' = Nth(1) /\ Nth(2)' = Nth(2)
  BY <1>1 DEF Nth, memory
<1>8. Command(c)' /\ Owned(c)' /\ Counted(c)' /\ Numbered(c)'
  BY <1>1, <1>2, <1>3 DEF Place, Command, Owned, Counted, Numbered, memory, numbers
<1>9. Cursor(c)'
  BY <1>1, <1>2, <1>3, <1>4, <1>5, <1>6, <1>7 DEF Cursor, InList, memory
<1> QED
  BY <1>1, <1>2, <1>6, <1>8, <1>9, LooksIInv DEF IInv, TypeOK, module, Place

LEMMA TestIdIInv ==
  ASSUME IInv, NEW c \in Caller, Alone', TestId(c)
  PROVE  IInv'
<1> DEFINE to == IF id[rec[c]] = v[c] THEN "unlink" ELSE "next"
<1>1. /\ Step(c, "test", to) /\ UNCHANGED <<module, memory, numbers, locals>>
  BY DEF TestId
<1>2. to # "idle" /\ to \in {"unlink", "next"}
  OBVIOUS
<1> HIDE DEF to
<1>3. /\ pc[c] = "test" /\ pc'[c] = to /\ Place(c)
  BY <1>1, Solo
<1>4. Place(c)'
  BY <1>1, <1>2, <1>3
  DEF Place, Command, Owned, Counted, Cursor, Numbered, InList, memory, numbers, locals
<1> QED
  BY <1>1, <1>2, <1>4, LooksIInv DEF IInv, TypeOK, module, memory, numbers, locals

\* A walk that finds nothing leaves everything as it was, and a clear ends
\* when no record is left.
LEMMA WalkEndsIInv ==
  ASSUME IInv, NEW c \in Caller, Alone', WalkEnds(c)
  PROVE  IInv'
<1>1. CASE op[c] = "del"
  <2>1. Step(c, "next", "idle") /\ Return(c) /\ UNCHANGED <<memory, numbers>>
    BY <1>1 DEF WalkEnds
  <2>2. pc[c] = "next" /\ Place(c)
    BY <2>1, Solo
  <2>3. record_count = Len(record_list) /\ Allocated = Range(record_list)
    BY <1>1, <2>2 DEF Place, Counted, Owned
  <2>4. TypeOK'
    BY <2>1, ReturnType DEF IInv, TypeOK, memory, numbers
  <2>5. IsInjective(record_list)' /\ IdsAscend' /\ LimitKept'
    BY <2>1 DEF IInv, IdsAscend, LimitKept, memory, numbers
  <2>6. (record_count = Len(record_list))' /\ (Allocated = Range(record_list))'
    BY <2>1, <2>3 DEF memory, numbers
  <2> QED BY <1>1, <2>1, <2>4, <2>5, <2>6, Returned
<1>2. CASE op[c] # "del"
  <2>1. /\ Step(c, "next", "reset") /\ tmp[c] = NULL
        /\ UNCHANGED <<module, memory, numbers, locals>>
    BY <1>2 DEF WalkEnds
  <2>2. pc[c] = "next" /\ pc'[c] = "reset" /\ Place(c)
    BY <2>1, Solo
  <2>3. op[c] = "clear"
    BY <1>2, <2>2 DEF Place, Command, IInv, TypeOK
  <2>4. record_list = <<>>
    BY <2>1, <2>2, <2>3, RecordsPlaced DEF Place, Cursor
  <2>5. Place(c)'
    BY <2>1, <2>2, <2>3, <2>4
    DEF Place, Command, Owned, Counted, Cursor, Numbered, memory, numbers, locals
  <2> QED
    BY <2>1, <2>5, LooksIInv DEF IInv, TypeOK, module, memory, numbers, locals
<1> QED BY <1>1, <1>2

LEMMA LoadIInv ==
  ASSUME IInv, NEW c \in Caller, Alone', LessLoad(c) \/ MoreLoad(c) \/ IdLoad(c)
  PROVE  IInv'
<1>1. CASE LessLoad(c) \/ MoreLoad(c)
  <2> PICK from \in {"less", "more"}, to \in {"less_store", "more_store"} :
        /\ Step(c, from, to) /\ (from = "less" <=> to = "less_store")
        /\ v' = [v EXCEPT ![c] = record_count]
        /\ UNCHANGED <<module, memory, numbers, op, rec, tmp>>
    BY <1>1 DEF LessLoad, MoreLoad, Load
  <2>1. pc[c] = from /\ pc'[c] = to /\ Place(c)
    BY Solo
  <2>2. v' \in [Caller -> Nat] /\ v'[c] = record_count
    BY LimitsAssumption DEF IInv, TypeOK
  <2>3. Place(c)'
    BY <2>1, <2>2
    DEF Place, Command, Owned, Counted, Cursor, Numbered, InList, memory, numbers
  <2> QED BY <2>2, <2>3, LooksIInv DEF IInv, TypeOK, module
<1>2. CASE IdLoad(c)
  <2>1. /\ Step(c, "number", "number_store") /\ v' = [v EXCEPT ![c] = next_id]
        /\ UNCHANGED <<module, memory, numbers, op, rec, tmp>>
    BY <1>2 DEF IdLoad, Load
  <2>2. pc[c] = "number" /\ pc'[c] = "number_store" /\ Place(c)
    BY <2>1, Solo
  <2>3. v' \in [Caller -> Nat] /\ v'[c] = next_id
    BY <2>1, LimitsAssumption DEF IInv, TypeOK
  <2>4. Place(c)'
    BY <2>1, <2>2, <2>3
    DEF Place, Command, Owned, Counted, Cursor, Numbered, InList, memory, numbers
  <2> QED BY <2>1, <2>3, <2>4, LooksIInv DEF IInv, TypeOK, module
<1> QED BY <1>1, <1>2

\* An unlinked record is nobody's but the caller's.
LEMMA UnlinkIInv ==
  ASSUME IInv, NEW c \in Caller, Alone', Unlink(c)
  PROVE  IInv'
<1>1. /\ Step(c, "unlink", "free") /\ InList(rec[c])
      /\ record_list' = RemoveFirst(record_list, rec[c])
      /\ UNCHANGED <<module, Allocated, numbers, locals>>
  BY DEF Unlink
<1>2. /\ pc[c] = "unlink" /\ pc'[c] = "free" /\ Place(c)
  BY <1>1, Solo
<1>3. /\ record_list' \in Seq(Record) /\ Len(record_list') = Len(record_list) - 1
      /\ Len(record_list) \in Nat \ {0}
      /\ Range(record_list') = Range(record_list) \ {rec[c]}
      /\ IsInjective(record_list)' /\ IdsAscend'
      /\ rec[c] = Nth(1) => Nth(1)' = Nth(2)
  BY <1>1, UnlinkKeeps DEF numbers
<1>4. TypeOK'
  BY <1>1, <1>3 DEF IInv, TypeOK, Step, module, numbers, locals
<1>5. LimitKept'
  BY <1>1, <1>3, LimitsAssumption DEF IInv, LimitKept, numbers
<1>6. Command(c)' /\ Counted(c)' /\ Numbered(c)'
  BY <1>1, <1>2, <1>3 DEF Place, Command, Counted, Numbered, numbers, locals
<1>7. Owned(c)'
  <2>1. rec[c] \in Record /\ rec[c] \in Range(record_list)
    BY <1>1, RecordsPlaced DEF InList
  <2> QED BY <1>1, <1>2, <1>3, <2>1 DEF Place, Owned, locals
<1>8. Cursor(c)'
  BY <1>1, <1>2, <1>3 DEF Place, Cursor, locals
<1> QED
  BY <1>1, <1>3, <1>4, <1>5, <1>6, <1>7, <1>8, Inside DEF Place, module, locals

LEMMA FreeIInv ==
  ASSUME IInv, NEW c \in Caller, Alone', Free(c)
  PROVE  IInv'
<1> DEFINE to == IF op[c] = "clear" THEN "next" ELSE "less"
<1>1. /\ Step(c, "free", to) /\ Allocated' = Allocated \ {rec[c]}
      /\ UNCHANGED <<module, record_list, numbers, locals>>
  BY DEF Free
<1>2. to # "idle" /\ to \in {"next", "less"} /\ (to = "next" <=> op[c] = "clear")
  OBVIOUS
<1> HIDE DEF to
<1>3. /\ pc[c] = "free" /\ pc'[c] = to /\ Place(c)
  BY <1>1, Solo
<1>4. Allocated' = Range(record_list)
  BY <1>1, <1>3 DEF Place, Owned
<1>5. TypeOK'
  BY <1>1, <1>2, <1>4, RecordsPlaced DEF IInv, TypeOK, Step, module, numbers, locals
<1>6. IsInjective(record_list)' /\ IdsAscend' /\ LimitKept'
  BY <1>1 DEF IInv, IdsAscend, LimitKept, numbers
<1>7. Nth(1)' = Nth(1) /\ (Nth(1) = NULL \/ InList(Nth(1)))
  BY <1>1, RecordsPlaced DEF Nth
<1>8. Place(c)'
  BY <1>1, <1>2, <1>3, <1>4, <1>7
  DEF Place, Command, Owned, Counted, Cursor, Numbered, InList, numbers, locals
<1> QED BY <1>1, <1>2, <1>5, <1>6, <1>8, Inside DEF module, locals

\* The count catches up with the list, after an eviction or a removal.
LEMMA LessStoreIInv ==
  ASSUME IInv, NEW c \in Caller, Alone', LessStore(c)
  PROVE  IInv'
<1>1. /\ pc[c] = "less_store" /\ Place(c)
      /\ record_count' = v[c] - 1 /\ UNCHANGED <<memory, next_id, id>>
  <2> DEFINE to == IF op[c] = "add" THEN "kmalloc" ELSE "idle"
  <2>1. Step(c, "less_store", to) /\ record_count' = v[c] - 1
        /\ UNCHANGED <<memory, next_id, id>>
    BY DEF LessStore
  <2> HIDE DEF to
  <2> QED BY <2>1, Solo
<1>2. /\ record_count = Len(record_list) + 1 /\ v[c] = record_count
      /\ Len(record_list) \in Nat /\ Allocated = Range(record_list)
      /\ op[c] # "clear"
  BY <1>1, RecordsPlaced DEF Place, Command, Counted, Owned
<1>3. record_count' = Len(record_list) /\ Len(record_list) < MAX_RECORDS
  BY <1>1, <1>2, LimitsAssumption DEF IInv, LimitKept
<1>4. IsInjective(record_list)' /\ IdsAscend' /\ LimitKept'
  BY <1>1, <1>2, <1>3, LimitsAssumption DEF IInv, IdsAscend, LimitKept, memory
<1>5. record_count' \in 0 .. MAX_RECORDS
  BY <1>2, <1>3, LimitsAssumption
<1>6. CASE op[c] = "add"
  <2>1. Step(c, "less_store", "kmalloc") /\ UNCHANGED <<module, locals>>
    BY <1>6 DEF LessStore
  <2>2. pc'[c] = "kmalloc"
    BY <2>1, Solo
  <2>3. TypeOK'
    BY <1>1, <1>5, <2>1 DEF IInv, TypeOK, Step, memory, module, locals
  <2>4. Place(c)'
    BY <1>1, <1>2, <1>3, <1>6, <2>1, <2>2
    DEF Place, Command, Owned, Counted, Cursor, Numbered, memory, locals
  <2> QED BY <1>4, <2>1, <2>3, <2>4, Inside DEF module, locals
<1>7. CASE op[c] # "add"
  <2>1. Step(c, "less_store", "idle") /\ Return(c)
    BY <1>7 DEF LessStore
  <2>2. TypeOK'
    BY <1>1, <1>5, <2>1, ReturnType DEF IInv, TypeOK, memory
  <2>3. (record_count = Len(record_list))' /\ (Allocated = Range(record_list))'
    BY <1>1, <1>2, <1>3 DEF memory
  <2> QED BY <1>2, <1>4, <2>1, <2>2, <2>3, Returned
<1> QED BY <1>6, <1>7

LEMMA ResetIInv ==
  ASSUME IInv, NEW c \in Caller, Alone', Reset(c)
  PROVE  IInv'
<1>1. /\ Step(c, "reset", "idle") /\ Return(c)
      /\ record_count' = 0 /\ UNCHANGED <<memory, next_id, id>>
  BY DEF Reset
<1>2. pc[c] = "reset" /\ Place(c)
  BY <1>1, Solo
<1>3. /\ record_list = <<>> /\ Len(record_list) = 0 /\ DOMAIN record_list = {}
      /\ Range(record_list) = {} /\ Allocated = Range(record_list)
  BY <1>2, EmptySeq, RecordsPlaced DEF Place, Command, Cursor, Owned, Range
<1>4. TypeOK'
  BY <1>1, LimitsAssumption, ReturnType DEF IInv, TypeOK, memory
<1>5. IsInjective(record_list)' /\ IdsAscend' /\ LimitKept'
  BY <1>1, <1>3, LimitsAssumption DEF IInv, IdsAscend, LimitKept, memory
<1>6. (record_count = Len(record_list))' /\ (Allocated = Range(record_list))' /\ Allocated' = {}
  BY <1>1, <1>3 DEF memory
<1> QED BY <1>1, <1>4, <1>5, <1>6, Returned

\* An add ends with the count it has found, or that it has made.
LEMMA AddEndsIInv ==
  ASSUME IInv, NEW c \in Caller, Alone', KmallocFails(c) \/ Report(c)
  PROVE  IInv'
<1>1. PICK from \in {"kmalloc", "report"} : Step(c, from, "idle")
  BY DEF KmallocFails, Report
<1>2. Return(c) /\ UNCHANGED <<memory, numbers>>
  BY DEF KmallocFails, Report
<1>3. pc[c] = from /\ Place(c)
  BY <1>1, Solo
<1>4. record_count = Len(record_list) /\ Allocated = Range(record_list) /\ op[c] = "add"
  BY <1>3 DEF Place, Command, Counted, Owned
<1>5. TypeOK'
  BY <1>1, <1>2, ReturnType DEF IInv, TypeOK, memory, numbers
<1>6. IsInjective(record_list)' /\ IdsAscend' /\ LimitKept'
  BY <1>2 DEF IInv, IdsAscend, LimitKept, memory, numbers
<1>7. (record_count = Len(record_list))' /\ (Allocated = Range(record_list))'
  BY <1>2, <1>4 DEF memory, numbers
<1> QED BY <1>1, <1>2, <1>4, <1>5, <1>6, <1>7, Returned

\* The new record is in nobody else's hands.
LEMMA KmallocIInv ==
  ASSUME IInv, NEW c \in Caller, Alone', Kmalloc(c)
  PROVE  IInv'
<1> PICK r \in Record \ Allocated :
      /\ Step(c, "kmalloc", "number")
      /\ rec' = [rec EXCEPT ![c] = r] /\ Allocated' = Allocated \cup {r}
      /\ UNCHANGED <<module, record_list, numbers, op, tmp, v>>
  BY DEF Kmalloc, Take
<1>1. pc[c] = "kmalloc" /\ pc'[c] = "number" /\ Place(c)
  BY Solo
<1>2. Allocated = Range(record_list)
  BY <1>1 DEF Place, Owned
<1>3. TypeOK' /\ rec'[c] = r
  BY DEF IInv, TypeOK, Step, module, numbers
<1>4. IsInjective(record_list)' /\ IdsAscend' /\ LimitKept'
  BY DEF IInv, IdsAscend, LimitKept, numbers
<1>5. Place(c)'
  BY <1>1, <1>2, <1>3
  DEF Place, Command, Owned, Counted, Cursor, Numbered, numbers
<1> QED BY <1>3, <1>4, <1>5, Inside DEF module

\* Its id is above those of the list.
LEMMA IdStoreIInv ==
  ASSUME IInv, NEW c \in Caller, Alone', IdStore(c)
  PROVE  IInv'
<1>1. /\ Step(c, "number_store", "link")
      /\ next_id' = v[c] + 1 /\ id' = [id EXCEPT ![rec[c]] = v[c]]
      /\ UNCHANGED <<module, memory, record_count, locals>>
  BY DEF IdStore
<1>2. pc[c] = "number_store" /\ pc'[c] = "link" /\ Place(c)
  BY <1>1, Solo
<1>3. /\ v[c] = next_id /\ next_id <= MaxId /\ next_id \in 1 .. MaxId
      /\ rec[c] \in Record \ Range(record_list) /\ op[c] = "add"
  BY <1>2, LimitsAssumption DEF Place, Command, Owned, Numbered, IInv, TypeOK
<1>4. /\ id'[rec[c]] = next_id /\ id' \in [Record -> 0 .. MaxId]
      /\ \A r \in Range(record_list) : id'[r] = id[r]
  BY <1>1, <1>3, LimitsAssumption, RecordsPlaced DEF IInv, TypeOK
<1>5. next_id' = next_id + 1 /\ next_id' \in 1 .. MaxId + 1
  BY <1>1, <1>3, LimitsAssumption
<1>6. \A i \in DOMAIN record_list :
        /\ id'[record_list[i]] = id[record_list[i]] /\ id[record_list[i]] \in Nat
        /\ id[record_list[i]] < next_id /\ record_list'[i] = record_list[i]
  BY <1>1, <1>4, RecordsPlaced DEF IInv, IdsAscend, TypeOK, Range, memory
<1>7. TypeOK'
  BY <1>1, <1>4, <1>5 DEF IInv, TypeOK, Step, module, memory, locals
<1>8. record_list' = record_list
  BY <1>1 DEF memory
<1>9. IdsAscend'
  BY <1>3, <1>5, <1>6, <1>8 DEF IInv, IdsAscend
<1>10. IsInjective(record_list)' /\ LimitKept'
  BY <1>1, <1>8 DEF IInv, LimitKept
<1>11. Command(c)' /\ Owned(c)' /\ Counted(c)' /\ Cursor(c)'
  BY <1>1, <1>2 DEF Place, Command, Owned, Counted, Cursor, memory, locals
<1>12. Numbered(c)'
  BY <1>1, <1>2, <1>3, <1>4, <1>5, <1>6, <1>8 DEF Numbered, locals
<1> QED
  BY <1>1, <1>7, <1>9, <1>10, <1>11, <1>12, Inside DEF Place, module, locals

\* There is room for the new record, and it comes last.
LEMMA LinkIInv ==
  ASSUME IInv, NEW c \in Caller, Alone', Link(c)
  PROVE  IInv'
<1>1. /\ Step(c, "link", "more") /\ record_list' = Append(record_list, rec[c])
      /\ UNCHANGED <<module, Allocated, numbers, locals>>
  BY DEF Link
<1>2. pc[c] = "link" /\ pc'[c] = "more" /\ Place(c)
  BY <1>1, Solo
<1>3. /\ rec[c] \in Record /\ rec[c] \notin Range(record_list)
      /\ Allocated = Range(record_list) \cup {rec[c]}
      /\ id[rec[c]] < next_id
      /\ \A i \in DOMAIN record_list : id[record_list[i]] < id[rec[c]]
  BY <1>2 DEF Place, Owned, Numbered
<1>4. /\ record_list' \in Seq(Record) /\ Len(record_list') = Len(record_list) + 1
      /\ Len(record_list) \in Nat
      /\ Range(record_list') = Range(record_list) \cup {rec[c]}
      /\ IsInjective(record_list)' /\ IdsAscend'
  BY <1>1, <1>3, LinkKeeps DEF numbers
<1>5. record_count = Len(record_list) /\ Len(record_list) < MAX_RECORDS /\ op[c] = "add"
  BY <1>2 DEF Place, Command, Counted
<1>6. TypeOK'
  BY <1>1, <1>4 DEF IInv, TypeOK, Step, module, numbers, locals
<1>7. LimitKept'
  BY <1>1, <1>4, <1>5, LimitsAssumption DEF IInv, LimitKept, numbers
<1>8. Place(c)'
  <2>1. InList(rec[c])'
    BY <1>1, <1>4 DEF InList, locals
  <2>2. (Len(record_list) - 1)' = record_count'
    BY <1>1, <1>4, <1>5 DEF numbers
  <2> QED
    BY <1>1, <1>2, <1>3, <1>4, <1>5, <2>1, <2>2
    DEF Place, Command, Owned, Counted, Cursor, Numbered, numbers, locals
<1> QED BY <1>1, <1>4, <1>6, <1>7, <1>8, Inside DEF module, locals

LEMMA MoreStoreIInv ==
  ASSUME IInv, NEW c \in Caller, Alone', MoreStore(c)
  PROVE  IInv'
<1>1. /\ Step(c, "more_store", "report") /\ record_count' = v[c] + 1
      /\ UNCHANGED <<module, memory, next_id, id, locals>>
  BY DEF MoreStore
<1>2. pc[c] = "more_store" /\ pc'[c] = "report" /\ Place(c)
  BY <1>1, Solo
<1>3. /\ v[c] = record_count /\ record_count = Len(record_list) - 1
      /\ Len(record_list) \in Nat /\ op[c] = "add" /\ Allocated = Range(record_list)
  BY <1>2, RecordsPlaced DEF Place, Command, Counted, Owned
<1>4. record_count' = Len(record_list) /\ record_count' \in 0 .. MAX_RECORDS
  BY <1>1, <1>3, LimitsAssumption DEF IInv, LimitKept
<1>5. TypeOK'
  BY <1>1, <1>4 DEF IInv, TypeOK, Step, module, memory, locals
<1>6. IsInjective(record_list)' /\ IdsAscend' /\ LimitKept'
  BY <1>1, <1>4 DEF IInv, IdsAscend, LimitKept, memory
<1>7. InList(rec[c])
  BY <1>2 DEF Place, Cursor
<1>8. Place(c)'
  BY <1>1, <1>2, <1>3, <1>4, <1>7
  DEF Place, Command, Owned, Counted, Cursor, Numbered, InList, memory, locals
<1> QED BY <1>1, <1>5, <1>6, <1>8, Inside DEF module, locals

\* No command ever finds memory that is no record of the list any more.
LEMMA NoMisuse == ASSUME IInv, NEW c \in Caller PROVE ~Misuse(c)
<1> SUFFICES ASSUME Misuse(c) PROVE FALSE
  OBVIOUS
<1>1. c \in Busy /\ Place(c)
  BY DEF Misuse, Busy, IInv
<1> QED BY <1>1 DEF Misuse, Place, Cursor, Owned, InList

LEMMA CommandIInv ==
  ASSUME IInv, NEW c \in Caller, Alone', Add(c) \/ Walk(c) \/ Drop(c)
  PROVE  IInv'
<1>1. CASE Add(c)
  BY <1>1, CallIInv, CheckIInv, OldestIInv, AddEndsIInv, KmallocIInv, LoadIInv,
     IdStoreIInv, LinkIInv, MoreStoreIInv DEF Add
<1>2. CASE Walk(c)
  BY <1>2, WalkBeginIInv, WalkNextIInv, WalkEndsIInv, TestIdIInv, ResetIInv DEF Walk
<1>3. CASE Drop(c)
  BY <1>3, UnlinkIInv, FreeIInv, LoadIInv, LessStoreIInv DEF Drop
<1> QED BY <1>1, <1>2, <1>3

\* The unload clears the list when nobody is inside any more.
LEMMA ExitIInv ==
  ASSUME IInv, Alone', Exit
  PROVE  IInv'
<1>1. /\ Step(Module, "idle", "walk") /\ phase = "live" /\ phase' = "exit"
      /\ op' = [op EXCEPT ![Module] = "clear"]
      /\ \A u \in User : pc[u] = "idle"
      /\ UNCHANGED <<initial, memory, numbers, rec, tmp, v>>
  BY DEF Exit
<1>2. Module \in Caller /\ "walk" # "idle"
  BY DEF Caller
<1>3. /\ pc'[Module] = "walk" /\ op'[Module] = "clear"
      /\ \A d \in Caller \ {Module} : op'[d] = op[d]
      /\ \A d \in Caller \ {Module} : pc'[d] = "idle"
      /\ Allocated = Range(record_list)
  BY <1>1, <1>2, Solo DEF IInv, TypeOK
<1>4. TypeOK'
  BY <1>1 DEF IInv, TypeOK, Step, memory, numbers
<1>5. Place(Module)'
  BY <1>1, <1>3
  DEF Place, Command, Owned, Counted, Cursor, Numbered, memory, numbers
<1>6. Phases'
  BY <1>1, <1>3, CallersAssumption DEF Phases, Caller
<1> QED BY <1>1, <1>2, <1>3, <1>4, <1>5, <1>6, Begun

LEMMA PhaseIInv ==
  ASSUME IInv, CreateFile \/ Loaded \/ ExitReturn
  PROVE  IInv'
<1>1. UNCHANGED <<initial, memory, numbers, pc, locals>>
  BY DEF CreateFile, Loaded, ExitReturn
<1>2. \/ phase = "loading" /\ phase' \in {"init", "failed"}
      \/ phase = "init" /\ phase' = "live" /\ initial = 2
      \/ phase = "exit" /\ phase' = "unloaded" /\ pc[Module] = "idle"
  BY DEF CreateFile, Loaded, ExitReturn
<1>3. TypeOK'
  BY <1>1, <1>2 DEF IInv, TypeOK, memory, numbers, locals
<1>4. IsInjective(record_list)' /\ IdsAscend' /\ LimitKept' /\ Alone'
  BY <1>1 DEF IInv, IdsAscend, LimitKept, Alone, Busy, memory, numbers
<1>5. Phases'
  BY <1>1, <1>2 DEF IInv, Phases, memory, numbers, locals
<1>6. MemoryCounted'
  BY <1>1, <1>2 DEF IInv, Phases, MemoryCounted, Busy, memory, numbers
<1>7. \A c \in Caller : Place(c) => Place(c)'
  BY <1>1
  DEF Place, Command, Owned, Counted, Cursor, Numbered, InList, Nth, memory, numbers, locals
<1> QED BY <1>1, <1>3, <1>4, <1>5, <1>6, <1>7 DEF IInv, Busy, locals

LEMMA StutterIInv == ASSUME IInv, UNCHANGED vars PROVE IInv'
<1>1. \A c \in Caller : Place(c) => Place(c)'
  BY DEF Place, Command, Owned, Counted, Cursor, Numbered, InList, Nth,
         vars, memory, numbers, locals
<1>2. TypeOK' /\ Alone' /\ Phases' /\ Busy' = Busy
  BY DEF IInv, TypeOK, Alone, Phases, Busy, vars, module, memory, numbers, locals
<1>3. IsInjective(record_list)' /\ IdsAscend' /\ LimitKept' /\ MemoryCounted'
  BY <1>2 DEF IInv, IdsAscend, LimitKept, MemoryCounted, vars, module, memory, numbers
<1>4. \A c \in Caller : pc'[c] = "idle" => op'[c] = "add"
  BY DEF IInv, vars, locals
<1>5. \A c \in Busy' : Place(c)'
  BY <1>1, <1>2 DEF IInv, Busy
<1> QED BY <1>2, <1>3, <1>4, <1>5 DEF IInv

LEMMA NextIInv == IInv /\ [SessionNext]_vars => IInv'
<1> SUFFICES ASSUME IInv, [SessionNext]_vars PROVE IInv'
  OBVIOUS
<1>1. CASE UNCHANGED vars \/ Gone
  BY <1>1, StutterIInv DEF Gone
<1>2. CASE Next /\ Alone' /\ ~Gone
  <2>1. CASE \E c \in Caller : Add(c) \/ Walk(c) \/ Drop(c)
    BY <1>2, <2>1, CommandIInv
  <2>2. CASE \E c \in User : ClearCall(c) \/ \E x \in 1 .. MaxId : DelCall(c, x)
    BY <1>2, <2>2, CallIInv DEF Caller
  <2>3. CASE CreateFile \/ Loaded \/ ExitReturn
    BY <2>3, PhaseIInv
  <2>4. CASE Exit
    BY <1>2, <2>4, ExitIInv
  <2> QED BY <1>2, <2>1, <2>2, <2>3, <2>4 DEF Next
<1> QED BY <1>1, <1>2 DEF SessionNext

LEMMA IInvAlways == SessionSpec => []IInv
BY InitIInv, NextIInv, PTL DEF SessionSpec

-----------------------------------------------------------------------------
(* Theorems, of commands that do not overlap.                              *)

\* Every variable keeps its type, at each place of a command.
THEOREM TypeCorrect == SessionSpec => []TypeOK
BY IInvAlways, PTL DEF IInv

\* Ids ascend along the list and stay below the next one, also while an add
\* has taken its id and not yet linked its record.
THEOREM IdsAlwaysAscend == SessionSpec => []IdsAscend
BY IInvAlways, PTL DEF IInv

\* Neither the count nor the list exceeds the limit, also between the link and
\* the count of a record.
THEOREM LimitAlwaysKept == SessionSpec => []LimitKept
BY IInvAlways, PTL DEF IInv

\* Between commands the count, the list and the memory agree, and an unload
\* leaves nothing.
THEOREM MemoryAlwaysCounted == SessionSpec => []MemoryCounted
BY IInvAlways, PTL DEF IInv

\* No command unlinks a record twice, walks on from one that is unlinked, or
\* reads one that is freed.
THEOREM AlwaysTouchesOnlyRecords == SessionSpec => []TouchesOnlyRecords
<1>1. IInv => TouchesOnlyRecords
  BY NoMisuse DEF TouchesOnlyRecords
<1> QED BY <1>1, IInvAlways, PTL

=============================================================================
