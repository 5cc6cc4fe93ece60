-------------------------- MODULE SharedListProofs --------------------------
(***************************************************************************)
(* What is proved of SharedList.tla.  Nothing of the list, of its memory   *)
(* or of data_count holds once locks are mixed; all of it rests on the     *)
(* discipline that FamiliesKept states.  Nothing fits together in the      *)
(* middle of a section either, so that the invariant says how far each     *)
(* caller is at each of its places.                                        *)
(***************************************************************************)
EXTENDS SharedList, ListLemmas

\* The operations that are used together either share one lock, or are called
\* one after the other.
FamiliesKept ==
  \A F \in Families : F \in InTurn \/ \A o, p \in F : LockOf[o] = LockOf[p]

\* Where a caller is that has its lock.
Section == {"room", "first", "unlink", "free", "less", "less_store", "link", "more",
            "more_store", "stat", "stat_store", "walk", "visit", "next", "reset",
            "memset", "unlock"}

\* TypeOK but for the limit, with what it leaves to the shape of the actions.
Typed ==
  /\ phase \in {"live", "exit", "unloaded"} /\ family \in Families
  /\ data_list \in Seq(Item) /\ Allocated \subseteq Item
  /\ data_count \in Nat /\ next_value \in Nat
  /\ stats \in [Adds \cup {"read"} -> Nat] /\ access_count \in [Item -> Nat]
  /\ holder \in [Lock -> Caller \cup {NULL}] /\ readers \subseteq Caller
  /\ op \in [Caller -> Operations]
  /\ v \in [Caller -> Nat] /\ seen \in [Caller -> Nat]
  /\ new \in [Caller -> Item \cup {NULL}] /\ data \in [Caller -> Item \cup {NULL}]
  /\ tmp \in [Caller -> Item \cup {NULL}]
  /\ calls \in [Operations -> Nat]
  /\ pc \in [Caller -> Section \cup {"idle", "fetch", "fetched", "alloc", "lock"}]

\* A caller is only where its operation takes it.
Placed(c) ==
  /\ pc[c] \in {"fetch", "fetched", "alloc", "room", "less", "less_store", "link", "more",
                "more_store"} => op[c] \in Adds
  /\ pc[c] \in {"stat", "stat_store"} => op[c] \in Adds \cup {"read"}
  /\ pc[c] \in {"unlink", "free"} => op[c] \in Adds \cup {"clear"}
  /\ pc[c] = "visit" => op[c] \in {"read", "show"}
  /\ pc[c] \in {"walk", "next"} => op[c] \in {"read", "show", "clear"}
  /\ pc[c] \in {"reset", "memset"} => op[c] = "clear"
  /\ pc[c] \in {"idle", "fetch", "fetched", "alloc", "lock"} => seen[c] = 0

\* The unload comes when all others are done, and nobody calls any more.
Unloading ==
  /\ op[Rmmod] = "clear"
  /\ phase \in {"live", "unloaded"} => pc[Rmmod] = "idle"
  /\ phase # "live" => \A c \in Task : pc[c] = "idle"
  /\ phase # "live" /\ pc[Rmmod] = "idle" => data_list = <<>>

\* The callers with an item of their own that is not linked yet, and those
\* with one that is not linked any more.
Adding  == {c \in Caller : op[c] \in Adds /\
              pc[c] \in {"lock", "room", "first", "unlink", "free", "less", "less_store", "link"}}
Freeing == {c \in Caller : pc[c] = "free"}

\* ItemsOwnedOnce, together with whose the items are that are not in the list.
Owned ==
  /\ \A c \in Adding : new[c] \in Allocated /\ new[c] \notin Range(data_list)
  /\ \A c \in Freeing : data[c] \in Allocated /\ data[c] \notin Range(data_list)
  /\ Range(data_list) \subseteq Allocated
  /\ \A n \in Allocated : \/ n \in Range(data_list)
                          \/ \E c \in Adding : new[c] = n
                          \/ \E c \in Freeing : data[c] = n
  /\ IsInjective(data_list)
  /\ \A c, d \in Adding : new[c] = new[d] => c = d
  /\ \A c \in Adding, d \in Freeing : new[c] # data[d]

-----------------------------------------------------------------------------
(* What the discipline keeps.                                              *)

\* Who is under way belongs to the family, and is alone in one that takes turns.
Together ==
  /\ \A c \in Task : pc[c] # "idle" => op[c] \in family
  /\ family \in InTurn => \A c, d \in Task : pc[c] # "idle" /\ pc[d] # "idle" => c = d

\* A section is entered with its lock.
Holding ==
  \A c \in Caller : pc[c] \in Section =>
    IF op[c] = "read" THEN c \in readers ELSE holder[LockOf[op[c]]] = c

\* Whoever is in a section is alone there, or all of them read.
Exclusive ==
  \A c, d \in Caller :
    pc[c] \in Section /\ pc[d] \in Section => c = d \/ (op[c] = "read" /\ op[d] = "read")

\* How far an add is: the list and data_count before and after the eviction,
\* and after the new item.
AddAt(c) ==
  /\ pc[c] \in {"room", "first", "unlink", "link", "stat", "stat_store", "unlock"}
       => data_count = Len(data_list)
  /\ pc[c] \in {"free", "less", "less_store"} => data_count = Len(data_list) + 1
  /\ pc[c] \in {"more", "more_store"} => Len(data_list) = data_count + 1
  /\ pc[c] \in {"link", "more", "more_store"} => data_count < MAX_DATA_ITEMS
  /\ pc[c] \in {"less_store", "more_store"} => v[c] = data_count
  /\ pc[c] \in {"first", "unlink"} => data_list # <<>>
  /\ pc[c] = "unlink" => data[c] = Nth(1)

\* How far a read or a show is; nothing changes under it.
WalkAt(c) ==
  /\ data_count = Len(data_list)
  /\ seen[c] <= Len(data_list) /\ (op[c] = "show" => seen[c] <= SHOWN_ITEMS)
  /\ pc[c] = "first" => seen[c] = 0
  /\ pc[c] \in {"walk", "visit"} => data[c] = Nth(seen[c] + 1)
  /\ pc[c] = "visit" => /\ seen[c] < Len(data_list)
                        /\ op[c] = "show" => seen[c] < SHOWN_ITEMS
  /\ pc[c] = "next" => seen[c] > 0 /\ data[c] = Nth(seen[c])
  /\ op[c] = "read" /\ pc[c] \in {"stat", "stat_store", "unlock"} => seen[c] = Len(data_list)
  /\ op[c] = "show" /\ pc[c] = "unlock" =>
       seen[c] = Len(data_list) \/ (seen[c] = SHOWN_ITEMS /\ SHOWN_ITEMS <= Len(data_list))

\* How far a clear is, which is always at the front of the list.
ClearAt(c) ==
  /\ pc[c] \in {"walk", "unlink"} => data[c] = Nth(1)
  /\ pc[c] = "unlink" => data_list # <<>> /\ tmp[c] = Nth(2)
  /\ pc[c] \in {"free", "next"} => tmp[c] = Nth(1)
  /\ pc[c] \in {"reset", "memset", "unlock"} => data_list = <<>>
  /\ pc[c] \in {"memset", "unlock"} => data_count = 0

Place(c) ==
  pc[c] \in Section => /\ op[c] \in Adds => AddAt(c)
                       /\ op[c] \in {"read", "show"} => WalkAt(c)
                       /\ op[c] = "clear" => ClearAt(c)

\* data_count when nobody is inside.
Counted ==
  /\ data_count <= MAX_DATA_ITEMS
  /\ (\A c \in Caller : pc[c] \notin Section) => data_count = Len(data_list)

LockInv == Together /\ Holding /\ Exclusive

IInv ==
  /\ Typed /\ (\A c \in Caller : Placed(c)) /\ Unloading /\ Owned
  /\ LockInv /\ Counted /\ (\A c \in Caller : Place(c))

-----------------------------------------------------------------------------
(* Calls and what they have counted.                                       *)

\* The reads that have not counted themselves yet.
Reading == {c \in Caller : op[c] = "read" /\
              pc[c] \in {"lock", "first", "walk", "visit", "next", "stat", "stat_store"}}

\* Each read adds one at most to what it loaded, so that the counter and those
\* still to come are no more than the calls.
ReadsCounted ==
  /\ IsFiniteSet(Reading)
  /\ stats["read"] + Cardinality(Reading) <= calls["read"]
  /\ \A c \in Reading : pc[c] = "stat_store" => v[c] + Cardinality(Reading) <= calls["read"]

\* The adds of workers and users that have not stored the next value yet.
Fetching == {c \in Caller : pc[c] \in {"fetch", "fetched"}}

\* Every call of an add.
AddCalls == calls["spin"] + calls["mutex"] + calls["rwlock"]

\* The same of the value that each add takes.
ValuesCounted ==
  /\ IsFiniteSet(Fetching)
  /\ next_value + Cardinality(Fetching) <= 1 + AddCalls
  /\ \A c \in Fetching : pc[c] = "fetched" => v[c] + Cardinality(Fetching) <= 1 + AddCalls

\* The reads that may still visit item n: it is not among those they have seen.
ToVisit(n) == {c \in Caller :
   /\ op[c] = "read" /\ pc[c] \in {"lock", "first", "walk", "visit", "next"}
   /\ \A k \in 1 .. Len(data_list) : k <= seen[c] => data_list[k] # n}

\* Reader c has loaded the access_count of item n.
VisitOf(c, n) == op[c] = "read" /\ pc[c] = "visit" /\ data[c] = n

\* The same of the access_count of item n.
VisitsCountedOf(n) ==
  /\ IsFiniteSet(ToVisit(n))
  /\ access_count[n] + Cardinality(ToVisit(n)) <= calls["read"]
  /\ \A c \in Caller : VisitOf(c, n) => v[c] + Cardinality(ToVisit(n)) <= calls["read"]

VisitsCounted == \A n \in Item : VisitsCountedOf(n)

\* The steps of a caller that has no lock, and of one that has its lock.
Outside(c) == FetchLoad(c) \/ FetchStore(c) \/ Alloc(c) \/ Interrupted(c)
Inside(c)  == \/ Room(c) \/ Link(c) \/ MoreLoad(c) \/ MoreStore(c)
              \/ Drop(c) \/ Walk(c) \/ Stat(c)

-----------------------------------------------------------------------------
(* The list and its places.                                                *)

\* The items at the places of the list, and nothing beyond its end.
LEMMA ItemsPlaced ==
  ASSUME Typed
  PROVE  /\ Len(data_list) \in Nat /\ DOMAIN data_list = 1 .. Len(data_list)
         /\ \A k \in 1 .. Len(data_list) : /\ Nth(k) = data_list[k] /\ Nth(k) \in Item
                                           /\ Nth(k) # NULL /\ InList(Nth(k))
         /\ \A k : k \notin 1 .. Len(data_list) => Nth(k) = NULL
         /\ \A k : Nth(k) \in Item \cup {NULL}
         /\ data_list = <<>> <=> Len(data_list) = 0
<1>1. data_list \in Seq(Item)
  BY DEF Typed
<1>2. /\ Len(data_list) \in Nat /\ DOMAIN data_list = 1 .. Len(data_list)
      /\ \A k \in 1 .. Len(data_list) : data_list[k] \in Item
  BY <1>1, LenProperties, ElementOfSeq
<1>3. \A k \in 1 .. Len(data_list) : /\ Nth(k) = data_list[k] /\ Nth(k) \in Item
                                     /\ Nth(k) # NULL /\ InList(Nth(k))
  BY <1>2, NullAssumption DEF Nth, InList, Range
<1>4. \A k : k \notin 1 .. Len(data_list) => Nth(k) = NULL
  BY <1>2 DEF Nth
<1>5. data_list = <<>> <=> Len(data_list) = 0
  BY <1>1, EmptySeq
<1> QED BY <1>2, <1>3, <1>4, <1>5

\* The next item is the one at the next place.
LEMMA NextPlace ==
  ASSUME Typed, IsInjective(data_list), NEW k \in 1 .. Len(data_list)
  PROVE  NextOf(Nth(k)) = Nth(k + 1)
<1>1. /\ DOMAIN data_list = 1 .. Len(data_list) /\ k \in Nat
      /\ data_list[k] = Nth(k)
  BY ItemsPlaced
<1> DEFINE j == CHOOSE i \in DOMAIN data_list : data_list[i] = Nth(k)
<1>2. j \in DOMAIN data_list /\ data_list[j] = Nth(k)
  BY <1>1
<1>3. j = k
  BY <1>1, <1>2 DEF IsInjective
<1>4. NextOf(Nth(k)) = Nth(1 + j)
  BY DEF NextOf
<1> HIDE DEF j
<1> QED BY <1>1, <1>3, <1>4

\* What list_del does with the first item.
LEMMA UnlinkFirst ==
  ASSUME Typed, IsInjective(data_list), data_list # <<>>,
         data_list' = RemoveFirst(data_list, Nth(1))
  PROVE  /\ data_list' \in Seq(Item) /\ Len(data_list') = Len(data_list) - 1
         /\ Range(data_list') = Range(data_list) \ {Nth(1)}
         /\ IsInjective(data_list')
         /\ Nth(1) \in Range(data_list) /\ Nth(1)' = Nth(2)
<1>1. /\ data_list \in Seq(Item) /\ Len(data_list) \in Nat
      /\ DOMAIN data_list = 1 .. Len(data_list)
      /\ 1 \in 1 .. Len(data_list) /\ Nth(1) = data_list[1] /\ InList(Nth(1))
  <2>1. data_list \in Seq(Item)
    BY DEF Typed
  <2>2. /\ Len(data_list) \in Nat /\ DOMAIN data_list = 1 .. Len(data_list)
        /\ Len(data_list) # 0
    BY ItemsPlaced
  <2>3. 1 \in 1 .. Len(data_list)
    BY <2>2
  <2>4. Nth(1) = data_list[1] /\ InList(Nth(1))
    BY <2>3, ItemsPlaced
  <2> QED BY <2>1, <2>2, <2>3, <2>4
<1> DEFINE t == RemoveFirst(data_list, data_list[1])
<1>2. data_list' = t
  BY <1>1
<1>3. /\ t \in Seq(Item) /\ Len(t) = Len(data_list) - 1
      /\ \A i \in 1 .. Len(data_list) - 1 : t[i] = data_list[i + 1]
  <2>1. /\ t \in Seq(Item) /\ Len(t) = Len(data_list) - 1
        /\ \A i \in 1 .. Len(data_list) - 1 :
             t[i] = IF i < 1 THEN data_list[i] ELSE data_list[i + 1]
    BY <1>1, RemoveFirstProperties
  <2> HIDE DEF t
  <2>2. \A i \in 1 .. Len(data_list) - 1 : ~(i < 1)
    BY <1>1
  <2> QED BY <2>1, <2>2
<1>4. Range(t) = Range(data_list) \ {data_list[1]} /\ IsInjective(t)
  BY <1>1, RemoveFirstRange
<1> HIDE DEF t
<1>5. DOMAIN t = 1 .. Len(data_list) - 1
  BY <1>3, LenProperties
<1>6. Nth(1)' = Nth(2)
  <2>1. Nth(1)' = IF 1 \in DOMAIN t THEN t[1] ELSE NULL
    BY <1>2 DEF Nth
  <2>2. CASE Len(data_list) = 1
    <3>1. 1 \notin DOMAIN t /\ 2 \notin DOMAIN data_list
      BY <1>1, <1>5, <2>2
    <3> QED BY <2>1, <3>1 DEF Nth
  <2>3. CASE Len(data_list) # 1
    <3>1. 1 \in DOMAIN t /\ 2 \in DOMAIN data_list /\ t[1] = data_list[2]
      BY <1>1, <1>3, <1>5, <2>3
    <3> QED BY <2>1, <3>1 DEF Nth
  <2> QED BY <2>2, <2>3
<1> QED BY <1>1, <1>2, <1>3, <1>4, <1>6 DEF InList

-----------------------------------------------------------------------------
(* The kinds of steps.                                                     *)

\* Whoever is in a section and not a reader is alone there.
LEMMA ChangesAlone ==
  ASSUME Exclusive, NEW c \in Caller, pc[c] \in Section, op[c] # "read"
  PROVE  \A d \in Caller : pc[d] \in Section => d = c
BY DEF Exclusive

\* What is the place of each operation.
LEMMA PlaceOf ==
  ASSUME IInv, NEW c \in Caller, pc[c] \in Section
  PROVE  /\ op[c] \in Adds => AddAt(c)
         /\ op[c] \in {"read", "show"} => WalkAt(c)
         /\ op[c] = "clear" => ClearAt(c)
         /\ op[c] \in Adds \cup {"read", "show", "clear"}
BY DEF IInv, Place, Typed, Operations

\* No caller goes astray.
LEMMA NoMisuse == IInv => \A c \in Caller : ~Misuse(c)
<1> SUFFICES ASSUME IInv, NEW c \in Caller, Misuse(c) PROVE FALSE
  OBVIOUS
<1>1. /\ Typed /\ Placed(c) /\ Len(data_list) \in Nat
      /\ \A k \in 1 .. Len(data_list) : Nth(k) # NULL /\ InList(Nth(k))
      /\ \A k : k \notin 1 .. Len(data_list) => Nth(k) = NULL
      /\ data_list = <<>> <=> Len(data_list) = 0
      /\ seen[c] \in Nat
  BY ItemsPlaced DEF IInv, Typed
<1>2. \A n : InList(n) => n \in Allocated
  BY DEF IInv, Owned, InList
<1>3. CASE pc[c] = "unlink" /\ ~InList(data[c])
  <2>1. op[c] \in Adds \/ op[c] = "clear"
    BY <1>1, <1>3 DEF Placed
  <2>2. data[c] = Nth(1) /\ data_list # <<>>
    BY <1>3, <2>1, PlaceOf DEF Section, AddAt, ClearAt
  <2> QED BY <1>1, <1>3, <2>2
<1>4. CASE pc[c] = "walk" /\ op[c] = "clear" /\ More(c) /\ ~InList(data[c])
  <2>1. data[c] = Nth(1) /\ data[c] # NULL
    BY <1>4, PlaceOf DEF Section, ClearAt, More
  <2> QED BY <1>1, <1>4, <2>1
<1>5. CASE pc[c] = "next" /\ op[c] # "clear" /\ ~InList(data[c])
  <2>1. op[c] \in {"read", "show"}
    BY <1>1, <1>5 DEF Placed
  <2>2. seen[c] <= Len(data_list) /\ seen[c] > 0 /\ data[c] = Nth(seen[c])
    BY <1>5, <2>1, PlaceOf DEF Section, WalkAt
  <2> QED BY <1>1, <1>5, <2>2
<1>6. CASE pc[c] = "walk" /\ op[c] # "clear" /\ More(c) /\ data[c] \notin Allocated
  <2>1. op[c] \in {"read", "show"}
    BY <1>1, <1>6 DEF Placed
  <2>2. data[c] = Nth(seen[c] + 1) /\ data[c] # NULL
    BY <1>6, <2>1, PlaceOf DEF Section, WalkAt, More
  <2> QED BY <1>1, <1>2, <1>6, <2>2
<1>7. CASE pc[c] = "visit" /\ data[c] \notin Allocated
  <2>1. op[c] \in {"read", "show"}
    BY <1>1, <1>7 DEF Placed
  <2>2. data[c] = Nth(seen[c] + 1) /\ seen[c] < Len(data_list)
    BY <1>7, <2>1, PlaceOf DEF Section, WalkAt
  <2> QED BY <1>1, <1>2, <1>7, <2>2
<1> QED BY <1>3, <1>4, <1>5, <1>6, <1>7 DEF Misuse

\* Every step is a call, a step outside or inside of the locks, a lock taken
\* or let go, or a step of the unload.
LEMMA NextCases ==
  ASSUME IInv, [Next]_vars
  PROVE  \/ \E c \in Task, o \in Operations : Call(c, o)
         \/ \E c \in Caller : Outside(c) \/ Inside(c) \/ TakeLock(c) \/ Unlock(c)
         \/ Exit \/ ExitReturn \/ UNCHANGED vars
BY DEF Next, Gone, Add, Outside, Inside

\* An action of one caller leaves the others where they are.
LEMMA OthersStay ==
  ASSUME Typed, NEW c \in Caller, Outside(c) \/ Inside(c) \/ TakeLock(c) \/ Unlock(c),
         NEW d \in Caller, d # c
  PROVE  /\ pc'[d] = pc[d] /\ op'[d] = op[d] /\ v'[d] = v[d] /\ seen'[d] = seen[d]
         /\ new'[d] = new[d] /\ data'[d] = data[d] /\ tmp'[d] = tmp[d]
<1> USE DEF Step, Return, Load, Take, items, Typed
<1>1. CASE FetchLoad(c) \/ FetchStore(c) \/ Interrupted(c)
  BY <1>1 DEF FetchLoad, FetchStore, Interrupted
<1>2. CASE Alloc(c)
  BY <1>2 DEF Alloc
<1>3. CASE Room(c) \/ Link(c) \/ MoreLoad(c) \/ MoreStore(c)
  BY <1>3 DEF Room, Link, MoreLoad, MoreStore
<1>4. CASE Drop(c)
  BY <1>4 DEF Drop, First, Unlink, Free, LessLoad, LessStore
<1>5. CASE Walk(c)
  BY <1>5 DEF Walk, VisitLoad, Visit, Keep, Advance, WalkEnds
<1>6. CASE Stat(c)
  BY <1>6 DEF Stat, StatLoad, StatStore, Reset, ResetStats
<1>7. CASE TakeLock(c) \/ Unlock(c)
  BY <1>7 DEF TakeLock, Unlock
<1> QED BY <1>1, <1>2, <1>3, <1>4, <1>5, <1>6, <1>7 DEF Outside, Inside

\* A step outside of the locks.
LEMMA OutsideStep ==
  ASSUME Typed, NEW c \in Caller, Outside(c)
  PROVE  /\ pc[c] \in {"fetch", "fetched", "alloc", "lock"}
         /\ pc'[c] \in {"idle", "fetched", "alloc", "lock"}
         /\ pc'[c] # "idle" => op'[c] = op[c]
         /\ pc'[c] = "idle" => op'[c] = "clear"
         /\ UNCHANGED <<phase, family, calls, data_list, data_count, stats, holder, readers>>
         /\ seen'[c] \in {seen[c], 0}
BY DEF Outside, FetchLoad, FetchStore, Alloc, Interrupted, Step, Return, Typed, fixed,
       locks, memory, counters

\* A step inside of them.
LEMMA InsideStep ==
  ASSUME Typed, NEW c \in Caller, Inside(c)
  PROVE  /\ pc[c] \in Section /\ pc'[c] \in Section
         /\ UNCHANGED <<op, new, phase, family, calls, holder, readers>>
<1> USE DEF Step, fixed, locks, items, Section, Typed
<1>1. CASE Room(c) \/ Link(c) \/ MoreLoad(c) \/ MoreStore(c)
  BY <1>1 DEF Room, Link, MoreLoad, MoreStore
<1>2. CASE Drop(c)
  BY <1>2 DEF Drop, First, Unlink, Free, LessLoad, LessStore
<1>3. CASE Walk(c)
  BY <1>3 DEF Walk, VisitLoad, Visit, Keep, Advance, WalkEnds
<1>4. CASE Stat(c)
  BY <1>4 DEF Stat, StatLoad, StatStore, Reset, ResetStats
<1> QED BY <1>1, <1>2, <1>3, <1>4 DEF Inside

-----------------------------------------------------------------------------
(* Types and places.                                                       *)

\* Every variable keeps its type.
LEMMA NextTyped == IInv /\ [Next]_vars => Typed'
<1> SUFFICES ASSUME IInv, [Next]_vars PROVE Typed'
  OBVIOUS
<1> USE DEF Step, Return, Load, Take, fixed, memory, counters, locks, items, Section
<1>1. /\ Typed /\ (\A c \in Caller : Placed(c)) /\ Owned
      /\ "clear" \in Operations /\ \A k : Nth(k) \in Item \cup {NULL}
  BY ItemsPlaced DEF IInv, Operations
<1>2. \A c \in Caller : v[c] \in Nat /\ seen[c] \in Nat /\ op[c] \in Operations
  BY <1>1 DEF Typed
<1>3. ASSUME NEW c \in Task, NEW o \in Operations, Call(c, o) PROVE Typed'
  BY <1>1, <1>3 DEF Call, Typed, Caller
<1>4. ASSUME NEW c \in Caller, FetchLoad(c) PROVE Typed'
  BY <1>1, <1>4 DEF FetchLoad, Typed
<1>5. ASSUME NEW c \in Caller, FetchStore(c) PROVE Typed'
  <2>1. v[c] + 1 \in Nat
    BY <1>2
  <2> QED BY <1>1, <1>5, <2>1 DEF FetchStore, Typed
<1>6. ASSUME NEW c \in Caller, Alloc(c) PROVE Typed'
  <2>1. CASE Step(c, "alloc", "idle") /\ Return(c) /\ UNCHANGED <<Allocated, access_count>>
    BY <1>1, <1>6, <2>1 DEF Alloc, Typed
  <2>2. CASE Step(c, "alloc", "lock") /\ UNCHANGED <<op, v, data, tmp, seen>>
    <3>1. PICK n \in Item \ Allocated :
            /\ Allocated' = Allocated \cup {n}
            /\ new' = [new EXCEPT ![c] = n]
            /\ access_count' = [access_count EXCEPT ![n] = 0]
      BY <1>1, <1>6, <2>2 DEF Alloc, Typed
    <3> QED BY <1>1, <1>6, <2>2, <3>1 DEF Alloc, Typed
  <2> QED BY <1>6, <2>1, <2>2 DEF Alloc
<1>7. ASSUME NEW c \in Caller, Interrupted(c) PROVE Typed'
  BY <1>1, <1>2, <1>7 DEF Interrupted, Typed
<1>8. ASSUME NEW c \in Caller, Room(c) \/ MoreLoad(c) PROVE Typed'
  <2>1. CASE Room(c)
    BY <1>1, <2>1 DEF Room, Typed
  <2>2. CASE MoreLoad(c)
    BY <1>1, <2>2 DEF MoreLoad, Typed
  <2> QED BY <1>8, <2>1, <2>2
<1>9. ASSUME NEW c \in Caller, Link(c) PROVE Typed'
  <2>1. c \in Adding
    BY <1>1, <1>9 DEF Link, Placed, Adding
  <2>2. new[c] \in Item
    BY <1>1, <2>1 DEF Owned, Typed
  <2>3. Append(data_list, new[c]) \in Seq(Item)
    BY <1>1, <2>2, AppendProperties DEF Typed
  <2> QED BY <1>1, <1>9, <2>3 DEF Link, Typed
<1>10. ASSUME NEW c \in Caller, MoreStore(c) PROVE Typed'
  <2>1. v[c] + 1 \in Nat
    BY <1>2
  <2> QED BY <1>1, <1>10, <2>1 DEF MoreStore, Typed
<1>11. ASSUME NEW c \in Caller, First(c) \/ Free(c) \/ LessLoad(c) PROVE Typed'
  <2>1. CASE First(c)
    BY <1>1, <2>1 DEF First, Typed
  <2>2. CASE Free(c)
    BY <1>1, <2>2 DEF Free, Typed
  <2>3. CASE LessLoad(c)
    BY <1>1, <2>3 DEF LessLoad, Typed
  <2> QED BY <1>11, <2>1, <2>2, <2>3
<1>12. ASSUME NEW c \in Caller, Unlink(c) PROVE Typed'
  <2>1. data_list # <<>> /\ data[c] = Nth(1)
    <3>1. op[c] \in Adds \/ op[c] = "clear"
      BY <1>1, <1>12 DEF Unlink, Placed
    <3> QED BY <1>12, <3>1, PlaceOf DEF Unlink, AddAt, ClearAt
  <2>2. data_list' \in Seq(Item)
    BY <1>1, <1>12, <2>1, UnlinkFirst DEF Unlink, Owned
  <2> QED BY <1>1, <1>12, <2>2 DEF Unlink, Typed
<1>13. ASSUME NEW c \in Caller, LessStore(c) PROVE Typed'
  <2>1. op[c] \in Adds
    BY <1>1, <1>13 DEF LessStore, Placed
  <2>2. v[c] = Len(data_list) + 1 /\ Len(data_list) \in Nat
    BY <1>1, <1>13, <2>1, PlaceOf, ItemsPlaced DEF LessStore, AddAt
  <2>3. v[c] - 1 \in Nat
    BY <2>2
  <2> QED BY <1>1, <1>13, <2>3 DEF LessStore, Typed
<1>14. ASSUME NEW c \in Caller, VisitLoad(c) PROVE Typed'
  <2>1. access_count[data[c]] \in Nat
    BY <1>1, <1>14 DEF VisitLoad, More, Typed
  <2> QED BY <1>1, <1>14, <2>1 DEF VisitLoad, Typed
<1>15. ASSUME NEW c \in Caller, Visit(c) PROVE Typed'
  <2>1. v[c] + 1 \in Nat /\ seen[c] + 1 \in Nat
    BY <1>2
  <2> QED BY <1>1, <1>15, <2>1 DEF Visit, Typed
<1>16. ASSUME NEW c \in Caller, Keep(c) \/ Advance(c) \/ WalkEnds(c) PROVE Typed'
  <2>1. \A n : NextOf(n) \in Item \cup {NULL}
    BY <1>1 DEF NextOf
  <2>2. tmp[c] \in Item \cup {NULL}
    BY <1>1 DEF Typed
  <2>3. CASE Keep(c)
    BY <1>1, <2>1, <2>3 DEF Keep, Typed
  <2>4. CASE Advance(c)
    <3>1. PICK n \in Item \cup {NULL} : data' = [data EXCEPT ![c] = n]
      BY <2>1, <2>2, <2>4 DEF Advance
    <3> QED BY <1>1, <2>4, <3>1 DEF Advance, Typed
  <2>5. CASE WalkEnds(c)
    BY <1>1, <2>5 DEF WalkEnds, Typed
  <2> QED BY <1>16, <2>3, <2>4, <2>5
<1>17. ASSUME NEW c \in Caller, StatLoad(c) PROVE Typed'
  <2>1. op[c] \in Adds \cup {"read"}
    BY <1>1, <1>17 DEF StatLoad, Placed
  <2>2. stats[op[c]] \in Nat
    BY <1>1, <2>1 DEF Typed
  <2> QED BY <1>1, <1>17, <2>2 DEF StatLoad, Typed
<1>18. ASSUME NEW c \in Caller, StatStore(c) PROVE Typed'
  <2>1. v[c] + 1 \in Nat
    BY <1>2
  <2> QED BY <1>1, <1>18, <2>1 DEF StatStore, Typed
<1>19. ASSUME NEW c \in Caller, Reset(c) \/ ResetStats(c) PROVE Typed'
  <2>1. CASE Reset(c)
    BY <1>1, <2>1 DEF Reset, Typed
  <2>2. CASE ResetStats(c)
    BY <1>1, <2>2 DEF ResetStats, Typed
  <2> QED BY <1>19, <2>1, <2>2
<1>20. ASSUME NEW c \in Caller, TakeLock(c) \/ Unlock(c) PROVE Typed'
  <2>1. CASE TakeLock(c)
    BY <1>1, <1>2, <2>1 DEF TakeLock, Typed
  <2>2. CASE Unlock(c)
    BY <1>1, <1>2, <2>2 DEF Unlock, Typed
  <2> QED BY <1>20, <2>1, <2>2
<1>21. CASE Exit \/ ExitReturn \/ UNCHANGED vars
  BY <1>1, <1>2, <1>21 DEF Exit, ExitReturn, vars, Typed
<1> QED
  BY <1>3, <1>4, <1>5, <1>6, <1>7, <1>8, <1>9, <1>10, <1>11, <1>12, <1>13, <1>14,
     <1>15, <1>16, <1>17, <1>18, <1>19, <1>20, <1>21, NextCases
  DEF Outside, Inside, Drop, Walk, Stat

\* Every caller stays where its operation takes it.
LEMMA NextPlaced == IInv /\ [Next]_vars => \A d \in Caller : Placed(d)'
<1> SUFFICES ASSUME IInv, [Next]_vars PROVE \A d \in Caller : Placed(d)'
  OBVIOUS
<1> USE DEF Step, Return, Adds
<1>1. Typed /\ (\A c \in Caller : Placed(c)) /\ Unloading
  BY DEF IInv
<1>2. ASSUME NEW c \in Task, NEW o \in Operations, Call(c, o) PROVE \A d \in Caller : Placed(d)'
  BY <1>1, <1>2 DEF Call, Placed, Caller, Typed, items
<1>3. ASSUME NEW c \in Caller, Outside(c) \/ Inside(c) \/ TakeLock(c) \/ Unlock(c)
      PROVE  \A d \in Caller : Placed(d)'
  <2>1. Placed(c) /\ Typed
    BY <1>1
  <2>2. ASSUME Outside(c) PROVE Placed(c)'
    BY <2>1, <2>2 DEF Outside, FetchLoad, FetchStore, Alloc, Interrupted, Placed, Typed
  <2>3. ASSUME Room(c) \/ Link(c) \/ MoreLoad(c) \/ MoreStore(c) PROVE Placed(c)'
    <3>1. CASE Room(c) \/ Link(c)
      BY <2>1, <3>1 DEF Room, Link, Placed, Typed
    <3>2. CASE MoreLoad(c) \/ MoreStore(c)
      BY <2>1, <3>2 DEF MoreLoad, MoreStore, Placed, Typed
    <3> QED BY <2>3, <3>1, <3>2
  <2>4. ASSUME Drop(c) PROVE Placed(c)'
    <3>1. CASE First(c)
      BY <2>1, <3>1 DEF First, Placed, Typed, Operations
    <3>2. CASE Unlink(c) \/ Free(c)
      BY <2>1, <3>2 DEF Unlink, Free, Placed, Typed
    <3>3. CASE LessLoad(c) \/ LessStore(c)
      BY <2>1, <3>3 DEF LessLoad, LessStore, Placed, Typed
    <3> QED BY <2>4, <3>1, <3>2, <3>3 DEF Drop
  <2>5. ASSUME VisitLoad(c) \/ Visit(c) \/ Keep(c) PROVE Placed(c)'
    <3>1. CASE VisitLoad(c)
      BY <2>1, <3>1 DEF VisitLoad, Placed, Typed
    <3>2. CASE Visit(c)
      BY <2>1, <3>2 DEF Visit, Placed, Typed
    <3>3. CASE Keep(c)
      BY <2>1, <3>3 DEF Keep, Placed, Typed
    <3> QED BY <2>5, <3>1, <3>2, <3>3
  <2>6. ASSUME Advance(c) \/ WalkEnds(c) PROVE Placed(c)'
    <3>1. CASE Advance(c)
      BY <2>1, <3>1 DEF Advance, Placed, Typed
    <3>2. CASE WalkEnds(c)
      BY <2>1, <3>2 DEF WalkEnds, Placed, Typed
    <3> QED BY <2>6, <3>1, <3>2
  <2>7. ASSUME Stat(c) PROVE Placed(c)'
    <3>1. CASE StatLoad(c) \/ StatStore(c)
      BY <2>1, <3>1 DEF StatLoad, StatStore, Placed, Typed
    <3>2. CASE Reset(c) \/ ResetStats(c)
      BY <2>1, <3>2 DEF Reset, ResetStats, Placed, Typed
    <3> QED BY <2>7, <3>1, <3>2 DEF Stat
  <2>8. ASSUME TakeLock(c) PROVE Placed(c)'
    BY <2>1, <2>8 DEF TakeLock, Operations, Placed, Typed
  <2>9. ASSUME Unlock(c) PROVE Placed(c)'
    BY <2>1, <2>9 DEF Unlock, Placed, Typed
  <2>10. Placed(c)'
    BY <1>3, <2>2, <2>3, <2>4, <2>5, <2>6, <2>7, <2>8, <2>9 DEF Inside, Walk
  <2>11. ASSUME NEW d \in Caller, d # c PROVE Placed(d)'
    <3>1. pc'[d] = pc[d] /\ op'[d] = op[d] /\ seen'[d] = seen[d]
      BY <1>3, <2>1, <2>11, OthersStay
    <3> QED BY <1>1, <3>1 DEF Placed
  <2> QED BY <2>10, <2>11
<1>4. CASE Exit \/ ExitReturn \/ UNCHANGED vars
  BY <1>1, <1>4 DEF Exit, ExitReturn, vars, Placed, Typed
<1> QED BY <1>2, <1>3, <1>4, NextCases

\* The unload comes last.
LEMMA NextUnloading == IInv /\ [Next]_vars => Unloading'
<1> SUFFICES ASSUME IInv, [Next]_vars PROVE Unloading'
  OBVIOUS
<1>1. /\ Typed /\ (\A c \in Caller : Placed(c)) /\ Unloading /\ "idle" \notin Section
      /\ Rmmod \in Caller /\ Rmmod \notin Task /\ Task \subseteq Caller
  BY CallersAssumption DEF IInv, Caller, Task, Section
<1>2. ASSUME NEW c \in Task, NEW o \in Operations, Call(c, o) PROVE Unloading'
  BY <1>1, <1>2 DEF Call, Step, Unloading, Typed, memory
<1>3. ASSUME NEW c \in Caller, Outside(c) PROVE Unloading'
  <2>1. /\ pc[c] \in {"fetch", "fetched", "alloc", "lock"}
        /\ pc'[c] # "idle" => op'[c] = op[c]
        /\ pc'[c] = "idle" => op'[c] = "clear"
        /\ UNCHANGED <<phase, data_list>>
        /\ \A d \in Caller : d # c => pc'[d] = pc[d] /\ op'[d] = op[d]
    BY <1>1, <1>3, OutsideStep, OthersStay
  <2>2. pc'[Rmmod] # "idle" \/ c # Rmmod
    <3>1. c = Rmmod => op[c] = "clear"
      BY <1>1 DEF Unloading
    <3>2. op[c] = "clear" => pc[c] = "lock"
      BY <1>1, <2>1 DEF Placed, Adds
    <3>3. op[c] = "clear" /\ pc[c] = "lock" => FALSE
      BY <1>1, <1>3
      DEF Outside, FetchLoad, FetchStore, Alloc, Interrupted, Step
    <3> QED BY <3>1, <3>2, <3>3
  <2> QED BY <1>1, <2>1, <2>2 DEF Unloading
<1>4. ASSUME NEW c \in Caller, Inside(c) PROVE Unloading'
  <2>1. /\ pc[c] # "idle" /\ pc'[c] # "idle" /\ op' = op /\ phase' = phase
        /\ \A d \in Caller : d # c => pc'[d] = pc[d]
    BY <1>1, <1>4, InsideStep, OthersStay
  <2>2. CASE c = Rmmod
    BY <1>1, <2>1, <2>2 DEF Unloading
  <2>3. CASE c # Rmmod
    <3>1. c \in Task
      BY <2>3 DEF Caller
    <3>2. phase = "live"
      BY <1>1, <2>1, <3>1 DEF Unloading
    <3> QED BY <1>1, <2>1, <2>3, <3>2 DEF Unloading
  <2> QED BY <2>2, <2>3
<1>5. ASSUME NEW c \in Caller, TakeLock(c) PROVE Unloading'
  BY <1>1, <1>5 DEF TakeLock, Step, Unloading, Typed, memory, fixed, Caller
<1>6. ASSUME NEW c \in Caller, Unlock(c) PROVE Unloading'
  <2>1. /\ pc[c] = "unlock" /\ pc'[c] = "idle" /\ op'[c] = "clear"
        /\ UNCHANGED <<phase, data_list>>
        /\ \A d \in Caller : d # c => pc'[d] = pc[d] /\ op'[d] = op[d]
    BY <1>1, <1>6, OthersStay DEF Unlock, Step, Return, Typed, memory, fixed
  <2>2. c = Rmmod => data_list = <<>>
    <3>1. c = Rmmod => ClearAt(c)
      BY <1>1, <2>1, PlaceOf DEF Unloading, Section
    <3> QED BY <2>1, <3>1 DEF ClearAt
  <2> QED BY <1>1, <2>1, <2>2 DEF Unloading, Caller
<1>7. CASE Exit
  BY <1>1, <1>7 DEF Exit, Step, Unloading, Typed, memory
<1>8. CASE ExitReturn \/ UNCHANGED vars
  BY <1>1, <1>8 DEF ExitReturn, vars, Unloading, memory, fixed
<1> QED BY <1>2, <1>3, <1>4, <1>5, <1>6, <1>7, <1>8, NextCases

-----------------------------------------------------------------------------
(* Who is in a section with whom.                                          *)

\* The locks of two operations that are under way are the same.
LEMMA SameLock ==
  ASSUME FamiliesKept, IInv, NEW c \in Caller, NEW d \in Caller,
         c # d, pc[c] # "idle", pc[d] # "idle"
  PROVE  LockOf[op[c]] = LockOf[op[d]]
<1>1. c \in Task /\ d \in Task
  BY DEF IInv, Unloading, Caller
<1> QED BY <1>1 DEF FamiliesKept, LockInv, Together, IInv, Typed

\* Operations and their locks.
LEMMA LockOfType ==
  /\ \A o \in Operations : LockOf[o] \in Lock
  /\ LockOf["read"] = "rwlock"
  /\ \A o \in Operations : LockOf[o] = "rwlock" => o \in {"read", "rwlock"}
BY DEF Operations, Adds, LockOf, Lock

\* The operations under way stay in their family.
LEMMA NextTogether == IInv /\ [Next]_vars => Together'
<1> SUFFICES ASSUME IInv, [Next]_vars PROVE Together'
  OBVIOUS
<1>1. Typed /\ Unloading /\ Together /\ Task \subseteq Caller /\ Rmmod \notin Task
  BY CallersAssumption DEF IInv, LockInv, Caller, Task
<1>2. ASSUME NEW c \in Task, NEW o \in Operations, Call(c, o) PROVE Together'
  BY <1>1, <1>2 DEF Call, Step, Typed, Together
<1>3. ASSUME NEW c \in Caller, Outside(c) \/ Inside(c) \/ TakeLock(c) \/ Unlock(c)
      PROVE  Together'
  <2>1. /\ pc[c] # "idle" /\ (pc'[c] # "idle" => op'[c] = op[c]) /\ family' = family
    <3>1. CASE Outside(c)
      BY <1>1, <3>1, OutsideStep
    <3>2. CASE Inside(c)
      BY <1>1, <3>2, InsideStep DEF Section
    <3>3. CASE TakeLock(c) \/ Unlock(c)
      BY <1>1, <3>3 DEF TakeLock, Unlock, Step, Typed, fixed
    <3> QED BY <1>3, <3>1, <3>2, <3>3
  <2>2. \A d \in Caller : d # c => pc'[d] = pc[d] /\ op'[d] = op[d]
    BY <1>1, <1>3, OthersStay
  <2> QED BY <1>1, <2>1, <2>2 DEF Together
<1>4. CASE Exit \/ ExitReturn \/ UNCHANGED vars
  BY <1>1, <1>4 DEF Exit, ExitReturn, vars, fixed, Step, Typed, Together
<1> QED BY <1>2, <1>3, <1>4, NextCases

\* Nobody who was not inside is inside after a step that takes no lock.
LEMMA StayInside ==
  ASSUME IInv, [Next]_vars, \A c \in Caller : ~TakeLock(c), NEW d \in Caller, pc'[d] \in Section
  PROVE  pc[d] \in Section /\ op'[d] = op[d]
<1>1. Typed
  BY DEF IInv
<1>2. ASSUME NEW c \in Task, NEW o \in Operations, Call(c, o)
      PROVE  pc[d] \in Section /\ op'[d] = op[d]
  BY <1>1, <1>2 DEF Call, Step, Typed, Section, Caller
<1>3. ASSUME NEW c \in Caller, Outside(c) \/ Inside(c) \/ Unlock(c)
      PROVE  pc[d] \in Section /\ op'[d] = op[d]
  <2>1. CASE c # d
    BY <1>1, <1>3, <2>1, OthersStay
  <2>2. CASE c = d
    <3>1. ~ Outside(c)
      BY <1>1, <2>2, OutsideStep DEF Section
    <3>2. ~ Unlock(c)
      BY <1>1, <2>2 DEF Unlock, Step, Typed, Section
    <3> QED BY <1>1, <1>3, <2>2, <3>1, <3>2, InsideStep
  <2> QED BY <2>1, <2>2
<1>4. CASE Exit \/ ExitReturn \/ UNCHANGED vars
  BY <1>1, <1>4 DEF Exit, ExitReturn, vars, Step, Typed, Section
<1> QED BY <1>2, <1>3, <1>4, NextCases

\* A lock lets in who may be in.
LEMMA NextExclusive == FamiliesKept /\ IInv /\ [Next]_vars => Exclusive'
<1> SUFFICES ASSUME FamiliesKept, IInv, [Next]_vars PROVE Exclusive'
  OBVIOUS
<1>1. Typed /\ Holding /\ Exclusive
  BY DEF IInv, LockInv
<1>2. ASSUME NEW c \in Caller, TakeLock(c) PROVE Exclusive'
  <2>1. ASSUME NEW d \in Caller, d # c, pc[d] \in Section
        PROVE  op[c] = "read" /\ op[d] = "read"
    <3>1. pc[c] = "lock" /\ pc[d] # "idle"
      BY <1>2, <2>1 DEF TakeLock, Section, Step
    <3>2. LockOf[op[c]] = LockOf[op[d]]
      BY <2>1, <3>1, SameLock
    <3>3. holder[LockOf[op[d]]] # d
      BY <1>2, <3>2, NullAssumption DEF TakeLock, IsFree, Caller, Task
    <3>4. op[d] = "read" /\ d \in readers
      BY <1>1, <2>1, <3>3 DEF Holding
    <3>5. op[c] \in {"read", "rwlock"}
      BY <1>1, <3>2, <3>4, LockOfType DEF Typed
    <3> QED BY <1>2, <3>4, <3>5 DEF TakeLock, IsFree
  <2>2. \A d \in Caller : d # c => pc'[d] = pc[d]
    BY <1>1, <1>2, OthersStay
  <2>3. op' = op
    BY <1>2 DEF TakeLock
  <2> QED BY <1>1, <2>1, <2>2, <2>3 DEF Exclusive
<1>3. CASE \A c \in Caller : ~TakeLock(c)
  BY <1>1, <1>3, StayInside DEF Exclusive
<1> QED BY <1>2, <1>3

\* Whoever is in a section holds its lock.
LEMMA NextHolding == FamiliesKept /\ IInv /\ [Next]_vars => Holding'
<1> SUFFICES ASSUME FamiliesKept, IInv, [Next]_vars PROVE Holding'
  OBVIOUS
<1>1. Typed /\ Holding /\ Exclusive /\ Exclusive'
  BY NextExclusive DEF IInv, LockInv
<1>2. ASSUME NEW c \in Caller, TakeLock(c) PROVE Holding'
  <2>1. /\ op' = op /\ pc'[c] \in Section
        /\ \A d \in Caller : d # c => pc'[d] = pc[d]
    BY <1>1, <1>2, OthersStay DEF TakeLock, Step, Typed, Section
  <2>2. ASSUME NEW d \in Caller, d # c, pc'[d] \in Section
        PROVE  op[c] = "read" /\ op[d] = "read" /\ d \in readers
    <3>1. op[c] = "read" /\ op[d] = "read"
      BY <1>1, <2>1, <2>2 DEF Exclusive
    <3> QED BY <1>1, <2>1, <2>2, <3>1 DEF Holding
  <2>3. LockOf[op[c]] \in Lock
    BY <1>1, LockOfType DEF Typed
  <2>4. IF op[c] = "read" THEN c \in readers' ELSE holder'[LockOf[op[c]]] = c
    BY <1>1, <1>2, <2>3 DEF TakeLock, Typed
  <2>5. op[c] = "read" => readers \subseteq readers'
    BY <1>2 DEF TakeLock
  <2> QED BY <2>1, <2>2, <2>4, <2>5 DEF Holding
<1>3. ASSUME NEW c \in Caller, Unlock(c) PROVE Holding'
  <2>1. ASSUME NEW d \in Caller, pc'[d] \in Section
        PROVE  /\ d # c /\ pc[d] \in Section /\ op'[d] = op[d]
               /\ op[c] = "read" /\ op[d] = "read"
    <3>1. pc[c] \in Section /\ pc'[c] \notin Section
      BY <1>1, <1>3 DEF Unlock, Step, Typed, Section
    <3>2. d # c /\ pc[d] \in Section /\ op'[d] = op[d]
      BY <1>1, <1>3, <2>1, <3>1, OthersStay
    <3> QED BY <1>1, <3>1, <3>2 DEF Exclusive
  <2>2. op[c] = "read" => readers' = readers \ {c}
    BY <1>3 DEF Unlock
  <2> QED BY <1>1, <2>1, <2>2 DEF Holding
<1>4. CASE \A c \in Caller : ~TakeLock(c) /\ ~Unlock(c)
  <2>1. UNCHANGED <<holder, readers>>
    <3>1. ASSUME NEW c \in Caller, Outside(c) \/ Inside(c) PROVE UNCHANGED <<holder, readers>>
      BY <1>1, <3>1, OutsideStep, InsideStep
    <3> QED BY <1>4, <3>1, NextCases DEF Call, Exit, ExitReturn, vars, locks
  <2> QED BY <1>1, <1>4, <2>1, StayInside DEF Holding
<1> QED BY <1>2, <1>3, <1>4

-----------------------------------------------------------------------------
(* Whose the items are.                                                    *)

\* Ownership is left alone with what it speaks about.
LEMMA OwnedKept ==
  ASSUME Owned, UNCHANGED memory, Adding' = Adding, Freeing' = Freeing,
         \A d \in Adding : new'[d] = new[d], \A d \in Freeing : data'[d] = data[d]
  PROVE  Owned'
BY DEF Owned, memory

\* Inside of a section only these change who owns what.
LEMMA SameOwners ==
  ASSUME Typed, NEW c \in Caller, Placed(c), Inside(c), ~Unlink(c), ~Free(c), ~Link(c), Owned
  PROVE  Owned'
<1> USE DEF Step, Adds
<1>1. /\ op' = op /\ new' = new
      /\ \A d \in Caller : d # c => pc'[d] = pc[d] /\ data'[d] = data[d]
  BY InsideStep, OthersStay
<1>2. /\ UNCHANGED memory /\ pc[c] # "free" /\ pc'[c] # "free"
      /\ op[c] \in Adds =>
           (pc'[c] \in {"lock", "room", "first", "unlink", "free", "less", "less_store", "link"}
              <=> pc[c] \in {"lock", "room", "first", "unlink", "free", "less", "less_store", "link"})
  <2>1. CASE Room(c) \/ MoreLoad(c) \/ MoreStore(c)
    BY <2>1 DEF Room, MoreLoad, MoreStore, Placed, Typed, memory
  <2>2. CASE First(c) \/ LessLoad(c) \/ LessStore(c)
    BY <2>2 DEF First, LessLoad, LessStore, Placed, Typed, memory
  <2>3. CASE VisitLoad(c) \/ Visit(c) \/ Keep(c)
    BY <2>3 DEF VisitLoad, Visit, Keep, Placed, Typed, memory
  <2>4. CASE Advance(c) \/ WalkEnds(c)
    BY <2>4 DEF Advance, WalkEnds, Placed, Typed, memory
  <2>5. CASE Stat(c)
    BY <2>5 DEF Stat, StatLoad, StatStore, Reset, ResetStats, Placed, Typed, memory
  <2> QED BY <2>1, <2>2, <2>3, <2>4, <2>5 DEF Inside, Drop, Walk
<1>3. Adding' = Adding
  BY <1>1, <1>2 DEF Adding
<1>4. Freeing' = Freeing
  BY <1>1, <1>2 DEF Freeing
<1>5. \A d \in Freeing : data'[d] = data[d]
  BY <1>1, <1>2 DEF Freeing
<1> QED BY <1>1, <1>2, <1>3, <1>4, <1>5, OwnedKept

\* No step loses an item or shares it out twice.
LEMMA NextOwned == IInv /\ [Next]_vars => Owned'
<1> SUFFICES ASSUME IInv, [Next]_vars PROVE Owned'
  OBVIOUS
<1> USE DEF Step
<1>1. Typed /\ (\A c \in Caller : Placed(c)) /\ Unloading /\ Owned /\ Exclusive
  BY DEF IInv, LockInv
<1>2. ASSUME NEW c \in Task, NEW o \in Operations, Call(c, o) PROVE Owned'
  <2>1. /\ c \in Caller /\ pc[c] = "idle" /\ pc'[c] \in {"lock", "fetch", "alloc"}
        /\ pc'[c] = "lock" => op'[c] \notin Adds
        /\ \A d \in Caller : d # c => pc'[d] = pc[d] /\ op'[d] = op[d]
        /\ UNCHANGED memory /\ new' = new /\ data' = data
    BY <1>1, <1>2 DEF Call, Typed, Caller, items
  <2>2. Adding' = Adding /\ Freeing' = Freeing
    BY <2>1 DEF Adding, Freeing
  <2> QED BY <1>1, <2>1, <2>2, OwnedKept
<1>3. ASSUME NEW c \in Caller, FetchLoad(c) \/ FetchStore(c) \/ TakeLock(c) \/ Unlock(c)
      PROVE  Owned'
  <2>1. \A d \in Caller : d # c =>
          pc'[d] = pc[d] /\ op'[d] = op[d] /\ new'[d] = new[d] /\ data'[d] = data[d]
    BY <1>1, <1>3, OthersStay DEF Outside
  <2>2. /\ UNCHANGED memory /\ pc[c] # "free" /\ pc'[c] # "free"
        /\ c \in Adding => new'[c] = new[c]
    BY <1>1, <1>3
    DEF FetchLoad, FetchStore, TakeLock, Unlock, Adding, Typed, items, memory
  <2>3. c \in Adding <=> c \in Adding'
    <3>1. CASE FetchLoad(c) \/ FetchStore(c)
      BY <1>1, <3>1 DEF FetchLoad, FetchStore, Adding, Typed
    <3>2. CASE TakeLock(c)
      BY <1>1, <3>2 DEF TakeLock, Adding, Typed
    <3>3. CASE Unlock(c)
      BY <1>1, <3>3 DEF Unlock, Adding, Typed
    <3> QED BY <1>3, <3>1, <3>2, <3>3
  <2>4. Adding' = Adding
    BY <2>1, <2>3 DEF Adding
  <2>5. Freeing' = Freeing /\ \A d \in Freeing : data'[d] = data[d]
    BY <2>1, <2>2 DEF Freeing
  <2> QED BY <1>1, <2>1, <2>2, <2>4, <2>5, OwnedKept DEF Adding
<1>4. ASSUME NEW c \in Caller, Alloc(c) PROVE Owned'
  <2>1. /\ pc[c] = "alloc" /\ pc'[c] # "free" /\ op[c] \in Adds
        /\ \A d \in Caller : d # c =>
             pc'[d] = pc[d] /\ op'[d] = op[d] /\ new'[d] = new[d] /\ data'[d] = data[d]
    <3>1. pc[c] = "alloc" /\ pc'[c] # "free"
      BY <1>1, <1>4 DEF Alloc, Typed
    <3>2. op[c] \in Adds
      BY <1>1, <3>1 DEF Placed
    <3>3. Outside(c)
      BY <1>4 DEF Outside
    <3> QED BY <1>1, <3>1, <3>2, <3>3, OthersStay
  <2>2. Freeing' = Freeing /\ \A d \in Freeing : data'[d] = data[d]
    BY <2>1 DEF Freeing
  <2>3. CASE pc'[c] = "idle" /\ UNCHANGED Allocated
    <3>1. Adding' = Adding /\ \A d \in Adding : new'[d] = new[d]
      BY <2>1, <2>3 DEF Adding
    <3> QED BY <1>1, <1>4, <2>2, <2>3, <3>1, OwnedKept DEF Alloc, memory
  <2>4. CASE pc'[c] = "lock" /\ op' = op
    <3>1. PICK n \in Item \ Allocated :
            Allocated' = Allocated \cup {n} /\ new' = [new EXCEPT ![c] = n]
      BY <1>1, <1>4, <2>4 DEF Alloc, Typed
    <3>2. Adding' = Adding \cup {c} /\ c \notin Adding
      BY <2>1, <2>4 DEF Adding
    <3>3. new'[c] = n /\ \A d \in Adding : new'[d] = new[d]
      BY <1>1, <3>1, <3>2 DEF Adding, Typed
    <3>4. data_list' = data_list
      BY <1>4 DEF Alloc
    <3> QED BY <1>1, <2>2, <3>1, <3>2, <3>3, <3>4 DEF Owned
  <2> QED BY <1>1, <1>4, <2>3, <2>4 DEF Alloc, Typed
<1>5. ASSUME NEW c \in Caller, Interrupted(c) PROVE Owned'
  <2>1. /\ pc[c] = "lock" /\ pc'[c] = "idle" /\ op[c] \in Adds
        /\ \A d \in Caller : d # c =>
             pc'[d] = pc[d] /\ op'[d] = op[d] /\ new'[d] = new[d] /\ data'[d] = data[d]
    BY <1>1, <1>5, OthersStay DEF Interrupted, Typed, Outside, Adds
  <2>2. Freeing' = Freeing /\ \A d \in Freeing : data'[d] = data[d]
    BY <2>1 DEF Freeing
  <2>3. c \in Adding /\ Adding' = Adding \ {c} /\ \A d \in Adding \ {c} : new'[d] = new[d]
    BY <2>1 DEF Adding
  <2>4. data_list' = data_list /\ Allocated' = Allocated \ {new[c]}
    BY <1>5 DEF Interrupted
  <2> QED BY <1>1, <2>2, <2>3, <2>4 DEF Owned
<1>6. ASSUME NEW c \in Caller, Unlink(c) PROVE Owned'
  <2>1. /\ pc[c] = "unlink" /\ pc'[c] = "free" /\ op[c] \in Adds \cup {"clear"}
        /\ UNCHANGED <<op, new, data, Allocated>>
        /\ \A d \in Caller : d # c => pc'[d] = pc[d]
    BY <1>1, <1>6 DEF Unlink, Typed, Placed, items
  <2>2. data_list # <<>> /\ data[c] = Nth(1)
    BY <2>1, PlaceOf DEF Section, AddAt, ClearAt
  <2>3. /\ Range(data_list') = Range(data_list) \ {data[c]}
        /\ IsInjective(data_list') /\ data[c] \in Range(data_list)
    BY <1>1, <1>6, <2>2, UnlinkFirst DEF Unlink, Owned
  <2>4. Adding' = Adding /\ Freeing' = Freeing \cup {c} /\ c \notin Freeing
    BY <2>1 DEF Adding, Freeing
  <2> QED BY <1>1, <2>1, <2>3, <2>4 DEF Owned
<1>7. ASSUME NEW c \in Caller, Free(c) PROVE Owned'
  <2>1. /\ pc[c] = "free" /\ pc'[c] \in {"next", "less"} /\ op[c] \in Adds \cup {"clear"}
        /\ op[c] \in Adds => pc'[c] = "less"
        /\ UNCHANGED <<op, new, data_list>> /\ Allocated' = Allocated \ {data[c]}
        /\ \A d \in Caller : d # c => pc'[d] = pc[d]
    BY <1>1, <1>7 DEF Free, Typed, Placed, items, Adds
  <2>2. Freeing = {c}
    BY <1>1, <2>1, ChangesAlone DEF Freeing, Section, Adds
  <2>3. Freeing' = {} /\ Adding' = Adding
    BY <2>1, <2>2 DEF Freeing, Adding
  <2> QED BY <1>1, <2>1, <2>2, <2>3 DEF Owned
<1>8. ASSUME NEW c \in Caller, Link(c) PROVE Owned'
  <2>1. /\ pc[c] = "link" /\ pc'[c] = "more" /\ op[c] \in Adds
        /\ UNCHANGED <<op, new, data, Allocated>> /\ data_list' = Append(data_list, new[c])
        /\ \A d \in Caller : d # c => pc'[d] = pc[d]
    BY <1>1, <1>8 DEF Link, Typed, Placed, items
  <2>2. c \in Adding /\ Adding' = Adding \ {c} /\ Freeing' = Freeing
    BY <2>1 DEF Adding, Freeing
  <2>3. new[c] \in Item
    BY <1>1, <2>2 DEF Owned, Typed
  <2>4. /\ Range(data_list') = Range(data_list) \cup {new[c]}
        /\ IsInjective(data_list')
    BY <1>1, <2>1, <2>2, <2>3, AppendRange DEF Typed, Owned
  <2> QED BY <1>1, <2>1, <2>2, <2>4 DEF Owned
<1>9. CASE Exit \/ ExitReturn \/ UNCHANGED vars
  <2>1. UNCHANGED <<memory, op, new, data>> /\ (\A c \in Caller : op[c] \in Adds => pc'[c] = pc[c])
    BY <1>1, <1>9 DEF Exit, ExitReturn, vars, items, Unloading, Adds, Typed
  <2>2. \A c \in Caller : pc[c] = "free" <=> pc'[c] = "free"
    BY <1>1, <1>9 DEF Exit, ExitReturn, vars, Typed
  <2>3. Adding' = Adding /\ Freeing' = Freeing
    BY <2>1, <2>2 DEF Adding, Freeing
  <2> QED BY <1>1, <2>1, <2>3, OwnedKept
<1> QED
  BY <1>1, <1>2, <1>3, <1>4, <1>5, <1>6, <1>7, <1>8, <1>9, NextCases, SameOwners DEF Outside

-----------------------------------------------------------------------------
(* How far everyone is.                                                    *)

\* The place of a caller speaks of nothing else.
LEMMA PlaceKept ==
  ASSUME NEW d \in Caller, Place(d), UNCHANGED <<data_list, data_count>>,
         pc'[d] = pc[d], op'[d] = op[d], v'[d] = v[d], seen'[d] = seen[d],
         data'[d] = data[d], tmp'[d] = tmp[d]
  PROVE  Place(d)'
BY DEF Place, AddAt, WalkAt, ClearAt, Nth

\* The others are outside, or read as this one does.
LEMMA OthersPlaced ==
  ASSUME IInv, NEW c \in Caller, Inside(c),
         op[c] = "read" => UNCHANGED <<data_list, data_count>>
  PROVE  \A d \in Caller : d # c => Place(d)'
<1> SUFFICES ASSUME NEW d \in Caller, d # c PROVE Place(d)'
  OBVIOUS
<1>1. /\ Typed /\ pc[c] \in Section
      /\ pc'[d] = pc[d] /\ op'[d] = op[d] /\ v'[d] = v[d] /\ seen'[d] = seen[d]
      /\ data'[d] = data[d] /\ tmp'[d] = tmp[d]
  BY InsideStep, OthersStay DEF IInv
<1>2. CASE op[c] = "read"
  BY <1>1, <1>2, PlaceKept DEF IInv
<1>3. CASE op[c] # "read"
  <2>1. pc[d] \notin Section
    BY <1>1, <1>3, ChangesAlone DEF IInv, LockInv
  <2> QED BY <1>1, <2>1 DEF Place
<1> QED BY <1>2, <1>3

\* An add knows data_count and the length of the list at each of its places.
LEMMA AddPlaced ==
  ASSUME IInv, NEW c \in Caller, op[c] \in Adds, Inside(c)
  PROVE  AddAt(c)' /\ data_count' <= MAX_DATA_ITEMS
<1> USE DEF Step
<1>1. /\ Typed /\ Placed(c) /\ Owned /\ AddAt(c) /\ op[c] \notin {"read", "show", "clear"}
      /\ pc'[c] \in Section /\ op' = op
  BY InsideStep, PlaceOf DEF IInv, Adds
<1>2. /\ data_count \in Nat /\ Len(data_list) \in Nat /\ data_count <= MAX_DATA_ITEMS
      /\ MAX_DATA_ITEMS \in Nat \ {0} /\ v[c] \in Nat
      /\ data_list = <<>> <=> Len(data_list) = 0
  BY <1>1, ItemsPlaced, BoundsAssumption DEF IInv, Typed, Counted
<1>3. ASSUME Room(c) PROVE AddAt(c)' /\ data_count' <= MAX_DATA_ITEMS
  <2>1. /\ pc'[c] = IF data_count >= MAX_DATA_ITEMS THEN "first" ELSE "link"
        /\ data_count = Len(data_list) /\ UNCHANGED <<data_list, data_count>>
    BY <1>1, <1>3 DEF Room, AddAt, Typed, memory, counters
  <2> QED BY <1>2, <2>1 DEF AddAt
<1>4. ASSUME First(c) PROVE AddAt(c)' /\ data_count' <= MAX_DATA_ITEMS
  <2>1. /\ pc'[c] = "unlink" /\ data'[c] = Nth(1)
        /\ data_count = Len(data_list) /\ data_list # <<>>
        /\ UNCHANGED <<data_list, data_count>>
    BY <1>1, <1>4 DEF First, Take, AddAt, Typed, memory, counters
  <2>2. Nth(1)' = Nth(1)
    BY <2>1 DEF Nth
  <2> QED BY <1>2, <2>1, <2>2 DEF AddAt
<1>5. ASSUME Unlink(c) PROVE AddAt(c)' /\ data_count' <= MAX_DATA_ITEMS
  <2>1. /\ pc'[c] = "free" /\ data_count' = data_count
        /\ data_count = Len(data_list) /\ data_list # <<>> /\ data[c] = Nth(1)
        /\ data_list' = RemoveFirst(data_list, data[c])
    BY <1>1, <1>5 DEF Unlink, AddAt, Typed, counters
  <2>2. Len(data_list') = Len(data_list) - 1
    BY <1>1, <2>1, UnlinkFirst DEF Owned
  <2> QED BY <1>2, <2>1, <2>2 DEF AddAt
<1>6. ASSUME Free(c) \/ LessLoad(c) PROVE AddAt(c)' /\ data_count' <= MAX_DATA_ITEMS
  <2>1. /\ pc'[c] \in {"less", "less_store"} /\ data_count = Len(data_list) + 1
        /\ pc'[c] = "less_store" => v'[c] = data_count
        /\ UNCHANGED <<data_list, data_count>>
    BY <1>1, <1>6 DEF Free, LessLoad, Load, AddAt, Typed, memory, counters
  <2> QED BY <1>2, <2>1 DEF AddAt
<1>7. ASSUME LessStore(c) PROVE AddAt(c)' /\ data_count' <= MAX_DATA_ITEMS
  <2>1. /\ pc'[c] = "link" /\ data_count' = data_count - 1 /\ data_list' = data_list
        /\ data_count = Len(data_list) + 1
    BY <1>1, <1>7 DEF LessStore, AddAt, Typed, memory
  <2> QED BY <1>2, <2>1 DEF AddAt
<1>8. ASSUME Link(c) PROVE AddAt(c)' /\ data_count' <= MAX_DATA_ITEMS
  <2>1. /\ pc'[c] = "more" /\ data_list' = Append(data_list, new[c])
        /\ data_count' = data_count /\ data_count = Len(data_list)
        /\ data_count < MAX_DATA_ITEMS
    BY <1>1, <1>8 DEF Link, AddAt, Typed, counters
  <2>2. c \in Adding
    BY <1>8 DEF Link, Adding
  <2>3. new[c] \in Item
    BY <1>1, <2>2 DEF Owned, Typed
  <2>4. Len(data_list') = Len(data_list) + 1
    BY <1>1, <2>1, <2>3, AppendProperties DEF Typed
  <2> QED BY <1>2, <2>1, <2>4 DEF AddAt
<1>9. ASSUME MoreLoad(c) PROVE AddAt(c)' /\ data_count' <= MAX_DATA_ITEMS
  <2>1. /\ pc'[c] = "more_store" /\ v'[c] = data_count
        /\ Len(data_list) = data_count + 1 /\ data_count < MAX_DATA_ITEMS
        /\ UNCHANGED <<data_list, data_count>>
    BY <1>1, <1>9 DEF MoreLoad, Load, AddAt, Typed, memory, counters
  <2> QED BY <1>2, <2>1 DEF AddAt
<1>10. ASSUME MoreStore(c) PROVE AddAt(c)' /\ data_count' <= MAX_DATA_ITEMS
  <2>1. /\ pc'[c] = "stat" /\ data_count' = data_count + 1 /\ data_list' = data_list
        /\ Len(data_list) = data_count + 1 /\ data_count < MAX_DATA_ITEMS
    BY <1>1, <1>10 DEF MoreStore, AddAt, Typed, memory
  <2> QED BY <1>2, <2>1 DEF AddAt
<1>11. ASSUME StatLoad(c) \/ StatStore(c) PROVE AddAt(c)' /\ data_count' <= MAX_DATA_ITEMS
  <2>1. /\ pc'[c] \in {"stat_store", "unlock"} /\ data_count = Len(data_list)
        /\ UNCHANGED <<data_list, data_count>>
    BY <1>1, <1>11 DEF StatLoad, StatStore, AddAt, Typed, memory, counters
  <2> QED BY <1>2, <2>1 DEF AddAt
<1>12. ~Walk(c) /\ ~Reset(c) /\ ~ResetStats(c)
  BY <1>1
  DEF Walk, VisitLoad, Visit, Keep, Advance, WalkEnds, Reset, ResetStats, Placed
<1> QED BY <1>3, <1>4, <1>5, <1>6, <1>7, <1>8, <1>9, <1>10, <1>11, <1>12 DEF Inside, Drop, Stat

\* A read and a show know their place in the list.
LEMMA WalkPlaced ==
  ASSUME IInv, NEW c \in Caller, op[c] \in {"read", "show"}, Inside(c)
  PROVE  WalkAt(c)' /\ UNCHANGED <<data_list, data_count>>
<1> USE DEF Step
<1>1. /\ Typed /\ Placed(c) /\ IsInjective(data_list) /\ WalkAt(c)
      /\ op[c] # "clear" /\ op[c] \notin Adds
      /\ pc'[c] \in Section /\ op' = op
  BY InsideStep, PlaceOf DEF IInv, Owned, Adds
<1>2. /\ Len(data_list) \in Nat /\ SHOWN_ITEMS \in Nat \ {0} /\ seen[c] \in Nat
      /\ \A k \in 1 .. Len(data_list) : Nth(k) # NULL
      /\ \A k : k \notin 1 .. Len(data_list) => Nth(k) = NULL
  BY <1>1, ItemsPlaced, BoundsAssumption DEF Typed
<1>3. ~(Room(c) \/ Link(c) \/ MoreLoad(c) \/ MoreStore(c) \/ Unlink(c) \/ Free(c))
  BY <1>1 DEF Room, Link, MoreLoad, MoreStore, Unlink, Free, Placed
<1>4. ~(LessLoad(c) \/ LessStore(c) \/ Keep(c) \/ Reset(c) \/ ResetStats(c))
  BY <1>1 DEF LessLoad, LessStore, Keep, Reset, ResetStats, Placed
<1>5. UNCHANGED <<data_list, data_count>>
  BY <1>3, <1>4
  DEF Inside, Drop, Walk, Stat, First, VisitLoad, Visit, Advance, WalkEnds, StatLoad,
      StatStore, memory, counters
<1>6. /\ Len(data_list)' = Len(data_list) /\ \A k : Nth(k)' = Nth(k)
      /\ data_count' = Len(data_list)
      /\ seen[c] <= Len(data_list) /\ (op[c] = "show" => seen[c] <= SHOWN_ITEMS)
  BY <1>1, <1>5 DEF Nth, WalkAt
<1>7. ASSUME First(c) PROVE WalkAt(c)'
  <2>1. pc'[c] = "walk" /\ data'[c] = Nth(1) /\ seen'[c] = 0 /\ seen[c] = 0
    BY <1>1, <1>7 DEF First, Take, WalkAt, Typed
  <2> QED BY <1>1, <1>2, <1>5, <1>6, <2>1 DEF WalkAt
<1>8. ASSUME VisitLoad(c) PROVE WalkAt(c)'
  <2>1. /\ pc'[c] = "visit" /\ UNCHANGED <<data, seen>>
        /\ data[c] = Nth(seen[c] + 1) /\ data[c] # NULL
        /\ op[c] = "show" => seen[c] < SHOWN_ITEMS
    BY <1>1, <1>8 DEF VisitLoad, More, WalkAt, Typed, items
  <2>2. seen[c] < Len(data_list)
    BY <1>2, <2>1
  <2> QED BY <1>1, <1>2, <1>5, <1>6, <2>1, <2>2 DEF WalkAt
<1>9. ASSUME Visit(c) PROVE WalkAt(c)'
  <2>1. /\ pc'[c] = "next" /\ seen'[c] = seen[c] + 1 /\ data' = data
        /\ data[c] = Nth(seen[c] + 1) /\ seen[c] < Len(data_list)
        /\ op[c] = "show" => seen[c] < SHOWN_ITEMS
    BY <1>1, <1>9 DEF Visit, WalkAt, Typed, items
  <2> QED BY <1>1, <1>2, <1>5, <1>6, <2>1 DEF WalkAt
<1>10. ASSUME Advance(c) PROVE WalkAt(c)'
  <2>1. /\ pc'[c] = "walk" /\ seen' = seen /\ data'[c] = NextOf(data[c])
        /\ seen[c] > 0 /\ data[c] = Nth(seen[c])
    BY <1>1, <1>10 DEF Advance, Take, WalkAt, Typed
  <2>2. seen[c] \in 1 .. Len(data_list)
    BY <1>2, <1>6, <2>1
  <2>3. data'[c] = Nth(seen[c] + 1)
    BY <1>1, <2>1, <2>2, NextPlace
  <2> QED BY <1>1, <1>2, <1>5, <1>6, <2>1, <2>3 DEF WalkAt
<1>11. ASSUME WalkEnds(c) PROVE WalkAt(c)'
  <2>1. /\ pc'[c] = IF op[c] = "read" THEN "stat" ELSE "unlock"
        /\ UNCHANGED <<data, seen>> /\ data[c] = Nth(seen[c] + 1)
        /\ data[c] = NULL \/ (op[c] = "show" /\ ~(seen[c] < SHOWN_ITEMS))
    BY <1>1, <1>11 DEF WalkEnds, More, WalkAt, Typed, items
  <2>2. data[c] = NULL => seen[c] = Len(data_list)
    BY <1>2, <1>6, <2>1
  <2> QED BY <1>1, <1>2, <1>5, <1>6, <2>1, <2>2 DEF WalkAt
<1>12. ASSUME StatLoad(c) \/ StatStore(c) PROVE WalkAt(c)'
  <2>1. /\ pc[c] \in {"stat", "stat_store"} /\ pc'[c] \in {"stat_store", "unlock"}
        /\ UNCHANGED <<data, seen>> /\ op[c] = "read"
    BY <1>1, <1>12 DEF StatLoad, StatStore, Placed, Typed, items
  <2>2. seen[c] = Len(data_list)
    BY <1>1, <2>1 DEF WalkAt
  <2> QED BY <1>1, <1>2, <1>5, <1>6, <2>1, <2>2 DEF WalkAt
<1> QED
  BY <1>3, <1>4, <1>5, <1>7, <1>8, <1>9, <1>10, <1>11, <1>12 DEF Inside, Drop, Walk, Stat

\* A clear is at the front of the list, until nothing is left.
LEMMA ClearPlaced ==
  ASSUME IInv, NEW c \in Caller, op[c] = "clear", Inside(c)
  PROVE  ClearAt(c)' /\ data_count' <= MAX_DATA_ITEMS
<1> USE DEF Step
<1>1. /\ Typed /\ Placed(c) /\ IsInjective(data_list) /\ ClearAt(c)
      /\ op[c] \notin Adds /\ op[c] \notin {"read", "show"}
  BY InsideStep, PlaceOf DEF IInv, Owned, Adds
<1>2. /\ data_count <= MAX_DATA_ITEMS /\ 0 <= MAX_DATA_ITEMS
      /\ Len(data_list) \in Nat /\ data_list = <<>> <=> Len(data_list) = 0
      /\ \A k \in 1 .. Len(data_list) : Nth(k) # NULL
      /\ \A k : k \notin 1 .. Len(data_list) => Nth(k) = NULL
  BY <1>1, ItemsPlaced, BoundsAssumption DEF IInv, Counted
<1>3. data_list = <<>> <=> Nth(1) = NULL
  BY <1>2
<1>4. ~(Room(c) \/ Link(c) \/ MoreLoad(c) \/ MoreStore(c) \/ LessLoad(c) \/ LessStore(c))
  BY <1>1 DEF Room, Link, MoreLoad, MoreStore, LessLoad, LessStore, Placed
<1>5. ~(VisitLoad(c) \/ Visit(c) \/ StatLoad(c) \/ StatStore(c))
  BY <1>1 DEF VisitLoad, Visit, StatLoad, StatStore, Placed
<1>6. UNCHANGED data_list => Nth(1)' = Nth(1) /\ Nth(2)' = Nth(2)
  BY DEF Nth
<1>7. ASSUME First(c) PROVE ClearAt(c)' /\ data_count' <= MAX_DATA_ITEMS
  <2>1. pc'[c] = "walk" /\ data'[c] = Nth(1) /\ UNCHANGED <<data_list, data_count>>
    BY <1>1, <1>7 DEF First, Take, Typed, memory, counters
  <2> QED BY <1>2, <1>6, <2>1 DEF ClearAt
<1>8. ASSUME Keep(c) PROVE ClearAt(c)' /\ data_count' <= MAX_DATA_ITEMS
  <2>1. /\ pc'[c] = "unlink" /\ data' = data /\ tmp'[c] = NextOf(data[c])
        /\ UNCHANGED <<data_list, data_count>>
        /\ data[c] = Nth(1) /\ data[c] # NULL
    BY <1>1, <1>8 DEF Keep, More, ClearAt, Typed, memory, counters
  <2>2. 1 \in 1 .. Len(data_list) /\ 1 + 1 = 2
    BY <1>2, <2>1
  <2>3. tmp'[c] = Nth(2)
    BY <1>1, <2>1, <2>2, NextPlace
  <2> QED BY <1>2, <1>3, <1>6, <2>1, <2>3 DEF ClearAt
<1>9. ASSUME Unlink(c) PROVE ClearAt(c)' /\ data_count' <= MAX_DATA_ITEMS
  <2>1. /\ pc'[c] = "free" /\ tmp' = tmp /\ data_count' = data_count
        /\ data_list' = RemoveFirst(data_list, data[c])
        /\ data[c] = Nth(1) /\ data_list # <<>> /\ tmp[c] = Nth(2)
    BY <1>1, <1>9 DEF Unlink, ClearAt, Typed, counters, items
  <2>2. Nth(1)' = Nth(2)
    BY <1>1, <2>1, UnlinkFirst
  <2> QED BY <1>2, <2>1, <2>2 DEF ClearAt
<1>10. ASSUME Free(c) PROVE ClearAt(c)' /\ data_count' <= MAX_DATA_ITEMS
  <2>1. /\ pc'[c] = "next" /\ tmp' = tmp /\ UNCHANGED <<data_list, data_count>>
        /\ tmp[c] = Nth(1)
    BY <1>1, <1>10 DEF Free, ClearAt, Typed, counters
  <2> QED BY <1>2, <1>6, <2>1 DEF ClearAt
<1>11. ASSUME Advance(c) PROVE ClearAt(c)' /\ data_count' <= MAX_DATA_ITEMS
  <2>1. /\ pc'[c] = "walk" /\ data'[c] = tmp[c] /\ UNCHANGED <<data_list, data_count>>
        /\ tmp[c] = Nth(1)
    BY <1>1, <1>11 DEF Advance, Take, ClearAt, Typed, memory, counters
  <2> QED BY <1>2, <1>6, <2>1 DEF ClearAt
<1>12. ASSUME WalkEnds(c) PROVE ClearAt(c)' /\ data_count' <= MAX_DATA_ITEMS
  <2>1. /\ pc'[c] = "reset" /\ UNCHANGED <<data_list, data_count>>
        /\ data[c] = Nth(1) /\ data[c] = NULL
    BY <1>1, <1>12 DEF WalkEnds, More, ClearAt, Typed, memory, counters
  <2> QED BY <1>2, <1>3, <2>1 DEF ClearAt
<1>13. ASSUME Reset(c) \/ ResetStats(c) PROVE ClearAt(c)' /\ data_count' <= MAX_DATA_ITEMS
  <2>1. /\ pc'[c] \in {"memset", "unlock"} /\ data_list' = data_list
        /\ data_list = <<>> /\ data_count' = 0
    BY <1>1, <1>13 DEF Reset, ResetStats, ClearAt, Typed, memory
  <2> QED BY <1>2, <2>1 DEF ClearAt
<1> QED
  BY <1>4, <1>5, <1>7, <1>8, <1>9, <1>10, <1>11, <1>12, <1>13 DEF Inside, Drop, Walk, Stat

\* Whoever takes a lock finds data_count in order.
LEMMA LockPlaced ==
  ASSUME IInv, Exclusive', NEW c \in Caller, TakeLock(c)
  PROVE  Place(c)'
<1>1. /\ Typed /\ pc[c] = "lock" /\ seen'[c] = 0 /\ op' = op
      /\ pc'[c] = IF op[c] \in Adds THEN "room" ELSE "first"
      /\ UNCHANGED <<data_list, data_count>>
      /\ Len(data_list) \in Nat /\ SHOWN_ITEMS \in Nat
  BY ItemsPlaced, BoundsAssumption DEF IInv, TakeLock, Step, Typed, memory, counters
<1>2. data_count = Len(data_list)
  <2>1. CASE \A d \in Caller : pc[d] \notin Section
    BY <2>1 DEF IInv, Counted
  <2>2. ASSUME NEW d \in Caller, pc[d] \in Section PROVE data_count = Len(data_list)
    <3>1. d # c /\ pc'[d] \in Section /\ pc'[c] \in Section
      BY <1>1, <2>2, OthersStay DEF Section
    <3>2. op[d] = "read"
      BY <1>1, <3>1 DEF Exclusive
    <3> QED BY <2>2, <3>2, PlaceOf DEF WalkAt
  <2> QED BY <2>1, <2>2
<1>3. op[c] \in Adds => AddAt(c)'
  BY <1>1, <1>2 DEF AddAt
<1>4. op[c] \in {"read", "show"} => WalkAt(c)'
  BY <1>1, <1>2 DEF WalkAt, Adds
<1>5. op[c] = "clear" => ClearAt(c)'
  BY <1>1 DEF ClearAt, Adds
<1> QED BY <1>1, <1>3, <1>4, <1>5 DEF Place

\* Everyone knows how far they are, and data_count is right when nobody is
\* inside.
LEMMA NextPlaces ==
  FamiliesKept /\ IInv /\ [Next]_vars => (\A d \in Caller : Place(d)') /\ Counted'
<1> SUFFICES ASSUME FamiliesKept, IInv, [Next]_vars
             PROVE  (\A d \in Caller : Place(d)') /\ Counted'
  OBVIOUS
<1>1. Typed /\ Counted /\ (\A d \in Caller : Place(d)) /\ Exclusive'
  BY NextExclusive DEF IInv
<1>2. ASSUME NEW c \in Task, NEW o \in Operations, Call(c, o)
      PROVE  (\A d \in Caller : Place(d)') /\ Counted'
  <2>1. /\ c \in Caller /\ pc[c] \notin Section /\ pc'[c] \notin Section
        /\ UNCHANGED <<data_list, data_count, v, seen, data, tmp>>
        /\ \A d \in Caller : d # c => pc'[d] = pc[d] /\ op'[d] = op[d]
    BY <1>1, <1>2 DEF Call, Step, Typed, Section, Caller, memory, counters, items
  <2>2. \A d \in Caller : d # c => Place(d)'
    BY <1>1, <2>1, PlaceKept
  <2>3. Place(c)'
    BY <2>1 DEF Place
  <2>4. Counted'
    BY <1>1, <2>1 DEF Counted
  <2> QED BY <2>2, <2>3, <2>4
<1>3. ASSUME NEW c \in Caller, Outside(c)
      PROVE  (\A d \in Caller : Place(d)') /\ Counted'
  <2>1. /\ pc[c] \notin Section /\ pc'[c] \notin Section
        /\ UNCHANGED <<data_list, data_count>>
        /\ \A d \in Caller : d # c => pc'[d] = pc[d]
    BY <1>1, <1>3, OutsideStep, OthersStay DEF Section
  <2>2. \A d \in Caller : d # c => Place(d)'
    BY <1>1, <1>3, <2>1, OthersStay, PlaceKept
  <2>3. Place(c)'
    BY <2>1 DEF Place
  <2>4. Counted'
    BY <1>1, <2>1 DEF Counted
  <2> QED BY <2>2, <2>3, <2>4
<1>4. ASSUME NEW c \in Caller, Inside(c)
      PROVE  (\A d \in Caller : Place(d)') /\ Counted'
  <2>1. /\ pc[c] \in Section /\ pc'[c] \in Section /\ op'[c] = op[c]
        /\ op[c] \in Adds \cup {"read", "show", "clear"}
    BY <1>1, <1>4, InsideStep, PlaceOf
  <2>2. /\ Place(c)' /\ data_count' <= MAX_DATA_ITEMS
        /\ op[c] = "read" => UNCHANGED <<data_list, data_count>>
    <3>1. CASE op[c] \in Adds
      <4>1. AddAt(c)' /\ data_count' <= MAX_DATA_ITEMS
        BY <1>4, <3>1, AddPlaced
      <4> QED BY <2>1, <3>1, <4>1 DEF Place, Adds
    <3>2. CASE op[c] \in {"read", "show"}
      <4>1. WalkAt(c)' /\ UNCHANGED <<data_list, data_count>>
        BY <1>4, <3>2, WalkPlaced
      <4> QED BY <1>1, <2>1, <3>2, <4>1 DEF Place, Adds, Counted
    <3>3. CASE op[c] = "clear"
      <4>1. ClearAt(c)' /\ data_count' <= MAX_DATA_ITEMS
        BY <1>4, <3>3, ClearPlaced
      <4> QED BY <2>1, <3>3, <4>1 DEF Place, Adds
    <3> QED BY <2>1, <3>1, <3>2, <3>3
  <2>3. \A d \in Caller : d # c => Place(d)'
    BY <1>4, <2>2, OthersPlaced
  <2> QED BY <2>1, <2>2, <2>3 DEF Counted
<1>5. ASSUME NEW c \in Caller, TakeLock(c)
      PROVE  (\A d \in Caller : Place(d)') /\ Counted'
  <2>1. /\ pc'[c] \in Section /\ UNCHANGED <<data_list, data_count>>
    BY <1>1, <1>5 DEF TakeLock, Step, Typed, Section, memory, counters
  <2>2. \A d \in Caller : d # c => Place(d)'
    BY <1>1, <1>5, <2>1, OthersStay, PlaceKept
  <2>3. Place(c)'
    BY <1>1, <1>5, LockPlaced
  <2> QED BY <1>1, <2>1, <2>2, <2>3 DEF Counted
<1>6. ASSUME NEW c \in Caller, Unlock(c)
      PROVE  (\A d \in Caller : Place(d)') /\ Counted'
  <2>1. /\ pc[c] = "unlock" /\ pc'[c] \notin Section /\ UNCHANGED <<data_list, data_count>>
    BY <1>1, <1>6 DEF Unlock, Step, Typed, Section, memory, counters
  <2>2. \A d \in Caller : d # c => Place(d)'
    BY <1>1, <1>6, <2>1, OthersStay, PlaceKept
  <2>3. Place(c)'
    BY <2>1 DEF Place
  <2>4. data_count = Len(data_list)
    <3>1. data_list = <<>> => Len(data_list) = 0
      BY <1>1, ItemsPlaced
    <3> QED BY <2>1, <3>1, PlaceOf DEF Section, AddAt, WalkAt, ClearAt
  <2> QED BY <1>1, <2>1, <2>2, <2>3, <2>4 DEF Counted
<1>7. CASE Exit \/ ExitReturn \/ UNCHANGED vars
  <2>1. /\ UNCHANGED <<data_list, data_count, op, v, seen, data, tmp>>
        /\ \A d \in Caller : pc'[d] = pc[d] \/ (pc[d] \notin Section /\ pc'[d] \notin Section)
    BY <1>1, <1>7
    DEF Exit, ExitReturn, vars, Step, Typed, Section, memory, counters, items
  <2>2. \A d \in Caller : pc'[d] \notin Section => Place(d)'
    BY DEF Place
  <2>3. \A d \in Caller : Place(d)'
    BY <1>1, <2>1, <2>2, PlaceKept
  <2>4. Counted'
    BY <1>1, <2>1 DEF Counted
  <2> QED BY <2>3, <2>4
<1> QED BY <1>2, <1>3, <1>4, <1>5, <1>6, <1>7, NextCases

LEMMA InitIInv == Init => IInv
<1> SUFFICES ASSUME Init PROVE IInv
  OBVIOUS
<1>1. Typed
  <2>1. "clear" \in Operations /\ data_list \in Seq(Item)
    BY DEF Init, Operations
  <2> QED BY <2>1 DEF Init, Typed
<1>2. \A c \in Caller : Placed(c)
  BY DEF Init, Placed
<1>3. Unloading
  BY CallersAssumption DEF Init, Unloading, Caller, Task
<1>4. Owned
  <2>1. Adding = {} /\ Freeing = {}
    BY DEF Init, Adding, Freeing
  <2>2. Range(<<>>) = {} /\ IsInjective(<<>>)
    BY DEF Range, IsInjective
  <2> QED BY <2>1, <2>2 DEF Init, Owned
<1>5. LockInv
  BY DEF Init, LockInv, Together, Holding, Exclusive, Section, Caller
<1>6. Counted /\ \A c \in Caller : Place(c)
  BY BoundsAssumption, EmptySeq DEF Init, Counted, Place, Section
<1> QED BY <1>1, <1>2, <1>3, <1>4, <1>5, <1>6 DEF IInv

LEMMA AlwaysIInv == ASSUME FamiliesKept PROVE Spec => []IInv
<1>1. IInv /\ [Next]_vars => IInv'
  BY NextTyped, NextPlaced, NextUnloading, NextOwned, NextTogether, NextExclusive,
     NextHolding, NextPlaces
  DEF IInv, LockInv
<1> QED BY <1>1, InitIInv, PTL DEF Spec

-----------------------------------------------------------------------------
(* What is counted outside of every exclusive section.                     *)

\* What a step has to leave alone for the reads to stay counted.
LEMMA ReadsKept ==
  ASSUME ReadsCounted, UNCHANGED <<stats["read"], calls["read"]>>, Reading' = Reading,
         \A d \in Reading : pc'[d] = "stat_store" => pc[d] = "stat_store" /\ v'[d] = v[d]
  PROVE  ReadsCounted'
BY DEF ReadsCounted

\* A read that is under way has still to be counted; what readers overlap in
\* is counted less often.
LEMMA NextReadsCounted == IInv /\ ReadsCounted /\ [Next]_vars => ReadsCounted'
<1> SUFFICES ASSUME IInv, ReadsCounted, [Next]_vars PROVE ReadsCounted'
  OBVIOUS
<1> USE DEF Step
<1>1. Typed /\ (\A c \in Caller : Placed(c)) /\ Unloading
  BY DEF IInv
<1>2. /\ IsFiniteSet(Reading) /\ Cardinality(Reading) \in Nat
      /\ stats["read"] \in Nat /\ calls["read"] \in Nat /\ \A c \in Caller : v[c] \in Nat
  BY <1>1, FS_CardinalityType DEF ReadsCounted, Typed, Operations
<1>3. ASSUME NEW c \in Task, NEW o \in Operations, Call(c, o) PROVE ReadsCounted'
  <2>1. /\ c \in Caller /\ pc[c] = "idle" /\ pc'[c] \in {"lock", "fetch", "alloc"}
        /\ op'[c] = o /\ (o = "read" => pc'[c] = "lock") /\ UNCHANGED <<stats, v>>
        /\ calls'["read"] = calls["read"] + (IF o = "read" THEN 1 ELSE 0)
        /\ \A d \in Caller : d # c => pc'[d] = pc[d] /\ op'[d] = op[d]
    BY <1>1, <1>2, <1>3 DEF Call, Typed, Caller, Adds, Operations, counters
  <2>2. CASE o = "read"
    <3>1. Reading' = Reading \cup {c} /\ c \notin Reading
      BY <2>1, <2>2 DEF Reading
    <3>2. Cardinality(Reading') = Cardinality(Reading) + 1 /\ IsFiniteSet(Reading')
      BY <1>2, <3>1, FS_AddElement
    <3>3. ASSUME NEW d \in Reading', pc'[d] = "stat_store"
          PROVE  v'[d] + Cardinality(Reading') <= calls'["read"]
      <4>1. d \in Reading /\ pc[d] = "stat_store" /\ v[d] \in Nat
        BY <1>2, <2>1, <3>1, <3>3 DEF Reading
      <4>2. v[d] + Cardinality(Reading) <= calls["read"]
        BY <4>1 DEF ReadsCounted
      <4> QED BY <1>2, <2>1, <2>2, <3>2, <4>1, <4>2
    <3> QED BY <1>2, <2>1, <2>2, <3>2, <3>3 DEF ReadsCounted
  <2>3. CASE o # "read"
    <3>1. Reading' = Reading /\ \A d \in Reading : pc'[d] = pc[d]
      BY <2>1, <2>3 DEF Reading
    <3> QED BY <1>2, <2>1, <2>3, <3>1, ReadsKept
  <2> QED BY <2>2, <2>3
<1>4. ASSUME NEW c \in Caller, Outside(c) \/ Inside(c) \/ TakeLock(c) \/ Unlock(c)
      PROVE  ReadsCounted'
  <2>1. \A d \in Caller : d # c => pc'[d] = pc[d] /\ op'[d] = op[d] /\ v'[d] = v[d]
    BY <1>1, <1>4, OthersStay
  <2>2. CASE Outside(c)
    <3>1. op[c] # "read" /\ op'[c] # "read"
      BY <1>1, <2>2
      DEF Outside, FetchLoad, FetchStore, Alloc, Interrupted, Return, Typed, Placed, Adds
    <3>2. Reading' = Reading /\ c \notin Reading
      BY <2>1, <3>1 DEF Reading
    <3>3. UNCHANGED <<stats, calls>>
      BY <1>1, <2>2, OutsideStep
    <3> QED BY <2>1, <3>2, <3>3, ReadsKept DEF Reading
  <2>3. CASE TakeLock(c)
    <3>1. pc[c] = "lock" /\ op' = op /\ (op[c] = "read" => pc'[c] = "first")
      BY <1>1, <2>3 DEF TakeLock, Typed, Adds
    <3>2. Reading' = Reading /\ UNCHANGED <<stats, calls, v>>
      BY <2>1, <2>3, <3>1 DEF Reading, TakeLock, counters, fixed
    <3> QED BY <2>1, <3>1, <3>2, ReadsKept DEF Reading
  <2>4. CASE Unlock(c)
    <3>1. pc[c] = "unlock" /\ pc'[c] = "idle" /\ UNCHANGED <<stats, calls>>
      BY <1>1, <2>4 DEF Unlock, Typed, counters, fixed
    <3>2. Reading' = Reading /\ c \notin Reading
      BY <2>1, <3>1 DEF Reading
    <3> QED BY <2>1, <3>1, <3>2, ReadsKept DEF Reading
  <2>5. CASE Inside(c) /\ op[c] # "read"
    <3>1. op' = op /\ calls' = calls
      BY <1>1, <2>5, InsideStep
    <3>2. Reading' = Reading /\ c \notin Reading
      BY <2>1, <2>5, <3>1 DEF Reading
    <3>3. stats'["read"] \in {stats["read"], 0}
      BY <1>1, <2>5
      DEF Inside, Drop, Walk, Stat, Room, Link, MoreLoad, MoreStore, First, Unlink, Free,
          LessLoad, LessStore, VisitLoad, Visit, Keep, Advance, WalkEnds, StatLoad,
          StatStore, Reset, ResetStats, Typed, counters
    <3>4. stats'["read"] + Cardinality(Reading) <= calls["read"]
      BY <1>2, <3>3 DEF ReadsCounted
    <3> QED BY <2>1, <3>1, <3>2, <3>4 DEF ReadsCounted, Reading
  <2>6. CASE Inside(c) /\ op[c] = "read" /\ ~StatLoad(c) /\ ~StatStore(c)
    <3>1. /\ pc[c] \in {"first", "walk", "visit", "next"}
          /\ pc'[c] \in {"walk", "visit", "next", "stat"}
          /\ UNCHANGED <<op, calls, stats>>
      <4>1. CASE First(c) \/ VisitLoad(c) \/ Visit(c) \/ Advance(c) \/ WalkEnds(c)
        BY <1>1, <2>6, <4>1
        DEF First, VisitLoad, Visit, Advance, WalkEnds, Typed, Adds, counters, fixed
      <4>2. CASE ~(First(c) \/ VisitLoad(c) \/ Visit(c) \/ Advance(c) \/ WalkEnds(c))
        BY <1>1, <2>6, <4>2
        DEF Inside, Drop, Walk, Stat, Room, Link, MoreLoad, MoreStore, Unlink, Free,
            LessLoad, LessStore, Keep, Reset, ResetStats, Placed, Adds
      <4> QED BY <4>1, <4>2
    <3>2. Reading' = Reading
      BY <2>1, <3>1 DEF Reading
    <3> QED BY <2>1, <3>1, <3>2, ReadsKept DEF Reading
  <2>7. CASE StatLoad(c) /\ op[c] = "read"
    <3>1. /\ pc[c] = "stat" /\ pc'[c] = "stat_store" /\ v'[c] = stats["read"]
          /\ UNCHANGED <<op, stats, calls>>
      BY <1>1, <2>7 DEF StatLoad, Typed, Load, counters, fixed
    <3>2. Reading' = Reading
      BY <2>1, <3>1 DEF Reading
    <3> QED BY <2>1, <3>1, <3>2 DEF ReadsCounted, Reading
  <2>8. CASE StatStore(c) /\ op[c] = "read"
    <3>1. /\ pc[c] = "stat_store" /\ pc'[c] = "unlock" /\ UNCHANGED <<op, calls, v>>
          /\ stats'["read"] = v[c] + 1
      BY <1>1, <2>8 DEF StatStore, Typed, fixed
    <3>2. c \in Reading /\ Reading' = Reading \ {c}
      BY <2>1, <2>8, <3>1 DEF Reading
    <3>3. Cardinality(Reading') = Cardinality(Reading) - 1 /\ IsFiniteSet(Reading')
      BY <1>2, <3>2, FS_RemoveElement
    <3>4. v[c] + Cardinality(Reading) <= calls["read"]
      BY <3>1, <3>2 DEF ReadsCounted
    <3>5. ASSUME NEW d \in Reading', pc'[d] = "stat_store"
          PROVE  v'[d] + Cardinality(Reading') <= calls'["read"]
      <4>1. d \in Reading /\ pc[d] = "stat_store" /\ v[d] \in Nat
        BY <1>2, <2>1, <3>2, <3>5 DEF Reading
      <4>2. v[d] + Cardinality(Reading) <= calls["read"]
        BY <4>1 DEF ReadsCounted
      <4> QED BY <1>2, <3>1, <3>3, <4>1, <4>2
    <3> QED BY <1>2, <3>1, <3>2, <3>3, <3>4, <3>5 DEF ReadsCounted, Reading
  <2> QED BY <1>4, <2>2, <2>3, <2>4, <2>5, <2>6, <2>7, <2>8
<1>5. CASE Exit \/ ExitReturn \/ UNCHANGED vars
  <2>1. /\ UNCHANGED <<op, v, stats, calls>>
        /\ \A d \in Caller : op[d] = "read" => pc'[d] = pc[d]
    BY <1>1, <1>5 DEF Exit, ExitReturn, vars, Typed, Unloading, Caller, counters, fixed
  <2>2. Reading' = Reading
    BY <2>1 DEF Reading
  <2> QED BY <2>1, <2>2, ReadsKept DEF Reading
<1> QED BY <1>3, <1>4, <1>5, NextCases

\* What a step has to leave alone for the values to stay counted.
LEMMA ValuesKept ==
  ASSUME ValuesCounted, UNCHANGED <<next_value, calls>>, Fetching' = Fetching,
         \A d \in Fetching : pc'[d] = "fetched" => pc[d] = "fetched" /\ v'[d] = v[d]
  PROVE  ValuesCounted'
BY DEF ValuesCounted, AddCalls

\* A worker that fetches next_value has still to advance it, and what workers
\* overlap in advances it less often.
LEMMA NextValuesCounted == IInv /\ ValuesCounted /\ [Next]_vars => ValuesCounted'
<1> SUFFICES ASSUME IInv, ValuesCounted, [Next]_vars PROVE ValuesCounted'
  OBVIOUS
<1> USE DEF Step
<1>1. Typed /\ (\A c \in Caller : Placed(c)) /\ Unloading
  BY DEF IInv
<1>2. /\ IsFiniteSet(Fetching) /\ Cardinality(Fetching) \in Nat
      /\ next_value \in Nat /\ \A c \in Caller : v[c] \in Nat
  BY <1>1, FS_CardinalityType DEF ValuesCounted, Typed
<1>3. calls["spin"] \in Nat /\ calls["mutex"] \in Nat /\ calls["rwlock"] \in Nat
  BY <1>1 DEF Typed, Operations, Adds
<1>4. AddCalls \in Nat
  BY <1>3 DEF AddCalls
<1>5. ASSUME NEW c \in Task, NEW o \in Operations, Call(c, o) PROVE ValuesCounted'
  <2>1. /\ c \in Caller /\ pc[c] = "idle" /\ UNCHANGED <<next_value, v>>
        /\ \A d \in Caller : d # c => pc'[d] = pc[d]
    BY <1>1, <1>5 DEF Call, Typed, Caller, counters
  <2>2. AddCalls' = AddCalls + (IF o \in Adds THEN 1 ELSE 0)
    <3>1. \A p \in Adds : calls'[p] = calls[p] + (IF p = o THEN 1 ELSE 0)
      BY <1>1, <1>3, <1>5 DEF Call, Typed, Operations, Adds
    <3> QED BY <1>3, <3>1 DEF AddCalls, Adds
  <2>3. CASE o \in Adds /\ c \in Worker
    <3>1. pc'[c] = "fetch"
      BY <1>1, <1>5, <2>1, <2>3 DEF Call, Typed
    <3>2. Fetching' = Fetching \cup {c} /\ c \notin Fetching
      BY <2>1, <3>1 DEF Fetching
    <3>3. Cardinality(Fetching') = Cardinality(Fetching) + 1 /\ IsFiniteSet(Fetching')
      BY <1>2, <3>2, FS_AddElement
    <3>4. ASSUME NEW d \in Fetching', pc'[d] = "fetched"
          PROVE  v'[d] + Cardinality(Fetching') <= 1 + AddCalls'
      <4>1. d \in Fetching /\ pc[d] = "fetched" /\ v[d] \in Nat
        BY <1>2, <2>1, <3>1, <3>4 DEF Fetching
      <4>2. v[d] + Cardinality(Fetching) <= 1 + AddCalls
        BY <4>1 DEF ValuesCounted
      <4> QED BY <1>2, <1>4, <2>1, <2>2, <2>3, <3>3, <4>1, <4>2
    <3> QED BY <1>2, <1>4, <2>1, <2>2, <2>3, <3>3, <3>4 DEF ValuesCounted
  <2>4. CASE ~(o \in Adds /\ c \in Worker)
    <3>1. pc'[c] \in {"lock", "alloc"}
      BY <1>1, <1>5, <2>1, <2>4 DEF Call, Typed
    <3>2. Fetching' = Fetching /\ \A d \in Fetching : pc'[d] = pc[d]
      BY <2>1, <3>1 DEF Fetching
    <3>3. AddCalls' \in {AddCalls, AddCalls + 1}
      BY <1>4, <2>2
    <3>4. IsFiniteSet(Fetching') /\ Cardinality(Fetching') = Cardinality(Fetching)
      BY <3>2 DEF ValuesCounted
    <3>5. ASSUME NEW d \in Fetching', pc'[d] = "fetched"
          PROVE  v'[d] + Cardinality(Fetching') <= 1 + AddCalls'
      <4>1. d \in Fetching /\ pc[d] = "fetched" /\ v'[d] = v[d] /\ v[d] \in Nat
        <5>1. d \in Fetching /\ pc[d] = "fetched"
          BY <3>2, <3>5
        <5>2. d \in Caller
          BY <5>1 DEF Fetching
        <5> QED BY <1>2, <2>1, <5>1, <5>2
      <4>2. v[d] + Cardinality(Fetching) <= 1 + AddCalls
        BY <4>1 DEF ValuesCounted
      <4> QED BY <1>2, <1>4, <3>3, <3>4, <4>1, <4>2
    <3>6. next_value' + Cardinality(Fetching') <= 1 + AddCalls'
      BY <1>2, <1>4, <2>1, <3>3, <3>4 DEF ValuesCounted
    <3> QED BY <3>4, <3>5, <3>6 DEF ValuesCounted
  <2> QED BY <2>3, <2>4
<1>6. ASSUME NEW c \in Caller, FetchLoad(c) PROVE ValuesCounted'
  <2>1. /\ pc[c] = "fetch" /\ pc'[c] = "fetched" /\ v'[c] = next_value
        /\ UNCHANGED <<next_value, calls>>
        /\ \A d \in Caller : d # c => pc'[d] = pc[d] /\ v'[d] = v[d]
    BY <1>1, <1>6 DEF FetchLoad, Typed, Load, counters, fixed
  <2>2. Fetching' = Fetching
    BY <2>1 DEF Fetching
  <2> QED BY <2>1, <2>2 DEF ValuesCounted, AddCalls, Fetching
<1>7. ASSUME NEW c \in Caller, FetchStore(c) PROVE ValuesCounted'
  <2>1. /\ pc[c] = "fetched" /\ pc'[c] = "alloc"
        /\ next_value' = v[c] + 1 /\ UNCHANGED calls
        /\ \A d \in Caller : d # c => pc'[d] = pc[d] /\ v'[d] = v[d]
    BY <1>1, <1>7 DEF FetchStore, Typed, Load, fixed
  <2>2. c \in Fetching /\ Fetching' = Fetching \ {c}
    BY <2>1 DEF Fetching
  <2>3. Cardinality(Fetching') = Cardinality(Fetching) - 1 /\ IsFiniteSet(Fetching')
    BY <1>2, <2>2, FS_RemoveElement
  <2>4. AddCalls' = AddCalls
    BY <2>1 DEF AddCalls
  <2>5. v[c] + Cardinality(Fetching) <= 1 + AddCalls
    BY <2>1, <2>2 DEF ValuesCounted
  <2>6. ASSUME NEW d \in Fetching', pc'[d] = "fetched"
        PROVE  v'[d] + Cardinality(Fetching') <= 1 + AddCalls'
    <3>1. d \in Fetching /\ pc[d] = "fetched" /\ v'[d] = v[d] /\ v[d] \in Nat
      BY <1>2, <2>1, <2>2, <2>6 DEF Fetching
    <3>2. v[d] + Cardinality(Fetching) <= 1 + AddCalls
      BY <3>1 DEF ValuesCounted
    <3> QED BY <1>2, <1>4, <2>3, <2>4, <3>1, <3>2
  <2> QED BY <1>2, <1>4, <2>1, <2>3, <2>4, <2>5, <2>6 DEF ValuesCounted
<1>8. ASSUME NEW c \in Caller,
             Alloc(c) \/ Interrupted(c) \/ Inside(c) \/ TakeLock(c) \/ Unlock(c)
      PROVE  ValuesCounted'
  <2>1. \A d \in Caller : d # c => pc'[d] = pc[d] /\ v'[d] = v[d]
    BY <1>1, <1>8, OthersStay DEF Outside
  <2>2. /\ pc[c] \notin {"fetch", "fetched"} /\ pc'[c] \notin {"fetch", "fetched"}
        /\ UNCHANGED <<next_value, calls>>
    <3>1. CASE Alloc(c) \/ Interrupted(c)
      BY <1>1, <3>1 DEF Alloc, Interrupted, Typed, fixed, counters
    <3>2. CASE TakeLock(c) \/ Unlock(c)
      BY <1>1, <3>2 DEF TakeLock, Unlock, Typed, fixed, counters
    <3>3. CASE Inside(c)
      <4>1. pc[c] \in Section /\ pc'[c] \in Section /\ calls' = calls
        BY <1>1, <3>3, InsideStep
      <4>2. next_value' = next_value
        BY <3>3
        DEF Inside, Drop, Walk, Stat, Room, Link, MoreLoad, MoreStore, First, Unlink, Free,
            LessLoad, LessStore, VisitLoad, Visit, Keep, Advance, WalkEnds, StatLoad,
            StatStore, Reset, ResetStats, counters
      <4> QED BY <4>1, <4>2 DEF Section
    <3> QED BY <1>8, <3>1, <3>2, <3>3
  <2>3. Fetching' = Fetching /\ c \notin Fetching
    BY <2>1, <2>2 DEF Fetching
  <2> QED BY <2>1, <2>2, <2>3, ValuesKept DEF Fetching
<1>9. CASE Exit \/ ExitReturn \/ UNCHANGED vars
  <2>1. /\ UNCHANGED <<v, next_value, calls>>
        /\ \A d \in Caller : \/ pc'[d] = pc[d]
                             \/ /\ pc[d] \notin {"fetch", "fetched"}
                                /\ pc'[d] \notin {"fetch", "fetched"}
    BY <1>1, <1>9 DEF Exit, ExitReturn, vars, Typed, counters, fixed
  <2>2. Fetching' = Fetching /\ \A d \in Fetching : pc'[d] = pc[d]
    BY <2>1 DEF Fetching
  <2> QED BY <2>1, <2>2, ValuesKept
<1> QED BY <1>5, <1>6, <1>7, <1>8, <1>9, NextCases DEF Outside

\* Fewer readers on their way to an item, and no new number read from it.
LEMMA VisitsKept ==
  ASSUME IInv, NEW n \in Item, VisitsCountedOf(n),
         ToVisit(n)' \subseteq ToVisit(n), calls' = calls,
         access_count'[n] \in {access_count[n], 0},
         \A d \in Caller : VisitOf(d, n)' => VisitOf(d, n) /\ v'[d] = v[d]
  PROVE  VisitsCountedOf(n)'
<1>1. /\ access_count[n] \in Nat /\ calls["read"] \in Nat
      /\ \A d \in Caller : v[d] \in Nat
  BY DEF IInv, Typed, Operations
<1>2. IsFiniteSet(ToVisit(n)) /\ Cardinality(ToVisit(n)) \in Nat
  BY FS_CardinalityType DEF VisitsCountedOf
<1>3. /\ IsFiniteSet(ToVisit(n)') /\ Cardinality(ToVisit(n)') \in Nat
      /\ Cardinality(ToVisit(n)') <= Cardinality(ToVisit(n))
  BY <1>2, FS_Subset, FS_CardinalityType
<1>4. access_count'[n] + Cardinality(ToVisit(n)') <= calls'["read"]
  BY <1>1, <1>2, <1>3 DEF VisitsCountedOf
<1>5. ASSUME NEW d \in Caller, VisitOf(d, n)'
      PROVE  v'[d] + Cardinality(ToVisit(n)') <= calls'["read"]
  BY <1>1, <1>2, <1>3, <1>5 DEF VisitsCountedOf
<1> QED BY <1>3, <1>4, <1>5 DEF VisitsCountedOf

\* No reader comes by an item twice: those on their way to it become fewer.
LEMMA ToVisitShrinks ==
  ASSUME IInv, NEW n \in Item, NEW c \in Caller,
         Outside(c) \/ Inside(c) \/ TakeLock(c) \/ Unlock(c)
  PROVE  ToVisit(n)' \subseteq ToVisit(n)
<1> USE DEF Step
<1>1. /\ Typed /\ (\A d \in Caller : Placed(d)) /\ Exclusive /\ Len(data_list) \in Nat
      /\ \A d \in Caller : seen[d] \in Nat
      /\ \A d \in Caller : d # c => pc'[d] = pc[d] /\ op'[d] = op[d] /\ seen'[d] = seen[d]
  <2>1. Typed /\ (\A d \in Caller : Placed(d)) /\ Exclusive
    BY DEF IInv, LockInv
  <2>2. Len(data_list) \in Nat
    BY <2>1, ItemsPlaced
  <2>3. \A d \in Caller : seen[d] \in Nat
    BY <2>1 DEF Typed
  <2>4. \A d \in Caller : d # c => pc'[d] = pc[d] /\ op'[d] = op[d] /\ seen'[d] = seen[d]
    BY <2>1, OthersStay
  <2> QED BY <2>1, <2>2, <2>3, <2>4
<1>2. ASSUME NEW d \in ToVisit(n)', d # c PROVE d \in ToVisit(n)
  <2>1. /\ d \in Caller /\ op[d] = "read"
        /\ pc[d] \in {"lock", "first", "walk", "visit", "next"}
    BY <1>1, <1>2 DEF ToVisit
  <2>2. CASE data_list' = data_list
    BY <1>1, <1>2, <2>1, <2>2 DEF ToVisit
  <2>3. CASE data_list' # data_list
    <3>1. Inside(c) /\ op[c] # "read"
      <4>1. ~ Outside(c) /\ ~ TakeLock(c) /\ ~ Unlock(c)
        BY <1>1, <2>3, OutsideStep DEF TakeLock, Unlock, memory
      <4> QED BY <2>3, <4>1, WalkPlaced
    <3>2. pc[d] = "lock"
      BY <1>1, <1>2, <2>1, <3>1, InsideStep, ChangesAlone DEF Section
    <3>3. seen[d] = 0
      BY <1>1, <2>1, <3>2 DEF Placed
    <3> QED BY <1>1, <2>1, <3>3 DEF ToVisit
  <2> QED BY <2>2, <2>3
<1>3. ASSUME c \in ToVisit(n)' PROVE c \in ToVisit(n)
  <2>1. op'[c] = "read" /\ pc'[c] \in {"lock", "first", "walk", "visit", "next"}
    BY <1>3 DEF ToVisit
  <2>2. CASE Inside(c)
    <3>1. op[c] = "read" /\ data_list' = data_list
      BY <1>1, <2>1, <2>2, InsideStep, WalkPlaced
    <3>2. CASE First(c) \/ VisitLoad(c) \/ Visit(c) \/ Advance(c)
      <4>1. /\ pc[c] \in {"first", "walk", "visit", "next"}
            /\ seen'[c] \in {seen[c], seen[c] + 1}
        BY <1>1, <3>2 DEF First, VisitLoad, Visit, Advance, Typed, items
      <4>2. \A k \in 1 .. Len(data_list) : k <= seen[c] => k <= seen'[c]
        BY <1>1, <4>1
      <4> QED BY <1>3, <3>1, <4>1, <4>2 DEF ToVisit
    <3>3. CASE ~(First(c) \/ VisitLoad(c) \/ Visit(c) \/ Advance(c))
      BY <1>1, <2>1, <2>2, <3>1, <3>3
      DEF Inside, Drop, Walk, Stat, Room, Link, MoreLoad, MoreStore, Unlink, Free,
          LessLoad, LessStore, Keep, WalkEnds, StatLoad, StatStore, Reset, ResetStats,
          Typed, Placed, Adds
    <3> QED BY <3>2, <3>3
  <2>3. CASE TakeLock(c)
    <3>1. pc[c] = "lock" /\ op[c] = "read" /\ data_list' = data_list /\ seen[c] = 0
      BY <1>1, <2>1, <2>3 DEF TakeLock, memory, Placed
    <3> QED BY <1>1, <3>1 DEF ToVisit
  <2>4. CASE Outside(c)
    BY <1>1, <2>1, <2>4
    DEF Outside, FetchLoad, FetchStore, Alloc, Interrupted, Return, Typed, Placed, Adds
  <2>5. CASE Unlock(c)
    BY <1>1, <2>1, <2>5 DEF Unlock, Typed
  <2> QED BY <2>2, <2>3, <2>4, <2>5
<1> QED BY <1>2, <1>3

\* A reader that is on its way to an item has still to count its visit there,
\* and comes by only once.
LEMMA NextVisitsCounted == IInv /\ VisitsCounted /\ [Next]_vars => VisitsCounted'
<1> SUFFICES ASSUME IInv, VisitsCounted, [Next]_vars, NEW n \in Item
             PROVE  VisitsCountedOf(n)'
  BY DEF VisitsCounted
<1> USE DEF Step
<1>1. Typed /\ (\A c \in Caller : Placed(c)) /\ Unloading
  BY DEF IInv
<1>2. VisitsCountedOf(n)
  BY DEF VisitsCounted
<1>3. ASSUME NEW c \in Task, NEW o \in Operations, Call(c, o) PROVE VisitsCountedOf(n)'
  <2>1. /\ UNCHANGED <<data_list, access_count, seen, v, data>>
        /\ c \in Caller /\ pc[c] = "idle" /\ pc'[c] \in {"lock", "fetch", "alloc"}
        /\ op'[c] = o
        /\ \A d \in Caller : d # c => pc'[d] = pc[d] /\ op'[d] = op[d]
    BY <1>1, <1>3 DEF Call, Typed, Caller, memory, counters, items
  <2>2. /\ access_count[n] \in Nat /\ calls["read"] \in Nat
        /\ \A d \in Caller : v[d] \in Nat
    BY <1>1 DEF Typed, Operations
  <2>3. calls'["read"] = calls["read"] + (IF o = "read" THEN 1 ELSE 0)
    BY <1>1, <2>2, <1>3 DEF Call, Typed, Operations
  <2>4. /\ IsFiniteSet(ToVisit(n)) /\ Cardinality(ToVisit(n)) \in Nat
        /\ access_count[n] + Cardinality(ToVisit(n)) <= calls["read"]
    BY <1>2, FS_CardinalityType DEF VisitsCountedOf
  <2>5. /\ ToVisit(n)' \subseteq ToVisit(n) \cup {c}
        /\ c \in ToVisit(n)' => o = "read"
        /\ c \notin ToVisit(n)
    BY <2>1 DEF ToVisit
  <2>6. /\ IsFiniteSet(ToVisit(n) \cup {c})
        /\ Cardinality(ToVisit(n) \cup {c}) = Cardinality(ToVisit(n)) + 1
    BY <2>4, <2>5, FS_AddElement
  <2>7. /\ IsFiniteSet(ToVisit(n)') /\ Cardinality(ToVisit(n)') \in Nat
        /\ Cardinality(ToVisit(n)') <= Cardinality(ToVisit(n)) + (IF o = "read" THEN 1 ELSE 0)
    <3>1. CASE o = "read"
      BY <2>5, <2>6, <3>1, FS_Subset, FS_CardinalityType
    <3>2. CASE o # "read"
      <4>1. ToVisit(n)' \subseteq ToVisit(n)
        BY <2>5, <3>2
      <4>2. Cardinality(ToVisit(n)') <= Cardinality(ToVisit(n))
        BY <2>4, <4>1, FS_Subset
      <4> QED BY <2>4, <3>2, <4>1, <4>2, FS_Subset, FS_CardinalityType
    <3> QED BY <3>1, <3>2
  <2>8. access_count'[n] + Cardinality(ToVisit(n)') <= calls'["read"]
    BY <2>1, <2>2, <2>3, <2>4, <2>7
  <2>9. ASSUME NEW d \in Caller, VisitOf(d, n)'
        PROVE  v'[d] + Cardinality(ToVisit(n)') <= calls'["read"]
    <3>1. VisitOf(d, n) /\ v'[d] = v[d]
      BY <2>1, <2>9 DEF VisitOf
    <3>2. v[d] + Cardinality(ToVisit(n)) <= calls["read"]
      BY <1>2, <3>1 DEF VisitsCountedOf
    <3> QED BY <2>2, <2>3, <2>4, <2>7, <3>1, <3>2
  <2> QED BY <2>7, <2>8, <2>9 DEF VisitsCountedOf
<1>4. ASSUME NEW c \in Caller,
             Outside(c) \/ Inside(c) \/ TakeLock(c) \/ Unlock(c), ~VisitLoad(c), ~Visit(c)
      PROVE  VisitsCountedOf(n)'
  <2>1. ToVisit(n)' \subseteq ToVisit(n)
    BY <1>4, ToVisitShrinks
  <2>2. pc'[c] # "visit" /\ calls' = calls /\ access_count'[n] \in {access_count[n], 0}
    <3>1. CASE Outside(c)
      BY <1>1, <3>1
      DEF Outside, FetchLoad, FetchStore, Alloc, Interrupted, Typed, counters, fixed
    <3>2. CASE TakeLock(c) \/ Unlock(c)
      BY <1>1, <3>2 DEF TakeLock, Unlock, Typed, counters, fixed
    <3>3. CASE Room(c) \/ Link(c) \/ MoreLoad(c) \/ MoreStore(c) \/ Drop(c)
      BY <1>1, <3>3
      DEF Room, Link, MoreLoad, MoreStore, Drop, First, Unlink, Free, LessLoad, LessStore,
          Typed, counters, fixed
    <3>4. CASE Keep(c) \/ Advance(c) \/ WalkEnds(c) \/ Stat(c)
      BY <1>1, <3>4
      DEF Keep, Advance, WalkEnds, Stat, StatLoad, StatStore, Reset, ResetStats, Typed,
          counters, fixed
    <3> QED BY <1>4, <3>1, <3>2, <3>3, <3>4 DEF Inside, Walk
  <2>3. \A d \in Caller : d # c =>
          pc'[d] = pc[d] /\ op'[d] = op[d] /\ v'[d] = v[d] /\ data'[d] = data[d]
    BY <1>1, <1>4, OthersStay
  <2>4. \A d \in Caller : VisitOf(d, n)' => VisitOf(d, n) /\ v'[d] = v[d]
    BY <2>2, <2>3 DEF VisitOf
  <2> QED BY <1>2, <2>1, <2>2, <2>4, VisitsKept
<1>5. ASSUME NEW c \in Caller, VisitLoad(c) PROVE VisitsCountedOf(n)'
  <2>1. /\ UNCHANGED <<data_list, access_count, calls, op, seen, data>>
        /\ pc[c] = "walk" /\ pc'[c] = "visit" /\ v'[c] = access_count[data[c]]
        /\ \A d \in Caller : d # c => pc'[d] = pc[d] /\ v'[d] = v[d]
    BY <1>1, <1>5 DEF VisitLoad, Typed, Load, memory, counters, items, fixed
  <2>2. ToVisit(n)' = ToVisit(n)
    BY <2>1 DEF ToVisit
  <2>3. \A d \in Caller : d # c => (VisitOf(d, n)' <=> VisitOf(d, n))
    BY <2>1 DEF VisitOf
  <2>4. VisitOf(c, n)' => v'[c] = access_count[n]
    BY <2>1 DEF VisitOf
  <2> QED BY <1>2, <2>1, <2>2, <2>3, <2>4 DEF VisitsCountedOf
<1>6. ASSUME NEW c \in Caller, Visit(c) PROVE VisitsCountedOf(n)'
  <2>1. /\ UNCHANGED <<data_list, calls, op, v, data>>
        /\ pc[c] = "visit" /\ pc'[c] = "next" /\ seen'[c] = seen[c] + 1
        /\ \A d \in Caller : d # c => pc'[d] = pc[d]
    BY <1>1, <1>6 DEF Visit, Typed, memory, items, fixed
  <2>2. \A d \in Caller : VisitOf(d, n)' => d # c /\ VisitOf(d, n) /\ v'[d] = v[d]
    BY <2>1 DEF VisitOf
  <2>3. ToVisit(n)' \subseteq ToVisit(n)
    BY <1>6, ToVisitShrinks DEF Inside, Walk
  <2>4. CASE access_count'[n] = access_count[n]
    BY <1>2, <2>1, <2>2, <2>3, <2>4, VisitsKept
  <2>5. CASE access_count'[n] # access_count[n]
    <3>1. op[c] = "read" /\ data[c] = n /\ access_count'[n] = v[c] + 1
      BY <1>1, <1>6, <2>5 DEF Visit, Typed
    <3>2. seen[c] + 1 \in 1 .. Len(data_list) /\ data_list[seen[c] + 1] = n
      <4>1. data[c] = Nth(seen[c] + 1) /\ seen[c] < Len(data_list)
        BY <2>1, <3>1, PlaceOf DEF Section, WalkAt
      <4>2. seen[c] \in Nat /\ Len(data_list) \in Nat
        BY <1>1, ItemsPlaced DEF Typed
      <4>3. seen[c] + 1 \in 1 .. Len(data_list)
        BY <4>1, <4>2
      <4> QED BY <1>1, <3>1, <4>1, <4>3, ItemsPlaced
    <3>3. VisitOf(c, n) /\ c \in ToVisit(n)
      <4>1. \A k \in 1 .. Len(data_list) : k <= seen[c] => k # seen[c] + 1
        BY <1>1 DEF Typed
      <4>2. \A j, k \in 1 .. Len(data_list) : data_list[j] = data_list[k] => j = k
        BY <1>1, ItemsPlaced DEF IInv, Owned, IsInjective
      <4> QED BY <2>1, <3>1, <3>2, <4>1, <4>2 DEF ToVisit, VisitOf
    <3>4. c \notin ToVisit(n)'
      <4>1. \E k \in 1 .. Len(data_list) : k <= seen'[c] /\ data_list'[k] = n
        BY <1>1, <2>1, <3>2 DEF Typed
      <4> QED BY <2>1, <4>1 DEF ToVisit
    <3>5. IsFiniteSet(ToVisit(n))
      BY <1>2 DEF VisitsCountedOf
    <3>6. /\ IsFiniteSet(ToVisit(n) \ {c})
          /\ Cardinality(ToVisit(n) \ {c}) = Cardinality(ToVisit(n)) - 1
      BY <3>3, <3>5, FS_RemoveElement
    <3>7. /\ IsFiniteSet(ToVisit(n)')
          /\ Cardinality(ToVisit(n)') <= Cardinality(ToVisit(n)) - 1
      <4>1. ToVisit(n)' \subseteq ToVisit(n) \ {c}
        BY <2>3, <3>4
      <4> QED BY <3>6, <4>1, FS_Subset
    <3>8. /\ Cardinality(ToVisit(n)) \in Nat /\ Cardinality(ToVisit(n)') \in Nat
          /\ calls["read"] \in Nat /\ \A d \in Caller : v[d] \in Nat
      BY <1>1, <3>5, <3>7, FS_CardinalityType DEF Typed, Operations
    <3>9. \A d \in Caller : VisitOf(d, n) => v[d] + Cardinality(ToVisit(n)) <= calls["read"]
      BY <1>2 DEF VisitsCountedOf
    <3>10. access_count'[n] + Cardinality(ToVisit(n)') <= calls'["read"]
      BY <2>1, <3>1, <3>3, <3>7, <3>8, <3>9
    <3>11. ASSUME NEW d \in Caller, VisitOf(d, n)'
           PROVE  v'[d] + Cardinality(ToVisit(n)') <= calls'["read"]
      <4>1. VisitOf(d, n) /\ v'[d] = v[d]
        BY <2>2, <3>11
      <4>2. v[d] + Cardinality(ToVisit(n)) <= calls["read"] /\ v[d] \in Nat
        BY <3>8, <3>9, <4>1
      <4> QED BY <2>1, <3>7, <3>8, <4>1, <4>2
    <3> QED BY <3>7, <3>10, <3>11 DEF VisitsCountedOf
  <2> QED BY <2>4, <2>5
<1>7. CASE Exit \/ ExitReturn \/ UNCHANGED vars
  <2>1. /\ UNCHANGED <<data_list, access_count, calls, op, seen, v, data>>
        /\ \A d \in Caller : op[d] = "read" => pc'[d] = pc[d]
    BY <1>1, <1>7
    DEF Exit, ExitReturn, vars, Typed, Unloading, memory, counters, items, fixed
  <2>2. ToVisit(n)' = ToVisit(n)
    BY <2>1 DEF ToVisit
  <2>3. \A d \in Caller : VisitOf(d, n)' <=> VisitOf(d, n)
    BY <2>1 DEF VisitOf
  <2> QED BY <1>2, <2>1, <2>2, <2>3 DEF VisitsCountedOf
<1> QED BY <1>3, <1>4, <1>5, <1>6, <1>7, NextCases DEF Inside, Walk

LEMMA AlwaysCounted ==
  ASSUME FamiliesKept PROVE Spec => [](ReadsCounted /\ ValuesCounted /\ VisitsCounted)
<1>1. Init => ReadsCounted /\ ValuesCounted /\ VisitsCounted
  <2> SUFFICES ASSUME Init PROVE ReadsCounted /\ ValuesCounted /\ VisitsCounted
    OBVIOUS
  <2>1. Reading = {} /\ Fetching = {}
    BY DEF Init, Reading, Fetching
  <2>2. /\ stats["read"] = 0 /\ next_value = 1
        /\ calls["read"] = 0 /\ AddCalls = 0
    BY DEF Init, AddCalls, Operations, Adds
  <2>3. ASSUME NEW n \in Item PROVE VisitsCountedOf(n)
    <3>1. ToVisit(n) = {} /\ \A c \in Caller : ~VisitOf(c, n)
      BY DEF Init, ToVisit, VisitOf
    <3>2. access_count[n] = 0
      BY DEF Init
    <3> QED BY <2>2, <3>1, <3>2, FS_EmptySet DEF VisitsCountedOf
  <2> QED BY <2>1, <2>2, <2>3, FS_EmptySet DEF ReadsCounted, ValuesCounted, VisitsCounted
<1>2. IInv /\ ReadsCounted /\ ValuesCounted /\ VisitsCounted /\ [Next]_vars
        => ReadsCounted' /\ ValuesCounted' /\ VisitsCounted'
  BY NextReadsCounted, NextValuesCounted, NextVisitsCounted
<1> QED BY <1>1, <1>2, AlwaysIInv, PTL DEF Spec

-----------------------------------------------------------------------------
(* The properties.                                                         *)

\* With one lock for what is used together, every variable has its type, and
\* data_count never leaves its range.
THEOREM TypeCorrect == ASSUME FamiliesKept PROVE Spec => []TypeOK
<1>1. IInv => TypeOK
  BY BoundsAssumption DEF IInv, Typed, Counted, TypeOK
<1> QED BY <1>1, AlwaysIInv, PTL

\* While nobody is in a section, data_count is the length of the list.
THEOREM CountAlwaysLength == ASSUME FamiliesKept PROVE Spec => []CountIsLength
<1>1. IInv => CountIsLength
  <2> SUFFICES ASSUME IInv, InSection = {} PROVE data_count = Len(data_list)
    BY DEF CountIsLength
  <2>1. \A c \in Caller : pc[c] \notin Section
    BY DEF InSection, At, Section
  <2> QED BY <2>1 DEF IInv, Counted
<1> QED BY <1>1, AlwaysIInv, PTL

\* Every item that kmalloc handed out is in the list once or with the one
\* caller that adds it or takes it out, and all are freed in the end.
THEOREM ItemsAlwaysOwnedOnce == ASSUME FamiliesKept PROVE Spec => []ItemsOwnedOnce
<1>1. IInv => ItemsOwnedOnce
  <2> SUFFICES ASSUME IInv PROVE ItemsOwnedOnce
    OBVIOUS
  <2> DEFINE private == {new[c] : c \in Adding} \cup {data[c] : c \in Freeing}
  <2>1. /\ Adding = {c \in At({"lock", "room", "first", "unlink", "free", "less",
                               "less_store", "link"}) : op[c] \in Adds}
        /\ Freeing = At({"free"})
    BY DEF Adding, Freeing, At
  <2>2. Allocated = Range(data_list) \cup private
    BY DEF IInv, Owned
  <2>3. Range(data_list) \cap private = {}
    BY DEF IInv, Owned
  <2>4. /\ IsInjective(data_list) /\ \A c, d \in Adding : new[c] = new[d] => c = d
        /\ \A c \in Adding, d \in Freeing : new[c] # data[d]
    BY DEF IInv, Owned
  <2>5. \A c, d \in Freeing : c = d
    BY ChangesAlone DEF IInv, LockInv, Placed, Freeing, Section, Adds
  <2>6. phase = "unloaded" => Allocated = {}
    <3> SUFFICES ASSUME phase = "unloaded" PROVE Allocated = {}
      OBVIOUS
    <3>1. data_list = <<>> /\ \A c \in Caller : pc[c] = "idle"
      BY DEF IInv, Unloading, Caller
    <3>2. Adding = {} /\ Freeing = {}
      BY <3>1 DEF Adding, Freeing
    <3>3. Range(<<>>) = {}
      BY DEF Range
    <3> QED BY <2>2, <3>1, <3>2, <3>3
  <2> QED BY <2>1, <2>2, <2>3, <2>4, <2>5, <2>6 DEF ItemsOwnedOnce
<1> QED BY <1>1, AlwaysIInv, PTL

\* list_del takes items of the list only, and no loop and no visit goes
\* through one that is unlinked or freed.
THEOREM AlwaysTouchesOnlyItems == ASSUME FamiliesKept PROVE Spec => []TouchesOnlyItems
<1>1. IInv => TouchesOnlyItems
  BY NoMisuse DEF TouchesOnlyItems
<1> QED BY <1>1, AlwaysIInv, PTL

\* A read goes through the whole list and a show through as much of it as it
\* prints, though reads overlap.
THEOREM WalkAlwaysSeesAll == ASSUME FamiliesKept PROVE Spec => []WalkSeesAll
<1>1. IInv => WalkSeesAll
  <2> SUFFICES ASSUME IInv, NEW c \in Caller, pc[c] \in {"stat", "stat_store", "unlock"},
                      op[c] \in {"read", "show"}
               PROVE  /\ op[c] = "read" => seen[c] = Len(data_list) /\ seen[c] = data_count
                      /\ op[c] = "show" =>
                           seen[c] = IF data_count < SHOWN_ITEMS THEN data_count
                                                                 ELSE SHOWN_ITEMS
    BY DEF WalkSeesAll, At
  <2>1. WalkAt(c)
    BY PlaceOf DEF Section
  <2>2. op[c] = "show" => pc[c] = "unlock"
    BY DEF IInv, Placed, Adds
  <2>3. Len(data_list) \in Nat /\ SHOWN_ITEMS \in Nat /\ seen[c] \in Nat
    BY ItemsPlaced, BoundsAssumption DEF IInv, Typed
  <2> QED BY <2>1, <2>2, <2>3 DEF WalkAt
<1> QED BY <1>1, AlwaysIInv, PTL

\* What readers and workers count without excluding each other may fall
\* behind and is never ahead of the calls.
THEOREM SharedCountersStayBehind == ASSUME FamiliesKept PROVE Spec => []SharedCountersNeverAhead
<1>1. IInv /\ ReadsCounted /\ ValuesCounted /\ VisitsCounted => SharedCountersNeverAhead
  <2> SUFFICES ASSUME IInv, ReadsCounted, ValuesCounted, VisitsCounted
               PROVE  SharedCountersNeverAhead
    OBVIOUS
  <2>1. /\ stats["read"] \in Nat /\ calls["read"] \in Nat /\ next_value \in Nat
        /\ calls["spin"] \in Nat /\ calls["mutex"] \in Nat /\ calls["rwlock"] \in Nat
    BY DEF IInv, Typed, Operations, Adds
  <2>2. stats["read"] <= calls["read"]
    <3>1. Cardinality(Reading) \in Nat /\ stats["read"] + Cardinality(Reading) <= calls["read"]
      BY FS_CardinalityType DEF ReadsCounted
    <3> QED BY <2>1, <3>1
  <2>3. ASSUME NEW n \in Item
        PROVE  access_count[n] <= calls["read"]
    <3>1. VisitsCountedOf(n) /\ access_count[n] \in Nat
      BY DEF VisitsCounted, IInv, Typed
    <3>2. /\ Cardinality(ToVisit(n)) \in Nat
          /\ access_count[n] + Cardinality(ToVisit(n)) <= calls["read"]
      BY <3>1, FS_CardinalityType DEF VisitsCountedOf
    <3> QED BY <2>1, <3>1, <3>2
  <2>4. next_value <= 1 + calls["spin"] + calls["mutex"] + calls["rwlock"]
    <3>1. Cardinality(Fetching) \in Nat /\ next_value + Cardinality(Fetching) <= 1 + AddCalls
      BY FS_CardinalityType DEF ValuesCounted
    <3> QED BY <2>1, <3>1 DEF AddCalls
  <2> QED BY <2>2, <2>3, <2>4 DEF SharedCountersNeverAhead
<1> QED BY <1>1, AlwaysIInv, AlwaysCounted, PTL

=============================================================================
