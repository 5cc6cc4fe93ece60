------------------------- MODULE RecordViewsProofs -------------------------
(***************************************************************************)
(* The order of the tree, the verdicts of the filter and what a show       *)
(* prints, for any records, any limits, any settings of the filter and any *)
(* width of unsigned long.                                                 *)
(***************************************************************************)
EXTENDS RecordViews, ListLemmas

-----------------------------------------------------------------------------
(* The order of a tree t whose records are those of a list l.              *)

\* r comes before s in the list.
Before(l, r, s) == \E a, b \in DOMAIN l : a < b /\ l[a] = r /\ l[b] = s

\* r belongs to the left of s: by start time, then by the order of the list.
Precedes(l, r, s) ==
  \/ Info[r].start_time < Info[s].start_time
  \/ Info[r].start_time = Info[s].start_time /\ Before(l, r, s)

\* The whole tree stands in that order.
Ordered(l, t) == \A j, k \in DOMAIN t : j < k => Precedes(l, t[j], t[k])

\* A full list loses its oldest record and the tree the same one: the others
\* are the same in both, and in the same order.
LEMMA EvictionKeepsOrder ==
  ASSUME NEW l \in Seq(Rec), l # <<>>, NEW t \in Seq(Rec),
         IsInjective(l), IsInjective(t), Range(t) = Range(l), Len(t) = Len(l), Ordered(l, t)
  PROVE  /\ Tail(l) \in Seq(Rec) /\ Len(Tail(l)) = Len(l) - 1
         /\ IsInjective(Tail(l)) /\ Range(Tail(l)) \subseteq Range(l)
         /\ RemoveFirst(t, Head(l)) \in Seq(Rec)
         /\ Len(RemoveFirst(t, Head(l))) = Len(l) - 1
         /\ IsInjective(RemoveFirst(t, Head(l)))
         /\ Range(RemoveFirst(t, Head(l))) = Range(Tail(l))
         /\ Ordered(Tail(l), RemoveFirst(t, Head(l)))
<1> DEFINE u == RemoveFirst(t, Head(l))
           m == Tail(l)
<1>1. /\ Len(l) \in Nat \ {0} /\ DOMAIN l = 1 .. Len(l) /\ DOMAIN t = 1 .. Len(l)
      /\ \A a \in 1 .. Len(l) : l[a] \in Rec /\ t[a] \in Rec
  BY LenProperties, EmptySeq
<1>2. /\ Head(l) = l[1] /\ Head(l) \in Range(l)
      /\ Range(m) = Range(l) \ {Head(l)} /\ IsInjective(m)
  BY TailRange
<1>3. /\ m \in Seq(Rec) /\ Len(m) = Len(l) - 1
      /\ \A a \in 1 .. Len(l) - 1 : m[a] = l[a + 1]
  BY HeadTailProperties
<1>4. PICK n \in 1 .. Len(l) : t[n] = Head(l)
  BY <1>1, <1>2 DEF Range
<1>5. /\ u \in Seq(Rec) /\ Len(u) = Len(l) - 1
      /\ \A a \in 1 .. Len(l) - 1 : u[a] = IF a < n THEN t[a] ELSE t[a + 1]
  <2>1. /\ RemoveFirst(t, t[n]) \in Seq(Rec)
        /\ Len(RemoveFirst(t, t[n])) = Len(t) - 1
        /\ \A a \in 1 .. Len(t) - 1 :
             RemoveFirst(t, t[n])[a] = IF a < n THEN t[a] ELSE t[a + 1]
    BY RemoveFirstProperties
  <2> QED BY <1>4, <2>1
<1> HIDE DEF u, m
<1>6. DOMAIN u = 1 .. Len(l) - 1 /\ DOMAIN m = 1 .. Len(l) - 1
  BY <1>3, <1>5, LenProperties
<1> DEFINE place(a) == IF a < n THEN a ELSE a + 1
<1>7. /\ \A a \in 1 .. Len(l) - 1 : u[a] = t[place(a)] /\ place(a) \in (1 .. Len(l)) \ {n}
      /\ \A a, b \in 1 .. Len(l) - 1 : a < b => place(a) < place(b)
      /\ \A a, b \in 1 .. Len(l) - 1 : place(a) = place(b) => a = b
      /\ \A c \in (1 .. Len(l)) \ {n} : \E a \in 1 .. Len(l) - 1 : place(a) = c
  <2>1. ASSUME NEW c \in (1 .. Len(l)) \ {n}
        PROVE  \E a \in 1 .. Len(l) - 1 : place(a) = c
    <3>1. CASE c < n
      <4>1. c \in 1 .. Len(l) - 1 /\ place(c) = c
        BY <1>1, <3>1
      <4> QED BY <4>1
    <3>2. CASE ~(c < n)
      <4>1. c - 1 \in 1 .. Len(l) - 1 /\ place(c - 1) = c
        BY <1>1, <3>2
      <4> QED BY <4>1
    <3> QED BY <3>1, <3>2
  <2> QED BY <1>1, <1>5, <2>1
<1> HIDE DEF place
<1>8. IsInjective(u)
  BY <1>1, <1>6, <1>7 DEF IsInjective
<1>9. Range(u) = Range(m)
  <2>1. ASSUME NEW a \in 1 .. Len(l) - 1
        PROVE  u[a] \in Range(l) \ {Head(l)}
    <3>1. u[a] = t[place(a)] /\ place(a) \in (1 .. Len(l)) \ {n}
      BY <1>7
    <3>2. t[place(a)] # t[n] /\ t[place(a)] \in Range(t)
      BY <1>1, <3>1 DEF Range, IsInjective
    <3> QED BY <1>4, <3>1, <3>2
  <2>2. ASSUME NEW z \in Range(l) \ {Head(l)}
        PROVE  \E a \in 1 .. Len(l) - 1 : u[a] = z
    <3>1. PICK c \in 1 .. Len(l) : t[c] = z
      BY <1>1 DEF Range
    <3> QED BY <1>4, <1>7, <3>1
  <2>3. Range(u) = {u[a] : a \in 1 .. Len(l) - 1}
    BY <1>6 DEF Range
  <2> QED BY <1>2, <2>1, <2>2, <2>3
<1>10. Ordered(m, u)
  <2> SUFFICES ASSUME NEW j \in 1 .. Len(l) - 1, NEW k \in 1 .. Len(l) - 1, j < k
               PROVE  Precedes(m, u[j], u[k])
    BY <1>6 DEF Ordered
  <2>1. Precedes(l, u[j], u[k])
    BY <1>1, <1>7 DEF Ordered
  <2>2. ASSUME Before(l, u[j], u[k])
        PROVE  Before(m, u[j], u[k])
    <3>1. PICK a \in 1 .. Len(l), b \in 1 .. Len(l) : a < b /\ l[a] = u[j] /\ l[b] = u[k]
      BY <1>1, <2>2 DEF Before
    <3>2. u[j] # l[1]
      BY <1>2, <1>6, <1>9 DEF Range
    <3>3. /\ a - 1 \in 1 .. Len(l) - 1 /\ b - 1 \in 1 .. Len(l) - 1 /\ a - 1 < b - 1
          /\ (a - 1) + 1 = a /\ (b - 1) + 1 = b
      BY <1>1, <3>1, <3>2
    <3>4. m[a - 1] = u[j] /\ m[b - 1] = u[k]
      BY <1>3, <3>1, <3>3
    <3> QED BY <1>6, <3>3, <3>4 DEF Before
  <2> QED BY <2>1, <2>2 DEF Precedes
<1>11. Range(m) \subseteq Range(l)
  BY <1>2
<1> QED BY <1>2, <1>3, <1>5, <1>8, <1>9, <1>10, <1>11 DEF u, m

\* The last record of the list, linked where those on its left do not start
\* after it and those on its right do, is in its place.
LEMMA LinkKeepsOrder ==
  ASSUME NEW l \in Seq(Rec), l # <<>>, NEW t \in Seq(Rec), NEW n \in 1 .. Len(t) + 1,
         IsInjective(l), IsInjective(t), Range(t) = Range(l) \ {Last(l)},
         Len(t) = Len(l) - 1, Ordered(l, t),
         \A k \in 1 .. n - 1    : ~GoesLeft(Last(l), t[k]),
         \A k \in n .. Len(t) : GoesLeft(Last(l), t[k])
  PROVE  /\ InsertAt(t, n, Last(l)) \in Seq(Rec)
         /\ Len(InsertAt(t, n, Last(l))) = Len(l)
         /\ IsInjective(InsertAt(t, n, Last(l)))
         /\ Range(InsertAt(t, n, Last(l))) = Range(l)
         /\ Ordered(l, InsertAt(t, n, Last(l)))
<1> DEFINE e == Last(l)
           u == InsertAt(t, n, e)
<1>1. /\ Len(l) \in Nat \ {0} /\ DOMAIN l = 1 .. Len(l) /\ DOMAIN t = 1 .. Len(l) - 1
      /\ \A a \in 1 .. Len(l) : l[a] \in Rec
      /\ \A a \in 1 .. Len(l) - 1 : t[a] \in Rec
  BY LenProperties, EmptySeq
<1>2. e = l[Len(l)] /\ e \in Rec /\ e \in Range(l)
  BY <1>1 DEF Last, Range
<1> HIDE DEF e
<1>3. /\ u \in Seq(Rec) /\ Len(u) = Len(l)
      /\ \A a \in 1 .. Len(l) :
           u[a] = IF a < n THEN t[a] ELSE IF a = n THEN e ELSE t[a - 1]
  <2>1. /\ InsertAt(t, n, e) \in Seq(Rec)
        /\ Len(InsertAt(t, n, e)) = Len(t) + 1
        /\ \A a \in 1 .. Len(t) + 1 :
             InsertAt(t, n, e)[a] = IF a < n THEN t[a] ELSE IF a = n THEN e ELSE t[a - 1]
    <3>1. e \in Rec
      BY <1>2
    <3> QED BY <3>1, InsertAtProperties
  <2>2. Len(t) + 1 = Len(l)
    BY <1>1
  <2> QED BY <2>1, <2>2
<1>4. DOMAIN u = 1 .. Len(l)
  BY <1>3, LenProperties
<1> HIDE DEF u
<1>5. n \in 1 .. Len(l)
  BY <1>1
<1>6. \A a \in 1 .. Len(l) - 1 : t[a] # e /\ t[a] \in Range(l)
  BY <1>1 DEF Range, e
<1> DEFINE place(a) == IF a < n THEN a ELSE a - 1
<1>7. /\ u[n] = e
      /\ \A a \in (1 .. Len(l)) \ {n} : u[a] = t[place(a)] /\ place(a) \in 1 .. Len(l) - 1
      /\ \A a, b \in (1 .. Len(l)) \ {n} : a < b => place(a) < place(b)
      /\ \A a, b \in (1 .. Len(l)) \ {n} : place(a) = place(b) => a = b
      /\ \A c \in 1 .. Len(l) - 1 : \E a \in (1 .. Len(l)) \ {n} : place(a) = c
  <2>1. ASSUME NEW c \in 1 .. Len(l) - 1
        PROVE  \E a \in (1 .. Len(l)) \ {n} : place(a) = c
    <3>1. CASE c < n
      <4>1. c \in (1 .. Len(l)) \ {n} /\ place(c) = c
        BY <1>1, <3>1
      <4> QED BY <4>1
    <3>2. CASE ~(c < n)
      <4>1. c + 1 \in (1 .. Len(l)) \ {n} /\ place(c + 1) = c
        BY <1>1, <3>2
      <4> QED BY <4>1
    <3> QED BY <3>1, <3>2
  <2> QED BY <1>1, <1>3, <1>5, <2>1
<1>8. \A a \in (1 .. Len(l)) \ {n} : a < n => place(a) = a
  OBVIOUS
<1>9. \A a \in (1 .. Len(l)) \ {n} : a > n => place(a) \in n .. Len(t)
  BY <1>1, <1>5
<1> HIDE DEF place
<1>10. \A a \in (1 .. Len(l)) \ {n} : u[a] # e /\ u[a] \in Range(l)
  BY <1>6, <1>7
<1>11. IsInjective(u)
  <2> SUFFICES ASSUME NEW a \in 1 .. Len(l), NEW b \in 1 .. Len(l), u[a] = u[b]
               PROVE  a = b
    BY <1>4 DEF IsInjective
  <2>1. CASE a = n \/ b = n
    BY <1>7, <1>10, <2>1
  <2>2. CASE a # n /\ b # n
    <3>1. t[place(a)] = t[place(b)] /\ place(a) \in DOMAIN t /\ place(b) \in DOMAIN t
      BY <1>1, <1>7, <2>2
    <3>2. place(a) = place(b)
      BY <1>1, <3>1 DEF IsInjective
    <3> QED BY <1>7, <2>2, <3>2
  <2> QED BY <2>1, <2>2
<1>12. Range(u) = Range(l)
  <2>1. ASSUME NEW z \in Range(l)
        PROVE  \E a \in 1 .. Len(l) : u[a] = z
    <3>1. CASE z = e
      BY <1>5, <1>7, <3>1
    <3>2. CASE z # e
      <4>1. PICK c \in 1 .. Len(l) - 1 : t[c] = z
        BY <1>1, <3>2 DEF Range, e
      <4> QED BY <1>7, <4>1
    <3> QED BY <3>1, <3>2
  <2>2. \A a \in 1 .. Len(l) : u[a] \in Range(l)
    BY <1>2, <1>7, <1>10
  <2>3. Range(u) = {u[a] : a \in 1 .. Len(l)}
    BY <1>4 DEF Range
  <2> QED BY <2>1, <2>2, <2>3
<1>13. Ordered(l, u)
  <2> SUFFICES ASSUME NEW j \in 1 .. Len(l), NEW k \in 1 .. Len(l), j < k
               PROVE  Precedes(l, u[j], u[k])
    BY <1>4 DEF Ordered
  <2>1. CASE j # n /\ k # n
    BY <1>1, <1>7, <2>1 DEF Ordered
  <2>2. CASE j = n
    <3>1. GoesLeft(e, u[k])
      <4>1. k \in (1 .. Len(l)) \ {n} /\ k > n
        BY <2>2
      <4> QED BY <1>7, <1>9, <4>1 DEF e
    <3> QED BY <1>7, <2>2, <3>1 DEF GoesLeft, Precedes
  <2>3. CASE k = n
    <3>1. j \in (1 .. Len(l)) \ {n} /\ j < n /\ j \in 1 .. n - 1
      BY <1>5, <2>3
    <3>2. ~GoesLeft(e, u[j]) /\ u[j] \in Rec
      BY <1>1, <1>7, <1>8, <3>1 DEF e
    <3>3. Before(l, u[j], e)
      <4>1. PICK a \in 1 .. Len(l) : l[a] = u[j]
        BY <1>1, <1>10, <3>1 DEF Range
      <4>2. a < Len(l)
        BY <1>1, <1>2, <1>10, <3>1, <4>1
      <4> QED BY <1>1, <1>2, <4>1, <4>2 DEF Before
    <3>4. Info[u[j]].start_time \in Nat /\ Info[e].start_time \in Nat
      BY <1>2, <3>2, InfoAssumption
    <3>5. Info[u[j]].start_time <= Info[e].start_time
      BY <3>2, <3>4 DEF GoesLeft
    <3> QED BY <1>7, <2>3, <3>3, <3>4, <3>5 DEF Precedes
  <2> QED BY <2>1, <2>2, <2>3
<1> QED BY <1>3, <1>11, <1>12, <1>13 DEF u, e

-----------------------------------------------------------------------------
(* The invariant.                                                          *)

\* The tree holds the records of the list, without the one that is on its way
\* down the tree.
Listed ==
  /\ IsInjective(process_list) /\ IsInjective(process_tree)
  /\ lock # "add" => /\ Len(process_tree) = Len(process_list)
                     /\ Range(process_tree) = Range(process_list)
  /\ lock = "add" => /\ process_list # <<>>
                     /\ Len(process_tree) = Len(process_list) - 1
                     /\ Range(process_tree) = Range(process_list) \ {Last(process_list)}

\* What the descent has left behind belongs there.
Descended ==
  lock = "add" =>
    /\ lo <= hi + 1
    /\ \A k \in 1 .. lo - 1 : ~GoesLeft(Last(process_list), process_tree[k])
    /\ \A k \in hi + 1 .. Len(process_tree) : GoesLeft(Last(process_list), process_tree[k])

\* A show holds the lock from its first record to its last, and matches a
\* record that is listed.
Reading ==
  /\ pc = "idle" <=> lock # "show"
  /\ Matching => i <= Len(process_list)

\* Only "comm" leaves a torn name, and only while it copies.
Copying ==
  /\ filter = [g \in ToSet(Field) |-> filter[g]]
  /\ \A g \in ToSet(Field) : filter[g] = TORN => g = "target_comm" /\ command = "comm"

\* The tree, between the sections and in the middle of an insertion.
TreeInv == Listed /\ Ordered(process_list, process_tree) /\ Descended
IInv    == TypeOK /\ TreeInv /\ Reading /\ Copying

\* The six fields, in their order.
LEMMA FieldFacts ==
  /\ ToSet(Field) = {"enabled", "target_pid", "target_ppid", "target_comm",
                     "min_lifetime", "max_lifetime"}
  /\ Len(Field) = 6
  /\ \A k \in 1 .. 6 : Field[k] \in ToSet(Field)
<1>1. Len(Field) = 6 /\ DOMAIN Field = 1 .. 6
  BY DEF Field
<1>2. /\ Field[1] = "enabled" /\ Field[2] = "target_pid" /\ Field[3] = "target_ppid"
      /\ Field[4] = "target_comm" /\ Field[5] = "min_lifetime" /\ Field[6] = "max_lifetime"
  BY DEF Field
<1>3. 1 .. 6 = {1, 2, 3, 4, 5, 6}
  OBVIOUS
<1>4. \A k \in 1 .. 6 : Field[k] \in ToSet(Field)
  BY <1>1 DEF ToSet
<1>5. ToSet(Field) = {Field[1], Field[2], Field[3], Field[4], Field[5], Field[6]}
  <2> HIDE DEF Field
  <2> QED BY <1>1, <1>3 DEF ToSet
<1> QED BY <1>1, <1>2, <1>4, <1>5

LEMMA InitIInv == Init => IInv
<1> SUFFICES ASSUME Init PROVE IInv
  OBVIOUS
<1>1. <<>> \in Seq(Rec) /\ Len(<<>>) = 0 /\ DOMAIN <<>> = {}
  OBVIOUS
<1>2. TypeOK
  BY <1>1, FieldFacts, LimitsAssumption DEF Init, TypeOK
<1>3. TreeInv
  BY <1>1 DEF Init, TreeInv, Listed, Ordered, Descended, IsInjective
<1>4. Reading
  BY DEF Init, Reading, Matching
<1>5. Copying
  BY TornAssumption DEF Init, Copying
<1> QED BY <1>2, <1>3, <1>4, <1>5 DEF IInv

\* The eviction, and the end of the list.
LEMMA AddRecordIInv ==
  ASSUME IInv, NEW r \in Rec, AddRecord(r)
  PROVE  IInv'
<1> DEFINE kept == IF Full THEN Tail(process_list) ELSE process_list
           tree == IF Full THEN RemoveFirst(process_tree, Head(process_list)) ELSE process_tree
<1>1. /\ process_list \in Seq(Rec) /\ Len(process_list) \in Nat
      /\ process_tree \in Seq(Rec)
      /\ IsInjective(process_list) /\ IsInjective(process_tree)
      /\ Len(process_tree) = Len(process_list)
      /\ Range(process_tree) = Range(process_list)
      /\ Ordered(process_list, process_tree)
      /\ lock = "free" /\ pc = "idle"
      /\ Len(process_list) <= MAX_PROCESS_RECORDS
      /\ MAX_PROCESS_RECORDS \in Nat \ {0}
  BY LimitsAssumption, LenProperties DEF AddRecord, IInv, TypeOK, TreeInv, Listed, Reading
<1>2. /\ kept \in Seq(Rec) /\ Len(kept) \in Nat
      /\ Len(kept) < MAX_PROCESS_RECORDS
      /\ IsInjective(kept) /\ Range(kept) \subseteq Range(process_list)
      /\ tree \in Seq(Rec) /\ Len(tree) = Len(kept) /\ IsInjective(tree)
      /\ Range(tree) = Range(kept) /\ Ordered(kept, tree)
  <2>1. CASE Full
    <3>1. process_list # <<>> /\ Len(process_list) = MAX_PROCESS_RECORDS
      BY <1>1, <2>1 DEF Full
    <3> QED BY <1>1, <2>1, <3>1, EvictionKeepsOrder
  <2>2. CASE ~Full
    BY <1>1, <2>2 DEF Full
  <2> QED BY <2>1, <2>2
<1>3. /\ process_list' = Append(kept, r) /\ process_tree' = tree
      /\ lo' = 1 /\ hi' = Len(tree) /\ lock' = "add"
      /\ UNCHANGED <<filter, command, show, history>>
  BY DEF AddRecord
<1>4. r \notin Range(process_list)
  BY DEF AddRecord, ToSet, Range
<1> HIDE DEF kept, tree
<1>5. /\ Append(kept, r) \in Seq(Rec) /\ Len(Append(kept, r)) = Len(kept) + 1
      /\ Range(Append(kept, r)) = Range(kept) \cup {r}
      /\ IsInjective(Append(kept, r))
      /\ \A a \in 1 .. Len(kept) : Append(kept, r)[a] = kept[a]
      /\ Append(kept, r)[Len(kept) + 1] = r
  BY <1>2, <1>4, AppendProperties, AppendRange
<1>6. Last(Append(kept, r)) = r /\ Append(kept, r) # <<>>
  BY <1>2, <1>5 DEF Last
<1>7. Listed'
  BY <1>2, <1>3, <1>4, <1>5, <1>6 DEF Listed
<1>8. Ordered(Append(kept, r), tree)
  <2>1. DOMAIN kept = 1 .. Len(kept) /\ DOMAIN Append(kept, r) = 1 .. Len(kept) + 1
    BY <1>2, <1>5, LenProperties
  <2>2. ASSUME NEW q, NEW s, Before(kept, q, s)
        PROVE  Before(Append(kept, r), q, s)
    BY <1>2, <1>5, <2>1, <2>2 DEF Before
  <2> QED BY <1>2, <2>2 DEF Ordered, Precedes
<1>9. Descended'
  BY <1>2, <1>3 DEF Descended
<1>10. TreeInv'
  BY <1>3, <1>7, <1>8, <1>9 DEF TreeInv
<1>11. i \in 1 .. Len(Append(kept, r)) + 1
  <2>1. Len(process_list) <= Len(kept) + 1
    <3>1. Len(Tail(process_list)) = Len(process_list) - 1 \/ process_list = <<>>
      BY <1>1, HeadTailProperties
    <3>2. CASE Full
      <4>1. process_list # <<>>
        BY <1>1, <3>2 DEF Full
      <4> QED BY <1>1, <3>1, <3>2, <4>1 DEF kept
    <3>3. CASE ~Full
      BY <1>1, <3>3 DEF kept
    <3> QED BY <3>2, <3>3
  <2>2. i \in 1 .. Len(process_list) + 1
    BY DEF IInv, TypeOK
  <2> QED BY <1>1, <1>2, <1>5, <2>1, <2>2
<1>12. TypeOK'
  <2>1. /\ Append(kept, r) \in Seq(Rec) /\ Len(Append(kept, r)) <= MAX_PROCESS_RECORDS
        /\ tree \in Seq(Rec)
        /\ 1 \in 1 .. Len(tree) + 1 /\ Len(tree) \in 0 .. Len(tree)
    BY <1>1, <1>2, <1>5
  <2> QED BY <1>3, <1>11, <2>1 DEF IInv, TypeOK, show, history
<1>13. Reading' /\ Copying'
  BY <1>1, <1>3 DEF IInv, Reading, Copying, Matching, show
<1> QED BY <1>10, <1>12, <1>13 DEF IInv

\* One turn of the descent: what is beyond the record it meets is so as well,
\* for the tree is in order.
LEMMA DescendIInv ==
  ASSUME IInv, Descend
  PROVE  IInv'
<1> DEFINE e == Last(process_list)
           t == process_tree
<1>1. PICK k \in lo .. hi :
        IF GoesLeft(e, t[k]) THEN hi' = k - 1 /\ UNCHANGED lo
                             ELSE lo' = k + 1 /\ UNCHANGED hi
  BY DEF Descend
<1>2. /\ lock = "add" /\ lo <= hi
      /\ UNCHANGED <<process_list, process_tree, lock, filter, command, show, history>>
  BY DEF Descend
<1>3. /\ process_list \in Seq(Rec) /\ process_list # <<>>
      /\ t \in Seq(Rec) /\ Len(t) \in Nat /\ DOMAIN t = 1 .. Len(t)
      /\ \A j \in 1 .. Len(t) : t[j] \in Rec
      /\ lo \in 1 .. Len(t) + 1 /\ hi \in 0 .. Len(t)
      /\ k \in 1 .. Len(t)
      /\ Ordered(process_list, t)
      /\ lo <= hi + 1
      /\ \A j \in 1 .. lo - 1 : ~GoesLeft(e, t[j])
      /\ \A j \in hi + 1 .. Len(t) : GoesLeft(e, t[j])
  <2>1. /\ process_list \in Seq(Rec) /\ process_list # <<>> /\ t \in Seq(Rec)
        /\ lo \in 1 .. Len(t) + 1 /\ hi \in 0 .. Len(t)
        /\ Ordered(process_list, t)
        /\ lo <= hi + 1
        /\ \A j \in 1 .. lo - 1 : ~GoesLeft(e, t[j])
        /\ \A j \in hi + 1 .. Len(t) : GoesLeft(e, t[j])
    BY <1>2 DEF IInv, TypeOK, TreeInv, Listed, Descended
  <2>2. /\ Len(t) \in Nat /\ DOMAIN t = 1 .. Len(t)
        /\ \A j \in 1 .. Len(t) : t[j] \in Rec
    BY <2>1, LenProperties
  <2> QED BY <2>1, <2>2
<1>4. e \in Rec
  <2>1. Len(process_list) \in 1 .. Len(process_list)
    BY <1>3, LenProperties, EmptySeq
  <2> QED BY <1>3, <2>1, LenProperties DEF Last
<1>5. \A j \in Rec : Info[j].start_time \in Nat
  BY InfoAssumption
<1> HIDE DEF e, t
<1>6. \A a, b \in 1 .. Len(t) : a < b => Info[t[a]].start_time <= Info[t[b]].start_time
  <2> SUFFICES ASSUME NEW a \in 1 .. Len(t), NEW b \in 1 .. Len(t), a < b
               PROVE  Info[t[a]].start_time <= Info[t[b]].start_time
    OBVIOUS
  <2>1. Precedes(process_list, t[a], t[b])
    BY <1>3 DEF Ordered
  <2>2. Info[t[a]].start_time \in Nat /\ Info[t[b]].start_time \in Nat
    BY <1>3, <1>5
  <2> QED BY <2>1, <2>2 DEF Precedes
<1>7. CASE GoesLeft(e, t[k])
  <2>1. hi' = k - 1 /\ lo' = lo
    BY <1>1, <1>7
  <2>2. ASSUME NEW j \in k .. Len(t)
        PROVE  GoesLeft(e, t[j])
    <3>1. j \in 1 .. Len(t) /\ (j = k \/ k < j)
      BY <1>3
    <3>2. Info[t[k]].start_time <= Info[t[j]].start_time
      BY <1>3, <1>5, <1>6, <3>1
    <3> QED BY <1>3, <1>4, <1>5, <1>7, <3>1, <3>2 DEF GoesLeft
  <2>3. Descended'
    BY <1>2, <1>3, <2>1, <2>2 DEF Descended, e, t
  <2>4. lo' \in 1 .. Len(t) + 1 /\ hi' \in 0 .. Len(t)
    BY <1>3, <2>1
  <2> QED
    BY <1>2, <2>3, <2>4
    DEF IInv, TypeOK, TreeInv, Listed, Reading, Copying, Matching, show, history, t
<1>8. CASE ~GoesLeft(e, t[k])
  <2>1. lo' = k + 1 /\ hi' = hi
    BY <1>1, <1>8
  <2>2. ASSUME NEW j \in 1 .. k
        PROVE  ~GoesLeft(e, t[j])
    <3>1. j \in 1 .. Len(t) /\ (j = k \/ j < k)
      BY <1>3
    <3>2. Info[t[j]].start_time <= Info[t[k]].start_time
      BY <1>3, <1>5, <1>6, <3>1
    <3> QED BY <1>3, <1>4, <1>5, <1>8, <3>1, <3>2 DEF GoesLeft
  <2>3. Descended'
    BY <1>2, <1>3, <2>1, <2>2 DEF Descended, e, t
  <2>4. lo' \in 1 .. Len(t) + 1 /\ hi' \in 0 .. Len(t)
    BY <1>3, <2>1
  <2> QED
    BY <1>2, <2>3, <2>4
    DEF IInv, TypeOK, TreeInv, Listed, Reading, Copying, Matching, show, history, t
<1> QED BY <1>7, <1>8

\* The descent ends at the one place that is left.
LEMMA LinkNodeIInv ==
  ASSUME IInv, LinkNode
  PROVE  IInv'
<1> DEFINE e == Last(process_list)
           t == process_tree
           u == InsertAt(process_tree, lo, Last(process_list))
<1>1. /\ lock = "add" /\ lo > hi
      /\ process_tree' = u /\ lo' = 1 /\ hi' = 0 /\ lock' = "free"
      /\ UNCHANGED <<process_list, filter, command, show, history>>
  BY DEF LinkNode
<1>2. /\ process_list \in Seq(Rec) /\ process_list # <<>> /\ t \in Seq(Rec)
      /\ lo \in 1 .. Len(t) + 1 /\ hi \in 0 .. Len(t)
      /\ IsInjective(process_list) /\ IsInjective(t)
      /\ Range(t) = Range(process_list) \ {e} /\ Len(t) = Len(process_list) - 1
      /\ Ordered(process_list, t)
      /\ lo <= hi + 1
      /\ \A j \in 1 .. lo - 1 : ~GoesLeft(e, t[j])
      /\ \A j \in hi + 1 .. Len(t) : GoesLeft(e, t[j])
  BY <1>1 DEF IInv, TypeOK, TreeInv, Listed, Descended
<1>3. lo = hi + 1 /\ Len(t) \in Nat
  BY <1>1, <1>2, LenProperties
<1>4. /\ u \in Seq(Rec) /\ Len(u) = Len(process_list) /\ IsInjective(u)
      /\ Range(u) = Range(process_list) /\ Ordered(process_list, u)
  BY <1>2, <1>3, LinkKeepsOrder
<1> HIDE DEF u
<1>5. TreeInv'
  BY <1>1, <1>2, <1>4 DEF TreeInv, Listed, Descended
<1>6. TypeOK'
  BY <1>1, <1>3, <1>4 DEF IInv, TypeOK, show, history
<1>7. Reading' /\ Copying'
  BY <1>1 DEF IInv, Reading, Copying, Matching, show
<1> QED BY <1>5, <1>6, <1>7 DEF IInv

\* What a show or a command does not touch.
LEMMA TreeFrame ==
  ASSUME TreeInv, UNCHANGED records, (lock' = "add") <=> (lock = "add")
  PROVE  TreeInv'
BY DEF TreeInv, Listed, Descended, records

\* The steps of a show.
LEMMA ShowIInv ==
  ASSUME IInv, Show
  PROVE  IInv'
<1> USE DEF show
<1>1. /\ process_list \in Seq(Rec) /\ Len(process_list) \in Nat
      /\ \A a \in 1 .. Len(process_list) : process_list[a] \in Rec
      /\ i \in 1 .. Len(process_list) + 1 /\ f \in 1 .. Len(Field)
      /\ shown \in Seq(Rec) /\ verdict \in BOOLEAN
  BY LenProperties DEF IInv, TypeOK
<1>2. UNCHANGED <<records, filter, command>>
  BY DEF Show, ShowEnter, ShowNext, Test, Compare, ShowVerdict, ShowReturn
<1>3. Copying'
  BY <1>2 DEF IInv, Copying
<1>4. ASSUME i' \in 1 .. Len(process_list) + 1, f' \in 1 .. Len(Field),
             shown' \in Seq(Rec), verdict' \in BOOLEAN, allowed' \subseteq BOOLEAN,
             pc' \in {"idle", "next", "test", "compare", "judged"},
             lock' \in {"free", "show"}, lock # "add", Reading'
      PROVE  IInv'
  <2>1. TreeInv'
    BY <1>2, <1>4, TreeFrame DEF IInv
  <2>2. TypeOK'
    BY <1>2, <1>4 DEF IInv, TypeOK, records
  <2> QED BY <1>3, <1>4, <2>1, <2>2 DEF IInv
<1>5. CASE ShowEnter
  BY <1>1, <1>4, <1>5 DEF ShowEnter, IInv, Reading, Matching, TypeOK
<1>6. CASE ShowNext
  <2>1. Wanted(Record, filter) \in BOOLEAN
    BY DEF Wanted
  <2> QED BY <1>1, <1>4, <1>6, <2>1 DEF ShowNext, IInv, Reading, Matching, TypeOK, records
<1>7. ASSUME Test \/ Compare
      PROVE  IInv'
  <2>1. /\ pc' \in {"test", "compare", "judged"} /\ verdict' \in BOOLEAN
        /\ f' \in 1 .. Len(Field)
    <3>1. LastField(Record) \in {4, 6} /\ Len(Field) = 6
      BY FieldFacts DEF LastField
    <3>2. ASSUME NextField
          PROVE  /\ pc' \in {"test", "judged"} /\ verdict' \in BOOLEAN
                 /\ f' \in 1 .. Len(Field)
      <4>1. CASE f < LastField(Record)
        BY <1>1, <3>1, <3>2, <4>1 DEF NextField
      <4>2. CASE ~(f < LastField(Record))
        BY <3>1, <3>2, <4>2 DEF NextField, Judge
      <4> QED BY <4>1, <4>2
    <3>3. ASSUME NEW says \in BOOLEAN, Judge(says)
          PROVE  pc' = "judged" /\ verdict' \in BOOLEAN /\ f' \in 1 .. Len(Field)
      <4>1. pc' = "judged" /\ f' = 1 /\ verdict' = says
        BY <3>3 DEF Judge
      <4> QED BY <3>1, <4>1
    <3>4. CASE Test
      BY <1>1, <3>2, <3>3, <3>4 DEF Test
    <3>5. CASE Compare
      BY <3>2, <3>3, <3>5 DEF Compare
    <3> QED BY <1>7, <3>4, <3>5
  <2>2. UNCHANGED <<lock, i, shown, allowed>> /\ pc \in {"test", "compare"}
    BY <1>7 DEF Test, Compare, history
  <2> QED BY <1>1, <1>2, <1>4, <2>1, <2>2 DEF IInv, Reading, Matching, TypeOK, records
<1>8. CASE ShowVerdict
  <2>1. i <= Len(process_list) /\ lock = "show"
    BY <1>8 DEF ShowVerdict, IInv, Reading, Matching, TypeOK
  <2>2. Record \in Rec
    BY <1>1, <2>1 DEF Record
  <2>3. shown' \in Seq(Rec) /\ i' \in 1 .. Len(process_list) + 1
    BY <1>1, <1>8, <2>1, <2>2 DEF ShowVerdict
  <2>4. /\ f' = f /\ verdict' = TRUE /\ allowed' = {} /\ pc' = "next" /\ lock' = "show"
    BY <1>8, <2>1 DEF ShowVerdict
  <2> QED BY <1>1, <1>4, <2>1, <2>3, <2>4 DEF Reading, Matching
<1>9. CASE ShowReturn
  BY <1>1, <1>4, <1>9 DEF ShowReturn, ShowDone, IInv, Reading, Matching, TypeOK
<1> QED BY <1>5, <1>6, <1>7, <1>8, <1>9 DEF Show

\* The commands.
LEMMA CommandIInv ==
  ASSUME IInv, Command
  PROVE  IInv'
<1> USE DEF show
<1>1. UNCHANGED <<records, lock, show>>
  BY DEF Command, Reset, SetField, CommBegins, CommEnds
<1>2. DOMAIN filter = ToSet(Field) /\ allowed \subseteq BOOLEAN
  BY DEF IInv, TypeOK, Copying
<1>3. ASSUME NEW simple, Notice(simple)
      PROVE  allowed' \subseteq BOOLEAN
  <2>1. Wanted(Record, filter') \in BOOLEAN
    BY DEF Wanted
  <2> QED BY <1>2, <1>3, <2>1 DEF Notice
<1>4. ASSUME NEW g \in ToSet(Field), NEW y \in Setting[g] \cup {0, TORN},
             filter' = [filter EXCEPT ![g] = y],
             command' \in {"none", "comm", "reset"}, allowed' \subseteq BOOLEAN, Copying'
      PROVE  IInv'
  <2>1. \A h \in ToSet(Field) : filter'[h] \in Setting[h] \cup {0, TORN}
    BY <1>2, <1>4 DEF IInv, TypeOK
  <2>2. TypeOK'
    BY <1>1, <1>4, <2>1 DEF IInv, TypeOK, records
  <2>3. TreeInv' /\ Reading'
    BY <1>1, TreeFrame DEF IInv, Reading, Matching, records
  <2> QED BY <1>4, <2>2, <2>3 DEF IInv
<1>5. ASSUME NEW g \in ToSet(Field), Reset(g)
      PROVE  IInv'
  <2>1. filter' = [filter EXCEPT ![g] = 0] /\ command \in {"none", "reset"}
    BY <1>5 DEF Reset
  <2>2. command' \in {"none", "reset"} /\ allowed' \subseteq BOOLEAN
    BY <1>3, <1>5 DEF Reset
  <2>3. Copying'
    BY <1>2, <2>1, TornAssumption DEF IInv, Copying
  <2> QED BY <1>4, <2>1, <2>2, <2>3
<1>6. ASSUME NEW g \in ToSet(Field), NEW y \in Setting[g], SetField(g, y)
      PROVE  IInv'
  <2>1. /\ filter' = [filter EXCEPT ![g] = y] /\ command = "none" /\ command' = "none"
        /\ allowed' \subseteq BOOLEAN
    BY <1>3, <1>6 DEF SetField
  <2>2. Copying'
    BY <1>2, <2>1, TornAssumption DEF IInv, Copying
  <2> QED BY <1>4, <2>1, <2>2
<1>7. "target_comm" \in ToSet(Field)
  BY FieldFacts
<1>8. CASE CommBegins
  <2>1. /\ filter' = [filter EXCEPT !["target_comm"] = TORN] /\ command' = "comm"
        /\ command = "none" /\ allowed' \subseteq BOOLEAN
    BY <1>3, <1>8 DEF CommBegins
  <2>2. Copying'
    BY <1>2, <2>1 DEF IInv, Copying
  <2> QED BY <1>4, <1>7, <2>1, <2>2
<1>9. ASSUME NEW y \in Setting["target_comm"], CommEnds(y)
      PROVE  IInv'
  <2>1. /\ filter' = [filter EXCEPT !["target_comm"] = y] /\ command' = "none"
        /\ allowed' \subseteq BOOLEAN
    BY <1>3, <1>9 DEF CommEnds
  <2>2. Copying'
    BY <1>2, <1>7, <2>1, TornAssumption DEF IInv, Copying
  <2> QED BY <1>4, <1>7, <2>1, <2>2
<1> QED BY <1>5, <1>6, <1>8, <1>9 DEF Command

\* IInv is inductive.
LEMMA NextIInv == IInv /\ [Next]_vars => IInv'
<1> SUFFICES ASSUME IInv, [Next]_vars PROVE IInv'
  OBVIOUS
<1>1. CASE UNCHANGED vars
  <2>1. UNCHANGED <<records, lock, filter, command, show, allowed>>
    BY <1>1 DEF vars, history
  <2>2. TreeInv'
    BY <2>1, TreeFrame DEF IInv
  <2> QED BY <2>1, <2>2 DEF IInv, TypeOK, Reading, Matching, Copying, records, show
<1> QED
  BY <1>1, AddRecordIInv, DescendIInv, LinkNodeIInv, ShowIInv, CommandIInv DEF Next, Add

LEMMA AlwaysIInv == Spec => []IInv
BY InitIInv, NextIInv, PTL DEF Spec

-----------------------------------------------------------------------------
(* What follows from it.                                                   *)

\* The list never exceeds its limit, the places of a descent are places of the
\* tree, and a show is at one of its records.
THEOREM TypeCorrect == Spec => []TypeOK
<1>1. IInv => TypeOK
  BY DEF IInv
<1> QED BY <1>1, AlwaysIInv, PTL

\* insert_process_rb_tree (lines 95-113) finds each record its place, whatever
\* order records come in, whichever were evicted and however the kernel has
\* balanced the tree: between the sections the tree is sorted by start time,
\* and those of one time are in the order of the list.
THEOREM TreeAlwaysSorted == Spec => []TreeSorted
<1>1. IInv => TreeSorted
  <2> SUFFICES ASSUME IInv, lock # "add" PROVE TreeSorted
    BY DEF TreeSorted
  <2>1. /\ Len(process_tree) = Len(process_list)
        /\ ToSet(process_tree) = ToSet(process_list)
        /\ Ordered(process_list, process_tree)
    BY DEF IInv, TreeInv, Listed, ToSet, Range
  <2> QED BY <2>1 DEF TreeSorted, Ordered, Precedes, Before
<1> QED BY <1>1, AlwaysIInv, PTL

-----------------------------------------------------------------------------
(* The verdicts.                                                           *)

\* A match of r that reads y in field g goes on to the next field.
Passes(r, g, y) == IF g = "enabled" THEN y # 0 ELSE y = 0 \/ ~Rejects(r, g, y)

\* The configuration in which field g is still, or already, y.
With(g, y) == [filter EXCEPT ![g] = y]

\* What the match has read so far it would have read of the configuration in
\* which g is y, or of the present one, or some of it of the one and some of
\* the other; they differ in no field but g, and their verdicts are allowed.
Follows(g, y) ==
  /\ overlaps = 0 => y = filter[g]
  /\ g = "enabled" \/ filter[g] # 0 \/ y = filter[g]
  /\ {Wanted(Record, With(g, y)), Wanted(Record, filter)} \subseteq allowed
  /\ \A k \in 1 .. f - 1 : \/ Passes(Record, Field[k], With(g, y)[Field[k]])
                           \/ Passes(Record, Field[k], filter[Field[k]])
  /\ pc = "compare" => f # 1 /\ x # 0 /\ x \in {With(g, y)[Field[f]], filter[Field[f]]}
  /\ pc = "judged"  => verdict \in allowed

\* A match is at a field that it reads, and follows the filter or, once
\* commands have overlapped too much, may say anything.
MatchInv ==
  /\ pc \in {"idle", "next", "judged"} => f = 1
  /\ pc \in {"test", "compare"} => f <= LastField(Record)
  /\ Matching => \/ allowed = BOOLEAN
                 \/ command = "none" /\ \E g \in ToSet(Field) : \E y \in Setting[g] \cup {0} :
                                          Follows(g, y)

\* A bound, converted to an unsigned long: itself, or more than any lifetime.
LEMMA ConvertedBound ==
  ASSUME NEW y \in Setting["min_lifetime"] \cup Setting["max_lifetime"] \cup {0}, NEW r \in Rec
  PROVE  /\ y \in Int
         /\ Info[r].lifetime \in Nat
         /\ ULong(y) \in Int
         /\ y >= 0 => ULong(y) = y
         /\ y < 0  => Info[r].lifetime < ULong(y)
<1>1. y \in Int /\ Info[r].lifetime \in Nat /\ ULongMax \in Nat \ {0}
  BY FieldFacts, SettingAssumption, InfoAssumption, LimitsAssumption
<1>2. y <= ULongMax /\ (y < 0 => Info[r].lifetime <= ULongMax + y)
  BY <1>1, BoundsAssumption
<1>3. CASE y >= 0
  <2>1. ULong(y) = y
    BY <1>1, <1>2, <1>3 DEF ULong
  <2> QED BY <1>1, <1>3, <2>1
<1>4. CASE y < 0
  <2>1. ULong(y) = y + ULongMax + 1
    BY <1>1, <1>2, <1>4 DEF ULong
  <2> QED BY <1>1, <1>2, <1>4, <2>1
<1> QED BY <1>1, <1>3, <1>4

\* A configuration that no command is in the middle of.
Whole(config) ==
  /\ config = [g \in ToSet(Field) |-> config[g]]
  /\ \A g \in ToSet(Field) : config[g] \in Setting[g] \cup {0}

\* A match that passes every field it reads of one configuration is wanted.
LEMMA PassesAll ==
  ASSUME NEW r \in Rec, NEW config, Whole(config),
         \A k \in 1 .. LastField(r) : Passes(r, Field[k], config[Field[k]])
  PROVE  Wanted(r, config)
<1>1. /\ Field[1] = "enabled" /\ Field[2] = "target_pid" /\ Field[3] = "target_ppid"
      /\ Field[4] = "target_comm" /\ Field[5] = "min_lifetime" /\ Field[6] = "max_lifetime"
  BY DEF Field
<1>2. LastField(r) \in {4, 6} /\ (LastField(r) = 4 => Info[r].running)
  BY DEF LastField
<1>3. /\ Passes(r, "target_pid", config["target_pid"])
      /\ Passes(r, "target_ppid", config["target_ppid"])
      /\ Passes(r, "target_comm", config["target_comm"])
  BY <1>1, <1>2
<1>4. /\ config["target_pid"] \in {0, Info[r].pid}
      /\ config["target_ppid"] \in {0, Info[r].ppid}
      /\ config["target_comm"] \in {0, Info[r].comm}
  BY <1>3 DEF Passes, Rejects
<1>5. ASSUME ~Info[r].running
      PROVE  /\ config["min_lifetime"] \in 0 .. Info[r].lifetime
             /\ config["max_lifetime"] > 0 => Info[r].lifetime <= config["max_lifetime"]
  <2> DEFINE a == config["min_lifetime"]
             b == config["max_lifetime"]
  <2>1. Passes(r, "min_lifetime", a) /\ Passes(r, "max_lifetime", b)
    BY <1>1, <1>2, <1>5
  <2>2. a \in Setting["min_lifetime"] \cup {0} /\ b \in Setting["max_lifetime"] \cup {0}
    BY FieldFacts DEF Whole
  <2> HIDE DEF a, b
  <2>3. /\ a = 0 \/ ~(Info[r].lifetime < ULong(a))
        /\ b = 0 \/ ~(Info[r].lifetime > ULong(b))
    BY <2>1 DEF Passes, Rejects
  <2>4. a \in 0 .. Info[r].lifetime
    BY <2>2, <2>3, ConvertedBound
  <2>5. b > 0 => Info[r].lifetime <= b
    BY <2>2, <2>3, ConvertedBound
  <2> QED BY <2>4, <2>5 DEF a, b
<1> QED BY <1>4, <1>5 DEF Wanted

\* A match that is rejected by one field of an enabled configuration is not.
LEMMA RejectsOne ==
  ASSUME NEW r \in Rec, NEW config, Whole(config), config["enabled"] # 0,
         NEW k \in 2 .. LastField(r), config[Field[k]] # 0,
         Rejects(r, Field[k], config[Field[k]])
  PROVE  ~Wanted(r, config)
<1>1. /\ Field[2] = "target_pid" /\ Field[3] = "target_ppid"
      /\ Field[4] = "target_comm" /\ Field[5] = "min_lifetime" /\ Field[6] = "max_lifetime"
  BY DEF Field
<1>2. k \in {2, 3, 4} \/ (k \in {5, 6} /\ ~Info[r].running)
  BY DEF LastField
<1>3. CASE k \in {2, 3, 4}
  <2>1. Wanted(r, config) => /\ config["target_pid"] \in {0, Info[r].pid}
                             /\ config["target_ppid"] \in {0, Info[r].ppid}
                             /\ config["target_comm"] \in {0, Info[r].comm}
    BY DEF Wanted
  <2>2. CASE k = 2
    BY <1>1, <2>1, <2>2 DEF Rejects
  <2>3. CASE k = 3
    BY <1>1, <2>1, <2>3 DEF Rejects
  <2>4. CASE k = 4
    BY <1>1, <2>1, <2>4 DEF Rejects
  <2> QED BY <1>3, <2>2, <2>3, <2>4
<1>4. CASE k \in {5, 6} /\ ~Info[r].running
  <2> DEFINE a == config["min_lifetime"]
             b == config["max_lifetime"]
  <2>1. a \in Setting["min_lifetime"] \cup {0} /\ b \in Setting["max_lifetime"] \cup {0}
    BY FieldFacts DEF Whole
  <2>2. Wanted(r, config) => a \in 0 .. Info[r].lifetime /\ (b > 0 => Info[r].lifetime <= b)
    BY <1>4 DEF Wanted
  <2>3. CASE k = 5
    <3>1. Info[r].lifetime < ULong(a)
      BY <1>1, <2>3 DEF Rejects
    <3> HIDE DEF a, b
    <3> QED BY <2>1, <2>2, <3>1, ConvertedBound
  <2>4. CASE k = 6
    <3>1. Info[r].lifetime > ULong(b) /\ b # 0
      BY <1>1, <2>4 DEF Rejects
    <3> HIDE DEF a, b
    <3> QED BY <2>1, <2>2, <3>1, ConvertedBound
  <2> QED BY <1>4, <2>3, <2>4
<1> QED BY <1>2, <1>3, <1>4

\* Of two configurations that differ in field g only, one passes every field
\* that one of them passes.
LEMMA AllPassed ==
  ASSUME Whole(filter), Record \in Rec,
         NEW g \in ToSet(Field), NEW y \in Setting[g] \cup {0},
         {Wanted(Record, With(g, y)), Wanted(Record, filter)} \subseteq allowed,
         \A k \in 1 .. LastField(Record) : \/ Passes(Record, Field[k], With(g, y)[Field[k]])
                                           \/ Passes(Record, Field[k], filter[Field[k]])
  PROVE  TRUE \in allowed
<1>1. /\ Whole(With(g, y)) /\ With(g, y)[g] = y
      /\ \A h \in ToSet(Field) : h # g => With(g, y)[h] = filter[h]
  BY DEF Whole, With
<1>2. LastField(Record) \in 1 .. 6 /\ \A k \in 1 .. 6 : Field[k] \in ToSet(Field)
  BY FieldFacts DEF LastField
<1>3. Wanted(Record, With(g, y)) \in BOOLEAN /\ Wanted(Record, filter) \in BOOLEAN
  BY DEF Wanted
<1>4. CASE Passes(Record, g, y)
  <2>1. \A k \in 1 .. LastField(Record) : Passes(Record, Field[k], With(g, y)[Field[k]])
    BY <1>1, <1>2, <1>4
  <2>2. Wanted(Record, With(g, y))
    BY <1>1, <2>1, PassesAll
  <2> QED BY <1>3, <2>2
<1>5. CASE ~Passes(Record, g, y)
  <2>1. \A k \in 1 .. LastField(Record) : Passes(Record, Field[k], filter[Field[k]])
    BY <1>1, <1>2, <1>5
  <2>2. Wanted(Record, filter)
    BY <2>1, PassesAll
  <2> QED BY <1>3, <2>2
<1> QED BY <1>4, <1>5

\* One of them rejects what either rejects, for one that passes as enabled
\* can be found to do so.
LEMMA OneRejected ==
  ASSUME Whole(filter), Record \in Rec,
         NEW g \in ToSet(Field), NEW y \in Setting[g] \cup {0},
         {Wanted(Record, With(g, y)), Wanted(Record, filter)} \subseteq allowed,
         \/ Passes(Record, "enabled", With(g, y)["enabled"])
         \/ Passes(Record, "enabled", filter["enabled"]),
         NEW k \in 2 .. LastField(Record),
         NEW z \in {With(g, y)[Field[k]], filter[Field[k]]}, z # 0, Rejects(Record, Field[k], z)
  PROVE  FALSE \in allowed
<1> DEFINE old == With(g, y)
<1>1. /\ Whole(old)
      /\ \A h \in ToSet(Field) : h # g => old[h] = filter[h]
  BY DEF Whole, With
<1>2. "enabled" \in ToSet(Field) /\ Field[k] \in ToSet(Field) /\ Field[k] # "enabled"
  <2>1. k \in {2, 3, 4, 5, 6}
    BY DEF LastField
  <2>2. Field[k] \in ToSet(Field)
    BY <2>1, FieldFacts
  <2>3. Field[k] # "enabled"
    BY <2>1 DEF Field
  <2> QED BY <2>2, <2>3, FieldFacts
<1>3. old["enabled"] # 0 \/ filter["enabled"] # 0
  BY DEF Passes
<1>4. Wanted(Record, old) \in BOOLEAN /\ Wanted(Record, filter) \in BOOLEAN
  BY DEF Wanted
<1> HIDE DEF old
<1>5. ASSUME old["enabled"] # 0, old[Field[k]] = z
      PROVE  FALSE \in allowed
  <2>1. ~Wanted(Record, old)
    BY <1>1, <1>5, RejectsOne
  <2> QED BY <1>4, <2>1 DEF old
<1>6. ASSUME filter["enabled"] # 0, filter[Field[k]] = z
      PROVE  FALSE \in allowed
  <2>1. ~Wanted(Record, filter)
    BY <1>6, RejectsOne
  <2> QED BY <1>4, <2>1
<1>7. z \in {old[Field[k]], filter[Field[k]]}
  BY DEF old
<1> QED BY <1>1, <1>2, <1>3, <1>5, <1>6, <1>7

\* While no command is under way the filter is whole, and so is what it was
\* before a field changed.
LEMMA FilterWhole == IInv /\ command = "none" => Whole(filter)
BY DEF IInv, TypeOK, Copying, Whole

\* A match reads one field.
LEMMA MatchStep ==
  ASSUME IInv, MatchInv, Test \/ Compare, allowed # BOOLEAN
  PROVE  MatchInv'
<1>1. /\ pc \in {"test", "compare"} /\ Matching
      /\ UNCHANGED <<records, lock, filter, command, i, shown, history>>
  BY DEF Test, Compare, Matching
<1>2. /\ UNCHANGED <<process_list, i, filter, command, allowed, overlaps>>
      /\ Record' = Record
  BY <1>1 DEF records, history, Record
<1> PICK g \in ToSet(Field) : \E y \in Setting[g] \cup {0} : Follows(g, y)
  BY <1>1 DEF MatchInv
<1>3. PICK y \in Setting[g] \cup {0} : Follows(g, y)
  OBVIOUS
<1>4. command = "none" /\ Whole(filter)
  BY <1>1, FilterWhole DEF MatchInv
<1>5. /\ Record \in Rec /\ f \in 1 .. LastField(Record)
      /\ LastField(Record) \in {4, 6} /\ allowed \subseteq BOOLEAN
  <2>1. i \in 1 .. Len(process_list)
    BY <1>1 DEF IInv, TypeOK, Reading
  <2>2. Record \in Rec
    BY <2>1, LenProperties DEF IInv, TypeOK, Record
  <2>3. LastField(Record) \in {4, 6} /\ f <= LastField(Record)
    BY <1>1 DEF LastField, MatchInv
  <2> QED BY <2>2, <2>3 DEF IInv, TypeOK
<1> DEFINE old == With(g, y)
           passed(k) == \/ Passes(Record, Field[k], old[Field[k]])
                        \/ Passes(Record, Field[k], filter[Field[k]])
<1>6. /\ overlaps = 0 => y = filter[g]
      /\ g = "enabled" \/ filter[g] # 0 \/ y = filter[g]
      /\ {Wanted(Record, old), Wanted(Record, filter)} \subseteq allowed
      /\ \A k \in 1 .. f - 1 : passed(k)
      /\ pc = "compare" => f # 1 /\ x # 0 /\ x \in {old[Field[f]], filter[Field[f]]}
  BY <1>3 DEF Follows
<1>7. /\ old' = old
      /\ \A k : passed(k)' = passed(k)
      /\ \A r : LastField(r)' = LastField(r)
  BY <1>2 DEF With, Passes, Rejects, ULong, LastField
<1>8. old[g] = y /\ \A h \in ToSet(Field) : h # g => old[h] = filter[h]
  BY <1>4 DEF With, Whole
<1>9. /\ Field[1] = "enabled" /\ Field[f] \in ToSet(Field)
      /\ Field[f] = "enabled" <=> f = 1
  <2>1. f \in {1, 2, 3, 4, 5, 6}
    BY <1>5
  <2>2. Field[f] \in ToSet(Field)
    BY <2>1, FieldFacts
  <2>3. Field[1] = "enabled" /\ (Field[f] = "enabled" <=> f = 1)
    BY <2>1 DEF Field
  <2> QED BY <2>2, <2>3
<1> HIDE DEF old, passed
<1>10. ASSUME NEW says \in allowed, Judge(says)
       PROVE  MatchInv'
  <2>1. pc' = "judged" /\ f' = 1 /\ verdict' \in allowed
    BY <1>10 DEF Judge
  <2>2. Follows(g, y)'
    BY <1>2, <1>6, <1>7, <2>1 DEF Follows, old
  <2> QED BY <1>2, <1>4, <2>1, <2>2 DEF MatchInv
<1>11. ASSUME passed(f), NextField
       PROVE  MatchInv'
  <2>1. \A k \in 1 .. f : passed(k)
    BY <1>5, <1>6, <1>11
  <2>2. CASE f < LastField(Record)
    <3>1. f' = f + 1 /\ pc' = "test"
      BY <1>11, <2>2 DEF NextField
    <3>2. f' - 1 = f /\ f' <= LastField(Record)
      BY <1>5, <2>2, <3>1
    <3>3. \A k \in 1 .. f' - 1 : passed(k)'
      BY <1>7, <2>1, <3>2
    <3>4. Follows(g, y)'
      BY <1>2, <1>6, <1>7, <3>1, <3>3 DEF Follows, old, passed
    <3>5. f' <= LastField(Record)'
      BY <1>2, <1>7, <3>2
    <3> QED BY <1>2, <1>4, <3>1, <3>4, <3>5 DEF MatchInv
  <2>3. CASE ~(f < LastField(Record))
    <3>1. Judge(TRUE)
      BY <1>11, <2>3 DEF NextField
    <3> f = LastField(Record)
      BY <1>5, <2>3
    <3>2. TRUE \in allowed
      BY <1>4, <1>5, <1>6, <2>1, <3>1, AllPassed DEF old, passed
    <3> QED BY <1>10, <3>1, <3>2
  <2> QED BY <2>2, <2>3
<1>12. CASE Test
  <2> DEFINE z == filter[Field[f]]
  <2>1. CASE Field[f] = "enabled" /\ z = 0 /\ Judge(TRUE)
    <3>1. Wanted(Record, filter) = TRUE
      BY <2>1 DEF Wanted
    <3> QED BY <1>6, <1>10, <2>1, <3>1
  <2>2. CASE (Field[f] = "enabled") # (z = 0) /\ NextField
    <3>1. passed(f)
      BY <2>2 DEF passed, Passes
    <3> QED BY <1>11, <2>2, <3>1
  <2>3. CASE Field[f] # "enabled" /\ z # 0 /\ pc' = "compare" /\ x' = z /\ UNCHANGED <<f, verdict>>
    <3>1. f # 1 /\ f' = f
      BY <1>9, <2>3
    <3>2. x' \in {old[Field[f]], filter[Field[f]]} /\ x' # 0
      BY <2>3
    <3>3. \A k \in 1 .. f' - 1 : passed(k)'
      BY <1>6, <1>7, <3>1
    <3>4. Follows(g, y)'
      BY <1>2, <1>6, <1>7, <2>3, <3>1, <3>2, <3>3 DEF Follows, old, passed
    <3>5. f' <= LastField(Record)'
      BY <1>2, <1>5, <1>7, <3>1
    <3> QED BY <1>2, <1>4, <2>3, <3>4, <3>5 DEF MatchInv
  <2> QED BY <1>12, <2>1, <2>2, <2>3 DEF Test
<1>13. CASE Compare
  <2>1. PICK z \in {x, filter[Field[f]]} :
          \/ (z = TORN \/ Rejects(Record, Field[f], z)) /\ Judge(FALSE)
          \/ (z = TORN \/ ~Rejects(Record, Field[f], z)) /\ NextField
    BY <1>13 DEF Compare
  <2>2. pc = "compare" /\ f # 1 /\ x # 0 /\ x \in {old[Field[f]], filter[Field[f]]}
    BY <1>6, <1>13 DEF Compare
  <2>3. z \in {old[Field[f]], filter[Field[f]]} /\ z # 0
    BY <1>6, <1>8, <1>9, <2>1, <2>2
  <2>4. z # TORN
    <3>1. \A h \in ToSet(Field) : {old[h], filter[h]} \subseteq Setting[h] \cup {0}
      BY <1>4, <1>8 DEF Whole
    <3> QED BY <1>9, <2>3, <3>1, TornAssumption
  <2>5. CASE Rejects(Record, Field[f], z) /\ Judge(FALSE)
    <3>1. passed(1) /\ f \in 2 .. LastField(Record)
      BY <1>5, <1>6, <2>2
    <3>2. \/ Passes(Record, "enabled", With(g, y)["enabled"])
          \/ Passes(Record, "enabled", filter["enabled"])
      BY <1>9, <3>1 DEF old, passed
    <3>3. z \in {With(g, y)[Field[f]], filter[Field[f]]}
      BY <2>3 DEF old
    <3>4. {Wanted(Record, With(g, y)), Wanted(Record, filter)} \subseteq allowed
      BY <1>6 DEF old
    <3>5. FALSE \in allowed
      BY <1>4, <1>5, <2>3, <2>5, <3>1, <3>2, <3>3, <3>4, OneRejected
    <3> QED BY <1>10, <2>5, <3>5
  <2>6. CASE ~Rejects(Record, Field[f], z) /\ NextField
    <3>1. passed(f)
      BY <1>9, <2>2, <2>3, <2>6 DEF passed, Passes
    <3> QED BY <1>11, <2>6, <3>1
  <2> QED BY <2>1, <2>4, <2>5, <2>6
<1> QED BY <1>12, <1>13

\* A command makes the verdict of its new configuration allowed, or all.
LEMMA CommandMatchInv ==
  ASSUME IInv, MatchInv, Command
  PROVE  MatchInv'
<1>1. UNCHANGED <<process_list, pc, i, f, x, verdict>>
  BY DEF Command, Reset, SetField, CommBegins, CommEnds, records, show
<1>2. /\ Record' = Record /\ LastField(Record)' = LastField(Record)
      /\ Matching' <=> Matching
  BY <1>1 DEF Record, LastField, Matching
<1>3. CASE ~Matching
  BY <1>1, <1>2, <1>3 DEF MatchInv
<1>4. ASSUME Matching, allowed' = BOOLEAN
      PROVE  MatchInv'
  BY <1>1, <1>2, <1>4 DEF MatchInv
<1>5. \A config : Wanted(Record, config) \in BOOLEAN
  BY DEF Wanted
<1>6. ASSUME Matching, NEW simple \in BOOLEAN, Notice(simple),
             allowed = BOOLEAN \/ ~(simple /\ overlaps = 0)
      PROVE  MatchInv'
  <2>1. Wanted(Record, filter') \in BOOLEAN
    BY <1>5
  <2>2. allowed' = BOOLEAN
    BY <1>6, <2>1 DEF Notice
  <2> QED BY <1>4, <1>6, <2>2
<1>7. ASSUME Matching, NEW g \in ToSet(Field), NEW y \in Setting[g], SetField(g, y)
      PROVE  MatchInv'
  <2>1. /\ command = "none" /\ filter[g] # y /\ filter' = [filter EXCEPT ![g] = y]
        /\ Notice(g = "enabled" \/ y # 0) /\ command' = command
    BY <1>7 DEF SetField
  <2>2. CASE allowed = BOOLEAN \/ ~((g = "enabled" \/ y # 0) /\ overlaps = 0)
    BY <1>6, <1>7, <2>1, <2>2
  <2>3. CASE allowed # BOOLEAN /\ (g = "enabled" \/ y # 0) /\ overlaps = 0
    <3>1. PICK h \in ToSet(Field) : \E z \in Setting[h] \cup {0} : Follows(h, z)
      BY <1>7, <2>3 DEF MatchInv
    <3>2. PICK z \in Setting[h] \cup {0} : Follows(h, z)
      BY <3>1
    <3>3. Whole(filter)
      BY <2>1, FilterWhole
    <3>4. With(h, z) = filter
      BY <2>3, <3>2, <3>3 DEF Follows, With, Whole
    <3>5. /\ Wanted(Record, filter) \in allowed
          /\ \A k \in 1 .. f - 1 : Passes(Record, Field[k], filter[Field[k]])
          /\ pc = "compare" => f # 1 /\ x # 0 /\ x = filter[Field[f]]
          /\ pc = "judged" => verdict \in allowed
      BY <3>2, <3>4 DEF Follows
    <3>6. /\ overlaps' = 1
          /\ allowed' = allowed \cup {Wanted(Record, filter')}
      BY <1>7, <2>1, <2>3 DEF Notice
    <3>7. PICK now \in Setting[g] \cup {0} : now = filter[g]
      BY <3>3 DEF Whole
    <3>8. filter'[g] = y /\ With(g, now)' = filter
      BY <2>1, <3>3, <3>7 DEF With, Whole
    <3>9. \A k : Passes(Record, Field[k], filter[Field[k]])'
                   = Passes(Record', Field[k], filter'[Field[k]])
      BY DEF Passes, Rejects, ULong
    <3>10. Follows(g, now)'
      <4>1. overlaps' # 0 /\ (g = "enabled" \/ filter'[g] # 0)
        BY <2>3, <3>6, <3>8
      <4>2. {Wanted(Record', With(g, now)'), Wanted(Record', filter')} \subseteq allowed'
        BY <1>2, <3>5, <3>6, <3>8
      <4>3. \A k \in 1 .. f' - 1 : Passes(Record', Field[k], With(g, now)'[Field[k]])
        BY <1>1, <1>2, <3>5, <3>8
      <4>4. /\ pc' = "compare" => /\ f' # 1 /\ x' # 0
                                  /\ x' \in {With(g, now)'[Field[f']], filter'[Field[f']]}
            /\ pc' = "judged" => verdict' \in allowed'
        BY <1>1, <3>5, <3>6, <3>8
      <4> QED BY <4>1, <4>2, <4>3, <4>4 DEF Follows, Passes, Rejects, Wanted, ULong
    <3> QED BY <1>1, <1>2, <2>1, <3>10 DEF MatchInv
  <2> QED BY <2>2, <2>3
<1>8. ASSUME Matching, NEW g \in ToSet(Field), Reset(g)
      PROVE  MatchInv'
  BY <1>6, <1>8 DEF Reset
<1>9. CASE Matching /\ (CommBegins \/ \E y \in Setting["target_comm"] : CommEnds(y))
  BY <1>6, <1>9 DEF CommBegins, CommEnds
<1> QED BY <1>3, <1>7, <1>8, <1>9 DEF Command

LEMMA InitMatchInv == Init => MatchInv
BY DEF Init, MatchInv, Matching

\* MatchInv is inductive, given IInv.
LEMMA NextMatchInv == IInv /\ MatchInv /\ [Next]_vars => MatchInv'
<1> SUFFICES ASSUME IInv, MatchInv, [Next]_vars PROVE MatchInv'
  OBVIOUS
<1>1. CASE Add
  <2>1. pc = "idle" /\ pc' = pc /\ f' = f
    BY <1>1 DEF Add, AddRecord, Descend, LinkNode, IInv, Reading, show
  <2> QED BY <2>1 DEF MatchInv, Matching
<1>2. CASE Command
  BY <1>2, CommandMatchInv
<1>3. CASE ShowEnter \/ ShowVerdict \/ ShowReturn
  <2>1. f' = f /\ pc' \in {"next", "idle"} /\ pc \in {"idle", "next", "judged"}
    BY <1>3 DEF ShowEnter, ShowVerdict, ShowReturn, ShowDone
  <2> QED BY <2>1 DEF MatchInv, Matching
<1>4. CASE ShowNext
  <2>1. /\ pc' = "test" /\ f' = f /\ f = 1
        /\ UNCHANGED <<process_list, i, filter, command>>
        /\ allowed' = IF command = "none" THEN {Wanted(Record, filter)} ELSE BOOLEAN
    BY <1>4 DEF ShowNext, MatchInv, records
  <2>2. Record' = Record /\ LastField(Record)' \in {4, 6}
    BY <2>1 DEF Record, LastField
  <2>3. CASE command # "none"
    BY <2>1, <2>2, <2>3 DEF MatchInv
  <2>4. CASE command = "none"
    <3>1. Whole(filter) /\ "enabled" \in ToSet(Field)
      BY <2>4, FilterWhole, FieldFacts
    <3>2. PICK y \in Setting["enabled"] \cup {0} : y = filter["enabled"]
      BY <3>1 DEF Whole
    <3>3. With("enabled", y)' = filter
      BY <2>1, <3>1, <3>2 DEF With, Whole
    <3>4. allowed' = {Wanted(Record, filter)}
      BY <2>1, <2>4
    <3>5. Follows("enabled", y)'
      <4>1. /\ y = filter'["enabled"]
            /\ {Wanted(Record', With("enabled", y)'), Wanted(Record', filter')} \subseteq allowed'
            /\ 1 .. f' - 1 = {} /\ pc' # "compare" /\ pc' # "judged"
        BY <2>1, <2>2, <3>2, <3>3, <3>4
      <4> QED BY <4>1 DEF Follows, Wanted
    <3> QED BY <2>1, <2>2, <2>4, <3>1, <3>5 DEF MatchInv
  <2> QED BY <2>3, <2>4
<1>5. CASE Test \/ Compare
  <2>1. CASE allowed # BOOLEAN
    BY <1>5, <2>1, MatchStep
  <2>2. CASE allowed = BOOLEAN
    <3>1. /\ UNCHANGED <<process_list, i, allowed>>
          /\ f \in Nat /\ f <= LastField(Record)
      <4>1. UNCHANGED <<process_list, i, allowed>> /\ pc \in {"test", "compare"}
        BY <1>5 DEF Test, Compare, records, history
      <4>2. f \in Nat
        BY FieldFacts DEF IInv, TypeOK
      <4> QED BY <4>1, <4>2 DEF MatchInv
    <3>2. LastField(Record)' = LastField(Record)
      BY <3>1 DEF LastField, Record
    <3>3. /\ pc' \in {"test", "compare"} => f' <= LastField(Record)
          /\ pc' \in {"idle", "next", "judged"} => f' = 1
      <4>1. CASE NextField /\ f < LastField(Record)
        <5>1. f' = f + 1 /\ pc' = "test" /\ LastField(Record) \in {4, 6}
          BY <4>1 DEF NextField, LastField
        <5> QED BY <3>1, <4>1, <5>1
      <4>2. CASE \E says \in BOOLEAN : Judge(says)
        BY <4>2 DEF Judge
      <4>3. CASE pc' = "compare" /\ f' = f
        BY <3>1, <4>3
      <4> QED BY <1>5, <4>1, <4>2, <4>3 DEF Test, Compare, NextField
    <3> QED BY <2>2, <3>1, <3>2, <3>3 DEF MatchInv
  <2> QED BY <2>1, <2>2
<1>6. CASE UNCHANGED vars
  <2>1. UNCHANGED <<process_list, filter, command, pc, i, f, x, verdict, allowed, overlaps>>
    BY <1>6 DEF vars, records, show, history
  <2>2. \A g, y : Follows(g, y)' <=> Follows(g, y)
    BY <2>1 DEF Follows, With, Record, Passes, Rejects, ULong, Wanted
  <2>3. LastField(Record)' = LastField(Record) /\ Matching' = Matching
    BY <2>1 DEF LastField, Record, Matching
  <2> QED BY <2>1, <2>2, <2>3 DEF MatchInv
<1> QED BY <1>1, <1>2, <1>3, <1>4, <1>5, <1>6 DEF Next, Show

\* process_matches_filter (lines 120-144), which reads the filter field by field
\* without config_mutex, says of every record what one configuration says: the
\* one it met, or, when it overlaps a single command that sets a word, the one
\* before the command or the one after it.  The conversion of a negative bound
\* and the two reads of a field, between which it may change, make no third
\* verdict.
THEOREM VerdictAlwaysOfOneConfiguration == Spec => []VerdictOfOneConfiguration
<1>1. IInv /\ MatchInv => VerdictOfOneConfiguration
  <2> SUFFICES ASSUME IInv, MatchInv, pc = "judged" PROVE verdict \in allowed
    BY DEF VerdictOfOneConfiguration
  <2>1. verdict \in BOOLEAN
    BY DEF IInv, TypeOK
  <2> QED BY <2>1 DEF MatchInv, Matching, Follows
<1> QED BY <1>1, AlwaysIInv, InitMatchInv, NextMatchInv, PTL DEF Spec

-----------------------------------------------------------------------------
(* What a show prints.                                                     *)

\* Among the first n records, one more match than among the others when the
\* last of them matches, and never fewer.
LEMMA MatchesCounted ==
  /\ Matches(0) = 0
  /\ \A n \in Nat : Matches(n) \in Nat
  /\ \A n \in Nat : Matches(n + 1) = Matches(n) +
                      (IF Wanted(process_list[n + 1], filter) THEN 1 ELSE 0)
  /\ \A m, n \in Nat : m <= n => Matches(m) <= Matches(n)
<1> DEFINE Among(n) == {k \in 1 .. n : Wanted(process_list[k], filter)}
<1>1. ASSUME NEW n \in Nat
      PROVE  IsFiniteSet(Among(n)) /\ Cardinality(Among(n)) \in Nat
  <2>1. IsFiniteSet(1 .. n)
    BY FS_Interval
  <2>2. Among(n) \in SUBSET (1 .. n)
    OBVIOUS
  <2>3. IsFiniteSet(Among(n))
    BY <2>1, <2>2, FS_Subset
  <2> QED BY <2>3, FS_CardinalityType
<1>2. \A n : Matches(n) = Cardinality(Among(n))
  BY DEF Matches
<1>3. Matches(0) = 0
  <2>1. Among(0) = {}
    OBVIOUS
  <2> QED BY <1>2, <2>1, FS_EmptySet
<1>4. ASSUME NEW n \in Nat
      PROVE  Matches(n + 1) = Matches(n) + (IF Wanted(process_list[n + 1], filter) THEN 1 ELSE 0)
  <2>1. n + 1 \notin Among(n)
    OBVIOUS
  <2>2. Among(n + 1) = IF Wanted(process_list[n + 1], filter) THEN Among(n) \cup {n + 1} ELSE Among(n)
    OBVIOUS
  <2> HIDE DEF Among
  <2>3. Cardinality(Among(n) \cup {n + 1}) = Cardinality(Among(n)) + 1
    BY <1>1, <2>1, FS_AddElement
  <2> QED BY <1>1, <1>2, <2>2, <2>3
<1>5. ASSUME NEW m \in Nat, NEW n \in Nat, m <= n
      PROVE  Matches(m) <= Matches(n)
  <2>1. Among(m) \in SUBSET Among(n)
    BY <1>5
  <2> HIDE DEF Among
  <2> QED BY <1>1, <1>2, <2>1, FS_Subset
<1> QED BY <1>1, <1>2, <1>3, <1>4, <1>5

\* They stay while list and filter do.
LEMMA MatchesFrame ==
  ASSUME UNCHANGED <<process_list, filter>>
  PROVE  /\ \A n : Matches(n)' = Matches(n)
         /\ \A k : Wanted(process_list[k], filter)' = Wanted(process_list[k], filter)
BY DEF Matches, Wanted

\* A show that no command has disturbed has printed what matches so far, and
\* the record it is at is judged by the configuration it began with.
Printed ==
  /\ Len(shown) = Matches(i - 1)
  /\ \A k \in 1 .. i - 1 :
       Wanted(process_list[k], filter) => shown[Matches(k)] = process_list[k]
\* What a show knows while it goes on.
ShowInv ==
  /\ pc # "idle" => Len(shown) <= SHOWN_RECORDS
  /\ Matching    => Len(shown) < SHOWN_RECORDS
  /\ pc # "idle" /\ steady =>
       /\ command = "none"
       /\ Matching => allowed = {Wanted(Record, filter)}
       /\ Printed

\* The verdict of an undisturbed match is appended as it should be.
LEMMA VerdictPrints ==
  ASSUME IInv, MatchInv, ShowInv, ShowVerdict
  PROVE  ShowInv'
<1>1. /\ pc = "judged" /\ Matching /\ pc' = "next"
      /\ i' = i + 1 /\ steady' = steady
      /\ UNCHANGED <<process_list, filter, command>>
      /\ shown' = IF verdict THEN Append(shown, Record) ELSE shown
  BY DEF ShowVerdict, Matching, records
<1>2. /\ i \in 1 .. Len(process_list) /\ i \in Nat \ {0}
      /\ process_list[i] \in Rec /\ Record = process_list[i]
      /\ shown \in Seq(Rec) /\ Len(shown) \in Nat
      /\ SHOWN_RECORDS \in Nat
  BY <1>1, LenProperties, LimitsAssumption DEF IInv, TypeOK, Reading, Record
<1>3. /\ Len(Append(shown, Record)) = Len(shown) + 1
      /\ \A k \in 1 .. Len(shown) : Append(shown, Record)[k] = shown[k]
      /\ Append(shown, Record)[Len(shown) + 1] = Record
  BY <1>2, AppendProperties
<1>4. Len(shown') <= SHOWN_RECORDS
  BY <1>1, <1>2, <1>3 DEF ShowInv
<1>5. ASSUME steady
      PROVE  command = "none" /\ Printed'
  <2>1. /\ command = "none" /\ allowed = {Wanted(Record, filter)}
        /\ Len(shown) = Matches(i - 1)
        /\ \A k \in 1 .. i - 1 :
             Wanted(process_list[k], filter) => shown[Matches(k)] = process_list[k]
    BY <1>1, <1>5 DEF ShowInv, Printed
  <2>2. verdict = Wanted(process_list[i], filter)
    <3>1. verdict \in allowed \/ (allowed = BOOLEAN /\ verdict \in BOOLEAN)
      BY <1>1 DEF MatchInv, Follows, IInv, TypeOK
    <3>2. allowed # BOOLEAN
      BY <2>1
    <3> QED BY <1>2, <2>1, <3>1, <3>2
  <2>3. i - 1 \in Nat /\ (i - 1) + 1 = i /\ i' - 1 = i
    BY <1>1, <1>2
  <2>4. Matches(i) = Len(shown) + (IF verdict THEN 1 ELSE 0)
    BY <2>1, <2>2, <2>3, MatchesCounted
  <2>5. Len(shown') = Matches(i)
    BY <1>1, <1>2, <1>3, <2>4
  <2>6. ASSUME NEW k \in 1 .. i, Wanted(process_list[k], filter)
        PROVE  shown'[Matches(k)] = process_list[k]
    <3>1. CASE k = i
      <4>1. shown' = Append(shown, Record) /\ Matches(k) = Len(shown) + 1
        BY <1>1, <2>2, <2>4, <2>6, <3>1
      <4> QED BY <1>2, <1>3, <3>1, <4>1
    <3>2. CASE k # i
      <4>1. k \in 1 .. i - 1 /\ k - 1 \in Nat /\ k \in Nat /\ (k - 1) + 1 = k
        BY <1>2, <3>2
      <4>2. shown[Matches(k)] = process_list[k]
        BY <2>1, <2>6, <4>1
      <4>3. /\ Matches(k) = Matches(k - 1) + 1 /\ Matches(k - 1) \in Nat
            /\ Matches(k) <= Matches(i - 1)
        BY <2>3, <2>6, <4>1, MatchesCounted
      <4>4. Matches(k) \in 1 .. Len(shown)
        BY <1>2, <2>1, <4>3
      <4> QED BY <1>1, <1>3, <4>2, <4>4
    <3> QED BY <3>1, <3>2
  <2>7. \A n : Matches(n)' = Matches(n)
    BY <1>1, MatchesFrame
  <2>8. Matches(i - 1)' = Matches(i' - 1)
    BY <1>1, MatchesFrame DEF Matches, Wanted
  <2> QED BY <1>1, <2>1, <2>3, <2>5, <2>6, <2>7, <2>8, MatchesFrame DEF Printed
<1> QED BY <1>1, <1>4, <1>5 DEF ShowInv, Matching

\* ShowInv is inductive, given IInv and MatchInv.
LEMMA NextShowInv == IInv /\ MatchInv /\ ShowInv /\ [Next]_vars => ShowInv'
<1> SUFFICES ASSUME IInv, MatchInv, ShowInv, [Next]_vars PROVE ShowInv'
  OBVIOUS
<1>1. CASE Add \/ ShowReturn
  <2>1. pc' = "idle"
    BY <1>1 DEF Add, AddRecord, Descend, LinkNode, ShowReturn, IInv, Reading, show
  <2> QED BY <2>1 DEF ShowInv, Matching
<1>2. CASE Command
  <2>1. steady' = FALSE /\ UNCHANGED <<pc, shown>>
    BY <1>2 DEF Command, Reset, SetField, CommBegins, CommEnds, Notice, show
  <2> QED BY <2>1 DEF ShowInv, Matching
<1>3. CASE ShowEnter
  <2>1. /\ pc' = "next" /\ i' = 1 /\ shown' = <<>> /\ command' = command
        /\ steady' <=> command = "none"
    BY <1>3 DEF ShowEnter
  <2>2. Len(shown') = 0 /\ i' - 1 = 0 /\ 1 .. i' - 1 = {} /\ 0 <= SHOWN_RECORDS
    BY <2>1, LimitsAssumption
  <2>3. Matches(i - 1)' = 0
    <3>1. {k \in 1 .. i - 1 : Wanted(process_list[k], filter)}' = {}
      BY <2>2
    <3> QED BY <3>1, FS_EmptySet DEF Matches
  <2>4. Printed'
    BY <2>2, <2>3 DEF Printed
  <2> QED BY <2>1, <2>2, <2>4 DEF ShowInv, Matching
<1>4. CASE ShowNext
  <2>1. /\ pc = "next" /\ pc' = "test" /\ Len(shown) < SHOWN_RECORDS
        /\ UNCHANGED <<process_list, filter, command, i, shown, steady>>
        /\ command = "none" => allowed' = {Wanted(Record, filter)}
    BY <1>4 DEF ShowNext, records
  <2>2. Wanted(Record, filter)' = Wanted(Record, filter) /\ (Printed' <=> Printed)
    BY <2>1, MatchesFrame DEF Wanted, Record, Printed, Matches
  <2> QED BY <2>1, <2>2 DEF ShowInv, Matching
<1>5. CASE Test \/ Compare \/ UNCHANGED vars
  <2>1. /\ UNCHANGED <<process_list, filter, command, i, shown, allowed, steady>>
        /\ pc' = "idle" <=> pc = "idle"
        /\ Matching' <=> Matching
    BY <1>5 DEF Test, Compare, NextField, Judge, Matching, vars, records, show, history
  <2>2. Wanted(Record, filter)' = Wanted(Record, filter) /\ (Printed' <=> Printed)
    BY <2>1, MatchesFrame DEF Wanted, Record, Printed, Matches
  <2> QED BY <2>1, <2>2 DEF ShowInv
<1>6. CASE ShowVerdict
  BY <1>6, VerdictPrints
<1> QED BY <1>1, <1>2, <1>3, <1>4, <1>5, <1>6 DEF Next, Show

\* A show of processes (lines 308-329) that no command disturbs prints the
\* records that match, in the order of the list, and all of them up to its
\* limit: a record that does not match neither ends the walk nor takes one of
\* the places.
THEOREM ShowAlwaysFirstMatches == Spec => []ShowsFirstMatches
<1>1. IInv /\ ShowInv => ShowsFirstMatches
  <2> SUFFICES ASSUME IInv, ShowInv, ShowDone, steady
               PROVE  ShowsFirstMatches
    BY DEF ShowsFirstMatches
  <2> DEFINE n == Len(process_list)
  <2>1. /\ n \in Nat /\ DOMAIN process_list = 1 .. n
        /\ i \in 1 .. n + 1 /\ i - 1 \in Nat /\ i - 1 <= n
        /\ Len(shown) \in Nat /\ SHOWN_RECORDS \in Nat
    BY LenProperties, LimitsAssumption DEF IInv, TypeOK
  <2>2. /\ pc = "next" /\ (i > n \/ Len(shown) = SHOWN_RECORDS)
        /\ Len(shown) <= SHOWN_RECORDS /\ Len(shown) = Matches(i - 1)
        /\ \A k \in 1 .. i - 1 :
             Wanted(process_list[k], filter) => shown[Matches(k)] = process_list[k]
    BY DEF ShowDone, ShowInv, Printed
  <2>3. Matches(n) \in Nat /\ Matches(i - 1) <= Matches(n)
    BY <2>1, MatchesCounted
  <2>4. CASE i > n
    <3>1. i - 1 = n
      BY <2>1, <2>4
    <3> HIDE DEF n
    <3> QED BY <2>1, <2>2, <2>3, <3>1 DEF ShowsFirstMatches, n
  <2>5. CASE Len(shown) = SHOWN_RECORDS
    <3>1. ASSUME NEW k \in 1 .. n, Wanted(process_list[k], filter), Matches(k) <= SHOWN_RECORDS
          PROVE  k \in 1 .. i - 1
      <4>1. CASE k >= i
        <5>1. k - 1 \in Nat /\ (k - 1) + 1 = k /\ i - 1 <= k - 1
          BY <2>1, <4>1
        <5>2. /\ Matches(k) = Matches(k - 1) + 1 /\ Matches(k - 1) \in Nat
              /\ Matches(i - 1) <= Matches(k - 1)
          BY <2>1, <3>1, <5>1, MatchesCounted
        <5> QED BY <2>1, <2>2, <2>5, <3>1, <5>2
      <4> QED BY <2>1, <4>1
    <3>2. Len(shown) = IF Matches(n) < SHOWN_RECORDS THEN Matches(n) ELSE SHOWN_RECORDS
      BY <2>1, <2>2, <2>3, <2>5
    <3> QED BY <2>1, <2>2, <3>1, <3>2 DEF ShowsFirstMatches
  <2> QED BY <2>2, <2>4, <2>5
<1>2. Init => ShowInv
  BY DEF Init, ShowInv, Matching
<1> QED BY <1>1, <1>2, AlwaysIInv, InitMatchInv, NextMatchInv, NextShowInv, PTL DEF Spec

=============================================================================
