---------------------------- MODULE RecordViews ----------------------------
(***************************************************************************)
(* experiments/05_complete_monitor.c: what the filter lets a reader of     *)
(* /proc/process_monitor/processes see, and the order of the tree.         *)
(*                                                                         *)
(* Records enter the list and the tree under process_lock, and a show goes *)
(* through the list under it.  filter_write holds config_mutex, which      *)
(* process_matches_filter does not take: a match reads the fields one by   *)
(* one while a command changes them, and a field that the source reads     *)
(* twice is either the value read first or a new one.                      *)
(*                                                                         *)
(* The tree is its records from left to right.  Its shape is the kernel's  *)
(* affair: a descent may find any record of a subtree at the root of it.   *)
(***************************************************************************)
EXTENDS Integers, FiniteSets, SequencesExt

CONSTANTS
  Rec,                    \* records
  Info,                   \* pid, ppid, comm, start_time, running, lifetime of each
  Setting,                \* what commands set each field of the filter to
  TORN,                   \* a target_comm that is only partly copied
  MAX_PROCESS_RECORDS,
  SHOWN_RECORDS,          \* how many records a show prints, 50 in the code
  ULongMax

\* struct filter_config, in the order in which a match reads it.
Field == <<"enabled", "target_pid", "target_ppid", "target_comm", "min_lifetime",
           "max_lifetime">>

ASSUME SettingAssumption ==
  /\ DOMAIN Setting = ToSet(Field)
  /\ \A g \in ToSet(Field) \ {"target_comm"} : Setting[g] \subseteq Int
\* A partly copied name is no name and no number.
ASSUME TornAssumption == TORN \notin Int /\ \A g \in ToSet(Field) : TORN \notin Setting[g]

ASSUME InfoAssumption   == \A r \in Rec : Info[r].start_time \in Nat /\ Info[r].lifetime \in Nat
ASSUME LimitsAssumption == {MAX_PROCESS_RECORDS, SHOWN_RECORDS, ULongMax} \subseteq Nat \ {0}

\* An unsigned long is wider than the int of a bound: a negative one converts
\* to a number above every lifetime, and the others to themselves.
ASSUME BoundsAssumption ==
  \A y \in Setting["min_lifetime"] \cup Setting["max_lifetime"] :
    /\ y <= ULongMax
    /\ y < 0 => \A r \in Rec : Info[r].lifetime <= ULongMax + y

VARIABLES
  process_list, process_tree,
  lock,             \* what process_lock is held for
  lo, hi,           \* of an insertion: the places of the tree that are left
  filter,
  command,          \* the command that filter_write is in the middle of
  pc, i, f, x,      \* of a show: where it is, its record, the field and its value
  shown,            \* the records it has printed
  verdict,          \* of process_matches_filter
  allowed,          \* the verdicts of the configurations that the match met
  overlaps, steady  \* commands in this match, and none in this show

records == <<process_list, process_tree, lo, hi>>
show    == <<pc, i, f, x, shown, verdict>>
history == <<allowed, overlaps, steady>>
vars    == <<records, lock, filter, command, show, history>>

Init ==
  /\ process_list = <<>> /\ process_tree = <<>>
  /\ lock = "free" /\ lo = 1 /\ hi = 0
  /\ filter = [g \in ToSet(Field) |-> 0]
  /\ command = "none"
  /\ pc = "idle" /\ i = 1 /\ f = 1 /\ x = 0
  /\ shown = <<>> /\ verdict = TRUE
  /\ allowed = {} /\ overlaps = 0 /\ steady = TRUE

-----------------------------------------------------------------------------
(* Records come in.                                                        *)

\* Mutant: the limit is off by one.
FullLate == Len(process_list) > MAX_PROCESS_RECORDS

\* record_count is the length of the list, as CompleteMonitor shows.
Full == Len(process_list) >= MAX_PROCESS_RECORDS

\* The critical section of add_process_record up to the tree: an eviction at
\* the limit, and the end of the list.  A record was filled in before the
\* lock was taken, so that its start_time may be older than those it meets.
AddRecord(r) ==
  /\ lock = "free"
  /\ r \notin ToSet(process_list)
  /\ LET kept == IF Full THEN Tail(process_list) ELSE process_list
         tree == IF Full THEN RemoveFirst(process_tree, Head(process_list)) ELSE process_tree
     IN /\ process_list' = Append(kept, r)
        /\ process_tree' = tree
        /\ lo' = 1 /\ hi' = Len(tree)
  /\ lock' = "add"
  /\ UNCHANGED <<filter, command, show, history>>

\* Mutant: a record goes to the left of those that started with it.
GoesLeftOfEqual(r, this) == Info[r].start_time <= Info[this].start_time

GoesLeft(r, this) == Info[r].start_time < Info[this].start_time

\* One turn of the loop of insert_process_rb_tree.
Descend ==
  /\ lock = "add" /\ lo <= hi
  /\ \E k \in lo .. hi :
       IF GoesLeft(Last(process_list), process_tree[k])
       THEN hi' = k - 1 /\ UNCHANGED lo
       ELSE lo' = k + 1 /\ UNCHANGED hi
  /\ UNCHANGED <<process_list, process_tree, lock, filter, command, show, history>>

\* rb_link_node, and the end of the section.
LinkNode ==
  /\ lock = "add" /\ lo > hi
  /\ process_tree' = InsertAt(process_tree, lo, Last(process_list))
  /\ lo' = 1 /\ hi' = 0
  /\ lock' = "free"
  /\ UNCHANGED <<process_list, filter, command, show, history>>

-----------------------------------------------------------------------------
(* process_matches_filter.                                                 *)

Record == process_list[i]

\* Mutant: the bounds are compared as they are.
Unconverted(bound) == bound

\* The int that is compared with an unsigned long.
ULong(bound) == bound % (ULongMax + 1)

\* The condition on field g returns 0 for the value y.
Rejects(r, g, y) ==
  \/ g = "target_pid"   /\ Info[r].pid # y
  \/ g = "target_ppid"  /\ Info[r].ppid # y
  \/ g = "target_comm"  /\ Info[r].comm # y
  \/ g = "min_lifetime" /\ Info[r].lifetime < ULong(y)
  \/ g = "max_lifetime" /\ Info[r].lifetime > ULong(y)

\* The last field that a match of r reads: a running one has no lifetime.
LastField(r) == IF Info[r].running THEN 4 ELSE 6

\* process_matches_filter returns.
Judge(says) == verdict' = says /\ pc' = "judged" /\ f' = 1

\* The match goes on to the next field, or returns 1 after the last.
NextField ==
  IF f < LastField(Record)
  THEN f' = f + 1 /\ pc' = "test" /\ UNCHANGED verdict
  ELSE Judge(TRUE)

\* What each match should say, in the integers of the command line: a
\* negative minlife is above every lifetime, a negative maxlife no limit.
Wanted(r, config) ==
  \/ config["enabled"] = 0
  \/ /\ config["target_pid"]  \in {0, Info[r].pid}
     /\ config["target_ppid"] \in {0, Info[r].ppid}
     /\ config["target_comm"] \in {0, Info[r].comm}
     /\ \/ Info[r].running
        \/ /\ config["min_lifetime"] \in 0 .. Info[r].lifetime
           /\ config["max_lifetime"] > 0 => Info[r].lifetime <= config["max_lifetime"]

\* The first read of a field, which decides whether there is a condition.
Test ==
  /\ pc = "test"
  /\ LET y == filter[Field[f]] IN
       \/ Field[f] = "enabled" /\ y = 0
            /\ Judge(TRUE) /\ UNCHANGED x
       \/ (Field[f] = "enabled") # (y = 0) /\ NextField /\ UNCHANGED x
       \/ Field[f] # "enabled" /\ y # 0 /\ pc' = "compare" /\ x' = y /\ UNCHANGED <<f, verdict>>
  /\ UNCHANGED <<records, lock, filter, command, i, shown, history>>

\* The second one.  A torn name may be any.
Compare ==
  /\ pc = "compare"
  /\ \E y \in {x, filter[Field[f]]} :
       \/ (y = TORN \/ Rejects(Record, Field[f], y))
            /\ Judge(FALSE)
       \/ (y = TORN \/ ~Rejects(Record, Field[f], y)) /\ NextField
  /\ x' = 0
  /\ UNCHANGED <<records, lock, filter, command, i, shown, history>>

-----------------------------------------------------------------------------
(* processes_show.                                                         *)

ShowEnter ==
  /\ lock = "free" /\ pc = "idle"
  /\ lock' = "show"
  /\ pc' = "next" /\ i' = 1 /\ shown' = <<>>
  /\ steady' = (command = "none")
  /\ UNCHANGED <<records, filter, command, f, x, verdict, allowed, overlaps>>

\* The match of the next record begins.
ShowNext ==
  /\ pc = "next" /\ i <= Len(process_list) /\ Len(shown) < SHOWN_RECORDS
  /\ pc' = "test"
  /\ allowed' = IF command = "none" THEN {Wanted(Record, filter)} ELSE BOOLEAN
  /\ UNCHANGED <<records, lock, filter, command, i, f, x, shown, verdict, overlaps, steady>>

\* Mutant: a record that does not match ends the loop, as a break would.
ShowVerdictBreaking ==
  /\ pc = "judged"
  /\ shown' = IF verdict THEN Append(shown, Record) ELSE shown
  /\ i' = IF verdict THEN i + 1 ELSE Len(process_list) + 1
  /\ pc' = "next" /\ verdict' = TRUE
  /\ allowed' = {} /\ overlaps' = 0
  /\ UNCHANGED <<records, lock, filter, command, f, x, steady>>

ShowVerdict ==
  /\ pc = "judged"
  /\ shown' = IF verdict THEN Append(shown, Record) ELSE shown
  /\ i' = i + 1
  /\ pc' = "next" /\ verdict' = TRUE
  /\ allowed' = {} /\ overlaps' = 0
  /\ UNCHANGED <<records, lock, filter, command, f, x, steady>>

ShowDone == pc = "next" /\ (i > Len(process_list) \/ Len(shown) = SHOWN_RECORDS)

ShowReturn ==
  /\ ShowDone
  /\ lock' = "free"
  /\ pc' = "idle" /\ i' = 1 /\ shown' = <<>> /\ steady' = TRUE
  /\ UNCHANGED <<records, filter, command, f, x, verdict, allowed, overlaps>>

-----------------------------------------------------------------------------
(* filter_write.                                                           *)

Matching == pc \in {"test", "compare", "judged"}

\* A match that meets one command, which writes one word other than 0, may
\* follow the configuration before it or the one after it.
Notice(simple) ==
  /\ steady' = FALSE
  /\ overlaps' = IF Matching THEN 1 ELSE overlaps
  /\ allowed' = IF ~Matching THEN allowed
                ELSE IF simple /\ overlaps = 0 THEN allowed \cup {Wanted(Record, filter')}
                ELSE BOOLEAN

\* "enable", "disable", "pid", "ppid", "minlife" and "maxlife".
SetField(g, y) ==
  /\ command = "none"
  /\ g # "target_comm" /\ filter[g] # y
  /\ filter' = [filter EXCEPT ![g] = y]
  /\ Notice(g = "enabled" \/ y # 0)
  /\ UNCHANGED <<records, lock, command, show>>

\* "comm": strncpy, in the middle and at its end.
CommBegins ==
  /\ command = "none"
  /\ command' = "comm"
  /\ filter' = [filter EXCEPT !["target_comm"] = TORN]
  /\ Notice(FALSE)
  /\ UNCHANGED <<records, lock, show>>

CommEnds(y) ==
  /\ command = "comm"
  /\ command' = "none"
  /\ filter' = [filter EXCEPT !["target_comm"] = y]
  /\ Notice(FALSE)
  /\ UNCHANGED <<records, lock, show>>

\* "reset": memset clears the fields in any order.
Reset(g) ==
  /\ command \in {"none", "reset"} /\ filter[g] # 0
  /\ filter' = [filter EXCEPT ![g] = 0]
  /\ command' = IF \A h \in ToSet(Field) : filter'[h] = 0 THEN "none" ELSE "reset"
  /\ Notice(FALSE)
  /\ UNCHANGED <<records, lock, show>>

Add  == (\E r \in Rec : AddRecord(r)) \/ Descend \/ LinkNode
Show == ShowEnter \/ ShowNext \/ Test \/ Compare \/ ShowVerdict \/ ShowReturn
Command ==
  \/ \E g \in ToSet(Field) : Reset(g) \/ \E y \in Setting[g] : SetField(g, y)
  \/ CommBegins \/ \E y \in Setting["target_comm"] : CommEnds(y)

Next == Add \/ Show \/ Command

Spec == Init /\ [][Next]_vars

-----------------------------------------------------------------------------
(* Properties.                                                             *)

TypeOK ==
  /\ process_list \in Seq(Rec) /\ Len(process_list) <= MAX_PROCESS_RECORDS
  /\ process_tree \in Seq(Rec)
  /\ lock \in {"free", "add", "show"}
  /\ lo \in 1 .. Len(process_tree) + 1 /\ hi \in 0 .. Len(process_tree)
  /\ \A g \in ToSet(Field) : filter[g] \in Setting[g] \cup {0, TORN}
  /\ command \in {"none", "comm", "reset"}
  /\ pc \in {"idle", "next", "test", "compare", "judged"}
  /\ i \in 1 .. Len(process_list) + 1 /\ f \in 1 .. Len(Field)
  /\ shown \in Seq(Rec) /\ verdict \in BOOLEAN
  /\ allowed \subseteq BOOLEAN

\* A match (lines 120-144) that meets at most one command, and no torn name,
\* "0" or "reset", says what the configuration before or after the command
\* says, although it reads without config_mutex; a match that meets none says
\* what its configuration says in plain integers.
VerdictOfOneConfiguration == pc = "judged" => verdict \in allowed

\* How many of the first n records of the list match.
Matches(n) == Cardinality({k \in 1 .. n : Wanted(process_list[k], filter)})

\* A show that no command disturbs prints the first records that match, in
\* the order of the list, and no more than its limit (lines 308-329): as many
\* as match up to the limit, and the k-th that matches in the k-th place.
ShowsFirstMatches ==
  ShowDone /\ steady =>
    LET all == Matches(Len(process_list))
    IN /\ Len(shown) = IF all < SHOWN_RECORDS THEN all ELSE SHOWN_RECORDS
       /\ \A k \in DOMAIN process_list :
            Wanted(process_list[k], filter) /\ Matches(k) <= SHOWN_RECORDS
              => shown[Matches(k)] = process_list[k]

\* Between the sections the tree has the records of the list in the order of
\* their start times, and those of one time in the order of the list (lines
\* 95-113), whatever the order of their arrival, the evictions and the shape.
TreeSorted ==
  LET before(r, s) == \E a, b \in DOMAIN process_list :
                        a < b /\ process_list[a] = r /\ process_list[b] = s
  IN lock # "add" =>
       /\ Len(process_tree) = Len(process_list)
       /\ ToSet(process_tree) = ToSet(process_list)
       /\ \A j, k \in DOMAIN process_tree : j < k =>
            LET r == process_tree[j]
                s == process_tree[k]
            IN \/ Info[r].start_time < Info[s].start_time
               \/ Info[r].start_time = Info[s].start_time /\ before(r, s)

=============================================================================
