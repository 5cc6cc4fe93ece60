---------------------------- MODULE MonitorStats ----------------------------
(***************************************************************************)
(* The arithmetic both monitors do on their struct monitor_stats, whose    *)
(* members are unsigned long.  process_monitor.c keeps the first four      *)
(* members, 05_complete_monitor.c eight; total_cpu_time is left out, for   *)
(* what is added to it, record->cpu_time, is never set to anything but 0.  *)
(* Both programs only touch the statistics under process_lock, so each     *)
(* operator below is one step of the caller's critical section.            *)
(***************************************************************************)
EXTENDS Integers

CONSTANT ULongMax                    \* the largest unsigned long

ASSUME ULongMaxAssumption == ULongMax \in Nat \ {0}

ULong == 0 .. ULongMax

\* What an unsigned long keeps of a sum or a product.
Wrap(n) == n % (ULongMax + 1)

\* x++ and x-- of an unsigned long.
Incr(n) == IF n = ULongMax THEN 0 ELSE n + 1
Decr(n) == IF n = 0 THEN ULongMax ELSE n - 1

\* a - b of unsigned longs.
Minus(a, b) == IF a >= b THEN a - b ELSE a - b + ULongMax + 1

-----------------------------------------------------------------------------

CountStats == [total_processes_created : ULong,
               total_processes_exited  : ULong,
               current_processes       : ULong,
               peak_processes          : ULong]

FullStats == [total_processes_created : ULong,
              total_processes_exited  : ULong,
              current_processes       : ULong,
              peak_processes          : ULong,
              avg_lifetime            : ULong,
              longest_lifetime        : ULong,
              shortest_lifetime       : ULong]

ZeroCountStats == [total_processes_created |-> 0,
                   total_processes_exited  |-> 0,
                   current_processes       |-> 0,
                   peak_processes          |-> 0]

ZeroFullStats == [total_processes_created |-> 0,
                  total_processes_exited  |-> 0,
                  current_processes       |-> 0,
                  peak_processes          |-> 0,
                  avg_lifetime            |-> 0,
                  longest_lifetime        |-> 0,
                  shortest_lifetime       |-> 0]

\* A record was inserted: the last lines of add_process_record.
CountCreate(s) ==
  LET current == Incr(s.current_processes)
  IN  [s EXCEPT !.total_processes_created = Incr(@),
                !.current_processes       = current,
                !.peak_processes          = IF current > @ THEN current ELSE @]

\* A RUNNING record became EXITED: the counters of mark_process_exit.
CountExit(s) ==
  [s EXCEPT !.total_processes_exited = Incr(@),
            !.current_processes      = Decr(@)]

\* Mutant: the old average is weighted with the new number of exits.
NextAverageOffByOne(avg, n, lifetime) == Wrap(Wrap(avg * n) + lifetime) \div n

\* The running average after the n-th lifetime, in integer division.
NextAverage(avg, n, lifetime) == Wrap(Wrap(avg * (n - 1)) + lifetime) \div n

\* The lifetime statistics of mark_process_exit in 05_complete_monitor.c; s
\* already counts the exit.  The counter is 0 here only when it has wrapped.
NoteLifetime(s, lifetime) ==
  LET n     == s.total_processes_exited
      first == n = 1
  IN  [s EXCEPT
        !.longest_lifetime  = IF first \/ lifetime > @ THEN lifetime ELSE @,
        !.shortest_lifetime = IF first \/ lifetime < @ THEN lifetime ELSE @,
        !.avg_lifetime      = IF n > 0 THEN NextAverage(@, n, lifetime) ELSE @]

=============================================================================
