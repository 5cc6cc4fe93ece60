--------------------------- MODULE WorkerThreads ---------------------------
(***************************************************************************)
(* experiments/04_concurrency_control.c: the life of its worker threads.   *)
(* A write of "start" or "stop" runs start_worker_threads or               *)
(* stop_worker_threads in the writer, and the unloading of the module runs *)
(* stop_worker_threads once more.  No lock guards worker_running and       *)
(* worker_threads, so that every read and every write of one of them is a  *)
(* step of its own, and a value that the source reads twice is either the  *)
(* one read first or a new one, as the compiler likes.                     *)
(*                                                                         *)
(* What a worker does to the data list while it runs does not matter here. *)
(***************************************************************************)
EXTENDS Integers, FiniteSets

CONSTANTS
  Writer,         \* the processes that write to /proc/concurrency_demo
  Rmmod,          \* the process that unloads the module
  Thread,         \* the threads that kthread_run can create
  NULL, ERR,      \* the null pointer and an IS_ERR pointer
  MAX_WORKERS

ASSUME CallersAssumption  == Rmmod \notin Writer
ASSUME PointersAssumption == NULL # ERR /\ NULL \notin Thread /\ ERR \notin Thread
ASSUME WorkersAssumption  == MAX_WORKERS \in Nat \ {0}

VARIABLES
  phase,            \* how far the module is loaded or unloaded
  worker_running,
  worker_threads,
  thread,           \* what became of each thread
  pc,               \* where each caller of start or stop is
  i,                \* its loop counter
  v                 \* the pointer it has read or written last

control == <<worker_running, worker_threads>>
locals  == <<pc, i, v>>
vars    == <<phase, control, thread, locals>>

Caller  == Writer \cup {Rmmod}
Index   == 0 .. MAX_WORKERS - 1
Pointer == Thread \cup {NULL, ERR}

Phase == {"loading", "failed", "live",
          "exit_stop",      \* the exit function is in stop_worker_threads
          "exit_remove",    \* proc_remove waits for the writers
          "unloaded",
          "oops"}           \* kthread_stop got what is no thread

\* A thread that has been told to stop is "asked" until its function returns.
ThreadState == {"unborn", "running", "asked", "gone"}

Place == {"idle", "start_set", "start_run", "start_test",
          "stop_read", "stop_call", "stop_wait"}

Init ==
  /\ phase = "loading"
  /\ worker_running = FALSE
  /\ worker_threads = [n \in Index |-> NULL]
  /\ thread = [t \in Thread |-> "unborn"]
  /\ pc = [c \in Caller |-> "idle"]
  /\ i = [c \in Caller |-> 0]
  /\ v = [c \in Caller |-> NULL]

ThreadsIn(states) == {t \in Thread : thread[t] \in states}

Busy == {c \in Caller : pc[c] # "idle"}

At(c, place) == pc[c] = place

Goto(c, place) == pc' = [pc EXCEPT ![c] = place]

\* On to the next iteration, or out of the loop after the last one.
NextWorker(c) == i' = [i EXCEPT ![c] = @ + 1]

-----------------------------------------------------------------------------
(* start_worker_threads.                                                   *)

\* Mutant: the early return is forgotten.
StartUnchecked(c) ==
  /\ phase \in {"live", "exit_stop"}
  /\ At(c, "idle")
  /\ Goto(c, "start_set")
  /\ UNCHANGED <<phase, control, thread, i, v>>

StartCheck(c) ==
  /\ phase \in {"live", "exit_stop"}
  /\ At(c, "idle")
  /\ ~worker_running
  /\ Goto(c, "start_set")
  /\ UNCHANGED <<phase, control, thread, i, v>>

StartSet(c) ==
  /\ At(c, "start_set")
  /\ worker_running' = TRUE
  /\ i' = [i EXCEPT ![c] = 0]
  /\ Goto(c, "start_run")
  /\ UNCHANGED <<phase, worker_threads, thread, v>>

\* kthread_run, which fails or makes a thread and wakes it.
StartRun(c) ==
  /\ At(c, "start_run")
  /\ i[c] < MAX_WORKERS
  /\ \E p \in ThreadsIn({"unborn"}) \cup {ERR} :
       /\ worker_threads' = [worker_threads EXCEPT ![i[c]] = p]
       /\ v' = [v EXCEPT ![c] = p]
       /\ thread' = [t \in Thread |-> IF t = p THEN "running" ELSE thread[t]]
  /\ Goto(c, "start_test")
  /\ UNCHANGED <<phase, worker_running, i>>

\* Mutant: an IS_ERR pointer stays where it is.
StartTestKeepsError(c) ==
  /\ At(c, "start_test")
  /\ NextWorker(c)
  /\ Goto(c, "start_run")
  /\ UNCHANGED <<phase, control, thread, v>>

\* IS_ERR of the pointer, and NULL in its place.
StartTest(c) ==
  /\ At(c, "start_test")
  /\ \E p \in {v[c], worker_threads[i[c]]} :
       worker_threads' =
         [worker_threads EXCEPT ![i[c]] = IF p = ERR THEN NULL ELSE @]
  /\ NextWorker(c)
  /\ Goto(c, "start_run")
  /\ UNCHANGED <<phase, worker_running, thread, v>>

StartReturn(c) ==
  /\ At(c, "start_run")
  /\ i[c] = MAX_WORKERS
  /\ Goto(c, "idle")
  /\ UNCHANGED <<phase, control, thread, i, v>>

-----------------------------------------------------------------------------
(* stop_worker_threads.                                                    *)

\* The check, and the way into the loop or straight back.
StopEnter(c) ==
  /\ At(c, "idle")
  /\ Goto(c, IF worker_running THEN "stop_read" ELSE "idle")
  /\ i' = [i EXCEPT ![c] = 0]
  /\ UNCHANGED <<control, thread, v>>

StopCheck(c) ==
  /\ phase \in {"live", "exit_stop"}
  /\ StopEnter(c)
  /\ UNCHANGED phase

StopRead(c) ==
  /\ At(c, "stop_read")
  /\ i[c] < MAX_WORKERS
  /\ v' = [v EXCEPT ![c] = worker_threads[i[c]]]
  /\ IF worker_threads[i[c]] = NULL
       THEN NextWorker(c) /\ UNCHANGED pc
       ELSE Goto(c, "stop_call") /\ UNCHANGED i
  /\ UNCHANGED <<phase, control, thread>>

\* Mutant: kthread_stop does not set the flag that the thread looks at.
StopCallSilent(c) ==
  /\ At(c, "stop_call")
  /\ \E p \in {v[c], worker_threads[i[c]]} :
       /\ p \in ThreadsIn({"running", "asked"})
       /\ v' = [v EXCEPT ![c] = p]
       /\ Goto(c, "stop_wait")
  /\ UNCHANGED <<phase, control, thread, i>>

\* kthread_stop: of a thread it waits for the end; of anything else it reads
\* memory that is not a thread's, or not any more.
StopCall(c) ==
  /\ At(c, "stop_call")
  /\ \E p \in {v[c], worker_threads[i[c]]} :
       IF p \in ThreadsIn({"running", "asked"})
         THEN /\ thread' = [thread EXCEPT ![p] = "asked"]
              /\ v' = [v EXCEPT ![c] = p]
              /\ Goto(c, "stop_wait")
              /\ UNCHANGED phase
         ELSE phase' = "oops" /\ UNCHANGED <<thread, pc, v>>
  /\ UNCHANGED <<control, i>>

\* Mutant: the body of the loop goes on to the next worker as well.
StopWaitSkipping(c) ==
  /\ At(c, "stop_wait")
  /\ thread[v[c]] = "gone"
  /\ worker_threads' = [worker_threads EXCEPT ![i[c]] = NULL]
  /\ i' = [i EXCEPT ![c] = @ + 2]
  /\ Goto(c, "stop_read")
  /\ UNCHANGED <<phase, worker_running, thread, v>>

StopWait(c) ==
  /\ At(c, "stop_wait")
  /\ thread[v[c]] = "gone"
  /\ worker_threads' = [worker_threads EXCEPT ![i[c]] = NULL]
  /\ NextWorker(c)
  /\ Goto(c, "stop_read")
  /\ UNCHANGED <<phase, worker_running, thread, v>>

\* Mutant: the loop leaves the last worker out.
StopReturnEarly(c) ==
  /\ At(c, "stop_read")
  /\ i[c] >= MAX_WORKERS - 1
  /\ worker_running' = FALSE
  /\ Goto(c, "idle")
  /\ UNCHANGED <<phase, worker_threads, thread, i, v>>

StopReturn(c) ==
  /\ At(c, "stop_read")
  /\ i[c] = MAX_WORKERS
  /\ worker_running' = FALSE
  /\ Goto(c, "idle")
  /\ UNCHANGED <<phase, worker_threads, thread, i, v>>

-----------------------------------------------------------------------------
(* The threads, and the module.                                            *)

\* worker_thread_func sees kthread_should_stop and returns.
WorkerReturn(t) ==
  /\ thread[t] = "asked"
  /\ thread' = [thread EXCEPT ![t] = "gone"]
  /\ UNCHANGED <<phase, control, locals>>

Load ==
  /\ phase = "loading"
  /\ phase' \in {"live", "failed"}
  /\ UNCHANGED <<control, thread, locals>>

ExitStop ==
  /\ phase = "live"
  /\ phase' = "exit_stop"
  /\ StopEnter(Rmmod)

\* proc_remove lets no new writer in, and waits for those that are in.
ExitRemove ==
  /\ phase = "exit_stop"
  /\ At(Rmmod, "idle")
  /\ phase' = "exit_remove"
  /\ UNCHANGED <<control, thread, locals>>

ExitReturn ==
  /\ phase = "exit_remove"
  /\ Busy = {}
  /\ phase' = "unloaded"
  /\ UNCHANGED <<control, thread, locals>>

\* Nothing more can happen that concerns the module.
Gone == phase \in {"failed", "unloaded", "oops"} /\ UNCHANGED vars

Start(c) == StartSet(c) \/ StartRun(c) \/ StartTest(c) \/ StartReturn(c)
Stop(c)  == StopRead(c) \/ StopCall(c) \/ StopWait(c) \/ StopReturn(c)

Call(c) == phase # "oops" /\ (Start(c) \/ Stop(c))

Next == \/ \E c \in Writer : StartCheck(c) \/ StopCheck(c)
        \/ \E c \in Caller : Call(c)
        \/ \E t \in Thread : WorkerReturn(t)
        \/ Load
        \/ ExitStop \/ ExitRemove \/ ExitReturn
        \/ Gone

Spec == Init /\ [][Next]_vars

\* The tests and simple_run_04.sh give one command after the other, each through
\* a process that ends when its write has.  The stop of the unload is one of
\* them, and nothing keeps a command from coming after it (lines 403-404).
Alone == \A c, d \in Busy : c = d

SessionNext == Next /\ Alone'

SessionSpec == Init /\ [][SessionNext]_vars

\* A caller that has begun is a system call that runs to its end, and a worker
\* looks at kthread_should_stop again and again, between sleeps of a bounded
\* time.  Nothing makes a user write or unload.
FairSession == /\ SessionSpec
               /\ \A c \in Caller : WF_vars(Call(c))
               /\ \A t \in Thread : WF_vars(WorkerReturn(t))

-----------------------------------------------------------------------------
(* Properties.                                                             *)

TypeOK ==
  /\ phase \in Phase
  /\ worker_running \in BOOLEAN
  /\ worker_threads \in [Index -> Pointer]
  /\ thread \in [Thread -> ThreadState]
  /\ pc \in [Caller -> Place]
  /\ i \in [Caller -> 0 .. MAX_WORKERS]
  /\ v \in [Caller -> Pointer]

Slots(p) == {n \in Index : worker_threads[n] = p}

\* Whoever runs can be stopped: every thread that has not ended is in one
\* place of worker_threads, and only there (lines 225, 246-248).
WorkersReachable ==
  \A t \in ThreadsIn({"running", "asked"}) : Cardinality(Slots(t)) = 1

\* Between two commands, worker_running tells the truth: FALSE, as after
\* "Stopped all worker threads" (line 253), means that no thread is left and
\* that no place holds a pointer a later stop would take for one (lines
\* 217-222, 240-252).
StoppedMeansNone ==
  Busy = {} /\ ~worker_running =>
    /\ ThreadsIn({"running", "asked"}) = {}
    /\ Slots(NULL) = Index

\* kthread_stop is only ever given a thread that has not ended (line 247).
StopsOnlyThreads == phase # "oops"

\* A stop that has begun ends, wherever the workers are in their loops when
\* it begins (lines 245-252).
StopEnds == \A c \in Caller : At(c, "stop_read") ~> At(c, "idle")

\* "Stopped all worker threads" (line 253), then "Module unloaded
\* successfully" (line 407): no worker runs the code of an unloaded module.
\* A "start" between lines 403 and 404 breaks it.
NoWorkerOutlivesModule ==
  phase = "unloaded" => ThreadsIn({"running", "asked"}) = {}

=============================================================================
