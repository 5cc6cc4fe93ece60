------------------------ MODULE WorkerThreadsProofs ------------------------
(***************************************************************************)
(* What is proved of WorkerThreads.tla: the safety properties of a session *)
(* in which one command follows the other, for any number of writers,      *)
(* threads and places for workers.                                         *)
(***************************************************************************)
EXTENDS WorkerThreads, FiniteSetTheorems, TLAPS

\* A thread that has not ended.
Live == {"running", "asked"}

\* No place holds anything.
AllNull == \A n \in Index : worker_threads[n] = NULL

\* A thread is in one place at most.
Distinct ==
  \A m, n \in Index :
    worker_threads[m] = worker_threads[n] /\ worker_threads[m] \in Thread => m = n

\* Whoever runs has a place.
LiveHeld ==
  \A t \in Thread : thread[t] \in Live => \E n \in Index : worker_threads[n] = t

\* What a place holds runs, but for the thread whose end a stop waits for.
HeldLive ==
  \A n \in Index : worker_threads[n] \in Thread =>
    \/ thread[worker_threads[n]] = "running"
    \/ /\ thread[worker_threads[n]] \in {"asked", "gone"}
       /\ \E c \in Caller : At(c, "stop_wait") /\ i[c] = n

\* An IS_ERR pointer stays for no longer than the test takes.
ErrorHeld ==
  \A n \in Index : worker_threads[n] = ERR =>
    \E c \in Caller : At(c, "start_test") /\ i[c] = n

\* A start fills the places from the first on, and finds them empty.
Starting(c) ==
  /\ At(c, "start_set")  => ~worker_running
  /\ At(c, "start_run")  =>
       /\ worker_running
       /\ \A n \in Index : n >= i[c] => worker_threads[n] = NULL
  /\ At(c, "start_test") =>
       /\ worker_running
       /\ i[c] \in Index
       /\ v[c] = worker_threads[i[c]]
       /\ \A n \in Index : n > i[c] => worker_threads[n] = NULL

\* A stop empties the places from the first on.
Stopping(c) ==
  /\ pc[c] \in {"stop_read", "stop_call", "stop_wait"} =>
       /\ worker_running
       /\ \A n \in Index : n < i[c] => worker_threads[n] = NULL
  /\ pc[c] \in {"stop_call", "stop_wait"} =>
       /\ i[c] \in Index
       /\ v[c] = worker_threads[i[c]]
       /\ v[c] \in Thread

\* Nothing is under way before the load has succeeded or after the unload, and
\* the unload is in stop_worker_threads in one of its phases only.  In the
\* later ones a writer may still start workers.
Phases ==
  /\ phase # "oops"
  /\ pc[Rmmod] \in {"idle", "stop_read", "stop_call", "stop_wait"}
  /\ ~At(Rmmod, "idle") => phase = "exit_stop"
  /\ phase \in {"loading", "failed", "unloaded"} => Busy = {}

\* What they need of each other: at most one command is under way, so that
\* what one caller has read of worker_threads is still there.
IInv ==
  /\ TypeOK
  /\ \A c, d \in Busy : c = d
  /\ Distinct
  /\ LiveHeld
  /\ HeldLive
  /\ ErrorHeld
  /\ \A c \in Caller : Starting(c) /\ Stopping(c)
  /\ ~worker_running => AllNull
  /\ Phases

LEMMA InitIInv == Init => IInv
<1> SUFFICES ASSUME Init PROVE IInv
  OBVIOUS
<1>1. Busy = {}
  BY DEF Init, Busy
<1>2. TypeOK
  <2>1. 0 \in 0 .. MAX_WORKERS
    BY WorkersAssumption
  <2> QED BY <2>1 DEF Init, TypeOK, Phase, Pointer, ThreadState, Place
<1>3. Distinct /\ LiveHeld /\ HeldLive /\ ErrorHeld /\ AllNull
  BY PointersAssumption
  DEF Init, Distinct, LiveHeld, Live, HeldLive, ErrorHeld, AllNull
<1>4. \A c \in Caller : Starting(c) /\ Stopping(c)
  BY DEF Init, Starting, Stopping, At
<1>5. Phases
  BY <1>1 DEF Init, Phases, Caller, At
<1> QED BY <1>1, <1>2, <1>3, <1>4, <1>5 DEF IInv

\* While a caller is in its function, every other one is idle, and the module
\* is loaded.
LEMMA BusyCaller ==
  ASSUME IInv, NEW c \in Caller, pc[c] # "idle"
  PROVE  /\ \A d \in Caller \ {c} : pc[d] = "idle"
         /\ phase \in {"live", "exit_stop", "exit_remove"}
<1>1. c \in Busy
  BY DEF Busy
<1> QED BY <1>1 DEF IInv, TypeOK, Busy, Phase, Phases

LEMMA StartSetIInv ==
  ASSUME IInv, Alone', NEW c \in Caller, StartSet(c)
  PROVE  IInv'
<1> USE DEF StartSet, Index, Pointer, ThreadState, Place, Phase, ThreadsIn,
        At, Goto, NextWorker, control, locals
<1>1. TypeOK
  BY DEF IInv
<1>2. /\ \A d \in Caller \ {c} : pc[d] = "idle"
      /\ phase \in {"live", "exit_stop", "exit_remove"}
  BY BusyCaller
<1>3. \A d \in Caller \ {c} : pc'[d] = "idle"
  BY <1>1, <1>2 DEF TypeOK
<1>4. /\ Distinct /\ LiveHeld /\ HeldLive /\ ErrorHeld
      /\ Starting(c) /\ Stopping(c)
      /\ ~worker_running => AllNull
      /\ Phases
  BY DEF IInv
<1>5. TypeOK'
  BY <1>1, <1>2, <1>3, <1>4, PointersAssumption, WorkersAssumption
  DEF TypeOK, Starting, Stopping
<1>6. Distinct'
  BY <1>1, <1>2, <1>3, <1>4, PointersAssumption, WorkersAssumption
  DEF TypeOK, Distinct, Starting, Stopping
<1>7. LiveHeld'
  BY <1>1, <1>2, <1>3, <1>4, PointersAssumption, WorkersAssumption
  DEF TypeOK, LiveHeld, Live, Starting, Stopping
<1>8. HeldLive'
  BY <1>1, <1>2, <1>3, <1>4, PointersAssumption, WorkersAssumption
  DEF TypeOK, HeldLive, Starting, Stopping
<1>9. ErrorHeld'
  BY <1>1, <1>2, <1>3, <1>4, PointersAssumption, WorkersAssumption
  DEF TypeOK, ErrorHeld, Starting, Stopping
<1>10. \A d \in Caller : Starting(d)' /\ Stopping(d)'
  <2> TAKE d \in Caller
  <2>1. CASE d = c
    BY <1>1, <1>4, <2>1 DEF TypeOK, Starting, Stopping, AllNull
  <2>2. CASE d # c
    BY <1>3, <2>2 DEF Starting, Stopping
  <2> QED BY <2>1, <2>2
<1>11. ~worker_running' => AllNull'
  BY <1>1, <1>2, <1>3, <1>4, PointersAssumption, WorkersAssumption
  DEF TypeOK, AllNull, Starting, Stopping
<1>12. Phases'
  BY <1>1, <1>2, <1>3, <1>4
  DEF TypeOK, Phases, Stopping, Starting, Busy, Caller, Alone
<1> QED BY <1>5, <1>6, <1>7, <1>8, <1>9, <1>10, <1>11, <1>12 DEF IInv, Alone

LEMMA StartRunIInv ==
  ASSUME IInv, Alone', NEW c \in Caller, StartRun(c)
  PROVE  IInv'
<1> USE DEF StartRun, Index, Pointer, ThreadState, Place, Phase, ThreadsIn,
        At, Goto, NextWorker, control, locals
<1>1. TypeOK
  BY DEF IInv
<1>2. /\ \A d \in Caller \ {c} : pc[d] = "idle"
      /\ phase \in {"live", "exit_stop", "exit_remove"}
  BY BusyCaller
<1>3. \A d \in Caller \ {c} : pc'[d] = "idle"
  BY <1>1, <1>2 DEF TypeOK
<1>4. /\ Distinct /\ LiveHeld /\ HeldLive /\ ErrorHeld
      /\ Starting(c) /\ Stopping(c)
      /\ ~worker_running => AllNull
      /\ Phases
  BY DEF IInv
<1>5. TypeOK'
  BY <1>1, <1>2, <1>3, <1>4, PointersAssumption, WorkersAssumption
  DEF TypeOK, Starting, Stopping
<1>6. Distinct'
  <2>1. PICK p \in ThreadsIn({"unborn"}) \cup {ERR} :
          worker_threads' = [worker_threads EXCEPT ![i[c]] = p]
    OBVIOUS
  <2>2. \A n \in Index : worker_threads[n] = p => p \notin Thread
    BY <1>2, <1>4, <2>1, PointersAssumption DEF HeldLive
  <2>3. \A n \in Index : worker_threads'[n] = IF n = i[c] THEN p ELSE worker_threads[n]
    BY <1>1, <2>1 DEF TypeOK
  <2> QED BY <1>4, <2>2, <2>3 DEF Distinct
<1>7. LiveHeld'
  BY <1>1, <1>2, <1>3, <1>4, PointersAssumption, WorkersAssumption
  DEF TypeOK, LiveHeld, Live, Starting, Stopping
<1>8. HeldLive'
  BY <1>1, <1>2, <1>3, <1>4, PointersAssumption, WorkersAssumption
  DEF TypeOK, HeldLive, Starting, Stopping
<1>9. ErrorHeld'
  BY <1>1, <1>2, <1>3, <1>4, PointersAssumption, WorkersAssumption
  DEF TypeOK, ErrorHeld, Starting, Stopping
<1>10. \A d \in Caller : Starting(d)' /\ Stopping(d)'
  BY <1>1, <1>2, <1>3, <1>4, PointersAssumption, WorkersAssumption
  DEF TypeOK, Starting, Stopping
<1>11. ~worker_running' => AllNull'
  BY <1>1, <1>2, <1>3, <1>4, PointersAssumption, WorkersAssumption
  DEF TypeOK, AllNull, Starting, Stopping
<1>12. Phases'
  BY <1>1, <1>2, <1>3, <1>4
  DEF TypeOK, Phases, Stopping, Starting, Busy, Caller, Alone
<1> QED BY <1>5, <1>6, <1>7, <1>8, <1>9, <1>10, <1>11, <1>12 DEF IInv, Alone

LEMMA StartTestIInv ==
  ASSUME IInv, Alone', NEW c \in Caller, StartTest(c)
  PROVE  IInv'
<1> USE DEF StartTest, Index, Pointer, ThreadState, Place, Phase, ThreadsIn,
        At, Goto, NextWorker, control, locals
<1>1. TypeOK
  BY DEF IInv
<1>2. /\ \A d \in Caller \ {c} : pc[d] = "idle"
      /\ phase \in {"live", "exit_stop", "exit_remove"}
  BY BusyCaller
<1>3. \A d \in Caller \ {c} : pc'[d] = "idle"
  BY <1>1, <1>2 DEF TypeOK
<1>4. /\ Distinct /\ LiveHeld /\ HeldLive /\ ErrorHeld
      /\ Starting(c) /\ Stopping(c)
      /\ ~worker_running => AllNull
      /\ Phases
  BY DEF IInv
<1>5. TypeOK'
  BY <1>1, <1>2, <1>3, <1>4, PointersAssumption, WorkersAssumption
  DEF TypeOK, Starting, Stopping
<1>6. Distinct'
  BY <1>1, <1>2, <1>3, <1>4, PointersAssumption, WorkersAssumption
  DEF TypeOK, Distinct, Starting, Stopping
<1>7. LiveHeld'
  BY <1>1, <1>2, <1>3, <1>4, PointersAssumption, WorkersAssumption
  DEF TypeOK, LiveHeld, Live, Starting, Stopping
<1>8. HeldLive'
  BY <1>1, <1>2, <1>3, <1>4, PointersAssumption, WorkersAssumption
  DEF TypeOK, HeldLive, Starting, Stopping
<1>9. ErrorHeld'
  BY <1>1, <1>2, <1>3, <1>4, PointersAssumption, WorkersAssumption
  DEF TypeOK, ErrorHeld, Starting, Stopping
<1>10. \A d \in Caller : Starting(d)' /\ Stopping(d)'
  BY <1>1, <1>2, <1>3, <1>4, PointersAssumption, WorkersAssumption
  DEF TypeOK, Starting, Stopping
<1>11. ~worker_running' => AllNull'
  BY <1>1, <1>2, <1>3, <1>4, PointersAssumption, WorkersAssumption
  DEF TypeOK, AllNull, Starting, Stopping
<1>12. Phases'
  BY <1>1, <1>2, <1>3, <1>4
  DEF TypeOK, Phases, Stopping, Starting, Busy, Caller, Alone
<1> QED BY <1>5, <1>6, <1>7, <1>8, <1>9, <1>10, <1>11, <1>12 DEF IInv, Alone

LEMMA StartReturnIInv ==
  ASSUME IInv, Alone', NEW c \in Caller, StartReturn(c)
  PROVE  IInv'
<1> USE DEF StartReturn, Index, Pointer, ThreadState, Place, Phase, ThreadsIn,
        At, Goto, NextWorker, control, locals
<1>1. TypeOK
  BY DEF IInv
<1>2. /\ \A d \in Caller \ {c} : pc[d] = "idle"
      /\ phase \in {"live", "exit_stop", "exit_remove"}
  BY BusyCaller
<1>3. \A d \in Caller \ {c} : pc'[d] = "idle"
  BY <1>1, <1>2 DEF TypeOK
<1>4. /\ Distinct /\ LiveHeld /\ HeldLive /\ ErrorHeld
      /\ Starting(c) /\ Stopping(c)
      /\ ~worker_running => AllNull
      /\ Phases
  BY DEF IInv
<1>5. TypeOK'
  BY <1>1, <1>2, <1>3, <1>4, PointersAssumption, WorkersAssumption
  DEF TypeOK, Starting, Stopping
<1>6. Distinct'
  BY <1>1, <1>2, <1>3, <1>4, PointersAssumption, WorkersAssumption
  DEF TypeOK, Distinct, Starting, Stopping
<1>7. LiveHeld'
  BY <1>1, <1>2, <1>3, <1>4, PointersAssumption, WorkersAssumption
  DEF TypeOK, LiveHeld, Live, Starting, Stopping
<1>8. HeldLive'
  BY <1>1, <1>2, <1>3, <1>4, PointersAssumption, WorkersAssumption
  DEF TypeOK, HeldLive, Starting, Stopping
<1>9. ErrorHeld'
  BY <1>1, <1>2, <1>3, <1>4, PointersAssumption, WorkersAssumption
  DEF TypeOK, ErrorHeld, Starting, Stopping
<1>10. \A d \in Caller : Starting(d)' /\ Stopping(d)'
  BY <1>1, <1>2, <1>3, <1>4, PointersAssumption, WorkersAssumption
  DEF TypeOK, Starting, Stopping
<1>11. ~worker_running' => AllNull'
  BY <1>1, <1>2, <1>3, <1>4, PointersAssumption, WorkersAssumption
  DEF TypeOK, AllNull, Starting, Stopping
<1>12. Phases'
  BY <1>1, <1>2, <1>3, <1>4
  DEF TypeOK, Phases, Stopping, Starting, Busy, Caller, Alone
<1> QED BY <1>5, <1>6, <1>7, <1>8, <1>9, <1>10, <1>11, <1>12 DEF IInv, Alone

LEMMA StopReadIInv ==
  ASSUME IInv, Alone', NEW c \in Caller, StopRead(c)
  PROVE  IInv'
<1> USE DEF StopRead, Index, Pointer, ThreadState, Place, Phase, ThreadsIn,
        At, Goto, NextWorker, control, locals
<1>1. TypeOK
  BY DEF IInv
<1>2. /\ \A d \in Caller \ {c} : pc[d] = "idle"
      /\ phase \in {"live", "exit_stop", "exit_remove"}
  BY BusyCaller
<1>3. \A d \in Caller \ {c} : pc'[d] = "idle"
  BY <1>1, <1>2 DEF TypeOK
<1>4. /\ Distinct /\ LiveHeld /\ HeldLive /\ ErrorHeld
      /\ Starting(c) /\ Stopping(c)
      /\ ~worker_running => AllNull
      /\ Phases
  BY DEF IInv
<1>5. TypeOK'
  <2>1. i[c] \in Index /\ worker_threads[i[c]] \in Pointer
    BY <1>1, WorkersAssumption DEF TypeOK
  <2>2. v' \in [Caller -> Pointer]
    BY <1>1, <2>1 DEF TypeOK
  <2>3. CASE worker_threads[i[c]] = NULL
    BY <1>1, <2>1, <2>2, <2>3, WorkersAssumption DEF TypeOK
  <2>4. CASE worker_threads[i[c]] # NULL
    BY <1>1, <2>2, <2>4 DEF TypeOK
  <2> QED BY <2>3, <2>4
<1>6. Distinct'
  BY <1>1, <1>2, <1>3, <1>4, PointersAssumption, WorkersAssumption
  DEF TypeOK, Distinct, Starting, Stopping
<1>7. LiveHeld'
  BY <1>1, <1>2, <1>3, <1>4, PointersAssumption, WorkersAssumption
  DEF TypeOK, LiveHeld, Live, Starting, Stopping
<1>8. HeldLive'
  BY <1>1, <1>2, <1>3, <1>4, PointersAssumption, WorkersAssumption
  DEF TypeOK, HeldLive, Starting, Stopping
<1>9. ErrorHeld'
  BY <1>1, <1>2, <1>3, <1>4, PointersAssumption, WorkersAssumption
  DEF TypeOK, ErrorHeld, Starting, Stopping
<1>10. \A d \in Caller : Starting(d)' /\ Stopping(d)'
  <2>1. Starting(c)'
    BY <1>1 DEF TypeOK, Starting
  <2>2. CASE worker_threads[i[c]] = NULL
    BY <1>1, <1>3, <1>4, <2>1, <2>2, WorkersAssumption DEF TypeOK, Starting, Stopping
  <2>3. CASE worker_threads[i[c]] # NULL
    <3>1. i[c] \in Index
      BY <1>1, WorkersAssumption DEF TypeOK
    <3>2. worker_threads[i[c]] \in Thread
      BY <1>1, <1>2, <1>4, <2>3, <3>1 DEF TypeOK, ErrorHeld
    <3>3. Stopping(c)'
      BY <1>1, <1>4, <2>3, <3>1, <3>2 DEF TypeOK, Stopping
    <3>4. ASSUME NEW d \in Caller, d # c
          PROVE  Starting(d)' /\ Stopping(d)'
      BY <1>3, <3>4 DEF Starting, Stopping
    <3> QED BY <2>1, <3>3, <3>4 DEF Starting, Stopping
  <2> QED BY <2>2, <2>3
<1>11. ~worker_running' => AllNull'
  BY <1>1, <1>2, <1>3, <1>4, PointersAssumption, WorkersAssumption
  DEF TypeOK, AllNull, Starting, Stopping
<1>12. Phases'
  BY <1>1, <1>2, <1>3, <1>4
  DEF TypeOK, Phases, Stopping, Starting, Busy, Caller, Alone
<1> QED BY <1>5, <1>6, <1>7, <1>8, <1>9, <1>10, <1>11, <1>12 DEF IInv, Alone

LEMMA StopCallIInv ==
  ASSUME IInv, Alone', NEW c \in Caller, StopCall(c)
  PROVE  IInv'
<1> USE DEF StopCall, Index, Pointer, ThreadState, Place, Phase, ThreadsIn,
        At, Goto, NextWorker, control, locals
<1>1. TypeOK
  BY DEF IInv
<1>2. /\ \A d \in Caller \ {c} : pc[d] = "idle"
      /\ phase \in {"live", "exit_stop", "exit_remove"}
  BY BusyCaller
<1>3. \A d \in Caller \ {c} : pc'[d] = "idle"
  BY <1>1, <1>2 DEF TypeOK
<1>4. /\ Distinct /\ LiveHeld /\ HeldLive /\ ErrorHeld
      /\ Starting(c) /\ Stopping(c)
      /\ ~worker_running => AllNull
      /\ Phases
  BY DEF IInv
<1>5. TypeOK'
  <2>1. /\ v[c] = worker_threads[i[c]] /\ v[c] \in Thread /\ i[c] \in Index
        /\ thread[v[c]] = "running"
    <3>1. v[c] = worker_threads[i[c]] /\ v[c] \in Thread /\ i[c] \in Index
      BY <1>4 DEF Stopping
    <3> QED BY <1>2, <1>4, <3>1 DEF HeldLive
  <2>2. /\ thread' = [thread EXCEPT ![v[c]] = "asked"] /\ v' = v
        /\ pc' = [pc EXCEPT ![c] = "stop_wait"]
        /\ UNCHANGED <<phase, worker_running, worker_threads, i>>
    BY <1>1, <2>1 DEF TypeOK
  <2> QED BY <1>1, <2>2 DEF TypeOK
<1>6. Distinct'
  BY <1>1, <1>2, <1>3, <1>4, PointersAssumption, WorkersAssumption
  DEF TypeOK, Distinct, Starting, Stopping
<1>7. LiveHeld'
  BY <1>1, <1>2, <1>3, <1>4, PointersAssumption, WorkersAssumption
  DEF TypeOK, LiveHeld, Live, Starting, Stopping
<1>8. HeldLive'
  <2>1. \A n \in Index :
          worker_threads[n] \in Thread => thread[worker_threads[n]] = "running"
    BY <1>2, <1>4 DEF HeldLive
  <2>2. /\ v[c] = worker_threads[i[c]] /\ v[c] \in Thread /\ i[c] \in Index
        /\ pc' = [pc EXCEPT ![c] = "stop_wait"] /\ i' = i
        /\ worker_threads' = worker_threads
        /\ thread' = [thread EXCEPT ![v[c]] = "asked"]
    BY <1>1, <1>4, <2>1 DEF Stopping
  <2>3. \A n \in Index :
          worker_threads[n] \in Thread /\ n # i[c] => worker_threads[n] # v[c]
    BY <1>4, <2>2 DEF Distinct
  <2>4. At(c, "stop_wait")'
    BY <1>1, <2>2 DEF TypeOK
  <2> QED BY <1>1, <2>1, <2>2, <2>3, <2>4 DEF TypeOK, HeldLive
<1>9. ErrorHeld'
  BY <1>1, <1>2, <1>3, <1>4, PointersAssumption, WorkersAssumption
  DEF TypeOK, ErrorHeld, Starting, Stopping
<1>10. \A d \in Caller : Starting(d)' /\ Stopping(d)'
  <2>1. ASSUME NEW d \in Caller, d # c PROVE Starting(d)' /\ Stopping(d)'
    BY <1>3, <2>1 DEF Starting, Stopping
  <2>2. /\ v'[c] = worker_threads[i[c]] /\ v'[c] \in Thread /\ i[c] \in Index
        /\ UNCHANGED <<worker_running, worker_threads, i>>
        /\ pc'[c] \in {"stop_call", "stop_wait"}
    BY <1>1, <1>4 DEF TypeOK, Stopping
  <2>3. worker_running /\ \A n \in Index : n < i[c] => worker_threads[n] = NULL
    BY <1>4 DEF Stopping
  <2>4. Starting(c)' /\ Stopping(c)'
    BY <2>2, <2>3 DEF Starting, Stopping
  <2> QED BY <2>1, <2>4
<1>11. ~worker_running' => AllNull'
  BY <1>1, <1>2, <1>3, <1>4, PointersAssumption, WorkersAssumption
  DEF TypeOK, AllNull, Starting, Stopping
<1>12. Phases'
  <2>1. v[c] = worker_threads[i[c]] /\ v[c] \in Thread /\ i[c] \in Index
    BY <1>4 DEF Stopping
  <2>2. thread[v[c]] = "running"
    BY <1>2, <1>4, <2>1 DEF HeldLive
  <2>3. phase' = phase /\ pc' = [pc EXCEPT ![c] = "stop_wait"]
    BY <2>1, <2>2
  <2> QED BY <1>1, <1>2, <1>3, <1>4, <2>3 DEF TypeOK, Phases, Busy, Caller, Alone
<1> QED BY <1>5, <1>6, <1>7, <1>8, <1>9, <1>10, <1>11, <1>12 DEF IInv, Alone

LEMMA StopWaitIInv ==
  ASSUME IInv, Alone', NEW c \in Caller, StopWait(c)
  PROVE  IInv'
<1> USE DEF StopWait, Index, Pointer, ThreadState, Place, Phase, ThreadsIn,
        At, Goto, NextWorker, control, locals
<1>1. TypeOK
  BY DEF IInv
<1>2. /\ \A d \in Caller \ {c} : pc[d] = "idle"
      /\ phase \in {"live", "exit_stop", "exit_remove"}
  BY BusyCaller
<1>3. \A d \in Caller \ {c} : pc'[d] = "idle"
  BY <1>1, <1>2 DEF TypeOK
<1>4. /\ Distinct /\ LiveHeld /\ HeldLive /\ ErrorHeld
      /\ Starting(c) /\ Stopping(c)
      /\ ~worker_running => AllNull
      /\ Phases
  BY DEF IInv
<1>5. TypeOK'
  BY <1>1, <1>2, <1>3, <1>4, PointersAssumption, WorkersAssumption
  DEF TypeOK, Starting, Stopping
<1>6. Distinct'
  BY <1>1, <1>2, <1>3, <1>4, PointersAssumption, WorkersAssumption
  DEF TypeOK, Distinct, Starting, Stopping
<1>7. LiveHeld'
  BY <1>1, <1>2, <1>3, <1>4, PointersAssumption, WorkersAssumption
  DEF TypeOK, LiveHeld, Live, Starting, Stopping
<1>8. HeldLive'
  BY <1>1, <1>2, <1>3, <1>4, PointersAssumption, WorkersAssumption
  DEF TypeOK, HeldLive, Starting, Stopping
<1>9. ErrorHeld'
  BY <1>1, <1>2, <1>3, <1>4, PointersAssumption, WorkersAssumption
  DEF TypeOK, ErrorHeld, Starting, Stopping
<1>10. \A d \in Caller : Starting(d)' /\ Stopping(d)'
  BY <1>1, <1>2, <1>3, <1>4, PointersAssumption, WorkersAssumption
  DEF TypeOK, Starting, Stopping
<1>11. ~worker_running' => AllNull'
  BY <1>1, <1>2, <1>3, <1>4, PointersAssumption, WorkersAssumption
  DEF TypeOK, AllNull, Starting, Stopping
<1>12. Phases'
  BY <1>1, <1>2, <1>3, <1>4
  DEF TypeOK, Phases, Stopping, Starting, Busy, Caller, Alone
<1> QED BY <1>5, <1>6, <1>7, <1>8, <1>9, <1>10, <1>11, <1>12 DEF IInv, Alone

LEMMA StopReturnIInv ==
  ASSUME IInv, Alone', NEW c \in Caller, StopReturn(c)
  PROVE  IInv'
<1> USE DEF StopReturn, Index, Pointer, ThreadState, Place, Phase, ThreadsIn,
        At, Goto, NextWorker, control, locals
<1>1. TypeOK
  BY DEF IInv
<1>2. /\ \A d \in Caller \ {c} : pc[d] = "idle"
      /\ phase \in {"live", "exit_stop", "exit_remove"}
  BY BusyCaller
<1>3. \A d \in Caller \ {c} : pc'[d] = "idle"
  BY <1>1, <1>2 DEF TypeOK
<1>4. /\ Distinct /\ LiveHeld /\ HeldLive /\ ErrorHeld
      /\ Starting(c) /\ Stopping(c)
      /\ ~worker_running => AllNull
      /\ Phases
  BY DEF IInv
<1>5. TypeOK'
  BY <1>1, <1>2, <1>3, <1>4, PointersAssumption, WorkersAssumption
  DEF TypeOK, Starting, Stopping
<1>6. Distinct'
  BY <1>1, <1>2, <1>3, <1>4, PointersAssumption, WorkersAssumption
  DEF TypeOK, Distinct, Starting, Stopping
<1>7. LiveHeld'
  BY <1>1, <1>2, <1>3, <1>4, PointersAssumption, WorkersAssumption
  DEF TypeOK, LiveHeld, Live, Starting, Stopping
<1>8. HeldLive'
  BY <1>1, <1>2, <1>3, <1>4, PointersAssumption, WorkersAssumption
  DEF TypeOK, HeldLive, Starting, Stopping
<1>9. ErrorHeld'
  BY <1>1, <1>2, <1>3, <1>4, PointersAssumption, WorkersAssumption
  DEF TypeOK, ErrorHeld, Starting, Stopping
<1>10. \A d \in Caller : Starting(d)' /\ Stopping(d)'
  BY <1>1, <1>2, <1>3, <1>4, PointersAssumption, WorkersAssumption
  DEF TypeOK, Starting, Stopping
<1>11. ~worker_running' => AllNull'
  BY <1>1, <1>2, <1>3, <1>4, PointersAssumption, WorkersAssumption
  DEF TypeOK, AllNull, Starting, Stopping
<1>12. Phases'
  BY <1>1, <1>2, <1>3, <1>4
  DEF TypeOK, Phases, Stopping, Starting, Busy, Caller, Alone
<1> QED BY <1>5, <1>6, <1>7, <1>8, <1>9, <1>10, <1>11, <1>12 DEF IInv, Alone

\* A call begins when no caller is busy.
LEMMA StartCheckIInv ==
  ASSUME IInv, Alone', NEW c \in Writer, StartCheck(c)
  PROVE  IInv'
<1> USE DEF StartCheck, At, Goto, control
<1>1. TypeOK /\ Phases /\ c \in Caller /\ c # Rmmod
  BY CallersAssumption DEF IInv, Caller
<1>2. pc' = [pc EXCEPT ![c] = "start_set"] /\ pc'[c] = "start_set"
  BY <1>1 DEF TypeOK
<1>3. c \in Busy'
  BY <1>1, <1>2 DEF Busy
<1>4. \A d \in Caller : d # c => pc'[d] = "idle" /\ pc[d] = "idle"
  BY <1>1, <1>2, <1>3 DEF TypeOK, Alone, Busy
<1>5. TypeOK'
  BY <1>1 DEF TypeOK, Place
<1>6. /\ Distinct' /\ LiveHeld'
      /\ ~worker_running' => AllNull'
  BY DEF IInv, Distinct, LiveHeld, AllNull
<1>7. HeldLive' /\ ErrorHeld'
  BY <1>4 DEF IInv, HeldLive, ErrorHeld
<1>8. ASSUME NEW d \in Caller
      PROVE  Starting(d)' /\ Stopping(d)'
  BY <1>2, <1>4 DEF Starting, Stopping
<1>9. Phases'
  BY <1>1, <1>4 DEF Phases, Caller, At
<1> QED BY <1>5, <1>6, <1>7, <1>8, <1>9 DEF IInv, Alone

LEMMA StopEnterIInv ==
  ASSUME IInv, Alone', NEW c \in Caller, StopEnter(c),
         phase \in {"live", "exit_stop"},
         \/ phase' = phase /\ c \in Writer
         \/ phase = "live" /\ phase' = "exit_stop" /\ c = Rmmod
  PROVE  IInv'
<1> USE DEF StopEnter, At, Goto, control
<1>1. TypeOK /\ Phases
  BY DEF IInv
<1>2. pc' = [pc EXCEPT ![c] = IF worker_running THEN "stop_read" ELSE "idle"]
  BY DEF StopEnter
<1>3. i'[c] = 0 /\ i' \in [Caller -> 0 .. MAX_WORKERS]
  BY <1>1, WorkersAssumption DEF TypeOK
<1>4. TypeOK'
  BY <1>1, <1>2, <1>3 DEF TypeOK, Place, Phase
<1>5. /\ Distinct' /\ LiveHeld'
      /\ ~worker_running' => AllNull'
  BY DEF IInv, Distinct, LiveHeld, AllNull
<1>6. \A d \in Caller : d # c => pc'[d] = pc[d] /\ i'[d] = i[d] /\ v'[d] = v[d]
  BY <1>1, <1>2 DEF TypeOK
<1>7. HeldLive' /\ ErrorHeld'
  BY <1>6 DEF IInv, HeldLive, ErrorHeld
<1>8. ASSUME NEW d \in Caller
      PROVE  Starting(d)' /\ Stopping(d)'
  <2>1. CASE d = c
    BY <1>1, <1>2, <1>3, <2>1 DEF TypeOK, Starting, Stopping, Index
  <2>2. CASE d # c
    BY <1>6, <2>2 DEF IInv, Starting, Stopping
  <2> QED BY <2>1, <2>2
<1>9. Phases'
  <2>1. CASE c \in Writer /\ phase' = phase
    BY <1>1, <1>2, <2>1, CallersAssumption
    DEF TypeOK, Phases, Caller, Alone, Busy
  <2>2. CASE c = Rmmod /\ phase' = "exit_stop"
    BY <1>1, <1>2, <2>2 DEF TypeOK, Phases, Alone, Caller
  <2> QED BY <2>1, <2>2
<1> QED BY <1>4, <1>5, <1>7, <1>8, <1>9 DEF IInv, Alone

LEMMA WorkerReturnIInv ==
  ASSUME IInv, NEW t \in Thread, WorkerReturn(t)
  PROVE  IInv'
<1> USE DEF WorkerReturn, At, control, locals
<1>1. TypeOK
  BY DEF IInv
<1>2. TypeOK'
  BY <1>1 DEF TypeOK, ThreadState
<1>3. /\ Distinct' /\ ErrorHeld' /\ Phases'
      /\ ~worker_running' => AllNull'
      /\ \A c, d \in Busy' : c = d
  BY DEF IInv, Distinct, ErrorHeld, Phases, AllNull, Busy
<1>4. LiveHeld'
  BY <1>1 DEF IInv, TypeOK, LiveHeld, Live
<1>5. HeldLive'
  BY <1>1 DEF IInv, TypeOK, HeldLive
<1>6. ASSUME NEW c \in Caller
      PROVE  Starting(c)' /\ Stopping(c)'
  BY DEF IInv, Starting, Stopping
<1> QED BY <1>2, <1>3, <1>4, <1>5, <1>6 DEF IInv

\* Load, ExitRemove and ExitReturn only move the phase on.
LEMMA PhaseStepIInv ==
  ASSUME IInv, Load \/ ExitRemove \/ ExitReturn
  PROVE  IInv'
<1> USE DEF Load, ExitRemove, ExitReturn, At, control, locals
<1>1. TypeOK' /\ Phases'
  BY DEF IInv, TypeOK, Phase, Phases, Busy
<1>2. /\ Distinct' /\ LiveHeld' /\ HeldLive' /\ ErrorHeld'
      /\ ~worker_running' => AllNull'
      /\ \A c, d \in Busy' : c = d
  BY DEF IInv, Distinct, LiveHeld, HeldLive, ErrorHeld, AllNull, Busy
<1>3. ASSUME NEW c \in Caller
      PROVE  Starting(c)' /\ Stopping(c)'
  BY DEF IInv, Starting, Stopping
<1> QED BY <1>1, <1>2, <1>3 DEF IInv

LEMMA StutterIInv == ASSUME IInv, UNCHANGED vars PROVE IInv'
<1> USE DEF vars, control, locals, At
<1>1. TypeOK' /\ Phases'
  BY DEF IInv, TypeOK, Phases, Busy
<1>2. /\ Distinct' /\ LiveHeld' /\ HeldLive' /\ ErrorHeld'
      /\ ~worker_running' => AllNull'
      /\ \A c, d \in Busy' : c = d
  BY DEF IInv, Distinct, LiveHeld, HeldLive, ErrorHeld, AllNull, Busy
<1>3. ASSUME NEW c \in Caller
      PROVE  Starting(c)' /\ Stopping(c)'
  BY DEF IInv, Starting, Stopping
<1> QED BY <1>1, <1>2, <1>3 DEF IInv

LEMMA NextIInv == IInv /\ [SessionNext]_vars => IInv'
<1> SUFFICES ASSUME IInv, [SessionNext]_vars PROVE IInv'
  OBVIOUS
<1>1. CASE UNCHANGED vars
  BY <1>1, StutterIInv
<1>2. CASE SessionNext
  <2>1. Alone'
    BY <1>2 DEF SessionNext
  <2>2. ASSUME NEW c \in Writer, StartCheck(c) PROVE IInv'
    BY <2>1, <2>2, StartCheckIInv
  <2>3. ASSUME NEW c \in Writer, StopCheck(c) PROVE IInv'
    BY <2>1, <2>3, StopEnterIInv DEF StopCheck, Caller
  <2>4. ASSUME NEW c \in Caller, Call(c) PROVE IInv'
    BY <2>1, <2>4, StartSetIInv, StartRunIInv, StartTestIInv, StartReturnIInv,
       StopReadIInv, StopCallIInv, StopWaitIInv, StopReturnIInv
    DEF Call, Start, Stop
  <2>5. ASSUME NEW t \in Thread, WorkerReturn(t) PROVE IInv'
    BY <2>5, WorkerReturnIInv
  <2>6. CASE Load \/ ExitRemove \/ ExitReturn
    BY <2>6, PhaseStepIInv
  <2>7. CASE ExitStop
    BY <2>1, <2>7, StopEnterIInv DEF ExitStop, Caller
  <2>8. CASE Gone
    BY <2>8, StutterIInv DEF Gone
  <2> QED BY <1>2, <2>2, <2>3, <2>4, <2>5, <2>6, <2>7, <2>8 DEF SessionNext, Next
<1> QED BY <1>1, <1>2

LEMMA AlwaysIInv == SessionSpec => []IInv
BY InitIInv, NextIInv, PTL DEF SessionSpec

-----------------------------------------------------------------------------

\* Every variable has its type, in a session of one command after the other.
THEOREM TypeCorrect == SessionSpec => []TypeOK
<1>1. IInv => TypeOK
  BY DEF IInv
<1> QED BY <1>1, AlwaysIInv, PTL

\* Every thread that has not ended is in one place of worker_threads, where
\* stop_worker_threads finds it.
THEOREM WorkersAlwaysReachable == SessionSpec => []WorkersReachable
<1>1. IInv => WorkersReachable
  <2> SUFFICES ASSUME IInv, NEW t \in ThreadsIn({"running", "asked"})
               PROVE  Cardinality(Slots(t)) = 1
    BY DEF WorkersReachable
  <2>1. PICK n \in Index : worker_threads[n] = t
    BY DEF IInv, LiveHeld, Live, ThreadsIn
  <2>2. Slots(t) = {n}
    BY <2>1 DEF IInv, Distinct, Slots, ThreadsIn
  <2> QED BY <2>2, FS_Singleton
<1> QED BY <1>1, AlwaysIInv, PTL

\* While no command is under way, worker_running says whether there is a
\* worker, and a stop that returns at once leaves none behind.
THEOREM StoppedAlwaysMeansNone == SessionSpec => []StoppedMeansNone
<1>1. IInv => StoppedMeansNone
  BY PointersAssumption
  DEF IInv, AllNull, LiveHeld, Live, ThreadsIn, StoppedMeansNone, Slots
<1> QED BY <1>1, AlwaysIInv, PTL

\* kthread_stop is never given what is no thread.
THEOREM AlwaysStopsOnlyThreads == SessionSpec => []StopsOnlyThreads
<1>1. IInv => StopsOnlyThreads
  BY DEF IInv, Phases, StopsOnlyThreads
<1> QED BY <1>1, AlwaysIInv, PTL

=============================================================================
