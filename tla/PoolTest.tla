-------------------------------- MODULE PoolTest --------------------------------
(***************************************************************************)
(* The thread pool's test (main_threadpool.cpp): the main thread starts a  *)
(* pool, hands it tasks through a bounded queue, the last of which counts  *)
(* a latch down, waits for the latch and stops the pool.                   *)
(*                                                                         *)
(* The main thread is Main in start, wait and stop and Adder in run; it is *)
(* never in two of them.  The latch is a local of the function, destroyed  *)
(* when stop has returned.                                                 *)
(***************************************************************************)
EXTENDS ThreadPool

CONSTANTS Adder, LatchTask

ASSUME PoolTestAssumption == /\ Producers = {Adder}
                             /\ LatchTask \in Tasks
                             /\ Workers # {}

VARIABLES count, at, latchOwner, latchHolder, latchPc

Latch == INSTANCE CountDownLatch WITH Waiters <- {Main}, Counters <- Workers,
                                      Count <- 1, Nobody <- NoThread

latchVars == <<count, at, latchOwner, latchHolder, latchPc>>

testVars == <<vars, latchVars>>

TestInit == Init /\ Latch!Init

\* The next call of run; the latch is counted down by the last task.
Add == \E t \in Tasks : /\ t = LatchTask => unused = {LatchTask}
                        /\ Call(Adder, t)

Adding == /\ Add \/ Lock(Adder) \/ TestFull(Adder) \/ PushTask(Adder)
          /\ UNCHANGED latchVars

\* latch.wait() follows the last call of run.
AwaitLatch == /\ unused = {} /\ pc[Adder] = "idle"
              /\ Latch!Enter(Main)
              /\ UNCHANGED vars

\* pool.stop() follows latch.wait().
StopPool == /\ at[Main] = "after"
            /\ CallStop
            /\ UNCHANGED latchVars

\* A worker that runs the last task calls countDown.
CallCountDown(w) == /\ pc[w] = "run" /\ held[w] = LatchTask
                    /\ Latch!Enter(w)
                    /\ UNCHANGED vars

RunsOn(w) == /\ pc[w] = "run" /\ held[w] = LatchTask => at[w] = "after"
             /\ WorkerStep(w)
             /\ UNCHANGED latchVars

MainRuns == \/ MainStep /\ UNCHANGED latchVars
            \/ Adding
            \/ AwaitLatch
            \/ Latch!Inside(Main) /\ UNCHANGED vars
            \/ StopPool

WorkerRuns(w) == \/ RunsOn(w)
                 \/ CallCountDown(w)
                 \/ Latch!Inside(w) /\ UNCHANGED vars

Spuriously == \/ /\ \E t \in Workers \cup Producers : SpuriousWakeup(t)
                 /\ UNCHANGED latchVars
              \/ Spurious /\ Latch!Awaken(Main) /\ UNCHANGED vars

TestNext == MainRuns \/ Spuriously \/ \E w \in Workers : WorkerRuns(w)

\* Waits return without a cause now and then, not for ever: else a thread could
\* find the latch's mutex taken each time it looks.
TestSpec == /\ TestInit /\ [][TestNext]_testVars
            /\ <>[][~Spuriously]_testVars
            /\ WF_testVars(MainRuns)
            /\ \A w \in Workers : WF_testVars(WorkerRuns(w))

---------------------------------------------------------------------------------
\* stop drops what is queued, and yet every task has run when it returns
\* (main_threadpool.cpp:39): wait returns after countDown only, whatever
\* woke it up (count_down_latch.cpp:14), the last task of a first-in first-out
\* queue calls it, and join waits for the tasks still running.
AllRun == pc[Main] = "stopped" => done = Tasks

\* When the latch is destroyed no worker is in countDown any more
\* (main_threadpool.cpp:36), although wait returns before countDown does.
LatchLeft == pc[Main] = "stopped" =>
               /\ latchOwner = NoThread
               /\ \A w \in Workers : at[w] \in {"before", "after"}

\* What holder_ of the latch's mutex says is right whenever it is read, also by
\* threads that do not have the mutex (mutex.h:25): see Monitor.
LockAsserts == Latch!Mutex!LockAsserts

\* The test ends: no wakeup is lost between pool, latch and join.
TestEnds == <>(pc[Main] = "stopped")

---------------------------------------------------------------------------------
\* What makes the invariants above inductive (see PoolTestProofs).

\* A thread uses the latch's mutex only in a call of the latch.
LatchOut == \A t \in Latch!Callers : at[t] \in {"before", "after"} => latchPc[t] = "out"

\* Main calls run for each task, then latch.wait() and then stop, which returns
\* when the workers have left; a worker is in countDown only while it runs the
\* last task.
InOrder ==
  /\ at \in [Latch!Callers -> {"before", "called", "leaving", "after"}]
  /\ at[Main] # "before" => unused = {} /\ pc[Adder] = "idle"
  /\ pc[Main] \in {"lock", "stop", "join", "stopped", "abort"} => at[Main] = "after"
  /\ pc[Main] = "stopped" => \A w \in Workers : pc[w] = "exit"
  /\ \A w \in Workers : at[w] \in {"called", "leaving"} => pc[w] = "run" /\ held[w] = LatchTask

\* Once the last task is submitted nothing follows it, and once it is taken
\* nothing is left in front of it either.  The count says that much.
LastInQueue ==
  /\ LatchTask \notin unused => unused = {}
  /\ \A i \in Queued(LatchTask) : i = Len(queue) /\ arg[Adder] = NoTask
  /\ Taken(LatchTask) # {} \/ LatchTask \in done => queue = <<>> /\ arg[Adder] = NoTask

Counted ==
  /\ count \in Int
  /\ count <= 0 => Taken(LatchTask) # {} \/ LatchTask \in done
  /\ at[Main] \in {"leaving", "after"} => count <= 0

TestInv == /\ PoolInv /\ Whereabouts /\ Latch!Mutex!MonitorInv
           /\ LatchOut /\ InOrder /\ LastInQueue /\ Counted
=================================================================================
