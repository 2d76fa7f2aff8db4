----------------------------- MODULE PoolTestProofs -----------------------------
(***************************************************************************)
(* What the test of the thread pool relies on, for any number of workers   *)
(* and tasks and any queue size.  Its steps are steps of ThreadPool and of *)
(* CountDownLatch, and those of the latch are steps of Monitor on its      *)
(* mutex; what ThreadPoolProofs and MonitorProofs say of them is used      *)
(* here.                                                                   *)
(*                                                                         *)
(* stop does not wait for the queue to be empty, so that every task has    *)
(* run rests on the order of the queue: when latch.wait() returns the last *)
(* task has been taken (Counted), and so nothing is queued (LastInQueue);  *)
(* what else has been taken has returned when the workers are joined.      *)
(***************************************************************************)
EXTENDS PoolTest, ThreadPoolProofs

MP == INSTANCE MonitorProofs WITH Threads <- Latch!Callers, None <- NoThread,
                                  owner <- latchOwner, holder <- latchHolder, pc <- latchPc

\* The main thread waits for the latch, workers count it down.
LEMMA Cast ==
  /\ Latch!Callers = Workers \cup {Main} /\ NoThread \notin Latch!Callers
  /\ Main \notin Workers /\ Adder \notin Workers /\ Main # Adder
  /\ Main \in Threads /\ Adder \in Threads /\ Workers \subseteq Threads
  /\ Producers = {Adder} /\ LatchTask \in Tasks /\ NoTask \notin Tasks
  BY ThreadPoolAssumption, PoolTestAssumption DEF Latch!Callers, Threads

\* The steps of the latch's mutex keep the invariant of Monitor.
LEMMA MutexKept ==
  ASSUME Latch!Mutex!MonitorInv, [Latch!Mutex!Next]_(Latch!mutexVars)
  PROVE  Latch!Mutex!MonitorInv'
<1>1. MP!MonitorInv
  BY DEF Latch!Mutex!MonitorInv, MP!MonitorInv, Latch!Mutex!TypeOK, MP!TypeOK,
         Latch!Mutex!OwnerInv, MP!OwnerInv, Latch!Mutex!Labels, MP!Labels
<1>2. [MP!Next]_(MP!vars)
  BY DEF Latch!mutexVars, MP!vars, Latch!Mutex!Next, MP!Next, Latch!Mutex!Step, MP!Step,
     Latch!Mutex!PthreadLock, MP!PthreadLock, Latch!Mutex!AssignHolder, MP!AssignHolder,
     Latch!Mutex!UnassignHolder, MP!UnassignHolder,
     Latch!Mutex!PthreadUnlock, MP!PthreadUnlock, Latch!Mutex!GuardUnassigns, MP!GuardUnassigns,
     Latch!Mutex!CondWait, MP!CondWait, Latch!Mutex!Notify, MP!Notify, Latch!Mutex!NotifyAll,
     MP!NotifyAll, Latch!Mutex!WakeUp, MP!WakeUp, Latch!Mutex!Reacquire, MP!Reacquire,
     Latch!Mutex!GuardAssigns, MP!GuardAssigns
<1>3. MP!MonitorInv'
  BY <1>1, <1>2, Cast, MP!MonitorInvInductive
<1> QED
  BY <1>3 DEF Latch!Mutex!MonitorInv, MP!MonitorInv, Latch!Mutex!TypeOK, MP!TypeOK,
         Latch!Mutex!OwnerInv, MP!OwnerInv, Latch!Mutex!Labels, MP!Labels

---------------------------------------------------------------------------------
\* Steps of the latch, with the pool at rest.
LEMMA PoolRests ==
  ASSUME PoolInv, Whereabouts, UNCHANGED vars
  PROVE  PoolInv' /\ Whereabouts'
  BY NextPoolInv, NextWhereabouts

LEMMA InsideInv ==
  ASSUME TestInv, NEW t \in Latch!Callers, Latch!Inside(t), UNCHANGED vars
  PROVE  TestInv'
<1> USE DEF TestInv
<1>1. PoolInv' /\ Whereabouts'
  BY PoolRests
<1>2. [Latch!Mutex!Next]_(Latch!mutexVars)
  BY DEF Latch!Inside, Latch!Lock, Latch!Test, Latch!Sleep, Latch!CountDown, Latch!Unlock,
         Latch!Leave, Latch!Mutex!Next, Latch!mutexVars
<1>3. Latch!Mutex!MonitorInv'
  BY <1>2, MutexKept
<1>4. /\ latchPc \in [Latch!Callers -> Latch!Mutex!Labels] /\ at[t] \in {"called", "leaving"}
      /\ at \in [Latch!Callers -> {"before", "called", "leaving", "after"}]
  BY DEF Latch!Inside, Latch!Lock, Latch!Test, Latch!Sleep, Latch!CountDown, Latch!Unlock,
         Latch!Leave, LatchOut, InOrder, Latch!Mutex!MonitorInv, Latch!Mutex!TypeOK,
         Latch!Mutex!Reacquire, Latch!Mutex!GuardAssigns, Latch!Mutex!CondWait,
         Latch!Mutex!Step
<1>5. \/ at' = at
      \/ at[t] = "called" /\ at' = [at EXCEPT ![t] = "leaving"]
      \/ at[t] = "leaving" /\ latchPc[t] = "out" /\ latchPc' = latchPc
         /\ at' = [at EXCEPT ![t] = "after"]
  BY DEF Latch!Inside, Latch!Lock, Latch!Test, Latch!Sleep, Latch!CountDown, Latch!Unlock,
         Latch!Leave, Latch!mutexVars
<1>6. \A u \in Latch!Callers \ {t} : latchPc[u] = "out" => latchPc'[u] = "out"
  BY <1>4 DEF Latch!Inside, Latch!Lock, Latch!Test, Latch!Sleep, Latch!CountDown, Latch!Unlock,
         Latch!Leave, Latch!mutexVars, Latch!Mutex!Step, Latch!Mutex!PthreadLock,
         Latch!Mutex!AssignHolder, Latch!Mutex!UnassignHolder, Latch!Mutex!PthreadUnlock,
         Latch!Mutex!GuardUnassigns, Latch!Mutex!CondWait, Latch!Mutex!NotifyAll,
         Latch!Mutex!Reacquire, Latch!Mutex!GuardAssigns
<1>7. LatchOut'
  BY <1>4, <1>5, <1>6 DEF LatchOut
<1>8. InOrder'
  BY <1>4, <1>5, Cast DEF InOrder, vars
<1>9. LastInQueue'
  BY DEF LastInQueue, vars, Queued, Taken
<1>10. Counted'
  <2>1. CASE count' = count
    <3>1. t = Main /\ at'[Main] \in {"leaving", "after"} /\ at[Main] = "called" => count <= 0
      BY <2>1, <1>4, Cast DEF Latch!Inside, Latch!Lock, Latch!Test, Latch!Sleep, Latch!CountDown,
         Latch!Unlock, Latch!Leave
    <3> QED BY <2>1, <3>1, <1>4, <1>5, Cast DEF Counted, vars, Taken
  <2>2. CASE t \in Workers /\ at[t] = "called" /\ count' = count - 1
    <3>1. held[t] = LatchTask
      BY <2>2 DEF InOrder
    <3>2. Taken(LatchTask)' # {}
      BY <2>2, <3>1 DEF Taken, vars
    <3>3. count' \in Int /\ (count <= 0 => count' <= 0)
      BY <2>2 DEF Counted
    <3> QED BY <2>2, <3>2, <3>3, <1>4, <1>5, Cast DEF Counted
  <2> QED BY <2>1, <2>2 DEF Latch!Inside, Latch!Lock, Latch!Test, Latch!Sleep,
         Latch!CountDown, Latch!Unlock, Latch!Leave
<1> QED BY <1>1, <1>3, <1>7, <1>8, <1>9, <1>10

LEMMA EnterInv ==
  ASSUME TestInv, NEW t \in Latch!Callers, Latch!Enter(t), UNCHANGED vars,
         t = Main => unused = {} /\ pc[Adder] = "idle",
         t \in Workers => pc[t] = "run" /\ held[t] = LatchTask
  PROVE  TestInv'
<1> USE DEF TestInv, Latch!Enter
<1>1. PoolInv' /\ Whereabouts'
  BY PoolRests
<1>2. Latch!Mutex!MonitorInv'
  BY MutexKept
<1>3. LatchOut'
  BY DEF LatchOut, InOrder, Latch!mutexVars
<1>4. InOrder'
  BY Cast DEF InOrder, vars
<1>5. LastInQueue'
  BY DEF LastInQueue, vars, Queued, Taken
<1>6. Counted'
  BY Cast DEF Counted, vars, Taken, InOrder
<1> QED BY <1>1, <1>2, <1>3, <1>4, <1>5, <1>6

LEMMA AwakenInv ==
  ASSUME TestInv, Latch!Awaken(Main), UNCHANGED vars
  PROVE  TestInv'
<1> USE DEF TestInv, Latch!Awaken
<1>1. PoolInv' /\ Whereabouts'
  BY PoolRests
<1>2. [Latch!Mutex!Next]_(Latch!mutexVars)
  BY Cast DEF Latch!Mutex!Next
<1>3. Latch!Mutex!MonitorInv'
  BY <1>2, MutexKept
<1>4. LatchOut'
  BY Cast DEF LatchOut, Latch!Mutex!WakeUp, Latch!Mutex!Step, Latch!Mutex!MonitorInv,
              Latch!Mutex!TypeOK
<1>5. InOrder'
  BY DEF InOrder, vars
<1>6. LastInQueue' /\ Counted'
  BY DEF LastInQueue, Counted, vars, Queued, Taken
<1> QED BY <1>1, <1>3, <1>4, <1>5, <1>6

---------------------------------------------------------------------------------
\* Steps of the pool, with the latch at rest.
LEMMA LatchRests ==
  ASSUME TestInv, [Next]_vars, UNCHANGED latchVars, InOrder', LastInQueue', Counted'
  PROVE  TestInv'
<1> USE DEF TestInv
<1>1. PoolInv' /\ Whereabouts'
  BY NextPoolInv, NextWhereabouts
<1>2. Latch!Mutex!MonitorInv'
  BY MutexKept DEF latchVars, Latch!mutexVars
<1>3. LatchOut'
  BY DEF LatchOut, latchVars
<1> QED BY <1>1, <1>2, <1>3

\* A step that moves no task and takes nobody into or out of what InOrder is
\* about.
LEMMA QuietStep ==
  ASSUME TestInv, [Next]_vars, UNCHANGED latchVars,
         UNCHANGED <<arg, queue, held, unused, done>>,
         pc[Adder] = "idle" => pc'[Adder] = "idle",
         \A w \in Workers : pc[w] \in {"run", "exit"} => pc'[w] = pc[w],
         pc'[Main] = pc[Main]
  PROVE  TestInv'
<1>1. InOrder'
  BY DEF TestInv, InOrder, latchVars
<1>2. LastInQueue' /\ Counted'
  BY DEF TestInv, LastInQueue, Counted, latchVars, Queued, Taken
<1> QED BY <1>1, <1>2, LatchRests

LEMMA MainStepInv ==
  ASSUME TestInv, MainStep \/ (at[Main] = "after" /\ CallStop), UNCHANGED latchVars
  PROVE  TestInv'
<1> USE DEF TestInv
<1>1. [Next]_vars /\ UNCHANGED <<arg, queue, held, unused, done>>
  BY DEF Next, MainStep, CallStop, Start, StartThread, StartReturns, Lock, Stop,
         JoinReturns, JoinAborts
<1>2. /\ pc'[Adder] = pc[Adder]
      /\ \A w \in Workers : pc[w] \in {"run", "exit"} => pc'[w] = pc[w]
      /\ pc'[Main] \in {"lock", "stop", "join", "stopped", "abort"} =>
           at[Main] = "after" \/ pc[Main] \in {"lock", "stop", "join", "stopped", "abort"}
      /\ pc'[Main] = "stopped" => pc[Main] = "stopped" \/ \A w \in Workers : pc[w] = "exit"
  BY Cast DEF MainStep, CallStop, Start, StartThread, StartReturns, Lock, Stop, JoinReturns,
              JoinAborts, GoTo, Waiting, PoolInv, TypeOK
<1>3. InOrder'
  BY <1>1, <1>2 DEF InOrder, latchVars
<1>4. LastInQueue' /\ Counted'
  BY <1>1 DEF LastInQueue, Counted, latchVars, Queued, Taken
<1> QED BY <1>1, <1>3, <1>4, LatchRests

\* Until the last task is handed over Main is not in the latch.
LEMMA StillAdding ==
  ASSUME TestInv, at[Main] = "before", UNCHANGED <<held, at>>, pc'[Main] = pc[Main],
         \A w \in Workers : pc[w] = "run" => pc'[w] = "run"
  PROVE  InOrder'
<1>1. InOrder
  BY DEF TestInv
<1>2. pc'[Main] \notin {"lock", "stop", "join", "stopped", "abort"} /\ at'[Main] = "before"
  BY <1>1 DEF InOrder
<1>3. \A w \in Workers : at'[w] \in {"called", "leaving"} => pc'[w] = "run" /\ held'[w] = LatchTask
  BY <1>1 DEF InOrder
<1>4. at' \in [Latch!Callers -> {"before", "called", "leaving", "after"}]
  BY <1>1 DEF InOrder
<1> QED BY <1>2, <1>3, <1>4 DEF InOrder, Latch!Callers

\* The last task is handed over last.
LEMMA AddInv ==
  ASSUME TestInv, Add, UNCHANGED latchVars
  PROVE  TestInv'
<1> USE DEF TestInv
<1>1. PICK t \in Tasks : (t = LatchTask => unused = {LatchTask}) /\ Call(Adder, t)
  BY DEF Add
<1>2. [Next]_vars
  BY <1>1, Cast DEF Next, ProducerStep
<1>3. at[Main] = "before" /\ t \in unused /\ unused' = unused \ {t}
  BY <1>1 DEF InOrder, Call
<1>4. \A u \in Threads \ {Adder} : pc'[u] = pc[u]
  BY <1>1 DEF Call, GoTo, PoolInv, TypeOK
<1>5. InOrder'
  <2>1. held' = held /\ at' = at
    BY <1>1 DEF Call, latchVars
  <2>2. pc'[Main] = pc[Main] /\ \A w \in Workers : pc'[w] = pc[w]
    BY <1>4, Cast
  <2> QED BY <1>3, <2>1, <2>2, StillAdding
<1>6. LastInQueue'
  <2>1. LatchTask \in unused
    BY <1>3 DEF LastInQueue
  <2>2. Queued(LatchTask) = {} /\ Taken(LatchTask) = {} /\ LatchTask \notin done
    BY <2>1, Cast DEF Whereabouts, InOnePlace, Some
  <2>3. Queued(LatchTask)' = {} /\ Taken(LatchTask)' = {} /\ LatchTask \notin done'
    BY <1>1, <2>2 DEF Call, Queued, Taken
  <2>4. LatchTask \notin unused' => unused' = {}
    BY <1>1, <1>3, <2>1
  <2> QED BY <2>3, <2>4 DEF LastInQueue
<1>7. Counted'
  BY <1>1 DEF Counted, Call, latchVars, Taken
<1> QED BY <1>2, <1>5, <1>6, <1>7, LatchRests

\* A task that is pushed is not behind the last one.
LEMMA PushInv ==
  ASSUME TestInv, PushTask(Adder), UNCHANGED latchVars
  PROVE  TestInv'
<1> USE DEF TestInv, PushTask
<1>1. [Next]_vars
  BY Cast DEF Next, ProducerStep
<1>2. PICK t \in Tasks : t = arg[Adder]
  BY Cast DEF PoolInv, TaskInv
<1>3. at[Main] = "before"
  BY DEF InOrder
<1>4. Moves(Adder, "idle")
  BY Cast, NotifyMoves DEF Labels, ProducerLabels, PoolInv
<1>5. InOrder'
  <2>1. pc'[Main] = pc[Main]
    BY <1>4, Cast DEF Moves, PoolInv, TypeOK, MainLabels
  <2>2. \A w \in Workers : pc[w] = "run" => pc'[w] = "run"
    BY <1>4, Cast DEF Moves
  <2>3. held' = held /\ at' = at
    BY DEF latchVars
  <2> QED BY <1>3, <2>1, <2>2, <2>3, StillAdding
<1>6. Queued(LatchTask) = {} /\ Taken(LatchTask) = {} /\ LatchTask \notin done
  BY <1>2, Cast DEF LastInQueue
<1>7. Taken(LatchTask)' = {} /\ LatchTask \notin done'
  BY <1>6 DEF Taken
<1>8. arg'[Adder] = NoTask
  BY Cast DEF PoolInv, TypeOK
<1>9. \A i \in Queued(LatchTask)' : i = Len(queue')
  <2>1. /\ Len(queue') = Len(queue) + 1 /\ Len(queue) \in Nat
        /\ DOMAIN queue = 1 .. Len(queue) /\ DOMAIN queue' = 1 .. Len(queue) + 1
        /\ \A i \in 1 .. Len(queue) : queue'[i] = queue[i]
    BY <1>2 DEF PoolInv, TypeOK
  <2> QED BY <1>6, <2>1 DEF Queued
<1>10. LastInQueue'
  BY <1>7, <1>8, <1>9 DEF LastInQueue
<1>11. Counted'
  BY DEF Counted, latchVars, Taken
<1> QED BY <1>1, <1>5, <1>10, <1>11, LatchRests

\* The last task is taken last.
LEMMA PopInv ==
  ASSUME TestInv, NEW w \in Workers, PopTask(w), UNCHANGED latchVars
  PROVE  TestInv'
<1> USE DEF TestInv, PopTask
<1>1. [Next]_vars
  BY DEF Next, WorkerStep
<1>2. PICK t \in Tasks : t = Head(queue)
  BY DEF PoolInv, TypeOK
<1>4. /\ Moves(w, "run")
      /\ held'[w] = t /\ \A v \in Workers \ {w} : held'[v] = held[v]
  BY <1>2, Cast, NotifyMoves, GoToMoves DEF Labels, WorkerLabels, PoolInv, TypeOK
<1>5. InOrder'
  <2>1. \A u \in Threads \ {w} : pc[u] \notin {"wait"} => pc'[u] = pc[u]
    BY <1>4 DEF Moves
  <2>2. \A v \in Workers : at[v] \in {"called", "leaving"} =>
          v # w /\ pc'[v] = "run" /\ held'[v] = LatchTask
    BY <1>4, <2>1, Cast DEF InOrder
  <2>3. pc'[Main] = pc[Main]
    <3>1. pc[Main] # "wait"
      BY DEF PoolInv, TypeOK, MainLabels
    <3> QED BY <2>1, <3>1, Cast
  <2>4. pc[Main] # "stopped"
    BY DEF InOrder
  <2>5. pc[Adder] = "idle" => pc'[Adder] = "idle"
    BY <2>1, Cast
  <2> QED BY <2>2, <2>3, <2>4, <2>5 DEF InOrder, latchVars
<1>6. Taken(LatchTask) = {} /\ LatchTask \notin done
  BY DEF LastInQueue
<1>7. /\ Len(queue) \in Nat \ {0} /\ queue[1] = t /\ Len(queue') = Len(queue) - 1
      /\ DOMAIN queue = 1 .. Len(queue) /\ DOMAIN queue' = 1 .. Len(queue) - 1
      /\ \A i \in 1 .. Len(queue) - 1 : queue'[i] = queue[i + 1]
      /\ Len(queue) = 1 => queue' = <<>>
  BY <1>2 DEF PoolInv, TypeOK
<1>8. LastInQueue'
  <2>1. ASSUME NEW i \in Queued(LatchTask)' PROVE i = Len(queue') /\ arg'[Adder] = NoTask
    <3>1. i + 1 \in Queued(LatchTask) /\ i \in Nat
      BY <1>7 DEF Queued
    <3>2. i + 1 = Len(queue) /\ arg[Adder] = NoTask
      BY <3>1 DEF LastInQueue
    <3>3. i = Len(queue')
      <4>1. PICK n \in Nat : n = Len(queue) /\ Len(queue') = n - 1
        BY <1>7
      <4> QED BY <3>1, <3>2, <4>1
    <3> QED BY <3>2, <3>3
  <2>2. ASSUME Taken(LatchTask)' # {} \/ LatchTask \in done'
        PROVE  queue' = <<>> /\ arg'[Adder] = NoTask
    <3>1. t = LatchTask
      BY <1>4, <1>6, <2>2 DEF Taken
    <3>2. 1 \in Queued(LatchTask)
      BY <1>7, <3>1 DEF Queued
    <3>3. Len(queue) = 1 /\ arg[Adder] = NoTask
      BY <3>2 DEF LastInQueue
    <3> QED BY <1>7, <3>3
  <2>3. LatchTask \notin unused' => unused' = {}
    BY DEF LastInQueue
  <2> QED BY <2>1, <2>2, <2>3 DEF LastInQueue
<1>9. Counted'
  BY <1>6 DEF Counted, latchVars
<1> QED BY <1>1, <1>5, <1>8, <1>9, LatchRests

LEMMA TaskReturnsTestInv ==
  ASSUME TestInv, NEW w \in Workers, TaskReturns(w), held[w] = LatchTask => at[w] = "after",
         UNCHANGED latchVars
  PROVE  TestInv'
<1> USE DEF TestInv, TaskReturns
<1>1. [Next]_vars
  BY DEF Next, WorkerStep
<1>2. /\ \A u \in Threads \ {w} : pc'[u] = pc[u]
      /\ \A v \in Workers \ {w} : held'[v] = held[v]
      /\ held'[w] = NoTask
  BY Cast DEF GoTo, PoolInv, TypeOK
<1>3. InOrder'
  <2>1. \A v \in Workers : at[v] \in {"called", "leaving"} => v # w
    BY DEF InOrder
  <2>2. pc[Main] # "stopped"
    BY DEF InOrder
  <2> QED BY <1>2, <2>1, <2>2, Cast DEF InOrder, latchVars
<1>4. Taken(LatchTask)' # {} \/ LatchTask \in done' <=> Taken(LatchTask) # {} \/ LatchTask \in done
  BY <1>2, Cast DEF Taken
<1>5. LastInQueue'
  BY <1>4 DEF LastInQueue, Queued
<1>6. Counted'
  BY <1>4 DEF Counted, latchVars
<1> QED BY <1>1, <1>3, <1>5, <1>6, LatchRests

LEMMA WorkerStepInv ==
  ASSUME TestInv, NEW w \in Workers, RunsOn(w)
  PROVE  TestInv'
<1> USE DEF TestInv
<1>1. UNCHANGED latchVars /\ WorkerStep(w) /\ [Next]_vars
  BY DEF RunsOn, Next
<1>2. CASE PopTask(w)
  BY <1>1, <1>2, PopInv
<1>3. CASE TaskReturns(w)
  BY <1>1, <1>3, TaskReturnsTestInv DEF RunsOn, TaskReturns
<1>4. CASE Loop(w) \/ Lock(w) \/ TestEmpty(w) \/ PopNothing(w)
  <2>1. UNCHANGED <<arg, queue, held, unused, done>>
    BY <1>4 DEF Loop, Lock, TestEmpty, PopNothing
  <2>2. /\ pc[w] \notin {"run", "exit"} /\ \A u \in Threads \ {w} : pc'[u] = pc[u]
    BY <1>4, Cast DEF Loop, Lock, TestEmpty, PopNothing, Wait, GoTo, PoolInv, TypeOK
  <2> QED BY <1>1, <2>1, <2>2, Cast, QuietStep
<1> QED BY <1>1, <1>2, <1>3, <1>4 DEF WorkerStep

LEMMA AddingInv ==
  ASSUME TestInv, Adding
  PROVE  TestInv'
<1> USE DEF TestInv
<1>1. UNCHANGED latchVars
  BY DEF Adding
<1>2. CASE Add
  BY <1>1, <1>2, AddInv
<1>3. CASE PushTask(Adder)
  BY <1>1, <1>3, PushInv
<1>4. CASE Lock(Adder) \/ TestFull(Adder)
  <2>1. [Next]_vars /\ UNCHANGED <<arg, queue, held, unused, done>>
    BY <1>4, Cast DEF Next, ProducerStep, Lock, TestFull
  <2>2. pc[Adder] # "idle" /\ \A u \in Threads \ {Adder} : pc'[u] = pc[u]
    BY <1>4, Cast DEF Lock, TestFull, Wait, GoTo, PoolInv, TypeOK
  <2> QED BY <1>1, <2>1, <2>2, Cast, QuietStep
<1> QED BY <1>2, <1>3, <1>4 DEF Adding

LEMMA SpuriousTestInv ==
  ASSUME TestInv, Spuriously
  PROVE  TestInv'
<1> USE DEF TestInv
<1>1. CASE Spurious /\ Latch!Awaken(Main) /\ UNCHANGED vars
  BY <1>1, AwakenInv
<1>2. CASE UNCHANGED latchVars /\ \E t \in Workers \cup Producers : SpuriousWakeup(t)
  <2>1. PICK t \in Workers \cup Producers : SpuriousWakeup(t)
    BY <1>2
  <2>2. [Next]_vars /\ UNCHANGED <<arg, queue, held, unused, done>>
    BY <2>1 DEF Next, SpuriousWakeup
  <2>3. pc[t] = "wait" /\ t # Main /\ \A u \in Threads \ {t} : pc'[u] = pc[u]
    BY <2>1, Cast DEF SpuriousWakeup, GoTo, PoolInv, TypeOK
  <2>4. \A u \in Threads : pc[u] # "wait" => pc'[u] = pc[u]
    BY <2>3
  <2> QED BY <1>2, <2>2, <2>3, <2>4, Cast, QuietStep
<1> QED BY <1>1, <1>2 DEF Spuriously

---------------------------------------------------------------------------------
LEMMA NextTestInv ==
  ASSUME TestInv, [TestNext]_testVars
  PROVE  TestInv'
<1>1. CASE MainStep /\ UNCHANGED latchVars
  BY <1>1, MainStepInv
<1>2. CASE Adding
  BY <1>2, AddingInv
<1>3. CASE AwaitLatch
  BY <1>3, EnterInv, Cast DEF AwaitLatch
<1>4. CASE \E t \in Latch!Callers : Latch!Inside(t) /\ UNCHANGED vars
  BY <1>4, InsideInv
<1>5. CASE StopPool
  BY <1>5, MainStepInv DEF StopPool
<1>6. CASE Spuriously
  BY <1>6, SpuriousTestInv
<1>7. CASE \E w \in Workers : RunsOn(w)
  BY <1>7, WorkerStepInv
<1>8. CASE \E w \in Workers : CallCountDown(w)
  BY <1>8, EnterInv, Cast DEF CallCountDown
<1>9. CASE UNCHANGED testVars
  <2>1. UNCHANGED vars /\ UNCHANGED latchVars
    BY <1>9 DEF testVars
  <2> QED BY <2>1, QuietStep DEF vars
<1> QED BY <1>1, <1>2, <1>3, <1>4, <1>5, <1>6, <1>7, <1>8, <1>9, Cast
        DEF TestNext, MainRuns, WorkerRuns

LEMMA InitTestInv ==
  ASSUME TestInit
  PROVE  TestInv
<1> USE DEF TestInv, TestInit, Latch!Init
<1>1. PoolInv /\ Whereabouts
  BY InitPoolInv, InitWhereabouts
<1>2. Latch!Mutex!MonitorInv
  BY Cast DEF Latch!Mutex!Init, Latch!Mutex!MonitorInv, Latch!Mutex!TypeOK,
              Latch!Mutex!OwnerInv, Latch!Mutex!Labels
<1>3. LatchOut
  BY DEF LatchOut, Latch!Mutex!Init
<1>4. InOrder
  BY Cast DEF InOrder, Init
<1>5. LastInQueue /\ Counted
  BY Cast DEF LastInQueue, Counted, Init, Queued, Taken
<1> QED BY <1>1, <1>2, <1>3, <1>4, <1>5

\* Pool, latch and the order of the test's calls fit together in every state.
THEOREM TestInvariance == TestSpec => []TestInv
<1>1. TestInit => TestInv
  BY InitTestInv
<1>2. TestInv /\ [TestNext]_testVars => TestInv'
  BY NextTestInv
<1> QED BY <1>1, <1>2, PTL DEF TestSpec

\* Every task has run when stop returns, although stop drops what is queued
\* (main_threadpool.cpp:39).
THEOREM EveryTaskRuns == TestSpec => []AllRun
<1>1. TestInv => AllRun
  <2> SUFFICES ASSUME TestInv, pc[Main] = "stopped", NEW t \in Tasks PROVE t \in done
    BY DEF AllRun, TestInv, PoolInv, TypeOK
  <2> USE DEF TestInv
  <2>1. unused = {} /\ count <= 0 /\ \A w \in Workers : pc[w] = "exit"
    BY DEF InOrder, Counted
  <2>2. queue = <<>> /\ arg[Adder] = NoTask
    BY <2>1 DEF Counted, LastInQueue
  <2>3. \A w \in Workers : held[w] = NoTask
    BY <2>1 DEF PoolInv, TaskInv
  <2>4. Coming(t) = {} /\ Queued(t) = {} /\ Taken(t) = {}
    BY <2>2, <2>3, Cast DEF Coming, Queued, Taken
  <2> QED BY <2>1, <2>4 DEF Whereabouts, InOnePlace, Some
<1> QED BY <1>1, TestInvariance, PTL

\* When the latch goes out of scope nobody is in it and its mutex is free,
\* although wait may return before countDown does (main_threadpool.cpp:36).
THEOREM NobodyInLatch == TestSpec => []LatchLeft
<1>1. TestInv => LatchLeft
  <2> SUFFICES ASSUME TestInv, pc[Main] = "stopped"
               PROVE  /\ latchOwner = NoThread
                      /\ \A w \in Workers : at[w] \in {"before", "after"}
    BY DEF LatchLeft
  <2> USE DEF TestInv
  <2>1. at[Main] = "after" /\ \A w \in Workers : at[w] \in {"before", "after"}
    BY Cast DEF InOrder
  <2>2. \A t \in Latch!Callers : latchPc[t] = "out"
    BY <2>1, Cast DEF LatchOut
  <2>3. latchOwner \notin Latch!Callers
    BY <2>2 DEF Latch!Mutex!MonitorInv, Latch!Mutex!OwnerInv
  <2> QED BY <2>1, <2>3 DEF Latch!Mutex!MonitorInv, Latch!Mutex!TypeOK
<1> QED BY <1>1, TestInvariance, PTL

\* assertLocked and isLockedByThisThread of the latch's mutex are right whenever
\* they are called (mutex.h:25).
THEOREM LatchMutex == TestSpec => []LockAsserts
<1>1. TestInv => LockAsserts
  BY DEF TestInv, LockAsserts, Latch!Mutex!LockAsserts, Latch!Mutex!MonitorInv,
         Latch!Mutex!TypeOK, Latch!Mutex!OwnerInv
<1> QED BY <1>1, TestInvariance, PTL
===============================================================================
