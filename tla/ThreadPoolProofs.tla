--------------------------- MODULE ThreadPoolProofs ---------------------------
(***************************************************************************)
(* Proofs about ThreadPool, for any sets of tasks, workers and producers   *)
(* and any queue size, with spurious wakeups and failing thread creation   *)
(* or without.                                                             *)
(*                                                                         *)
(* RunAsserts is inductive only with MutexInv: between a producer's test   *)
(* and its push nobody else can append, because nobody else holds the      *)
(* mutex.  TaskInv says that a thread about to push has a task to push and *)
(* that there are workers; with RunAsserts it gives Bounded and            *)
(* WorkerAwake, and the refinement of TaskQueue.                           *)
(*                                                                         *)
(* Two invariants count.  Whereabouts has for each task the sets of        *)
(* threads and positions it is at, each of at most one element and         *)
(* together of one.  ProducerInv compares the producers that have been     *)
(* woken with the free places of the queue, which a notify of one thread   *)
(* per pop keeps in step.                                                  *)
(*                                                                         *)
(* Whatever a step does to pc, it moves one thread to a label and may wake *)
(* waiting ones (Moves); each lemma below starts by saying which thread    *)
(* moves where, and the rest follows conjunct by conjunct.                 *)
(***************************************************************************)
EXTENDS ThreadPool, FiniteSetTheorems, TLAPS

Labels == MainLabels \cup ProducerLabels \cup WorkerLabels

\* The step takes t to label and does nothing to the others but wake some.
Moves(t, label) ==
  /\ pc' \in [Threads -> Labels]
  /\ pc'[t] = label
  /\ \A u \in Threads \ {t} : pc'[u] = pc[u] \/ (pc[u] = "wait" /\ pc'[u] = "lock")

\* An assignment to the pc of one thread.
LEMMA GoToMoves ==
  ASSUME TypeOK, NEW t \in Threads, NEW label \in Labels, GoTo(t, label)
  PROVE  Moves(t, label)
  BY DEF GoTo, Moves, TypeOK, Labels

\* Condition::notify, which also wakes a thread of T.
LEMMA NotifyMoves ==
  ASSUME TypeOK, NEW T \in SUBSET Threads, NEW t \in Threads, pc[t] # "wait",
         NEW label \in Labels, Notify(T, t, label)
  PROVE  Moves(t, label)
<1>1. CASE GoTo(t, label)
  BY <1>1, GoToMoves
<1>2. CASE \E u \in Waiting(T) : pc' = [pc EXCEPT ![t] = label, ![u] = "lock"]
  <2>1. PICK u \in Waiting(T) : pc' = [pc EXCEPT ![t] = label, ![u] = "lock"]
    BY <1>2
  <2>2. u \in Threads /\ u # t /\ pc[u] = "wait"
    BY DEF Waiting
  <2>3. "lock" \in MainLabels
    BY DEF MainLabels
  <2> QED BY <2>1, <2>2, <2>3 DEF Moves, TypeOK, Labels
<1> QED BY <1>1, <1>2 DEF Notify

-------------------------------------------------------------------------------
\* One lemma per operation: it preserves the invariant.  First the steps of Main
\* that touch nothing but its pc and running_.
LEMMA MainMoves ==
  ASSUME PoolInv, NEW label \in MainLabels, Moves(Main, label),
         UNCHANGED <<owner, queue, arg, held, unused, done>>,
         running' = running \/ (pc[Main] = "off" /\ running' = TRUE),
         label \notin {"off", "stop"}, pc[Main] # "stop"
  PROVE  PoolInv'
<1> USE DEF PoolInv, Threads
<1>1. TypeOK'
  BY ThreadPoolAssumption DEF TypeOK, Moves, Labels, MainLabels, ProducerLabels, WorkerLabels
<1>2. MutexInv'
  BY ThreadPoolAssumption DEF TypeOK, MutexInv, Critical, Moves
<1>3. TaskInv'
  BY ThreadPoolAssumption DEF TypeOK, TaskInv, Moves, Labels, MainLabels, ProducerLabels, WorkerLabels
<1>4. RunAsserts'
  BY ThreadPoolAssumption DEF TypeOK, RunAsserts, IsFull, Moves
<1>5. Bounded'
  BY DEF Bounded
<1>6. WorkerAwake'
  BY ThreadPoolAssumption DEF TypeOK, WorkerAwake, Waiting, Active, Moves
<1>7. NoSleeper'
  BY ThreadPoolAssumption DEF TypeOK, NoSleeper, Waiting, Moves
<1> QED BY <1>1, <1>2, <1>3, <1>4, <1>5, <1>6, <1>7
\* Whoever locks the mutex is alone in its critical section.
LEMMA LockInv ==
  ASSUME PoolInv, NEW t \in Threads, Lock(t)
  PROVE  PoolInv'
<1> USE ThreadPoolAssumption DEF PoolInv, Threads, Lock
<1>1. Moves(t, IF t = Main THEN "stop" ELSE "test")
  BY GoToMoves DEF Labels, MainLabels, ProducerLabels
<1>2. TypeOK'
  BY <1>1 DEF TypeOK, Moves, Labels, MainLabels, ProducerLabels, WorkerLabels
<1>3. MutexInv'
  BY <1>1 DEF TypeOK, MutexInv, Critical, Moves
<1>4. TaskInv'
  BY <1>1 DEF TypeOK, TaskInv, Moves, Labels, MainLabels, ProducerLabels, WorkerLabels
<1>5. RunAsserts'
  BY <1>1 DEF TypeOK, MutexInv, Critical, RunAsserts, IsFull, Moves
<1>6. Bounded'
  BY DEF Bounded
<1>7. WorkerAwake'
  BY <1>1 DEF TypeOK, WorkerAwake, NoSleeper, Waiting, Active, Moves
<1>8. NoSleeper'
  BY <1>1 DEF TypeOK, NoSleeper, Waiting, Moves
<1> QED BY <1>2, <1>3, <1>4, <1>5, <1>6, <1>7, <1>8

\* A producer leaves the test for the push only when there is a place.
LEMMA TestFullInv ==
  ASSUME PoolInv, NEW p \in Producers, TestFull(p)
  PROVE  PoolInv'
<1> USE ThreadPoolAssumption DEF PoolInv, Threads, TestFull, Wait
<1>1. \/ IsFull /\ Moves(p, "wait") /\ owner' = NoThread
      \/ ~IsFull /\ Moves(p, "push") /\ owner' = owner
  <2>1. "wait" \in Labels /\ "push" \in Labels /\ p \in Threads
    BY DEF Labels, ProducerLabels
  <2>2. CASE IsFull /\ Wait(p)
    BY <2>1, <2>2, GoToMoves
  <2>3. CASE ~IsFull /\ GoTo(p, "push") /\ UNCHANGED owner
    BY <2>1, <2>3, GoToMoves
  <2> QED BY <2>2, <2>3
<1>2. TypeOK'
  BY <1>1 DEF TypeOK, Moves, Labels, MainLabels, ProducerLabels, WorkerLabels
<1>3. MutexInv'
  BY <1>1 DEF TypeOK, MutexInv, Critical, Moves
<1>4. TaskInv'
  BY <1>1 DEF TypeOK, TaskInv, Moves, Labels, MainLabels, ProducerLabels, WorkerLabels
<1>5. RunAsserts'
  BY <1>1 DEF TypeOK, MutexInv, Critical, RunAsserts, IsFull, Moves
<1>6. Bounded'
  BY DEF Bounded
<1>7. WorkerAwake'
  BY <1>1, SMTT(30) DEF TypeOK, WorkerAwake, NoSleeper, Waiting, Active, Moves
<1>8. NoSleeper'
  BY <1>1 DEF TypeOK, NoSleeper, Waiting, Moves
<1> QED BY <1>2, <1>3, <1>4, <1>5, <1>6, <1>7, <1>8

\* The append fills the place found, and wakes a worker if all of them wait.
LEMMA PushTaskInv ==
  ASSUME PoolInv, NEW p \in Producers, PushTask(p)
  PROVE  PoolInv'
<1> USE ThreadPoolAssumption DEF PoolInv, Threads, PushTask
<1>1. Moves(p, "idle")
  BY NotifyMoves DEF Labels, ProducerLabels
<1>2. arg[p] \in Tasks /\ Workers # {}
  BY DEF TaskInv
<1>3. TypeOK'
  <2>1. queue' \in Seq(Tasks) /\ arg' \in [Producers -> Tasks \cup {NoTask}]
    BY <1>2 DEF TypeOK
  <2> QED
    BY <1>1, <2>1 DEF TypeOK, Moves, Labels, MainLabels, ProducerLabels, WorkerLabels
<1>4. MutexInv'
  BY <1>1 DEF TypeOK, MutexInv, Critical, Moves
<1>5. TaskInv'
  BY <1>1 DEF TypeOK, TaskInv, Moves, Labels, MainLabels, ProducerLabels, WorkerLabels
<1>6. RunAsserts'
  BY <1>1, <1>4 DEF TypeOK, MutexInv, Critical, RunAsserts, Moves
<1>7. Bounded'
  BY DEF TypeOK, Bounded, RunAsserts, IsFull
<1>8. WorkerAwake'
  <2>1. CASE Waiting(Workers) = {}
    BY <1>1, <2>1 DEF TypeOK, WorkerAwake, Waiting, Moves
  <2>2. CASE \E t \in Waiting(Workers) : pc' = [pc EXCEPT ![p] = "idle", ![t] = "lock"]
    BY <2>2 DEF TypeOK, WorkerAwake, Waiting, Active
  <2> QED BY <2>1, <2>2 DEF Notify
<1>9. NoSleeper'
  BY <1>1 DEF TypeOK, NoSleeper, Waiting, Moves
<1> QED BY <1>3, <1>4, <1>5, <1>6, <1>7, <1>8, <1>9

\* A worker goes to sleep only over an empty queue.
LEMMA TestEmptyInv ==
  ASSUME PoolInv, NEW w \in Workers, TestEmpty(w)
  PROVE  PoolInv'
<1> USE ThreadPoolAssumption DEF PoolInv, Threads, TestEmpty, Wait
<1>1. \/ queue = <<>> /\ running /\ Moves(w, "wait") /\ owner' = NoThread
      \/ Moves(w, "pop") /\ owner' = owner
  <2>1. "wait" \in Labels /\ "pop" \in Labels /\ w \in Threads
    BY DEF Labels, WorkerLabels
  <2>2. CASE queue = <<>> /\ running /\ Wait(w)
    BY <2>1, <2>2, GoToMoves
  <2>3. CASE ~(queue = <<>> /\ running) /\ GoTo(w, "pop") /\ UNCHANGED owner
    BY <2>1, <2>3, GoToMoves
  <2> QED BY <2>2, <2>3
<1>2. TypeOK'
  BY <1>1 DEF TypeOK, Moves, Labels, MainLabels, ProducerLabels, WorkerLabels
<1>3. MutexInv'
  BY <1>1 DEF TypeOK, MutexInv, Critical, Moves
<1>4. TaskInv'
  BY <1>1 DEF TypeOK, TaskInv, Moves, Labels, MainLabels, ProducerLabels, WorkerLabels
<1>5. RunAsserts'
  BY <1>1 DEF TypeOK, MutexInv, Critical, RunAsserts, IsFull, Moves
<1>6. Bounded'
  BY DEF Bounded
<1>7. WorkerAwake'
  BY <1>1 DEF TypeOK, WorkerAwake, NoSleeper, Waiting, Active, Moves
<1>8. NoSleeper'
  BY <1>1 DEF TypeOK, NoSleeper, Waiting, Moves
<1> QED BY <1>2, <1>3, <1>4, <1>5, <1>6, <1>7, <1>8

\* The worker that takes a task is awake itself.
LEMMA PopTaskInv ==
  ASSUME PoolInv, NEW w \in Workers, PopTask(w)
  PROVE  PoolInv'
<1> USE ThreadPoolAssumption DEF PoolInv, Threads, PopTask
<1>1. Moves(w, "run")
  BY NotifyMoves, GoToMoves DEF Labels, WorkerLabels
<1>2. /\ Head(queue) \in Tasks
      /\ Tail(queue) \in Seq(Tasks)
      /\ Len(queue) \in Nat
      /\ Len(Tail(queue)) = Len(queue) - 1
  BY DEF TypeOK
<1>3. TypeOK'
  BY <1>1, <1>2 DEF TypeOK, Moves, Labels, MainLabels, ProducerLabels, WorkerLabels
<1>4. MutexInv'
  BY <1>1 DEF TypeOK, MutexInv, Critical, Moves
<1>5. TaskInv'
  <2>1. \A v \in Workers : v # w => held'[v] = held[v] /\ (pc'[v] = "run" <=> pc[v] = "run")
    BY <1>1 DEF TypeOK, Moves
  <2>2. held'[w] # NoTask /\ pc'[w] = "run"
    BY <1>1, <1>2 DEF TypeOK, Moves
  <2>3. \A p \in Producers : arg'[p] = arg[p] /\ (pc'[p] # "idle" => pc[p] # "idle")
    BY <1>1 DEF TypeOK, Moves
  <2> QED BY <2>1, <2>2, <2>3 DEF TaskInv
<1>6. RunAsserts'
  BY <1>1 DEF TypeOK, MutexInv, Critical, RunAsserts, Moves
<1>7. Bounded'
  BY <1>2 DEF Bounded
<1>8. WorkerAwake'
  BY <1>1 DEF WorkerAwake, Active, Moves
<1>9. NoSleeper'
  BY <1>1 DEF TypeOK, NoSleeper, Waiting, Moves
<1> QED BY <1>3, <1>4, <1>5, <1>6, <1>7, <1>8, <1>9

\* stop wakes the workers and puts none to sleep.
LEMMA StopInv ==
  ASSUME PoolInv, Stop
  PROVE  PoolInv'
<1> USE ThreadPoolAssumption DEF PoolInv, Threads, Stop
<1>1. Moves(Main, "join")
  BY DEF TypeOK, Moves, Waiting, Labels, MainLabels
<1>2. TypeOK'
  BY <1>1 DEF TypeOK, Moves, Labels, MainLabels, ProducerLabels, WorkerLabels
<1>3. MutexInv'
  BY <1>1 DEF TypeOK, MutexInv, Critical, Moves
<1>4. TaskInv'
  BY <1>1 DEF TypeOK, TaskInv, Moves, Labels, MainLabels, ProducerLabels, WorkerLabels
<1>5. RunAsserts'
  BY <1>1 DEF TypeOK, MutexInv, Critical, RunAsserts, Moves
<1>6. Bounded'
  BY DEF Bounded
<1>7. WorkerAwake'
  BY <1>1 DEF TypeOK, WorkerAwake, NoSleeper, Waiting, Active, Moves
<1>8. NoSleeper'
  BY <1>1 DEF TypeOK, NoSleeper, Waiting, Moves
<1> QED BY <1>2, <1>3, <1>4, <1>5, <1>6, <1>7, <1>8

\* Thread::start, successful or not.
LEMMA StartThreadInv ==
  ASSUME PoolInv, NEW w \in Workers, StartThread(w)
  PROVE  PoolInv'
<1> USE ThreadPoolAssumption DEF PoolInv, Threads, StartThread
<1>1. Moves(w, "loop") \/ Moves(w, "failed")
  BY GoToMoves DEF Labels, WorkerLabels
<1>2. TypeOK'
  BY <1>1 DEF TypeOK, Moves, Labels, MainLabels, ProducerLabels, WorkerLabels
<1>3. MutexInv'
  BY <1>1 DEF TypeOK, MutexInv, Critical, Moves
<1>4. TaskInv'
  BY <1>1 DEF TypeOK, TaskInv, Moves, Labels, MainLabels, ProducerLabels, WorkerLabels
<1>5. RunAsserts'
  BY <1>1 DEF TypeOK, MutexInv, Critical, RunAsserts, IsFull, Moves
<1>6. Bounded'
  BY DEF Bounded
<1>7. WorkerAwake'
  BY <1>1 DEF TypeOK, WorkerAwake, NoSleeper, Waiting, Active, Moves
<1>8. NoSleeper'
  BY <1>1 DEF TypeOK, NoSleeper, Waiting, Moves
<1> QED BY <1>2, <1>3, <1>4, <1>5, <1>6, <1>7, <1>8

\* run up to its MutexLockGuard.
LEMMA CallInv ==
  ASSUME PoolInv, NEW p \in Producers, NEW t \in Tasks, Call(p, t)
  PROVE  PoolInv'
<1> USE ThreadPoolAssumption DEF PoolInv, Threads, Call
<1>1. Moves(p, "lock")
  BY GoToMoves DEF Labels, ProducerLabels
<1>2. TypeOK'
  BY <1>1 DEF TypeOK, Moves, Labels, MainLabels, ProducerLabels, WorkerLabels
<1>3. MutexInv'
  BY <1>1 DEF TypeOK, MutexInv, Critical, Moves
<1>4. TaskInv'
  BY <1>1 DEF TypeOK, TaskInv, Moves, Labels, MainLabels, ProducerLabels, WorkerLabels
<1>5. RunAsserts'
  BY <1>1 DEF TypeOK, MutexInv, Critical, RunAsserts, IsFull, Moves
<1>6. Bounded'
  BY DEF Bounded
<1>7. WorkerAwake'
  BY <1>1 DEF TypeOK, WorkerAwake, NoSleeper, Waiting, Active, Moves
<1>8. NoSleeper'
  BY <1>1 DEF TypeOK, NoSleeper, Waiting, Moves
<1> QED BY <1>2, <1>3, <1>4, <1>5, <1>6, <1>7, <1>8

\* The unlocked read of running_.
LEMMA LoopInv ==
  ASSUME PoolInv, NEW w \in Workers, Loop(w)
  PROVE  PoolInv'
<1> USE ThreadPoolAssumption DEF PoolInv, Threads, Loop
<1>1. Moves(w, IF running THEN "lock" ELSE "exit")
  BY GoToMoves DEF Labels, WorkerLabels
<1>2. TypeOK'
  BY <1>1 DEF TypeOK, Moves, Labels, MainLabels, ProducerLabels, WorkerLabels
<1>3. MutexInv'
  BY <1>1 DEF TypeOK, MutexInv, Critical, Moves
<1>4. TaskInv'
  BY <1>1 DEF TypeOK, TaskInv, Moves, Labels, MainLabels, ProducerLabels, WorkerLabels
<1>5. RunAsserts'
  BY <1>1 DEF TypeOK, MutexInv, Critical, RunAsserts, IsFull, Moves
<1>6. Bounded'
  BY DEF Bounded
<1>7. WorkerAwake'
  BY <1>1 DEF TypeOK, WorkerAwake, NoSleeper, Waiting, Active, Moves
<1>8. NoSleeper'
  BY <1>1 DEF TypeOK, NoSleeper, Waiting, Moves
<1> QED BY <1>2, <1>3, <1>4, <1>5, <1>6, <1>7, <1>8

\* take returns an empty task.
LEMMA PopNothingInv ==
  ASSUME PoolInv, NEW w \in Workers, PopNothing(w)
  PROVE  PoolInv'
<1> USE ThreadPoolAssumption DEF PoolInv, Threads, PopNothing
<1>1. Moves(w, "loop")
  BY GoToMoves DEF Labels, WorkerLabels
<1>2. TypeOK'
  BY <1>1 DEF TypeOK, Moves, Labels, MainLabels, ProducerLabels, WorkerLabels
<1>3. MutexInv'
  BY <1>1 DEF TypeOK, MutexInv, Critical, Moves
<1>4. TaskInv'
  BY <1>1 DEF TypeOK, TaskInv, Moves, Labels, MainLabels, ProducerLabels, WorkerLabels
<1>5. RunAsserts'
  BY <1>1 DEF TypeOK, MutexInv, Critical, RunAsserts, IsFull, Moves
<1>6. Bounded'
  BY DEF Bounded
<1>7. WorkerAwake'
  BY <1>1 DEF TypeOK, WorkerAwake, NoSleeper, Waiting, Active, Moves
<1>8. NoSleeper'
  BY <1>1 DEF TypeOK, NoSleeper, Waiting, Moves
<1> QED BY <1>2, <1>3, <1>4, <1>5, <1>6, <1>7, <1>8

\* The task a worker ran returns.
LEMMA TaskReturnsInv ==
  ASSUME PoolInv, NEW w \in Workers, TaskReturns(w)
  PROVE  PoolInv'
<1> USE ThreadPoolAssumption DEF PoolInv, Threads, TaskReturns
<1>1. Moves(w, "loop")
  BY GoToMoves DEF Labels, WorkerLabels
<1>2. TypeOK'
  <2>1. held[w] \in Tasks
    BY DEF TypeOK, TaskInv
  <2> QED
    BY <1>1, <2>1 DEF TypeOK, Moves, Labels, MainLabels, ProducerLabels, WorkerLabels
<1>3. MutexInv'
  BY <1>1 DEF TypeOK, MutexInv, Critical, Moves
<1>4. TaskInv'
  BY <1>1 DEF TypeOK, TaskInv, Moves, Labels, MainLabels, ProducerLabels, WorkerLabels
<1>5. RunAsserts'
  BY <1>1 DEF TypeOK, MutexInv, Critical, RunAsserts, IsFull, Moves
<1>6. Bounded'
  BY DEF Bounded
<1>7. WorkerAwake'
  BY <1>1 DEF TypeOK, WorkerAwake, NoSleeper, Waiting, Active, Moves
<1>8. NoSleeper'
  BY <1>1 DEF TypeOK, NoSleeper, Waiting, Moves
<1> QED BY <1>2, <1>3, <1>4, <1>5, <1>6, <1>7, <1>8

\* A wait returns for no reason.
LEMMA SpuriousInv ==
  ASSUME PoolInv, NEW t \in Workers \cup Producers, SpuriousWakeup(t)
  PROVE  PoolInv'
<1> USE ThreadPoolAssumption DEF PoolInv, Threads, SpuriousWakeup
<1>1. Moves(t, "lock")
  BY GoToMoves DEF Labels, WorkerLabels
<1>2. TypeOK'
  BY <1>1 DEF TypeOK, Moves, Labels, MainLabels, ProducerLabels, WorkerLabels
<1>3. MutexInv'
  BY <1>1 DEF TypeOK, MutexInv, Critical, Moves
<1>4. TaskInv'
  BY <1>1 DEF TypeOK, TaskInv, Moves, Labels, MainLabels, ProducerLabels, WorkerLabels
<1>5. RunAsserts'
  BY <1>1 DEF TypeOK, MutexInv, Critical, RunAsserts, IsFull, Moves
<1>6. Bounded'
  BY DEF Bounded
<1>7. WorkerAwake'
  BY <1>1 DEF TypeOK, WorkerAwake, NoSleeper, Waiting, Active, Moves
<1>8. NoSleeper'
  BY <1>1 DEF TypeOK, NoSleeper, Waiting, Moves
<1> QED BY <1>2, <1>3, <1>4, <1>5, <1>6, <1>7, <1>8

\* run without workers.
LEMMA RunInlineInv ==
  ASSUME PoolInv, NEW p \in Producers, NEW t \in Tasks, RunInline(p, t)
  PROVE  PoolInv'
<1> USE DEF PoolInv, RunInline
<1>1. TypeOK'
  BY DEF TypeOK
<1>2. MutexInv' /\ TaskInv'
  BY DEF MutexInv, Critical, TaskInv
<1>3. RunAsserts' /\ Bounded' /\ WorkerAwake' /\ NoSleeper'
  BY DEF RunAsserts, IsFull, Bounded, WorkerAwake, NoSleeper, Waiting
<1> QED BY <1>1, <1>2, <1>3
\* The pool starts with the invariant.
LEMMA InitPoolInv == Init => PoolInv
<1> SUFFICES ASSUME Init PROVE PoolInv
  OBVIOUS
<1> USE ThreadPoolAssumption DEF Init, Threads
<1>1. TypeOK
  <2>1. owner \in Threads \cup {NoThread} /\ running \in BOOLEAN
    OBVIOUS
  <2>2. queue \in Seq(Tasks)
    OBVIOUS
  <2>3. \A t \in Threads : pc[t] = IF t \in Producers THEN "idle" ELSE "off"
    OBVIOUS
  <2>4. pc \in [Threads -> MainLabels \cup ProducerLabels \cup WorkerLabels]
    BY DEF MainLabels, ProducerLabels, WorkerLabels
  <2>5. /\ pc[Main] \in MainLabels
        /\ \A p \in Producers : pc[p] \in ProducerLabels
        /\ \A w \in Workers : pc[w] \in WorkerLabels
    BY <2>3 DEF MainLabels, ProducerLabels, WorkerLabels
  <2>6. /\ arg \in [Producers -> Tasks \cup {NoTask}]
        /\ held \in [Workers -> Tasks \cup {NoTask}]
        /\ unused \subseteq Tasks /\ done \subseteq Tasks
    OBVIOUS
  <2> QED BY <2>1, <2>2, <2>4, <2>5, <2>6 DEF TypeOK
<1>2. MutexInv /\ TaskInv
  BY DEF MutexInv, Critical, TaskInv
<1>3. RunAsserts /\ Bounded /\ WorkerAwake /\ NoSleeper
  BY DEF RunAsserts, Bounded, WorkerAwake, NoSleeper, Waiting
<1> QED BY <1>1, <1>2, <1>3 DEF PoolInv

\* Every step preserves the invariant.
LEMMA NextPoolInv == PoolInv /\ [Next]_vars => PoolInv'
<1> SUFFICES ASSUME PoolInv, [Next]_vars PROVE PoolInv'
  OBVIOUS
<1> Main \in Threads /\ Producers \subseteq Threads /\ Workers \subseteq Threads
  BY DEF Threads
<1>1. CASE MainStep \/ CallStop
  <2>1. ASSUME NEW label \in MainLabels, GoTo(Main, label),
               label \notin {"off", "stop"}, pc[Main] # "stop",
               running' = running \/ (pc[Main] = "off" /\ running' = TRUE),
               UNCHANGED <<owner, queue, arg, held, unused, done>>
        PROVE  PoolInv'
    BY <2>1, GoToMoves, MainMoves DEF Labels, PoolInv
  <2>3. CASE Start
    BY <2>1, <2>3 DEF Start, MainLabels
  <2>4. CASE \E w \in Workers : StartThread(w)
    BY <2>4, StartThreadInv
  <2>5. CASE StartReturns
    BY <2>1, <2>5 DEF StartReturns, MainLabels
  <2>6. CASE CallStop
    BY <2>1, <2>6 DEF CallStop, MainLabels
  <2>7. CASE Lock(Main)
    BY <2>7, LockInv
  <2>8. CASE Stop
    BY <2>8, StopInv
  <2>9. CASE JoinReturns
    BY <2>1, <2>9 DEF JoinReturns, MainLabels
  <2>10. CASE JoinAborts
    BY <2>1, <2>10 DEF JoinAborts, MainLabels
  <2> QED
    BY <1>1, <2>3, <2>4, <2>5, <2>6, <2>7, <2>8, <2>9, <2>10 DEF MainStep
<1>2. CASE \E p \in Producers : ProducerStep(p)
  <2>1. PICK p \in Producers : ProducerStep(p)
    BY <1>2
  <2> QED
    BY <2>1, RunInlineInv, CallInv, LockInv, TestFullInv, PushTaskInv
    DEF ProducerStep
<1>3. CASE \E w \in Workers : WorkerStep(w)
  <2>1. PICK w \in Workers : WorkerStep(w)
    BY <1>3
  <2> QED
    BY <2>1, LoopInv, LockInv, TestEmptyInv, PopTaskInv, PopNothingInv, TaskReturnsInv
    DEF WorkerStep
<1>4. CASE \E t \in Workers \cup Producers : SpuriousWakeup(t)
  BY <1>4, SpuriousInv
<1>5. CASE UNCHANGED vars
  BY <1>5 DEF vars, PoolInv, TypeOK, MutexInv, Critical, TaskInv, RunAsserts, IsFull,
              Bounded, WorkerAwake, NoSleeper, Waiting
<1> QED BY <1>1, <1>2, <1>3, <1>4, <1>5 DEF Next

\* Mutual exclusion, the tasks' whereabouts, the assertions of run, the bound on
\* the queue, the wakeup of the workers and their end hold together in every state.
THEOREM Invariance == Spec => []PoolInv
<1>1. Init => PoolInv
  BY InitPoolInv
<1>2. PoolInv /\ [Next]_vars => PoolInv'
  BY NextPoolInv
<1> QED BY <1>1, <1>2, PTL DEF Spec

\* The variables keep their types.
THEOREM TypeCorrect == Spec => []TypeOK
<1>1. PoolInv => TypeOK
  BY DEF PoolInv
<1> QED BY <1>1, Invariance, PTL

\* The assertions of run and isFull never fail: when a producer appends its task
\* it holds the mutex and the queue is not full, however often it has waited and
\* whoever has run in between.
THEOREM AssertionsHold == Spec => []RunAsserts
<1>1. PoolInv => RunAsserts
  BY DEF PoolInv
<1> QED BY <1>1, Invariance, PTL

\* The queue stays within setMaxQueueSize, for any number of producers.
THEOREM QueueBounded == Spec => []Bounded
<1>1. PoolInv => Bounded
  BY DEF PoolInv
<1> QED BY <1>1, Invariance, PTL

\* While a task is queued, not every living worker waits: the wakeup of one
\* thread per push is enough, with spurious wakeups or without.
THEOREM NoLostWakeup == Spec => []WorkerAwake
<1>1. PoolInv => WorkerAwake
  BY DEF PoolInv
<1> QED BY <1>1, Invariance, PTL

\* Once stop has reset running_ no worker waits, so its join waits for no thread
\* that only a notification could wake.
THEOREM NobodySleepsThroughStop == Spec => []NoSleeper
<1>1. PoolInv => NoSleeper
  BY DEF PoolInv
<1> QED BY <1>1, Invariance, PTL

-------------------------------------------------------------------------------
\* Where a task is.

\* A step that moves no task.
LEMMA NoTaskMoves ==
  ASSUME Whereabouts, UNCHANGED <<arg, queue, held, unused, done>>,
         \A p \in Producers : pc'[p] = "idle" => arg[p] = NoTask
  PROVE  Whereabouts'
  BY DEF Whereabouts, InOnePlace, Coming, Queued, Taken, Single, Some

LEMMA CallMoves ==
  ASSUME PoolInv, Whereabouts, NEW p \in Producers, NEW t \in Tasks, Call(p, t)
  PROVE  Whereabouts'
<1> USE ThreadPoolAssumption DEF PoolInv, TypeOK, Call, GoTo, Threads
<1>1. arg[p] = NoTask /\ arg'[p] = t /\ \A q \in Producers \ {p} : arg'[q] = arg[q]
  BY DEF Whereabouts
<1>2. \A q \in Producers : pc'[q] = "idle" => arg'[q] = NoTask
  BY <1>1 DEF Whereabouts
<1>3. ASSUME NEW u \in Tasks
      PROVE  /\ Queued(u)' = Queued(u) /\ Taken(u)' = Taken(u)
             /\ Coming(u)' = IF u = t THEN Coming(u) \cup {p} ELSE Coming(u)
  BY <1>1 DEF Coming, Queued, Taken
<1>4. Coming(t) = {}
  BY DEF Whereabouts, InOnePlace, Some
<1>5. Coming(t)' = {p}
  BY <1>3, <1>4
<1>6. InOnePlace(t)'
  BY <1>3, <1>4, <1>5 DEF Whereabouts, InOnePlace, Single, Some
<1>7. ASSUME NEW u \in Tasks \ {t} PROVE InOnePlace(u)'
  BY <1>3 DEF Whereabouts, InOnePlace, Single, Some
<1> QED BY <1>2, <1>6, <1>7 DEF Whereabouts

LEMMA RunInlineMoves ==
  ASSUME PoolInv, Whereabouts, NEW p \in Producers, NEW t \in Tasks, RunInline(p, t)
  PROVE  Whereabouts'
<1> USE DEF RunInline
<1>1. \A u \in Tasks : Coming(u)' = Coming(u) /\ Queued(u)' = Queued(u) /\ Taken(u)' = Taken(u)
  BY DEF Coming, Queued, Taken
<1>2. t \notin done
  BY DEF Whereabouts, InOnePlace, Some
<1> QED BY <1>1, <1>2 DEF Whereabouts, InOnePlace, Single, Some

LEMMA PushMoves ==
  ASSUME PoolInv, Whereabouts, NEW p \in Producers, PushTask(p)
  PROVE  Whereabouts'
<1> USE ThreadPoolAssumption DEF PushTask
<1>1. PICK t \in Tasks : t = arg[p]
  BY DEF PoolInv, TaskInv
<1>2. Moves(p, "idle")
  BY NotifyMoves DEF Labels, ProducerLabels, PoolInv, Threads
<1>3. arg'[p] = NoTask /\ \A q \in Producers \ {p} : arg'[q] = arg[q]
  BY DEF PoolInv, TypeOK
<1>4. \A q \in Producers : pc'[q] = "idle" => arg'[q] = NoTask
  BY <1>2, <1>3 DEF Whereabouts, Moves, Threads
<1>5. /\ Len(queue') = Len(queue) + 1 /\ Len(queue) \in Nat
      /\ DOMAIN queue = 1 .. Len(queue) /\ DOMAIN queue' = 1 .. Len(queue) + 1
      /\ queue'[Len(queue) + 1] = t
      /\ \A i \in 1 .. Len(queue) : queue'[i] = queue[i]
  BY <1>1 DEF PoolInv, TypeOK
<1>6. ASSUME NEW u \in Tasks
      PROVE  /\ Taken(u)' = Taken(u)
             /\ Queued(u)' = IF u = t THEN Queued(u) \cup {Len(queue) + 1} ELSE Queued(u)
             /\ Coming(u)' = IF u = t THEN Coming(u) \ {p} ELSE Coming(u)
  <2>1. Taken(u)' = Taken(u)
    BY DEF Taken
  <2>2. Coming(u)' = IF u = t THEN Coming(u) \ {p} ELSE Coming(u)
    BY <1>1, <1>3 DEF Coming
  <2>3. Queued(u)' = IF u = t THEN Queued(u) \cup {Len(queue) + 1} ELSE Queued(u)
    BY <1>5 DEF Queued
  <2> QED BY <2>1, <2>2, <2>3
<1>7. p \in Coming(t)
  BY <1>1 DEF Coming
<1>8. Coming(t) = {p} /\ Queued(t) = {}
  BY <1>7 DEF Whereabouts, InOnePlace, Single, Some
<1>9. Coming(t)' = {} /\ Queued(t)' = {Len(queue) + 1}
  BY <1>6, <1>8
<1>10. InOnePlace(t)'
  BY <1>6, <1>8, <1>9 DEF Whereabouts, InOnePlace, Single, Some
<1>11. ASSUME NEW u \in Tasks \ {t} PROVE InOnePlace(u)'
  BY <1>6 DEF Whereabouts, InOnePlace, Single, Some
<1> QED BY <1>4, <1>10, <1>11 DEF Whereabouts

\* The others move up.
LEMMA PopMoves ==
  ASSUME PoolInv, Whereabouts, NEW w \in Workers, PopTask(w)
  PROVE  Whereabouts'
<1> USE ThreadPoolAssumption DEF PopTask
<1>1. PICK t \in Tasks : t = Head(queue)
  BY DEF PoolInv, TypeOK
<1>2. Moves(w, "run")
  BY NotifyMoves, GoToMoves DEF Labels, WorkerLabels, PoolInv, Threads
<1>3. held[w] = NoTask /\ held'[w] = t /\ \A v \in Workers \ {w} : held'[v] = held[v]
  BY <1>1 DEF PoolInv, TypeOK, TaskInv
<1>4. \A q \in Producers : pc'[q] = "idle" => arg'[q] = NoTask
  BY <1>2 DEF Whereabouts, Moves, Threads
<1>5. /\ Len(queue) \in Nat \ {0} /\ queue[1] = t
      /\ DOMAIN queue = 1 .. Len(queue) /\ DOMAIN queue' = 1 .. Len(queue) - 1
      /\ \A i \in 1 .. Len(queue) - 1 : queue'[i] = queue[i + 1]
  BY <1>1 DEF PoolInv, TypeOK
<1>6. ASSUME NEW u \in Tasks
      PROVE  /\ Coming(u)' = Coming(u)
             /\ Taken(u)' = IF u = t THEN Taken(u) \cup {w} ELSE Taken(u)
             /\ \A i \in Queued(u)' : i + 1 \in Queued(u) \ {1}
             /\ \A i \in Queued(u) \ {1} : i - 1 \in Queued(u)'
             /\ Queued(u) \subseteq Nat /\ Queued(u)' \subseteq Nat
             /\ 1 \in Queued(u) <=> u = t
  <2>1. Coming(u)' = Coming(u)
    BY DEF Coming
  <2>2. Taken(u)' = IF u = t THEN Taken(u) \cup {w} ELSE Taken(u)
    BY <1>3 DEF Taken
  <2>3. \A i \in Queued(u)' : i + 1 \in Queued(u) \ {1}
    BY <1>5 DEF Queued
  <2>4. \A i \in Queued(u) \ {1} : i - 1 \in Queued(u)'
    <3> SUFFICES ASSUME NEW i \in Queued(u) \ {1} PROVE i - 1 \in Queued(u)'
      OBVIOUS
    <3>1. i - 1 \in 1 .. Len(queue) - 1 /\ queue[i] = u /\ (i - 1) + 1 = i
      BY <1>5 DEF Queued
    <3>2. queue'[i - 1] = u
      BY <1>5, <3>1
    <3> QED BY <1>5, <3>1, <3>2 DEF Queued
  <2>5. Queued(u) \subseteq Nat /\ Queued(u)' \subseteq Nat /\ (1 \in Queued(u) <=> u = t)
    BY <1>5 DEF Queued
  <2> QED BY <2>1, <2>2, <2>3, <2>4, <2>5
<1>7. Queued(t) = {1} /\ Taken(t) = {}
  BY <1>6 DEF Whereabouts, InOnePlace, Single, Some
<1>8. Queued(t)' = {} /\ Taken(t)' = {w}
  BY <1>6, <1>7
<1>9. ASSUME NEW u \in Tasks \ {t}
      PROVE  Single(Queued(u)') /\ Some(Queued(u)') = Some(Queued(u))
  <2>1. Single(Queued(u))
    BY DEF Whereabouts, InOnePlace
  <2>2. Single(Queued(u)')
    <3> SUFFICES ASSUME NEW i \in Queued(u)', NEW j \in Queued(u)' PROVE i = j
      BY DEF Single
    <3>1. i + 1 = j + 1 /\ i \in Nat /\ j \in Nat
      BY <1>6, <2>1 DEF Single
    <3> QED BY <3>1
  <2>3. Queued(u)' = {} <=> Queued(u) = {}
    BY <1>6
  <2> QED BY <2>2, <2>3 DEF Some
<1>10. ASSUME NEW u \in Tasks \ {t}
       PROVE  Single(Queued(u))' /\ Some(Queued(u))' = Some(Queued(u))
  BY <1>9 DEF Single, Some
<1> QED BY <1>4, <1>6, <1>7, <1>8, <1>10 DEF Whereabouts, InOnePlace, Single, Some

LEMMA ReturnMoves ==
  ASSUME PoolInv, Whereabouts, NEW w \in Workers, TaskReturns(w)
  PROVE  Whereabouts'
<1> USE ThreadPoolAssumption DEF TaskReturns
<1>1. PICK t \in Tasks : t = held[w]
  BY DEF PoolInv, TypeOK, TaskInv
<1>2. held'[w] = NoTask /\ \A v \in Workers \ {w} : held'[v] = held[v]
  BY DEF PoolInv, TypeOK
<1>3. \A q \in Producers : pc'[q] = "idle" => arg'[q] = NoTask
  BY DEF Whereabouts, GoTo, Threads, PoolInv, TypeOK
<1>4. ASSUME NEW u \in Tasks
      PROVE  /\ Coming(u)' = Coming(u) /\ Queued(u)' = Queued(u)
             /\ Taken(u)' = IF u = t THEN Taken(u) \ {w} ELSE Taken(u)
  <2>1. Coming(u)' = Coming(u) /\ Queued(u)' = Queued(u)
    BY DEF Coming, Queued
  <2>2. Taken(u)' = IF u = t THEN Taken(u) \ {w} ELSE Taken(u)
    BY <1>1, <1>2 DEF Taken
  <2> QED BY <2>1, <2>2
<1>5. w \in Taken(t)
  BY <1>1 DEF Taken
<1>6. Taken(t) = {w} /\ t \notin done
  BY <1>5 DEF Whereabouts, InOnePlace, Single, Some
<1>7. Taken(t)' = {}
  BY <1>4, <1>6
<1> QED BY <1>1, <1>3, <1>4, <1>6, <1>7 DEF Whereabouts, InOnePlace, Single, Some

\* Every step takes a task from one place to the next, or none.
LEMMA NextWhereabouts ==
  ASSUME PoolInv, Whereabouts, [Next]_vars
  PROVE  Whereabouts'
<1>1. CASE \E p \in Producers, t \in Tasks : Call(p, t) \/ RunInline(p, t)
  BY <1>1, CallMoves, RunInlineMoves
<1>2. CASE \E p \in Producers : PushTask(p)
  BY <1>2, PushMoves
<1>3. CASE \E w \in Workers : PopTask(w) \/ TaskReturns(w)
  BY <1>3, PopMoves, ReturnMoves
<1>4. CASE /\ UNCHANGED <<arg, queue, held, unused, done>>
           /\ \A p \in Producers : pc'[p] = "idle" => pc[p] = "idle"
  BY <1>4, NoTaskMoves DEF Whereabouts
<1>5. CASE MainStep \/ CallStop
  BY <1>4, <1>5, ThreadPoolAssumption
     DEF MainStep, CallStop, Start, StartThread, StartReturns, Lock, Stop, JoinReturns,
         JoinAborts, GoTo, PoolInv, TypeOK, Threads
<1>6. CASE \E p \in Producers : Lock(p) \/ TestFull(p)
  BY <1>4, <1>6, ThreadPoolAssumption DEF Lock, TestFull, Wait, GoTo, PoolInv, TypeOK, Threads
<1>7. CASE \E w \in Workers : Loop(w) \/ Lock(w) \/ TestEmpty(w) \/ PopNothing(w)
  BY <1>4, <1>7, ThreadPoolAssumption
     DEF Loop, Lock, TestEmpty, Wait, PopNothing, GoTo, PoolInv, TypeOK, Threads
<1>8. CASE \E t \in Workers \cup Producers : SpuriousWakeup(t)
  BY <1>4, <1>8 DEF SpuriousWakeup, GoTo, PoolInv, TypeOK, Threads
<1>9. CASE UNCHANGED vars
  BY <1>4, <1>9 DEF vars
<1> QED BY <1>1, <1>2, <1>3, <1>5, <1>6, <1>7, <1>8, <1>9 DEF Next, ProducerStep, WorkerStep

LEMMA InitWhereabouts ==
  ASSUME Init
  PROVE  Whereabouts
<1> USE ThreadPoolAssumption DEF Init
<1>1. \A t \in Tasks : Coming(t) = {} /\ Queued(t) = {} /\ Taken(t) = {}
  BY DEF Coming, Queued, Taken
<1> QED BY <1>1 DEF Whereabouts, InOnePlace, Single, Some

\* Counting a set of at most one element.
LEMMA CountSingle ==
  ASSUME NEW S, Single(S)
  PROVE  Cardinality(S) = Some(S)
<1>1. CASE S = {}
  BY <1>1, FS_EmptySet DEF Some
<1>2. CASE S # {}
  <2>1. PICK x \in S : S = {x}
    BY <1>2 DEF Single
  <2>2. Cardinality({x}) = 1
    BY FS_Singleton
  <2> QED BY <1>2, <2>1, <2>2 DEF Some
<1> QED BY <1>1, <1>2

\* No task is lost, run twice, or in two hands, from its submission to its return:
\* push, pop and the calls around them move it as a whole.
THEOREM EveryTaskOnce == Spec => []OnePlace
<1>1. Init => PoolInv /\ Whereabouts
  BY InitPoolInv, InitWhereabouts
<1>2. (PoolInv /\ Whereabouts) /\ [Next]_vars => (PoolInv /\ Whereabouts)'
  BY NextPoolInv, NextWhereabouts
<1>3. Whereabouts => OnePlace
  BY CountSingle DEF Whereabouts, InOnePlace, OnePlace, Places
<1> QED BY <1>1, <1>2, <1>3, PTL DEF Spec

-------------------------------------------------------------------------------
\* The wakeups of producers.

\* A step that moves no producer into or out of a wait or its way back.
LEMMA SameProducers ==
  ASSUME ProducerInv, UNCHANGED queue,
         \A p \in Producers :
           /\ pc'[p] \in {"lock", "test", "push"} <=> pc[p] \in {"lock", "test", "push"}
           /\ pc'[p] = "wait" <=> pc[p] = "wait"
  PROVE  ProducerInv'
<1>1. Awake' = Awake /\ Waiting(Producers)' = Waiting(Producers)
  BY DEF Awake, Waiting
<1> QED BY <1>1 DEF ProducerInv

\* One more producer is awake, and perhaps one more place is free.
LEMMA OneMoreAwake ==
  ASSUME TypeOK, ProducerInv, NEW q, q \notin Awake, Awake' = Awake \cup {q},
         queue' \in Seq(Tasks), Len(queue') >= Len(queue) - 1,
         Waiting(Producers)' # {} => Waiting(Producers) # {}
  PROVE  ProducerInv'
<1>1. /\ IsFiniteSet(Awake \cup {q})
      /\ Cardinality(Awake \cup {q}) = Cardinality(Awake) + 1
  BY FS_AddElement DEF ProducerInv
<1>2. PICK n \in Nat : n = Cardinality(Awake)
  BY FS_CardinalityType DEF ProducerInv
<1>3. IsFiniteSet(Awake') /\ Cardinality(Awake') = n + 1
  BY <1>1, <1>2
<1>4. Len(queue) \in Nat /\ Len(queue') \in Nat /\ MaxQueueSize \in Nat
  BY ThreadPoolAssumption DEF TypeOK
<1>5. Waiting(Producers)' # {} => MaxQueueSize > 0 /\ n >= MaxQueueSize - Len(queue)
  BY <1>2 DEF ProducerInv
<1>6. Waiting(Producers)' # {} => MaxQueueSize > 0 /\ n + 1 >= MaxQueueSize - Len(queue')
  BY <1>4, <1>5
<1> QED BY <1>3, <1>6 DEF ProducerInv

\* One fewer, because it has used its place or found none.
LEMMA OneFewerAwake ==
  ASSUME TypeOK, ProducerInv, NEW q \in Awake, Awake' = Awake \ {q},
         queue' \in Seq(Tasks),
         \/ IsFull /\ queue' = queue
         \/ Len(queue') = Len(queue) + 1 /\ (Waiting(Producers)' # {} => Waiting(Producers) # {})
  PROVE  ProducerInv'
<1>1. /\ IsFiniteSet(Awake \ {q})
      /\ Cardinality(Awake \ {q}) = Cardinality(Awake) - 1
  BY FS_RemoveElement DEF ProducerInv
<1>2. PICK n \in Nat : n = Cardinality(Awake \ {q}) /\ Cardinality(Awake) = n + 1
  <2>1. Cardinality(Awake \ {q}) \in Nat /\ Cardinality(Awake) \in Nat
    BY <1>1, FS_CardinalityType DEF ProducerInv
  <2> QED BY <1>1, <2>1
<1>3. IsFiniteSet(Awake') /\ Cardinality(Awake') = n
  BY <1>1, <1>2
<1>4. Len(queue) \in Nat /\ Len(queue') \in Nat /\ MaxQueueSize \in Nat
  BY ThreadPoolAssumption DEF TypeOK
<1>5. CASE IsFull /\ queue' = queue
  <2>1. MaxQueueSize > 0 /\ n >= MaxQueueSize - Len(queue')
    BY <1>4, <1>5 DEF IsFull
  <2> QED BY <1>3, <2>1 DEF ProducerInv
<1>6. CASE Len(queue') = Len(queue) + 1 /\ (Waiting(Producers)' # {} => Waiting(Producers) # {})
  <2>1. Waiting(Producers)' # {} => MaxQueueSize > 0 /\ n + 1 >= MaxQueueSize - Len(queue)
    BY <1>2, <1>6 DEF ProducerInv
  <2>2. Waiting(Producers)' # {} => MaxQueueSize > 0 /\ n >= MaxQueueSize - Len(queue')
    BY <1>4, <1>6, <2>1
  <2> QED BY <1>3, <2>2 DEF ProducerInv
<1> QED BY <1>5, <1>6

\* A producer comes, or comes back for no reason.
LEMMA ProducerComes ==
  ASSUME PoolInv, ProducerInv, NEW p \in Producers, pc[p] \in {"idle", "wait"},
         GoTo(p, "lock"), UNCHANGED queue
  PROVE  ProducerInv'
<1> USE ThreadPoolAssumption DEF PoolInv, TypeOK, GoTo, Threads
<1>1. p \notin Awake /\ Awake' = Awake \cup {p}
  BY DEF Awake
<1>2. Waiting(Producers)' \subseteq Waiting(Producers)
  BY DEF Waiting
<1>3. queue' \in Seq(Tasks) /\ Len(queue') >= Len(queue) - 1
  OBVIOUS
<1> QED BY <1>1, <1>2, <1>3, OneMoreAwake

LEMMA ProducerTests ==
  ASSUME PoolInv, ProducerInv, NEW p \in Producers, TestFull(p)
  PROVE  ProducerInv'
<1> USE ThreadPoolAssumption DEF PoolInv, TypeOK, GoTo, Threads, TestFull, Wait
<1>1. CASE IsFull /\ GoTo(p, "wait")
  <2>1. p \in Awake /\ Awake' = Awake \ {p}
    BY <1>1 DEF Awake
  <2> QED BY <1>1, <2>1, OneFewerAwake
<1>2. CASE GoTo(p, "push")
  BY <1>2, SameProducers
<1> QED BY <1>1, <1>2

LEMMA ProducerPushes ==
  ASSUME PoolInv, ProducerInv, NEW p \in Producers, PushTask(p)
  PROVE  ProducerInv'
<1> USE ThreadPoolAssumption DEF PoolInv, PushTask
<1>1. /\ pc'[p] = "idle" /\ \A q \in Producers \ {p} : pc'[q] = pc[q]
  BY DEF TypeOK, Threads, Notify, GoTo, Waiting
<1>2. p \in Awake /\ Awake' = Awake \ {p}
  BY <1>1 DEF Awake
<1>3. Waiting(Producers)' \subseteq Waiting(Producers)
  BY <1>1 DEF Waiting
<1>4. queue' \in Seq(Tasks) /\ Len(queue') = Len(queue) + 1
  BY DEF TypeOK, TaskInv
<1> QED BY <1>2, <1>3, <1>4, OneFewerAwake

\* The place a worker makes is the place of the producer it wakes.
LEMMA WorkerPops ==
  ASSUME PoolInv, ProducerInv, NEW w \in Workers, PopTask(w)
  PROVE  ProducerInv'
<1> USE ThreadPoolAssumption DEF PoolInv, PopTask
<1>1. queue' \in Seq(Tasks) /\ Len(queue') = Len(queue) - 1
  BY DEF TypeOK
<1>2. CASE Waiting(Producers) = {}
  <2>1. \A p \in Producers : pc'[p] = pc[p]
    BY <1>2 DEF TypeOK, Threads, Notify, GoTo
  <2>2. Awake' = Awake /\ Waiting(Producers)' = Waiting(Producers)
    BY <2>1 DEF Awake, Waiting
  <2> QED BY <1>2, <2>2 DEF ProducerInv
<1>3. CASE Waiting(Producers) # {}
  <2>1. MaxQueueSize > 0
    BY <1>3 DEF ProducerInv
  <2>2. PICK q \in Waiting(Producers) : pc' = [pc EXCEPT ![w] = "run", ![q] = "lock"]
    BY <1>3, <2>1 DEF Notify
  <2>3. /\ q \in Producers /\ pc[q] = "wait" /\ pc'[q] = "lock"
        /\ \A p \in Producers \ {q} : pc'[p] = pc[p]
    BY <2>2 DEF TypeOK, Threads, Waiting
  <2>4. q \notin Awake /\ Awake' = Awake \cup {q}
    BY <2>3 DEF Awake
  <2>5. Len(queue') >= Len(queue) - 1
    BY <1>1 DEF TypeOK
  <2> QED BY <1>1, <1>3, <2>4, <2>5, OneMoreAwake
<1> QED BY <1>2, <1>3

LEMMA NextProducerInv ==
  ASSUME PoolInv, ProducerInv, [Next]_vars
  PROVE  ProducerInv'
<1>1. CASE \E p \in Producers, t \in Tasks : Call(p, t)
  BY <1>1, ProducerComes DEF Call
<1>2. CASE \E p \in Producers : SpuriousWakeup(p)
  BY <1>2, ProducerComes DEF SpuriousWakeup
<1>3. CASE \E p \in Producers : TestFull(p) \/ PushTask(p)
  BY <1>3, ProducerTests, ProducerPushes
<1>4. CASE \E w \in Workers : PopTask(w)
  BY <1>4, WorkerPops
<1>5. CASE MainStep \/ CallStop
  BY <1>5, SameProducers, ThreadPoolAssumption
     DEF MainStep, CallStop, Start, StartThread, StartReturns, Lock, Stop, JoinReturns,
         JoinAborts, GoTo, Waiting, PoolInv, TypeOK, Threads
<1>6. CASE \E p \in Producers : Lock(p) \/ \E t \in Tasks : RunInline(p, t)
  BY <1>6, SameProducers, ThreadPoolAssumption
     DEF Lock, RunInline, GoTo, PoolInv, TypeOK, Threads
<1>7. CASE \E w \in Workers : \/ Loop(w) \/ Lock(w) \/ TestEmpty(w) \/ PopNothing(w)
                              \/ TaskReturns(w) \/ SpuriousWakeup(w)
  BY <1>7, SameProducers, ThreadPoolAssumption
     DEF Loop, Lock, TestEmpty, Wait, PopNothing, TaskReturns, SpuriousWakeup, GoTo,
         PoolInv, TypeOK, Threads
<1>8. CASE UNCHANGED vars
  BY <1>8, SameProducers DEF vars
<1> QED BY <1>1, <1>2, <1>3, <1>4, <1>5, <1>6, <1>7, <1>8 DEF Next, ProducerStep, WorkerStep

LEMMA InitProducerInv ==
  ASSUME Init
  PROVE  ProducerInv
<1>1. Awake = {} /\ Waiting(Producers) = {}
  BY DEF Init, Awake, Waiting, Threads
<1> QED BY <1>1, FS_EmptySet DEF ProducerInv

\* While a producer waits, the queue is full or another producer is on its way to
\* it: each pop wakes one producer, and no free place is without one.  Nothing is
\* assumed of how many producers there are.
THEOREM NoLostPlace == Spec => []ProducerAwake
<1>1. Init => PoolInv /\ ProducerInv
  BY InitPoolInv, InitProducerInv
<1>2. (PoolInv /\ ProducerInv) /\ [Next]_vars => (PoolInv /\ ProducerInv)'
  BY NextPoolInv, NextProducerInv
<1>3. PoolInv /\ ProducerInv => ProducerAwake
  <2> SUFFICES ASSUME PoolInv, ProducerInv, Waiting(Producers) # {}, ~IsFull
               PROVE  \E p \in Producers : pc[p] \in {"lock", "test", "push"}
    BY DEF ProducerAwake
  <2>1. MaxQueueSize - Len(queue) > 0
    BY ThreadPoolAssumption DEF ProducerInv, IsFull, PoolInv, TypeOK
  <2>2. PICK n \in Nat : n = Cardinality(Awake) /\ n >= MaxQueueSize - Len(queue)
    BY FS_CardinalityType DEF ProducerInv
  <2>3. n # 0
    BY <2>1, <2>2, ThreadPoolAssumption DEF PoolInv, TypeOK
  <2>4. Awake # {}
    BY <2>2, <2>3, FS_EmptySet
  <2> QED BY <2>4 DEF Awake
<1> QED BY <1>1, <1>2, <1>3, PTL DEF Spec

-------------------------------------------------------------------------------
\* The refinement of TaskQueue.

\* The push of a producer is the Put of the abstract queue.
LEMMA PushPuts ==
  ASSUME PoolInv, NEW p \in Producers, PushTask(p)
  PROVE  \E t \in Tasks : TQ!Put(t)
<1>1. arg[p] \in Tasks
  BY DEF PushTask, PoolInv, TaskInv
<1>2. ~TQ!IsFull
  BY DEF PushTask, PoolInv, RunAsserts, IsFull, TQ!IsFull
<1>3. TQ!Put(arg[p])
  BY <1>2 DEF PushTask, TQ!Put
<1> QED BY <1>1, <1>3

\* The pop of a worker is its Take.
LEMMA PopTakes ==
  ASSUME PoolInv, NEW w \in Workers, PopTask(w)
  PROVE  TQ!Take(w)
<1>1. held[w] = NoTask
  BY DEF PopTask, PoolInv, TaskInv
<1> QED BY <1>1 DEF PopTask, TQ!Take

\* The return of a task is its Finish.
LEMMA ReturnFinishes ==
  ASSUME PoolInv, NEW w \in Workers, TaskReturns(w)
  PROVE  TQ!Finish(w)
<1>1. held[w] # NoTask
  BY DEF TaskReturns, PoolInv, TaskInv
<1> QED BY <1>1 DEF TaskReturns, TQ!Finish

\* Every step of the pool is a step of TaskQueue or changes nothing of it.
LEMMA StepSimulation == PoolInv /\ [Next]_vars => [TQ!Next]_(TQ!vars)
<1> SUFFICES ASSUME PoolInv, [Next]_vars PROVE [TQ!Next]_(TQ!vars)
  OBVIOUS
<1>1. CASE MainStep \/ CallStop
  BY <1>1 DEF MainStep, CallStop, Start, StartThread, StartReturns, Lock, Stop,
              JoinReturns, JoinAborts, TQ!vars
<1>2. CASE \E p \in Producers : ProducerStep(p)
  <2>1. PICK p \in Producers : ProducerStep(p)
    BY <1>2
  <2>2. CASE PushTask(p)
    BY <2>2, PushPuts DEF TQ!Next
  <2> QED
    BY <2>1, <2>2 DEF ProducerStep, RunInline, Call, Lock, TestFull, TQ!vars
<1>3. CASE \E w \in Workers : WorkerStep(w)
  <2>1. PICK w \in Workers : WorkerStep(w)
    BY <1>3
  <2>2. CASE PopTask(w)
    BY <2>2, PopTakes DEF TQ!Next
  <2>3. CASE TaskReturns(w)
    BY <2>3, ReturnFinishes DEF TQ!Next
  <2> QED
    BY <2>1, <2>2, <2>3 DEF WorkerStep, Loop, Lock, TestEmpty, PopNothing, TQ!vars
<1>4. CASE \E t \in Workers \cup Producers : SpuriousWakeup(t)
  BY <1>4 DEF SpuriousWakeup, TQ!vars
<1>5. CASE UNCHANGED vars
  BY <1>5 DEF vars, TQ!vars
<1> QED BY <1>1, <1>2, <1>3, <1>4, <1>5 DEF Next

\* The pool is a bounded first-in first-out queue of tasks to its callers: a task
\* is accepted only when there is a place, started once, after those accepted
\* before it, by a worker that runs nothing else.
THEOREM Refinement == Spec => Implements
<1>1. Init => TQ!Init
  BY DEF Init, TQ!Init
<1>2. PoolInv /\ [Next]_vars => [TQ!Next]_(TQ!vars)
  BY StepSimulation
<1> QED BY <1>1, <1>2, Invariance, PTL DEF Spec, Implements, TQ!Spec
===============================================================================
