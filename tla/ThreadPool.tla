------------------------------ MODULE ThreadPool ------------------------------
(***************************************************************************)
(* ThreadPool (threadpool.h, threadpool.cpp) over MutexLock, Condition and *)
(* Thread: producers call run, workers loop in runInThread and take, and   *)
(* the thread Main calls start and, perhaps, stop.                         *)
(*                                                                         *)
(* One step per acquisition of mutex_, per evaluation of a loop condition  *)
(* and per critical section that ends by releasing the mutex.  A thread at *)
(* "wait" is blocked in pthread_cond_wait; a notified one is at "lock", as *)
(* it has to reacquire the mutex, and then tests its condition again.      *)
(* running_ is read without the mutex by runInThread; that data race can   *)
(* return the old value or the new one, as the step Loop does.             *)
(***************************************************************************)
EXTENDS Integers, Sequences, FiniteSets

CONSTANTS Tasks,          \* the tasks submitted, each once
          Workers,        \* threads_
          Producers,      \* the threads that call run
          Main,           \* the thread that calls start and stop
          NoThread,       \* owner of a free mutex
          NoTask,         \* the empty std::function
          MaxQueueSize,   \* maxQueueSize_
          Spurious,       \* whether a condition wait may return unnotified
          CreateMayFail   \* whether pthread_create may fail

Threads == Workers \cup Producers \cup {Main}

ASSUME ThreadPoolAssumption ==
  /\ Workers \cap Producers = {}
  /\ Main \notin Workers \cup Producers
  /\ NoThread \notin Workers \cup Producers \cup {Main}
  /\ NoTask \notin Tasks
  /\ MaxQueueSize \in Nat
  /\ Spurious \in BOOLEAN
  /\ CreateMayFail \in BOOLEAN

VARIABLES owner,     \* the thread that holds mutex_
          queue,     \* queue_
          running,   \* running_
          pc,        \* where each thread is
          arg,       \* the argument of each producer's current run
          held,      \* the task each worker got from take and is running
          unused,    \* the tasks nobody has submitted yet
          done       \* the tasks that have returned

vars == <<owner, queue, running, pc, arg, held, unused, done>>

MainLabels     == {"off", "start", "idle", "lock", "stop", "join", "stopped", "abort"}
ProducerLabels == {"idle", "lock", "test", "wait", "push"}
WorkerLabels   == {"off", "loop", "lock", "test", "wait", "pop", "run", "exit", "failed"}

TypeOK ==
  /\ owner \in Threads \cup {NoThread}
  /\ queue \in Seq(Tasks)
  /\ running \in BOOLEAN
  /\ pc \in [Threads -> MainLabels \cup ProducerLabels \cup WorkerLabels]
  /\ pc[Main] \in MainLabels
  /\ \A p \in Producers : pc[p] \in ProducerLabels
  /\ \A w \in Workers : pc[w] \in WorkerLabels
  /\ arg \in [Producers -> Tasks \cup {NoTask}]
  /\ held \in [Workers -> Tasks \cup {NoTask}]
  /\ unused \subseteq Tasks
  /\ done \subseteq Tasks

\* ThreadPool::ThreadPool; no Thread object exists.
Init == /\ owner = NoThread
        /\ queue = <<>>
        /\ running = FALSE
        /\ pc = [t \in Threads |-> IF t \in Producers THEN "idle" ELSE "off"]
        /\ arg = [p \in Producers |-> NoTask]
        /\ held = [w \in Workers |-> NoTask]
        /\ unused = Tasks
        /\ done = {}

IsFull == MaxQueueSize > 0 /\ Len(queue) >= MaxQueueSize

GoTo(t, label) == pc' = [pc EXCEPT ![t] = label]

Waiting(T) == {t \in T : pc[t] = "wait"}

\* Condition::notify: one of the threads of T that wait, if any, is woken; the
\* caller goes on at label.
Notify(T, caller, label) ==
  \/ Waiting(T) = {} /\ GoTo(caller, label)
  \/ \E t \in Waiting(T) : pc' = [pc EXCEPT ![caller] = label, ![t] = "lock"]

\* MutexLock::lock, at the head of a critical section or on return from a wait.
Lock(t) == /\ pc[t] = "lock"
           /\ owner = NoThread
           /\ owner' = t
           /\ GoTo(t, IF t = Main THEN "stop" ELSE "test")
           /\ UNCHANGED <<queue, running, arg, held, unused, done>>

\* Condition::wait: the mutex is released and the thread sleeps, atomically.
Wait(t) == /\ owner' = NoThread
           /\ GoTo(t, "wait")

SpuriousWakeup(t) == /\ Spurious
                     /\ pc[t] = "wait"
                     /\ GoTo(t, "lock")
                     /\ UNCHANGED <<owner, queue, running, arg, held, unused, done>>

-------------------------------------------------------------------------------
\* ThreadPool::start

Start == /\ pc[Main] = "off"
         /\ running' = TRUE
         /\ GoTo(Main, "start")
         /\ UNCHANGED <<owner, queue, arg, held, unused, done>>

\* Thread::start for one worker.  If pthread_create fails, started_ is reset
\* and the loop of ThreadPool::start goes on.
StartThread(w) ==
  /\ pc[Main] = "start"
  /\ pc[w] = "off"
  /\ \/ GoTo(w, "loop")
     \/ CreateMayFail /\ GoTo(w, "failed")
  /\ UNCHANGED <<owner, queue, running, arg, held, unused, done>>

StartReturns ==
  /\ pc[Main] = "start"
  /\ \A w \in Workers : pc[w] # "off"
  /\ GoTo(Main, "idle")
  /\ UNCHANGED <<owner, queue, running, arg, held, unused, done>>

Started == pc[Main] \notin {"off", "start"}

-------------------------------------------------------------------------------
\* ThreadPool::run

\* Without worker threads, or before start has made any, the caller runs the
\* task itself.
RunInline(p, t) ==
  /\ \/ pc[Main] = "off"
     \/ Started /\ Workers = {}
  /\ pc[p] = "idle"
  /\ t \in unused
  /\ unused' = unused \ {t}
  /\ done' = done \cup {t}
  /\ UNCHANGED <<owner, queue, running, pc, arg, held>>

Call(p, t) ==
  /\ Started /\ Workers # {}
  /\ pc[p] = "idle"
  /\ t \in unused
  /\ unused' = unused \ {t}
  /\ arg' = [arg EXCEPT ![p] = t]
  /\ GoTo(p, "lock")
  /\ UNCHANGED <<owner, queue, running, held, done>>

\* Faulty variant: no loop around the wait, nor a test.
TestFullSkipped(p) ==
  /\ pc[p] = "test"
  /\ GoTo(p, "push")
  /\ UNCHANGED <<owner, queue, running, arg, held, unused, done>>

TestFull(p) ==
  /\ pc[p] = "test"
  /\ \/ IsFull /\ Wait(p)
     \/ ~IsFull /\ GoTo(p, "push") /\ UNCHANGED owner
  /\ UNCHANGED <<queue, running, arg, held, unused, done>>

\* Faulty variant: no notify.
PushTaskSilently(p) ==
  /\ pc[p] = "push"
  /\ queue' = Append(queue, arg[p])
  /\ arg' = [arg EXCEPT ![p] = NoTask]
  /\ GoTo(p, "idle")
  /\ owner' = NoThread
  /\ UNCHANGED <<running, held, unused, done>>

PushTask(p) ==
  /\ pc[p] = "push"
  /\ queue' = Append(queue, arg[p])
  /\ arg' = [arg EXCEPT ![p] = NoTask]
  /\ Notify(Workers, p, "idle")
  /\ owner' = NoThread
  /\ UNCHANGED <<running, held, unused, done>>

-------------------------------------------------------------------------------
\* ThreadPool::runInThread and ThreadPool::take

Loop(w) ==
  /\ pc[w] = "loop"
  /\ GoTo(w, IF running THEN "lock" ELSE "exit")
  /\ UNCHANGED <<owner, queue, running, arg, held, unused, done>>

TestEmpty(w) ==
  /\ pc[w] = "test"
  /\ \/ queue = <<>> /\ running /\ Wait(w)
     \/ ~(queue = <<>> /\ running) /\ GoTo(w, "pop") /\ UNCHANGED owner
  /\ UNCHANGED <<queue, running, arg, held, unused, done>>

\* Faulty variants: no pop_front; no notify.
PopTaskKeeps(w) ==
  /\ pc[w] = "pop"
  /\ queue # <<>>
  /\ held' = [held EXCEPT ![w] = Head(queue)]
  /\ IF MaxQueueSize > 0 THEN Notify(Producers, w, "run") ELSE GoTo(w, "run")
  /\ owner' = NoThread
  /\ UNCHANGED <<queue, running, arg, unused, done>>

PopTaskSilently(w) ==
  /\ pc[w] = "pop"
  /\ queue # <<>>
  /\ held' = [held EXCEPT ![w] = Head(queue)]
  /\ queue' = Tail(queue)
  /\ GoTo(w, "run")
  /\ owner' = NoThread
  /\ UNCHANGED <<running, arg, unused, done>>

PopTask(w) ==
  /\ pc[w] = "pop"
  /\ queue # <<>>
  /\ held' = [held EXCEPT ![w] = Head(queue)]
  /\ queue' = Tail(queue)
  /\ IF MaxQueueSize > 0 THEN Notify(Producers, w, "run") ELSE GoTo(w, "run")
  /\ owner' = NoThread
  /\ UNCHANGED <<running, arg, unused, done>>

\* The pool was stopped: take returns an empty task, which is not called.
PopNothing(w) ==
  /\ pc[w] = "pop"
  /\ queue = <<>>
  /\ GoTo(w, "loop")
  /\ owner' = NoThread
  /\ UNCHANGED <<queue, running, arg, held, unused, done>>

TaskReturns(w) ==
  /\ pc[w] = "run"
  /\ held' = [held EXCEPT ![w] = NoTask]
  /\ done' = done \cup {held[w]}
  /\ GoTo(w, "loop")
  /\ UNCHANGED <<owner, queue, running, arg, unused>>

-------------------------------------------------------------------------------
\* ThreadPool::stop

CallStop == /\ pc[Main] = "idle"
            /\ GoTo(Main, "lock")
            /\ UNCHANGED <<owner, queue, running, arg, held, unused, done>>

\* Faulty variant: no notifyAll.
StopSilently == /\ pc[Main] = "stop"
                /\ running' = FALSE
                /\ GoTo(Main, "join")
                /\ owner' = NoThread
                /\ UNCHANGED <<queue, arg, held, unused, done>>

\* notifyAll wakes the workers; producers wait on the other condition.
Stop == /\ pc[Main] = "stop"
        /\ running' = FALSE
        /\ pc' = [t \in Threads |-> IF t = Main THEN "join"
                                    ELSE IF t \in Waiting(Workers) THEN "lock"
                                    ELSE pc[t]]
        /\ owner' = NoThread
        /\ UNCHANGED <<queue, arg, held, unused, done>>

\* Faulty variant: the threads are not joined.
JoinNothing == /\ pc[Main] = "join"
               /\ GoTo(Main, "stopped")
               /\ UNCHANGED <<owner, queue, running, arg, held, unused, done>>

\* for_each(Thread::join) returns when every worker has been joined, and stops
\* at the assertion of Thread::join at one that was never created.
JoinReturns == /\ pc[Main] = "join"
               /\ \A w \in Workers : pc[w] = "exit"
               /\ GoTo(Main, "stopped")
               /\ UNCHANGED <<owner, queue, running, arg, held, unused, done>>

JoinAborts == /\ pc[Main] = "join"
              /\ \E w \in Workers : pc[w] = "failed"
              /\ GoTo(Main, "abort")
              /\ UNCHANGED <<owner, queue, running, arg, held, unused, done>>

-------------------------------------------------------------------------------
MainStep == \/ Start
            \/ \E w \in Workers : StartThread(w)
            \/ StartReturns
            \/ Lock(Main)
            \/ Stop
            \/ JoinReturns
            \/ JoinAborts

ProducerStep(p) == \/ \E t \in Tasks : RunInline(p, t)
                   \/ \E t \in Tasks : Call(p, t)
                   \/ Lock(p)
                   \/ TestFull(p)
                   \/ PushTask(p)

WorkerStep(w) == \/ Loop(w)
                 \/ Lock(w)
                 \/ TestEmpty(w)
                 \/ PopTask(w)
                 \/ PopNothing(w)
                 \/ TaskReturns(w)

Next == \/ MainStep
        \/ CallStop
        \/ \E p \in Producers : ProducerStep(p)
        \/ \E w \in Workers : WorkerStep(w)
        \/ \E t \in Workers \cup Producers : SpuriousWakeup(t)

\* Every thread that can go on does, and so every task returns; nothing obliges
\* Main to call stop.  Waits return without a cause now and then, not for ever.
Fairness == /\ <>[][\A t \in Workers \cup Producers : ~SpuriousWakeup(t)]_vars
            /\ WF_vars(MainStep)
            /\ \A p \in Producers : WF_vars(ProducerStep(p))
            /\ \A w \in Workers : WF_vars(WorkerStep(w))

Spec == Init /\ [][Next]_vars /\ Fairness

-------------------------------------------------------------------------------
\* The critical sections exclude each other.
Critical(t) == IF t = Main THEN {"stop"}
               ELSE IF t \in Producers THEN {"test", "push"}
               ELSE {"test", "pop"}

MutexInv == \A t \in Threads : pc[t] \in Critical(t) <=> owner = t

\* The assertion of run (threadpool.cpp:71) that the queue is not full when a
\* task is appended, and the one of isFull (threadpool.cpp:121) that its caller
\* holds the mutex, whatever other producers did while this one was waiting.
RunAsserts == \A p \in Producers : /\ pc[p] \in {"test", "push"} => owner = p
                                   /\ pc[p] = "push" => ~IsFull

\* The queue never holds more tasks than setMaxQueueSize allows.
Bounded == MaxQueueSize > 0 => Len(queue) <= MaxQueueSize

\* No wakeup of a worker is lost although notify wakes one thread only
\* (threadpool.cpp:74): when a task is queued, not every living worker waits.
Active == {"loop", "lock", "test", "pop", "run"}

WorkerAwake == queue # <<>> /\ Waiting(Workers) # {} =>
                 \E w \in Workers : pc[w] \in Active

\* No worker sleeps through stop, whenever it read running_ (threadpool.cpp:54
\* and 130), and none leaves before.
NoSleeper == /\ ~running => Waiting(Workers) = {}
             /\ running => \A w \in Workers : pc[w] # "exit"
             /\ pc[Main] = "off" => \A w \in Workers : pc[w] = "off"

\* Nor is one of a producer (threadpool.cpp:112): while a producer waits, the
\* queue is full or another producer is on its way to use the free place.
ProducerAwake == Waiting(Producers) # {} =>
                   \/ IsFull
                   \/ \E p \in Producers : pc[p] \in {"lock", "test", "push"}

\* A task is in one place: not submitted, on its way into run, queued, held by
\* one worker, or done.  Nothing is lost or run twice.
Coming(t) == {p \in Producers : arg[p] = t}
Queued(t) == {i \in DOMAIN queue : queue[i] = t}
Taken(t)  == {w \in Workers : held[w] = t}

Places(t) == Cardinality(Coming(t)) + Cardinality(Queued(t)) + Cardinality(Taken(t))
           + (IF t \in unused THEN 1 ELSE 0)
           + (IF t \in done THEN 1 ELSE 0)

OnePlace == \A t \in Tasks : Places(t) = 1

\* What the places above rest on: who has a task to push, and who one to run.
TaskInv == /\ \A p \in Producers : pc[p] # "idle" => arg[p] \in Tasks /\ Workers # {}
           /\ \A w \in Workers : held[w] # NoTask <=> pc[w] = "run"

\* Places without counting, and what it rests on: who calls run has nothing to
\* push yet.
Single(S) == \A x, y \in S : x = y

Some(S) == IF S = {} THEN 0 ELSE 1

InOnePlace(t) ==
  /\ Single(Coming(t)) /\ Single(Queued(t)) /\ Single(Taken(t))
  /\ Some(Coming(t)) + Some(Queued(t)) + Some(Taken(t))
       + (IF t \in unused THEN 1 ELSE 0) + (IF t \in done THEN 1 ELSE 0) = 1

Whereabouts == /\ \A p \in Producers : pc[p] = "idle" => arg[p] = NoTask
               /\ \A t \in Tasks : InOnePlace(t)

\* A producer waits only for a place in the queue, and for each free place another
\* one has been woken.
Awake == {p \in Producers : pc[p] \in {"lock", "test", "push"}}

ProducerInv ==
  /\ IsFiniteSet(Awake)
  /\ Waiting(Producers) # {} =>
       MaxQueueSize > 0 /\ Cardinality(Awake) >= MaxQueueSize - Len(queue)

PoolInv == TypeOK /\ MutexInv /\ TaskInv /\ RunAsserts /\ Bounded
             /\ WorkerAwake /\ NoSleeper

\* The mutex, the two conditions and the loops implement the queue of tasks:
\* accepted in order, started in that order, each by one worker.
TQ == INSTANCE TaskQueue

Implements == TQ!Spec

\* One worker that could be created is enough (threadpool.cpp:36): an accepted
\* task is run by whatever workers there are, unless the pool is stopped first,
\* in which case it may stay in the queue for ever.
Disabled == ~running \/ \A w \in Workers : pc[w] = "failed"

TaskRuns == \A t \in Tasks :
              (\E i \in DOMAIN queue : queue[i] = t) ~> (t \in done \/ Disabled)

\* A producer blocked by a full queue gets on, with the same exceptions.
ProducerProceeds == \A p \in Producers :
                      pc[p] = "wait" ~> (pc[p] # "wait" \/ Disabled)

\* stop comes to its end: every worker sees running_ = false and leaves its
\* loop, those that were waiting as well as those that were running a task; the
\* assertion of Thread::join (thread.cpp:160) fails if, and only if, some
\* worker could not be created.
StopReturns == pc[Main] = "join" ~>
                 pc[Main] = IF \A w \in Workers : pc[w] = "exit" THEN "stopped" ELSE "abort"
===============================================================================
