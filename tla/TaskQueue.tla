------------------------------ MODULE TaskQueue ------------------------------
(***************************************************************************)
(* What a thread pool promises: tasks wait in one bounded queue, are       *)
(* started in the order they were accepted, each by one worker, and a      *)
(* worker runs one task at a time.  Nothing here of the mutex, of the      *)
(* condition variables or of how the pool is stopped.  ThreadPool          *)
(* implements this module and HttpServer is built on it.                   *)
(***************************************************************************)
EXTENDS Integers, Sequences

CONSTANTS Tasks,          \* the tasks that may be submitted
          Workers,        \* the threads of the pool
          NoTask,         \* what a worker without a task holds
          MaxQueueSize    \* the bound on the queue, 0 for none

VARIABLES queue,          \* accepted tasks no worker has taken yet
          held            \* the task each worker is running

vars == <<queue, held>>

IsFull == MaxQueueSize > 0 /\ Len(queue) >= MaxQueueSize

Init == /\ queue = <<>>
        /\ held = [w \in Workers |-> NoTask]

Put(t) == /\ ~IsFull
          /\ queue' = Append(queue, t)
          /\ UNCHANGED held

Take(w) == /\ held[w] = NoTask
           /\ queue # <<>>
           /\ held' = [held EXCEPT ![w] = Head(queue)]
           /\ queue' = Tail(queue)

Finish(w) == /\ held[w] # NoTask
             /\ held' = [held EXCEPT ![w] = NoTask]
             /\ UNCHANGED queue

Next == \/ \E t \in Tasks : Put(t)
        \/ \E w \in Workers : Take(w) \/ Finish(w)

Spec == Init /\ [][Next]_vars
==============================================================================
