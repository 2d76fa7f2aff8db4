----------------------------- MODULE CountDownLatch -----------------------------
(***************************************************************************)
(* CountDownLatch (count_down_latch.h, count_down_latch.cpp): each thread  *)
(* of Waiters may call wait once, each of Counters countDown once.  It is  *)
(* a client of Monitor: every step of its mutex_ and condition_ is one of  *)
(* theirs, with holder_ assigned after the mutex is taken.                 *)
(*                                                                         *)
(* The if of countDown is followed by an empty statement                   *)
(* (count_down_latch.cpp:23), so notifyAll is called every time; the loop  *)
(* of wait makes up for it.                                                *)
(***************************************************************************)
EXTENDS Integers

CONSTANTS Waiters, Counters,
          Count,          \* the argument of the constructor
          Nobody          \* the owner of a free mutex

VARIABLES count,          \* count_
          at,             \* where each thread is in its call
          latchOwner,     \* the thread that has the pthread mutex of mutex_
          latchHolder,    \* holder_ of mutex_
          latchPc         \* where each thread is in mutex_ and condition_

Callers == Waiters \cup Counters

Mutex == INSTANCE Monitor WITH Threads <- Callers, None <- Nobody, owner <- latchOwner,
                               holder <- latchHolder, pc <- latchPc

mutexVars == <<latchOwner, latchHolder, latchPc>>

Init == /\ count = Count
        /\ at = [t \in Callers |-> "before"]
        /\ Mutex!Init

Enter(t) == /\ at[t] = "before"
            /\ at' = [at EXCEPT ![t] = "called"]
            /\ UNCHANGED <<count, mutexVars>>

\* The constructor of MutexLockGuard.
Lock(t) == /\ at[t] = "called"
           /\ Mutex!PthreadLock(t) \/ Mutex!AssignHolder(t)
           /\ UNCHANGED <<count, at>>

\* Faulty variant: the condition is not tested.
TestOnce(t) == /\ at[t] = "called" /\ latchPc[t] = "in"
               /\ at' = [at EXCEPT ![t] = "leaving"]
               /\ UNCHANGED <<count, mutexVars>>

\* The condition of wait's loop.
Test(t) == /\ at[t] = "called" /\ latchPc[t] = "in"
           /\ \/ count > 0 /\ Mutex!GuardUnassigns(t) /\ UNCHANGED at
              \/ count <= 0 /\ at' = [at EXCEPT ![t] = "leaving"] /\ UNCHANGED mutexVars
           /\ UNCHANGED count

\* Condition::wait, from the constructor to the destructor of its guard.
Sleep(t) == /\ Mutex!CondWait(t) \/ Mutex!Reacquire(t) \/ Mutex!GuardAssigns(t)
            /\ UNCHANGED <<count, at>>

\* Faulty variant: nobody is notified.
CountDownSilently(t) == /\ at[t] = "called" /\ latchPc[t] = "in"
                        /\ count' = count - 1
                        /\ at' = [at EXCEPT ![t] = "leaving"]
                        /\ UNCHANGED mutexVars

CountDown(t) == /\ at[t] = "called" /\ latchPc[t] = "in"
                /\ count' = count - 1
                /\ at' = [at EXCEPT ![t] = "leaving"]
                /\ Mutex!NotifyAll(t)

\* The destructor of MutexLockGuard; the mutex is free for others before it
\* returns.
Unlock(t) == /\ at[t] = "leaving"
             /\ Mutex!UnassignHolder(t) \/ Mutex!PthreadUnlock(t)
             /\ UNCHANGED <<count, at>>

Leave(t) == /\ at[t] = "leaving" /\ latchPc[t] = "out"
            /\ at' = [at EXCEPT ![t] = "after"]
            /\ UNCHANGED <<count, mutexVars>>

Awaken(t) == /\ Mutex!WakeUp(t)
             /\ UNCHANGED <<count, at>>

\* What a thread that has entered does next.
Inside(t) == \/ Lock(t)
             \/ t \in Waiters /\ (Test(t) \/ Sleep(t))
             \/ t \in Counters /\ CountDown(t)
             \/ Unlock(t)
             \/ Leave(t)
=================================================================================
