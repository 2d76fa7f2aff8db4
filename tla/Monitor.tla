-------------------------------- MODULE Monitor --------------------------------
(***************************************************************************)
(* MutexLock (mutex.h) with one Condition (condition.h), at the level of   *)
(* the pthread calls and of the assignments to holder_, which assertLocked *)
(* and isLockedByThisThread read without the mutex.                        *)
(*                                                                         *)
(* CountDownLatch is a client of these actions.  ThreadPool takes lock,    *)
(* unlock and wait as single steps and the test of assertLocked as "owner  *)
(* = self"; this module shows that holder_ is good for that.               *)
(***************************************************************************)
CONSTANTS Threads,
          None          \* holder_ = 0; pthread's mutex without an owner

VARIABLES owner,        \* the thread that has the pthread mutex
          holder,       \* holder_
          pc            \* where each thread is

vars == <<owner, holder, pc>>

\* "in" is inside the critical section, where the mutex's users run.
Labels == {"out", "locked", "in", "unlocking", "sleeping", "waiting", "woken", "relocked"}

TypeOK == /\ owner \in Threads \cup {None}
          /\ holder \in Threads \cup {None}
          /\ pc \in [Threads -> Labels]

Init == /\ owner = None
        /\ holder = None
        /\ pc = [t \in Threads |-> "out"]

Step(t, from, to) == pc[t] = from /\ pc' = [pc EXCEPT ![t] = to]

-------------------------------------------------------------------------------
\* MutexLock::lock: pthread_mutex_lock, then assignHolder.

PthreadLock(t) == /\ Step(t, "out", "locked")
                  /\ owner = None
                  /\ owner' = t
                  /\ UNCHANGED holder

AssignHolder(t) == /\ Step(t, "locked", "in")
                   /\ holder' = t
                   /\ UNCHANGED owner

\* MutexLock::unlock: unassignHolder, then pthread_mutex_unlock.

UnassignHolder(t) == /\ Step(t, "in", "unlocking")
                     /\ holder' = None
                     /\ UNCHANGED owner

PthreadUnlock(t) == /\ Step(t, "unlocking", "out")
                    /\ owner' = None
                    /\ UNCHANGED holder

-------------------------------------------------------------------------------
\* Condition::wait and waitForSeconds.

\* The constructor of UnassignGuard.
GuardUnassigns(t) == /\ Step(t, "in", "sleeping")
                     /\ holder' = None
                     /\ UNCHANGED owner

CondWait(t) == /\ Step(t, "sleeping", "waiting")
               /\ owner' = None
               /\ UNCHANGED holder

\* notify and notifyAll are called with the mutex locked.
Notify(s, t) == /\ pc[s] = "in"
                /\ Step(t, "waiting", "woken")
                /\ UNCHANGED <<owner, holder>>

NotifyAll(s) == /\ pc[s] = "in"
                /\ pc' = [t \in Threads |-> IF pc[t] = "waiting" THEN "woken" ELSE pc[t]]
                /\ UNCHANGED <<owner, holder>>

\* The time of waitForSeconds is up, or nothing in particular happened.
WakeUp(t) == /\ Step(t, "waiting", "woken")
             /\ UNCHANGED <<owner, holder>>

Reacquire(t) == /\ Step(t, "woken", "relocked")
                /\ owner = None
                /\ owner' = t
                /\ UNCHANGED holder

\* Faulty variant: UnassignGuard without its destructor.
GuardForgets(t) == /\ Step(t, "relocked", "in")
                   /\ UNCHANGED <<owner, holder>>

\* The destructor of UnassignGuard.
GuardAssigns(t) == /\ Step(t, "relocked", "in")
                   /\ holder' = t
                   /\ UNCHANGED owner

Next == \E t \in Threads : \/ PthreadLock(t)
                           \/ AssignHolder(t)
                           \/ UnassignHolder(t)
                           \/ PthreadUnlock(t)
                           \/ GuardUnassigns(t)
                           \/ CondWait(t)
                           \/ \E s \in Threads : Notify(s, t)
                           \/ NotifyAll(t)
                           \/ WakeUp(t)
                           \/ Reacquire(t)
                           \/ GuardAssigns(t)

Spec == Init /\ [][Next]_vars

-------------------------------------------------------------------------------
\* assertLocked (mutex.h:30) succeeds in a critical section, also in the part
\* that follows a wait; isLockedByThisThread, read at any moment and without the
\* mutex, is true only in the thread that has it; and ~MutexLock finds
\* holder_ = 0 if nobody has it.
LockAsserts == /\ \A t \in Threads : pc[t] = "in" => holder = t
               /\ holder # None => owner = holder

\* No thread's mark is overwritten by the next owner's: between two holders
\* holder_ is 0, although it is reset before the mutex is released.
HandOver == [][holder' # holder => None \in {holder, holder'}]_vars

\* Who has the pthread mutex, and who of them is marked.
OwnerInv == \A t \in Threads :
              /\ owner = t <=> pc[t] \in {"locked", "in", "unlocking", "sleeping", "relocked"}
              /\ holder = t <=> pc[t] = "in"

MonitorInv == TypeOK /\ OwnerInv
===============================================================================
