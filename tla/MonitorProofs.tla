----------------------------- MODULE MonitorProofs -----------------------------
(***************************************************************************)
(* What holder_ says of the mutex, for any number of threads.  tid() is    *)
(* never 0, the mark of a free mutex, hence the hypothesis of each result. *)
(***************************************************************************)
EXTENDS Monitor, TLAPS

\* MonitorInv is inductive.  In a step that locks, the mutex was free and so
\* nobody else is at a label of an owner; in all others the owner stays or
\* leaves.
LEMMA MonitorInvInductive ==
  ASSUME None \notin Threads, MonitorInv, [Next]_vars
  PROVE  MonitorInv'
<1> USE DEF MonitorInv, TypeOK, OwnerInv, Labels
<1>1. CASE UNCHANGED vars
  BY <1>1 DEF vars
<1>2. ASSUME NEW t \in Threads, PthreadLock(t) \/ Reacquire(t)
      PROVE  MonitorInv'
  BY <1>2 DEF PthreadLock, Reacquire, Step
<1>3. ASSUME NEW t \in Threads, AssignHolder(t) \/ GuardAssigns(t)
      PROVE  MonitorInv'
  BY <1>3 DEF AssignHolder, GuardAssigns, Step
<1>4. ASSUME NEW t \in Threads, UnassignHolder(t) \/ GuardUnassigns(t)
      PROVE  MonitorInv'
  BY <1>4 DEF UnassignHolder, GuardUnassigns, Step
<1>5. ASSUME NEW t \in Threads, PthreadUnlock(t) \/ CondWait(t)
      PROVE  MonitorInv'
  BY <1>5 DEF PthreadUnlock, CondWait, Step
<1>6. ASSUME NEW t \in Threads, WakeUp(t) \/ \E s \in Threads : Notify(s, t)
      PROVE  MonitorInv'
  BY <1>6 DEF WakeUp, Notify, Step
<1>7. ASSUME NEW t \in Threads, NotifyAll(t)
      PROVE  MonitorInv'
  BY <1>7 DEF NotifyAll
<1> QED
  BY <1>1, <1>2, <1>3, <1>4, <1>5, <1>6, <1>7 DEF Next

\* The owner of the mutex and the value of holder_ are where the labels say.
THEOREM Invariance == ASSUME None \notin Threads PROVE Spec => []MonitorInv
<1>1. Init => MonitorInv
  BY DEF Init, MonitorInv, TypeOK, OwnerInv, Labels
<1>2. MonitorInv /\ [Next]_vars => MonitorInv'
  BY MonitorInvInductive
<1> QED BY <1>1, <1>2, PTL DEF Spec

\* assertLocked succeeds wherever the mutex is held, and fails for everybody
\* else, although it reads holder_ without the mutex.
THEOREM LockAssertions == ASSUME None \notin Threads PROVE Spec => []LockAsserts
<1>1. MonitorInv => LockAsserts
  BY DEF MonitorInv, TypeOK, OwnerInv, LockAsserts
<1> QED BY <1>1, Invariance, PTL

\* holder_ is 0 between any two holders.
THEOREM HandedOver == ASSUME None \notin Threads PROVE Spec => HandOver
<1>1. MonitorInv /\ [Next]_vars => [holder' # holder => None \in {holder, holder'}]_vars
  <2> SUFFICES ASSUME MonitorInv, [Next]_vars, holder' # holder, holder # None
               PROVE  holder' = None
    OBVIOUS
  <2>1. PICK t \in Threads : \/ AssignHolder(t)
                             \/ GuardAssigns(t)
                             \/ UnassignHolder(t)
                             \/ GuardUnassigns(t)
    BY DEF vars, Next, PthreadLock, PthreadUnlock, CondWait, Notify, NotifyAll,
           WakeUp, Reacquire
  <2>2. CASE UnassignHolder(t) \/ GuardUnassigns(t)
    BY <2>2 DEF UnassignHolder, GuardUnassigns
  <2>3. CASE AssignHolder(t) \/ GuardAssigns(t)
    BY <2>3 DEF AssignHolder, GuardAssigns, Step, MonitorInv, TypeOK, OwnerInv
  <2> QED BY <2>1, <2>2, <2>3
<1> QED BY <1>1, Invariance, PTL DEF Spec, HandOver
===============================================================================
