--------------------------- MODULE TimerQueueProofs ---------------------------
(***************************************************************************)
(* Proofs about TimerQueue, for any set of requests and of nodes.          *)
(*                                                                         *)
(* OwnTimer and LiveReachable hold only together: del_timer marks the node *)
(* the request points to, so without OwnTimer it could mark the node of    *)
(* another request, and add_timer may overwrite the pointer only because   *)
(* the node it pointed to is marked, which LiveReachable says.  The two,   *)
(* with the types, are inductive, and they are what the refinement of      *)
(* Deadlines needs: a request has at most one node that counts, and        *)
(* del_timer reaches it.                                                   *)
(***************************************************************************)
EXTENDS TimerQueue, TLAPS

\* The queue starts with the invariant.
LEMMA InitIInv == Init => IInv
<1> SUFFICES ASSUME Init PROVE IInv
  OBVIOUS
<1>1. DOMAIN pq = {} /\ pq \in [DOMAIN pq -> Timer]
  BY DEF Init
<1>2. TypeOK
  BY <1>1 DEF Init, TypeOK
<1>3. OwnTimer /\ LiveReachable
  BY <1>1 DEF Init, OwnTimer, LiveReachable
<1> QED BY <1>2, <1>3 DEF IInv

-------------------------------------------------------------------------------
\* One lemma per operation: it preserves the invariant.

\* add_timer, under the callers' protocol.
LEMMA AddTimerIInv ==
  ASSUME IInv, NEW r \in Requests, NEW t \in Timeouts, NEW n \in Nodes,
         ~HasLiveTimer(r), AddTimer(r, t, n)
  PROVE  IInv'
<1>1. now + t \in Nat
  BY TimerQueueAssumption DEF IInv, TypeOK
<1>2. TypeOK'
  BY <1>1 DEF IInv, TypeOK, AddTimer, Push, Timer
<1>3. OwnTimer'
  BY DEF IInv, TypeOK, OwnTimer, AddTimer, Push
<1>4. LiveReachable'
  BY DEF IInv, TypeOK, LiveReachable, HasLiveTimer, Live, AddTimer, Push, Timer
<1> QED BY <1>2, <1>3, <1>4 DEF IInv

\* del_timer.
LEMMA DelTimerIInv ==
  ASSUME IInv, NEW r \in Requests, DelTimer(r)
  PROVE  IInv'
<1>1. TypeOK'
  BY DEF IInv, TypeOK, DelTimer, Timer
<1>2. OwnTimer'
  BY DEF IInv, TypeOK, OwnTimer, DelTimer, Timer
<1>3. LiveReachable'
  BY DEF IInv, TypeOK, LiveReachable, Live, DelTimer, Timer
<1> QED BY <1>1, <1>2, <1>3 DEF IInv

\* Both kinds of sweep iteration end with delmin.
LEMMA PopIInv ==
  ASSUME IInv, NEW n \in DOMAIN pq, Pop(n), UNCHANGED <<now, sweeping>>
  PROVE  IInv'
<1>1. TypeOK'
  BY DEF IInv, TypeOK, Pop
<1>2. OwnTimer'
  BY TimerQueueAssumption DEF IInv, TypeOK, OwnTimer, Pop
<1>3. LiveReachable'
  BY DEF IInv, TypeOK, LiveReachable, Live, Pop, Timer
<1> QED BY <1>1, <1>2, <1>3 DEF IInv

\* What only moves the clock or the mutex.
LEMMA SameHeapIInv ==
  ASSUME IInv, UNCHANGED <<pq, timer>>, now' \in Nat, sweeping' \in BOOLEAN
  PROVE  IInv'
  BY DEF IInv, TypeOK, OwnTimer, LiveReachable, Live

\* Every step preserves the invariant.
LEMMA NextIInv == IInv /\ [Next]_vars => IInv'
<1> SUFFICES ASSUME IInv, [Next]_vars PROVE IInv'
  OBVIOUS
<1>1. CASE \E r \in Requests, t \in Timeouts, n \in Nodes :
             ~HasLiveTimer(r) /\ AddTimer(r, t, n)
  BY <1>1, AddTimerIInv
<1>2. CASE \E r \in Requests : DelTimer(r)
  BY <1>2, DelTimerIInv
<1>3. CASE BeginSweep
  BY <1>3, SameHeapIInv DEF BeginSweep, IInv, TypeOK
<1>4. CASE \E n \in DOMAIN pq : SweepDeleted(n)
  BY <1>4, PopIInv DEF SweepDeleted
<1>5. CASE \E n \in DOMAIN pq : SweepExpired(n)
  BY <1>5, PopIInv DEF SweepExpired
<1>6. CASE EndSweep
  BY <1>6, SameHeapIInv DEF EndSweep, IInv, TypeOK
<1>7. CASE Tick
  BY <1>7, SameHeapIInv DEF Tick, IInv, TypeOK
<1>8. CASE \E t \in 0 .. MaxTime : SetClock(t)
  BY <1>8, SameHeapIInv, TimerQueueAssumption DEF SetClock, IInv, TypeOK
<1>9. CASE UNCHANGED vars
  BY <1>9, SameHeapIInv DEF vars, IInv, TypeOK
<1> QED
  BY <1>1, <1>2, <1>3, <1>4, <1>5, <1>6, <1>7, <1>8, <1>9 DEF Next, SweepStep

\* In every reachable state the variables have their types, a pointer to a timer
\* that locks reaches a timer of its own request, and every timer that counts
\* is within del_timer's reach: no deadline is ever left that nobody can cancel.
THEOREM Invariance == Spec => []IInv
<1>1. Init => IInv
  BY InitIInv
<1>2. IInv /\ [Next]_vars => IInv'
  BY NextIInv
<1> QED BY <1>1, <1>2, PTL DEF Spec

\* The variables keep their types.
THEOREM TypeCorrect == Spec => []TypeOK
<1>1. IInv => TypeOK
  BY DEF IInv
<1> QED BY <1>1, Invariance, PTL

\* No request holds a pointer to another one's timer, whatever was added, marked,
\* popped and allocated again before: del_timer cancels nobody else's deadline.
THEOREM NoStrangersTimer == Spec => []OwnTimer
<1>1. IInv => OwnTimer
  BY DEF IInv
<1> QED BY <1>1, Invariance, PTL

\* del_timer reaches every timer of its request that counts, so that no deadline is
\* left that nobody can cancel.
THEOREM Reachability == Spec => []LiveReachable
<1>1. IInv => LiveReachable
  BY DEF IInv
<1> QED BY <1>1, Invariance, PTL

-------------------------------------------------------------------------------
\* The refinement of Deadlines.

\* A request has a deadline exactly when a node of its that counts is queued.
LEMMA ArmedIffLive ==
  ASSUME IInv, NEW r \in Requests
  PROVE  D!Armed(r) <=> HasLiveTimer(r)
<1>1. ASSUME D!Armed(r) PROVE HasLiveTimer(r)
  <2>1. PICK d \in DeadlinesOf : d[1] = r
    BY <1>1 DEF D!Armed
  <2>2. PICK n \in DOMAIN pq : Live(n) /\ d = <<pq[n].request, pq[n].key>>
    BY <2>1 DEF DeadlinesOf
  <2> QED BY <2>1, <2>2 DEF HasLiveTimer
<1>2. ASSUME HasLiveTimer(r) PROVE D!Armed(r)
  <2>1. PICK n \in DOMAIN pq : pq[n].request = r /\ Live(n)
    BY <1>2 DEF HasLiveTimer
  <2>2. <<r, pq[n].key>> \in DeadlinesOf
    BY <2>1 DEF DeadlinesOf
  <2> QED BY <2>2 DEF D!Armed
<1> QED BY <1>1, <1>2

\* Nodes that count belong to different requests.
LEMMA OneLiveTimer ==
  ASSUME IInv, NEW m \in DOMAIN pq, NEW n \in DOMAIN pq, Live(m), Live(n),
         pq[m].request = pq[n].request
  PROVE  m = n
  BY DEF IInv, LiveReachable

\* add_timer arms one deadline and touches no other.
LEMMA AddTimerArms ==
  ASSUME IInv, NEW r \in Requests, NEW t \in Timeouts, NEW n \in Nodes,
         ~HasLiveTimer(r), AddTimer(r, t, n)
  PROVE  D!Arm(r, t)
<1>1. ~D!Armed(r)
  BY ArmedIffLive
<1>2. DeadlinesOf' = DeadlinesOf \cup {<<r, now + t>>}
  BY DEF DeadlinesOf, Live, AddTimer, Push, IInv, TypeOK
<1> QED BY <1>1, <1>2 DEF D!Arm, AddTimer

\* del_timer disarms every deadline of its request and no other.
LEMMA DelTimerDisarms ==
  ASSUME IInv, NEW r \in Requests, DelTimer(r)
  PROVE  D!Disarm(r)
<1>1. \A n \in DOMAIN pq' : n \in DOMAIN pq
                            /\ pq'[n].request = pq[n].request
                            /\ pq'[n].key = pq[n].key
                            /\ (pq'[n].deleted <=> pq[n].deleted \/ n = timer[r])
  BY DEF DelTimer, IInv, TypeOK, Timer
<1>2. \A n \in DOMAIN pq : Live(n) => (n = timer[r] <=> pq[n].request = r)
  BY TimerQueueAssumption DEF IInv, TypeOK, OwnTimer, LiveReachable
<1>3. DOMAIN pq' = DOMAIN pq
  BY DEF DelTimer
<1>4. DeadlinesOf' = {d \in DeadlinesOf : d[1] # r}
  BY <1>1, <1>2, <1>3 DEF DeadlinesOf, Live
<1> QED BY <1>4 DEF D!Disarm, DelTimer

\* Dropping a marked node changes no deadline.
LEMMA SweepDeletedStutters ==
  ASSUME IInv, NEW n \in DOMAIN pq, SweepDeleted(n)
  PROVE  UNCHANGED D!vars
<1>1. DeadlinesOf' = DeadlinesOf
  BY DEF DeadlinesOf, Live, SweepDeleted, Pop
<1> QED BY <1>1 DEF D!vars, SweepDeleted

\* An expired node at the top is the earliest deadline.
LEMMA SweepExpiredFires ==
  ASSUME IInv, NEW n \in DOMAIN pq, SweepExpired(n)
  PROVE  \E d \in DeadlinesOf : D!Fire(d)
<1> DEFINE d == <<pq[n].request, pq[n].key>>
<1>1. d \in DeadlinesOf
  BY DEF DeadlinesOf, SweepExpired
<1>2. \A e \in DeadlinesOf : d[2] <= e[2]
  BY DEF DeadlinesOf, SweepExpired, IsTop
<1>3. DeadlinesOf' = DeadlinesOf \ {d}
  <2>1. \A m \in DOMAIN pq : Live(m) /\ m # n => <<pq[m].request, pq[m].key>> # d
    BY OneLiveTimer DEF SweepExpired
  <2> QED BY <2>1 DEF DeadlinesOf, Live, SweepExpired, Pop
<1> QED BY <1>1, <1>2, <1>3 DEF D!Fire, SweepExpired

\* When the sweep returns no deadline has passed.
LEMMA EndSweepEnds ==
  ASSUME IInv, EndSweep
  PROVE  D!EndSweep
<1>1. \A e \in DeadlinesOf : now <= e[2]
  <2>1. CASE DOMAIN pq = {}
    BY <2>1 DEF DeadlinesOf
  <2>2. CASE \E n \in DOMAIN pq : IsTop(n) /\ Live(n) /\ pq[n].key >= now
    <3>1. PICK n \in DOMAIN pq : IsTop(n) /\ pq[n].key >= now
      BY <2>2
    <3>2. \A m \in DOMAIN pq : pq[m].key \in Nat
      BY DEF IInv, TypeOK, Timer
    <3>3. \A m \in DOMAIN pq : now <= pq[m].key
      BY <3>1, <3>2 DEF IsTop, IInv, TypeOK
    <3> QED BY <3>3 DEF DeadlinesOf
  <2> QED BY <2>1, <2>2 DEF EndSweep
<1>2. DeadlinesOf' = DeadlinesOf
  BY DEF DeadlinesOf, Live, EndSweep
<1> QED BY <1>1, <1>2 DEF D!EndSweep, EndSweep

\* The deadlines depend on the heap only.
LEMMA SameHeapSameDeadlines == UNCHANGED pq => UNCHANGED DeadlinesOf
  BY DEF DeadlinesOf, Live

\* Every step of the queue is a step of Deadlines or changes nothing of it.
LEMMA StepSimulation == IInv /\ [Next]_vars => [D!Next]_(D!vars)
<1> SUFFICES ASSUME IInv, [Next]_vars PROVE [D!Next]_(D!vars)
  OBVIOUS
<1>1. CASE \E r \in Requests, t \in Timeouts, n \in Nodes :
             ~HasLiveTimer(r) /\ AddTimer(r, t, n)
  BY <1>1, AddTimerArms DEF D!Next
<1>2. CASE \E r \in Requests : DelTimer(r)
  BY <1>2, DelTimerDisarms DEF D!Next
<1>3. CASE BeginSweep
  BY <1>3, SameHeapSameDeadlines DEF BeginSweep, D!BeginSweep, D!Next
<1>4. CASE \E n \in DOMAIN pq : SweepDeleted(n)
  BY <1>4, SweepDeletedStutters
<1>5. CASE \E n \in DOMAIN pq : SweepExpired(n)
  BY <1>5, SweepExpiredFires DEF D!Next
<1>6. CASE EndSweep
  BY <1>6, EndSweepEnds DEF D!Next
<1>7. CASE Tick
  BY <1>7, SameHeapSameDeadlines DEF Tick, D!Tick, D!Next
<1>8. CASE \E t \in 0 .. MaxTime : SetClock(t)
  BY <1>8, SameHeapSameDeadlines, TimerQueueAssumption DEF SetClock, D!SetClock, D!Next
<1>9. CASE UNCHANGED vars
  BY <1>9, SameHeapSameDeadlines DEF vars, D!vars
<1> QED
  BY <1>1, <1>2, <1>3, <1>4, <1>5, <1>6, <1>7, <1>8, <1>9 DEF Next, SweepStep

\* An empty heap has no deadlines.
LEMMA InitSimulation == Init => D!Init
  BY DEF Init, D!Init, DeadlinesOf

\* The heap with lazy deletion is a set of deadlines to its callers: a sweep fires
\* only deadlines that have passed, earliest first, never one that del_timer has
\* cancelled, and does not return while one that has passed is left.
THEOREM Refinement == Spec => Implements
<1>1. Init => D!Init
  BY InitSimulation
<1>2. IInv /\ [Next]_vars => [D!Next]_(D!vars)
  BY StepSimulation
<1> QED BY <1>1, <1>2, Invariance, PTL DEF Spec, Implements, D!Spec
===============================================================================
