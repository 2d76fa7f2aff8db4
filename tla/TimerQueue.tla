------------------------------ MODULE TimerQueue ------------------------------
(***************************************************************************)
(* yj_priority_queue and yj_timer (priority_queue.h, priority_queue.cpp,   *)
(* timer.h, timer.cpp): a binary heap of timer nodes ordered by their      *)
(* expiry time.  A node is never taken out of the middle of the heap:      *)
(* del_timer only marks it, and handle_expire_timers drops marked nodes    *)
(* when they reach the top.  The heap owns its nodes; a request only keeps *)
(* a weak pointer to the node of its last add_timer.                       *)
(*                                                                         *)
(* add_timer and del_timer hold the queue's mutex from their first to      *)
(* their last statement and are one action each.  handle_expire_timers     *)
(* holds it too, but runs for many iterations, each of them a step here;   *)
(* sweeping is TRUE while it holds the mutex.                              *)
(***************************************************************************)
EXTENDS Integers, FiniteSets

CONSTANTS Requests,   \* the HttpRequest objects
          Nodes,      \* the yj_timer nodes that can exist at the same time
          NoNode,     \* what an expired or never set weak pointer locks to
          Timeouts,   \* the durations add_timer is called with
          MaxTime     \* bound on the clock: time stops there

ASSUME TimerQueueAssumption ==
  /\ NoNode \notin Nodes
  /\ Timeouts \subseteq Nat
  /\ MaxTime \in Nat

VARIABLES now,        \* what gettimeofday returns, in milliseconds
          pq,         \* yj_pq_: the nodes in the heap, each with its fields
          timer,      \* HttpRequest::timer_ of each request
          sweeping    \* handle_expire_timers holds mutex_

vars == <<now, pq, timer, sweeping>>

Timer == [request : Requests, key : Nat, deleted : BOOLEAN]

TypeOK ==
  /\ now \in Nat
  /\ DOMAIN pq \subseteq Nodes
  /\ pq \in [DOMAIN pq -> Timer]
  /\ timer \in [Requests -> Nodes \cup {NoNode}]
  /\ sweeping \in BOOLEAN

Init == /\ now = 0
        /\ pq = [n \in {} |-> 0]
        /\ timer = [r \in Requests |-> NoNode]
        /\ sweeping = FALSE

\* A node whose deadline still counts.
Live(n) == ~pq[n].deleted

\* min(): a node with the smallest key is at the top of the heap.  Which of
\* several is unspecified.
IsTop(n) == \A m \in DOMAIN pq : pq[n].key <= pq[m].key

\* insert(): the new node joins the heap.
Push(n, fields) ==
  pq' = [m \in DOMAIN pq \cup {n} |-> IF m = n THEN fields ELSE pq[m]]

\* Faulty variant: raw pointers instead of weak ones, which do not expire.
PopKeepsPointers(n) ==
  /\ pq' = [m \in DOMAIN pq \ {n} |-> pq[m]]
  /\ UNCHANGED timer

\* delmin(): the heap drops the only owner of n, so weak pointers to n expire.
Pop(n) ==
  /\ pq' = [m \in DOMAIN pq \ {n} |-> pq[m]]
  /\ timer' = [r \in Requests |-> IF timer[r] = n THEN NoNode ELSE timer[r]]

-------------------------------------------------------------------------------
\* Faulty variant: setTimer forgotten.
AddTimerUnset(r, timeout, n) ==
  /\ ~sweeping
  /\ n \notin DOMAIN pq
  /\ Push(n, [request |-> r, key |-> now + timeout, deleted |-> FALSE])
  /\ UNCHANGED <<now, timer, sweeping>>

\* n is the node make_shared allocates.
AddTimer(r, timeout, n) ==
  /\ ~sweeping
  /\ n \notin DOMAIN pq
  /\ Push(n, [request |-> r, key |-> now + timeout, deleted |-> FALSE])
  /\ timer' = [timer EXCEPT ![r] = n]
  /\ UNCHANGED <<now, sweeping>>

DelTimer(r) ==
  /\ ~sweeping
  /\ pq' = [n \in DOMAIN pq |->
              IF n = timer[r] THEN [pq[n] EXCEPT !.deleted = TRUE] ELSE pq[n]]
  /\ UNCHANGED <<now, timer, sweeping>>

\* handle_expire_timers takes the mutex.
BeginSweep == /\ ~sweeping
              /\ sweeping' = TRUE
              /\ UNCHANGED <<now, pq, timer>>

\* Faulty variant: continue without delmin.
SweepDeletedStays(n) ==
  /\ sweeping
  /\ n \in DOMAIN pq /\ IsTop(n)
  /\ ~Live(n)
  /\ UNCHANGED vars

\* One iteration that finds a marked node at the top.
SweepDeleted(n) ==
  /\ sweeping
  /\ n \in DOMAIN pq /\ IsTop(n)
  /\ ~Live(n)
  /\ Pop(n)
  /\ UNCHANGED <<now, sweeping>>

\* One iteration that finds an expired node: its handler runs, then it is
\* popped.  What the handler does is the business of the module that composes
\* this one; it never calls back into the queue.
SweepExpired(n) ==
  /\ sweeping
  /\ n \in DOMAIN pq /\ IsTop(n)
  /\ Live(n)
  /\ pq[n].key < now
  /\ Pop(n)
  /\ UNCHANGED <<now, sweeping>>

\* Faulty variant: one iteration, if instead of while.
EndSweepEarly ==
  /\ sweeping
  /\ sweeping' = FALSE
  /\ UNCHANGED <<now, pq, timer>>

\* The iteration that returns: the heap is empty or its top has not expired.
EndSweep ==
  /\ sweeping
  /\ \/ DOMAIN pq = {}
     \/ \E n \in DOMAIN pq : IsTop(n) /\ Live(n) /\ pq[n].key >= now
  /\ sweeping' = FALSE
  /\ UNCHANGED <<now, pq, timer>>

Tick == /\ now < MaxTime
        /\ now' = now + 1
        /\ UNCHANGED <<pq, timer, sweeping>>

\* The clock is the wall clock: somebody sets it, forward or back.
SetClock(t) == /\ now' = t
               /\ UNCHANGED <<pq, timer, sweeping>>

SweepStep == \/ \E n \in DOMAIN pq : SweepDeleted(n)
             \/ \E n \in DOMAIN pq : SweepExpired(n)
             \/ EndSweep

-------------------------------------------------------------------------------
\* The callers' protocol, which the server establishes: a request is given a
\* timer when it has none that counts, at accept or after a del_timer.
HasLiveTimer(r) == \E n \in DOMAIN pq : pq[n].request = r /\ Live(n)

Next == \/ \E r \in Requests, t \in Timeouts, n \in Nodes :
             ~HasLiveTimer(r) /\ AddTimer(r, t, n)
        \/ \E r \in Requests : DelTimer(r)
        \/ BeginSweep
        \/ SweepStep
        \/ Tick
        \/ \E t \in 0 .. MaxTime : SetClock(t)

\* The thread in handle_expire_timers is not suspended for ever.
Spec == Init /\ [][Next]_vars /\ WF_vars(SweepStep)

-------------------------------------------------------------------------------
\* A weak pointer that locks reaches a node of its own request: del_timer
\* (priority_queue.cpp:43-45) never marks the timer of another connection,
\* although nodes die and their storage is used again.
OwnTimer == \A r \in Requests :
              timer[r] # NoNode => timer[r] \in DOMAIN pq /\ pq[timer[r]].request = r

\* A node that counts is the one its request points to, so del_timer can reach
\* every node that could still fire, however many marked nodes of the same
\* request are still in the heap.
LiveReachable == \A n \in DOMAIN pq : Live(n) => timer[pq[n].request] = n

IInv == TypeOK /\ OwnTimer /\ LiveReachable

\* The heap with lazy deletion implements the set of deadlines: deadlines fire
\* earliest first and only when passed, and a sweep leaves none that has passed;
\* all by the clock of the moment, which may have been set back since.
DeadlinesOf == {<<pq[n].request, pq[n].key>> : n \in {m \in DOMAIN pq : Live(m)}}

D == INSTANCE Deadlines WITH armed <- DeadlinesOf

Implements == D!Spec

\* A sweep comes to an end, so the other threads get the mutex back
\* (priority_queue.cpp:55-80 loops until it finds a reason to return).
SweepEnds == sweeping ~> ~sweeping
==============================================================================
