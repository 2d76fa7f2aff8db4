--------------------------- MODULE HttpServerProofs ---------------------------
(***************************************************************************)
(* Proofs about HttpServer, for any sets of connections, workers, nodes    *)
(* and addresses, any bounds and any timeout, under Prompt: a connection   *)
(* that has been dispatched is handled before its timer expires.           *)
(*                                                                         *)
(* The invariants of the server hold only together.  That a deleted        *)
(* request is not used needs that every place it could be used from has    *)
(* living requests only (Places) and that ptr_set tells the rest           *)
(* (Pointers); that the sweep deletes nothing in the queue or in a         *)
(* worker's hands needs that their timers have not passed (Unexpired),     *)
(* which the end of the previous sweep established; that the sweep finds   *)
(* a living request behind every node needs TimedUnlessHandled, which in   *)
(* turn needs the invariant of the timer queue, for del_timer to reach     *)
(* the node it should; and that one is kept because the server gives no    *)
(* request a second timer, which is TimedUnlessHandled again.              *)
(*                                                                         *)
(* Each step has a lemma; it also says which step of the timer queue it    *)
(* is, from which TimersInv obtains the queue's invariant by way of        *)
(* TimerQueueProofs.                                                       *)
(***************************************************************************)
EXTENDS HttpServer, FiniteSetTheorems, TLAPS

\* The facts about the timer queue proved there.
TQP == INSTANCE TimerQueueProofs WITH Requests <- Conns, Timeouts <- {Timeout}

-------------------------------------------------------------------------------
\* Sequences and the places made of them.

\* The head and the tail of a sequence make it up.
LEMMA HeadTail ==
  ASSUME NEW S, NEW s \in Seq(S), s # <<>>
  PROVE  /\ 1 \in DOMAIN s /\ Head(s) = s[1] /\ s[1] \in S
         /\ Tail(s) \in Seq(S)
         /\ \A i \in DOMAIN Tail(s) : /\ i \in Nat \ {0} /\ i + 1 \in DOMAIN s
                                      /\ Tail(s)[i] = s[i + 1]
         /\ \A i \in DOMAIN s : i # 1 => /\ i \in Nat /\ i - 1 \in DOMAIN Tail(s)
                                         /\ s[i] = Tail(s)[i - 1]
  OBVIOUS

\* The elements of a sequence.
LEMMA SeqElements ==
  ASSUME NEW S, NEW s \in Seq(S)
  PROVE  \A i \in DOMAIN s : s[i] \in S
  OBVIOUS

\* A function on 1 .. n is a sequence.
LEMMA FunctionIsSeq ==
  ASSUME NEW S, NEW n \in Nat, NEW f, f = [i \in 1 .. n |-> f[i]],
         \A i \in 1 .. n : f[i] \in S
  PROVE  f \in Seq(S)
  OBVIOUS

\* An appended element comes last.
LEMMA AppendLast ==
  ASSUME NEW S, NEW s \in Seq(S), NEW x \in S
  PROVE  /\ Append(s, x) \in Seq(S)
         /\ DOMAIN Append(s, x) = DOMAIN s \cup {Len(s) + 1}
         /\ Len(s) + 1 \notin DOMAIN s
         /\ Append(s, x)[Len(s) + 1] = x
         /\ \A i \in DOMAIN s : Append(s, x)[i] = s[i]
  OBVIOUS

\* main goes on to the next event.
LEMMA NextEventPlaces ==
  ASSUME TypeOK, Places, batch # <<>>, batch' = Tail(batch)
  PROVE  /\ batch' \in Seq([source : Conns \cup {Listener}, err : BOOLEAN])
         /\ \A i, j \in DOMAIN batch' : batch'[i].source = batch'[j].source => i = j
         /\ InBatch' = InBatch \ {Head(batch).source}
         /\ Head(batch).source # Listener => Head(batch).source \in InBatch
<1> DEFINE E == [source : Conns \cup {Listener}, err : BOOLEAN]
<1>1. batch \in Seq(E)
  BY DEF TypeOK
<1>2. /\ 1 \in DOMAIN batch /\ Head(batch) = batch[1]
      /\ Tail(batch) \in Seq(E)
      /\ \A i \in DOMAIN Tail(batch) : /\ i \in Nat \ {0} /\ i + 1 \in DOMAIN batch
                                       /\ Tail(batch)[i] = batch[i + 1]
      /\ \A i \in DOMAIN batch : i # 1 => /\ i \in Nat /\ i - 1 \in DOMAIN Tail(batch)
                                          /\ batch[i] = Tail(batch)[i - 1]
  BY <1>1, HeadTail
<1>3. \A i, j \in DOMAIN batch : batch[i].source = batch[j].source => i = j
  BY DEF Places
<1> HIDE DEF E
<1>4. \A i, j \in DOMAIN batch' : batch'[i].source = batch'[j].source => i = j
  <2> SUFFICES ASSUME NEW i \in DOMAIN Tail(batch), NEW j \in DOMAIN Tail(batch),
                      Tail(batch)[i].source = Tail(batch)[j].source
               PROVE  i = j
    OBVIOUS
  <2>1. i + 1 = j + 1
    BY <1>2, <1>3
  <2> QED BY <1>2, <2>1
<1>5. ASSUME NEW i \in DOMAIN batch'
      PROVE  batch'[i].source \in {batch[j].source : j \in DOMAIN batch} \ {batch[1].source}
  <2>1. i + 1 \in DOMAIN batch /\ i + 1 # 1 /\ batch'[i] = batch[i + 1]
    BY <1>2
  <2> QED BY <1>2, <1>3, <2>1
<1>6. ASSUME NEW j \in DOMAIN batch, j # 1
      PROVE  \E i \in DOMAIN batch' : batch'[i].source = batch[j].source
  BY <1>2, <1>6
<1>7. InBatch' = InBatch \ {Head(batch).source}
  <2>1. {batch'[i].source : i \in DOMAIN batch'}
          = {batch[i].source : i \in DOMAIN batch} \ {batch[1].source}
    BY <1>5, <1>6
  <2> QED BY <1>2, <2>1 DEF InBatch
<1>8. Head(batch).source # Listener => Head(batch).source \in InBatch
  BY <1>2 DEF InBatch
<1> QED BY <1>2, <1>4, <1>7, <1>8 DEF E

\* A worker takes the oldest task.
LEMMA TakePlaces ==
  ASSUME TypeOK, Places, NEW w \in Workers, TP!Take(w)
  PROVE  /\ queue' \in Seq(Conns)
         /\ \A i, j \in DOMAIN queue' : queue'[i] = queue'[j] => i = j
         /\ Head(queue) \in InQueue
         /\ InQueue' = InQueue \ {Head(queue)}
         /\ InHand' = InHand \cup {Head(queue)}
<1>1. queue \in Seq(Conns) /\ queue # <<>> /\ queue' = Tail(queue)
  BY DEF TypeOK, TP!Take
<1>2. /\ 1 \in DOMAIN queue /\ Head(queue) = queue[1] /\ queue[1] \in Conns
      /\ Tail(queue) \in Seq(Conns)
      /\ \A i \in DOMAIN Tail(queue) : /\ i \in Nat \ {0} /\ i + 1 \in DOMAIN queue
                                       /\ Tail(queue)[i] = queue[i + 1]
      /\ \A i \in DOMAIN queue : i # 1 => /\ i \in Nat /\ i - 1 \in DOMAIN Tail(queue)
                                          /\ queue[i] = Tail(queue)[i - 1]
  BY <1>1, HeadTail
<1>3. \A i, j \in DOMAIN queue : queue[i] = queue[j] => i = j
  BY DEF Places
<1>4. \A i, j \in DOMAIN queue' : queue'[i] = queue'[j] => i = j
  <2> SUFFICES ASSUME NEW i \in DOMAIN Tail(queue), NEW j \in DOMAIN Tail(queue),
                      Tail(queue)[i] = Tail(queue)[j]
               PROVE  i = j
    BY <1>1
  <2>1. i + 1 = j + 1
    BY <1>2, <1>3
  <2> QED BY <1>2, <2>1
<1>5. ASSUME NEW i \in DOMAIN queue'
      PROVE  queue'[i] \in InQueue \ {queue[1]}
  <2>1. i + 1 \in DOMAIN queue /\ i + 1 # 1 /\ queue'[i] = queue[i + 1]
    BY <1>1, <1>2
  <2> QED BY <1>2, <1>3, <2>1 DEF InQueue
<1>6. ASSUME NEW j \in DOMAIN queue, j # 1
      PROVE  \E i \in DOMAIN queue' : queue'[i] = queue[j]
  BY <1>1, <1>2, <1>6
<1>7. InQueue' = InQueue \ {Head(queue)}
  BY <1>2, <1>5, <1>6 DEF InQueue
<1>8. InHand' = InHand \cup {Head(queue)}
  <2>1. held \in [Workers -> Conns \cup {NoTask}] /\ held[w] = NoTask
        /\ held' = [held EXCEPT ![w] = queue[1]] /\ queue[1] # NoTask
    BY <1>2, HttpServerAssumption DEF TypeOK, TP!Take
  <2> QED BY <1>2, <2>1 DEF InHand
<1> QED BY <1>1, <1>2, <1>4, <1>7, <1>8 DEF InQueue

\* A task is put into the queue.
LEMMA PutPlaces ==
  ASSUME TypeOK, Places, NEW c \in Conns, c \notin InQueue, queue' = Append(queue, c)
  PROVE  /\ queue' \in Seq(Conns)
         /\ \A i, j \in DOMAIN queue' : queue'[i] = queue'[j] => i = j
         /\ InQueue' = InQueue \cup {c}
<1>1. queue \in Seq(Conns)
  BY DEF TypeOK
<1>2. /\ queue' \in Seq(Conns)
      /\ DOMAIN queue' = DOMAIN queue \cup {Len(queue) + 1}
      /\ queue'[Len(queue) + 1] = c
      /\ \A i \in DOMAIN queue : queue'[i] = queue[i]
  BY <1>1, AppendLast
<1>3. InQueue' = InQueue \cup {c}
  BY <1>2 DEF InQueue
<1>4. \A i, j \in DOMAIN queue' : queue'[i] = queue'[j] => i = j
  BY <1>2 DEF InQueue, Places
<1> QED BY <1>2, <1>3, <1>4

\* A task returns.
LEMMA FinishPlaces ==
  ASSUME TypeOK, Places, NEW w \in Workers, NEW c \in Conns, held[w] = c, TP!Finish(w)
  PROVE  /\ InQueue' = InQueue
         /\ c \in InHand /\ InHand' = InHand \ {c}
<1>1. held \in [Workers -> Conns \cup {NoTask}] /\ held' = [held EXCEPT ![w] = NoTask]
      /\ c # NoTask
  BY HttpServerAssumption DEF TypeOK, TP!Finish
<1>2. \A v \in Workers : held[v] = c => v = w
  BY <1>1 DEF Places
<1>3. c \in InHand /\ InHand' = InHand \ {c}
  BY <1>1, <1>2 DEF InHand
<1> QED BY <1>3 DEF InQueue, TP!Finish
-------------------------------------------------------------------------------
\* What a step leaves alone when it does not write the variables concerned.
LEMMA SamePlaces ==
  ASSUME Places, UNCHANGED <<batch, queue, held, armed, alive>>
  PROVE  Places'
  BY DEF Places, InBatch, InQueue, InHand

LEMMA SamePointers ==
  ASSUME Pointers, UNCHANGED <<batch, alive, address, ptr_set>>
  PROVE  Pointers'
  BY DEF Pointers, InBatch

LEMMA SameAccepted ==
  ASSUME Accepted, UNCHANGED <<batch, alive, conn, backlog>>
  PROVE  Accepted'
  BY DEF Accepted, InBatch

LEMMA SameFds ==
  ASSUME FdOwned, UNCHANGED <<conn, alive, held, wpc>>
  PROVE  FdOwned'
  BY DEF FdOwned

LEMMA SameTimed ==
  ASSUME TimedUnlessHandled, UNCHANGED <<pq, held, wpc, alive>>
  PROVE  TimedUnlessHandled'
  BY DEF TimedUnlessHandled, Untimed, Deadlines, TQ!HasLiveTimer, TQ!Live

LEMMA SameUnexpired ==
  ASSUME Unexpired, UNCHANGED <<pq, now, pc, batch, queue, held>>
  PROVE  Unexpired'
  BY DEF Unexpired, Deadlines, Dispatched, TQ!Live

\* The timer queue of the server is the one TimerQueueProofs is about.
LEMMA SameQueue ==
  /\ TQ!IInv <=> TQP!IInv
  /\ [TQ!Next]_tvars => [TQP!Next]_(TQP!vars)
<1>1. TQ!IInv <=> TQP!IInv
  BY DEF TQ!IInv, TQ!TypeOK, TQ!OwnTimer, TQ!LiveReachable, TQ!Timer, TQ!Live,
         TQP!IInv, TQP!TypeOK, TQP!OwnTimer, TQP!LiveReachable, TQP!Timer, TQP!Live
<1>2. [TQ!Next]_tvars => [TQP!Next]_(TQP!vars)
  BY DEF tvars, TQP!vars, TQ!Timer, TQ!Live, TQP!Timer, TQP!Live,
         TQ!Next, TQ!HasLiveTimer, TQ!AddTimer, TQ!Push, TQ!DelTimer, TQ!BeginSweep,
         TQ!SweepStep, TQ!SweepDeleted, TQ!SweepExpired, TQ!IsTop, TQ!Pop, TQ!EndSweep,
         TQ!Tick, TQ!SetClock,
         TQP!Next, TQP!HasLiveTimer, TQP!AddTimer, TQP!Push, TQP!DelTimer, TQP!BeginSweep,
         TQP!SweepStep, TQP!SweepDeleted, TQP!SweepExpired, TQP!IsTop, TQP!Pop, TQP!EndSweep,
         TQP!Tick, TQP!SetClock
<1> QED BY <1>1, <1>2

\* A step of it keeps its invariant, as TimerQueueProofs shows.
LEMMA TimersInv ==
  ASSUME TQ!IInv, [TQ!Next]_tvars
  PROVE  TQ!IInv'
<1>1. TQP!IInv /\ [TQP!Next]_(TQP!vars)
  BY SameQueue
<1>2. TQP!IInv'
  BY <1>1, TQP!NextIInv, HttpServerAssumption DEF TQP!TimerQueueAssumption
<1>3. TQ!IInv' <=> TQP!IInv'
  BY DEF TQ!IInv, TQ!TypeOK, TQ!OwnTimer, TQ!LiveReachable, TQ!Timer, TQ!Live,
         TQP!IInv, TQP!TypeOK, TQP!OwnTimer, TQP!LiveReachable, TQP!Timer, TQP!Live
<1> QED BY <1>2, <1>3
\* All places have connections.
LEMMA PlacesTyped ==
  ASSUME TypeOK
  PROVE  alive \cup InBatch \cup InQueue \cup InHand \subseteq Conns
<1>1. InBatch \subseteq Conns
  <2>1. \A i \in DOMAIN batch : batch[i] \in [source : Conns \cup {Listener}, err : BOOLEAN]
    BY SeqElements DEF TypeOK
  <2>2. \A i \in DOMAIN batch : batch[i].source \in Conns \cup {Listener}
    BY <2>1
  <2> QED BY <2>2 DEF InBatch
<1>2. InQueue \cup InHand \subseteq Conns
  BY DEF TypeOK, InQueue, InHand
<1> QED BY <1>1, <1>2 DEF TypeOK

\* A descriptor that is closed was open, so not that of a waiting connection.
LEMMA CloseAccepted ==
  ASSUME TypeOK, Accepted, NEW c \in alive, K!Close(c),
         alive' \subseteq alive, InBatch' \subseteq InBatch
  PROVE  Accepted'
<1>1. conn' = [conn EXCEPT ![c] = "closed"] /\ backlog' = backlog
      /\ conn \in [Conns -> {"none", "backlog", "open", "closed"}]
  BY DEF TypeOK, K!Close
<1>2. conn[c] # "backlog"
  BY DEF Accepted
<1>3. \A i \in DOMAIN backlog : backlog[i] \in Conns
  BY DEF TypeOK
<1>4. \A i \in DOMAIN backlog : conn'[backlog[i]] = conn[backlog[i]]
  BY <1>1, <1>2, <1>3 DEF Accepted
<1>5. \A d \in alive \cup InBatch : conn'[d] \in {"open", "closed"}
  BY <1>1 DEF Accepted, InBatch, TypeOK
<1> QED BY <1>1, <1>4, <1>5 DEF Accepted

-------------------------------------------------------------------------------
\* The requests that have a timer that counts.
Timed == {pq[n].request : n \in Deadlines}

LEMMA TimedSet ==
  ASSUME TimedUnlessHandled
  PROVE  Timed = alive \ Untimed
  BY DEF Timed, Deadlines, TimedUnlessHandled, TQ!HasLiveTimer

LEMMA TimedSetNext ==
  ASSUME Timed' = alive' \ Untimed'
  PROVE  TimedUnlessHandled'
  BY DEF Timed, Deadlines, TimedUnlessHandled, TQ!HasLiveTimer

\* add_timer gives a request one.
LEMMA AddTimeoutTimed ==
  ASSUME TQ!IInv, NEW c \in Conns, AddTimeout(c)
  PROVE  /\ \E n \in Nodes : TQ!AddTimer(c, Timeout, n)
         /\ now' = now
         /\ Timed' = Timed \cup {c}
         /\ \A n \in Deadlines' : \/ n \in Deadlines /\ pq'[n] = pq[n]
                                  \/ now' <= pq'[n].key
<1>1. DOMAIN pq \subseteq Nodes /\ pq \in [DOMAIN pq -> TQ!Timer] /\ now \in Nat
  BY DEF TQ!IInv, TQ!TypeOK
<1>2. \E n \in Nodes : n \notin DOMAIN pq
  BY <1>1 DEF AddTimeout
<1>3. PICK n \in Nodes : n \notin DOMAIN pq /\ TQ!AddTimer(c, Timeout, n)
  BY <1>2 DEF AddTimeout
<1>4. /\ DOMAIN pq' = DOMAIN pq \cup {n} /\ now' = now
      /\ pq'[n] = [request |-> c, key |-> now + Timeout, deleted |-> FALSE]
      /\ \A m \in DOMAIN pq : pq'[m] = pq[m]
  BY <1>3 DEF TQ!AddTimer, TQ!Push
<1>5. now <= now + Timeout
  BY <1>1, HttpServerAssumption
<1>6. Deadlines' = Deadlines \cup {n} /\ n \notin Deadlines
  BY <1>3, <1>4 DEF Deadlines, TQ!Live
<1>7. Timed' = Timed \cup {c}
  BY <1>4, <1>6 DEF Timed, Deadlines
<1> QED BY <1>3, <1>4, <1>5, <1>6, <1>7 DEF Deadlines

\* del_timer takes it away.
LEMMA DelTimerTimed ==
  ASSUME TQ!IInv, NEW c \in Conns, TQ!DelTimer(c)
  PROVE  /\ now' = now
         /\ Timed' = Timed \ {c}
         /\ \A n \in Deadlines' : n \in Deadlines /\ pq'[n] = pq[n]
<1>1. /\ DOMAIN pq' = DOMAIN pq /\ now' = now
      /\ \A n \in DOMAIN pq : n # timer[c] => pq'[n] = pq[n]
      /\ timer[c] \in DOMAIN pq => pq'[timer[c]].deleted
  BY DEF TQ!IInv, TQ!TypeOK, TQ!Timer, TQ!DelTimer
<1>2. \A n \in Deadlines : n = timer[c] <=> pq[n].request = c
  BY HttpServerAssumption
     DEF TQ!IInv, TQ!TypeOK, TQ!OwnTimer, TQ!LiveReachable, Deadlines, TQ!Live
<1>3. Deadlines' = Deadlines \ {timer[c]}
  BY <1>1 DEF Deadlines, TQ!Live
<1>4. Timed' = Timed \ {c}
  BY <1>1, <1>2, <1>3 DEF Timed, Deadlines
<1> QED BY <1>1, <1>3, <1>4 DEF Deadlines

\* delmin of a marked node takes none away, delmin of another its request's.
LEMMA PopTimed ==
  ASSUME TQ!IInv, NEW n \in DOMAIN pq, TQ!Pop(n)
  PROVE  /\ Timed' = IF TQ!Live(n) THEN Timed \ {pq[n].request} ELSE Timed
         /\ \A m \in Deadlines' : m \in Deadlines /\ pq'[m] = pq[m]
<1>1. DOMAIN pq' = DOMAIN pq \ {n} /\ \A m \in DOMAIN pq' : pq'[m] = pq[m]
  BY DEF TQ!Pop
<1>2. Deadlines' = Deadlines \ {n}
  BY <1>1 DEF Deadlines, TQ!Live
<1>3. \A m \in Deadlines : TQ!Live(n) => (m = n <=> pq[m].request = pq[n].request)
  BY DEF TQ!IInv, TQ!LiveReachable, Deadlines
<1>4. n \in Deadlines <=> TQ!Live(n)
  BY DEF Deadlines
<1>5. Timed' = IF TQ!Live(n) THEN Timed \ {pq[n].request} ELSE Timed
  <2>1. CASE TQ!Live(n)
    BY <1>1, <1>2, <1>3, <1>4, <2>1 DEF Timed, Deadlines
  <2>2. CASE ~TQ!Live(n)
    BY <1>1, <1>2, <1>4, <2>2 DEF Timed, Deadlines
  <2> QED BY <2>1, <2>2
<1> QED BY <1>1, <1>2, <1>5 DEF Deadlines

\* What Dispatched says of connections.
LEMMA DispatchedPlaces ==
  ASSUME NEW c \in Conns
  PROVE  c \in Dispatched <=> \/ c \in InQueue \cup InHand
                              \/ pc = "events" /\ c \in InBatch
  BY HttpServerAssumption DEF Dispatched, InQueue, InHand, InBatch

LEMMA DispatchedPlacesNext ==
  ASSUME NEW c \in Conns
  PROVE  c \in Dispatched' <=> \/ c \in InQueue' \cup InHand'
                               \/ pc' = "events" /\ c \in InBatch'
  BY HttpServerAssumption DEF Dispatched, InQueue, InHand, InBatch

\* Unexpired outlives a step that adds no timer in the past and dispatches no
\* connection.
LEMMA StillUnexpired ==
  ASSUME TypeOK, TQ!IInv, TQ!IInv', Unexpired, now' = now,
         Dispatched' \cap Conns \subseteq Dispatched,
         \A n \in Deadlines' : \/ n \in Deadlines /\ pq'[n] = pq[n]
                               \/ now' <= pq'[n].key
  PROVE  Unexpired'
<1>1. \A n \in Deadlines' : pq'[n].request \in Conns
  BY DEF Deadlines, TQ!IInv, TQ!TypeOK, TQ!Timer
<1> QED BY <1>1 DEF Unexpired
-------------------------------------------------------------------------------
\* One lemma per step: it keeps the invariant, and to the timer queue it is a step
\* its protocol allows or none.  First main's.

\* The instance of Kernel counts as this module does.
LEMMA KernelCardinality == ASSUME NEW S PROVE K!Cardinality(S) = Cardinality(S)
  BY DEF K!Cardinality, Cardinality

\* epoll_wait reports each ready source once.
LEMMA ReportPlaces ==
  ASSUME TypeOK, Places, K!Report(batch')
  PROVE  /\ batch' \in Seq([source : Conns \cup {Listener}, err : BOOLEAN])
         /\ \A i, j \in DOMAIN batch' : batch'[i].source = batch'[j].source => i = j
         /\ InBatch' \subseteq armed
         /\ armed' = armed \ InBatch'
<1> DEFINE n == Cardinality(K!Ready)
<1>1. IsFiniteSet(K!Ready)
  <2>1. IsFiniteSet(alive \cup {Listener})
    BY FS_AddElement DEF TypeOK
  <2>2. K!Ready \subseteq alive \cup {Listener}
    BY DEF K!Ready, K!ReadyConns, Places
  <2> QED BY <2>1, <2>2, FS_Subset
<1>2. n \in Nat
  BY <1>1, FS_CardinalityType
<1>3. PICK order \in [1 .. n -> K!Ready] :
        /\ \A x \in K!Ready : \E i \in DOMAIN order : order[i] = x
        /\ batch' = [i \in DOMAIN order |-> K!Event(order[i])]
  BY KernelCardinality DEF K!Report
<1>4. \A i, j \in 1 .. n : order[i] = order[j] => i = j
  <2>1. order \in Surjection(1 .. n, K!Ready)
    BY <1>3 DEF Surjection
  <2>2. IsFiniteSet(1 .. n) /\ Cardinality(1 .. n) = n
    BY <1>2, FS_Interval
  <2>3. order \in Injection(1 .. n, K!Ready)
    BY <2>1, <2>2, FS_SurjSameCardinalityImpliesInj
  <2> QED BY <2>3 DEF Injection, IsInjective
<1>5. K!Ready \subseteq Conns \cup {Listener}
  BY DEF TypeOK, K!Ready, K!ReadyConns
<1> HIDE DEF n
<1>6. /\ DOMAIN batch' = 1 .. n
      /\ \A i \in 1 .. n : /\ batch'[i] \in [source : Conns \cup {Listener}, err : BOOLEAN]
                           /\ batch'[i].source = order[i]
  BY <1>3, <1>5 DEF K!Event
<1>7. batch' \in Seq([source : Conns \cup {Listener}, err : BOOLEAN])
  <2>1. batch' = [i \in 1 .. n |-> batch'[i]]
    BY <1>3
  <2> QED BY <1>2, <1>6, <2>1, FunctionIsSeq
<1>8. {batch'[i].source : i \in DOMAIN batch'} = K!Ready
  BY <1>3, <1>6
<1>9. InBatch' = K!ReadyConns
  BY <1>8, HttpServerAssumption DEF InBatch, K!Ready, K!ReadyConns, TypeOK
<1>10. \A i, j \in DOMAIN batch' : batch'[i].source = batch'[j].source => i = j
  BY <1>4, <1>6
<1>11. InBatch' \subseteq armed /\ armed' = armed \ InBatch'
  BY <1>9 DEF K!Report, K!ReadyConns
<1> QED BY <1>7, <1>10, <1>11

LEMMA EPollWaitInv ==
  ASSUME ServerInv, EPollWait
  PROVE  ServerInv' /\ [TQ!Next]_tvars
<1> USE DEF ServerInv, EPollWait
<1>1. /\ batch' \in Seq([source : Conns \cup {Listener}, err : BOOLEAN])
      /\ \A i, j \in DOMAIN batch' : batch'[i].source = batch'[j].source => i = j
      /\ InBatch' \subseteq armed
      /\ armed' = armed \ InBatch'
  BY ReportPlaces
<1>2. InBatch = {} /\ InQueue' = InQueue /\ InHand' = InHand
  BY DEF InBatch, InQueue, InHand, pvars
<1>3. TypeOK'
  BY <1>1 DEF TypeOK, K!Report, pvars, ovars
<1>4. Places'
  BY <1>1, <1>2 DEF Places, pvars, ovars
<1>5. Pointers'
  BY <1>1, <1>2 DEF Places, Pointers, TypeOK, ovars
<1>6. Accepted'
  BY <1>1 DEF Accepted, Places, K!Report, ovars
<1>7. FdOwned' /\ TimedUnlessHandled'
  BY SameFds, SameTimed DEF K!Report, pvars, ovars, tvars
<1>8. TQ!IInv'
  BY TimersInv DEF tvars
<1>9. Unexpired'
  <2>1. Dispatched' \cap Conns \subseteq Dispatched
    BY DEF Dispatched, pvars
  <2>2. Deadlines' = Deadlines
    BY DEF Deadlines, TQ!Live, tvars
  <2> QED BY <1>8, <2>1, <2>2, StillUnexpired DEF tvars
<1> QED BY <1>3, <1>4, <1>5, <1>6, <1>7, <1>8, <1>9 DEF NoStaleUse

LEMMA BeginSweepInv ==
  ASSUME ServerInv, BeginSweep
  PROVE  ServerInv' /\ [TQ!Next]_tvars
<1> USE DEF ServerInv, BeginSweep, TQ!BeginSweep
<1>1. TypeOK'
  BY DEF TypeOK, pvars, kvars, mvars, ovars
<1>2. Places' /\ Pointers' /\ Accepted' /\ FdOwned' /\ TimedUnlessHandled' /\ Unexpired'
  BY SamePlaces, SamePointers, SameAccepted, SameFds, SameTimed, SameUnexpired
     DEF pvars, kvars, mvars, ovars
<1>3. TQ!Next
  BY DEF TQ!Next
<1> QED BY <1>1, <1>2, <1>3, TimersInv DEF NoStaleUse

LEMMA SweepDeletedInv ==
  ASSUME ServerInv, NEW n \in DOMAIN pq, SweepDeleted(n)
  PROVE  ServerInv' /\ [TQ!Next]_tvars
<1> USE DEF ServerInv, SweepDeleted, TQ!SweepDeleted
<1>1. TypeOK'
  BY DEF TypeOK, pvars, kvars, mvars, ovars
<1>2. Places' /\ Pointers' /\ Accepted' /\ FdOwned'
  BY SamePlaces, SamePointers, SameAccepted, SameFds DEF pvars, kvars, mvars, ovars
<1>3. TQ!Next
  BY DEF TQ!Next, TQ!SweepStep
<1>4. TQ!IInv'
  BY <1>3, TimersInv
<1>5. Timed' = Timed /\ \A m \in Deadlines' : m \in Deadlines /\ pq'[m] = pq[m]
  BY PopTimed
<1>6. TimedUnlessHandled'
  <2>1. Untimed' = Untimed /\ alive' = alive
    BY DEF Untimed, pvars, ovars
  <2> QED BY <1>5, <2>1, TimedSet, TimedSetNext
<1>7. Unexpired'
  <2>1. Dispatched' = Dispatched
    BY DEF Dispatched, pvars, mvars
  <2> QED BY <1>4, <1>5, <2>1, StillUnexpired
<1> QED BY <1>1, <1>2, <1>3, <1>4, <1>6, <1>7 DEF NoStaleUse

\* The handler of an expired node: its request is alive, and under Prompt nobody
\* is handling it.
LEMMA SweepExpiredInv ==
  ASSUME Prompt, ServerInv, NEW n \in DOMAIN pq, SweepExpired(n)
  PROVE  ServerInv' /\ [TQ!Next]_tvars
<1> USE DEF ServerInv, SweepExpired, TQ!SweepExpired
<1> DEFINE c == pq[n].request
<1>1. n \in Deadlines /\ c \in alive /\ c \in Conns
  BY DEF TimedUnlessHandled, Deadlines, TypeOK
<1>2. K!Close(c) /\ Delete(c) /\ ptr_set' = ptr_set \cup {address[c]} /\ UNCHANGED stale
  BY <1>1
<1>3. c \notin InQueue \cup InHand
  <2>1. now \in Nat /\ pq[n].key \in Nat
    BY DEF TQ!IInv, TQ!TypeOK, TQ!Timer
  <2>2. ~(now <= pq[n].key)
    BY <2>1
  <2>3. c \notin Dispatched
    BY <1>1, <2>2 DEF Unexpired
  <2> QED BY <1>1, <2>3, DispatchedPlaces
<1> HIDE DEF c
<1>4. InBatch' = InBatch /\ InQueue' = InQueue /\ InHand' = InHand
  BY DEF InBatch, InQueue, InHand, pvars
<1>5. TypeOK'
  <2>1. IsFiniteSet(alive')
    BY <1>2, FS_RemoveElement DEF TypeOK, Delete
  <2>2. conn' \in [Conns -> {"none", "backlog", "open", "closed"}]
    BY <1>2 DEF TypeOK, K!Close
  <2>3. address[c] \in Addresses
    BY <1>1 DEF TypeOK
  <2> QED BY <1>2, <2>1, <2>2, <2>3 DEF TypeOK, K!Close, Delete, pvars
<1>6. Places'
  BY <1>1, <1>2, <1>3, <1>4 DEF Places, K!Close, Delete, pvars
<1>7. Pointers'
  <2>1. alive' = alive \ {c} /\ address' = address
    BY <1>2 DEF Delete
  <2>2. \A d \in InBatch : address[d] = address[c] /\ d \in alive => d = c
    BY <1>1 DEF Pointers
  <2> QED BY <1>1, <1>2, <1>4, <2>1, <2>2 DEF Pointers
<1>8. Accepted'
  BY <1>1, <1>2, <1>4, CloseAccepted DEF Delete
<1>9. FdOwned'
  BY <1>1, <1>2 DEF FdOwned, TypeOK, K!Close, Delete, pvars
<1>10. TQ!Next
  BY DEF TQ!Next, TQ!SweepStep
<1>11. TQ!IInv'
  BY <1>10, TimersInv
<1>12. Timed' = Timed \ {c} /\ \A m \in Deadlines' : m \in Deadlines /\ pq'[m] = pq[m]
  BY PopTimed DEF c
<1>13. TimedUnlessHandled'
  <2>1. Untimed' = Untimed /\ alive' = alive \ {c}
    BY <1>2 DEF Untimed, pvars, Delete
  <2>2. Timed = alive \ Untimed
    BY TimedSet
  <2> QED BY <1>12, <2>1, <2>2, TimedSetNext
<1>14. Unexpired'
  <2>1. Dispatched' = Dispatched
    BY DEF Dispatched, pvars
  <2> QED BY <1>11, <1>12, <2>1, StillUnexpired
<1>15. NoStaleUse'
  BY <1>2 DEF NoStaleUse
<1> QED BY <1>5, <1>6, <1>7, <1>8, <1>9, <1>10, <1>11, <1>13, <1>14, <1>15

\* The sweep returns only when no timer has passed, so none of those in the batch.
LEMMA EndSweepInv ==
  ASSUME ServerInv, EndSweep
  PROVE  ServerInv' /\ [TQ!Next]_tvars
<1> USE DEF ServerInv, EndSweep, TQ!EndSweep
<1>1. TypeOK'
  BY DEF TypeOK, pvars, kvars, ovars
<1>2. Places' /\ Pointers' /\ Accepted' /\ FdOwned' /\ TimedUnlessHandled'
  BY SamePlaces, SamePointers, SameAccepted, SameFds, SameTimed
     DEF pvars, kvars, ovars
<1>3. TQ!Next
  BY DEF TQ!Next, TQ!SweepStep
<1>4. \A n \in Deadlines : now <= pq[n].key
  <2> SUFFICES ASSUME NEW n \in Deadlines PROVE now <= pq[n].key
    OBVIOUS
  <2>1. PICK m \in DOMAIN pq : TQ!IsTop(m) /\ pq[m].key >= now
    BY DEF Deadlines
  <2>2. now \in Nat /\ pq[n].key \in Nat /\ pq[m].key \in Nat
    BY DEF TQ!IInv, TQ!TypeOK, TQ!Timer, Deadlines
  <2>3. pq[m].key <= pq[n].key
    BY <2>1 DEF TQ!IsTop, Deadlines
  <2> QED BY <2>1, <2>2, <2>3
<1>5. Unexpired'
  BY <1>4 DEF Unexpired, Deadlines, TQ!Live
<1> QED BY <1>1, <1>2, <1>3, <1>5, TimersInv DEF NoStaleUse
\* A step that handles the event at the head of the batch takes it off.
LEMMA HandlingFacts ==
  ASSUME TypeOK, Places, NEW x, Handling(x), NextEvent
  PROVE  /\ batch' \in Seq([source : Conns \cup {Listener}, err : BOOLEAN])
         /\ \A i, j \in DOMAIN batch' : batch'[i].source = batch'[j].source => i = j
         /\ InBatch' = InBatch \ {x}
         /\ x # Listener => x \in InBatch
         /\ pc = "events" /\ pc' = "events"
  BY NextEventPlaces DEF Handling, NextEvent

LEMMA AcceptInv ==
  ASSUME ServerInv, NEW c \in Conns, Accept(c)
  PROVE  ServerInv' /\ [TQ!Next]_tvars
<1> USE DEF ServerInv, Accept
<1>1. /\ batch' \in Seq([source : Conns \cup {Listener}, err : BOOLEAN])
      /\ \A i, j \in DOMAIN batch' : batch'[i].source = batch'[j].source => i = j
      /\ InBatch' = InBatch
      /\ pc = "events" /\ pc' = "events"
  <2>1. Listener \notin InBatch
    BY DEF InBatch
  <2> QED BY <2>1, HandlingFacts
<1>2. InQueue' = InQueue /\ InHand' = InHand
  BY DEF InQueue, InHand, pvars
<1>3. /\ backlog \in Seq(Conns) /\ backlog # <<>> /\ c = Head(backlog)
      /\ backlog' = Tail(backlog)
      /\ conn' = [conn EXCEPT ![c] = "open"] /\ armed' = armed \cup {c}
      /\ UNCHANGED <<peer, inbox, sent, edge>>
  BY DEF TypeOK, K!AcceptAndAdd
<1>4. /\ 1 \in DOMAIN backlog /\ c = backlog[1]
      /\ Tail(backlog) \in Seq(Conns)
      /\ \A i \in DOMAIN Tail(backlog) : /\ i \in Nat \ {0} /\ i + 1 \in DOMAIN backlog
                                         /\ Tail(backlog)[i] = backlog[i + 1]
  BY <1>3, HeadTail
<1>5. conn[c] = "backlog" /\ c \notin alive \cup InBatch
  BY <1>4 DEF Accepted
<1>6. PICK a \in Addresses \ {address[d] : d \in alive} :
        address' = [d \in DOMAIN address \cup {c} |-> IF d = c THEN a ELSE address[d]]
  BY DEF New
<1>7. alive' = alive \cup {c}
  BY DEF New
<1>8. TypeOK'
  <2>1. IsFiniteSet(alive')
    BY <1>7, FS_AddElement DEF TypeOK
  <2>2. conn' \in [Conns -> {"none", "backlog", "open", "closed"}]
    BY <1>3 DEF TypeOK
  <2>3. /\ alive' \subseteq DOMAIN address' /\ DOMAIN address' \subseteq Conns
        /\ address' \in [DOMAIN address' -> Addresses]
    BY <1>6, <1>7 DEF TypeOK
  <2> QED BY <1>1, <1>3, <1>4, <2>1, <2>2, <2>3 DEF TypeOK, pvars
<1>9. Places'
  BY <1>1, <1>2, <1>3, <1>5, <1>7 DEF Places, pvars
<1>10. Pointers'
  <2>1. \A d \in alive \cup InBatch : d \in DOMAIN address /\ d # c
    BY <1>5 DEF TypeOK, Pointers
  <2>2. address'[c] = a /\ \A d \in alive \cup InBatch : address'[d] = address[d]
    BY <1>6, <2>1
  <2>3. \A d \in alive : address'[d] # address'[c]
    BY <2>2
  <2>4. InBatch' \subseteq DOMAIN address'
    BY <1>1, <1>6, <2>1
  <2> QED BY <1>1, <1>5, <1>7, <2>2, <2>3, <2>4 DEF Pointers
<1>11. Accepted'
  <2>1. \A i \in DOMAIN backlog' : backlog'[i] # c /\ conn'[backlog'[i]] = "backlog"
    <3> SUFFICES ASSUME NEW i \in DOMAIN Tail(backlog)
                 PROVE  backlog'[i] # c /\ conn'[backlog'[i]] = "backlog"
      BY <1>3
    <3>1. i + 1 \in DOMAIN backlog /\ i + 1 # 1 /\ backlog'[i] = backlog[i + 1]
      BY <1>3, <1>4
    <3>2. backlog[i + 1] # backlog[1] /\ conn[backlog[i + 1]] = "backlog"
      BY <1>4, <3>1 DEF Accepted
    <3>3. backlog[i + 1] \in Conns
      BY <3>1 DEF TypeOK
    <3> QED BY <1>3, <1>4, <3>1, <3>2, <3>3 DEF TypeOK
  <2>2. \A i, j \in DOMAIN backlog' : backlog'[i] = backlog'[j] => i = j
    <3> SUFFICES ASSUME NEW i \in DOMAIN Tail(backlog), NEW j \in DOMAIN Tail(backlog),
                        Tail(backlog)[i] = Tail(backlog)[j]
                 PROVE  i = j
      BY <1>3
    <3>1. i + 1 = j + 1
      BY <1>4 DEF Accepted
    <3> QED BY <1>4, <3>1
  <2>3. \A d \in alive' \cup InBatch' : conn'[d] \in {"open", "closed"}
    BY <1>1, <1>3, <1>7, PlacesTyped DEF Accepted, TypeOK
  <2> QED BY <2>1, <2>2, <2>3 DEF Accepted
<1>12. FdOwned'
  <2>1. \A w \in Workers : held[w] # c
    BY <1>5, HttpServerAssumption DEF Places, InHand
  <2> QED BY <1>3, <1>7, <2>1 DEF FdOwned, TypeOK, pvars
<1>13. /\ \E n \in Nodes : TQ!AddTimer(c, Timeout, n)
       /\ now' = now
       /\ Timed' = Timed \cup {c}
       /\ \A n \in Deadlines' : \/ n \in Deadlines /\ pq'[n] = pq[n]
                                \/ now' <= pq'[n].key
  BY AddTimeoutTimed
<1>14. TQ!Next
  <2>1. ~TQ!HasLiveTimer(c)
    BY <1>5 DEF TimedUnlessHandled, TQ!HasLiveTimer, Deadlines
  <2> QED BY <1>13, <2>1 DEF TQ!Next
<1>15. TQ!IInv'
  BY <1>14, TimersInv
<1>16. TimedUnlessHandled'
  <2>1. Untimed' = Untimed
    BY DEF Untimed, pvars
  <2>2. c \notin Untimed
    BY <1>5, HttpServerAssumption DEF Untimed, Places, InHand
  <2> QED BY <1>7, <1>13, <2>1, <2>2, TimedSet, TimedSetNext
<1>17. Unexpired'
  <2>1. Dispatched' \cap Conns \subseteq Dispatched
    BY <1>1, <1>2, DispatchedPlaces, DispatchedPlacesNext
  <2> QED BY <1>13, <1>15, <2>1, StillUnexpired
<1> QED BY <1>8, <1>9, <1>10, <1>11, <1>12, <1>14, <1>15, <1>16, <1>17 DEF NoStaleUse
LEMMA AcceptFailsInv ==
  ASSUME ServerInv, AcceptFails
  PROVE  ServerInv' /\ [TQ!Next]_tvars
<1> USE DEF ServerInv, AcceptFails
<1>1. TypeOK'
  BY DEF TypeOK, pvars, kvars, mvars, ovars
<1>2. Places' /\ Pointers' /\ Accepted' /\ FdOwned' /\ TimedUnlessHandled' /\ Unexpired'
  BY SamePlaces, SamePointers, SameAccepted, SameFds, SameTimed, SameUnexpired
     DEF tvars, pvars, kvars, mvars, ovars
<1> QED BY <1>1, <1>2, TimersInv DEF NoStaleUse

\* The pointer skipped is that of a deleted request, so it is in no other event.
LEMMA SkipEventInv ==
  ASSUME ServerInv, NEW c \in Conns, SkipEvent(c)
  PROVE  ServerInv' /\ [TQ!Next]_tvars
<1> USE DEF ServerInv, SkipEvent
<1>1. /\ batch' \in Seq([source : Conns \cup {Listener}, err : BOOLEAN])
      /\ \A i, j \in DOMAIN batch' : batch'[i].source = batch'[j].source => i = j
      /\ InBatch' = InBatch \ {c} /\ c \in InBatch
      /\ pc = "events" /\ pc' = "events"
  BY HandlingFacts, HttpServerAssumption
<1>2. InQueue' = InQueue /\ InHand' = InHand
  BY DEF InQueue, InHand, pvars
<1>3. c \notin alive
  BY <1>1 DEF Pointers
<1>4. TypeOK'
  BY <1>1 DEF TypeOK, pvars, kvars, ovars
<1>5. Places'
  BY <1>1, <1>2, <1>3 DEF Places, pvars, kvars, ovars
<1>6. Pointers'
  BY <1>1, <1>3 DEF Pointers, ovars
<1>7. Accepted'
  BY <1>1 DEF Accepted, kvars, ovars
<1>8. FdOwned' /\ TimedUnlessHandled'
  BY SameFds, SameTimed DEF tvars, pvars, kvars, ovars
<1>9. TQ!IInv'
  BY TimersInv
<1>10. Unexpired'
  <2>1. Dispatched' \cap Conns \subseteq Dispatched
    BY <1>1, <1>2, DispatchedPlaces, DispatchedPlacesNext
  <2>2. Deadlines' = Deadlines
    BY DEF Deadlines, TQ!Live, tvars
  <2> QED BY <1>9, <2>1, <2>2, StillUnexpired DEF tvars
<1> QED BY <1>4, <1>5, <1>6, <1>7, <1>8, <1>9, <1>10 DEF NoStaleUse

LEMMA CloseOnErrorInv ==
  ASSUME ServerInv, NEW c \in Conns, CloseOnError(c)
  PROVE  ServerInv' /\ [TQ!Next]_tvars
<1> USE DEF ServerInv, CloseOnError
<1>1. /\ batch' \in Seq([source : Conns \cup {Listener}, err : BOOLEAN])
      /\ \A i, j \in DOMAIN batch' : batch'[i].source = batch'[j].source => i = j
      /\ InBatch' = InBatch \ {c} /\ c \in InBatch
      /\ pc = "events" /\ pc' = "events"
  BY HandlingFacts, HttpServerAssumption DEF Dereferenced
<1>2. InQueue' = InQueue /\ InHand' = InHand
  BY DEF InQueue, InHand, pvars
<1>3. alive' = alive \ {c} /\ address' = address
  BY DEF Delete
<1>4. conn' = [conn EXCEPT ![c] = "closed"] /\ armed' = armed \ {c}
      /\ UNCHANGED <<peer, inbox, sent, backlog, edge>>
  BY DEF K!Close
<1>5. TypeOK'
  <2>1. IsFiniteSet(alive')
    BY <1>3, FS_RemoveElement DEF TypeOK
  <2>2. conn' \in [Conns -> {"none", "backlog", "open", "closed"}]
    BY <1>4 DEF TypeOK
  <2> QED BY <1>1, <1>3, <1>4, <2>1, <2>2 DEF TypeOK, pvars
<1>6. Places'
  BY <1>1, <1>2, <1>3, <1>4 DEF Places, pvars
<1>7. Pointers'
  BY <1>1, <1>3 DEF Pointers
<1>8. Accepted'
  BY <1>1, <1>3, CloseAccepted
<1>9. FdOwned'
  BY <1>3, <1>4 DEF FdOwned, TypeOK, pvars
<1>10. TQ!Next
  BY DEF TQ!Next
<1>11. TQ!IInv'
  BY <1>10, TimersInv
<1>12. /\ now' = now /\ Timed' = Timed \ {c}
       /\ \A n \in Deadlines' : n \in Deadlines /\ pq'[n] = pq[n]
  BY DelTimerTimed
<1>13. TimedUnlessHandled'
  <2>1. Untimed' = Untimed
    BY DEF Untimed, pvars
  <2> QED BY <1>3, <1>12, <2>1, TimedSet, TimedSetNext
<1>14. Unexpired'
  <2>1. Dispatched' \cap Conns \subseteq Dispatched
    BY <1>1, <1>2, DispatchedPlaces, DispatchedPlacesNext
  <2> QED BY <1>11, <1>12, <2>1, StillUnexpired
<1> QED
  BY <1>5, <1>6, <1>7, <1>8, <1>9, <1>10, <1>11, <1>13, <1>14 DEF NoStaleUse

LEMMA DispatchInv ==
  ASSUME ServerInv, NEW c \in Conns, Dispatch(c)
  PROVE  ServerInv' /\ [TQ!Next]_tvars
<1> USE DEF ServerInv, Dispatch
<1>1. /\ batch' \in Seq([source : Conns \cup {Listener}, err : BOOLEAN])
      /\ \A i, j \in DOMAIN batch' : batch'[i].source = batch'[j].source => i = j
      /\ InBatch' = InBatch \ {c} /\ c \in InBatch
      /\ pc = "events" /\ pc' = "events"
  BY HandlingFacts, HttpServerAssumption DEF Dereferenced
<1>2. c \notin InQueue \cup InHand \cup armed
  BY <1>1 DEF Places
<1>3. /\ queue' \in Seq(Conns)
      /\ \A i, j \in DOMAIN queue' : queue'[i] = queue'[j] => i = j
      /\ InQueue' = InQueue \cup {c}
  BY <1>2, PutPlaces DEF TP!Put
<1>4. InHand' = InHand /\ held' = held
  BY DEF InHand, TP!Put
<1>5. TypeOK'
  BY <1>1, <1>3, <1>4 DEF TypeOK, kvars, ovars
<1>6. Places'
  BY <1>1, <1>2, <1>3, <1>4 DEF Places, kvars, ovars
<1>7. Pointers'
  BY <1>1 DEF Pointers, ovars
<1>8. Accepted'
  BY <1>1 DEF Accepted, kvars, ovars
<1>9. FdOwned' /\ TimedUnlessHandled'
  BY <1>4, SameFds, SameTimed DEF tvars, kvars, ovars
<1>10. TQ!IInv'
  BY TimersInv
<1>11. Unexpired'
  <2>1. Dispatched' \cap Conns \subseteq Dispatched
    BY <1>1, <1>3, <1>4, DispatchedPlaces, DispatchedPlacesNext
  <2>2. Deadlines' = Deadlines
    BY DEF Deadlines, TQ!Live, tvars
  <2> QED BY <1>10, <2>1, <2>2, StillUnexpired DEF tvars
<1> QED BY <1>5, <1>6, <1>7, <1>8, <1>9, <1>10, <1>11 DEF NoStaleUse

\* An event whose pointer is not in ptr_set is that of a living request.
LEMMA StaleEventNever ==
  ASSUME ServerInv, NEW c \in Conns, StaleEvent(c)
  PROVE  FALSE
<1>1. c \in InBatch
  <2>1. Handling(c)
    BY DEF StaleEvent, Dereferenced
  <2>2. batch \in Seq([source : Conns \cup {Listener}, err : BOOLEAN]) /\ batch # <<>>
        /\ Head(batch).source = c
    BY <2>1 DEF ServerInv, TypeOK, Handling
  <2>3. 1 \in DOMAIN batch /\ batch[1].source = c
    BY <2>2
  <2> QED BY <2>3, HttpServerAssumption DEF InBatch
<1> QED BY <1>1 DEF ServerInv, Pointers, StaleEvent, Dereferenced
-------------------------------------------------------------------------------
\* The steps of the workers.

\* A worker that goes on with its connection.
LEMMA GoToUntimed ==
  ASSUME TypeOK, Places, NEW w \in Workers, NEW c \in Conns, held[w] = c,
         held' = held, NEW label, GoTo(w, label)
  PROVE  Untimed' = IF label \in {"del", "mod"} THEN Untimed \ {c} ELSE Untimed \cup {c}
<1>1. /\ wpc \in [Workers -> {"del", "read", "respond", "add", "mod", "close", "delete"}]
      /\ wpc' = [wpc EXCEPT ![w] = label]
  BY DEF TypeOK, GoTo
<1>2. \A v \in Workers : held[v] = c <=> v = w
  BY HttpServerAssumption DEF Places
<1>3. wpc'[w] = label /\ \A v \in Workers \ {w} : wpc'[v] = wpc[v]
  BY <1>1
<1>4. CASE label \in {"del", "mod"}
  BY <1>2, <1>3, <1>4 DEF Untimed
<1>5. CASE label \notin {"del", "mod"}
  BY <1>2, <1>3, <1>5 DEF Untimed
<1> QED BY <1>4, <1>5

LEMMA AtUntimed ==
  ASSUME TypeOK, Places, NEW w \in Workers, NEW c \in Conns, held[w] = c
  PROVE  c \in Untimed <=> wpc[w] \notin {"del", "mod"}
  BY HttpServerAssumption DEF Places, Untimed

LEMMA GoToFds ==
  ASSUME TypeOK, FdOwned, NEW w \in Workers, NEW label, GoTo(w, label),
         label # "delete", wpc[w] # "delete", UNCHANGED <<conn, alive, held>>
  PROVE  FdOwned'
<1>1. /\ wpc \in [Workers -> {"del", "read", "respond", "add", "mod", "close", "delete"}]
      /\ wpc' = [wpc EXCEPT ![w] = label]
  BY DEF TypeOK, GoTo
<1>2. \A v \in Workers : wpc'[v] = "delete" <=> wpc[v] = "delete"
  BY <1>1
<1> QED BY <1>2 DEF FdOwned

LEMMA TakeTaskInv ==
  ASSUME ServerInv, NEW w \in Workers, TakeTask(w)
  PROVE  ServerInv' /\ [TQ!Next]_tvars
<1> USE DEF ServerInv, TakeTask
<1> DEFINE c == Head(queue)
<1>1. /\ queue' \in Seq(Conns)
      /\ \A i, j \in DOMAIN queue' : queue'[i] = queue'[j] => i = j
      /\ c \in InQueue
      /\ InQueue' = InQueue \ {c}
      /\ InHand' = InHand \cup {c}
  BY TakePlaces
<1>2. InBatch' = InBatch
  BY DEF InBatch, mvars
<1>3. c \in Conns /\ c # NoTask /\ c \notin InHand
  BY <1>1, PlacesTyped, HttpServerAssumption DEF Places
<1>4. /\ held \in [Workers -> Conns \cup {NoTask}]
      /\ held[w] = NoTask /\ held' = [held EXCEPT ![w] = c]
      /\ wpc \in [Workers -> {"del", "read", "respond", "add", "mod", "close", "delete"}]
      /\ wpc' = [wpc EXCEPT ![w] = "del"]
  BY DEF TypeOK, TP!Take, GoTo
<1>5. \A v \in Workers : held[v] # c
  BY <1>3 DEF InHand
<1> HIDE DEF c
<1>6. TypeOK'
  BY <1>1, <1>3, <1>4 DEF TypeOK, kvars, mvars, ovars
<1>7. Places'
  <2>1. \A u, v \in Workers : held'[u] = held'[v] /\ held'[u] # NoTask => u = v
    BY <1>4, <1>5 DEF Places
  <2> QED BY <1>1, <1>2, <2>1 DEF Places, kvars, mvars, ovars
<1>8. Pointers' /\ Accepted'
  BY SamePointers, SameAccepted DEF kvars, mvars, ovars
<1>10. FdOwned'
  <2>1. \A d \in Conns : \A v \in Workers :
          held'[v] = d /\ wpc'[v] = "delete" <=> held[v] = d /\ wpc[v] = "delete"
    BY <1>4, HttpServerAssumption
  <2> QED BY <2>1 DEF FdOwned, kvars, ovars
<1>11. TimedUnlessHandled'
  <2>1. \A d \in Conns : d \in Untimed' <=> d \in Untimed
    BY <1>4, HttpServerAssumption DEF Untimed
  <2>2. alive' \ Untimed' = alive \ Untimed
    BY <2>1, PlacesTyped DEF ovars
  <2>3. Timed' = Timed
    BY DEF Timed, Deadlines, TQ!Live, tvars
  <2> QED BY <2>2, <2>3, TimedSet, TimedSetNext
<1>12. TQ!IInv'
  BY TimersInv
<1>13. Unexpired'
  <2>1. Dispatched' \cap Conns \subseteq Dispatched
    BY <1>1, <1>2, DispatchedPlaces, DispatchedPlacesNext DEF mvars
  <2>2. Deadlines' = Deadlines
    BY DEF Deadlines, TQ!Live, tvars
  <2> QED BY <1>12, <2>1, <2>2, StillUnexpired DEF tvars
<1> QED BY <1>6, <1>7, <1>8, <1>10, <1>11, <1>12, <1>13 DEF NoStaleUse

LEMMA DelTimerInv ==
  ASSUME ServerInv, NEW w \in Workers, NEW c \in Conns, DelTimer(w, c)
  PROVE  ServerInv' /\ [TQ!Next]_tvars
<1> USE DEF ServerInv, DelTimer, At
<1>1. TypeOK'
  BY DEF TypeOK, GoTo, pvars, kvars, mvars, ovars
<1>2. Places' /\ Pointers' /\ Accepted' /\ FdOwned'
  BY SamePlaces, SamePointers, SameAccepted, GoToFds DEF pvars, kvars, mvars, ovars
<1>3. TQ!Next
  BY DEF TQ!Next
<1>4. TQ!IInv'
  BY <1>3, TimersInv
<1>5. /\ now' = now /\ Timed' = Timed \ {c}
      /\ \A n \in Deadlines' : n \in Deadlines /\ pq'[n] = pq[n]
  BY DelTimerTimed
<1>6. TimedUnlessHandled'
  <2>1. Untimed' = Untimed \cup {c}
    BY GoToUntimed DEF pvars
  <2> QED BY <1>5, <2>1, TimedSet, TimedSetNext DEF ovars
<1>7. Unexpired'
  <2>1. Dispatched' = Dispatched
    BY DEF Dispatched, pvars, mvars
  <2> QED BY <1>4, <1>5, <2>1, StillUnexpired
<1> QED BY <1>1, <1>2, <1>3, <1>4, <1>6, <1>7 DEF NoStaleUse

\* Steps of a worker that change nothing but where it is.
LEMMA MovesOnInv ==
  ASSUME ServerInv, NEW w \in Workers, NEW c \in Conns, held[w] = c,
         wpc[w] \in {"read", "respond"}, NEW label \in {"respond", "add", "close"},
         GoTo(w, label), UNCHANGED <<tvars, pvars, kvars, mvars, ovars, stale, abort>>
  PROVE  ServerInv' /\ [TQ!Next]_tvars
<1> USE DEF ServerInv
<1>1. TypeOK'
  BY DEF TypeOK, GoTo, pvars, kvars, mvars, ovars
<1>2. Places' /\ Pointers' /\ Accepted' /\ FdOwned' /\ Unexpired'
  BY SamePlaces, SamePointers, SameAccepted, GoToFds, SameUnexpired
     DEF tvars, pvars, kvars, mvars, ovars
<1>3. TimedUnlessHandled'
  <2>1. Untimed' = Untimed
    BY GoToUntimed, AtUntimed DEF pvars
  <2>2. Timed' = Timed
    BY DEF Timed, Deadlines, TQ!Live, tvars
  <2> QED BY <2>1, <2>2, TimedSet, TimedSetNext DEF ovars
<1> QED BY <1>1, <1>2, <1>3, TimersInv DEF NoStaleUse

LEMMA ReadDataInv ==
  ASSUME ServerInv, NEW w \in Workers, NEW c \in Conns, ReadData(w, c)
  PROVE  ServerInv' /\ [TQ!Next]_tvars
<1> USE DEF ServerInv, ReadData, K!Read
<1>1. TypeOK'
  BY DEF TypeOK, pvars, mvars, ovars
<1>2. Places' /\ Pointers' /\ Accepted' /\ FdOwned' /\ TimedUnlessHandled' /\ Unexpired'
  BY SamePlaces, SamePointers, SameAccepted, SameFds, SameTimed, SameUnexpired
     DEF tvars, pvars, mvars, ovars
<1> QED BY <1>1, <1>2, TimersInv DEF NoStaleUse

LEMMA AddTimerInv ==
  ASSUME ServerInv, NEW w \in Workers, NEW c \in Conns, AddTimer(w, c)
  PROVE  ServerInv' /\ [TQ!Next]_tvars
<1> USE DEF ServerInv, AddTimer, At
<1>1. TypeOK'
  BY DEF TypeOK, GoTo, pvars, kvars, mvars, ovars
<1>2. Places' /\ Pointers' /\ Accepted' /\ FdOwned'
  BY SamePlaces, SamePointers, SameAccepted, GoToFds DEF pvars, kvars, mvars, ovars
<1>3. /\ \E n \in Nodes : TQ!AddTimer(c, Timeout, n)
      /\ now' = now /\ Timed' = Timed \cup {c}
      /\ \A n \in Deadlines' : \/ n \in Deadlines /\ pq'[n] = pq[n]
                               \/ now' <= pq'[n].key
  BY AddTimeoutTimed
<1>4. TQ!Next
  <2>1. ~TQ!HasLiveTimer(c)
    BY AtUntimed DEF TimedUnlessHandled
  <2> QED BY <1>3, <2>1 DEF TQ!Next
<1>5. TQ!IInv'
  BY <1>4, TimersInv
<1>6. TimedUnlessHandled'
  <2>1. Untimed' = Untimed \ {c}
    BY GoToUntimed DEF pvars
  <2> QED BY <1>3, <2>1, TimedSet, TimedSetNext DEF ovars
<1>7. Unexpired'
  <2>1. Dispatched' = Dispatched
    BY DEF Dispatched, pvars, mvars
  <2> QED BY <1>3, <1>5, <2>1, StillUnexpired
<1> QED BY <1>1, <1>2, <1>4, <1>5, <1>6, <1>7 DEF NoStaleUse
LEMMA RearmInv ==
  ASSUME ServerInv, NEW w \in Workers, NEW c \in Conns, Rearm(w, c)
  PROVE  ServerInv' /\ [TQ!Next]_tvars
<1> USE DEF ServerInv, Rearm, At
<1>1. InBatch' = InBatch /\ InQueue' = InQueue /\ c \in InHand /\ InHand' = InHand \ {c}
  BY FinishPlaces DEF InBatch, mvars
<1>2. /\ held \in [Workers -> Conns \cup {NoTask}] /\ held[w] = c
      /\ held' = [held EXCEPT ![w] = NoTask] /\ queue' = queue
      /\ armed' = armed \cup {c} /\ UNCHANGED <<conn, peer, inbox, sent, backlog, edge>>
  BY DEF TypeOK, TP!Finish, K!Rearm
<1>3. TypeOK'
  BY <1>2 DEF TypeOK, mvars, ovars
<1>4. Places'
  <2>1. \A u, v \in Workers : held'[u] = held'[v] /\ held'[u] # NoTask => u = v
    BY <1>2 DEF Places
  <2>2. UNCHANGED <<batch, queue, alive>>
    BY <1>2 DEF mvars, ovars
  <2> QED BY <1>1, <1>2, <2>1, <2>2 DEF Places
<1>5. Pointers' /\ Accepted'
  BY <1>2, SamePointers, SameAccepted DEF mvars, ovars
<1>6. FdOwned'
  <2>1. \A d \in Conns : \A v \in Workers :
          held'[v] = d /\ wpc'[v] = "delete" <=> held[v] = d /\ wpc[v] = "delete"
    BY <1>2, HttpServerAssumption
  <2> QED BY <1>2, <2>1 DEF FdOwned, ovars
<1>7. TimedUnlessHandled'
  <2>1. \A d \in Conns : d \in Untimed' <=> d \in Untimed
    BY <1>2, HttpServerAssumption DEF Untimed
  <2>2. alive' \ Untimed' = alive \ Untimed
    BY <2>1, PlacesTyped DEF ovars
  <2>3. Timed' = Timed
    BY DEF Timed, Deadlines, TQ!Live, tvars
  <2> QED BY <2>2, <2>3, TimedSet, TimedSetNext
<1>8. TQ!IInv'
  BY TimersInv
<1>9. Unexpired'
  <2>1. Dispatched' \cap Conns \subseteq Dispatched
    BY <1>1, DispatchedPlaces, DispatchedPlacesNext DEF mvars
  <2>2. Deadlines' = Deadlines
    BY DEF Deadlines, TQ!Live, tvars
  <2> QED BY <1>8, <2>1, <2>2, StillUnexpired DEF tvars
<1> QED BY <1>3, <1>4, <1>5, <1>6, <1>7, <1>8, <1>9 DEF NoStaleUse

LEMMA CloseFdInv ==
  ASSUME ServerInv, NEW w \in Workers, NEW c \in Conns, CloseFd(w, c)
  PROVE  ServerInv' /\ [TQ!Next]_tvars
<1> USE DEF ServerInv, CloseFd, At
<1>1. InBatch' = InBatch /\ InQueue' = InQueue /\ InHand' = InHand
  BY DEF InBatch, InQueue, InHand, pvars, mvars
<1>2. /\ conn' = [conn EXCEPT ![c] = "closed"] /\ armed' = armed \ {c}
      /\ UNCHANGED <<peer, inbox, sent, backlog, edge>>
  BY DEF K!Close
<1>3. c \in InHand /\ c \notin armed
  BY HttpServerAssumption DEF InHand, Places
<1>4. /\ wpc \in [Workers -> {"del", "read", "respond", "add", "mod", "close", "delete"}]
      /\ wpc' = [wpc EXCEPT ![w] = "delete"]
  BY DEF TypeOK, GoTo
<1>5. TypeOK'
  <2>1. conn' \in [Conns -> {"none", "backlog", "open", "closed"}]
    BY <1>2 DEF TypeOK
  <2> QED BY <1>2, <1>4, <2>1 DEF TypeOK, pvars, mvars, ovars
<1>6. Places'
  BY <1>1, <1>2, <1>3 DEF Places, pvars, mvars, ovars
<1>7. Pointers' /\ Accepted'
  BY <1>1, SamePointers, CloseAccepted DEF mvars, ovars
<1>8. FdOwned'
  <2>1. held' = held /\ alive' = alive
    BY DEF pvars, ovars
  <2>2. conn'[c] # "open" /\ \A d \in Conns \ {c} : conn'[d] = conn[d]
    BY <1>2 DEF TypeOK
  <2>3. wpc'[w] = "delete" /\ \A v \in Workers \ {w} : wpc'[v] = wpc[v]
    BY <1>4
  <2>4. \A d \in Conns \ {c} : \A v \in Workers : held[v] = d => wpc'[v] = wpc[v]
    BY <2>3
  <2>5. FdOwned /\ held[w] = c
    OBVIOUS
  <2> QED BY ONLY <2>1, <2>2, <2>3, <2>4, <2>5 DEF FdOwned
<1>9. TimedUnlessHandled'
  <2>1. Untimed' = Untimed
    BY GoToUntimed, AtUntimed DEF pvars
  <2>2. Timed' = Timed
    BY DEF Timed, Deadlines, TQ!Live, tvars
  <2> QED BY <2>1, <2>2, TimedSet, TimedSetNext DEF ovars
<1>10. Unexpired'
  BY SameUnexpired DEF tvars, pvars, mvars
<1> QED BY <1>5, <1>6, <1>7, <1>8, <1>9, <1>10, TimersInv DEF NoStaleUse

LEMMA DeleteRequestInv ==
  ASSUME ServerInv, NEW w \in Workers, NEW c \in Conns, DeleteRequest(w, c)
  PROVE  ServerInv' /\ [TQ!Next]_tvars
<1> USE DEF ServerInv, DeleteRequest, At
<1>1. InBatch' = InBatch /\ InQueue' = InQueue /\ c \in InHand /\ InHand' = InHand \ {c}
  BY FinishPlaces DEF InBatch, mvars
<1>2. /\ held \in [Workers -> Conns \cup {NoTask}] /\ held[w] = c
      /\ held' = [held EXCEPT ![w] = NoTask] /\ queue' = queue
  BY DEF TypeOK, TP!Finish
<1>3. alive' = alive \ {c} /\ address' = address
  BY DEF Delete
<1>4. c \notin armed \cup InBatch \cup InQueue
  BY <1>1 DEF Places
<1>5. TypeOK'
  <2>1. IsFiniteSet(alive')
    BY <1>3, FS_RemoveElement DEF TypeOK
  <2> QED BY <1>2, <1>3, <2>1 DEF TypeOK, kvars, mvars
<1>6. Places'
  <2>1. \A u, v \in Workers : held'[u] = held'[v] /\ held'[u] # NoTask => u = v
    BY <1>2 DEF Places
  <2>2. UNCHANGED <<batch, queue, armed>>
    BY <1>2 DEF mvars, kvars
  <2> QED BY <1>1, <1>3, <1>4, <2>1, <2>2 DEF Places
<1>7. Pointers'
  BY <1>1, <1>3, <1>4 DEF Pointers, mvars
<1>8. Accepted'
  BY <1>1, <1>3 DEF Accepted, kvars
<1>9. FdOwned'
  <2>1. conn[c] # "open"
    BY DEF FdOwned
  <2>2. \A d \in Conns \ {c} : \A v \in Workers :
          held'[v] = d /\ wpc'[v] = "delete" <=> held[v] = d /\ wpc[v] = "delete"
    BY <1>2, HttpServerAssumption
  <2> QED BY <1>3, <2>1, <2>2 DEF FdOwned, kvars
<1>10. TimedUnlessHandled'
  <2>1. \A d \in Conns \ {c} : d \in Untimed' <=> d \in Untimed
    BY <1>2, HttpServerAssumption DEF Untimed
  <2>2. c \in Untimed
    BY AtUntimed
  <2>3. alive' \ Untimed' = alive \ Untimed
    BY <1>3, <2>1, <2>2, PlacesTyped
  <2>4. Timed' = Timed
    BY DEF Timed, Deadlines, TQ!Live, tvars
  <2> QED BY <2>3, <2>4, TimedSet, TimedSetNext
<1>11. TQ!IInv'
  BY TimersInv
<1>12. Unexpired'
  <2>1. Dispatched' \cap Conns \subseteq Dispatched
    BY <1>1, DispatchedPlaces, DispatchedPlacesNext DEF mvars
  <2>2. Deadlines' = Deadlines
    BY DEF Deadlines, TQ!Live, tvars
  <2> QED BY <1>11, <2>1, <2>2, StillUnexpired DEF tvars
<1> QED
  BY <1>5, <1>6, <1>7, <1>8, <1>9, <1>10, <1>11, <1>12 DEF NoStaleUse

\* A worker's task is that of a living request.
LEMMA StaleTaskNever ==
  ASSUME ServerInv, NEW w \in Workers, StaleTask(w)
  PROVE  FALSE
  BY DEF ServerInv, Places, InHand, StaleTask

-------------------------------------------------------------------------------
\* Time and the clients.

LEMMA TickInv ==
  ASSUME Prompt, ServerInv, Tick
  PROVE  ServerInv' /\ [TQ!Next]_tvars
<1> USE DEF ServerInv, Tick, TQ!Tick
<1>1. TypeOK'
  BY DEF TypeOK, pvars, kvars, mvars, ovars
<1>2. Places' /\ Pointers' /\ Accepted' /\ FdOwned' /\ TimedUnlessHandled'
  BY SamePlaces, SamePointers, SameAccepted, SameFds, SameTimed
     DEF pvars, kvars, mvars, ovars
<1>3. TQ!Next
  BY DEF TQ!Next
<1>4. Unexpired'
  <2>1. Deadlines' = Deadlines /\ Dispatched' = Dispatched
    BY DEF Deadlines, TQ!Live, Dispatched, pvars, mvars
  <2>2. \A n \in Deadlines : pq[n].key \in Nat
    BY DEF Deadlines, TQ!IInv, TQ!TypeOK, TQ!Timer
  <2>3. now \in Nat
    BY DEF TQ!IInv, TQ!TypeOK
  <2> QED BY <2>1, <2>2, <2>3 DEF Unexpired
<1> QED BY <1>1, <1>2, <1>3, <1>4, TimersInv DEF NoStaleUse

LEMMA ClientsInv ==
  ASSUME ServerInv, Clients
  PROVE  ServerInv' /\ [TQ!Next]_tvars
<1> USE DEF ServerInv, Clients
<1>1. Pointers' /\ TimedUnlessHandled' /\ Unexpired' /\ TQ!IInv' /\ [TQ!Next]_tvars
  BY SamePointers, SameTimed, SameUnexpired, TimersInv DEF tvars, pvars, mvars, ovars
<1>2. PICK c \in Conns : K!Connect(c) \/ K!Send(c) \/ K!HangUp(c)
  BY DEF K!ClientStep
<1>3. Places'
  BY <1>2, SamePlaces DEF K!Connect, K!Send, K!HangUp, pvars, mvars, ovars
<1>4. CASE K!Connect(c)
  <2>1. /\ conn[c] = "none" /\ conn' = [conn EXCEPT ![c] = "backlog"]
        /\ peer' = [peer EXCEPT ![c] = "open"] /\ backlog' = Append(backlog, c)
        /\ edge' = TRUE /\ UNCHANGED <<inbox, sent, armed>>
    BY <1>4 DEF K!Connect
  <2>2. /\ backlog' \in Seq(Conns)
        /\ DOMAIN backlog' = DOMAIN backlog \cup {Len(backlog) + 1}
        /\ Len(backlog) + 1 \notin DOMAIN backlog
        /\ backlog'[Len(backlog) + 1] = c
        /\ \A i \in DOMAIN backlog : backlog'[i] = backlog[i]
    BY <2>1, AppendLast DEF TypeOK
  <2>3. TypeOK'
    <3>1. conn' \in [Conns -> {"none", "backlog", "open", "closed"}]
      BY <2>1 DEF TypeOK
    <3>2. peer' \in [Conns -> {"none", "open", "fin", "reset"}]
      BY <2>1 DEF TypeOK
    <3> QED BY <2>1, <2>2, <3>1, <3>2 DEF TypeOK, pvars, mvars, ovars
  <2>4. \A i \in DOMAIN backlog : backlog[i] # c /\ backlog[i] \in Conns
    BY <2>1, SeqElements DEF Accepted, TypeOK
  <2>5. c \notin alive \cup InBatch
    BY <2>1 DEF Accepted
  <2>6. Accepted'
    <3>1. \A i, j \in DOMAIN backlog' : backlog'[i] = backlog'[j] => i = j
      BY <2>2, <2>4 DEF Accepted
    <3>2. \A i \in DOMAIN backlog' : conn'[backlog'[i]] = "backlog"
      BY <2>1, <2>2, <2>4 DEF Accepted, TypeOK
    <3>3. InBatch' = InBatch /\ alive' = alive
      BY DEF InBatch, mvars, ovars
    <3>4. \A d \in alive \cup InBatch : conn'[d] = conn[d]
      BY <2>1, <2>5, PlacesTyped DEF TypeOK
    <3> QED BY <3>1, <3>2, <3>3, <3>4 DEF Accepted
  <2>7. FdOwned'
    <3>1. \A d \in Conns : conn'[d] = "open" <=> conn[d] = "open"
      BY <2>1 DEF TypeOK
    <3> QED BY <3>1 DEF FdOwned, pvars, ovars
  <2> QED BY <1>1, <1>3, <2>3, <2>6, <2>7 DEF NoStaleUse
<1>5. CASE K!Send(c)
  <2>1. TypeOK'
    <3>1. inbox' \in [Conns -> Nat] /\ sent' \in [Conns -> Nat]
      BY <1>5 DEF K!Send, TypeOK
    <3> QED BY <1>5, <3>1 DEF K!Send, TypeOK, pvars, mvars, ovars
  <2>2. Accepted' /\ FdOwned'
    BY <1>5, SameAccepted, SameFds DEF K!Send, pvars, mvars, ovars
  <2> QED BY <1>1, <1>3, <2>1, <2>2 DEF NoStaleUse
<1>6. CASE K!HangUp(c)
  <2>1. TypeOK'
    BY <1>6 DEF K!HangUp, TypeOK, pvars, mvars, ovars
  <2>2. Accepted' /\ FdOwned'
    BY <1>6, SameAccepted, SameFds DEF K!HangUp, pvars, mvars, ovars
  <2> QED BY <1>1, <1>3, <2>1, <2>2 DEF NoStaleUse
<1> QED BY <1>2, <1>4, <1>5, <1>6
-------------------------------------------------------------------------------
\* The invariant holds at the start and, under Prompt, after every step.
LEMMA InitInv == Init => ServerInv
<1> SUFFICES ASSUME Init PROVE ServerInv
  OBVIOUS
<1> USE DEF Init, TP!Init, K!Init, TQ!Init
<1>1. TypeOK
  <2>1. DOMAIN address = {} /\ address \in [DOMAIN address -> Addresses]
    OBVIOUS
  <2>2. batch \in Seq([source : Conns \cup {Listener}, err : BOOLEAN])
    OBVIOUS
  <2>3. queue \in Seq(Conns) /\ backlog \in Seq(Conns)
    OBVIOUS
  <2>4. IsFiniteSet(alive)
    BY FS_EmptySet
  <2> QED BY <2>1, <2>2, <2>3, <2>4 DEF TypeOK
<1>2. InBatch = {} /\ InQueue = {} /\ InHand = {}
  BY DEF InBatch, InQueue, InHand
<1>3. Places /\ Pointers /\ Accepted
  BY <1>2, HttpServerAssumption DEF Places, Pointers, Accepted
<1>4. FdOwned /\ NoStaleUse
  BY DEF FdOwned, NoStaleUse
<1>5. TQ!IInv
  BY DEF TQ!IInv, TQ!TypeOK, TQ!OwnTimer, TQ!LiveReachable
<1>6. Deadlines = {}
  BY DEF Deadlines
<1>7. TimedUnlessHandled /\ Unexpired
  BY <1>6 DEF TimedUnlessHandled, Unexpired
<1> QED BY <1>1, <1>3, <1>4, <1>5, <1>7 DEF ServerInv

LEMMA NextInv ==
  ASSUME Prompt, ServerInv, [Next]_vars
  PROVE  ServerInv' /\ [TQ!Next]_tvars
<1>1. CASE MainStep
  <2>1. CASE EPollWait
    BY <2>1, EPollWaitInv
  <2>2. CASE BeginSweep
    BY <2>2, BeginSweepInv
  <2>3. CASE \E n \in DOMAIN pq : SweepDeleted(n) \/ SweepExpired(n)
    BY <2>3, SweepDeletedInv, SweepExpiredInv
  <2>4. CASE EndSweep
    BY <2>4, EndSweepInv
  <2>5. CASE \E c \in Conns : \/ Accept(c)
                              \/ SkipEvent(c)
                              \/ CloseOnError(c)
                              \/ Dispatch(c)
                              \/ StaleEvent(c)
    BY <2>5, AcceptInv, SkipEventInv, CloseOnErrorInv, DispatchInv, StaleEventNever
  <2>6. CASE AcceptFails
    BY <2>6, AcceptFailsInv
  <2> QED BY <1>1, <2>1, <2>2, <2>3, <2>4, <2>5, <2>6 DEF MainStep
<1>2. ASSUME NEW w \in Workers, WorkerStep(w)
      PROVE  ServerInv' /\ [TQ!Next]_tvars
  <2>1. CASE TakeTask(w)
    BY <2>1, TakeTaskInv
  <2>2. CASE \E c \in Conns : ReadEnds(w, c) \/ Respond(w, c)
    BY <2>2, MovesOnInv DEF ReadEnds, Respond, At
  <2>3. CASE \E c \in Conns : \/ DelTimer(w, c)
                              \/ ReadData(w, c)
                              \/ AddTimer(w, c)
                              \/ Rearm(w, c)
                              \/ CloseFd(w, c)
                              \/ DeleteRequest(w, c)
    BY <2>3, DelTimerInv, ReadDataInv, AddTimerInv, RearmInv, CloseFdInv, DeleteRequestInv
  <2>4. CASE StaleTask(w)
    BY <2>4, StaleTaskNever
  <2> QED BY <1>2, <2>1, <2>2, <2>3, <2>4 DEF WorkerStep
<1>3. CASE Tick
  BY <1>3, TickInv
<1>4. CASE Clients
  BY <1>4, ClientsInv
<1>5. CASE UNCHANGED vars
  <2> USE <1>5 DEF ServerInv, vars
  <2>1. TypeOK'
    BY DEF TypeOK, tvars, pvars, kvars, mvars, ovars
  <2>2. Places' /\ Pointers' /\ Accepted' /\ FdOwned' /\ TimedUnlessHandled' /\ Unexpired'
    BY SamePlaces, SamePointers, SameAccepted, SameFds, SameTimed, SameUnexpired
       DEF tvars, pvars, kvars, mvars, ovars
  <2> QED BY <2>1, <2>2, TimersInv DEF NoStaleUse
<1> QED BY <1>1, <1>2, <1>3, <1>4, <1>5 DEF Next

\* ServerInv is an invariant of the server whose connections outrun their timers.
THEOREM Invariance == ASSUME Prompt PROVE Spec => []ServerInv
<1>1. Init => ServerInv
  BY InitInv
<1>2. ServerInv /\ [Next]_vars => ServerInv'
  BY NextInv
<1> QED BY <1>1, <1>2, PTL DEF Spec

\* However connections are accepted, time out, fail and are handed over, no thread
\* dereferences an HttpRequest that another has deleted.
THEOREM NoUseAfterDelete == ASSUME Prompt PROVE Spec => []NoStaleUse
<1>1. ServerInv => NoStaleUse
  BY DEF ServerInv
<1> QED BY <1>1, Invariance, PTL

-------------------------------------------------------------------------------
\* What Places says of the batch, the queue and the workers' hands, in the numbers
\* of OneOwner.
LEMMA CountAtMostOne ==
  ASSUME NEW A, \A x, y \in A : x = y
  PROVE  Cardinality(A) = IF A = {} THEN 0 ELSE 1
<1>1. CASE A = {}
  BY <1>1, FS_EmptySet
<1>2. CASE A # {}
  <2>1. PICK x : A = {x}
    BY <1>2
  <2> QED BY <1>2, <2>1, FS_Singleton
<1> QED BY <1>1, <1>2

LEMMA PlacesOneOwner == TypeOK /\ Places => OneOwner
<1> SUFFICES ASSUME TypeOK, Places PROVE OneOwner
  OBVIOUS
<1>1. ASSUME NEW c \in alive PROVE Owners(c) = 1
  <2> DEFINE B == {i \in DOMAIN batch : batch[i].source = c}
             Q == {i \in DOMAIN queue : queue[i] = c}
             H == {w \in Workers : held[w] = c}
  <2>1. c # Listener /\ c # NoTask
    BY PlacesTyped, HttpServerAssumption
  <2>2. /\ B # {} <=> c \in InBatch
        /\ Q # {} <=> c \in InQueue
        /\ H # {} <=> c \in InHand
    BY <2>1 DEF InBatch, InQueue, InHand
  <2>3. /\ Cardinality(B) = IF B = {} THEN 0 ELSE 1
        /\ Cardinality(Q) = IF Q = {} THEN 0 ELSE 1
        /\ Cardinality(H) = IF H = {} THEN 0 ELSE 1
    <3>1. \A i, j \in B : i = j
      BY DEF Places
    <3>2. \A i, j \in Q : i = j
      BY DEF Places
    <3>3. \A v, w \in H : v = w
      BY <2>1 DEF Places
    <3> HIDE DEF B, Q, H
    <3> QED BY <3>1, <3>2, <3>3, CountAtMostOne
  <2>4. Owners(c) = Cardinality(B) + Cardinality(Q) + Cardinality(H)
                      + (IF c \in armed THEN 1 ELSE 0)
    BY DEF Owners
  <2> HIDE DEF B, Q, H
  <2>5. \/ c \in armed /\ B = {} /\ Q = {} /\ H = {}
        \/ c \notin armed /\ B # {} /\ Q = {} /\ H = {}
        \/ c \notin armed /\ B = {} /\ Q # {} /\ H = {}
        \/ c \notin armed /\ B = {} /\ Q = {} /\ H # {}
    BY <2>2 DEF Places
  <2> QED BY <2>3, <2>4, <2>5
<1>2. armed \subseteq alive
  BY DEF Places
<1> QED BY <1>1, <1>2 DEF OneOwner

\* Every living request is in exactly one of epoll, the batch, the queue of tasks
\* and the workers' hands: EPOLLONESHOT and the re-arming at the end of a task make
\* sure of it (callback.cpp:96).
THEOREM Ownership == ASSUME Prompt PROVE Spec => []OneOwner
<1>1. ServerInv => OneOwner
  BY PlacesOneOwner DEF ServerInv
<1> QED BY <1>1, Invariance, PTL

\* A request has a timer that counts exactly while nobody is between the del_timer
\* and the add_timer of its task, and no timer outlives its request.
THEOREM Timers == ASSUME Prompt PROVE Spec => []TimedUnlessHandled
<1>1. ServerInv => TimedUnlessHandled
  BY DEF ServerInv
<1> QED BY <1>1, Invariance, PTL

\* No descriptor is leaked and none is closed twice.
THEOREM Descriptors == ASSUME Prompt PROVE Spec => []FdOwned
<1>1. ServerInv => FdOwned
  BY DEF ServerInv
<1> QED BY <1>1, Invariance, PTL

\* ptr_set tells the events of deleted requests from the others, even when their
\* addresses are used again.
THEOREM SkippedEvents == ASSUME Prompt PROVE Spec => []SkipExact
<1>1. ServerInv => SkipExact
  <2> SUFFICES ASSUME ServerInv, NEW i \in DOMAIN batch, batch[i].source \in Conns
               PROVE  address[batch[i].source] \in ptr_set <=> batch[i].source \notin alive
    BY DEF SkipExact
  <2>1. batch[i].source \in InBatch
    BY HttpServerAssumption DEF InBatch
  <2> QED BY <2>1 DEF ServerInv, Pointers
<1> QED BY <1>1, Invariance, PTL

\* The server keeps the protocol of the timer queue, so what TimerQueueProofs shows
\* of the queue holds in the server.
THEOREM KeepsTimerProtocol == ASSUME Prompt PROVE Spec => TimerProtocol
<1>1. Init => TQ!Init
  BY DEF Init
<1>2. ServerInv /\ [Next]_vars => [TQ!Next]_tvars
  BY NextInv
<1> QED BY <1>1, <1>2, Invariance, PTL DEF Spec, TimerProtocol

\* The timers of the server are a set of deadlines: handle_expire_timers calls
\* http_close_connect for a connection only when its deadline has passed, the
\* earliest first, never for one that a worker's del_timer has cancelled, and it
\* leaves none that has passed.
THEOREM KeepsDeadlines == ASSUME Prompt PROVE Spec => TQ!Implements
<1> USE DEF TQ!DeadlinesOf, TQ!Live, TQP!DeadlinesOf, TQP!Live
<1>1. Init => TQ!D!Init
  BY DEF Init, TQ!Init, TQ!D!Init
<1>2. TQP!IInv /\ [TQP!Next]_(TQP!vars) => [TQP!D!Next]_(TQP!D!vars)
  BY TQP!StepSimulation, HttpServerAssumption DEF TQP!TimerQueueAssumption
<1>3. [TQP!D!Next]_(TQP!D!vars) => [TQ!D!Next]_(TQ!D!vars)
  BY DEF TQP!D!Next, TQP!D!vars, TQP!D!Arm, TQP!D!Disarm, TQP!D!Fire, TQP!D!Armed,
         TQP!D!BeginSweep, TQP!D!EndSweep, TQP!D!Tick, TQP!D!SetClock,
         TQ!D!Next, TQ!D!vars, TQ!D!Arm, TQ!D!Disarm, TQ!D!Fire, TQ!D!Armed,
         TQ!D!BeginSweep, TQ!D!EndSweep, TQ!D!Tick, TQ!D!SetClock
<1>4. ServerInv /\ [Next]_vars => [TQ!D!Next]_(TQ!D!vars)
  BY NextInv, SameQueue, <1>2, <1>3 DEF ServerInv
<1> QED BY <1>1, <1>4, Invariance, PTL DEF Spec, TQ!Implements, TQ!D!Spec
===============================================================================
