------------------------------ MODULE HttpServer ------------------------------
(***************************************************************************)
(* The server of main_server.cpp and callback.cpp: the thread of main      *)
(* waits for events, closes the connections whose timer has expired,       *)
(* accepts, and dispatches the readable connections to the thread pool,    *)
(* whose workers run CallBack::request.  It composes the timer queue       *)
(* (TimerQueue), the thread pool as the queue of tasks it implements       *)
(* (TaskQueue, see ThreadPool) and the sockets and epoll (Kernel).         *)
(*                                                                         *)
(* A connection c stands for its descriptor and for the HttpRequest made   *)
(* at accept; both are used once.  The address of the object, which malloc *)
(* may use again, is address[c].  alive is the set of objects that exist:  *)
(* a step that dereferences another one is undefined behaviour, and the    *)
(* model stops there with stale = TRUE.                                    *)
(***************************************************************************)
EXTENDS Integers, Sequences, FiniteSets

CONSTANTS Conns, Listener, MaxSends,      \* see Kernel
          Nodes, NoNode, Timeout, MaxTime, \* see TimerQueue
          Workers, NoTask, MaxQueueSize,  \* see TaskQueue
          Addresses,  \* where an HttpRequest may be allocated
          MaxFds,     \* connections that fit in the descriptor table
          Prompt      \* assume that dispatched connections outrun their timer

ASSUME HttpServerAssumption ==
  /\ Listener \notin Conns
  /\ NoTask \notin Conns
  /\ NoNode \notin Nodes
  /\ {MaxSends, MaxFds, Timeout, MaxTime} \subseteq Nat
  /\ Prompt \in BOOLEAN

VARIABLES now, pq, timer, sweeping,                          \* TimerQueue
          queue, held,                                       \* TaskQueue
          conn, peer, inbox, sent, backlog, edge, armed,     \* Kernel
          pc,        \* main: "events" (dispatching, or waiting), "sweep"
          batch,     \* the events of this epoll_wait not handled yet
          ptr_set,   \* addresses of the requests this pass's sweep deleted
          wpc,       \* where each worker is in CallBack::request
          alive,     \* the HttpRequest objects that exist
          address,   \* the address of each of them
          stale,     \* a deleted HttpRequest has been dereferenced
          abort      \* assert(connfd >= 0) has failed

tvars == <<now, pq, timer, sweeping>>
pvars == <<queue, held>>
kvars == <<conn, peer, inbox, sent, backlog, edge, armed>>
mvars == <<pc, batch, ptr_set>>
ovars == <<alive, address>>
vars  == <<tvars, pvars, kvars, mvars, wpc, ovars, stale, abort>>

TQ == INSTANCE TimerQueue WITH Requests <- Conns, Timeouts <- {Timeout}
TP == INSTANCE TaskQueue WITH Tasks <- Conns
K  == INSTANCE Kernel

Init == /\ TQ!Init
        /\ TP!Init
        /\ K!Init
        /\ pc = "events"
        /\ batch = <<>>
        /\ ptr_set = {}
        /\ wpc = [w \in Workers |-> "del"]
        /\ alive = {}
        /\ address = [c \in {} |-> 0]
        /\ stale = FALSE
        /\ abort = FALSE

Up == ~stale /\ ~abort

\* delete request
Delete(c) == alive' = alive \ {c} /\ UNCHANGED address

\* new HttpRequest: at any address no living object has.
New(c) == /\ alive' = alive \cup {c}
          /\ \E a \in Addresses \ {address[d] : d \in alive} :
               address' = [d \in DOMAIN address \cup {c} |->
                             IF d = c THEN a ELSE address[d]]

\* add_timer.  Nothing depends on which free node make_shared returns, so one
\* is enough here; TimerQueue allows any.
AddTimeout(c) ==
  /\ DOMAIN pq # Nodes
  /\ TQ!AddTimer(c, Timeout, CHOOSE n \in Nodes : n \notin DOMAIN pq)

-------------------------------------------------------------------------------
\* The loop of main.

\* Faulty variant: ptr_set is never cleared.
EPollWaitUncleared ==
  /\ pc = "events" /\ batch = <<>>
  /\ K!Report(batch')
  /\ pc' = "sweep"
  /\ UNCHANGED <<tvars, pvars, ptr_set, wpc, ovars, stale, abort>>

\* ptr_set.clear() and epoll_wait, which blocks until an event is ready.
EPollWait ==
  /\ pc = "events" /\ batch = <<>>
  /\ K!Report(batch')
  /\ ptr_set' = {}
  /\ pc' = "sweep"
  /\ UNCHANGED <<tvars, pvars, wpc, ovars, stale, abort>>

BeginSweep == /\ pc = "sweep"
              /\ TQ!BeginSweep
              /\ UNCHANGED <<pvars, kvars, mvars, wpc, ovars, stale, abort>>

SweepDeleted(n) == /\ TQ!SweepDeleted(n)
                   /\ UNCHANGED <<pvars, kvars, mvars, wpc, ovars, stale, abort>>

\* Faulty variants: the handler does not record the request in ptr_set; it does
\* not close the descriptor.
SweepExpiredUnrecorded(n) ==
  /\ TQ!SweepExpired(n)
  /\ K!Close(pq[n].request)
  /\ Delete(pq[n].request)
  /\ UNCHANGED <<ptr_set, pvars, pc, batch, wpc, stale, abort>>

SweepExpiredLeaks(n) ==
  /\ TQ!SweepExpired(n)
  /\ Delete(pq[n].request)
  /\ ptr_set' = ptr_set \cup {address[pq[n].request]}
  /\ UNCHANGED <<kvars, pvars, pc, batch, wpc, stale, abort>>

\* The handler of an expired node, http_close_connect, then delmin.
SweepExpired(n) ==
  /\ TQ!SweepExpired(n)
  /\ LET c == pq[n].request IN
     \/ /\ c \in alive
        /\ K!Close(c)
        /\ Delete(c)
        /\ ptr_set' = ptr_set \cup {address[c]}
        /\ UNCHANGED stale
     \/ /\ c \notin alive
        /\ stale' = TRUE
        /\ UNCHANGED <<kvars, ovars, ptr_set>>
  /\ UNCHANGED <<pvars, pc, batch, wpc, abort>>

EndSweep == /\ TQ!EndSweep
            /\ pc' = "events"
            /\ UNCHANGED <<pvars, kvars, batch, ptr_set, wpc, ovars, stale, abort>>

\* The event at the head of the batch, once the sweep is over.
Handling(x) == pc = "events" /\ batch # <<>> /\ Head(batch).source = x

NextEvent == batch' = Tail(batch) /\ UNCHANGED pc

\* The listener's own HttpRequest is an object of main's that is never deleted.
Accept(c) ==
  /\ Handling(Listener)
  /\ Cardinality({d \in Conns : conn[d] = "open"}) < MaxFds
  /\ K!AcceptAndAdd(c)
  /\ New(c)
  /\ AddTimeout(c)
  /\ NextEvent
  /\ UNCHANGED <<pvars, ptr_set, wpc, stale, abort>>

AcceptFails ==
  /\ Handling(Listener)
  /\ Cardinality({d \in Conns : conn[d] = "open"}) >= MaxFds
  /\ abort' = TRUE
  /\ UNCHANGED <<tvars, pvars, kvars, mvars, wpc, ovars, stale>>

\* The event's pointer is that of a request the sweep has deleted.
SkipEvent(c) ==
  /\ Handling(c)
  /\ address[c] \in ptr_set
  /\ ptr_set' = ptr_set \ {address[c]}
  /\ NextEvent
  /\ UNCHANGED <<tvars, pvars, kvars, wpc, ovars, stale, abort>>

\* Any other pointer is dereferenced.
Dereferenced(c) == Handling(c) /\ address[c] \notin ptr_set

CloseOnError(c) ==
  /\ Dereferenced(c) /\ c \in alive
  /\ Head(batch).err
  /\ TQ!DelTimer(c)
  /\ K!Close(c)
  /\ Delete(c)
  /\ NextEvent
  /\ UNCHANGED <<pvars, ptr_set, wpc, stale, abort>>

\* Faulty variant: the event is dropped when the queue is full.
DispatchOrDrop(c) ==
  /\ Dereferenced(c) /\ c \in alive
  /\ ~Head(batch).err
  /\ IF TP!IsFull THEN UNCHANGED pvars ELSE TP!Put(c)
  /\ NextEvent
  /\ UNCHANGED <<tvars, kvars, ptr_set, wpc, ovars, stale, abort>>

\* pool.run, which blocks while the queue is full.
Dispatch(c) ==
  /\ Dereferenced(c) /\ c \in alive
  /\ ~Head(batch).err
  /\ TP!Put(c)
  /\ NextEvent
  /\ UNCHANGED <<tvars, kvars, ptr_set, wpc, ovars, stale, abort>>

StaleEvent(c) ==
  /\ Dereferenced(c) /\ c \notin alive
  /\ stale' = TRUE
  /\ UNCHANGED <<tvars, pvars, kvars, mvars, wpc, ovars, abort>>

MainStep == \/ EPollWait
            \/ BeginSweep
            \/ \E n \in DOMAIN pq : SweepDeleted(n) \/ SweepExpired(n)
            \/ EndSweep
            \/ \E c \in Conns : \/ Accept(c)
                                \/ SkipEvent(c)
                                \/ CloseOnError(c)
                                \/ Dispatch(c)
                                \/ StaleEvent(c)
            \/ AcceptFails

-------------------------------------------------------------------------------
\* CallBack::request, run by a worker.  Each of its steps dereferences the
\* request.

GoTo(w, label) == wpc' = [wpc EXCEPT ![w] = label]

TakeTask(w) == /\ TP!Take(w)
               /\ GoTo(w, "del")
               /\ UNCHANGED <<tvars, kvars, mvars, ovars, stale, abort>>

At(w, c, label) == held[w] = c /\ wpc[w] = label /\ c \in alive

\* Faulty variant: the timer is left running while the request is handled.
DelTimerNot(w, c) == /\ At(w, c, "del")
                     /\ GoTo(w, "read")
                     /\ UNCHANGED <<tvars, pvars, kvars, mvars, ovars, stale, abort>>

DelTimer(w, c) == /\ At(w, c, "del")
                  /\ TQ!DelTimer(c)
                  /\ GoTo(w, "read")
                  /\ UNCHANGED <<pvars, kvars, mvars, ovars, stale, abort>>

\* readFd returns data: the loop goes on.
ReadData(w, c) == /\ At(w, c, "read")
                  /\ K!Read(c)
                  /\ UNCHANGED <<tvars, pvars, mvars, wpc, ovars, stale, abort>>

\* Faulty variant: the loop is left before the end of file is seen.
ReadEndsAlways(w, c) ==
  /\ At(w, c, "read")
  /\ GoTo(w, "respond")
  /\ UNCHANGED <<tvars, pvars, kvars, mvars, ovars, stale, abort>>

\* EAGAIN ends the loop; end of file and errors give the connection up.
ReadEnds(w, c) ==
  /\ At(w, c, "read")
  /\ inbox[c] = 0
  /\ GoTo(w, IF K!WouldBlock(c) THEN "respond" ELSE "close")
  /\ UNCHANGED <<tvars, pvars, kvars, mvars, ovars, stale, abort>>

\* Parsing, the response and writeFd.  Whether closeConnection() is honoured
\* depends on the comparison of the bytes written with sbuf.st_size, which is
\* not initialised for a path that does not exist: either is possible.
Respond(w, c) ==
  /\ At(w, c, "respond")
  /\ \E label \in {"add", "close"} : GoTo(w, label)
  /\ UNCHANGED <<tvars, pvars, kvars, mvars, ovars, stale, abort>>

\* Faulty variant: the timer is not set again.
AddTimerNot(w, c) == /\ At(w, c, "add")
                     /\ GoTo(w, "mod")
                     /\ UNCHANGED <<tvars, pvars, kvars, mvars, ovars, stale, abort>>

AddTimer(w, c) == /\ At(w, c, "add")
                  /\ AddTimeout(c)
                  /\ GoTo(w, "mod")
                  /\ UNCHANGED <<pvars, kvars, mvars, ovars, stale, abort>>

\* Faulty variant: no return after epoll_mod, the task goes on reading.
RearmAndGoOn(w, c) == /\ At(w, c, "mod")
                      /\ K!Rearm(c)
                      /\ GoTo(w, "del")
                      /\ UNCHANGED <<tvars, pvars, mvars, ovars, stale, abort>>

\* epoll_mod, the last use of the request; then the task returns.
Rearm(w, c) == /\ At(w, c, "mod")
               /\ K!Rearm(c)
               /\ TP!Finish(w)
               /\ UNCHANGED <<tvars, mvars, wpc, ovars, stale, abort>>

CloseFd(w, c) == /\ At(w, c, "close")
                 /\ K!Close(c)
                 /\ GoTo(w, "delete")
                 /\ UNCHANGED <<tvars, pvars, mvars, ovars, stale, abort>>

DeleteRequest(w, c) == /\ At(w, c, "delete")
                       /\ Delete(c)
                       /\ TP!Finish(w)
                       /\ UNCHANGED <<tvars, kvars, mvars, wpc, stale, abort>>

StaleTask(w) == /\ held[w] # NoTask /\ held[w] \notin alive
                /\ stale' = TRUE
                /\ UNCHANGED <<tvars, pvars, kvars, mvars, wpc, ovars, abort>>

WorkerStep(w) == \/ TakeTask(w)
                 \/ \E c \in Conns : \/ DelTimer(w, c)
                                     \/ ReadData(w, c)
                                     \/ ReadEnds(w, c)
                                     \/ Respond(w, c)
                                     \/ AddTimer(w, c)
                                     \/ Rearm(w, c)
                                     \/ CloseFd(w, c)
                                     \/ DeleteRequest(w, c)
                 \/ StaleTask(w)

-------------------------------------------------------------------------------
\* Connections the main loop has decided to dispatch, or a worker has in hand.
Dispatched == {queue[i] : i \in DOMAIN queue}
                \cup {held[w] : w \in Workers}
                \cup (IF pc = "events" THEN {batch[i].source : i \in DOMAIN batch}
                      ELSE {})

Deadlines == {n \in DOMAIN pq : TQ!Live(n)}

\* Time passes.  Under Prompt, never so much that a timer expires between the
\* end of a sweep and the del_timer of a connection whose event is being
\* handled, nor between an add_timer and the epoll_mod after it.
Tick == /\ TQ!Tick
        /\ Prompt => \A n \in Deadlines :
                       pq[n].request \in Dispatched => now < pq[n].key
        /\ UNCHANGED <<pvars, kvars, mvars, wpc, ovars, stale, abort>>

Clients == /\ K!ClientStep
           /\ UNCHANGED <<tvars, pvars, mvars, wpc, ovars, stale, abort>>

Next == /\ Up
        /\ \/ MainStep
           \/ \E w \in Workers : WorkerStep(w)
           \/ Tick
           \/ Clients

\* Threads that can run do run, and time passes; clients owe nothing.
Fairness == /\ WF_vars(Up /\ MainStep)
            /\ \A w \in Workers : WF_vars(Up /\ WorkerStep(w))
            /\ WF_vars(Up /\ Tick)

Spec == Init /\ [][Next]_vars /\ Fairness

-------------------------------------------------------------------------------
\* No thread uses an HttpRequest that another one has deleted: neither a task
\* whose connection timed out while it was queued (callback.cpp:25 deletes the
\* timer only when the task runs), nor main an event of such a connection
\* (main_server.cpp:68-76).
NoStaleUse == ~stale

\* Every living request is in exactly one place: armed in epoll, in the rest of
\* the batch, in the queue of tasks, or in the hands of one worker; so two
\* threads never handle the same connection, and none is forgotten.
Owners(c) == Cardinality({i \in DOMAIN batch : batch[i].source = c})
           + Cardinality({i \in DOMAIN queue : queue[i] = c})
           + Cardinality({w \in Workers : held[w] = c})
           + (IF c \in armed THEN 1 ELSE 0)

OneOwner == /\ \A c \in alive : Owners(c) = 1
            /\ armed \subseteq alive

\* A request has a timer that counts except while a worker is between the
\* del_timer and the add_timer of callback.cpp:25-95, and a timer that counts
\* is that of a living request.
Untimed == {held[w] : w \in {v \in Workers : wpc[v] \notin {"del", "mod"}}}

TimedUnlessHandled ==
  /\ \A c \in alive : TQ!HasLiveTimer(c) <=> c \notin Untimed
  /\ \A n \in Deadlines : pq[n].request \in alive

\* No descriptor is leaked and none is closed twice: an open one belongs to a
\* living request, a living request has an open one until the step before its
\* deletion.
FdOwned == \A c \in Conns :
             conn[c] = "open" <=>
               /\ c \in alive
               /\ \A w \in Workers : held[w] = c => wpc[w] # "delete"

\* After the sweep, ptr_set tells the events of deleted requests from the
\* others, even when the request of a connection accepted since is at the
\* address of a deleted one (main_server.cpp:72).
SkipExact ==
  pc = "events" =>
    \A i \in DOMAIN batch :
      LET c == batch[i].source IN
      c \in Conns => (address[c] \in ptr_set <=> c \notin alive)

\* The server keeps the protocol of the timer queue: it gives a request a timer
\* only when the request has none that counts.
TimerProtocol == TQ!Init /\ [][TQ!Next]_tvars

\* What a client has sent on an accepted connection is read, or the connection
\* is closed.
DataRead == \A c \in Conns :
              (conn[c] = "open" /\ inbox[c] > 0) ~> (inbox[c] = 0 \/ conn[c] = "closed")

\* A connection its client has given up is closed, and its request deleted.
HangUpClosed == \A c \in Conns :
                  (conn[c] = "open" /\ peer[c] # "open") ~>
                    (conn[c] = "closed" /\ c \notin alive)

\* A client that has connected is accepted (main_server.cpp:80).
ConnectAccepted == \A c \in Conns : conn[c] = "backlog" ~> conn[c] # "backlog"
-------------------------------------------------------------------------------
\* What makes the invariants above inductive (see HttpServerProofs).
TypeOK ==
  /\ conn \in [Conns -> {"none", "backlog", "open", "closed"}]
  /\ peer \in [Conns -> {"none", "open", "fin", "reset"}]
  /\ inbox \in [Conns -> Nat] /\ sent \in [Conns -> Nat]
  /\ backlog \in Seq(Conns)
  /\ edge \in BOOLEAN
  /\ armed \subseteq Conns
  /\ queue \in Seq(Conns)
  /\ held \in [Workers -> Conns \cup {NoTask}]
  /\ pc \in {"events", "sweep"}
  /\ batch \in Seq([source : Conns \cup {Listener}, err : BOOLEAN])
  /\ ptr_set \subseteq Addresses
  /\ wpc \in [Workers -> {"del", "read", "respond", "add", "mod", "close", "delete"}]
  /\ alive \subseteq DOMAIN address /\ IsFiniteSet(alive)
  /\ DOMAIN address \subseteq Conns
  /\ address \in [DOMAIN address -> Addresses]
  /\ stale \in BOOLEAN /\ abort \in BOOLEAN

\* The places a connection can be in besides epoll.
InBatch == {batch[i].source : i \in DOMAIN batch} \ {Listener}
InQueue == {queue[i] : i \in DOMAIN queue}
InHand  == {held[w] : w \in Workers} \ {NoTask}

\* No place has a connection twice, no two places share one, and every place but
\* the batch has only living requests.
Places ==
  /\ \A i, j \in DOMAIN batch : batch[i].source = batch[j].source => i = j
  /\ \A i, j \in DOMAIN queue : queue[i] = queue[j] => i = j
  /\ \A v, w \in Workers : held[v] = held[w] /\ held[v] # NoTask => v = w
  /\ armed \cap (InBatch \cup InQueue \cup InHand) = {}
  /\ InBatch \cap (InQueue \cup InHand) = {}
  /\ InQueue \cap InHand = {}
  /\ armed \cup InQueue \cup InHand \subseteq alive
  /\ alive \subseteq armed \cup InBatch \cup InQueue \cup InHand

\* Living objects do not overlap, nor did those whose events are in the batch,
\* when they were all alive; ptr_set tells which of these have been deleted.
Pointers ==
  /\ InBatch \subseteq DOMAIN address
  /\ \A c, d \in alive : address[c] = address[d] => c = d
  /\ \A c, d \in InBatch : address[c] = address[d] => c = d
  /\ \A c \in InBatch : address[c] \in ptr_set <=> c \notin alive

\* A connection has a request only once it has been accepted.
Accepted ==
  /\ \A i, j \in DOMAIN backlog : backlog[i] = backlog[j] => i = j
  /\ \A i \in DOMAIN backlog : conn[backlog[i]] = "backlog"
  /\ \A c \in alive \cup InBatch : conn[c] \in {"open", "closed"}

\* Under Prompt no timer of a connection being handled has passed.
Unexpired == \A n \in Deadlines :
               pq[n].request \in Dispatched => now <= pq[n].key

ServerInv ==
  /\ TypeOK /\ Places /\ Pointers /\ Accepted /\ FdOwned
  /\ TQ!IInv /\ TimedUnlessHandled /\ Unexpired /\ NoStaleUse
===============================================================================
