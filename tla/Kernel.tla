-------------------------------- MODULE Kernel --------------------------------
(***************************************************************************)
(* What the server relies on below it: the listening socket, the TCP       *)
(* connections with their clients, and the epoll instance, as main_server, *)
(* CallBack::request, EPoll and Socket use them.  The kernel is not part   *)
(* of the repository; the operations here are its side of the calls made   *)
(* in epoll.cpp, socket.cpp and socket_ops.cpp.                            *)
(*                                                                         *)
(* Connections are registered EPOLLIN | EPOLLET | EPOLLONESHOT: an event   *)
(* is reported once, then the descriptor is disarmed until epoll_mod, and  *)
(* epoll_add and epoll_mod poll the descriptor, so what arrived before     *)
(* them is reported too.  The listener is EPOLLIN | EPOLLET without        *)
(* EPOLLONESHOT: it is reported when something was added to its backlog    *)
(* since it was last reported, whatever is left in the backlog.            *)
(***************************************************************************)
EXTENDS Integers, Sequences, FiniteSets

CONSTANTS Conns,      \* connections, each used once
          Listener,   \* stands for the listening socket in a list of events
          MaxSends    \* bound on the bursts of data one client sends

VARIABLES conn,       \* the server's end: "none", "backlog", "open", "closed"
          peer,       \* the client's end: "none", "open", "fin", "reset"
          inbox,      \* bursts received and not read yet
          sent,       \* bursts sent by the client, for the bound
          backlog,    \* established connections waiting for accept
          edge,       \* the backlog has grown since the listener was reported
          armed       \* connections an event can be reported for

kvars == <<conn, peer, inbox, sent, backlog, edge, armed>>

Init == /\ conn = [c \in Conns |-> "none"]
        /\ peer = [c \in Conns |-> "none"]
        /\ inbox = [c \in Conns |-> 0]
        /\ sent = [c \in Conns |-> 0]
        /\ backlog = <<>>
        /\ edge = FALSE
        /\ armed = {}

-------------------------------------------------------------------------------
\* The clients.  What one does after the server has closed goes nowhere.

Connect(c) == /\ conn[c] = "none"
              /\ conn' = [conn EXCEPT ![c] = "backlog"]
              /\ peer' = [peer EXCEPT ![c] = "open"]
              /\ backlog' = Append(backlog, c)
              /\ edge' = TRUE
              /\ UNCHANGED <<inbox, sent, armed>>

Reachable(c) == conn[c] \in {"backlog", "open"} /\ peer[c] = "open"

Send(c) == /\ Reachable(c)
           /\ sent[c] < MaxSends
           /\ sent' = [sent EXCEPT ![c] = @ + 1]
           /\ inbox' = [inbox EXCEPT ![c] = @ + 1]
           /\ UNCHANGED <<conn, peer, backlog, edge, armed>>

HangUp(c) == /\ Reachable(c)
             /\ \E how \in {"fin", "reset"} : peer' = [peer EXCEPT ![c] = how]
             /\ UNCHANGED <<conn, inbox, sent, backlog, edge, armed>>

ClientStep == \E c \in Conns : Connect(c) \/ Send(c) \/ HangUp(c)

-------------------------------------------------------------------------------
\* epoll_wait.  An end of file reads as EPOLLIN, as EPOLLRDHUP is not asked
\* for; a reset adds EPOLLERR.
Pollable(c) == inbox[c] > 0 \/ peer[c] \in {"fin", "reset"}

ReadyConns == {c \in armed : Pollable(c)}

ListenerReady == edge /\ backlog # <<>>

Ready == ReadyConns \cup (IF ListenerReady THEN {Listener} ELSE {})

Event(x) == [source |-> x, err |-> x \in Conns /\ peer[x] = "reset"]

\* All that is ready is reported, in some order, and what is reported is
\* disarmed.
Report(events) ==
  /\ Ready # {}
  /\ \E order \in [1 .. Cardinality(Ready) -> Ready] :
       /\ \A x \in Ready : \E i \in DOMAIN order : order[i] = x
       /\ events = [i \in DOMAIN order |-> Event(order[i])]
  /\ armed' = armed \ ReadyConns
  /\ edge' = (edge /\ ~ListenerReady)
  /\ UNCHANGED <<conn, peer, inbox, sent, backlog>>

\* accept4 followed by epoll_add of the new descriptor.
AcceptAndAdd(c) == /\ backlog # <<>> /\ c = Head(backlog)
                   /\ backlog' = Tail(backlog)
                   /\ conn' = [conn EXCEPT ![c] = "open"]
                   /\ armed' = armed \cup {c}
                   /\ UNCHANGED <<peer, inbox, sent, edge>>

\* epoll_mod.
Rearm(c) == /\ armed' = armed \cup {c}
            /\ UNCHANGED <<conn, peer, inbox, sent, backlog, edge>>

\* readv takes what has arrived.
Read(c) == /\ inbox[c] > 0
           /\ inbox' = [inbox EXCEPT ![c] = 0]
           /\ UNCHANGED <<conn, peer, sent, backlog, edge, armed>>

WouldBlock(c) == inbox[c] = 0 /\ peer[c] = "open"

\* close: the descriptor leaves the epoll instance by itself.
Close(c) == /\ conn' = [conn EXCEPT ![c] = "closed"]
            /\ armed' = armed \ {c}
            /\ UNCHANGED <<peer, inbox, sent, backlog, edge>>
===============================================================================
