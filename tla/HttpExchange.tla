------------------------------ MODULE HttpExchange ------------------------------
(***************************************************************************)
(* What a client may count on: a request is answered with what its path    *)
(* names, by one response, or the connection is closed.                    *)
(***************************************************************************)
CONSTANTS Paths, NoPath

VARIABLES pending,        \* the path asked for and not answered yet
          answer,         \* the path the latest response is about
          open            \* whether the server keeps the connection

vars == <<pending, answer, open>>

Init == /\ pending = NoPath
        /\ answer = NoPath
        /\ open = TRUE

Ask(p) == /\ pending = NoPath
          /\ pending' = p
          /\ UNCHANGED <<answer, open>>

Reply == /\ open
         /\ pending # NoPath
         /\ answer' = pending
         /\ pending' = NoPath
         /\ UNCHANGED open

Close == /\ open' = FALSE
         /\ UNCHANGED <<pending, answer>>

Next == (\E p \in Paths : Ask(p)) \/ Reply \/ Close

Spec == Init /\ [][Next]_vars
=================================================================================
