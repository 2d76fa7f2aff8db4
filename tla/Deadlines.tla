------------------------------ MODULE Deadlines ------------------------------
(***************************************************************************)
(* What the timer queue of the server promises to the code that calls it,  *)
(* with nothing of the heap, the lazy deletion or the weak pointers that   *)
(* implement it: a set of armed deadlines, at most one per request.  A     *)
(* sweep fires only deadlines that have passed, earliest first, and it     *)
(* does not end while a passed deadline is still armed.                    *)
(***************************************************************************)
EXTENDS Integers

CONSTANTS Requests,   \* the HttpRequest objects a deadline may be armed for
          Timeouts    \* the durations add_timer is called with

VARIABLES now,        \* the wall clock, in milliseconds
          armed,      \* the pairs <<request, deadline>> that are armed
          sweeping    \* a sweep is in progress: Arm and Disarm must wait

vars == <<now, armed, sweeping>>

Init == /\ now = 0
        /\ armed = {}
        /\ sweeping = FALSE

Armed(r) == \E d \in armed : d[1] = r

Arm(r, timeout) ==
  /\ ~sweeping
  /\ ~Armed(r)
  /\ armed' = armed \cup {<<r, now + timeout>>}
  /\ UNCHANGED <<now, sweeping>>

Disarm(r) ==
  /\ ~sweeping
  /\ armed' = {d \in armed : d[1] # r}
  /\ UNCHANGED <<now, sweeping>>

BeginSweep == /\ ~sweeping
              /\ sweeping' = TRUE
              /\ UNCHANGED <<now, armed>>

Fire(d) ==
  /\ sweeping
  /\ d \in armed
  /\ d[2] < now
  /\ \A e \in armed : d[2] <= e[2]
  /\ armed' = armed \ {d}
  /\ UNCHANGED <<now, sweeping>>

EndSweep == /\ sweeping
            /\ \A d \in armed : now <= d[2]
            /\ sweeping' = FALSE
            /\ UNCHANGED <<now, armed>>

Tick == /\ now' = now + 1
        /\ UNCHANGED <<armed, sweeping>>

SetClock == /\ now' \in Nat
            /\ UNCHANGED <<armed, sweeping>>

Next == \/ \E r \in Requests, t \in Timeouts : Arm(r, t)
        \/ \E r \in Requests : Disarm(r)
        \/ BeginSweep
        \/ \E d \in armed : Fire(d)
        \/ EndSweep
        \/ Tick
        \/ SetClock

Spec == Init /\ [][Next]_vars
==============================================================================
