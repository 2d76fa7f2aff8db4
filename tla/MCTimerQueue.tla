---------------------------- MODULE MCTimerQueue ----------------------------
EXTENDS TimerQueue

CONSTANTS r1, r2, n1, n2, n3

MCRequests == {r1, r2}
MCNodes    == {n1, n2, n3}
MCTimeouts == {1, 2}
=============================================================================
