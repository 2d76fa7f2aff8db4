---------------------------- MODULE MCHttpServer ----------------------------
EXTENDS HttpServer, TLC

CONSTANTS c1, c2, c3, w1, w2, n1, n2, n3, n4, a1, a2

MCConns     == {c1, c2}
MCConns3    == {c1, c2, c3}
MCWorkers   == {w1, w2}
MCWorker    == {w1}
MCNodes     == {n1, n2, n3, n4}
MCAddresses == {a1, a2}
Symmetry    == Permutations(MCConns) \cup Permutations(MCWorkers)
                 \cup Permutations(MCAddresses)
=============================================================================
