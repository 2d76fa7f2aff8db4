---------------------------- MODULE MCThreadPool ----------------------------
EXTENDS ThreadPool

CONSTANTS w1, w2, p1, p2, t1, t2, t3, t4

MCWorkers   == {w1, w2}
MCProducers == {p1, p2}
MCTasks     == {t1, t2, t3, t4}
=============================================================================
