------------------------------- MODULE MCPoolTest -------------------------------
EXTENDS PoolTest

CONSTANTS w1, w2, w3, t1, t2, t3, last

MCWorkers3  == {w1, w2, w3}
MCProducers == {Adder}
MCTasks     == {t1, t2, t3, last}
=================================================================================
