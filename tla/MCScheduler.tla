---------------------------- MODULE MCScheduler ----------------------------
(* Instances of Scheduler for TLC.                                          *)
EXTENDS Scheduler, TLC

CONSTANTS w1, w2, w3

TwoWorkers == {w1, w2}
ThreeWorkers == {w1, w2, w3}
(* The first endpoint has a shorter interval than the others.               *)
ShortFirst == [e \in Endpoint |-> IF e = 1 THEN 1 ELSE 2]
EveryPeriod == [e \in Endpoint |-> 1]

(* Workers are interchangeable: used in the runs with safety properties     *)
(* only.                                                                    *)
WorkerSymmetry == Permutations(ThreeWorkers)
=============================================================================
