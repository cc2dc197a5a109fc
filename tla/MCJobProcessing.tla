--------------------------- MODULE MCJobProcessing ---------------------------
(* Instances of JobProcessing for TLC.                                     *)
EXTENDS JobProcessing

CONSTANTS w1, w2, r1

MCWorkers == {w1, w2}
OneWorker == {w1}
MCRequests == {r1}
NoRequests == {}
=============================================================================
