----------------------------- MODULE MCJobWorker -----------------------------
(* An instance of JobWorker for TLC.                                       *)
EXTENDS JobWorker, TLC

CONSTANTS w1, w2

MCWorkers == {w1, w2}

=============================================================================
