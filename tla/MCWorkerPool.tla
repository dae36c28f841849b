----------------------------- MODULE MCWorkerPool ------------------------------
(* Constants for model checking WorkerPool.                                   *)
EXTENDS WorkerPool

LowAndHigh == {0, 1}
==============================================================================
