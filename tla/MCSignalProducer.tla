--------------------------- MODULE MCSignalProducer ---------------------------
(* Constants for model checking SignalProducer.                              *)
EXTENDS SignalProducer, TLC

CONSTANTS p1, p2, p3, i1, i2, a, b, bad, raw

AllKeys == {a, b, bad, raw}

(* Two threads of one process and a process of its own. All publish a, so  *)
(* that a second publisher, or one after a kill, is a retry of the first.   *)
ThreeProducers == {p1, p2, p3}
TwoInstances   == {i1, i2}
ThreadsAndProcess == (p1 :> i1) @@ (p2 :> i1) @@ (p3 :> i2)
Batches == (p1 :> <<raw, a>>) @@ (p2 :> <<a>>) @@ (p3 :> <<bad, a, b>>)
Calls   == [p \in ThreeProducers |-> 1]
==============================================================================
