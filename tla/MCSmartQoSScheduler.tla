------------------------ MODULE MCSmartQoSScheduler ------------------------
(* Weights for small instances of SmartQoSScheduler.                        *)
EXTENDS SmartQoSScheduler

\* Falling weights, as in the code.
FallingWeights == [i \in Queues |-> IF i = 0 THEN 5 ELSE IF i = 1 THEN 2 ELSE 1]
=============================================================================
