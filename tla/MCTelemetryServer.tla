-------------------------- MODULE MCTelemetryServer --------------------------
(* A bounded instance of TelemetryServer for TLC. *)
EXTENDS TelemetryServer

\* Two queues, the second of which is the bulk queue.
Initial == [q \in 0 .. 1 |-> q]
=============================================================================
