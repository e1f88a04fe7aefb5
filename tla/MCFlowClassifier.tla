-------------------------- MODULE MCFlowClassifier --------------------------
(* A bounded instance of FlowClassifier for TLC. *)
EXTENDS FlowClassifier

Flow(proto, port) == [proto |-> proto, port |-> port]
Mix == {Flow("udp", "plain"), Flow("tcp", "plain")}

\* Late stamps, and 0, 7 and 20 microseconds.
MCGaps == {-1, 1, 14, 40}
=============================================================================
