----------------------------- MODULE MCMonitor -----------------------------
(* Instances of MonitorConnection for TLC.                                  *)
EXTENDS MonitorConnection, TLC

CONSTANTS p1, p2, m1, m2, k1, k2

MCLoads ==
  {[events |-> 0, conns |-> 2, control |-> FALSE], [events |-> 2, conns |-> 1, control |-> FALSE],
   [events |-> 1, conns |-> 1, control |-> TRUE]}
Reconnecting == {[events |-> 2, conns |-> 2, control |-> TRUE]}
=============================================================================
