---------------------------- MODULE MCOwnership ----------------------------
(* Instances of RuntimeOwnership for TLC.                                   *)
EXTENDS RuntimeOwnership, TLC

CONSTANTS k1, k2, k3

MCScenarios ==
  {[clients |-> 3, desktop |-> FALSE, faults |-> 2], [clients |-> 1, desktop |-> TRUE, faults |-> 2],
   [clients |-> 2, desktop |-> TRUE, faults |-> 1]}

Symmetric == Permutations(Clients)
=============================================================================
