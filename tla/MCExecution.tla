---------------------------- MODULE MCExecution ----------------------------
(***************************************************************************)
(* Instances of TransactionExecution: requests and approvals are           *)
(* interchangeable.                                                        *)
(***************************************************************************)
EXTENDS TransactionExecution, TLC

CONSTANTS r1, r2, p1, p2, a1, a2, k1

Symmetric == Permutations(Requests) \cup Permutations(Approvals) \cup Permutations(Plans)
=============================================================================
