------------------------------ MODULE MCCommit ------------------------------
(* Instances of CommitAuthorization for TLC.                               *)
EXTENDS CommitAuthorization, TLC

CONSTANTS k1, k2, o1, o2

\* A policy that wants the amount observed, and one limit below another.
OnePolicy == {[autonomy |-> 1, absolute |-> 2, daily |-> 2, monthly |-> 3, minimum |-> 1]}
\* A selection and a commit; elsewhere an operation may be refused, approved and repeated.
MCOps == [k \in KindSets |-> IF "provide" \in k THEN 2 ELSE 3]
MCSymmetry == Permutations(Conns)
=============================================================================
