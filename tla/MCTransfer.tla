----------------------------- MODULE MCTransfer -----------------------------
(* Instances of ProfileTransfer for TLC.                                    *)
EXTENDS ProfileTransfer, TLC

CONSTANTS a1, a2, p1, g1, g2, c1, c2

MCLoads ==
  {[kinds |-> {k}, requests |-> 4, edits |-> 1, crashes |-> 0] : k \in Kinds}
  \cup {[kinds |-> {k}, requests |-> 2, edits |-> 0, crashes |-> 1] : k \in Kinds}
=============================================================================
