--------------------------- MODULE MCHumanControl ---------------------------
(* Instances of HumanControl for TLC.                                      *)
EXTENDS HumanControl, TLC

CONSTANTS a1, a2, c1, c2, left, right, key

MCSymmetry == Permutations(Agents) \cup Permutations(Conns)
=============================================================================
