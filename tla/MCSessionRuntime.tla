-------------------------- MODULE MCSessionRuntime --------------------------
(* Instances of SessionRuntime for TLC.                                    *)
EXTENDS SessionRuntime, TLC

CONSTANTS t1, t2, w1, w2

MCSymmetry == Permutations(Threads) \cup Permutations(Workers)
=============================================================================
