---------------------------- MODULE MCEngineThreads ----------------------------
(* Instances of EngineThreads for TLC.                                      *)
EXTENDS EngineThreads, TLC

CONSTANTS t1, t2, w1, w2, none

Symmetry == Permutations(Workers) \cup Permutations(Tokens)

=============================================================================
