---------------------------- MODULE MCObjectStore ----------------------------
(* Instances of ObjectStore for TLC.                                        *)
EXTENDS ObjectStore, TLC

CONSTANTS a, b, none

Symmetry == Permutations(Clients)

=============================================================================
