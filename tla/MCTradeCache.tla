---------------------------- MODULE MCTradeCache ----------------------------
(* Instances of TradeCache for TLC.                                         *)
EXTENDS TradeCache, TLC

CONSTANTS a, b, never

Symmetry == Permutations(Callers)

=============================================================================
