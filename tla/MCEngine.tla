------------------------------- MODULE MCEngine -------------------------------
(* Instances of Engine for TLC.                                             *)
EXTENDS Engine, TLC

CONSTANTS t1, t2, c1, c2, openMarket, none

TwoMarkets == (t1 :> c1) @@ (t2 :> c2)
OneMarket == (t1 :> c1) @@ (t2 :> c1)

=============================================================================
