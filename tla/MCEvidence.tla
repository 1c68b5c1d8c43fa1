----------------------------- MODULE MCEvidence -----------------------------
(* Instances of Evidence for TLC.                                           *)
EXTENDS Evidence, TLC

CONSTANTS t1, t2, w1, w2, r1, politics, sports, all, none

TwoCategories == (t1 :> politics) @@ (t2 :> sports)
Ends == (t1 :> 2) @@ (t2 :> 3)

AllRequests == {[strict |-> TRUE, category |-> all, window |-> 0..2, limit |-> 2],
                [strict |-> FALSE, category |-> politics, window |-> 1..2, limit |-> 2]}

Symmetry == Permutations(Workers)

=============================================================================
