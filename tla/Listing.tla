-------------------------------- MODULE Listing --------------------------------
(***************************************************************************)
(* Filtering and sorting as Python does them: a comprehension keeps the    *)
(* order of the list, and sorted() is stable.  A list is a sequence, what  *)
(* is kept of it a set of its places, and an order a set of pairs of       *)
(* places.                                                                 *)
(***************************************************************************)
EXTENDS Integers, SequencesExt

(* The elements at some places, in a strict order of places.                *)
Arranged(seq, places, order) ==
    LET Nth(i) == CHOOSE k \in places : Cardinality({j \in places : <<j, k>> \in order}) = i - 1
    IN [i \in 1..Cardinality(places) |-> seq[Nth(i)]]

AsListed(seq) == {p \in (DOMAIN seq) \X (DOMAIN seq) : p[1] < p[2]}

Selected(seq, places) == Arranged(seq, places, AsListed(seq))

=============================================================================
