-------------------------------- MODULE MCDesk --------------------------------
(* Two markets that share a word; requests that name both, none of them in  *)
(* words an LLM may translate, a token, any market, or nothing at all.      *)
EXTENDS Desk, TLC

CONSTANTS france, brazil, j1, j2, none

MCAbout == (france :> {"cup", "france"}) @@ (brazil :> {"cup", "brazil"})

(* A search finds parts of words too.                                       *)
MCFound == (france :> {"cup", "france", "ran"}) @@ (brazil :> {"cup", "brazil"})

MCTranslations == {{}, {"ran"}, {"brazil"}}

(* A request that may trade, over a price that moves; requests that keep a  *)
(* journal which has an entry or none yet.                                  *)
MCSessions ==
    [asked : {{"cup"}, {"senate"}}, packs : {{"paper-exec"}}, logged : {{}},
     calls : {3}, moves : {1}] \cup
    [asked : {{"senate", "liquid"}}, packs : {{"prediction-journal"}}, logged : {{brazil}},
     calls : {1}, moves : {0}] \cup
    [asked : {{"senate"}, {france}, {}}, packs : {{"prediction-journal"}}, logged : {{}},
     calls : {1}, moves : {0}]

Symmetry == Permutations(Journals)

=============================================================================
