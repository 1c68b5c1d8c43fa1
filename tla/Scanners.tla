------------------------------- MODULE Scanners -------------------------------
(***************************************************************************)
(* The scanners for logical arbitrage (kernel/wiring.py:336-402, 609-654): *)
(* the claims about one entity, in the order in which the market scan      *)
(* lists them, and the pairs of them that are flagged because a claim is   *)
(* dearer than one that it implies; the sums over the markets of one match *)
(* (670-703); and the radar of what moves, ends soon or is new (705-772).  *)
(* Prices are in ticks.                                                    *)
(***************************************************************************)
EXTENDS Listing

CONSTANTS Tolerance   \* how much dearer a claim may be, in ticks: a cent

ASSUME ScannersAssumption == Tolerance \in Nat

(* "Will <of> <stage> ...?"  Who else the question names is in vs.          *)
Claim(of, vs, stage, price) == [of |-> of, vs |-> vs, stage |-> stage, price |-> price]

(* _stage_level, the first keyword that occurs: "final" occurs in           *)
(* "semifinal" and "quarterfinal", which therefore have the final's level.  *)
StageLevel(stage) ==
    CASE stage = "win" -> 4
      [] stage \in {"final", "semifinal", "quarterfinal"} -> 3
      [] stage \in {"advance", "beat"} -> 0

Level(claim) == StageLevel(claim.stage)

(* For comparison: sorted by level, the weakest first.                      *)
WeakestFirst(claims) ==
    {p \in (DOMAIN claims) \X (DOMAIN claims) :
        \/ Level(claims[p[1]]) < Level(claims[p[2]])
        \/ Level(claims[p[1]]) = Level(claims[p[2]]) /\ p[1] < p[2]}

(* Claims of one level stay in the order of the scan.                       *)
StrongestFirst(claims) ==
    {p \in (DOMAIN claims) \X (DOMAIN claims) :
        \/ Level(claims[p[1]]) > Level(claims[p[2]])
        \/ Level(claims[p[1]]) = Level(claims[p[2]]) /\ p[1] < p[2]}

Staged(claims, places) == Arranged(claims, places, StrongestFirst(claims))

(* The neighbours of which the first is the dearer.                         *)
Violations(chain) ==
    {<<chain[i], chain[i + 1]>> : i \in {i \in 1..(Len(chain) - 1) :
                                            chain[i].price > chain[i + 1].price + Tolerance}}

(* _entity_implication: every claim that mentions the entity.               *)
EntityImplication(claims, entity) ==
    LET cluster == {k \in DOMAIN claims : entity \in {claims[k].of, claims[k].vs}}
    IN {v \in Violations(Staged(claims, cluster)) : Level(v[1]) > Level(v[2])}

(* scan_conditional_arb: of the claims about each entity, the first of each *)
(* level.                                                                   *)
FirstOfLevel(claims, entity) ==
    LET own == {k \in DOMAIN claims : claims[k].of = entity}
    IN {k \in own : \A i \in own : i < k => Level(claims[i]) # Level(claims[k])}

ConditionalChain(claims, entity) == Staged(claims, FirstOfLevel(claims, entity))

ConditionalArb(claims) ==
    UNION {Violations(ConditionalChain(claims, c.of)) : c \in ToSet(claims)}

-----------------------------------------------------------------------------
(* Markets of a match: "Will <team> win on <day>?", and "Exact Score: <a>   *)
(* <goals> <b>?", whose teams may be named either way round.                *)

WinOn(team, day, price) == [team |-> team, day |-> day, price |-> price]

ExactScore(a, b, goals, price) == [a |-> a, b |-> b, goals |-> goals, price |-> price]

SumOf(prices) == FoldFunction(+, 0, prices)

Overround(sum) == sum > 101 * Tolerance

(* The last one listed, whatever its day.                                   *)
WinnerPrice(wins, team) ==
    LET of == {k \in DOMAIN wins : wins[k].team = team}
    IN IF of = {} THEN {} ELSE {wins[Max(of)].price}

ScoresOf(scores, teams) ==
    Selected(scores, {k \in DOMAIN scores : {scores[k].a, scores[k].b} = teams})

(* _match_consistency: of each match with a score listed, whether all its   *)
(* scores, or both its winners, cost more than a dollar.                    *)
MatchConsistency(wins, scores) ==
    LET Checked(s) ==
            LET listed == ScoresOf(scores, {s.a, s.b})
            IN [teams |-> {s.a, s.b},
                exact |-> Overround(SumOf([k \in DOMAIN listed |-> listed[k].price])),
                winner |-> \E p \in WinnerPrice(wins, s.a), q \in WinnerPrice(wins, s.b) :
                              Overround(p + q)]
    IN {Checked(s) : s \in ToSet(scores)}

-----------------------------------------------------------------------------
(* market_radar.                                                            *)

(* The YES side of each market, once.                                       *)
OncePerMarket(rows) ==
    LET yes == {k \in DOMAIN rows : rows[k].side = "YES"}
    IN Selected(rows, {k \in yes : \A i \in yes : i < k => rows[i].market # rows[k].market})

(* The n indices that a stable sort by these keys puts first.               *)
Top(keys, n) ==
    {i \in DOMAIN keys :
        Cardinality({j \in DOMAIN keys : keys[j] < keys[i] \/ (keys[j] = keys[i] /\ j < i)}) < n}

(* What ends soon but not now; of the markets whose history is read, what   *)
(* moved most, and what has little of it.                                   *)
MarketRadar(rows, scale) ==
    LET markets == OncePerMarket(rows)
        Ends == {i \in DOMAIN markets : markets[i].days \in 1..scale.expiry}
        Read == {i \in 1..Min({scale.deep, Len(markets)}) : markets[i].history >= 2}
        Young == {i \in Read : markets[i].history <= scale.young}
        At(indices) == {markets[i] : i \in indices}
    IN [near   |-> At(Top([i \in Ends |-> markets[i].days], scale.shown)),
        movers |-> At(Top([i \in Read |-> -markets[i].change], scale.shown)),
        fresh  |-> At(Top([i \in Young |-> markets[i].history], scale.shown))]

=============================================================================
