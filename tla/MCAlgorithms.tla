---------------------------- MODULE MCAlgorithms ----------------------------
(* Arguments for Algorithms: every short history in any order, with ties    *)
(* and a candle out of range, and every longer one that is in order.        *)
EXTENDS Algorithms, TLC

CONSTANT none

Closes == 10
Candles == {Candle(t, Closes) : t \in 1..5} \cup {Candle(2, Payout + 1)}

Unordered == SeqOf(Candles, 4)
InOrder == {SetToSortSeq(times, <) : times \in {s \in SUBSET (1..7) : Cardinality(s) \in 5..7}}
CandleLists == Unordered \cup {[k \in DOMAIN s |-> Candle(s[k], Closes)] : s \in InOrder}

Pool == {[dated |-> "moment", at |-> t] : t \in 1..5}
        \cup {[dated |-> "day", at |-> t] : t \in {1, 4}}
        \cup {[dated |-> "never", at |-> 0]}

MCMarkets == [candles : CandleLists, resolution : {4, 6, 9},
              trades : {0..7},
              news : {{}, Pool, {[dated |-> "day", at |-> 4]}}]

MCNames == {<<"yes">>, <<"yes", "no">>, <<"no", "yes">>, <<"red", "blue">>,
            <<"red", "blue", "green">>}

(* Candle times in any order, and evenly spaced ones two apart; trades      *)
(* before, between, on and after them.                                      *)
MCCandleTimes == {s \in SeqOf(3..7, 4) : s # <<>>} \cup {<<2, 4, 6>>, <<2, 4, 6, 8, 10>>}

MCTradeSets == {0..12, {}}

(* No pack, one, or all of them.                                            *)
MCSelections == {s \in SUBSET DOMAIN PACKS : Cardinality(s) <= 1} \cup {DOMAIN PACKS}

(* default_config.py in ticks of two cents and money in cents, but for the  *)
(* spread: a tenth, so that a book of such ticks can be narrow enough.      *)
MCConfig == [edgeFloor |-> 3, marketWeight |-> 30, minApy |-> 50, kellyDivisor |-> 4,
             bankroll |-> 50000, maxFraction |-> 5, minLiquidity |-> 5000, maxSpread |-> 1000]

MCStakes == {1, 50, 500, 2450, 2500, 2501}

(* Up to three claims about one team, with every price, or about two that   *)
(* meet.                                                                    *)
Stages == {"win", "final", "semifinal", "quarterfinal", "advance"}
Own(team, prices) == {Claim(team, none, s, p) : s \in Stages, p \in prices}

MCClaimLists ==
    SeqOf(Own("red", 1..4) \cup {Claim("red", "blue", "beat", p) : p \in {1, 4}}, 3)
    \cup SeqOf(Own("red", {1, 3}) \cup {Claim("blue", "red", "beat", p) : p \in {1, 3}}, 3)

(* A book around a mid, listed worst first; one with a single side; none.   *)
Around(mid, width) == [bids |-> <<1, mid - width>>, asks |-> <<Unit - 1, mid + width>>]
Venue(sdk, rest) == [sdk |-> sdk, rest |-> rest]
Live(mid) == Venue(Around(mid, 1), Around(mid, 5))
Silent == Venue(none, none)
OneSided == Venue([bids |-> <<>>, asks |-> <<21>>], none)
Empty == [bids |-> <<>>, asks |-> <<>>]

(* A clear buy, a buy that its book spoils, one that the book's silence     *)
(* leaves to the listed spread, one whose book has one side, one read by    *)
(* REST, a wide one, a sell, a hold, one that raises, one that is settled   *)
(* and one without volume, one that ends now and one past its end; requests *)
(* for one or two, with and without holds.                                  *)
Side(p, price, venue) ==
    [p |-> p, price |-> price, venue |-> venue, listedSpread |-> 0, liquidity |-> 5000,
     volume |-> 10, days |-> 30, raises |-> FALSE]

MCSides == {Side(40, 20, Live(21)), Side(40, 20, Live(39)), Side(40, 20, Silent),
            [Side(40, 20, Silent) EXCEPT !.listedSpread = 1200],
            [Side(40, 20, OneSided) EXCEPT !.listedSpread = 1200],
            [Side(40, 20, Venue(Empty, Around(25, 1))) EXCEPT !.days = 0],
            Side(40, 20, Venue(Around(21, 5), Around(21, 1))),
            Side(10, 20, Venue(none, Around(21, 1))), Side(20, 20, Live(20)),
            [Side(45, 20, Live(21)) EXCEPT !.raises = TRUE], Side(40, 50, Live(49)),
            [Side(48, 20, Silent) EXCEPT !.volume = 1, !.days = -1]}

MCListings == {l \in SeqOf(MCSides, 3) : \A i, j \in DOMAIN l : i # j => l[i] # l[j]}

(* Markets to replay: histories in order and not, settled and not, with an  *)
(* empty store, a part of the history, all of its end, and other times.     *)
Line(times) == [k \in DOMAIN times |-> Candle(times[k], 8 + times[k])]
Stored(times) == [t \in times |-> 8 + t]
Past(candles, final, stored) == [candles |-> candles, final |-> final, stored |-> stored]

MCPast == {Past(Line(times), final, stored) :
              times \in {<<1, 2, 3, 4, 5, 6, 7>>, <<1, 2, 3, 4, 5>>, <<1, 2, 2, 4, 5, 6>>,
                         <<3, 1, 2, 6, 4, 5>>, <<1, 2, 3, 4>>},
              final \in {20, 1, 10}, stored \in {<<>>, Stored({2, 3}), Stored(3..7), Stored({0, 8})}}

MCReplayLists == {<<a, b>> : a, b \in MCPast}
                 \cup {<<a, b, c>> : a \in {m \in MCPast : m.final = 10}, b, c \in {m \in MCPast : m.final = 1}}

MCMonitorRequests == [limit : {1, 2}, minVolume : {0, 5}, minEdge : {none, 8}, holds : BOOLEAN]

(* Two teams with wins on one day or two, dear or cheap; scores named       *)
(* either way round, and of another match.                                  *)
MCWinLists == SeqOf({WinOn(t, d, p) : t \in {"red", "blue"}, d \in {1, 2}, p \in {45, 57}}, 2)

MCScores == {ExactScore("red", "blue", g, p) : g \in {<<1, 0>>, <<0, 1>>, <<1, 1>>}, p \in {20, 55}}
            \cup {ExactScore("blue", "red", <<0, 1>>, 55), ExactScore("red", "green", <<1, 0>>, 70)}

MCScoreLists == SeqOf(MCScores, 3)

(* Markets that end now, soon and late, with much history or little; one is *)
(* listed again with other numbers.                                         *)
Row(market, side, days, history, change) ==
    [market |-> market, side |-> side, days |-> days, history |-> history, change |-> change]

MCRows == {Row("m1", "YES", 1, 9, 2), Row("m1", "NO", 1, 9, 2), Row("m1", "YES", 2, 9, 6), Row("m2", "YES", 1, 3, 5),
           Row("m3", "YES", 0, 2, 1), Row("m4", "YES", 5, 1, 0), Row("m5", "YES", 6, 30, 7)}

MCRadarLists == SeqOf(MCRows, 4)

MCScales == [deep : {2, 3}, expiry : {5}, shown : {1, 2}, young : {8}]

=============================================================================
