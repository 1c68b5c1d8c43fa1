-------------------------------- MODULE Replay --------------------------------
(***************************************************************************)
(* What the Lab learns from: the settled markets turned into point-in-time *)
(* rows (ingestion/replay_builder.py, ingestion/feature_builder.py) and    *)
(* the price-history replay of lab/backtest.py.                            *)
(*                                                                         *)
(* Time is an integer and a day DayLength of its units.  A candle is a     *)
(* time and a closing price, a trade is its time, a news item is dated to  *)
(* the moment, to the day, or not at all.  Prices are whole ticks of       *)
(* 1/Payout.                                                               *)
(***************************************************************************)
EXTENDS Listing

CONSTANTS DayLength, \* units of time in a day
          Payout     \* what a winning share pays

ASSUME ReplayAssumption == DayLength \in Nat \ {0} /\ Payout \in Nat \ {0}

-----------------------------------------------------------------------------
(* Candles and windows.                                                     *)

Candle(ts, close) == [ts |-> ts, close |-> close]

Older(candles, t) == {k \in DOMAIN candles : candles[k].ts < t}

(* Candles of one time stay as they are listed: Python's sort is stable.    *)
ByTime(candles) ==
    {p \in (DOMAIN candles) \X (DOMAIN candles) :
        \/ candles[p[1]].ts < candles[p[2]].ts
        \/ candles[p[1]].ts = candles[p[2]].ts /\ p[1] < p[2]}

Before(candles, t) == Selected(candles, Older(candles, t))

Ordered(candles, resolution) == Arranged(candles, Older(candles, resolution), ByTime(candles))

CeilDiv(n, d) == (n + d - 1) \div d

(* Where a policy wants to predict, as indices from 0.                      *)
Candidates(policy, n) ==
    IF policy = "midpoint" THEN {n \div 2}
    ELSE {CeilDiv((n - 1) * quarters, 4) : quarters \in 1..3}

(* For comparison: an index that may leave the history.                     *)
Unclamped(index, minHistory, n) == index

Clamped(index, minHistory, n) == Min({Max({index, minHistory}), n - 1})

(* The history of a prediction at this index: what is strictly older.  The  *)
(* strict comparison matters when candles share a timestamp.                *)
History(ordered, index) == Before(SubSeq(ordered, 1, index), ordered[index + 1].ts)

Priced(history) == Last(history).close \in 0..Payout

Window(asOf, history) == [asOf |-> asOf, candles |-> history, price |-> Last(history).close]

Windows(candles, resolution, minHistory, policy) ==
    LET ordered == Ordered(candles, resolution)
        n == Len(ordered)
        indices == {Clamped(i, minHistory, n) : i \in Candidates(policy, n)}
    IN IF n < minHistory + 1 THEN {}
       ELSE {Window(ordered[i + 1].ts, History(ordered, i)) :
                 i \in {i \in indices : /\ Len(History(ordered, i)) >= minHistory
                                        /\ Priced(History(ordered, i))}}

-----------------------------------------------------------------------------
(* Trades and news around a window.                                         *)

(* For comparison: trades at the very moment.                               *)
TradesUntilNow(trades, window) == {t \in trades : window.candles[1].ts <= t /\ t <= window.asOf}

TradesFlow(trades, window) == {t \in trades : window.candles[1].ts <= t /\ t < window.asOf}

Day(t) == t \div DayLength
EndOfDay(t) == (Day(t) + 1) * DayLength - 1

(* The search API filters by day, and lets undated items through.           *)
SearchBetween(pool, start, end) ==
    {i \in pool : i.dated = "never" \/ Day(i.at) \in Day(start)..Day(end)}

(* A date without a time counts from the end of its day.                    *)
PublishedAvailableAt(item) ==
    IF item.dated = "day" THEN EndOfDay(item.at) ELSE item.at

NewsSentiment(items, asOf) ==
    {i \in items : i.dated # "never" /\ PublishedAvailableAt(i) <= asOf}

-----------------------------------------------------------------------------
(* One collection: the row and the latest moment it says it draws on.       *)

Collection(window, trades, pool) ==
    LET news == NewsSentiment(SearchBetween(pool, window.candles[1].ts, window.asOf), window.asOf)
    IN [asOf |-> window.asOf,
        price |-> window.price,
        candles |-> window.candles,
        trades |-> TradesFlow(trades, window),
        news |-> news,
        availableAtMax |->
            Max({Last(window.candles).ts} \cup {PublishedAvailableAt(i) : i \in news})]

(* All of them, or none if one is not point-in-time.                        *)
BuildHistoricalCollections(market, minHistory, policy) ==
    LET windows == Windows(market.candles, market.resolution, minHistory, policy)
    IN IF \E w \in windows : Last(w.candles).ts >= w.asOf \/ w.asOf >= market.resolution
       THEN {}
       ELSE {Collection(w, market.trades, market.news) : w \in windows}

-----------------------------------------------------------------------------
(* Outcomes: the YES token of a yes/no market, else every token.  A market  *)
(* is a sequence of outcome names and of final prices.                      *)

Label(price) == IF 2 * price >= Payout THEN 1 ELSE 0

IsYesNo(names) == Len(names) = 2 /\ ToSet(names) = {"yes", "no"}

SettledOutcomes(names, finalPrices) ==
    IF Len(names) < 2 \/ Len(finalPrices) # Len(names) THEN {}
    ELSE {[name |-> names[i], outcome |-> Label(finalPrices[i])] :
              i \in {i \in DOMAIN names : IsYesNo(names) => names[i] = "yes"}}

-----------------------------------------------------------------------------
(* BacktestRunner._score_market: the replay on raw price history.  It keeps *)
(* the order the candles came in and does not look at the resolution time.  *)

Settled(price) == 20 * price <= Payout \/ 20 * price >= 19 * Payout

ScoreIndex(n, minHistory) == Clamped(n \div 2, minHistory, n)

(* The row of a market that would be predicted at this index.               *)
RowAt(candles, index, minHistory, finalPrice) ==
    LET asOf == candles[index + 1].ts
        history == Before(SubSeq(candles, 1, index), asOf)
        price == Last(history).close
    IN IF Len(history) < minHistory \/ 50 * price <= Payout \/ 50 * price >= 49 * Payout
       THEN {}
       ELSE {[asOf |-> asOf, candles |-> history, price |-> price, outcome |-> Label(finalPrice)]}

ScoreMarket(candles, finalPrice, minHistory) ==
    LET n == Len(candles)
    IN IF ~Settled(finalPrice) \/ n < minHistory + 1 THEN {}
       ELSE RowAt(candles, ScoreIndex(n, minHistory), minHistory, finalPrice)

-----------------------------------------------------------------------------
(* The candles of a replay, from the store first.  The store maps a time to *)
(* the close last written for it and reads in order.                        *)

UpsertCandles(stored, candles) ==
    LET times == {candles[k].ts : k \in DOMAIN candles}
        LastOf(t) == candles[Max({k \in DOMAIN candles : candles[k].ts = t})].close
    IN [t \in DOMAIN stored \cup times |-> IF t \in times THEN LastOf(t) ELSE stored[t]]

GetCandles(stored) ==
    LET Nth(k) == CHOOSE t \in DOMAIN stored : Cardinality({u \in DOMAIN stored : u < t}) = k - 1
    IN [k \in 1..Cardinality(DOMAIN stored) |-> Candle(Nth(k), stored[Nth(k)])]

Enough(stored, minHistory) == Cardinality(DOMAIN stored) >= minHistory + 1

CandlesFor(stored, fetched, minHistory) ==
    IF Enough(stored, minHistory) THEN GetCandles(stored) ELSE fetched

WriteThrough(stored, fetched, minHistory) ==
    IF Enough(stored, minHistory) THEN stored ELSE UpsertCandles(stored, fetched)

(* The rows of the first markets that have one, at most so many.            *)
FirstRows(rows, most) ==
    LET found == {k \in DOMAIN rows : rows[k] # {}}
        first == {k \in found : Cardinality({j \in found : j < k}) < most}
    IN Selected([k \in DOMAIN rows |-> CHOOSE r \in rows[k] : TRUE], first)

(* BacktestRunner.replay.                                                   *)
ReplayMarkets(markets, maxMarkets, minHistory) ==
    LET Row(m) == ScoreMarket(CandlesFor(m.stored, m.candles, minHistory), m.final, minHistory)
    IN FirstRows([k \in DOMAIN markets |-> Row(markets[k])], maxMarkets)

(* _multi_score of the kernel, with its own bounds, over a runner that has  *)
(* the default history.                                                     *)
MultiScore(markets, cap) ==
    LET Row(m) == LET candles == CandlesFor(m.stored, m.candles, 4)
                      n == Len(candles)
                  IN IF ~Settled(m.final) \/ n < 5 THEN {}
                     ELSE RowAt(candles, Min({Max({n \div 2, 4}), n - 1}), 4, m.final)
    IN FirstRows([k \in DOMAIN markets |-> Row(markets[k])], cap)

=============================================================================
