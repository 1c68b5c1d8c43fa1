----------------------------- MODULE Algorithms -----------------------------
(***************************************************************************)
(* One call of a pure function at a time: TLC draws the arguments from     *)
(* CONSTANT sets, the step stores what the function returns, and the       *)
(* properties relate the two.                                              *)
(***************************************************************************)
EXTENDS Replay, Volume, Capabilities, Monitor, Scanners

CONSTANTS Markets,     \* [candles, resolution, trades, news]
          Histories,   \* minimum lengths of a history
          NameLists,   \* outcome names of a market
          Finals,      \* final prices of an outcome
          CandleTimes, \* sequences of candle times
          TradeSets,   \* sets of trade times
          Selections,  \* packs a kernel request may load
          MaxSteps,    \* turns of the kernel loop
          Liquidities, Spreads, Days, \* of a market to decide on
          Stakes,      \* sizes a trade may be checked with
          Listings, MonitorRequests, \* of the Lab's monitor
          ReplayLists, \* markets a replay goes through
          Mosts,       \* how many of them it is to score
          ClaimLists,  \* claims about entities, as a scan lists them
          WinLists, ScoreLists,      \* markets of matches
          RadarLists, Scales,        \* rows of a market scan, sizes of a radar
          Lengths,     \* of a venue's ranking; limits and pages that fail
          NoAnswer     \* the call has not returned

(* What the venue says of a side of a market, and the strategy predicts.    *)
SideTyped(m) ==
    /\ m.p \in 0..Unit /\ m.price \in Int /\ m.days \in Int
    /\ {m.venue.sdk, m.venue.rest} \subseteq {None} \cup [bids : Seq(Int), asks : Seq(Int)]

(* A market to replay, and what the store has of its candles.               *)
PastTyped(m) ==
    /\ m = [candles |-> m.candles, final |-> m.final, stored |-> m.stored]
    /\ m.candles \in Seq([ts : Int, close : Int]) /\ m.final \in Int
    /\ m.stored \in [DOMAIN m.stored -> Int] /\ DOMAIN m.stored \subseteq Int
    /\ IsFiniteSet(DOMAIN m.stored)

ClaimTyped(c) ==
    /\ c.stage \in {"win", "final", "semifinal", "quarterfinal", "advance", "beat"}
    /\ c.price \in Int

ASSUME AlgorithmsAssumption ==
    /\ \A m \in Markets :
          /\ m.candles \in Seq([ts : Int, close : Int]) /\ m.resolution \in Int
          /\ m.news \subseteq [dated : {"moment", "day", "never"}, at : Int] /\ IsFiniteSet(m.news)
    /\ Histories \subseteq Nat \ {0} /\ Finals \subseteq Int /\ NameLists \subseteq Seq(STRING)
    /\ CandleTimes \subseteq Seq(Int) /\ TradeSets \subseteq SUBSET Int
    /\ Days \subseteq Int /\ Stakes \subseteq Nat \ {0}
    /\ \A l \in Listings : l \in Seq(ToSet(l)) /\ \A m \in ToSet(l) : SideTyped(m)
    /\ MonitorRequests \subseteq
          [limit : Nat, minVolume : Int, minEdge : Int \cup {None}, holds : BOOLEAN]
    /\ \A l \in ReplayLists : l \in Seq(ToSet(l)) /\ \A m \in ToSet(l) : PastTyped(m)
    /\ \A l \in ClaimLists : l \in Seq(ToSet(l)) /\ \A c \in ToSet(l) : ClaimTyped(c)
    /\ \A l \in WinLists : l \in Seq(ToSet(l)) /\ \A w \in ToSet(l) : w.price \in Int
    /\ \A l \in ScoreLists : l \in Seq(ToSet(l)) /\ \A s \in ToSet(l) : s.price \in Int /\ s.a # s.b
    /\ RadarLists \subseteq Seq([market : STRING, side : {"YES", "NO"},
                                 days : Int, history : Nat, change : Int])
    /\ Scales \subseteq [deep : Nat, expiry : Int, shown : Nat, young : Int]
    /\ Lengths \subseteq Nat

Policies == {"midpoint", "multi"}

VARIABLES call,   \* the function and its arguments
          answer  \* what it returned

callVars == <<call, answer>>

-----------------------------------------------------------------------------
BuildCalls == [fn : {"build"}, market : Markets, minHistory : Histories, policy : Policies]

ScoreCalls ==
    [fn : {"score"}, candles : {m.candles : m \in Markets}, minHistory : Histories, final : Finals]

OutcomeCalls ==
    UNION {[fn : {"outcomes"}, names : {names},
            finals : UNION {[1..n -> Finals] : n \in {Len(names), Len(names) - 1}}] :
               names \in NameLists}

VolumeCalls == [fn : {"volume"}, candles : CandleTimes, trades : TradeSets]

(* What run_mode can be asked for, and in kernel mode any single fact, with *)
(* and without the controller's seeds.                                      *)
Asks(mode) ==
    {GoalFor(mode, words) : words \in SUBSET {"backtest", "trade", "evaluate"}} \cup
    (IF mode \notin {"kernel", "demo"} THEN {}
     ELSE [target : UNION {AllCapabilities[c].effects : c \in DOMAIN AllCapabilities},
           facts : {{"question"}, {"event"}, {"question", "event"}}])

PlanCalls ==
    UNION {[fn : {"plan"}, mode : {mode}, selected : IF mode = "kernel" THEN Selections ELSE {{}},
            goal : Asks(mode), pick : BOOLEAN] :
               mode \in {"ask", "research", "lab", "strategy", "kernel", "demo"}}

DecideCalls ==
    [fn : {"decide"}, direction : {"yes", "none"}, p : 0..Unit, price : 0..Unit,
     liquidity : Liquidities, spread : Spreads, days : Days]

ArbCalls == [fn : {"arb"}, claims : ClaimLists]

MonitorCalls ==
    [fn : {"monitor"}, markets : Listings, request : MonitorRequests \cup {AskRequest(2)}]

MatchCalls == [fn : {"match"}, wins : WinLists, scores : ScoreLists]

RadarCalls == [fn : {"radar"}, rows : RadarLists, scale : Scales]

ListCalls == [fn : {"list"}, ranking : {[k \in 1..n |-> k] : n \in Lengths},
              limit : Lengths, failing : Lengths]

ReplayCalls == [fn : {"replay"}, markets : ReplayLists, most : Mosts]

CallInit ==
    /\ call \in BuildCalls \cup ScoreCalls \cup OutcomeCalls \cup VolumeCalls
               \cup PlanCalls \cup DecideCalls \cup ArbCalls \cup MonitorCalls \cup ReplayCalls
               \cup MatchCalls \cup RadarCalls \cup ListCalls
    /\ answer = NoAnswer

Build ==
    /\ call.fn = "build"
    /\ answer' = BuildHistoricalCollections(call.market, call.minHistory, call.policy)

Score ==
    /\ call.fn = "score"
    /\ answer' = ScoreMarket(call.candles, call.final, call.minHistory)

(* The runner, the kernel's matrix, and the runner once more over what the  *)
(* store has after the first time.                                          *)
ReplayTwice ==
    LET Later(m) == [m EXCEPT !.stored = WriteThrough(m.stored, m.candles, 4)]
        markets == call.markets
    IN /\ call.fn = "replay"
       /\ answer' = [runner |-> ReplayMarkets(markets, call.most, 4),
                     matrix |-> MultiScore(markets, call.most),
                     again  |-> ReplayMarkets([k \in DOMAIN markets |-> Later(markets[k])], call.most, 4)]

Outcomes ==
    /\ call.fn = "outcomes"
    /\ answer' = SettledOutcomes(call.names, call.finals)

EnrichVolume ==
    /\ call.fn = "volume"
    /\ answer' = Buckets(call.candles, call.trades)

Plan ==
    /\ call.fn = "plan"
    /\ answer' = RunLoop(call.goal, RegistryFor(call.mode, call.selected), call.pick, MaxSteps)

DecideAt(c, price) ==
    Decide(Signal(c.direction, c.p), price, c.liquidity, c.spread, c.days)

DecideSide ==
    /\ call.fn = "decide"
    /\ answer' = DecideAt(call, call.price)

Subjects == {call.claims[k].of : k \in DOMAIN call.claims}

ScanArb ==
    /\ call.fn = "arb"
    /\ answer' = [conditional |-> ConditionalArb(call.claims),
                  implied |-> [e \in Subjects |-> EntityImplication(call.claims, e)]]

CheckMatches ==
    /\ call.fn = "match"
    /\ answer' = MatchConsistency(call.wins, call.scores)

Radar ==
    /\ call.fn = "radar"
    /\ answer' = MarketRadar(call.rows, call.scale)

List ==
    /\ call.fn = "list"
    /\ answer' = ListMarkets(call.ranking, call.limit, call.failing)

MonitorScan ==
    /\ call.fn = "monitor"
    /\ answer' = ScanMonitor(call.markets, call.request)

CallNext ==
    /\ answer = NoAnswer
    /\ \/ Build \/ Score \/ ReplayTwice \/ Outcomes \/ EnrichVolume
       \/ Plan \/ DecideSide \/ ScanArb \/ CheckMatches \/ Radar \/ List \/ MonitorScan
    /\ UNCHANGED call

CallSpec == CallInit /\ [][CallNext]_callVars

-----------------------------------------------------------------------------
Returned(fn) == call.fn = fn /\ answer # NoAnswer

(* When the public can have known of a news item at the latest.             *)
LatestPublication(item) == IF item.dated = "day" THEN EndOfDay(item.at) ELSE item.at

(* No row holds anything that was not known when it predicts: candles and   *)
(* trades are strictly older, news are certainly published, the prediction  *)
(* is made before the market's end, and the moment that the row declares    *)
(* covers all of it (ingestion/replay_builder.py:134-176, 295-307,          *)
(* feature_builder.py:74-139).                                              *)
NothingFromTheFuture ==
    /\ Returned("build") =>
         \A r \in answer :
            /\ r.asOf < call.market.resolution
            /\ \A t \in r.trades : t < r.asOf
            /\ \A i \in r.news : i.dated # "never" /\ LatestPublication(i) <= r.availableAtMax
            /\ \A k \in DOMAIN r.candles : r.candles[k].ts <= r.availableAtMax
            /\ r.availableAtMax <= r.asOf
    /\ Returned("build") \/ Returned("score") =>
         \A r \in answer : \A k \in DOMAIN r.candles : r.candles[k].ts < r.asOf

(* One row per moment, and none lost.  The store keeps one row per token    *)
(* and time (storage/db.py:196-201), so two windows at the same time, which *)
(* tied candles can produce, must hold the same evidence or one silently    *)
(* replaces the other.  A market with enough candles at different times     *)
(* before its end, all priced, yields a row under both policies, and the    *)
(* multi policy's rows contain the midpoint's                               *)
(* (replay_builder.py:142-160): neither rounding nor clamping may lose the  *)
(* only window of a short history.  The replays of price history take the   *)
(* same rows whichever of the two goes through the markets, and again from  *)
(* the store that the first one filled, which keeps one candle per time     *)
(* (lab/backtest.py:128-144, kernel/wiring.py:1070-1100), and none of them  *)
(* takes a row from the future.                                             *)
OneRowPerMoment ==
    LET candles == Before(call.market.candles, call.market.resolution)
        times == {candles[k].ts : k \in DOMAIN candles}
        spread == /\ \A k \in DOMAIN candles : candles[k].close \in 0..Payout
                  /\ Cardinality(times) = Len(candles)
        Replayable(m) == LET at == {m.candles[k].ts : k \in DOMAIN m.candles}
                         IN /\ DOMAIN m.stored \subseteq at \/ Enough(m.stored, 4)
                            /\ Cardinality(at) = Len(m.candles)
                            /\ GetCandles(UpsertCandles(<<>>, m.candles)) = m.candles
    IN /\ Returned("build") =>
            /\ \A r, s \in answer : r.asOf = s.asOf => r = s
            /\ spread /\ Len(candles) > call.minHistory => answer # {}
            /\ spread /\ call.policy = "multi" =>
                  BuildHistoricalCollections(call.market, call.minHistory, "midpoint") \subseteq answer
       /\ Returned("replay") =>
            /\ answer.matrix = answer.runner
            /\ (\A k \in DOMAIN call.markets : Replayable(call.markets[k])) => answer.again = answer.runner
            /\ \A r \in ToSet(answer.runner) \cup ToSet(answer.again) :
                  \A k \in DOMAIN r.candles : r.candles[k].ts < r.asOf

(* Of the outcomes of a market that paid in full on one of them, exactly    *)
(* that one is labelled as won, and a yes/no market gives one row           *)
(* (replay_builder.py:80-123).                                              *)
OneWinner ==
    Returned("outcomes") =>
      /\ IsYesNo(call.names) => Cardinality(answer) <= 1
      /\ \A w \in DOMAIN call.finals :
            /\ call.finals[w] = Payout
            /\ \A i \in DOMAIN call.finals \ {w} : call.finals[i] = 0
            => {r.name : r \in {r \in answer : r.outcome = 1}} \subseteq {call.names[w]}

(* No trade is counted twice, and over evenly spaced candles each trade is  *)
(* counted in the candle whose bar it falls into and in no other            *)
(* (dataflows/volume.py:3-7, 71-80, 98-110): a wrong bar or an off-by-one   *)
(* at a boundary moves volume to a neighbour.                               *)
VolumeGoesToItsCandle ==
    Returned("volume") =>
      LET candles == call.candles
          Even == /\ Len(candles) >= 2
                  /\ candles[2] > candles[1]
                  /\ \A i \in 1..(Len(candles) - 1) :
                        candles[i + 1] - candles[i] = candles[2] - candles[1]
          InBar(t, i) == candles[i] <= t /\ t < candles[i] + (candles[2] - candles[1])
      IN /\ \A i, j \in DOMAIN answer : i # j => answer[i] \cap answer[j] = {}
         /\ Even => \A i \in DOMAIN answer : answer[i] = {t \in call.trades : InBar(t, i)}

(* Everything that follows from the facts with the capabilities cs.         *)
Derivable(facts, cs, pick) ==
    LET registry == AllCapabilities
        Step(known) == known \cup UNION {Produced(c, pick) : c \in {c \in cs : registry[c].pre \subseteq known}}
        after[n \in 0..Cardinality(cs)] == IF n = 0 THEN facts ELSE Step(after[n - 1])
    IN after[Cardinality(cs)]

(* The loop reaches its goal whenever the loaded capabilities can derive it *)
(* within its budget, in a mode that cannot it ends without, and it runs    *)
(* nothing the goal could do without (core.py:6-8, 91-106: "the minimal     *)
(* runnable next step").                                                    *)
LoopIsGoalDirected ==
    Returned("plan") =>
      LET registry == RegistryFor(call.mode, call.selected)
          goal == call.goal
      IN /\ goal.target \in answer.known
               <=> goal.target \in Derivable(goal.facts, DOMAIN registry, call.pick)
         /\ \A i \in DOMAIN answer.path :
               goal.target \notin Derivable(goal.facts, ToSet(answer.path) \ {answer.path[i]}, call.pick)

(* Decisions agree with each other: what is bought at one price is bought,  *)
(* and for no less, a tick cheaper, and so at every lower price but         *)
(* nothing, and what is sold at one price is sold a tick dearer: no gate,   *)
(* rounding or shrinking of the estimate turns a better offer down (decision_agent.py:46-85,      *)
(* calibration.py:33-41, risk.py:25-59); the independent check of a trade's *)
(* math accepts what decide() sizes, and nothing that decide() would not    *)
(* buy for an ungated market (mcp_servers/compliance.py:31-50); and the     *)
(* monitor, the sizing tool and the analysis graph decide alike over the    *)
(* same book (lab/monitor.py:130-199, mcp_server.py:89-161).                *)
DecisionsAgree ==
    /\ Returned("decide") =>
         /\ answer.action = "buy" /\ call.price > 1 =>
               LET cheaper == DecideAt(call, call.price - 1)
               IN cheaper.action = "buy" /\ cheaper.size >= answer.size
         /\ answer.action = "sell" /\ call.price < Unit =>
               DecideAt(call, call.price + 1).action = "sell"
         /\ LET Passes(size) ==
                   VerifyTradeMath(Calibrated(call.p, call.price), call.price, size, call.days)
            IN /\ Passes(answer.size)
               /\ call.direction # "none" /\ ~Gated(call.liquidity, call.spread) =>
                    \A stake \in Stakes : Passes(stake) => answer.action = "buy"
    /\ Returned("monitor") =>
         \A o \in answer.opportunities :
            LET m == o.market
                report == BookReport(FetchOrderBook(m.venue))
                sized == SizePosition(m.p, m)
            IN /\ DecisionAgent(Signal("yes", m.p), Collected(m, report)) = sized
               /\ Answers(m.venue.sdk) \/ Answers(m.venue.rest) \/ m.listedSpread = 0 => o.decision = sized

(* How far a claim needs its subject to come, and what it pays if it comes  *)
(* that far.                                                                *)
Depth == [win |-> 5, final |-> 4, semifinal |-> 3, quarterfinal |-> 2, advance |-> 1]

Pays(claim, reached) == IF reached >= Depth[claim.stage] THEN 1 ELSE 0

RiskFree(pair) ==
    /\ pair[1].of = pair[2].of
    /\ \A reached \in 0..5 : Pays(pair[2], reached) + 1 - Pays(pair[1], reached) >= 1

(* What a result of a match pays the holders of its scores, and of its      *)
(* winners, in dollars.                                                     *)
ScoresPaid(listed, result) ==
    Cardinality({k \in DOMAIN listed : /\ result[listed[k].a] = listed[k].goals[1]
                                       /\ result[listed[k].b] = listed[k].goals[2]})

WinsPaid(wins, result) ==
    Cardinality({k \in DOMAIN wins : \A t \in DOMAIN result \ {wins[k].team} :
                                         result[wins[k].team] > result[t]})

(* Every flagged pair of stages is the risk-free bet it is called           *)
(* (wiring.py:613, 372): the weaker claim and the opposite of the stronger  *)
(* pay a dollar wherever the subject drops out, although the scan lists     *)
(* claims in any order and takes a semifinal for a final (a single match,   *)
(* which counts as the weakest stage, is none: a champion need not win it); *)
(* and if the first claim of one level is dearer than the first of a lower  *)
(* one by more than a tolerance for each step between, the entity is        *)
(* flagged.  The second scanner's flags are as good where no other          *)
(* entity's claim mentions this one.  An                                    *)
(* overround is one too (672): all scores, or both winners, of the match    *)
(* sold pay out less than they brought whatever the result, if no result is *)
(* listed twice, both ways round, and if the teams win on one day only.     *)
ArbIsRiskFree ==
    /\ Returned("arb") =>
         LET claims == call.claims
             First(c) == \A k \in DOMAIN claims :
                            claims[k].of = c.of /\ Level(claims[k]) = Level(c) =>
                               \E i \in 1..k : claims[i] = c
             OfStages(pair) == pair[1].stage # "beat" /\ pair[2].stage # "beat"
         IN /\ \A pair \in answer.conditional : OfStages(pair) => RiskFree(pair)
            /\ \A e \in Subjects :
                  (\A c \in ToSet(claims) : c.vs # e) =>
                     \A pair \in answer.implied[e] : OfStages(pair) => RiskFree(pair)
            /\ \A c, d \in ToSet(claims) :
                  /\ c.of = d.of /\ First(c) /\ First(d) /\ Level(c) > Level(d)
                  /\ c.price > d.price + 2 * Tolerance
                  => \E pair \in answer.conditional : pair[1].of = c.of
    /\ Returned("match") =>
         \A m \in answer :
            LET listed == ScoresOf(call.scores, m.teams)
                wins == Selected(call.wins, {k \in DOMAIN call.wins : call.wins[k].team \in m.teams})
                Results == [m.teams -> 0..2]
                Brought(sold) == SumOf([k \in DOMAIN sold |-> sold[k].price])
            IN /\ m.exact /\ (\A result \in Results : ScoresPaid(listed, result) <= 1) =>
                     \A result \in Results :
                        Brought(listed) > 100 * Tolerance * ScoresPaid(listed, result)
               /\ m.winner /\ Cardinality({wins[k].day : k \in DOMAIN wins}) = 1 /\ Len(wins) = 2 =>
                     \A result \in Results :
                        Brought(wins) > 100 * Tolerance * WinsPaid(wins, result)

(* A scan of the monitor misses no market: one that can be read and is      *)
(* wanted is missing only if as many as were asked for are listed before    *)
(* it, whatever was filtered out or failed on the way, so asking for one    *)
(* more loses nothing; and a buy is never outranked by what is no buy       *)
(* (lab/monitor.py:218-252).  The radar shows each market once, and leaves  *)
(* out one that ends soon or has moved only for others that do so more      *)
(* (kernel/wiring.py:705-731).  The listing they all start from is the top  *)
(* of the venue's ranking, as far as was asked for or as pages could be     *)
(* read (polymarket_client.py:90-148).                                      *)
ScansMissNothing ==
    /\ Returned("monitor") =>
         LET request == call.request
             Reported(m) == \E o \in answer.opportunities : o.market = m
             Counts(m) == Readable(m, request) /\ ~m.raises /\ Wanted(Opportunity(m), request)
             more == ScanMonitor(call.markets, [request EXCEPT !.limit = @ + 1])
         IN /\ \A k \in DOMAIN call.markets :
                  Counts(call.markets[k]) /\ ~Reported(call.markets[k]) =>
                     Cardinality({i \in 1..(k - 1) : Counts(call.markets[i])}) >= request.limit
            /\ answer.opportunities \subseteq more.opportunities
            /\ (\E o \in answer.opportunities : o.decision.action = "buy") =>
                  \A o \in answer.best : o.decision.action = "buy"
    /\ Returned("radar") =>
         LET scale == call.scale
             Yes(n) == {call.rows[i] : i \in {i \in 1..n : call.rows[i].side = "YES"}}
             Full(shown) == Cardinality(shown) = scale.shown
             Once(shown) == \A r, q \in shown : r.market = q.market => r = q
         IN /\ Once(answer.near) /\ Once(answer.movers) /\ Once(answer.fresh)
            /\ \A k \in DOMAIN call.rows :
                  LET r == call.rows[k]
                  IN r.side = "YES" /\ (\A q \in Yes(k - 1) : q.market # r.market) =>
                       /\ r.days \in 1..scale.expiry /\ r \notin answer.near =>
                             Full(answer.near) /\ \A q \in answer.near : q.days <= r.days
                       /\ /\ r.history >= 2 /\ r \notin answer.movers
                          /\ Cardinality({q.market : q \in Yes(k)}) <= scale.deep
                          => Full(answer.movers) /\ \A q \in answer.movers : q.change >= r.change
    /\ Returned("list") =>
         answer = SubSeq(call.ranking, 1,
                         Min({call.limit, Len(call.ranking)}
                             \cup (IF call.failing = 0 THEN {} ELSE {GammaPage * (call.failing - 1)})))

=============================================================================
