------------------------------ MODULE Decision ------------------------------
(***************************************************************************)
(* The analysis of one market (graph/setup.py): what the collectors read,  *)
(* the price the agents evaluate against, and the sized, gated decision    *)
(* (agents/decision_agent.py, risk.py, calibration.py).                    *)
(*                                                                         *)
(* A price or a probability is a number of ticks, Unit of them make a      *)
(* dollar; money is in cents; a weight or an APY is in percent.  An edge   *)
(* is in hundredths of a tick, so that calibration loses nothing.          *)
(***************************************************************************)
EXTENDS Integers, SequencesExt

CONSTANTS Unit,      \* ticks to the dollar
          Config,    \* default_config.py: the thresholds of a decision
          None

(* Of the thresholds of default_config.py: the cap is a whole number of     *)
(* cents, an edge at the floor is worth a stake, and over a month it pays   *)
(* the least APY.                                                           *)
ASSUME DecisionAssumption ==
    /\ {Unit, Config.edgeFloor, Config.kellyDivisor} \subseteq Nat \ {0}
    /\ {Config.minApy, Config.bankroll, Config.maxFraction} \subseteq Nat
    /\ Config.marketWeight \in 0..100
    /\ Config.bankroll * Config.maxFraction \in {100 * cents : cents \in 1..Config.bankroll}
    /\ 2 * Config.edgeFloor * Config.bankroll >= Config.kellyDivisor * Unit
    /\ 2 * (100 * Config.edgeFloor) * 36500 >= Config.minApy * Unit * 100 * 60

ASSUME NoneAssumption == None \notin [bids : SUBSET Int, asks : SUBSET Int] \cup Int

(* What the signal agent hands on; the LLM may return any of these.         *)
Signal(direction, p) == [direction |-> direction, p |-> p]

-----------------------------------------------------------------------------
(* The live book.  A venue's answer lists the prices of the levels, in any  *)
(* order; they are sorted, and of a book only the best are read.            *)
OrderBook(levels) == [bids |-> ToSet(levels.bids), asks |-> ToSet(levels.asks)]

Answers(levels) == levels # None /\ (levels.bids # <<>> \/ levels.asks # <<>>)

(* The SDK's answer, or REST's if the SDK failed or had nothing.            *)
FetchOrderBook(venue) ==
    CASE Answers(venue.sdk)  -> OrderBook(venue.sdk)
      [] ~Answers(venue.sdk) /\ Answers(venue.rest) -> OrderBook(venue.rest)
      [] OTHER -> None

CeilDivided(n, d) == -((-n) \div d)

(* Of a book with both sides; ticks are so fine that a mid is a whole one.  *)
BothSides(book) == book.bids # {} /\ book.asks # {}

Mid(book) == (Max(book.bids) + Min(book.asks)) \div 2

TouchSpread(book) == Min(book.asks) - Max(book.bids)

(* The spread in basis points of the mid.  Rounded up, it passes a whole    *)
(* limit exactly if the unrounded one does.                                 *)
ComputeMicrostructure(book) ==
    IF BothSides(book)
    THEN [mid |-> Mid(book),
          spread |-> IF Mid(book) = 0 THEN None
                     ELSE CeilDivided(10000 * TouchSpread(book), Mid(book))]
    ELSE [mid |-> None, spread |-> None]

(* get_orderbook_report: neither of them if there is no book.               *)
BookReport(book) ==
    IF book = None THEN [mid |-> None, spread |-> None] ELSE ComputeMicrostructure(book)

(* One run of the collectors: the price and the liquidity the market was    *)
(* listed with, and what is reported of the live book.                      *)
Collected(market, report) ==
    [price |-> market.price, liquidity |-> market.liquidity, days |-> market.days,
     mid |-> report.mid, spread |-> report.spread]

(* The live mid if the book answered, else the price the market came with.  *)
EffectivePrice(state) == IF state.mid # None THEN state.mid ELSE state.price

-----------------------------------------------------------------------------
(* The decision.                                                            *)

(* ShrinkageCalibrator, and the edge of what it returns.                    *)
Calibrated(p, price) == (100 - Config.marketWeight) * p + Config.marketWeight * price

(* For comparison: the edge without its sign.                               *)
UnsignedEdge(p, price) ==
    LET e == Calibrated(p, price) - 100 * price IN IF e < 0 THEN -e ELSE e

Edge(p, price) == Calibrated(p, price) - 100 * price

(* Whether edge / price, annualised over half a day at least, reaches the   *)
(* least APY.                                                               *)
ApyReaches(edge, price, days) ==
    /\ 2 * edge * 36500 >= Config.minApy * price * 100 * Max({2 * days, 1})
    /\ price = 0 => Config.minApy = 0

Rounded(n, d) == (2 * n + d) \div (2 * d)

(* A fraction of Kelly's stake, and never more than the cap.                *)
Size(edge, price) ==
    IF price = Unit \/ edge < 0 THEN 0
    ELSE Min({Rounded(edge * Config.bankroll, 100 * Config.kellyDivisor * (Unit - price)),
              Rounded(Config.bankroll * Config.maxFraction, 100)})

Gated(liquidity, spread) ==
    liquidity < Config.minLiquidity \/ (spread # None /\ spread > Config.maxSpread)

Decision(action, size) == [action |-> action, size |-> size]

Decide(signal, price, liquidity, spread, days) ==
    LET edge == Edge(signal.p, price)
        size == Size(edge, price)
    IN CASE signal.direction = "none" -> Decision("hold", 0)
         [] signal.direction # "none" /\ edge <= -(100 * Config.edgeFloor) -> Decision("sell", 0)
         [] /\ signal.direction # "none" /\ edge >= 100 * Config.edgeFloor
            /\ ~Gated(liquidity, spread) /\ ApyReaches(edge, price, days) /\ size > 0
                -> Decision("buy", size)
         [] OTHER -> Decision("hold", 0)

(* An end right now is taken for a month away.                              *)
DaysLeft(market) == IF market.days = 0 THEN 30 ELSE market.days

(* The decision node of the analysis graph.                                 *)
DecisionAgent(signal, state) ==
    Decide(signal, EffectivePrice(state), state.liquidity, state.spread, DaysLeft(state))

-----------------------------------------------------------------------------
(* The same mathematics behind tools.                                       *)

Lean(p, price) == Signal(IF p >= price THEN "yes" ELSE "no", p)

LivePriceSpread(market) ==
    LET report == BookReport(FetchOrderBook(market.venue))
    IN [price |-> IF report.mid = None THEN market.price ELSE report.mid, spread |-> report.spread]

SizePosition(p, market) ==
    LET live == LivePriceSpread(market)
    IN Decide(Lean(p, live.price), live.price, market.liquidity, live.spread, market.days)

Distance(a, b) == IF a < b THEN b - a ELSE a - b

(* verify_trade_math: whether the check has nothing to say against a trade  *)
(* of this size, at an estimate in hundredths of a tick.                    *)
VerifyTradeMath(p, price, size, days) ==
    LET edge == p - 100 * price
        expected == Size(edge, price)
    IN /\ 100 * size <= Config.bankroll * Config.maxFraction
       /\ size > 0 =>
            /\ 100 * Distance(size, expected) <= Max({5000, 2 * expected})
            /\ Distance(edge, 0) >= 100 * Config.edgeFloor
            /\ ApyReaches(edge, price, days)

=============================================================================
