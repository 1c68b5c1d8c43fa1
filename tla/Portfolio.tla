------------------------------ MODULE Portfolio ------------------------------
(***************************************************************************)
(* The paper portfolio, the circuit breaker and the paper venue            *)
(* (execution/portfolio.py, circuit_breaker.py, clients.py) as operators   *)
(* on a portfolio record, so that every module that trades uses the same   *)
(* arithmetic.                                                             *)
(*                                                                         *)
(* Money is counted in integer units and shares in integer lots; a winning *)
(* share pays Payout units ($1).  The code computes with floats: rounding  *)
(* is not modelled.  A position is kept as its shares and its cost basis   *)
(* (shares * avg_price), which is what apply_buy's averaging preserves.    *)
(***************************************************************************)
EXTENDS Integers, FiniteSets

CONSTANTS Tokens,          \* CLOB token ids, one per side of a market
          Bankroll,        \* config["bankroll_usdc"], also the starting cash
          DailyLossLimit,  \* max_daily_loss_pct * bankroll
          ExposureCap,     \* max_total_exposure_pct * bankroll
          MaxPositions,    \* max_concurrent_positions
          MaxLosses,       \* max_consecutive_losses
          Payout,          \* what a winning share pays
          Prices           \* average fill prices a book walk can produce

ASSUME PortfolioAssumption ==
    /\ IsFiniteSet(Tokens)
    /\ Bankroll \in Nat /\ DailyLossLimit \in Nat /\ ExposureCap \in Nat
    /\ MaxPositions \in Nat /\ MaxLosses \in Nat \ {0}
    /\ Payout \in Nat \ {0}
    /\ Prices \subseteq Nat \ {0}

-----------------------------------------------------------------------------
(* The record kept by Portfolio.  positions is shares and cost: a token is  *)
(* a key of the dict exactly when it has shares.  closed is kept as the two *)
(* sums the code takes of it, over everything and over today.               *)

Portfolios == [cash : Int, shares : [Tokens -> Nat], cost : [Tokens -> Nat],
               realized : Int, today : Int, losses : Nat]

EmptyPortfolio == [cash |-> Bankroll,
                   shares |-> [t \in Tokens |-> 0],
                   cost |-> [t \in Tokens |-> 0],
                   realized |-> 0, today |-> 0, losses |-> 0]

Held(p) == {t \in Tokens : p.shares[t] > 0}

(* A sum of amounts, as the number of units they come to.                   *)
Units(amount, S) == UNION {{x} \X (1..amount[x]) : x \in S}

(* exposure(): the sum of the cost bases, as the number of money units tied *)
(* up in the open positions.                                                *)
Stake(cost) == Units(cost, Tokens)

Exposure(p) == Cardinality(Stake(p.cost))

ApplyBuy(p, t, shares, notional) ==
    [p EXCEPT !.cash = @ - notional,
              !.shares[t] = @ + shares,
              !.cost[t] = @ + notional]

(* For comparison: a close that books its proceeds as profit.               *)
CloseBooksProceeds(p, t, proceeds) ==
    [p EXCEPT !.cash = @ + proceeds, !.shares[t] = 0, !.cost[t] = 0,
              !.realized = @ + proceeds, !.today = @ + proceeds,
              !.losses = IF proceeds < p.cost[t] THEN @ + 1 ELSE 0]

ApplySellClose(p, t, proceeds) ==
    LET pnl == proceeds - p.cost[t]
    IN [p EXCEPT !.cash = @ + proceeds,
                 !.shares[t] = 0,
                 !.cost[t] = 0,
                 !.realized = @ + pnl,
                 !.today = @ + pnl,
                 !.losses = IF pnl < 0 THEN @ + 1 ELSE 0]

-----------------------------------------------------------------------------
(* CircuitBreaker.check.  A decided size is a number of money units; a      *)
(* caller of paper_execute may pass 0 as well.                              *)

Sides == {"buy", "sell"}

Order(t, side, size) == [token |-> t, side |-> side, size |-> size]

DailyHalt(p) == p.today <= -DailyLossLimit

Cooldown(p) == p.losses >= MaxLosses

(* For comparison: a cap on the order alone.                                *)
EntryIgnoresOpenExposure(p, o) ==
    /\ ~DailyHalt(p)
    /\ ~Cooldown(p)
    /\ o.token \in Held(p) \/ Cardinality(Held(p)) < MaxPositions
    /\ o.size <= ExposureCap
    /\ o.size <= p.cash

(* For comparison: no cooldown.                                             *)
EntryIgnoresStreak(p, o) ==
    /\ ~DailyHalt(p)
    /\ o.token \in Held(p) \/ Cardinality(Held(p)) < MaxPositions
    /\ Exposure(p) + o.size <= ExposureCap
    /\ o.size <= p.cash

EntryAllowed(p, o) ==
    /\ ~DailyHalt(p)
    /\ ~Cooldown(p)
    /\ o.token \in Held(p) \/ Cardinality(Held(p)) < MaxPositions
    /\ Exposure(p) + o.size <= ExposureCap
    /\ o.size <= p.cash

Allowed(p, o) ==
    IF o.side = "sell" THEN o.token \in Held(p) ELSE EntryAllowed(p, o)

-----------------------------------------------------------------------------
(* PaperExecutionClient.submit.  The book walk is abstracted to what it     *)
(* leaves: a buy spends at most the order's size and gets shares for it, or *)
(* finds no liquidity; a sell gets rid of the whole position at some        *)
(* positive average price, or finds no bid.                                 *)

Outcome(status, p) == [status |-> status, portfolio |-> p]

BuyFills(size) ==
    {f \in [shares : 1..size, notional : 1..size] :
        \E price \in Prices : f.notional = price * f.shares}

SubmitBuy(p, o) ==
    IF o.size <= 0
    THEN {Outcome("skipped", p)}
    ELSE {Outcome("rejected", p)} \cup
         {Outcome("filled", ApplyBuy(p, o.token, f.shares, f.notional)) :
             f \in BuyFills(o.size)}

SubmitSell(p, o) ==
    IF o.token \notin Held(p)
    THEN {Outcome("skipped", p)}
    ELSE {Outcome("rejected", p)} \cup
         {Outcome("filled", ApplySellClose(p, o.token, price * p.shares[o.token])) :
             price \in Prices}

Submit(p, o) == IF o.side = "buy" THEN SubmitBuy(p, o) ELSE SubmitSell(p, o)

(* The body shared by the execution node and paper_execute: check, then     *)
(* submit what passed.                                                      *)
Execute(p, o) ==
    IF Allowed(p, o) THEN Submit(p, o) ELSE {Outcome("blocked", p)}

(* What settle() books for a held token of a resolved market.               *)
SettleProceeds(p, t, won) == IF won THEN Payout * p.shares[t] ELSE 0

-----------------------------------------------------------------------------
(* What a sound portfolio satisfies; the modules that trade state these of  *)
(* their own portfolio.                                                     *)

Conserved(p) == p.cash + Exposure(p) = Bankroll + p.realized

WithinCaps(p) ==
    /\ Exposure(p) <= ExposureCap
    /\ Cardinality(Held(p)) <= MaxPositions
    /\ p.cash >= 0

(* The breaker lets no order through and there is nothing to close.         *)
Frozen(p) == Cooldown(p) /\ Held(p) = {}

=============================================================================
