-------------------------------- MODULE Engine --------------------------------
(***************************************************************************)
(* PolyAgentsGraph (graph/orchestrator.py) driven by one caller at a time: *)
(* trade(), the paper_execute and settle_markets tools of mcp_server.py    *)
(* and the kernel's paper_trade.  The portfolio lives in the process, the  *)
(* decision log on disk.  settle() is a pass over the pending records; its *)
(* network fetch, its LLM reflection and its write to the log separate the *)
(* steps of a record, so markets resolve, days turn and the process dies   *)
(* in between.                                                             *)
(***************************************************************************)
EXTENDS Portfolio, Sequences

CONSTANTS Conditions,    \* markets; a market has one winning token
          ConditionOf,   \* the market a token is a side of
          Sizes,         \* sizes decide() or a caller of paper_execute asks for
          Unresolved,    \* the outcome of a market that is still open
          NoPnl,         \* None in realized_pnl
          MaxRecords,    \* bound: length of the decision log
          MaxOrders,     \* bound: orders that bypass the log
          MaxFaults      \* bound: process deaths and failed log writes

ASSUME EngineAssumption ==
    /\ ConditionOf \in [Tokens -> Conditions]
    /\ Sizes \subseteq Nat
    /\ Unresolved \notin Tokens
    /\ NoPnl \notin Int
    /\ MaxRecords \in Nat /\ MaxOrders \in Nat /\ MaxFaults \in Nat

VARIABLES portfolio,  \* PolyAgentsGraph.portfolio
          log,        \* MemoryStore: the records of trades.jsonl
          outcome,    \* Gamma: the winning token of each market
          pass,       \* the settle() in progress
          orders,     \* paper orders placed so far without a record
          faults,     \* deaths and failed writes so far
          soldPnl     \* history: P&L booked by sells, which no record gets

vars == <<portfolio, log, outcome, pass, orders, faults, soldPnl>>

-----------------------------------------------------------------------------
(* Types and helpers.                                                       *)

Actions == {"buy", "sell", "hold"}
ExecStatus == {"filled", "blocked", "skipped", "rejected"}

Record == [token : Tokens, action : Actions, exec : ExecStatus,
           status : {"pending", "resolved"}, pnl : Int \cup {NoPnl}]

Pass == [pc : {"idle", "record", "update"}, todo : SUBSET Nat,
         pnl : Int \cup {NoPnl}]

NoPass == [pc |-> "idle", todo |-> {}, pnl |-> NoPnl]

TypeOK ==
    /\ portfolio \in Portfolios
    /\ log \in Seq(Record)
    /\ outcome \in [Conditions -> Tokens \cup {Unresolved}]
    /\ pass \in Pass
    /\ pass.todo \subseteq DOMAIN log
    /\ orders \in Nat
    /\ faults \in Nat
    /\ soldPnl \in Int

(* What decide() returns: a sized buy, a sell of size 0 or a hold.          *)
Decisions == {[action |-> "hold", size |-> 0], [action |-> "sell", size |-> 0]}
             \cup {[action |-> "buy", size |-> s] : s \in Sizes \ {0}}

Pending == {i \in DOMAIN log : log[i].status = "pending"}

(* A pass that still has the records in todo to look at.                    *)
PassOver(todo) ==
    IF todo = {} THEN NoPass ELSE [pc |-> "record", todo |-> todo, pnl |-> NoPnl]

(* pending() is a list in file order: the pass works on the first one left. *)
Current(i) == i \in pass.todo /\ \A j \in pass.todo : i <= j

Winner(i) == outcome[ConditionOf[log[i].token]]

SidesOf(c) == {t \in Tokens : ConditionOf[t] = c}

-----------------------------------------------------------------------------
(* The operations of a caller.  They run one after the other.               *)

Init ==
    /\ portfolio = EmptyPortfolio
    /\ log = <<>>
    /\ outcome = [c \in Conditions |-> Unresolved]
    /\ pass = NoPass
    /\ orders = 0
    /\ faults = 0
    /\ soldPnl = 0

(* A sell's P&L goes back to the caller in ExecutionResult only.            *)
BookSale(action, p) ==
    soldPnl' = IF action = "sell" THEN soldPnl + p.realized - portfolio.realized
                                  ELSE soldPnl

(* trade(): analyse, run the execution node, log a pending record -- also   *)
(* of a hold and of an order that was blocked or rejected.                  *)
Trade(t, d) ==
    /\ pass.pc = "idle"
    /\ Len(log) < MaxRecords
    /\ \E r \in IF d.action = "hold" THEN {Outcome("skipped", portfolio)}
                ELSE Execute(portfolio, Order(t, d.action, d.size)) :
          /\ portfolio' = r.portfolio
          /\ log' = Append(log, [token |-> t, action |-> d.action,
                                 exec |-> r.status, status |-> "pending",
                                 pnl |-> NoPnl])
          /\ BookSale(d.action, r.portfolio)
    /\ UNCHANGED <<outcome, pass, orders, faults>>

(* paper_execute(): the same check and submit, and no record.               *)
PaperExecute(t, side, size) ==
    /\ pass.pc = "idle"
    /\ orders < MaxOrders
    /\ orders' = orders + 1
    /\ \E r \in Execute(portfolio, Order(t, side, size)) :
          /\ portfolio' = r.portfolio
          /\ BookSale(side, r.portfolio)
    /\ UNCHANGED <<log, outcome, pass, faults>>

(* The kernel's paper_trade(): only a decision with a positive size reaches *)
(* paper_execute, and decide() gives every sell the size 0.                 *)
PaperTrade(t, d) ==
    /\ d.action # "hold" /\ d.size > 0
    /\ PaperExecute(t, d.action, d.size)

-----------------------------------------------------------------------------
(* settle().                                                                *)

SettleBegin ==
    /\ pass.pc = "idle"
    /\ Pending # {}
    /\ pass' = PassOver(Pending)
    /\ UNCHANGED <<portfolio, log, outcome, orders, faults, soldPnl>>

(* The market is still open, or Gamma did not answer (the fetch swallows    *)
(* the error): the record stays pending.                                    *)
SettleSkip(i) ==
    /\ pass.pc = "record" /\ Current(i)
    /\ pass' = PassOver(pass.todo \ {i})
    /\ UNCHANGED <<portfolio, log, outcome, orders, faults, soldPnl>>

(* For comparison: a settlement that forgets to close.                      *)
SettleLeavesPosition(i) ==
    /\ pass.pc = "record" /\ Current(i)
    /\ Winner(i) # Unresolved
    /\ LET t == log[i].token
           proceeds == SettleProceeds(portfolio, t, Winner(i) = t)
       IN IF t \in Held(portfolio)
          THEN /\ UNCHANGED portfolio
               /\ pass' = [pass EXCEPT !.pc = "update",
                                       !.pnl = proceeds - portfolio.cost[t]]
          ELSE /\ pass' = [pass EXCEPT !.pc = "update"]
               /\ UNCHANGED portfolio
    /\ UNCHANGED <<log, outcome, orders, faults, soldPnl>>

(* The market has resolved: close the position of the record's token at $1  *)
(* or $0 if there is one.  The P&L waits for the reflection to be written.  *)
SettleClose(i) ==
    /\ pass.pc = "record" /\ Current(i)
    /\ Winner(i) # Unresolved
    /\ LET t == log[i].token
           proceeds == SettleProceeds(portfolio, t, Winner(i) = t)
       IN IF t \in Held(portfolio)
          THEN /\ portfolio' = ApplySellClose(portfolio, t, proceeds)
               /\ pass' = [pass EXCEPT !.pc = "update",
                                       !.pnl = proceeds - portfolio.cost[t]]
          ELSE /\ pass' = [pass EXCEPT !.pc = "update"]
               /\ UNCHANGED portfolio
    /\ UNCHANGED <<log, outcome, orders, faults, soldPnl>>

(* For comparison: an update by token instead of by record.                 *)
UpdateEveryRecordOfToken(i) ==
    /\ pass.pc = "update" /\ Current(i)
    /\ log' = [j \in DOMAIN log |->
                  IF log[j].token = log[i].token
                  THEN [log[j] EXCEPT !.status = "resolved", !.pnl = pass.pnl]
                  ELSE log[j]]
    /\ pass' = PassOver(pass.todo \ {i})
    /\ UNCHANGED <<portfolio, outcome, orders, faults, soldPnl>>

(* For comparison: an update that leaves the record to be resolved again.   *)
UpdateMarksSettled(i) ==
    /\ pass.pc = "update" /\ Current(i)
    /\ log' = [log EXCEPT ![i].status = "settled", ![i].pnl = pass.pnl]
    /\ pass' = PassOver(pass.todo \ {i})
    /\ UNCHANGED <<portfolio, outcome, orders, faults, soldPnl>>

(* memory.update() and the next record.                                     *)
SettleUpdate(i) ==
    /\ pass.pc = "update" /\ Current(i)
    /\ log' = [log EXCEPT ![i].status = "resolved", ![i].pnl = pass.pnl]
    /\ pass' = PassOver(pass.todo \ {i})
    /\ UNCHANGED <<portfolio, outcome, orders, faults, soldPnl>>

(* memory.update() raises (the log cannot be written): settle() ends there. *)
SettleAbort ==
    /\ pass.pc = "update"
    /\ faults < MaxFaults
    /\ faults' = faults + 1
    /\ pass' = NoPass
    /\ UNCHANGED <<portfolio, log, outcome, orders, soldPnl>>

-----------------------------------------------------------------------------
(* The environment.                                                         *)

(* Gamma publishes the winner of a market, whatever the engine is doing.    *)
Resolve(c) ==
    /\ outcome[c] = Unresolved
    /\ \E t \in SidesOf(c) : outcome' = [outcome EXCEPT ![c] = t]
    /\ UNCHANGED <<portfolio, log, pass, orders, faults, soldPnl>>

(* For comparison: a new day that ends the cooldown.                        *)
NextDayForgivesStreak ==
    /\ portfolio' = [portfolio EXCEPT !.today = 0, !.losses = 0]
    /\ UNCHANGED <<log, outcome, pass, orders, faults, soldPnl>>

(* A new UTC day: realized_pnl_on() starts from nothing.                    *)
NextDay ==
    /\ portfolio' = [portfolio EXCEPT !.today = 0]
    /\ UNCHANGED <<log, outcome, pass, orders, faults, soldPnl>>

(* The process dies and starts again: a fresh Portfolio over the same log.  *)
Restart ==
    /\ faults < MaxFaults
    /\ faults' = faults + 1
    /\ portfolio' = EmptyPortfolio
    /\ pass' = NoPass
    /\ UNCHANGED <<log, outcome, orders, soldPnl>>

Settle == \/ SettleBegin
          \/ SettleAbort
          \/ \E i \in pass.todo : SettleSkip(i) \/ SettleClose(i) \/ SettleUpdate(i)

Next ==
    \/ \E t \in Tokens, d \in Decisions : Trade(t, d) \/ PaperTrade(t, d)
    \/ \E t \in Tokens, side \in Sides, size \in Sizes : PaperExecute(t, side, size)
    \/ Settle
    \/ \E c \in Conditions : Resolve(c)
    \/ NextDay
    \/ Restart

Spec == Init /\ [][Next]_vars

(* Fairness.  The host keeps calling settle_markets, a pass that was begun  *)
(* goes on, and Gamma does not fail for ever on a market it has resolved.   *)
Fairness ==
    /\ WF_vars(SettleBegin)
    /\ \A i \in 1..MaxRecords :
          /\ WF_vars(SettleSkip(i))
          /\ WF_vars(SettleUpdate(i))
          /\ SF_vars(SettleClose(i))

FairSpec == Spec /\ Fairness

-----------------------------------------------------------------------------
(* Properties.                                                              *)

(* Money is neither made nor lost: cash and what is tied up in positions    *)
(* always add up to the bankroll and the realised P&L, through merged buys, *)
(* partial fills, sales and settlements (portfolio.py apply_buy,            *)
(* apply_sell_close).                                                       *)
Conservation == Conserved(portfolio)

(* The breaker's caps hold in every state, although it only ever looks at   *)
(* one order: exposure stays under the cap, positions under their number,   *)
(* and cash is never overdrawn (circuit_breaker.py check, run before every  *)
(* submit).                                                                 *)
CapsRespected == WithinCaps(portfolio)

(* The ledger the breaker of this engine keeps.                             *)
Ledger == INSTANCE RiskLedger WITH
              cash <- portfolio.cash,
              atRisk <- Exposure(portfolio),
              open <- Cardinality(Held(portfolio)),
              realized <- portfolio.realized,
              halted <- DailyHalt(portfolio) \/ Cooldown(portfolio)

(* Every step of the engine is a step of that ledger: risk is taken only by *)
(* an entry within the caps and outside a halt, and given back only by an   *)
(* exit that books its P&L (circuit_breaker.py:22-48 in front of every      *)
(* submit; clients.py, orchestrator.py settle).                             *)
ImplementsLedger == Ledger!Spec

(* The "cooldown" after max_consecutive_losses never cools down: only a     *)
(* profitable close resets the streak, and once nothing is open there is    *)
(* nothing left to close, so until the process restarts no operation moves  *)
(* the portfolio again (circuit_breaker.py:35, portfolio.py:67).            *)
CooldownNeverEnds ==
    [][Frozen(portfolio) => \/ portfolio' = [portfolio EXCEPT !.today = portfolio'.today]
                 \/ faults' > faults]_vars

(* Every unit of P&L the portfolio books is accounted for once: by a sell   *)
(* that reported it, by a resolved record, or by the pass about to write    *)
(* one -- as long as no death or failed write comes between a close and its *)
(* update (orchestrator.py settle).                                         *)
Amount(pnl) == IF pnl = NoPnl THEN 0 ELSE pnl

(* A sum of gains and losses: the units gained less the units lost.         *)
Balance(entry, S) ==
    Cardinality(Units([x \in S |-> IF entry[x] > 0 THEN entry[x] ELSE 0], S))
    - Cardinality(Units([x \in S |-> IF entry[x] < 0 THEN -entry[x] ELSE 0], S))

LoggedPnl == Balance([i \in DOMAIN log |-> Amount(log[i].pnl)], DOMAIN log)

LogAccountsForBook ==
    faults = 0 => portfolio.realized = soldPnl + LoggedPnl + Amount(pass.pnl)

(* A record that has been resolved is never reopened or rewritten by a      *)
(* later pass, whatever dies in between (memory.py update, pending).        *)
ResolvedIsFinal ==
    [][\A i \in DOMAIN log : log[i].status = "resolved" => log'[i] = log[i]]_vars

(* A position that a pending record knows of is closed once its market has  *)
(* resolved (orchestrator.py settle, driven by settle_markets).             *)
Resolved(t) == outcome[ConditionOf[t]] # Unresolved

TradedPositionsSettle ==
    \A t \in Tokens :
        (t \in Held(portfolio) /\ Resolved(t) /\ \E i \in Pending : log[i].token = t)
            ~> t \notin Held(portfolio)

(* What settle_markets promises (mcp_server.py:203): it settles any held    *)
(* position whose market has resolved.                                      *)
EveryHeldPositionSettles ==
    \A t \in Tokens :
        (t \in Held(portfolio) /\ Resolved(t)) ~> t \notin Held(portfolio)

=============================================================================
