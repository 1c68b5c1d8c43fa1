----------------------------- MODULE EngineProofs -----------------------------
(***************************************************************************)
(* Theorems about Engine for any tokens, markets, limits, prices, sizes    *)
(* and bounds.  The inductive invariant adds to type correctness that the  *)
(* portfolio is sound and that a settle pass only has pending records left *)
(* to look at.                                                             *)
(***************************************************************************)
EXTENDS Engine, PortfolioProofs

(* A pass only works on records that are still pending: no caller runs      *)
(* between its steps, and it never looks at a record twice.                 *)
PassInv == pass.todo \subseteq Pending

IInv == TypeOK /\ Sound(portfolio) /\ PassInv

(* The pass over what is left: a well-formed pass over exactly that.        *)
LEMMA PassOverType ==
    ASSUME NEW todo \in SUBSET Nat
    PROVE  PassOver(todo) \in Pass /\ PassOver(todo).todo = todo
BY DEF PassOver, Pass, NoPass

LEMMA NoPassType == NoPass \in Pass /\ NoPass.todo = {}
BY DEF Pass, NoPass

(* An order built from what decide() or a caller asks for is well formed.   *)
LEMMA OrderType ==
    ASSUME NEW t \in Tokens, NEW side \in Sides, NEW size \in Sizes
    PROVE  LET o == Order(t, side, size)
           IN o.token = t /\ o.side \in Sides /\ o.size \in Nat
BY EngineAssumption DEF Order

(* One executed order: the portfolio stays sound and its P&L is a number.   *)
LEMMA ExecuteStep ==
    ASSUME Sound(portfolio), NEW t \in Tokens, NEW side \in Sides, NEW size \in Nat,
           NEW r \in Execute(portfolio, Order(t, side, size))
    PROVE  Sound(r.portfolio) /\ r.status \in ExecStatus
<1> DEFINE o == Order(t, side, size)
<1>1. o.token \in Tokens /\ o.side \in Sides /\ o.size \in Nat
  BY DEF Order
<1>2. portfolio \in Portfolios
  BY DEF Sound
<1> HIDE DEF o
<1>3. r \in Execute(portfolio, o)
  BY DEF o
<1>4. r.status \in {"filled", "blocked", "skipped", "rejected"}
  BY <1>1, <1>2, <1>3, ExecuteCases
<1>5. Sound(r.portfolio)
  BY <1>1, <1>3, ExecuteSound
<1> QED
  BY <1>4, <1>5 DEF ExecStatus

(* What a trade or a tool call hands to the portfolio and the log.          *)
LEMMA CallStep ==
    ASSUME IInv, NEW t \in Tokens, NEW d \in Decisions,
           NEW r \in IF d.action = "hold" THEN {Outcome("skipped", portfolio)}
                     ELSE Execute(portfolio, Order(t, d.action, d.size))
    PROVE  /\ Sound(r.portfolio) /\ r.status \in ExecStatus
           /\ d.action \in Actions
<1>1. d.action \in Actions /\ d.size \in Nat
  BY EngineAssumption DEF Decisions, Actions
<1>2. CASE d.action = "hold"
  BY <1>1, <1>2 DEF Outcome, ExecStatus, IInv
<1>3. CASE d.action # "hold"
  <2>1. d.action \in Sides
    BY <1>1, <1>3 DEF Actions, Sides
  <2> QED
    BY <1>1, <1>3, <2>1, ExecuteStep DEF IInv
<1> QED
  BY <1>2, <1>3

-----------------------------------------------------------------------------
LEMMA InitIInv == Init => IInv
<1> SUFFICES ASSUME Init PROVE IInv
  OBVIOUS
<1>1. Sound(portfolio) /\ portfolio \in Portfolios
  BY EmptySound DEF Init, Sound
<1>2. TypeOK
  BY <1>1, NoPassType DEF Init, TypeOK
<1>3. PassInv
  BY NoPassType DEF Init, PassInv
<1> QED
  BY <1>1, <1>2, <1>3 DEF IInv

LEMMA NextIInv == IInv /\ [Next]_vars => IInv'
<1> SUFFICES ASSUME IInv, [Next]_vars PROVE IInv'
  OBVIOUS
<1> USE DEF IInv
<1>0. /\ TypeOK /\ Sound(portfolio) /\ PassInv
      /\ portfolio.realized \in Int
  BY DEF TypeOK, Portfolios
<1>1. ASSUME NEW t \in Tokens, NEW d \in Decisions, Trade(t, d)
      PROVE  IInv'
  <2>1. PICK r \in IF d.action = "hold" THEN {Outcome("skipped", portfolio)}
                   ELSE Execute(portfolio, Order(t, d.action, d.size)) :
            /\ portfolio' = r.portfolio
            /\ log' = Append(log, [token |-> t, action |-> d.action,
                                   exec |-> r.status, status |-> "pending",
                                   pnl |-> NoPnl])
            /\ BookSale(d.action, r.portfolio)
    BY <1>1 DEF Trade
  <2>2. Sound(r.portfolio) /\ r.status \in ExecStatus /\ d.action \in Actions
    BY CallStep
  <2>3. r.portfolio \in Portfolios /\ r.portfolio.realized \in Int
    BY <2>2 DEF Sound, Portfolios
  <2>4. soldPnl' \in Int
    BY <1>0, <2>1, <2>3 DEF BookSale, TypeOK
  <2> DEFINE rec == [token |-> t, action |-> d.action, exec |-> r.status,
                     status |-> "pending", pnl |-> NoPnl]
  <2>5. rec \in Record
    BY <2>2 DEF Record
  <2> HIDE DEF rec
  <2>6. log' = Append(log, rec)
    BY <2>1 DEF rec
  <2>7. log' \in Seq(Record) /\ DOMAIN log \subseteq DOMAIN log'
        /\ \A i \in DOMAIN log : log'[i] = log[i]
    BY <1>0, <2>5, <2>6 DEF TypeOK
  <2>8. TypeOK'
    BY <1>0, <1>1, <2>1, <2>3, <2>4, <2>7 DEF Trade, TypeOK
  <2>9. PassInv'
    BY <1>0, <1>1, <2>7 DEF Trade, PassInv, Pending
  <2> QED
    BY <2>1, <2>2, <2>8, <2>9
<1>2. ASSUME NEW t \in Tokens, NEW side \in Sides, NEW size \in Nat,
             PaperExecute(t, side, size)
      PROVE  IInv'
  <2>1. PICK r \in Execute(portfolio, Order(t, side, size)) :
            portfolio' = r.portfolio /\ BookSale(side, r.portfolio)
    BY <1>2 DEF PaperExecute
  <2>2. Sound(r.portfolio)
    BY <1>0, ExecuteStep
  <2>3. r.portfolio \in Portfolios /\ r.portfolio.realized \in Int
    BY <2>2 DEF Sound, Portfolios
  <2>4. TypeOK'
    BY <1>0, <1>2, <2>1, <2>3 DEF PaperExecute, BookSale, TypeOK
  <2>5. PassInv'
    BY <1>0, <1>2 DEF PaperExecute, PassInv, Pending
  <2> QED
    BY <2>1, <2>2, <2>4, <2>5
<1>3. ASSUME NEW t \in Tokens, NEW d \in Decisions, PaperTrade(t, d)
      PROVE  IInv'
  <2>1. PaperExecute(t, d.action, d.size) /\ d.action # "hold"
    BY <1>3 DEF PaperTrade
  <2>2. d.action \in Sides /\ d.size \in Nat
    BY <2>1, EngineAssumption DEF Decisions, Sides
  <2> QED
    BY <1>2, <2>1, <2>2
<1>4. CASE SettleBegin
  <2>1. Pending \in SUBSET Nat /\ Pending \subseteq DOMAIN log
    BY <1>0 DEF Pending, TypeOK
  <2>2. pass' \in Pass /\ pass'.todo = Pending
    BY <1>4, <2>1, PassOverType DEF SettleBegin
  <2>3. TypeOK'
    BY <1>0, <1>4, <2>1, <2>2 DEF SettleBegin, TypeOK
  <2>4. PassInv'
    BY <1>4, <2>2 DEF SettleBegin, PassInv, Pending
  <2> QED
    BY <1>0, <1>4, <2>3, <2>4 DEF SettleBegin
<1>5. CASE SettleAbort
  <2>1. TypeOK'
    BY <1>0, <1>5, NoPassType DEF SettleAbort, TypeOK
  <2>2. PassInv'
    BY <1>5, NoPassType DEF SettleAbort, PassInv
  <2> QED
    BY <1>0, <1>5, <2>1, <2>2 DEF SettleAbort
<1>6. ASSUME NEW i \in pass.todo, SettleSkip(i)
      PROVE  IInv'
  <2>1. pass.todo \ {i} \in SUBSET Nat
    BY <1>0 DEF TypeOK, Pass
  <2>2. pass' \in Pass /\ pass'.todo = pass.todo \ {i}
    BY <1>6, <2>1, PassOverType DEF SettleSkip
  <2>3. TypeOK'
    BY <1>0, <1>6, <2>2 DEF SettleSkip, TypeOK
  <2>4. PassInv'
    BY <1>0, <1>6, <2>2 DEF SettleSkip, PassInv, Pending
  <2> QED
    BY <1>0, <1>6, <2>3, <2>4 DEF SettleSkip
<1>7. ASSUME NEW i \in pass.todo, SettleClose(i)
      PROVE  IInv'
  <2> DEFINE t == log[i].token
             proceeds == SettleProceeds(portfolio, t, Winner(i) = t)
  <2>1. t \in Tokens
    <3>1. log[i] \in Record
      BY <1>0 DEF TypeOK
    <3> QED
      BY <3>1 DEF Record
  <2>2. proceeds \in Nat
    <3>1. portfolio.shares[t] \in Nat
      BY <1>0, <2>1 DEF TypeOK, Portfolios
    <3>2. \A a, b \in Nat : a * b \in Nat
      OBVIOUS
    <3> QED
      BY <3>1, <3>2, PortfolioAssumption DEF SettleProceeds
  <2>3. portfolio.cost[t] \in Nat
    BY <1>0, <2>1 DEF TypeOK, Portfolios
  <2> HIDE DEF t, proceeds
  <2>4. \/ /\ portfolio' = ApplySellClose(portfolio, t, proceeds)
           /\ pass' = [pass EXCEPT !.pc = "update", !.pnl = proceeds - portfolio.cost[t]]
        \/ /\ portfolio' = portfolio
           /\ pass' = [pass EXCEPT !.pc = "update"]
    BY <1>7 DEF SettleClose, t, proceeds
  <2>5. Sound(portfolio')
    BY <1>0, <2>1, <2>2, <2>4, CloseSound
  <2>6. pass' \in Pass /\ pass'.todo = pass.todo
    <3>1. pass \in Pass /\ proceeds - portfolio.cost[t] \in Int
      BY <1>0, <2>2, <2>3 DEF TypeOK
    <3>2. ASSUME NEW x \in Int
          PROVE  LET q == [pass EXCEPT !.pc = "update", !.pnl = x]
                 IN q \in Pass /\ q.todo = pass.todo
      BY <3>1 DEF Pass
    <3>3. LET q == [pass EXCEPT !.pc = "update"]
          IN q \in Pass /\ q.todo = pass.todo
      BY <3>1 DEF Pass
    <3> QED
      BY <2>4, <3>1, <3>2, <3>3
  <2>7. TypeOK'
    BY <1>0, <1>7, <2>5, <2>6 DEF SettleClose, TypeOK, Sound
  <2>8. PassInv'
    BY <1>0, <1>7, <2>6 DEF SettleClose, PassInv, Pending
  <2> QED
    BY <2>5, <2>7, <2>8
<1>8. ASSUME NEW i \in pass.todo, SettleUpdate(i)
      PROVE  IInv'
  <2>1. pass.todo \ {i} \in SUBSET Nat
    BY <1>0 DEF TypeOK, Pass
  <2>2. pass' \in Pass /\ pass'.todo = pass.todo \ {i}
    BY <1>8, <2>1, PassOverType DEF SettleUpdate
  <2>3. i \in DOMAIN log /\ log[i] \in Record /\ pass.pnl \in Int \cup {NoPnl}
    BY <1>0 DEF TypeOK, Pass
  <2> DEFINE rec == [log[i] EXCEPT !.status = "resolved", !.pnl = pass.pnl]
  <2>4. rec \in Record
    BY <2>3 DEF Record
  <2>5. log' = [log EXCEPT ![i] = rec]
    BY <1>0, <1>8, <2>3 DEF SettleUpdate, TypeOK
  <2> HIDE DEF rec
  <2>6. /\ log' \in Seq(Record) /\ DOMAIN log' = DOMAIN log
        /\ \A j \in DOMAIN log : j # i => log'[j] = log[j]
    BY <1>0, <2>3, <2>4, <2>5 DEF TypeOK
  <2>7. TypeOK'
    BY <1>0, <1>8, <2>2, <2>6 DEF SettleUpdate, TypeOK
  <2>8. PassInv'
    BY <1>0, <2>2, <2>6 DEF PassInv, Pending
  <2> QED
    BY <1>0, <1>8, <2>7, <2>8 DEF SettleUpdate
<1>9. ASSUME NEW c \in Conditions, Resolve(c)
      PROVE  IInv'
  <2>1. TypeOK'
    BY <1>0, <1>9 DEF Resolve, TypeOK, SidesOf
  <2>2. PassInv'
    BY <1>0, <1>9 DEF Resolve, PassInv, Pending
  <2> QED
    BY <1>0, <1>9, <2>1, <2>2 DEF Resolve
<1>10. CASE NextDay
  <2> HIDE DEF IInv
  <2>0. portfolio \in Portfolios /\ portfolio' = [portfolio EXCEPT !.today = 0]
    BY <1>0, <1>10 DEF NextDay, TypeOK
  <2>1. portfolio' \in Portfolios
    BY <2>0 DEF Portfolios
  <2>2. /\ portfolio'.cost = portfolio.cost /\ portfolio'.shares = portfolio.shares
        /\ portfolio'.cash = portfolio.cash /\ portfolio'.realized = portfolio.realized
    BY <2>0 DEF Portfolios
  <2>3. Sound(portfolio')
    BY <1>0, <2>1, <2>2 DEF Sound, Conserved, WithinCaps, Exposure, Held
  <2>4. TypeOK'
    BY <1>0, <1>10, <2>1 DEF NextDay, TypeOK
  <2>5. PassInv'
    BY <1>0, <1>10 DEF NextDay, PassInv, Pending
  <2> QED
    BY <2>3, <2>4, <2>5 DEF IInv
<1>11. CASE Restart
  <2>1. Sound(portfolio') /\ portfolio' \in Portfolios
    BY <1>11, EmptySound DEF Restart, Sound
  <2>2. TypeOK'
    BY <1>0, <1>11, <2>1, NoPassType DEF Restart, TypeOK
  <2>3. PassInv'
    BY <1>11, NoPassType DEF Restart, PassInv
  <2> QED
    BY <2>1, <2>2, <2>3
<1>12. CASE UNCHANGED vars
  BY <1>0, <1>12 DEF vars, TypeOK, PassInv, Pending
<1> QED
  <2>1. \A size \in Sizes : size \in Nat
    BY EngineAssumption
  <2> QED
    BY <2>1, <1>1, <1>2, <1>3, <1>4, <1>5, <1>6, <1>7, <1>8, <1>9, <1>10, <1>11, <1>12
       DEF Next, Settle

-----------------------------------------------------------------------------
(* In every reachable state of Engine the inductive invariant holds.        *)
THEOREM Invariance == Spec => []IInv
BY InitIInv, NextIInv, PTL DEF Spec

(* The state of the engine keeps its types: the log only holds records, the *)
(* portfolio only integer amounts, a pass only indices of the log.          *)
THEOREM TypeCorrect == Spec => []TypeOK
<1>1. IInv => TypeOK
  BY DEF IInv
<1> QED
  BY <1>1, Invariance, PTL

(* Cash and exposure always add up to the bankroll and the realised P&L     *)
(* (Portfolio.apply_buy and apply_sell_close, with any fills).              *)
THEOREM BooksBalance == Spec => []Conservation
<1>1. IInv => Conservation
  BY DEF IInv, Sound, Conservation
<1> QED
  BY <1>1, Invariance, PTL

(* With one caller at a time the exposure cap, the number of positions and  *)
(* non-negative cash hold in every state, whatever the limits, prices,      *)
(* partial fills, settlements and restarts (CircuitBreaker.check).          *)
THEOREM CapsHold == Spec => []CapsRespected
<1>1. IInv => CapsRespected
  BY DEF IInv, Sound, CapsRespected
<1> QED
  BY <1>1, Invariance, PTL

-----------------------------------------------------------------------------
(* No step but a restart moves a frozen portfolio.                          *)
LEMMA FrozenStep ==
    ASSUME IInv, [Next]_vars, Frozen(portfolio)
    PROVE  \/ portfolio' = [portfolio EXCEPT !.today = portfolio'.today]
           \/ faults' > faults
<1> DEFINE Still == portfolio' = portfolio
<1>1. portfolio \in Portfolios /\ faults \in Nat /\ pass.todo \subseteq DOMAIN log
      /\ log \in Seq(Record)
  BY DEF IInv, TypeOK
<1>2. Still => portfolio' = [portfolio EXCEPT !.today = portfolio'.today]
  BY <1>1 DEF Portfolios
<1>3. ASSUME NEW t, NEW side \in Sides, NEW size,
             NEW r \in Execute(portfolio, Order(t, side, size))
      PROVE  r.portfolio = portfolio
  <2> DEFINE o == Order(t, side, size)
  <2>1. o.side \in Sides
    BY DEF Order
  <2> HIDE DEF o
  <2>2. r \in Execute(portfolio, o)
    BY DEF o
  <2> QED
    BY <2>1, <2>2, ExecuteFrozen
<1>4. ASSUME NEW t \in Tokens, NEW d \in Decisions, Trade(t, d)
      PROVE  Still
  <2>1. CASE d.action = "hold"
    BY <1>4, <2>1 DEF Trade, Outcome
  <2>2. CASE d.action # "hold"
    <3>1. d.action \in Sides
      BY <2>2 DEF Decisions, Sides
    <3> QED
      BY <1>3, <1>4, <2>2, <3>1 DEF Trade
  <2> QED
    BY <2>1, <2>2
<1>5. ASSUME NEW t, NEW side \in Sides, NEW size, PaperExecute(t, side, size)
      PROVE  Still
  BY <1>3, <1>5 DEF PaperExecute
<1>6. ASSUME NEW t \in Tokens, NEW d \in Decisions, PaperTrade(t, d)
      PROVE  Still
  <2>1. PaperExecute(t, d.action, d.size) /\ d.action # "hold"
    BY <1>6 DEF PaperTrade
  <2>2. d.action \in Sides
    BY <2>1 DEF Decisions, Sides
  <2> QED
    BY <1>5, <2>1, <2>2
<1>7. ASSUME NEW i \in pass.todo, SettleSkip(i) \/ SettleClose(i) \/ SettleUpdate(i)
      PROVE  Still
  <2>1. log[i].token \notin Held(portfolio)
    BY DEF Frozen
  <2> QED
    BY <1>7, <2>1 DEF SettleSkip, SettleClose, SettleUpdate
<1>8. CASE SettleBegin
  BY <1>2, <1>8 DEF SettleBegin
<1>9. CASE SettleAbort
  BY <1>2, <1>9 DEF SettleAbort
<1>10. CASE \E c \in Conditions : Resolve(c)
  BY <1>2, <1>10 DEF Resolve
<1>11. CASE NextDay
  BY <1>1, <1>11 DEF NextDay, Portfolios
<1>12. CASE Restart
  BY <1>1, <1>12 DEF Restart
<1>13. CASE UNCHANGED vars
  BY <1>2, <1>13 DEF vars
<1> QED
  BY <1>2, <1>4, <1>5, <1>6, <1>7, <1>8, <1>9, <1>10, <1>11, <1>12, <1>13
     DEF Next, Settle

(* Once the loss streak has reached its limit with no position open, only a *)
(* restart of the process ever trades again: the cooldown of                *)
(* circuit_breaker.py:35 has no end.                                        *)
THEOREM CooldownIsForEver == Spec => CooldownNeverEnds
<1>1. IInv /\ [Next]_vars =>
        [Frozen(portfolio) =>
            \/ portfolio' = [portfolio EXCEPT !.today = portfolio'.today]
            \/ faults' > faults]_vars
  BY FrozenStep
<1> QED
  BY <1>1, Invariance, PTL DEF Spec, CooldownNeverEnds

-----------------------------------------------------------------------------
(* A step rewrites no record that has been resolved.                        *)
LEMMA ResolvedStep ==
    ASSUME IInv, [Next]_vars, NEW i \in DOMAIN log, log[i].status = "resolved"
    PROVE  log'[i] = log[i]
<1>1. log \in Seq(Record) /\ pass.todo \subseteq Pending
  BY DEF IInv, TypeOK, PassInv
<1>2. ASSUME NEW t \in Tokens, NEW d \in Decisions, Trade(t, d)
      PROVE  log'[i] = log[i]
  BY <1>1, <1>2 DEF Trade
<1>3. ASSUME NEW j \in pass.todo, SettleUpdate(j)
      PROVE  log'[i] = log[i]
  BY <1>1, <1>3 DEF SettleUpdate, Pending
<1>4. CASE UNCHANGED log
  BY <1>4
<1> QED
  BY <1>2, <1>3, <1>4 DEF Next, Settle, vars, PaperTrade, PaperExecute, SettleBegin,
     SettleSkip, SettleClose, SettleAbort, Resolve, NextDay, Restart

(* A resolved record keeps its P&L for ever (MemoryStore.update only ever   *)
(* meets pending records, with one caller).                                 *)
THEOREM ResolvedRecordsAreFinal == Spec => ResolvedIsFinal
<1>1. IInv /\ [Next]_vars =>
        [\A i \in DOMAIN log : log[i].status = "resolved" => log'[i] = log[i]]_vars
  BY ResolvedStep
<1> QED
  BY <1>1, Invariance, PTL DEF Spec, ResolvedIsFinal

-----------------------------------------------------------------------------
(* The portfolio of a new process is the fresh ledger.                      *)
LEMMA EmptyLedger ==
    /\ Exposure(EmptyPortfolio) = 0 /\ Cardinality(Held(EmptyPortfolio)) = 0
    /\ EmptyPortfolio.cash = Bankroll /\ EmptyPortfolio.realized = 0
<1>1. EmptyPortfolio.cash = Bankroll /\ EmptyPortfolio.realized = 0
  BY DEF EmptyPortfolio
<1>2. Sound(EmptyPortfolio) /\ Held(EmptyPortfolio) = {}
  BY EmptySound
<1>3. Exposure(EmptyPortfolio) \in Nat
  BY <1>2, PortfolioSizes DEF Sound
<1> QED
  BY <1>1, <1>2, <1>3, FS_EmptySet, PortfolioAssumption DEF Sound, Conserved

(* A filled entry is an entry of the ledger.                                *)
LEMMA BuyIsEnter ==
    ASSUME Sound(portfolio), NEW o, o.token \in Tokens, o.size \in Nat,
           EntryAllowed(portfolio, o), NEW f \in BuyFills(o.size),
           portfolio' = ApplyBuy(portfolio, o.token, f.shares, f.notional)
    PROVE  Ledger!Enter
<1>1. portfolio \in Portfolios
  BY DEF Sound
<1>2. f.shares \in Nat \ {0} /\ f.notional \in Nat \ {0}
  BY DEF BuyFills
<1>3. /\ Exposure(portfolio') = Exposure(portfolio) + f.notional
      /\ portfolio'.cash = portfolio.cash - f.notional
      /\ portfolio'.realized = portfolio.realized
      /\ portfolio'.today = portfolio.today /\ portfolio'.losses = portfolio.losses
      /\ Held(portfolio') = Held(portfolio) \cup {o.token}
  BY <1>1, <1>2, BuyEffect
<1>4. /\ Exposure(portfolio) \in Nat /\ portfolio.cash \in Int
      /\ IsFiniteSet(Held(portfolio)) /\ Cardinality(Held(portfolio)) \in Nat
  BY <1>1, PortfolioSizes DEF Portfolios
<1>5. Sound(portfolio')
  BY BuySound
<1>6. Cardinality(Held(portfolio')) \in {Cardinality(Held(portfolio)),
                                        Cardinality(Held(portfolio)) + 1}
  <2>1. Cardinality(Held(portfolio) \cup {o.token})
            = IF o.token \in Held(portfolio) THEN Cardinality(Held(portfolio))
              ELSE Cardinality(Held(portfolio)) + 1
    BY <1>4, FS_AddElement
  <2> QED
    BY <1>3, <2>1
<1>7. /\ Exposure(portfolio') > Exposure(portfolio)
      /\ portfolio'.cash = portfolio.cash - (Exposure(portfolio') - Exposure(portfolio))
  BY <1>2, <1>3, <1>4
<1>8. ~(DailyHalt(portfolio) \/ Cooldown(portfolio))
  BY DEF EntryAllowed
<1>9. (DailyHalt(portfolio') \/ Cooldown(portfolio'))
          = (DailyHalt(portfolio) \/ Cooldown(portfolio))
  BY <1>3 DEF DailyHalt, Cooldown
<1> QED
  BY <1>3, <1>5, <1>6, <1>7, <1>8, <1>9 DEF Ledger!Enter, Sound, WithinCaps

(* A closed position is an exit of the ledger.                              *)
LEMMA CloseIsExit ==
    ASSUME Sound(portfolio), NEW t \in Held(portfolio), NEW proceeds \in Nat,
           portfolio' = ApplySellClose(portfolio, t, proceeds)
    PROVE  Ledger!Exit
<1>1. portfolio \in Portfolios /\ t \in Tokens
  BY DEF Sound, Held
<1>2. /\ Exposure(portfolio') = Exposure(portfolio) - portfolio.cost[t]
      /\ portfolio.cost[t] \in Nat
      /\ portfolio'.cash = portfolio.cash + proceeds
      /\ portfolio'.realized = portfolio.realized + proceeds - portfolio.cost[t]
      /\ Held(portfolio') = Held(portfolio) \ {t}
  BY <1>1, CloseEffect
<1>3. /\ Exposure(portfolio) \in Nat /\ portfolio.cash \in Int
      /\ portfolio.realized \in Int
      /\ IsFiniteSet(Held(portfolio)) /\ Cardinality(Held(portfolio)) \in Nat
  BY <1>1, PortfolioSizes DEF Portfolios
<1>4. Cardinality(Held(portfolio')) = Cardinality(Held(portfolio)) - 1
  BY <1>2, <1>3, FS_RemoveElement
<1>5. /\ Exposure(portfolio') <= Exposure(portfolio)
      /\ portfolio'.cash >= portfolio.cash
      /\ portfolio'.realized - portfolio.realized
            = (portfolio'.cash - portfolio.cash)
              - (Exposure(portfolio) - Exposure(portfolio'))
  BY <1>2, <1>3
<1> QED
  BY <1>4, <1>5 DEF Ledger!Exit

(* One executed order is an entry, an exit or nothing.                      *)
LEMMA ExecuteIsLedgerStep ==
    ASSUME Sound(portfolio), NEW t \in Tokens, NEW side \in Sides, NEW size \in Nat,
           NEW r \in Execute(portfolio, Order(t, side, size)),
           portfolio' = r.portfolio
    PROVE  Ledger!Next \/ UNCHANGED portfolio
<1> DEFINE o == Order(t, side, size)
<1>1. o.token = t /\ o.side \in Sides /\ o.size \in Nat
  BY DEF Order
<1>2. portfolio \in Portfolios
  BY DEF Sound
<1> HIDE DEF o
<1>3. r \in Execute(portfolio, o)
  BY DEF o
<1>4. CASE /\ EntryAllowed(portfolio, o)
           /\ \E f \in BuyFills(o.size) :
                  r.portfolio = ApplyBuy(portfolio, o.token, f.shares, f.notional)
  BY <1>1, <1>4, BuyIsEnter DEF Ledger!Next
<1>5. CASE /\ o.token \in Held(portfolio)
           /\ \E proceeds \in Nat :
                  r.portfolio = ApplySellClose(portfolio, o.token, proceeds)
  BY <1>1, <1>5, CloseIsExit DEF Ledger!Next
<1> QED
  BY <1>1, <1>2, <1>3, <1>4, <1>5, ExecuteCases

LEMMA LedgerStep ==
    ASSUME IInv, [Next]_vars
    PROVE  Ledger!Next \/ UNCHANGED Ledger!vars
<1>1. Sound(portfolio) /\ portfolio \in Portfolios /\ log \in Seq(Record)
      /\ pass.todo \subseteq DOMAIN log
  BY DEF IInv, TypeOK
<1>2. UNCHANGED portfolio => UNCHANGED Ledger!vars
  BY DEF Ledger!vars
<1>3. ASSUME NEW t \in Tokens, NEW d \in Decisions, Trade(t, d)
      PROVE  Ledger!Next \/ UNCHANGED portfolio
  <2>1. CASE d.action = "hold"
    BY <1>3, <2>1 DEF Trade, Outcome
  <2>2. CASE d.action # "hold"
    <3>1. d.action \in Sides /\ d.size \in Nat
      BY <2>2, EngineAssumption DEF Decisions, Sides
    <3> QED
      BY <1>1, <1>3, <2>2, <3>1, ExecuteIsLedgerStep DEF Trade
  <2> QED
    BY <2>1, <2>2
<1>4. ASSUME NEW t \in Tokens, NEW side \in Sides, NEW size \in Nat,
             PaperExecute(t, side, size)
      PROVE  Ledger!Next \/ UNCHANGED portfolio
  BY <1>1, <1>4, ExecuteIsLedgerStep DEF PaperExecute
<1>5. ASSUME NEW t \in Tokens, NEW d \in Decisions, PaperTrade(t, d)
      PROVE  Ledger!Next \/ UNCHANGED portfolio
  <2>1. PaperExecute(t, d.action, d.size) /\ d.action # "hold"
    BY <1>5 DEF PaperTrade
  <2>2. d.action \in Sides /\ d.size \in Nat
    BY <2>1, EngineAssumption DEF Decisions, Sides
  <2> QED
    BY <1>4, <2>1, <2>2
<1>6. ASSUME NEW i \in pass.todo, SettleClose(i)
      PROVE  Ledger!Next \/ UNCHANGED portfolio
  <2> DEFINE t == log[i].token
             proceeds == SettleProceeds(portfolio, t, Winner(i) = t)
  <2>1. CASE t \notin Held(portfolio)
    BY <1>6, <2>1 DEF SettleClose
  <2>2. CASE t \in Held(portfolio)
    <3>1. portfolio.shares[t] \in Nat
      BY <1>1, <2>2 DEF Portfolios, Held
    <3>2. \A a, b \in Nat : a * b \in Nat
      OBVIOUS
    <3>3. proceeds \in Nat
      BY <3>1, <3>2, PortfolioAssumption DEF SettleProceeds
    <3>4. portfolio' = ApplySellClose(portfolio, t, proceeds)
      BY <1>6, <2>2 DEF SettleClose
    <3> HIDE DEF t, proceeds
    <3> QED
      BY <1>1, <2>2, <3>3, <3>4, CloseIsExit DEF Ledger!Next
  <2> QED
    BY <2>1, <2>2
<1>7. ASSUME NEW i \in pass.todo, SettleSkip(i) \/ SettleUpdate(i)
      PROVE  UNCHANGED portfolio
  BY <1>7 DEF SettleSkip, SettleUpdate
<1>8. CASE SettleBegin \/ SettleAbort \/ \E c \in Conditions : Resolve(c)
  BY <1>2, <1>8 DEF SettleBegin, SettleAbort, Resolve
<1>9. CASE NextDay
  <2>1. /\ portfolio'.cost = portfolio.cost /\ portfolio'.shares = portfolio.shares
        /\ portfolio'.cash = portfolio.cash /\ portfolio'.realized = portfolio.realized
    BY <1>1, <1>9 DEF NextDay, Portfolios
  <2> QED
    BY <2>1 DEF Ledger!Next, Ledger!NewDay, Exposure, Held
<1>10. CASE Restart
  <2>1. /\ Exposure(EmptyPortfolio) = 0 /\ Cardinality(Held(EmptyPortfolio)) = 0
        /\ EmptyPortfolio.cash = Bankroll /\ EmptyPortfolio.realized = 0
    BY EmptyLedger
  <2> QED
    BY <1>10, <2>1 DEF Restart, Ledger!Next, Ledger!Restart, Ledger!Fresh
<1>11. CASE UNCHANGED vars
  BY <1>2, <1>11 DEF vars
<1> QED
  <2>1. \A size \in Sizes : size \in Nat
    BY EngineAssumption
  <2> QED
    BY <2>1, <1>2, <1>3, <1>4, <1>5, <1>6, <1>7, <1>8, <1>9, <1>10, <1>11
       DEF Next, Settle

(* The engine implements the ledger the breaker promises: every step of     *)
(* trade, paper_execute, paper_trade and settle is an entry within the caps *)
(* and outside a halt, an exit, a change of day, a restart, or invisible.   *)
THEOREM EngineImplementsLedger == Spec => ImplementsLedger
<1>1. Init => Ledger!Init
  <2>1. /\ Exposure(EmptyPortfolio) = 0 /\ Cardinality(Held(EmptyPortfolio)) = 0
        /\ EmptyPortfolio.cash = Bankroll /\ EmptyPortfolio.realized = 0
    BY EmptyLedger
  <2> QED
    BY <2>1 DEF Init, Ledger!Init, Ledger!Fresh, DailyHalt, Cooldown
<1>2. IInv /\ [Next]_vars => [Ledger!Next]_(Ledger!vars)
  BY LedgerStep
<1> QED
  BY <1>1, <1>2, Invariance, PTL DEF Spec, ImplementsLedger, Ledger!Spec

-----------------------------------------------------------------------------
(* Changing one entry changes the balance by exactly that much.             *)
LEMMA BalanceChange ==
    ASSUME NEW S, IsFiniteSet(S), NEW e \in [S -> Int], NEW f \in [S -> Int],
           NEW x \in S, \A y \in S \ {x} : f[y] = e[y]
    PROVE  Balance(f, S) = Balance(e, S) - e[x] + f[x]
<1> DEFINE Gains(h) == [y \in S |-> IF h[y] > 0 THEN h[y] ELSE 0]
           Losses(h) == [y \in S |-> IF h[y] < 0 THEN -h[y] ELSE 0]
           Sum(a) == Cardinality(Units(a, S))
<1>1. ASSUME NEW h \in [S -> Int]
      PROVE  /\ Gains(h) \in [S -> Nat] /\ Losses(h) \in [S -> Nat]
             /\ Gains(h)[x] - Losses(h)[x] = h[x]
             /\ Balance(h, S) = Sum(Gains(h)) - Sum(Losses(h))
             /\ Sum(Gains(h)) \in Nat /\ Sum(Losses(h)) \in Nat
  <2>1. Gains(h) \in [S -> Nat] /\ Losses(h) \in [S -> Nat]
    OBVIOUS
  <2>2. Gains(h)[x] - Losses(h)[x] = h[x]
    OBVIOUS
  <2>3. Balance(h, S) = Sum(Gains(h)) - Sum(Losses(h))
    BY DEF Balance
  <2> QED
    BY <2>1, <2>2, <2>3, UnitsFinite
<1>2. /\ \A y \in S \ {x} : Gains(f)[y] = Gains(e)[y]
      /\ \A y \in S \ {x} : Losses(f)[y] = Losses(e)[y]
  OBVIOUS
<1> HIDE DEF Gains, Losses
<1>3. /\ Gains(e) \in [S -> Nat] /\ Gains(f) \in [S -> Nat]
      /\ Losses(e) \in [S -> Nat] /\ Losses(f) \in [S -> Nat]
  BY <1>1
<1>4. Sum(Gains(f)) = Sum(Gains(e)) - Gains(e)[x] + Gains(f)[x]
  BY <1>2, <1>3, UnitsChange
<1>5. Sum(Losses(f)) = Sum(Losses(e)) - Losses(e)[x] + Losses(f)[x]
  BY <1>2, <1>3, UnitsChange
<1>6. /\ Gains(e)[x] \in Nat /\ Gains(f)[x] \in Nat
      /\ Losses(e)[x] \in Nat /\ Losses(f)[x] \in Nat
  BY <1>3
<1> HIDE DEF Sum
<1>7. /\ Balance(e, S) = Sum(Gains(e)) - Sum(Losses(e))
      /\ Balance(f, S) = Sum(Gains(f)) - Sum(Losses(f))
      /\ Gains(e)[x] - Losses(e)[x] = e[x] /\ Gains(f)[x] - Losses(f)[x] = f[x]
      /\ Sum(Gains(e)) \in Nat /\ Sum(Losses(e)) \in Nat
  BY <1>1
<1> QED
  <2> DEFINE ge == Gains(e)[x]  gf == Gains(f)[x]
             le == Losses(e)[x] lf == Losses(f)[x]
             bg == Sum(Gains(e)) bl == Sum(Losses(e))
  <2>1. /\ Balance(f, S) = (bg - ge + gf) - (bl - le + lf)
        /\ Balance(e, S) = bg - bl /\ ge - le = e[x] /\ gf - lf = f[x]
    BY <1>4, <1>5, <1>7
  <2>2. /\ ge \in Nat /\ gf \in Nat /\ le \in Nat /\ lf \in Nat
        /\ bg \in Nat /\ bl \in Nat
    BY <1>6, <1>7
  <2> HIDE DEF ge, gf, le, lf, bg, bl
  <2> QED
    BY <2>1, <2>2

LEMMA BalanceType ==
    ASSUME NEW S, IsFiniteSet(S), NEW e \in [S -> Int]
    PROVE  Balance(e, S) \in Int
<1> DEFINE gains == [x \in S |-> IF e[x] > 0 THEN e[x] ELSE 0]
           losses == [x \in S |-> IF e[x] < 0 THEN -e[x] ELSE 0]
<1>1. gains \in [S -> Nat] /\ losses \in [S -> Nat]
  OBVIOUS
<1>2. Balance(e, S) = Cardinality(Units(gains, S)) - Cardinality(Units(losses, S))
  BY DEF Balance
<1> HIDE DEF gains, losses
<1>3. /\ Cardinality(Units(gains, S)) \in Nat
      /\ Cardinality(Units(losses, S)) \in Nat
  BY <1>1, UnitsFinite
<1> QED
  BY <1>2, <1>3

(* A new entry of nothing changes no balance.                               *)
LEMMA BalanceGrows ==
    ASSUME NEW S, NEW T, S \subseteq T, NEW e, NEW f,
           \A x \in S : f[x] = e[x], \A x \in T \ S : f[x] = 0
    PROVE  Balance(f, T) = Balance(e, S)
<1> DEFINE gains(h, D) == [x \in D |-> IF h[x] > 0 THEN h[x] ELSE 0]
           losses(h, D) == [x \in D |-> IF h[x] < 0 THEN -h[x] ELSE 0]
<1>1. Units(gains(f, T), T) = Units(gains(e, S), S)
  <2>1. \A x \in S : gains(f, T)[x] = gains(e, S)[x]
    OBVIOUS
  <2>2. \A x \in T \ S : 1..gains(f, T)[x] = {}
    OBVIOUS
  <2> QED
    BY <2>1, <2>2 DEF Units
<1>2. Units(losses(f, T), T) = Units(losses(e, S), S)
  <2>1. \A x \in S : losses(f, T)[x] = losses(e, S)[x]
    OBVIOUS
  <2>2. \A x \in T \ S : 1..losses(f, T)[x] = {}
    OBVIOUS
  <2> QED
    BY <2>1, <2>2 DEF Units
<1> QED
  BY <1>1, <1>2 DEF Balance

(* The P&L of one record.                                                   *)
Entry == [i \in DOMAIN log |-> Amount(log[i].pnl)]

LEMMA EntryType ==
    ASSUME log \in Seq(Record)
    PROVE  Entry \in [DOMAIN log -> Int] /\ IsFiniteSet(DOMAIN log)
<1>1. \A i \in DOMAIN log : log[i].pnl \in Int \cup {NoPnl}
  <2>1. \A i \in DOMAIN log : log[i] \in Record
    OBVIOUS
  <2> QED
    BY <2>1 DEF Record
<1>2. IsFiniteSet(DOMAIN log)
  BY FS_Interval
<1> QED
  BY <1>1, <1>2 DEF Entry, Amount

(* P&L is only waiting where settle() put it: a record that is pending has  *)
(* none yet, and a pass holds some only between a close and its update.     *)
Waiting ==
    /\ \A i \in Pending : log[i].pnl = NoPnl
    /\ pass.pc # "update" => pass.pnl = NoPnl

Account == Waiting /\ LogAccountsForBook

LEMMA InitAccount == Init => Account
<1> SUFFICES ASSUME Init PROVE Account
  OBVIOUS
<1>1. LoggedPnl = 0
  <2>1. DOMAIN log = {}
    BY DEF Init
  <2>2. \A a : Units(a, {}) = {}
    BY DEF Units
  <2> QED
    BY <2>1, <2>2, FS_EmptySet DEF LoggedPnl, Balance
<1> QED
  BY <1>1 DEF Init, Account, Waiting, LogAccountsForBook, Pending, NoPass,
     EmptyPortfolio, Amount

(* An order books P&L only when it sells, and soldPnl books the same.       *)
LEMMA ExecuteBooks ==
    ASSUME Sound(portfolio), NEW t \in Tokens, NEW side \in Sides, NEW size \in Nat,
           NEW r \in Execute(portfolio, Order(t, side, size)),
           portfolio' = r.portfolio, BookSale(side, r.portfolio), soldPnl \in Int
    PROVE  portfolio'.realized - soldPnl' = portfolio.realized - soldPnl
<1> DEFINE o == Order(t, side, size)
<1>1. o.token \in Tokens /\ o.side = side /\ o.size = size
  BY DEF Order
<1>2. portfolio \in Portfolios /\ portfolio.realized \in Int
  BY DEF Sound, Portfolios
<1> HIDE DEF o
<1>3. r \in Execute(portfolio, o)
  BY DEF o
<1>4. Sound(r.portfolio)
  BY ExecuteStep
<1>5. r.portfolio.realized \in Int
  BY <1>4 DEF Sound, Portfolios
<1>6. CASE side = "sell"
  BY <1>2, <1>5, <1>6 DEF BookSale
<1>7. CASE side = "buy"
  <2>1. r.portfolio.realized = portfolio.realized
    <3>1. CASE r.portfolio = portfolio
      BY <3>1
    <3>2. CASE \E f \in BuyFills(o.size) :
                  r.portfolio = ApplyBuy(portfolio, o.token, f.shares, f.notional)
      <4>1. PICK f \in BuyFills(o.size) :
                r.portfolio = ApplyBuy(portfolio, o.token, f.shares, f.notional)
        BY <3>2
      <4>2. f.shares \in Nat \ {0} /\ f.notional \in Nat
        BY <1>1 DEF BuyFills
      <4> QED
        BY SMTT(30), <1>1, <1>2, <4>1, <4>2, BuyEffect
    <3> QED
      BY <1>1, <1>2, <1>3, <1>7, <3>1, <3>2, ExecuteCases
  <2> QED
    BY <1>2, <1>7, <2>1 DEF BookSale
<1> QED
  BY <1>6, <1>7 DEF Sides

(* Equal steps of two sums keep what they differ by.                        *)
LEMMA KeepsDifference ==
    ASSUME NEW a \in Int, NEW b \in Int, NEW c \in Int, NEW d \in Int, NEW x \in Int,
           c - d = a - b, a = b + x
    PROVE  c = d + x
OBVIOUS

(* A record of no P&L at the end of the log leaves its sum as it was.       *)
LEMMA AppendLogged ==
    ASSUME log \in Seq(Record), NEW rec, rec.pnl = NoPnl, log' = Append(log, rec)
    PROVE  LoggedPnl' = LoggedPnl
<1> DEFINE e == Entry
           f == [i \in DOMAIN log' |-> Amount(log'[i].pnl)]
<1>1. /\ DOMAIN log \subseteq DOMAIN log'
      /\ \A i \in DOMAIN log : log'[i] = log[i]
      /\ \A i \in DOMAIN log' \ DOMAIN log : log'[i] = rec
  OBVIOUS
<1>2. /\ \A i \in DOMAIN log : f[i] = e[i]
      /\ \A i \in DOMAIN log' \ DOMAIN log : f[i] = 0
  BY <1>1 DEF Entry, Amount
<1> HIDE DEF e, f
<1>3. Balance(f, DOMAIN log') = Balance(e, DOMAIN log)
  BY <1>1, <1>2, BalanceGrows
<1> QED
  BY <1>3 DEF LoggedPnl, Entry, e, f

(* Writing the P&L of a pending record adds exactly that to the sum.        *)
LEMMA UpdateLogged ==
    ASSUME log \in Seq(Record), log' \in Seq(Record), DOMAIN log' = DOMAIN log,
           NEW i \in DOMAIN log, log[i].pnl = NoPnl,
           \A j \in DOMAIN log \ {i} : log'[j] = log[j]
    PROVE  LoggedPnl' = LoggedPnl + Amount(log'[i].pnl) /\ LoggedPnl \in Int
<1> DEFINE e == Entry
           f == [j \in DOMAIN log |-> Amount(log'[j].pnl)]
<1>1. /\ e \in [DOMAIN log -> Int] /\ IsFiniteSet(DOMAIN log)
      /\ f \in [DOMAIN log -> Int]
  <2>1. \A j \in DOMAIN log : log'[j] \in Record
    OBVIOUS
  <2>2. \A j \in DOMAIN log : log'[j].pnl \in Int \cup {NoPnl}
    BY <2>1 DEF Record
  <2> QED
    BY <2>2, EntryType DEF Amount
<1>2. /\ e[i] = 0 /\ f[i] = Amount(log'[i].pnl)
      /\ \A j \in DOMAIN log \ {i} : f[j] = e[j]
  BY DEF Entry, Amount
<1>3. LoggedPnl = Balance(e, DOMAIN log) /\ LoggedPnl' = Balance(f, DOMAIN log)
  BY DEF LoggedPnl, Entry
<1>4. Balance(e, DOMAIN log) \in Int
  <2> HIDE DEF e
  <2> QED
    BY <1>1, BalanceType
<1> DEFINE S == DOMAIN log
<1> HIDE DEF e, f, S
<1>5. Balance(f, DOMAIN log) = Balance(e, DOMAIN log) - e[i] + f[i]
  <2>1. /\ IsFiniteSet(S) /\ e \in [S -> Int] /\ f \in [S -> Int] /\ i \in S
        /\ \A j \in S \ {i} : f[j] = e[j]
    BY <1>1, <1>2 DEF S
  <2>2. Balance(f, S) = Balance(e, S) - e[i] + f[i]
    BY SMTT(30), <2>1, BalanceChange
  <2> QED
    BY <2>2 DEF S
<1>6. f[i] \in Int
  BY <1>1
<1> QED
  BY <1>2, <1>3, <1>4, <1>5, <1>6

LEMMA NextAccount == IInv /\ Account /\ [Next]_vars => Account'
<1> SUFFICES ASSUME IInv, Account, [Next]_vars PROVE Account'
  OBVIOUS
<1>0. /\ TypeOK /\ Sound(portfolio) /\ pass.todo \subseteq Pending
      /\ log \in Seq(Record) /\ faults \in Nat /\ soldPnl \in Int /\ pass \in Pass
      /\ portfolio.realized \in Int
      /\ Waiting /\ LogAccountsForBook
  BY DEF IInv, Account, TypeOK, PassInv, Portfolios
<1>1. Sound(portfolio') /\ portfolio'.realized \in Int /\ log' \in Seq(Record)
      /\ soldPnl' \in Int
  <2>1. IInv'
    BY NextIInv
  <2> QED
    BY <2>1 DEF IInv, TypeOK, Portfolios
<1>2. LoggedPnl \in Int
  <2>1. LoggedPnl = Balance(Entry, DOMAIN log)
    BY DEF LoggedPnl, Entry
  <2> QED
    BY <1>0, <2>1, EntryType, BalanceType
<1>3. Amount(pass.pnl) \in Int
  BY <1>0 DEF Pass, Amount
<1>4. ASSUME NEW t \in Tokens, NEW d \in Decisions, Trade(t, d)
      PROVE  Account'
  <2>1. PICK r \in IF d.action = "hold" THEN {Outcome("skipped", portfolio)}
                   ELSE Execute(portfolio, Order(t, d.action, d.size)) :
            /\ portfolio' = r.portfolio
            /\ log' = Append(log, [token |-> t, action |-> d.action,
                                   exec |-> r.status, status |-> "pending",
                                   pnl |-> NoPnl])
            /\ BookSale(d.action, r.portfolio)
    BY <1>4 DEF Trade
  <2>2. /\ pass' = pass /\ faults' = faults
    BY <1>4 DEF Trade
  <2>3. portfolio'.realized - soldPnl' = portfolio.realized - soldPnl
    <3>1. CASE d.action = "hold"
      BY <2>1, <3>1 DEF BookSale, Outcome
    <3>2. CASE d.action # "hold"
      <4>1. d.action \in Sides /\ d.size \in Nat
        BY <3>2, EngineAssumption DEF Decisions, Sides
      <4> QED
        BY <1>0, <2>1, <3>2, <4>1, ExecuteBooks
    <3> QED
      BY <3>1, <3>2
  <2> DEFINE rec == [token |-> t, action |-> d.action, exec |-> r.status,
                     status |-> "pending", pnl |-> NoPnl]
  <2>4. rec.pnl = NoPnl /\ log' = Append(log, rec)
    BY <2>1
  <2> HIDE DEF rec
  <2>5. LoggedPnl' = LoggedPnl
    BY <1>0, <2>4, AppendLogged
  <2>6. Waiting'
    <3>1. \A i \in DOMAIN log' :
             log'[i] = rec \/ (i \in DOMAIN log /\ log'[i] = log[i])
      BY <1>0, <2>4
    <3> QED
      BY <1>0, <2>2, <2>4, <3>1 DEF Waiting, Pending
  <2>7. LogAccountsForBook'
    <3>1. faults = 0 =>
             portfolio'.realized = soldPnl' + LoggedPnl + Amount(pass.pnl)
      <4> SUFFICES ASSUME faults = 0
                   PROVE  portfolio'.realized = soldPnl' + (LoggedPnl + Amount(pass.pnl))
        BY <1>1, <1>2, <1>3
      <4>1. portfolio.realized = soldPnl + (LoggedPnl + Amount(pass.pnl))
        BY <1>0, <1>2, <1>3 DEF LogAccountsForBook
      <4>2. LoggedPnl + Amount(pass.pnl) \in Int
        BY <1>2, <1>3
      <4>3. portfolio.realized \in Int /\ soldPnl \in Int
        BY <1>0
      <4>4. portfolio'.realized \in Int /\ soldPnl' \in Int
        BY <1>1
      <4> QED
        BY <2>3, <4>1, <4>2, <4>3, <4>4, KeepsDifference
    <3> QED
      BY <2>2, <2>5, <3>1 DEF LogAccountsForBook
  <2> QED
    BY <2>6, <2>7 DEF Account
<1>5. ASSUME NEW t \in Tokens, NEW side \in Sides, NEW size \in Nat,
             PaperExecute(t, side, size)
      PROVE  Account'
  <2>1. PICK r \in Execute(portfolio, Order(t, side, size)) :
            portfolio' = r.portfolio /\ BookSale(side, r.portfolio)
    BY <1>5 DEF PaperExecute
  <2>2. portfolio'.realized - soldPnl' = portfolio.realized - soldPnl
    BY <1>0, <2>1, ExecuteBooks
  <2>3. pass' = pass /\ faults' = faults /\ log' = log
    BY <1>5 DEF PaperExecute
  <2>4. LoggedPnl' = LoggedPnl /\ Waiting'
    BY <1>0, <2>3 DEF LoggedPnl, Waiting, Pending
  <2>5. LogAccountsForBook'
    <3>1. faults = 0 =>
             portfolio'.realized = soldPnl' + LoggedPnl + Amount(pass.pnl)
      <4> SUFFICES ASSUME faults = 0
                   PROVE  portfolio'.realized = soldPnl' + (LoggedPnl + Amount(pass.pnl))
        BY <1>1, <1>2, <1>3
      <4>1. portfolio.realized = soldPnl + (LoggedPnl + Amount(pass.pnl))
        BY <1>0, <1>2, <1>3 DEF LogAccountsForBook
      <4>2. LoggedPnl + Amount(pass.pnl) \in Int
        BY <1>2, <1>3
      <4>3. portfolio.realized \in Int /\ soldPnl \in Int
        BY <1>0
      <4>4. portfolio'.realized \in Int /\ soldPnl' \in Int
        BY <1>1
      <4> QED
        BY <2>2, <4>1, <4>2, <4>3, <4>4, KeepsDifference
    <3> QED
      BY <2>3, <2>4, <3>1 DEF LogAccountsForBook
  <2> QED
    BY <2>4, <2>5 DEF Account
<1>6. ASSUME NEW t \in Tokens, NEW d \in Decisions, PaperTrade(t, d)
      PROVE  Account'
  <2>1. PaperExecute(t, d.action, d.size) /\ d.action # "hold"
    BY <1>6 DEF PaperTrade
  <2>2. d.action \in Sides /\ d.size \in Nat
    BY <2>1, EngineAssumption DEF Decisions, Sides
  <2> QED
    BY <1>5, <2>1, <2>2
<1>7. \A todo : PassOver(todo).pc # "update" /\ PassOver(todo).pnl = NoPnl
  BY DEF PassOver, NoPass
<1>8. CASE SettleBegin \/ \E i \in pass.todo : SettleSkip(i)
  <2>1. /\ pass.pnl = NoPnl /\ pass'.pnl = NoPnl /\ pass'.pc # "update"
        /\ log' = log /\ portfolio' = portfolio /\ soldPnl' = soldPnl /\ faults' = faults
    BY <1>0, <1>7, <1>8 DEF SettleBegin, SettleSkip, Waiting
  <2> QED
    BY <1>0, <2>1 DEF Account, Waiting, Pending, LogAccountsForBook, LoggedPnl
<1>9. CASE SettleAbort \/ Restart
  <2>1. faults' # 0
    BY <1>0, <1>9 DEF SettleAbort, Restart
  <2>2. pass' = NoPass /\ log' = log
    BY <1>9 DEF SettleAbort, Restart
  <2> QED
    BY <1>0, <2>1, <2>2 DEF Account, Waiting, Pending, LogAccountsForBook, NoPass
<1>10. ASSUME NEW i \in pass.todo, SettleClose(i)
       PROVE  Account'
  <2> DEFINE t == log[i].token
             proceeds == SettleProceeds(portfolio, t, Winner(i) = t)
  <2>1. t \in Tokens
    <3>1. log[i] \in Record
      BY <1>0 DEF Pending
    <3> QED
      BY <3>1 DEF Record
  <2>2. portfolio \in Portfolios /\ portfolio.cost[t] \in Nat
    BY <1>0, <2>1 DEF Sound, Portfolios
  <2>3. proceeds \in Nat
    <3>1. portfolio.shares[t] \in Nat
      BY <2>1, <2>2 DEF Portfolios
    <3>2. \A a, b \in Nat : a * b \in Nat
      OBVIOUS
    <3> QED
      BY <3>1, <3>2, PortfolioAssumption DEF SettleProceeds
  <2>4. /\ pass.pc = "record" /\ log' = log /\ soldPnl' = soldPnl /\ faults' = faults
        /\ \/ /\ portfolio' = ApplySellClose(portfolio, t, proceeds)
              /\ pass' = [pass EXCEPT !.pc = "update", !.pnl = proceeds - portfolio.cost[t]]
           \/ /\ portfolio' = portfolio
              /\ pass' = [pass EXCEPT !.pc = "update"]
    BY <1>10 DEF SettleClose
  <2> HIDE DEF t, proceeds
  <2>5. pass.pnl = NoPnl /\ Amount(pass.pnl) = 0
    BY <1>0, <2>4 DEF Waiting, Amount
  <2>6. pass'.pc = "update" /\ portfolio'.realized = portfolio.realized + Amount(pass'.pnl)
    <3>1. CASE /\ portfolio' = ApplySellClose(portfolio, t, proceeds)
               /\ pass' = [pass EXCEPT !.pc = "update", !.pnl = proceeds - portfolio.cost[t]]
      <4>1. portfolio'.realized = portfolio.realized + proceeds - portfolio.cost[t]
        BY <2>1, <2>2, <2>3, <3>1, CloseEffect
      <4>2. pass'.pc = "update" /\ pass'.pnl = proceeds - portfolio.cost[t]
        BY <1>0, <3>1 DEF Pass
      <4>3. pass'.pnl \in Int
        BY <2>2, <2>3, <4>2
      <4>4. Amount(pass'.pnl) = proceeds - portfolio.cost[t]
        BY <4>2, <4>3, EngineAssumption DEF Amount
      <4> QED
        BY <1>0, <2>2, <2>3, <4>1, <4>2, <4>4
    <3>2. CASE portfolio' = portfolio /\ pass' = [pass EXCEPT !.pc = "update"]
      BY <1>0, <2>5, <3>2 DEF Pass
    <3> QED
      BY <2>4, <3>1, <3>2
  <2>7. LoggedPnl' = LoggedPnl
    BY <2>4 DEF LoggedPnl
  <2> DEFINE held == Amount(pass'.pnl)
  <2>8. held = portfolio'.realized - portfolio.realized
    <3>1. held \in Int
      <4>1. pass' \in Pass
        <5>1. IInv'
          BY NextIInv
        <5> QED
          BY <5>1 DEF IInv, TypeOK
      <4> QED
        BY <4>1 DEF Pass, Amount
    <3> QED
      BY <1>0, <2>6, <3>1
  <2>9. faults = 0 => portfolio'.realized = soldPnl + LoggedPnl + held
    BY <1>0, <1>1, <1>2, <2>5, <2>8 DEF LogAccountsForBook
  <2>10. LogAccountsForBook'
    BY <2>4, <2>7, <2>9 DEF LogAccountsForBook
  <2>11. Waiting'
    BY <1>0, <2>4, <2>6 DEF Waiting, Pending
  <2> QED
    BY <2>10, <2>11 DEF Account
<1>11. ASSUME NEW i \in pass.todo, SettleUpdate(i)
       PROVE  Account'
  <2>1. /\ log' = [log EXCEPT ![i].status = "resolved", ![i].pnl = pass.pnl]
        /\ pass' = PassOver(pass.todo \ {i})
        /\ portfolio' = portfolio /\ soldPnl' = soldPnl /\ faults' = faults
    BY <1>11 DEF SettleUpdate
  <2>2. i \in DOMAIN log /\ i \in Pending /\ log[i] \in Record /\ log[i].pnl = NoPnl
    BY <1>0 DEF Pending, Waiting
  <2>3. /\ DOMAIN log' = DOMAIN log
        /\ \A j \in DOMAIN log \ {i} : log'[j] = log[j]
        /\ log'[i].pnl = pass.pnl /\ log'[i].status = "resolved"
    BY <1>0, <2>1, <2>2 DEF Record
  <2>4. LoggedPnl' = LoggedPnl + Amount(log'[i].pnl)
    BY <1>0, <1>1, <2>2, <2>3, UpdateLogged
  <2>5. pass'.pc # "update" /\ pass'.pnl = NoPnl
    BY <1>7, <2>1
  <2>6. LogAccountsForBook'
    <3>1. Amount(pass'.pnl) = 0 /\ LoggedPnl' = LoggedPnl + Amount(pass.pnl)
      BY <2>3, <2>4, <2>5 DEF Amount
    <3> QED
      BY <1>0, <1>2, <1>3, <2>1, <3>1 DEF LogAccountsForBook
  <2>7. Waiting'
    BY <1>0, <2>3, <2>5 DEF Waiting, Pending
  <2> QED
    BY <2>6, <2>7 DEF Account
<1>12. CASE \E c \in Conditions : Resolve(c)
  BY <1>0, <1>12 DEF Resolve, Account, Waiting, Pending, LogAccountsForBook, LoggedPnl
<1>13. CASE NextDay
  <2>1. portfolio'.realized = portfolio.realized
    BY <1>0, <1>13 DEF NextDay, TypeOK, Portfolios
  <2> QED
    BY <1>0, <1>13, <2>1 DEF NextDay, Account, Waiting, Pending, LogAccountsForBook, LoggedPnl
<1>14. CASE UNCHANGED vars
  BY <1>0, <1>14 DEF vars, Account, Waiting, Pending, LogAccountsForBook, LoggedPnl
<1> QED
  <2>1. \A size \in Sizes : size \in Nat
    BY EngineAssumption
  <2> QED
    BY <2>1, <1>4, <1>5, <1>6, <1>8, <1>9, <1>10, <1>11, <1>12, <1>13, <1>14
       DEF Next, Settle

(* As long as nothing dies between a close and its update, the P&L the      *)
(* portfolio books is the sum of what sells reported, of what the resolved  *)
(* records hold and of what the pass is about to write, for any number of   *)
(* trades, partial fills and settlements (orchestrator.py settle).          *)
THEOREM LogExplainsBook == Spec => []LogAccountsForBook
<1>1. Init => IInv /\ Account
  BY InitIInv, InitAccount
<1>2. (IInv /\ Account) /\ [Next]_vars => (IInv /\ Account)'
  BY NextIInv, NextAccount
<1>3. IInv /\ Account => LogAccountsForBook
  BY DEF Account
<1> QED
  BY <1>1, <1>2, <1>3, PTL DEF Spec

=============================================================================
