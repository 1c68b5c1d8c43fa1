------------------------------- MODULE MCKernel -------------------------------
(* Capabilities of the real table, one of each kind: a resolver, a trade    *)
(* that needs it, a streaming answer, a recommendation that may come        *)
(* without a pick, and a backtest.                                          *)
EXTENDS KernelStream

CONSTANT none

Table == INSTANCE Capabilities

Chat == {"resolve_market", "paper_trade", "domain_answer", "discover_markets",
         "recommend_markets", "batch_backtest"}

MCPre == [c \in Chat |-> Table!DefaultRegistry[c].pre]
MCEffects == [c \in Chat |-> Table!DefaultRegistry[c].effects]
MCCost == [c \in Chat |-> Table!DefaultRegistry[c].cost]
MCOptional == [c \in Chat |-> IF c = "recommend_markets" THEN {"market_ref"} ELSE {}]

MCFacts == {"question", "event"} \cup UNION {MCEffects[c] : c \in Chat}

(* The goals of a request that is asked, and of one that wants a backtest.  *)
KernelGoal(words) ==
    LET asked == Table!GoalFor("kernel", words)
    IN [targets |-> {asked.target}, facts |-> asked.facts]

MCGoals == {KernelGoal({}), KernelGoal({"backtest"})}

(* GoalsAssumption holds of the table with all packs, and so of any         *)
(* selection of them: no words lead to a goal that needs a trade.           *)
ASSUME NoGoalNeedsATrade ==
    \A words \in {{}, {"backtest"}, {"trade"}, {"evaluate"}} :
       LET need == Table!NeededEffects(Table!GoalFor("kernel", words).target,
                                       Table!DefaultRegistry, {})
       IN need \cap Table!DefaultRegistry["paper_trade"].effects = {}

=============================================================================
