----------------------------- MODULE Capabilities -----------------------------
(***************************************************************************)
(* The capabilities of the kernel as data (kernel/capabilities.py), the    *)
(* packs and modes that select some of them, and the goal-directed loop    *)
(* over a selection as a function of its goal.  A capability is what it    *)
(* needs, what it produces and its cost; what it computes is left out.     *)
(***************************************************************************)
EXTENDS Naturals, SequencesExt

Capability(pre, effects, cost) == [pre |-> pre, effects |-> effects, cost |-> cost]

(* The common shape: one effect, from the question alone.                   *)
Asked(effect, cost) == Capability({"question"}, {effect}, cost)

-----------------------------------------------------------------------------
(* The table.                                                               *)

ResearchChain ==
    "data_agent" :> Capability({"event"}, {"history"}, 1) @@
    "backtest_agent" :> Capability({"history"}, {"backtest_report"}, 2) @@
    "signal_agent" :> Capability({"history"}, {"signal"}, 2) @@
    "risk_agent" :> Capability({"signal"}, {"decision"}, 2)

AnswerCapabilities ==
    "langgraph_answer" :> Asked("answer", 3) @@
    "domain_answer" :> Asked("answer", 3)

BatchCapabilities ==
    "scan_markets" :> Asked("market_batch", 1) @@
    "batch_collect" :> Capability({"market_batch"}, {"collections"}, 3) @@
    "batch_backtest" :> Asked("backtest_report", 4) @@
    "promotion_gate" :> Asked("promotion_verdict", 4)

TradeCapabilities ==
    "settle_and_reflect" :> Asked("settlement", 3) @@
    "paper_trade" :> Capability({"market_ref"}, {"paper_trade"}, 4) @@
    "evaluate_skill" :> Asked("skill_report", 2) @@
    "portfolio_review" :> Asked("portfolio_review", 1)

AlphaCapabilities ==
    "news_sentiment" :> Asked("news_sentiment", 3) @@
    "microstructure_scan" :> Asked("microstructure", 4) @@
    "hunt_alpha" :> Asked("alpha_hunt", 5) @@
    "scan_opportunities" :> Asked("opportunities", 6) @@
    "relational_alpha" :> Asked("relational_alpha", 5) @@
    "research_alpha" :> Asked("alpha_review", 7)

JournalCapabilities ==
    "news_to_markets" :> Asked("news_markets", 4) @@
    "log_prediction" :> Asked("prediction_logged", 2) @@
    "prediction_journal" :> Asked("prediction_journal", 3) @@
    "market_radar" :> Asked("market_radar", 6)

LabCapabilities ==
    "scan_conditional_arb" :> Asked("conditional_arb", 5) @@
    "plot_market" :> Asked("chart", 3) @@
    "backfill_outcomes" :> Asked("outcome_backfill", 4) @@
    "lab_backtest" :> Asked("lab_backtest", 6) @@
    "find_crypto_arb" :> Asked("crypto_arb", 3) @@
    "backtest_matrix" :> Asked("backtest_matrix", 5) @@
    "backtest_strategies" :> Asked("strategy_comparison", 4)

(* recommend_markets hands the market it picked on as market_ref, if it     *)
(* picked one.                                                              *)
MarketCapabilities ==
    "resolve_market" :> Asked("market_ref", 1) @@
    "analyze_market" :> Capability({"market_ref"}, {"market_analysis"}, 4) @@
    "discover_markets" :> Asked("candidates", 2) @@
    "recommend_markets" :>
        Capability({"candidates"}, {"recommendation", "market_ref"}, 4)

StrategyCapability == "strategy" :> Capability({"market"}, {"decision"}, 4)

(* wiring.default_registry leaves the signal and risk agents to the demo.   *)
DefaultRegistry ==
    Restrict(ResearchChain, {"data_agent", "backtest_agent"}) @@
    AnswerCapabilities @@ BatchCapabilities @@ TradeCapabilities @@ AlphaCapabilities @@
    JournalCapabilities @@ LabCapabilities @@ MarketCapabilities @@ StrategyCapability

(* An offline one, with which the loop is tried out.                        *)
DemoRegistry == ResearchChain

AllCapabilities == DefaultRegistry @@ DemoRegistry

-----------------------------------------------------------------------------
(* Packs and modes.                                                         *)

CORE == {"hunt_alpha", "scan_opportunities", "scan_markets", "resolve_market",
         "analyze_market", "discover_markets", "recommend_markets", "plot_market",
         "evaluate_skill", "portfolio_review", "langgraph_answer", "domain_answer"}

PACKS ==
    "backtest-lab" :> {"batch_collect", "batch_backtest", "backtest_strategies",
                       "backtest_matrix", "promotion_gate"} @@
    "crypto-arb" :> {"find_crypto_arb"} @@
    "microstructure" :> {"microstructure_scan"} @@
    "news-events" :> {"news_sentiment", "news_to_markets"} @@
    "prediction-journal" :> {"log_prediction", "prediction_journal"} @@
    "market-radar" :> {"market_radar"} @@
    "conditional-arb" :> {"scan_conditional_arb"} @@
    "alpha-research" :> {"relational_alpha", "research_alpha"} @@
    "lab-backtest" :> {"backfill_outcomes", "lab_backtest"} @@
    "paper-exec" :> {"paper_trade", "settle_and_reflect"}

KernelCapabilityNames(selected) == CORE \cup UNION {PACKS[p] : p \in selected}

RegistryFor(mode, selected) ==
    LET names == CASE mode = "ask" -> {"langgraph_answer"}
                   [] mode \in {"research", "lab"} -> {"data_agent", "backtest_agent"}
                   [] mode = "strategy" -> {"strategy"}
                   [] mode = "kernel" -> KernelCapabilityNames(selected)
                   [] mode = "demo" -> DOMAIN DemoRegistry
    IN Restrict(AllCapabilities, names)

(* The goal of a request, from the topics its words touch.                  *)
Goal(target, facts) == [target |-> target, facts |-> facts]

Recognize(words) ==
    CASE "backtest" \in words -> Goal("backtest_report", {"event"})
      [] words \cap {"backtest", "trade"} = {"trade"} -> Goal("decision", {"event"})
      [] words = {"evaluate"} -> Goal("evaluation", {})
      [] words = {} -> Goal("answer", {"question"})

GoalFor(mode, words) ==
    CASE mode = "strategy" -> Goal("decision", {"market"})
      [] mode \in {"research", "lab"} -> Goal("backtest_report", {"event"})
      [] OTHER -> Recognize(words)

-----------------------------------------------------------------------------
(* The planner and the loop.                                                *)

(* What the providers of the facts in need require themselves.              *)
Behind(need, registry, known) ==
    need \cup UNION {registry[c].pre \ known :
                        c \in {c \in DOMAIN registry : registry[c].effects \cap need # {}}}

NeededEffects(target, registry, known) ==
    LET back[n \in 0..Cardinality(DOMAIN registry)] ==
            IF n = 0 THEN {target} \ known ELSE Behind(back[n - 1], registry, known)
    IN back[Cardinality(DOMAIN registry)]

Runnable(registry, known) ==
    {c \in DOMAIN registry : registry[c].pre \subseteq known /\ ~(registry[c].effects \subseteq known)}

(* Two capabilities of one cost serve the same need only if both answer.    *)
Precedes(c, d) == c = "domain_answer" /\ d = "langgraph_answer"

CheapestOf(useful, registry) ==
    CHOOSE c \in useful : \A d \in useful \ {c} :
       \/ registry[c].cost < registry[d].cost
       \/ registry[c].cost = registry[d].cost /\ ~Precedes(d, c)

(* For comparison: whatever can run is useful.                              *)
AnyRunnable(target, registry, known) == Runnable(registry, known)

Useful(target, registry, known) ==
    {c \in Runnable(registry, known) :
        registry[c].effects \cap NeededEffects(target, registry, known) # {}}

(* pick: whether recommend_markets finds a market to hand on.               *)
Produced(c, pick) ==
    IF c = "recommend_markets" /\ ~pick THEN {"recommendation"}
    ELSE AllCapabilities[c].effects

(* What the loop knows and which capabilities it ran, after n turns.        *)
RunLoop(goal, registry, pick, maxSteps) ==
    LET turn[n \in 0..maxSteps] ==
            IF n = 0 THEN [known |-> goal.facts, path |-> <<>>]
            ELSE LET s == turn[n - 1]
                     useful == Useful(goal.target, registry, s.known)
                     c == CheapestOf(useful, registry)
                 IN IF goal.target \in s.known \/ useful = {} THEN s
                    ELSE [known |-> s.known \cup Produced(c, pick), path |-> Append(s.path, c)]
    IN turn[maxSteps]

=============================================================================
