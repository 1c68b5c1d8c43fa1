# MerakkuFund in TLA+

A model of the parts of `polyagents` in which money, evidence and the state of
objects can go wrong: TLA+ modules, TLC runs on small instances, and theorems
that TLAPS proves for every instance. Paths below are relative to
`src/polyagents/`.

## 1. The system

An LLM-driven research and paper-trading system for prediction markets
(Polymarket). A *token* is one side of a market (*condition*); a winning token
pays $1.

| Component | Its state | Its operations | Hard behaviour |
|---|---|---|---|
| **Portfolio and breaker** `execution/` | cash, positions (shares, average price), closed trades, loss streak | `apply_buy`, `apply_sell_close`, `CircuitBreaker.check`, `PaperExecutionClient.submit` | partial fills, merged buys; the caps are checked one order at a time |
| **Engine** `graph/orchestrator.py`, `mcp_server.py`, `feedback/` | a Portfolio in memory, a decision log on disk | `trade`, `paper_execute`, `settle` | a settlement step books, reflects (LLM), then writes; restart loses the memory and keeps the log |
| **Executor threads** `web/server.py` | the same Portfolio, no lock | every kernel request and tool call | check and submit, and the halves of `apply_buy`, interleave |
| **Decision** `agents/`, `dataflows/microstructure.py`, `mcp_servers/compliance.py` | none | book with fallback, calibration, edge, Kelly size, gates; the sizing tool and the compliance check | rounding, floors and gates act one after the other; the same mathematics in four places |
| **Kernel** `kernel/` | a context of facts, a budget, a trace | LLM controller, deterministic fallback loop, packs and modes | capabilities that fail after a side effect; an LLM that answers anything; what a mode loads and what a goal needs |
| **Kernel stream** `web/server.py` | an event queue between worker and event loop | SSE messages | order of events, a client that leaves |
| **Market desk** `kernel/wiring.py` | the process-wide market cache, the facts of a request | resolve, discover, recommend, analyse, paper-trade, log a prediction | a pick nobody asked for becomes the market of the request; an LLM picks the keywords; snapshots grow old |
| **Prediction journal** `storage/predictions.py` | logged probabilities | log, score | two passes score the same rows while markets close and are archived |
| **Supervisor** `orchestration/` | a blackboard, a trace | plan, LLM or callback routes; data, signal, risk, execution agents | agents raise, the book moves between turns, repeats replace one another's results |
| **Web** `web/`, `runtime/` | upload cache, jobs, sessions in memory; the audit table | chats by four routes, uploads, ingestion jobs, one executor, `engine()` | eviction while in use, clients that leave, audit rows that cannot be written, restart, an unlocked construction |
| **Object store** `objects.py`, `storage/objects_store.py` | object rows, promotion events | create, promote, evaluate | read, save and audit are transactions of their own |
| **Trade cache** `dataflows/volume.py`, `storage/db.py`, `dataflows/polymarket_client.py` | cached trades, a coverage watermark | load, page, insert, mark | pages shift, ties, failing pages, threads |
| **Evidence** `ingestion/`, `graph/data_collection.py`, `kernel/wiring.py`, `lab/` | the collections table; the Lab's runs, forecasts, evaluations | live collection, ingestion, backfill of labels, backtest | the future must not leak into a row; stale bundles written back; death between saves |
| **Replay, monitor, scanners** `lab/backtest.py`, `lab/monitor.py`, `kernel/wiring.py` | the candle store | replay of price history, dry-run scan, logical arbitrage | limits that failures must not use up; order of a listing; two copies of one loop |
| LLM, RAG, MCP side servers, HTML, scripts | -- | stateless or external | -- |

How they interact: the web process starts a chat, an upload or a job; a kernel
chat runs in an executor thread, and its capabilities call the desk, the Lab,
the stores and the engine's tools (`paper_trade` calls `paper_execute`); a
strategy run dispatches the agents of the supervisor in a thread of its own; the
host calls `trade` and `settle_markets` through MCP. The Portfolio and the log
are shared by all of them, the market cache by every thread of a process, the
SQL stores also between processes. What makes each component correct is the
list of properties in section 3; `PROJECT.json` lists the hazards they are aimed
at, and those no property covers.

## 2. Modules

| Module | Models | Correspondence |
|---|---|---|
| `Portfolio` | `execution/` | operators on a record: `ApplyBuy`, `ApplySellClose`, `Allowed`, `Submit`, `Execute` carry the code's names. Money is integer units, shares integer lots. A position is its shares and cost basis: `apply_buy`'s averaging keeps `shares * avg_price`, so the cost is what it preserves. Rounding is not modelled. |
| `RiskLedger` | what the breaker promises | abstract: cash, money at risk, number open, P&L, halted |
| `Engine` | `graph/orchestrator.py`, `mcp_server.py`, `feedback/` | `Trade`, `PaperExecute`, `PaperTrade`, and `settle()` cut at the network fetch, the close and the log write (`SettleBegin`, `SettleSkip`, `SettleClose`, `SettleUpdate`, `SettleAbort`); markets resolve, days turn and the process restarts at any moment |
| `EngineThreads` | the Portfolio under threads | each read and write another thread can see is a step; Position objects have an identity, as a thread may hold one that has left the dict |
| `Kernel`, `KernelStream` | `kernel/controller.py`, `core.py`, `run.py`; `_stream_kernel` | capabilities are constants (needs, effects, streaming, trading); the LLM is any choice. `KernelStream` composes the request with the SSE generator, whose summary may raise |
| `Capabilities` | `kernel/capabilities.py`, `packs.py`, `modes.py`, `intent.py`, the goal-directed part of `core.py` | the real table of capabilities, packs and modes as functions, and `RunLoop`, the deterministic loop, as a function of its goal |
| `Desk` | the market part of `kernel/wiring.py`, the cache of `mcp_server.py`, `storage/predictions.py` | one action per capability, guarded by `Capabilities`' table; the venue moves, archives and resolves between them; a request is a set of words, of which a market's text is searched for some or parts of them; a journal pass is cut at each fetch and each write |
| `Supervisor` | `orchestration/`, `/api/strategy` of `web/server.py` | `Begin`, `Route`, one action per agent, `Finish` in the worker; `Deliver` and `Leave` for the client; `DataAgent` and `SignalAgent` read the live book, `RiskAgent` decides with `Decision` |
| `Web` | `web/server.py`, `uploads.py`, `router.py`, `agent.py`, `runtime/session.py`, `engine()` | one action per step between two awaits of a chat and per step of a thread another can see; any row of the audit table may be refused, which `AgentSession.log` passes over |
| `Decision` | `agents/decision_agent.py`, `risk.py`, `calibration.py`, `dataflows/microstructure.py`, `size_position`, `verify_trade_math` | operators over exact integers: prices in ticks, edges in hundredths of a tick, money in cents. A book is the sets of its prices: of what the code sorts it reads the best only. `Collected` is a run of the collectors |
| `Listing` | `sorted` and list comprehensions | `Arranged`: the elements at some places in a strict order of places, each found by how many come before it; `Selected`: a list without some of its elements. `Replay` and `Scanners` use them where the code sorts and filters, so that one set of lemmas serves all |
| `Monitor` | `lab/monitor.py`, `list_active_markets` | EXTENDS `Decision`: `ListMarkets` (paging), `LiveRaw`, `Opportunity`, `Keep` (the loop of `scan()`), the ranking |
| `Scanners` | `_entity_implication`, `scan_conditional_arb`, `_match_consistency`, `market_radar` | claims as (subject, opponent, stage, price); `StageLevel` classifies as the keyword test does; scores and wins of a match; the radar's three lists |
| `ObjectStore` | `objects.py`, `objects_store.py` | one object and concurrent requests over it |
| `TradeCache` | `_load_trades`, `fetch_market_trades`, `insert_trades`, the watermark | each page and each transaction is a step |
| `Volume` | `enrich_candles_with_volume` | pure operators |
| `Replay` | `replay_builder.py`, `feature_builder.py`, `lab/backtest.py` (`_score_market`, `candles_for`, the loop over markets), the candle store, `backtest_matrix` | pure operators: history to windows to rows, and the replay with its store |
| `Algorithms` | calls of the pure modules | one call per behaviour over enumerated arguments |
| `Evidence` | the collections table and its writers and readers | uses `Replay` for the rows an ingestion rebuilds |
| `PortfolioProofs` | -- | lemmas about the operators of `Portfolio`: sets of units and their size, what a buy, a close and an order do to cash, exposure and caps |
| `EngineProofs`, `EngineThreadsProofs`, `DeskProofs`, `WebProofs` | -- | each EXTENDS the module it is named after: inductive invariants, lemmas, theorems |
| `AgentProofs`, `StoreProofs`, `LabProofs` | -- | the same for `KernelStream` and `Supervisor`, for `ObjectStore` and `TradeCache`, and for `Evidence` and `Algorithms` with the pure modules behind them |
| `MC*` | -- | constants and symmetry for TLC |

`Decision` is shared by `Supervisor`, `Monitor` and `Algorithms`, `Capabilities`
by `Desk` and `Algorithms`, `Replay` by `Evidence` and `Algorithms`, so what is
checked and proved of a pure call is about the definitions the state machines use.

Definitions marked "For comparison" stand next to the one they vary
(`EntryIgnoresOpenExposure`, `CloseBooksProceeds`, `KeepTried`, ...). No
specification uses them: each is a plausible bug, put in place of its neighbour
to show that a property would notice it (`PROJECT.json`, `mutants`).

## 3. Runs

### Engine
* **engine** -- two tokens of one market, prices 1 and 2 of payout 2, two
  records, one order outside the log, one death or failed write. Two records of
  one token and an unlogged order are the smallest case in which settlement
  attributes a position to the wrong record, and one fault can hit each gap.
  `Conservation`: cash and cost basis add up to bankroll and P&L.
  `CapsRespected`: exposure, number of positions and cash keep their limits in
  every state. `LogAccountsForBook`: without a fault every unit of booked P&L is
  in one record, was reported by one sell, or is about to be written.
  `ResolvedIsFinal`: no pass rewrites a resolved record.
  `CooldownNeverEnds`: after `max_consecutive_losses` with nothing open no
  operation changes the portfolio until a restart -- a trap rather than a
  cooldown. `ImplementsLedger`: every step is one of `RiskLedger`.
  `TradedPositionsSettle`: under `FairSpec`, a position a pending record names
  is closed once its market has resolved.
* **engine_held** (violated) -- `settle_markets` documents that it settles any
  held position; one opened by `paper_execute` has no record and stays.
* **threads** -- two threads, two tokens, five operations, four Position
  objects. Five operations are two buys to merge, two concurrent closes and one
  more order that a thread starts on the result. Races can lose a stake, but
  `NoMoneyFromNothing`, `NothingSoldTwice` and, with n threads, limits are passed
  by at most n - 1 orders (`OvershootBounded`).

*Fairness.* The host calls `settle_markets` again and again (`WF SettleBegin`);
a pass in progress runs on (`WF SettleSkip`, `SettleUpdate`); and Gamma does not
fail for ever on a market it has resolved, so a record that can be closed again
and again is closed (`SF SettleClose`). Nothing is assumed of trades, days,
deaths or resolutions.

### Kernel and market desk
* **kernel** -- a registry with one capability of each kind (resolver, trade,
  streaming answer, recommendation that may come without a pick, backtest), two
  goals, three steps of budget: enough for a failed trade, its repetition and an
  answer. `RepeatsOnlyAfterFailure`, `NoFallbackAfterTrade` (the fallback starts
  from scratch, so it must not follow a trade), `EndsAfterWork`, and
  `RequestEnds` under fairness of the worker thread and the event loop: threads
  are scheduled, LLM calls and capabilities have timeouts and end.
* **desk** -- two markets that share a word; each may be archived, and closed won,
  lost or void, at any time. One kind of session may trade: its request names both
  markets or neither, it makes three calls -- enough for discover, recommend and one
  use of the pick, or for an analysis and a trade -- and one price moves meanwhile.
  The other keeps a journal, has an entry or none, and makes one call: its request
  names nothing listed, with and without "liquid" in it, or is a token, or empty. The
  LLM answers with no keyword, with one of a market, or with a part of a word
  ("ran" of "france"), which the code's search finds too. Two passes of the journal
  overlap. `AnalysesAgree`: the ranking, the framework and the trade show one
  analysis of a token, at whatever price the cache has by then. `LoggedIsMeant`: a
  logged prediction is about a market that the request's words or the LLM's keywords
  find, about the token it is, or the request asked for any market; what the request
  merely fell back to is never logged. `JournalLeavesNothingDue`: no open row makes a
  pass miss a closed or archived one. `ScoresAreResults`: two passes agree with the
  result of every market that was not archived.

### Supervisor
* **supervisor** -- every named strategy and an unknown one by plan, the LLM
  router with its loop guard, and a callback nothing guards; with and without a
  market and a key; a book above, at and below the listed price, wide and narrow,
  or silent; beliefs that lead to a buy and to a sell. `MaxIters` is 4 where the
  code has 12: a plan has four turns, an LLM that may run each agent once
  (`MaxRepeat` 1, the code's value) has four at most, and only the callback is
  cut short, in the very way the budget cuts it. `OrderFollowsDecision`,
  `StreamEnds`.
* **supervisor_price** (violated) -- `agents/risk.py` documents that the book's mid
  is preferred when there is one; the risk agent decides at the listed price
  although the analysis behind its signal had read the book.

*Fairness.* The worker thread runs until it returns (`WF Work`): agents call
models and venues with timeouts. The event loop serves its queue (`WF Deliver`).
Nothing is assumed of the book, of the client, or of what is chosen.

### Web
* **web** -- two chats, one ingestion job, two files, a cache for one file (60 in
  the code: what matters is whether enough came after), two executor threads for
  three pieces of work, one restart, the devbox as general backend (of the two the
  one with more routes). `AttachmentsArrive`: unless `Capacity` files came after
  it. `TradesStay`: unless two first requests raced through `engine()`, every trade
  is in the portfolio that everybody looks at. `TrailIsComplete`: whatever row the
  audit table refuses, a trail starts with its start and is closed once, at its end,
  and what an ended session lacks of its start, its end and its trades is what the
  table refused -- the stream passes nothing over. One row may be refused, in a
  process without uploads (`LossesOrFiles`, a constraint: no trail mentions a file).
  `EverythingEnds`.

*Fairness.* The event loop serves every coroutine (`WF Handle(c)`), the executor
takes what is submitted (`WF Dispatch`) and runs it (`WF Thread(w)`): each piece of
work is bounded by budgets and timeouts. Clients may leave and the process may
die; nothing obliges anybody to ask.

### Object store
* **objects** -- two requests, one object, four audit rows, two deaths.
  `LineageExplainsState`: the lineage leads by legal edges from draft to the
  state, whatever overwrites what. `AuditCoversLineage`: of the promotions the
  lineage tells, at most one for each request that died is neither in the audit
  table nor about to be; two deaths tell one lost event for each from any number.
  `ArchivedForGood`: a copy read before another request archived the object is saved
  over it, so an archived object can come back; but only through such requests. Once
  none is under way it is archived for good.

### Data and evidence
* **algorithms** -- pure calls, over:
  * *histories*: all candle lists up to four entries in any order with ties and a
    mispriced one, and the ordered ones up to seven; two minimum lengths, both
    policies, three ends; news dated to the moment, the day, or not at all. Four is
    the first length at which a tie, its neighbours and a quartile differ; seven
    lets all three quartiles differ. `NothingFromTheFuture`, `OneRowPerMoment`.
    Which outcome of a market is labelled as won is a theorem only (`OneWinner`);
  * *replays*: two or three markets, settled and not, in order and not, over a
    store that is empty, has a part of the history, or other times; for one row or
    two: the runner, the kernel's copy of the loop, and the runner again over what
    it stored (`OneRowPerMoment`);
  * *volume*: candle times up to four in any order and trades on, before, between
    and after them (`VolumeGoesToItsCandle`);
  * *plans*: every mode, no pack, each of them and all of them, every goal that
    words give, and in kernel mode every single fact, with 12 turns as in the code
    (`LoopIsGoalDirected`: the goal is reached exactly if it can be derived, and no
    step of the path could be left out);
  * *decisions*: every belief and price on a grid of 50 ticks, on both sides of the
    liquidity and spread gates and of the APY floor, with the default thresholds
    except the spread: 1000 basis points instead of 300, as a book whose ticks are
    two cents is never narrower. `DecisionsAgree`: a better price never turns a
    trade down or makes it smaller, and `decide()`, the compliance check, the
    sizing tool, the monitor and the analysis graph agree;
  * *claims*: up to three about one team at four prices, with its own about a single
    match, or about two that meet: three is a pair and one between or before it;
    *matches*: up to two wins on one
    day or two and three scores named either way round (`ArbIsRiskFree`);
  * *listings*: up to three different markets out of twelve kinds (a buy, a hold, a
    sell, a settled, thin, failing, one-sided, silent book, ...), limits of one and
    two, with and without holds and thresholds; rows of a radar up to four, with
    both sides of a market and a market listed again; rankings, limits and failing pages up to six over pages
    of two (`ScansMissNothing`).
* **evidence** -- two markets that settle before, on or after their end date, two
  backfills, one backtest, one live row, one death. `PaperReadyRestsOnEvidence`,
  `SavedRunsAreComplete`, `LabelsAreFinal` (although backfill writes back bundles
  it read earlier), `OwnRowsAreClean`. `MinSamples` 2 and `Fixtures` 1 stand for
  30 and 4: only their order matters.
* **trade_cache** -- two threads, two calls, four trades with ties, pages of two,
  an offset cap at two, an ingestion, one failing page. An answer is complete up to
  the moment its fetch began (`AnswersCompleteUpToFetch`) unless a page failed or
  a cap was hit: the code marks the window as covered then as well. Four
  trades over pages of two give a shift, a tie across pages, a short last page and a
  fetch that is capped. What a third call finds after two that overlapped is left to
  the theorem, which has no bound on them.

`CHECK_DEADLOCK FALSE` is set where the system really may stop: a pure call has
returned, a bound of operations is used up, or a request has ended. Type
invariants are part of run `engine`; that of every other module is `TypeOK` (in
`KernelStream` `StreamTypeOK`, in `Supervisor` `SupervisorTyped`, in `TradeCache`
`TradesTyped`) and holds under the configuration of its run when added to it as an
INVARIANT; all but that of `Desk` are theorems.

## 4. Proofs

A run shows a property on the instance of section 3, a theorem shows it for every
value of the constants. `PROJECT.json` lists the theorems with the property each
states. In every proof module `Init => I` and `I /\ [Next]_vars => I'` are lemmas
with one step per action, and the theorem combines them with `I => P` by temporal
logic. TLC checked each property first, in the run named.

**Assumptions.** They are stated next to the constants, and TLC evaluates them on
every run. Besides types and markers that are no values of what they mark
(`None`, `NoRow`, `NoObject`, `NoPnl`, `Never`, `NoCapability`), they say:
* `PortfolioAssumption`, `EngineAssumption`: finitely many tokens, positive prices
  and payout, a market for each token;
* `ThreadsAssumption`: at least one thread, orders of at most `MaxSize`, and enough
  names for Position objects that a new one always exists (one per token and one
  per thread): Python never runs out of identities;
* `TradingAssumption`: all trading capabilities deliver the same facts. The
  registry has one, `paper_trade`;
* `GoalsAssumption`: no goal needs, however far behind it, what a trade delivers.
  `MCKernel` checks this of the whole table of capabilities and of every goal words
  lead to (`NoGoalNeedsATrade`). Without it `NoFallbackAfterTrade` is false: the
  fallback could reach the goal through a second trade;
* `DeskAssumption`: a payout of two ticks at least, so that a price lies between
  nothing and all, and every price that is quoted does; a search finds at least the
  words of a question. Of the LLM's keywords it says nothing;
* `EvidenceAssumption`: fewer fixtures than samples a report needs (4 and 30 in the
  code), which is why fixtures never make a report paper-ready, and a history of at
  least one candle behind a row;
* `MaxRepeat = 1`, a hypothesis of `OrdersFollowDecisions` alone: the LLM router runs
  no agent twice (`orchestration/llm_router.py:51`). With two a signal could be
  replaced behind a decision;
* `DecisionAssumption`: the cap on a stake is a whole number of cents, an edge at the
  floor is worth a cent, and over a month it pays the least APY. The defaults meet
  it (500 dollars, 5%, 6%, a quarter, 50% a year). Where it fails, rounding or the
  APY rule can part the compliance check from the sizing it verifies, and
  `DecisionsAgree` is false;
* `MonitorAssumption`, `VolumeAssumption`, `ReplayAssumption`, `ScannersAssumption`: a
  page, a bar, a day and a payout are positive, a tolerance is not negative;
* `AlgorithmsAssumption`: the types of the arguments -- candle lists of any length and
  order, any set of dated news, any ranking. Beyond types it says that a score names two
  different teams.

**Engine** (run `engine`). `IInv == TypeOK /\ Sound(portfolio) /\ PassInv`. `Sound` is
the type of the portfolio, the balance and the caps together: the exposure a buy
reaches is what the breaker computed only for a well-typed portfolio, and the
effect of an order on cash and exposure is stated once and serves both
`BooksBalance` and `CapsHold`. `PassInv` says that a pass only has pending records
left, which is what makes `ResolvedRecordsAreFinal` hold. `CooldownIsForEver` is an
action property from the same invariant, and `EngineImplementsLedger` the
refinement: `BuyIsEnter`, `CloseIsExit` and `LedgerStep` map each action to a step of
`RiskLedger` or a stutter. `LogExplainsBook` is a sum over a log that grows: the
sum is the number of units gained less that of units lost, each unit a pair of
a record and a number, so the change of one record changes two cardinalities and no
recursion is needed (`BalanceChange`, from `UnitsChange` of `PortfolioProofs`). It is
not inductive by itself: what a resolution adds to a record must not have
been there before, so `Waiting` says that a pending record has no P&L, and a pass
holds some only between its close and its update.

**Engine under threads** (run `threads`). `Shape` is the type, what a thread holds at
each step of its job, and ownership: a Position belongs to one key of the dict or
to one thread that popped it (`OneOwner`), and a thread that books a buy on a
Position does so for its owner's token (`OwnToken`). Ownership is what two closes
can never share, and from it follow `NothingIsSoldTwice`, that lost updates only
ever lose money (`NoMoneyIsMade`), and that n threads pass a limit by n - 1 orders
(`DamageIsBounded`): the last order that was checked saw all but those that other
threads were about to book.

**Kernel and stream** (run `kernel`). `TradeInv` counts: an order was booked by a run
the LLM decided on, which is in the path; when a trade has reported back, what any
trade would deliver is known, so none can be chosen again (`OnlyFailedTradesRepeat`).
The fallback starts only when nothing was decided on, and needs no trade
(`FallbackNeverFollowsTrade`); what a goal needs is the least closed set, so any
closed set around the targets bounds it. `ToolInv` says which tool is shown once all
that is queued has been, `EndInv` that the end is posted last: with both,
`StreamEndsLast`.

**Supervisor** (run `supervisor`). `SupervisorInv` says which turns are behind the
request: within the budget (`TraceInv`), by plan the plan as far as it got
(`PlanInv`), and, under a router with a guard, an agent at work that has not worked
before (`FirstTime`). Then whatever stands on the board was put there by an agent in
the trace and is what its successor read (`BoardInv`): a second signal is the one
way to break the chain from order to signal, and it would need a second turn
(`OrdersFollowDecisions`). That is a matter of the default `MaxRepeat = 1`, which the
theorem assumes; `SupervisorInv` itself says it under `Guarded` and holds of every
router, hence `SupervisorWellTyped`. `InboxInv` says of the stream that its end is the
last event the worker puts (`StreamNeverEndsEarly`).

**Desk and journal** (run `desk`). `MemoInv` says that what each fact of a
request shows of a token is what its memo holds, which makes `OneAnalysisPerToken`
hold though the LLM may answer anew. `LoggedIsMeant` is inductive as it stands once one
knows what a request resolves to: `MatchNamesIt`, of any keywords of the LLM, says that a
match has one of the words it was searched for. `ScoreInv` says a scored row of a market not archived has
the result of a closed one; `FoundInv` says it also of what a pass has fetched and not
yet marked, which is where a second pass or a price move could come between.
`DueInv` follows each row that was due when a pass began: still to do, or scored,
as long as no fetch failed.

**Object store** (run `objects`). `LineageExplainsState` has to hold of every copy a
request carries, not only of the row: whichever is saved last, the row stays
explained (`CopyInv`). `AuditInv` says that each edge of any of them is in the table,
is the one a request still has to write, or is one of a set with at most an edge for
each request that died. `ArchivedIsForGood` is an action property: nothing leads out
of archived, so what is read of a buried object is archived too (`BuriedStays`).

**Trade cache** (run `trade_cache`). `TradeInv` holds while no page has failed and no cap
was hit: what the watermark covers is in the table; a fetch that pages holds every
trade it began with that is newer than its offset (`FetchInv`), as trades published
meanwhile move the pages towards what it has; a fetch that ends has reached below
its window (`LastPageReaches`, of a page that is cut by position from trades in
order of time, ties in any order). A call that still has to write the watermark
carries a value that was true when read, and the table never loses a trade, so
whichever of two writes is last stays true (`AnswersAreComplete`).

**Web** (run `web`). For each chat `ChatOK` says where its work can be -- waiting, in
a thread, or over -- and which events it has posted by then; a chat is submitted at
most once (`Unique`). A trail is closed only by an event behind every trade
event, and every event is in it or among those refused (`Told`), hence
`TrailsAreComplete`. `OneEngine` is conditional on `~raced`: one build at a
time, no engine before it, every trade in the engine it left. `CacheInv` says that the
cache is the end of what was accepted, and only full once something was dropped
(`RecentAttachmentsArrive`). `PoolInv` counts the threads at work, which only `Dispatch`
increases and only below `Workers` (`TypeCorrect`).

**Evidence** (run `evidence`). `LabelsTrue` says that every copy of a label -- in a row,
in what a worker read and has still to write back, in a sample, in a saved
report -- is what its market settled to. That makes stale write-backs harmless
(`WrittenLabelsAreFinal`). `Saved` ties the place of a run to the parts it has saved
(`LookedUpRunsAreComplete`), and `ReportsTrue` counts the sample of a report
(`PaperReadyIsEarned`). `Clean` says of every row, wherever a copy of it is, that it is
well typed and declares no time or one no later than its prediction, so that no run
has a warning to save; of the rows an ingestion builds that is a lemma about `Replay`
(`ReportsAreClean`, and `EvidenceWellTyped` from the same invariant).

**Pure calls** (run `algorithms`). The invariant is short, `CallInv == Drawn /\ Answered`:
the arguments are from the sets given, and the answer is the operator's value. The
work is in what the operators compute, for lists of any length:
* *lists.* `Arranging`: what `Listing` arranges holds each place once and in order,
  from `RanksGrow` (an earlier place has fewer before it). `SelectedIs`,
  `SameArranged` and `NonePassedOver` are what callers cite: a filter keeps order, two
  orders that agree on the places give the same list, and every place is in it, so
  what a ranking cut short leaves out is not better than what it shows;
* *loops.* The code's loops are recursive functions over natural numbers, of the form
  `f[n] == IF n = 0 THEN start ELSE step(f[n - 1])`. That such a function exists is
  a lemma for each (`LoopExists`, `PagesExist`; `SumExists` for a fold), and `Inductive`
  is induction stated for a set of numbers instead of an operator, which the provers can
  instantiate: what a loop keeps is a set of numbers, closed under successor;
* *histories.* `HistoryOfMoment`: what a row is predicted from depends on its
  moment and not on the place its candle was listed at. Hence rows of one moment are one
  row (`MomentsHaveOneRow`, also when the runner replays what it has stored), and no
  window holds a candle or news later than its moment (`RowsKnowNoFuture`);
* *scans.* `NothingIsMissed` follows the loop of the monitor: a market it passed over was
  settled, thin, raised or below the threshold, and the limit was used up by markets
  that were kept. `FlaggedPairsAreFree` follows the two passes over claims, and for
  matches compares two sums over scores, what they brought and what they pay;
* *decisions.* `DecisionsAgreeAlways` compares products of integers: each of the four
  copies of the mathematics is put into the same inequality between edge, price
  and stake.

**Only model-checked.**
* Liveness (`TradedPositionsSettle`, `RequestEnds`, `StreamEnds`, `EverythingEnds`):
  liveness under fairness is outside the prover's reach.
* `LoopIsGoalDirected`: it is about one table, the code's registry, and the paths the
  loop takes through it in at most 12 turns. It holds of that table and not of every
  one, so a proof would be the enumeration that TLC makes; TLC makes all of it, for
  every goal, selection of packs and mode.
* `TypeOK` of `Desk`, of which the invariant has the part the proofs need. What is left,
  the facts of a request, rests on what its capabilities need and produce: entries of the
  table in `Capabilities`, which is put together with `@@` of module `TLC`, and that
  operator has no definition the provers may use.

## 5. What is not modelled, and observations

Left out: floating-point statistics, walk-forward folds, depth and imbalance of a
book, wording and prompts, the contents of reports, reads without state, static
declarations; the crypto, news and relational scanners, which read, rank and
render. `PROJECT.json` lists each
component with its reason. Six definitions state a promise of a comment that the
code does not keep: TLC finds each violated when it is added to the run of its
module, and none is in a run. They are `KernelStream.TradeIsReported`,
`Evidence.StrictRunsKnowAvailability`, `TradeCache.AnswersCoverTheWindow`,
`Desk.OnlyResolvedAreScored` (an archived market is scored at its price of the day),
`Desk.NoWrongMarket` ("liquid" anywhere in a request waives the guard against a
fallback pick) and `Web.TradesAreAudited` (a client that leaves takes the record of
a trade along, not the trade).

Seen while modelling:

*Money*
* two orders are checked before either is booked, so n threads pass the caps by up
  to n - 1 orders (`mcp_server.py:176`; `OvershootBounded` is what holds);
* a record resolved after its position went to an earlier record of the token
  has no return although it was filled (`graph/orchestrator.py:185`); of two
  overlapping passes the slower overwrites the P&L;
* `update()` of the log rewrites the file from a copy and truncates it first
  (`feedback/memory.py:97`);
* a market resolved 50/50 never shows a price of 0.99, so its position is held
  for ever (`graph/orchestrator.py:180`), while labels call it won
  (`ingestion/replay_builder.py:73`);
* a decided exit has size 0 and `paper_trade` drops it (`kernel/wiring.py:951`);
  `paper_trade` trades a fallback pick that `log_prediction` refuses;
* the live client posts a good-till-cancelled order, reports it as filled and books
  nothing (`execution/clients.py:139-153`).

*Requests*
* one streamed token suppresses the summary, so a trade of the same request is not
  reported (`web/server.py:1708`), and a summary that raises breaks the stream off;
  one whose client has left is not in the trail
  (`TradesAreAudited`); `AgentSession.log` swallows what the audit store raises
  (`TrailIsComplete` allows for it);
* a kernel chat under the Ask session can trade, though `web/agent.py:101-103`
  describes Ask as one that never does;
* without packs the kernel loads `paper-exec`, which `kernel/packs.py:84` calls
  gated; its registry has neither `data_agent` nor `backtest_agent`, which
  `kernel/run.py:64` and the offline goals count on;
* the kernel and devbox routes drop attachments, as eviction does, silently; an
  unreachable devbox is an error, not a fallback;
* a job is forgotten by a restart and polls answer 404; the classifier of a chat
  blocks the event loop; `engine()` has no lock;
* a strategy needs an Anthropic key even if another backend is configured, and by
  the LLM router a research request may run risk and execution agents.

*Markets*
* `_MARKETS` never drops a closed market and `_get_market` never refreshes one
  -- a request may be led to one that is no longer listed, though `resolve` documents
  live markets (`kernel/wiring.py:1161`);
* recommend ranks a sell above a hold, and the analysis of a market stays with the
  request after the pick has changed;
* the journal scores a market closed or archived at 0.5 or above as won
  (`OnlyResolvedAreScored`), and an overlapping pass may score it anew; a row whose market
  could not be looked up has no condition id and is never scored
  (`kernel/wiring.py:804`); "liquid" anywhere in a request makes the most active market
  its answer and is logged for it (`NoWrongMarket`), and a keyword is found in the
  middle of a word;
* "final" is found in "semifinal" and "quarterfinal", so these have its level, and
  "champion" or "win the toss" are of the highest (`kernel/wiring.py:336`);
  `_entity_implication` also takes in claims of opponents; a claim about a single
  match has the weakest level, so winning the tournament is taken to imply it, and a
  pair flagged for that is not free of risk (`ArbIsRiskFree` leaves such pairs out);
* `_match_consistency` keys winners by team alone, sums a result twice that is
  listed both ways round, and sees no winners of a match without a score; the radar
  takes an end right now for one that is far away;
* the monitor falls back to the listed spread where the graph and the sizing tool
  gate on none; `size_position` takes 0 days for half a day where the graph takes
  30; the compliance check compares unrounded caps and could flag a size that was
  rounded up, at a bankroll that is no round number; the monitor's "actionable"
  leaves sells out; `decide()` ignores a direction of "no".

*Evidence*
* strict runs fill in a missing `available_at`, which the contract says must fail;
* two calls of `mark_trade_coverage` that overlap can raise the watermark again
  (`storage/db.py:153`): trades that are there are fetched once more, and none is
  missed;
* a covered market is never fetched again, and a page that failed leaves a hole
  (`dataflows/volume.py:63`);
* a row's end is the market's `endDate`, not the time it closed
  (`ingestion/replay_builder.py:93`): a market settled early is "predicted" when
  its outcome is known;
* a backtest applies its row limit before its category filter
  (`lab/backtest.py:264`) and falls back to fixtures; a replay may take a short
  cached history for the whole one;
* `_winner_set_backtest` reads each member of a set at a moment of its own;
* `promotion_gate` replays at most 20 markets (`kernel/wiring.py:1051`) and its
  gates ask for 30 samples (`evaluation/report.py:61`): it never finds a strategy
  paper-ready;
* backfill reads the oldest rows only (`kernel/wiring.py:870`); the Lab's repository
  shares one connection between threads;
* a candle missing from a series shifts the volume of all that follow
  (`dataflows/volume.py:107`): `VolumeGoesToItsCandle` is about even spacing;
* an archived object is revived by a stale copy (`storage/objects_store.py:75`),
  within the limits of `ArchivedForGood`.

Coarser than the code:
* `EngineThreads.BookClose` takes the two last writes of a close, to `cash` and to
  `closed`, as one step, and the breaker reads the book in one: a check that sees
  the one write and not the other is not modelled;
* `Replay.ScoreIndex` has `predict_frac` at its default of 0.5
  (`lab/backtest.py:74`); a browser may send another one (`web/server.py:657`);
* `Scanners.MarketRadar` has one length for the radar's three lists, which the code
  cuts at 8, 8 and 6: each list is filled by itself.

## 6. Plan

Done: all modules of section 2, and a theorem for every safety property that a run
checks but `LoopIsGoalDirected`. Next:

1. Theorems: `TypeOK` of Desk, over a table a prover can read, and that the
   loop of `Capabilities` never runs a step it does not need, for every registry.
2. `DecisionLog`: the file of `MemoryStore` under concurrent writers, composed with
   two settlement passes.
3. An abstract agent loop that Kernel and Supervisor both implement.
4. Walk-forward folds and the winner sets of the relational backtest.
