------------------------------- MODULE Evidence -------------------------------
(***************************************************************************)
(* The Lab's evidence: snapshots of markets collected live                 *)
(* (graph/data_collection.py) or rebuilt from settled markets              *)
(* (ingestion/polymarket_ingest.py), labelled by backfill_outcomes         *)
(* (kernel/wiring.py), and read by BacktestRunner.run (lab/backtest.py),   *)
(* which saves forecasts, a report and a run in three transactions         *)
(* (lab/repository.py).  All of them run on executor threads of one        *)
(* process over one database, and the process may die.                     *)
(*                                                                         *)
(* A live row is keyed by the time of collection with microseconds, a      *)
(* rebuilt one by a candle's time written with a Z: the two never share a  *)
(* key, so the origin is part of it.                                       *)
(***************************************************************************)
EXTENDS Replay

CONSTANTS Tokens, Categories, CategoryOf, All, \* tokens and their categories
          EndDate,      \* when a market says it ends
          MinHistory,   \* candles a rebuilt row needs
          Runs,         \* backtests
          Requests,     \* what they ask: [strict, category, window, limit]
          Workers,      \* calls of backfill_outcomes
          BackfillLimit,\* rows one of them reads
          MinSamples,   \* samples an adequate report needs (30)
          Fixtures,     \* built-in forecasts (4)
          NoValue,
          MaxTime, MaxLive, MaxDeaths \* bounds: clock, live rows, deaths

ASSUME EvidenceAssumption ==
    /\ CategoryOf \in [Tokens -> Categories] /\ All \notin Categories
    /\ EndDate \in [Tokens -> Nat]
    /\ \A q \in Requests : q.strict \in BOOLEAN /\ q.category \in Categories \cup {All}
                           /\ q.limit \in Nat \ {0} /\ q.window \subseteq Nat
    /\ MinHistory \in Nat \ {0}
    /\ {BackfillLimit, MinSamples, Fixtures, MaxTime, MaxLive, MaxDeaths} \subseteq Nat
    /\ Fixtures < MinSamples

VARIABLES now,       \* the clock
          settled,   \* [outcome, at] of a market once it has settled
          rows,      \* the collections table
          backfill,  \* what a worker still has to write, or NoValue
          run,       \* a backtest in progress: its place, request and sample
          forecasts, evaluations, runRows, \* the Lab's three tables
          deaths

vars == <<now, settled, rows, backfill, run, forecasts, evaluations, runRows, deaths>>

Key(token, asOf, origin) == [token |-> token, asOf |-> asOf, origin |-> origin]

Keys == [token : Tokens, asOf : 0..MaxTime, origin : {"live", "rebuilt"}]

Row(label, declared) == [label |-> label, declared |-> declared]

RowsOf(origin) == {k \in DOMAIN rows : k.origin = origin}

TypeOK ==
    /\ now \in 0..MaxTime
    /\ DOMAIN rows \subseteq Keys
    /\ \A k \in DOMAIN rows : /\ rows[k].label \in {0, 1, NoValue}
                              /\ rows[k].declared \in 0..MaxTime \cup {NoValue}
    /\ \A t \in Tokens : settled[t] # NoValue => settled[t].outcome \in {0, 1}
    /\ \A r \in Runs : run[r].at \in {"new", "read", "forecasts", "evaluated", "over"}
    /\ DOMAIN evaluations \subseteq Runs
    /\ runRows \subseteq Runs

-----------------------------------------------------------------------------
Idle == [at |-> "new"]

Init ==
    /\ now = 0
    /\ settled = [t \in Tokens |-> NoValue]
    /\ rows = <<>>
    /\ backfill = [w \in Workers |-> NoValue]
    /\ run = [r \in Runs |-> Idle]
    /\ forecasts = [r \in Runs |-> {}]
    /\ evaluations = <<>>
    /\ runRows = {}
    /\ deaths = 0

Tick ==
    /\ now < MaxTime
    /\ now' = now + 1
    /\ UNCHANGED <<settled, rows, backfill, run, forecasts, evaluations, runRows, deaths>>

(* The venue settles a market, on its end date, before or after it.         *)
Settle(t, outcome) ==
    /\ settled[t] = NoValue
    /\ settled' = [settled EXCEPT ![t] = [outcome |-> outcome, at |-> now]]
    /\ UNCHANGED <<now, rows, backfill, run, forecasts, evaluations, runRows, deaths>>

-----------------------------------------------------------------------------
(* The collections table.                                                   *)

Upserted(k, row) == [l \in DOMAIN rows \cup {k} |-> IF l = k THEN row ELSE rows[l]]

(* The features collector ends a live collection: no label, and no          *)
(* available_at_max in the bundle.  The market may have settled meanwhile.  *)
RecordCollection(t) ==
    /\ Cardinality(RowsOf("live")) < MaxLive
    /\ Key(t, now, "live") \notin DOMAIN rows
    /\ rows' = Upserted(Key(t, now, "live"), Row(NoValue, NoValue))
    /\ UNCHANGED <<now, settled, backfill, run, forecasts, evaluations, runRows, deaths>>

(* What the ingestor rebuilds from a settled market's price history: one    *)
(* candle per unit of time until it settled.                                *)
Rebuilt(t) ==
    BuildHistoricalCollections(
        [candles |-> [i \in 1..(settled[t].at + 1) |-> Candle(i - 1, 0)],
         resolution |-> EndDate[t], trades |-> {}, news |-> {}],
        MinHistory, "multi")

(* For comparison: a rebuilt row without its label.                         *)
IngestUnlabelled(t) ==
    /\ settled[t] # NoValue
    /\ \E c \in Rebuilt(t) :
          rows' = Upserted(Key(t, c.asOf, "rebuilt"), Row(NoValue, c.availableAtMax))
    /\ UNCHANGED <<now, settled, backfill, run, forecasts, evaluations, runRows, deaths>>

(* For comparison: a row that declares the time it was written.             *)
IngestAtCollectionTime(t) ==
    /\ settled[t] # NoValue
    /\ \E c \in Rebuilt(t) :
          rows' = Upserted(Key(t, c.asOf, "rebuilt"), Row(settled[t].outcome, now))
    /\ UNCHANGED <<now, settled, backfill, run, forecasts, evaluations, runRows, deaths>>

(* One row of an ingestion; a rerun writes it again.                        *)
Ingest(t) ==
    /\ settled[t] # NoValue
    /\ \E c \in Rebuilt(t) :
          rows' = Upserted(Key(t, c.asOf, "rebuilt"), Row(settled[t].outcome, c.availableAtMax))
    /\ UNCHANGED <<now, settled, backfill, run, forecasts, evaluations, runRows, deaths>>

(* The oldest rows of a window up to a limit; rows of one time come in any  *)
(* order.                                                                   *)
FetchCollections(window, limit) ==
    LET inside == {k \in DOMAIN rows : k.asOf \in window}
    IN {S \in SUBSET inside :
           /\ Cardinality(S) = Min({limit, Cardinality(inside)})
           /\ \A k \in S, l \in inside \ S : k.asOf <= l.asOf}

-----------------------------------------------------------------------------
(* backfill_outcomes: read the settled markets, as many as the API returns, *)
(* and the oldest rows, then write the unlabelled ones of settled markets   *)
(* back one by one, each with the bundle that was read.                     *)

(* For comparison: labels of markets that are open.                         *)
BackfillFromOpenMarkets(w) ==
    /\ backfill[w] = NoValue
    /\ \E fetched \in FetchCollections(0..now, BackfillLimit) :
          backfill' = [backfill EXCEPT ![w] =
              {[key |-> k, row |-> Row(IF settled[k.token] = NoValue THEN 1 ELSE settled[k.token].outcome,
                                       rows[k].declared)] :
                   k \in {k \in fetched : rows[k].label = NoValue}}]
    /\ UNCHANGED <<now, settled, rows, run, forecasts, evaluations, runRows, deaths>>

BackfillRead(w) ==
    /\ backfill[w] = NoValue
    /\ \E fetched \in FetchCollections(0..now, BackfillLimit),
          resolved \in SUBSET {t \in Tokens : settled[t] # NoValue} :
          backfill' = [backfill EXCEPT ![w] =
              {[key |-> k, row |-> Row(settled[k.token].outcome, rows[k].declared)] :
                   k \in {k \in fetched : rows[k].label = NoValue /\ k.token \in resolved}}]
    /\ UNCHANGED <<now, settled, rows, run, forecasts, evaluations, runRows, deaths>>

BackfillWrite(w) ==
    /\ backfill[w] # NoValue
    /\ \E write \in backfill[w] :
          /\ rows' = Upserted(write.key, write.row)
          /\ backfill' = [backfill EXCEPT ![w] = @ \ {write}]
    /\ UNCHANGED <<now, settled, run, forecasts, evaluations, runRows, deaths>>

BackfillEnd(w) ==
    /\ backfill[w] = {}
    /\ backfill' = [backfill EXCEPT ![w] = NoValue]
    /\ UNCHANGED <<now, settled, rows, run, forecasts, evaluations, runRows, deaths>>

-----------------------------------------------------------------------------
(* BacktestRunner.run.                                                      *)

(* A missing available_at_max counts as the time of the prediction.         *)
AvailableAt(k) == IF rows[k].declared = NoValue THEN k.asOf ELSE rows[k].declared

(* assert_point_in_time on the one feature of a row.                        *)
PitWarning(k) == AvailableAt(k) > k.asOf

InCategory(k, request) == request.category = All \/ CategoryOf[k.token] = request.category

Usable(k, request) == InCategory(k, request) /\ rows[k].label # NoValue

Eligible(k, request) == Usable(k, request) /\ ~(request.strict /\ PitWarning(k))

Forecast(k) == [key |-> k, outcome |-> rows[k].label, declared |-> rows[k].declared]

(* The rows are read in one query, and the category, the labels and the     *)
(* point-in-time check are applied to what the limit left.                  *)
ReadEvidence(r, request) ==
    /\ run[r].at = "new"
    /\ \E fetched \in FetchCollections(request.window, request.limit) :
          run' = [run EXCEPT ![r] =
              [at |-> "read", request |-> request,
               sample |-> {Forecast(k) : k \in {k \in fetched : Eligible(k, request)}},
               warnings |-> {k \in fetched : Usable(k, request) /\ PitWarning(k)}]]
    /\ UNCHANGED <<now, settled, rows, backfill, forecasts, evaluations, runRows, deaths>>

(* Without a forecast the report is built on fixtures, free of warnings.    *)
IsFixture(r) == run[r].sample = {}

SampleSize(r) == IF IsFixture(r) THEN Min({Fixtures, run[r].request.limit})
                 ELSE Cardinality(run[r].sample)

Warnings(r) == IF IsFixture(r) THEN {} ELSE run[r].warnings

(* promotion_gates, for any skill and calibration of the forecasts.         *)

PaperReady(r, beatsMarket, ecePass) ==
    /\ SampleSize(r) >= MinSamples
    /\ beatsMarket /\ ecePass
    /\ Warnings(r) = {}

Report(r, paperReady) ==
    [request |-> run[r].request, sample |-> run[r].sample, n |-> SampleSize(r),
     warnings |-> Warnings(r), paperReady |-> paperReady]

SaveForecasts(r) ==
    /\ run[r].at = "read"
    /\ forecasts' = [forecasts EXCEPT ![r] = 1..SampleSize(r)]
    /\ run' = [run EXCEPT ![r].at = "forecasts"]
    /\ UNCHANGED <<now, settled, rows, backfill, evaluations, runRows, deaths>>

SaveEvaluation(r) ==
    /\ run[r].at = "forecasts"
    /\ \E beatsMarket, ecePass \in BOOLEAN :
          evaluations' = [q \in DOMAIN evaluations \cup {r} |->
              IF q = r THEN Report(r, PaperReady(r, beatsMarket, ecePass)) ELSE evaluations[q]]
    /\ run' = [run EXCEPT ![r].at = "evaluated"]
    /\ UNCHANGED <<now, settled, rows, backfill, forecasts, runRows, deaths>>

(* For comparison: the run is saved before its parts.                       *)
SaveRunAtOnce(r) ==
    /\ run[r].at \in {"forecasts", "evaluated"}
    /\ runRows' = runRows \cup {r}
    /\ run' = [run EXCEPT ![r].at = "over"]
    /\ UNCHANGED <<now, settled, rows, backfill, forecasts, evaluations, deaths>>

SaveBacktestRun(r) ==
    /\ run[r].at = "evaluated"
    /\ runRows' = runRows \cup {r}
    /\ run' = [run EXCEPT ![r] = [at |-> "over"]]
    /\ UNCHANGED <<now, settled, rows, backfill, forecasts, evaluations, deaths>>

(* The process dies: what was committed stays.                              *)
Die ==
    /\ deaths < MaxDeaths
    /\ deaths' = deaths + 1
    /\ backfill' = [w \in Workers |-> NoValue]
    /\ run' = [r \in Runs |-> IF run[r].at = "new" THEN Idle ELSE [at |-> "over"]]
    /\ UNCHANGED <<now, settled, rows, forecasts, evaluations, runRows>>

-----------------------------------------------------------------------------
Next ==
    \/ Tick \/ Die
    \/ \E t \in Tokens : RecordCollection(t) \/ Ingest(t) \/ (\E o \in {0, 1} : Settle(t, o))
    \/ \E w \in Workers : BackfillRead(w) \/ BackfillWrite(w) \/ BackfillEnd(w)
    \/ \E r \in Runs :
          \/ \E q \in Requests : ReadEvidence(r, q)
          \/ SaveForecasts(r) \/ SaveEvaluation(r) \/ SaveBacktestRun(r)

Spec == Init /\ [][Next]_vars

-----------------------------------------------------------------------------
Reports == {evaluations[r] : r \in DOMAIN evaluations}

(* A report that says paper-ready rests on enough real rows, each labelled  *)
(* with what its market settled to: not on fixtures, not on a market that   *)
(* was still open when a thread labelled it (lab/backtest.py:175-199,       *)
(* evaluation/report.py:86-95, kernel/wiring.py:859-893).                   *)
PaperReadyRestsOnEvidence ==
    \A e \in Reports : e.paperReady =>
        /\ Cardinality(e.sample) >= MinSamples
        /\ \A f \in e.sample : /\ settled[f.key.token] # NoValue
                               /\ f.outcome = settled[f.key.token].outcome

(* Whatever was running when the process died, a run that can be looked up  *)
(* has its report and all the forecasts the report counts                   *)
(* (lab/backtest.py:243-254).                                               *)
SavedRunsAreComplete ==
    \A r \in runRows : /\ r \in DOMAIN evaluations
                       /\ Cardinality(forecasts[r]) = evaluations[r].n

(* A label, once written, is never lost or changed, although backfill       *)
(* writes back whole bundles it read earlier while ingestion and other      *)
(* threads write the same table (kernel/wiring.py:870-885,                  *)
(* ingestion/polymarket_ingest.py:92-104).                                  *)
LabelsAreFinal ==
    [][\A k \in DOMAIN rows : rows[k].label # NoValue =>
          k \in DOMAIN rows' /\ rows'[k].label = rows[k].label]_vars

(* No row the program itself writes ever raises a point-in-time warning:    *)
(* ingestion declares a time before the prediction, and a live row has no   *)
(* outcome until later (replay_builder.py:278-305, lab/backtest.py:285).    *)
OwnRowsAreClean == \A e \in Reports : e.warnings = {}

(* docs/product/lab-module-api-data-contract.md:181: "Missing available_at  *)
(* values fail in strict mode."                                             *)
StrictRunsKnowAvailability ==
    \A e \in Reports : e.request.strict => \A f \in e.sample : f.declared # NoValue

=============================================================================
