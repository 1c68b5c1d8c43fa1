------------------------------ MODULE TradeCache ------------------------------
(***************************************************************************)
(* The cache of a market's public trades (dataflows/volume.py,             *)
(* storage/db.py) and the paging client behind it                          *)
(* (dataflows/polymarket_client.py).  Executor threads load trades for     *)
(* their windows while new ones are published; a page may fail.            *)
(*                                                                         *)
(* Trades are numbered in the order they happen, time[i] is when trade i   *)
(* did; /trades lists them newest first.                                   *)
(***************************************************************************)
EXTENDS Integers, Sequences, FiniteSetsExt

CONSTANTS Callers,     \* threads
          Windows,     \* the lower ends callers ask for
          PageSize,    \* trades on a page (500)
          MaxOffset,   \* the largest offset the client asks for (3000)
          MaxPages,    \* pages of one fetch (25)
          Never,       \* no coverage recorded
          MaxTrades, MaxTime, MaxCalls, MaxFailures \* bounds

ASSUME TradeCacheAssumption ==
    /\ Windows \subseteq Nat /\ Never \notin Nat
    /\ {PageSize, MaxPages} \subseteq Nat \ {0}
    /\ {MaxOffset, MaxTrades, MaxTime, MaxCalls, MaxFailures} \subseteq Nat

VARIABLES time,     \* the trades published so far
          now,
          cache,    \* the trades table
          coverage, \* the watermark; since: trades published when its fetch began
          caller,   \* the calls of _load_trades in progress; covered: what was
                    \* published when the fetch began that the call relies on
          answer,   \* history: what each caller got last
          calls,    \* calls so far
          failures, \* pages that failed so far
          capped    \* history: a fetch stopped at the client's page or offset cap

tradeVars == <<time, now, cache, coverage, caller, answer, calls, failures, capped>>

Trades == 1..Len(time)

NoCall == [at |-> "idle"]
NoAnswer == [from |-> 0, trades |-> {}, began |-> 0, covered |-> 0]
NoCoverage == [from |-> Never, since |-> 0]

TradesTyped ==
    /\ cache \subseteq Trades
    /\ coverage.from \in Windows \cup {Never} /\ coverage.since \in 0..Len(time)
    /\ \A c \in Callers :
          /\ caller[c].at \in {"idle", "paging", "inserting", "marking", "writing", "answering"}
          /\ answer[c].trades \subseteq Trades

TradeInit ==
    /\ time = <<>> /\ now = 0
    /\ cache = {} /\ coverage = NoCoverage
    /\ caller = [c \in Callers |-> NoCall]
    /\ answer = [c \in Callers |-> NoAnswer]
    /\ calls = 0 /\ failures = 0 /\ capped = FALSE

(* The venue: trades happen, time passes.                                   *)
Publish ==
    /\ Len(time) < MaxTrades
    /\ time' = Append(time, now)
    /\ UNCHANGED <<now, cache, coverage, caller, answer, calls, failures, capped>>

Tick ==
    /\ now < MaxTime
    /\ now' = now + 1
    /\ UNCHANGED <<time, cache, coverage, caller, answer, calls, failures, capped>>

-----------------------------------------------------------------------------
At(c, place) == caller' = [caller EXCEPT ![c].at = place]

(* _load_trades: fetch if the watermark does not reach down to the window.  *)
LoadTrades(c, from) ==
    /\ caller[c].at = "idle"
    /\ calls < MaxCalls
    /\ calls' = calls + 1
    /\ LET gap == coverage.from = Never \/ coverage.from > from
       IN caller' = [caller EXCEPT ![c] =
             [at |-> IF gap THEN "paging" ELSE "answering",
              covered |-> IF gap THEN Len(time) ELSE coverage.since,
              from |-> from, began |-> Len(time), offset |-> 0, pages |-> 0, out |-> {},
              seen |-> NoCoverage]]
    /\ UNCHANGED <<time, now, cache, coverage, answer, failures, capped>>

(* A page: the trades at an offset from the newest.                         *)
Page(offset) == {i \in Trades : i <= Len(time) - offset /\ i > Len(time) - offset - PageSize}

AtCap(c) == caller[c].offset > MaxOffset \/ caller[c].pages = MaxPages

(* Whether a page is the last one needed.  Trades as old as the window's    *)
(* end may go on behind a page that ends with one.                          *)
ReachesBelow(page, from) == time[Min(page)] < from

FetchPage(c) ==
    /\ caller[c].at = "paging" /\ ~AtCap(c)
    /\ LET page == Page(caller[c].offset)
           over == page = {} \/ ReachesBelow(page, caller[c].from) \/ Cardinality(page) < PageSize
       IN caller' = [caller EXCEPT ![c].out = @ \cup page,
                                   ![c].pages = @ + 1,
                                   ![c].offset = IF over THEN @ ELSE @ + PageSize,
                                   ![c].at = IF over THEN "inserting" ELSE "paging"]
    /\ UNCHANGED <<time, now, cache, coverage, answer, calls, failures, capped>>

(* A failed request ends the fetch like an empty page.                      *)
PageFails(c) ==
    /\ caller[c].at = "paging" /\ ~AtCap(c)
    /\ failures < MaxFailures
    /\ failures' = failures + 1
    /\ At(c, "inserting")
    /\ UNCHANGED <<time, now, cache, coverage, answer, calls, capped>>

FetchCapped(c) ==
    /\ caller[c].at = "paging" /\ AtCap(c)
    /\ capped' = TRUE
    /\ At(c, "inserting")
    /\ UNCHANGED <<time, now, cache, coverage, answer, calls, failures>>

InsertTrades(c) ==
    /\ caller[c].at = "inserting"
    /\ cache' = cache \cup caller[c].out
    /\ At(c, "marking")
    /\ UNCHANGED <<time, now, coverage, answer, calls, failures, capped>>

(* mark_trade_coverage: read the watermark, then lower it, in two           *)
(* transactions.                                                            *)
ReadCoverage(c) ==
    /\ caller[c].at = "marking"
    /\ caller' = [caller EXCEPT ![c].seen = coverage, ![c].at = "writing"]
    /\ UNCHANGED <<time, now, cache, coverage, answer, calls, failures, capped>>

(* For comparison: a watermark below what was fetched.                      *)
MarkBelowWindow(c) ==
    /\ caller[c].at = "writing"
    /\ coverage' = [from |-> caller[c].from - 1, since |-> caller[c].began]
    /\ At(c, "answering")
    /\ UNCHANGED <<time, now, cache, answer, calls, failures, capped>>

WriteCoverage(c) ==
    /\ caller[c].at = "writing"
    /\ coverage' = IF caller[c].seen.from # Never /\ caller[c].seen.from <= caller[c].from
                   THEN caller[c].seen
                   ELSE [from |-> caller[c].from, since |-> caller[c].began]
    /\ At(c, "answering")
    /\ UNCHANGED <<time, now, cache, answer, calls, failures, capped>>

(* fetch_trades: what the cache holds of the window.                        *)
FetchTrades(c) ==
    /\ caller[c].at = "answering"
    /\ answer' = [answer EXCEPT ![c] =
          [from |-> caller[c].from, began |-> caller[c].began, covered |-> caller[c].covered,
           trades |-> {i \in cache : time[i] >= caller[c].from}]]
    /\ caller' = [caller EXCEPT ![c] = NoCall]
    /\ UNCHANGED <<time, now, cache, coverage, calls, failures, capped>>

(* An ingestion fetches without a window and inserts, leaving the watermark *)
(* alone: the pages from the newest down to where its paging ended.         *)
IngestTrades ==
    /\ \E pages \in 1..MaxPages :
          cache' = cache \cup {i \in Trades : i > Len(time) - pages * PageSize}
    /\ UNCHANGED <<time, now, coverage, caller, answer, calls, failures, capped>>

-----------------------------------------------------------------------------
TradeNext ==
    \/ Publish \/ Tick \/ IngestTrades
    \/ \E c \in Callers :
          \/ \E from \in Windows : LoadTrades(c, from)
          \/ FetchPage(c) \/ PageFails(c) \/ FetchCapped(c)
          \/ InsertTrades(c) \/ ReadCoverage(c) \/ WriteCoverage(c) \/ FetchTrades(c)

TradeSpec == TradeInit /\ [][TradeNext]_tradeVars

-----------------------------------------------------------------------------
Window(from, n) == {i \in 1..n : time[i] >= from}

(* An answer lacks no trade of its window that had been published when the  *)
(* fetch began that it relies on, its own or the one behind the watermark   *)
(* it was shown, whatever other calls did to the cache and the watermark    *)
(* meanwhile: what it lacks is lost to failed pages, to caps, or to the age *)
(* of that fetch (volume.py:54-68).                                         *)
AnswersCompleteUpToFetch ==
    (failures = 0 /\ ~capped) =>
        \A c \in Callers : Window(answer[c].from, answer[c].covered) \subseteq answer[c].trades

(* What _load_trades promises (volume.py:55): trades covering the window up *)
(* to now, from the cache and a fetch of the gap.                           *)
AnswersCoverTheWindow ==
    (failures = 0 /\ ~capped) =>
        \A c \in Callers : Window(answer[c].from, answer[c].began) \subseteq answer[c].trades

=============================================================================
