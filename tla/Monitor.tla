------------------------------- MODULE Monitor -------------------------------
(***************************************************************************)
(* The dry-run monitor of the Lab (lab/monitor.py), and the listing of the *)
(* venue (dataflows/polymarket_client.py:90): the listed markets, in       *)
(* order, are filtered, read, scored with decide() and kept until there    *)
(* are enough; those kept are ranked.  A listed market has what the venue  *)
(* says of it, what the venue answers about its book, what the strategy    *)
(* predicts, and whether reading or scoring it raises.                     *)
(***************************************************************************)
EXTENDS Decision

CONSTANTS GammaPage   \* markets on a page of the venue's listing

ASSUME MonitorAssumption == GammaPage \in Nat \ {0}

(* list_active_markets, list_resolved_markets: pages of a ranking until     *)
(* there are enough markets; a page that is short or empty, or fails, is    *)
(* the last.                                                                *)
ListMarkets(ranking, limit, failing) ==
    LET Page(k, left) ==
            SubSeq(ranking, (k - 1) * GammaPage + 1,
                   Min({(k - 1) * GammaPage + Min({GammaPage, left}), Len(ranking)}))
        got[k \in 0..(Len(ranking) + 1)] ==
            IF k = 0 THEN [out |-> <<>>, more |-> TRUE]
            ELSE LET before == got[k - 1]
                     left == limit - Len(before.out)
                     page == IF ~before.more \/ left <= 0 \/ k = failing THEN <<>> ELSE Page(k, left)
                 IN [out |-> before.out \o page, more |-> Len(page) = GammaPage]
    IN got[Len(ranking) + 1].out

(* MonitorRequest; a least edge in ticks or None.                           *)
Request(limit, minVolume, minEdge, holds) ==
    [limit |-> limit, minVolume |-> minVolume, minEdge |-> minEdge, holds |-> holds]

(* What Ask asks for: trades, any volume and any edge.                      *)
AskRequest(limit) == Request(limit, 0, None, FALSE)

(* build_live_raw: the book's mid, or the price it was listed with; the     *)
(* book's spread, or if there is no book the listed one.                    *)
LiveRaw(market) ==
    LET book == FetchOrderBook(market.venue)
        report == BookReport(book)
    IN [price |-> IF report.mid = None THEN market.price ELSE report.mid,
        spread |-> IF book = None /\ market.listedSpread # 0 THEN market.listedSpread
                   ELSE report.spread]

(* score_market_opportunity.                                                *)
Opportunity(market) ==
    LET live == LiveRaw(market)
    IN [market |-> market, edge |-> Edge(market.p, live.price),
        decision |-> Decide(Lean(market.p, live.price), live.price, market.liquidity,
                            live.spread, DaysLeft(market))]

Readable(market, request) ==
    market.price \in 1..(Unit - 1) /\ market.volume >= request.minVolume

AtLeast(edge, least) == least = None \/ edge >= 100 * least \/ -edge >= 100 * least

Wanted(opportunity, request) ==
    /\ AtLeast(opportunity.edge, request.minEdge)
    /\ opportunity.decision.action = "hold" => request.holds

(* For comparison: the limit counts the markets tried.                      *)
KeepTried(markets, request) ==
    LET tried == SelectSeq(markets, LAMBDA m : Readable(m, request))
    IN SelectSeq(SubSeq(tried, 1, Min({request.limit, Len(tried)})),
                 LAMBDA m : ~m.raises /\ Wanted(Opportunity(m), request))

(* The loop of scan(): the markets kept, until there are enough.            *)
Keep(markets, request) ==
    LET kept[k \in 0..Len(markets)] ==
            IF k = 0 THEN <<>>
            ELSE LET m == markets[k]
                 IN IF /\ Len(kept[k - 1]) < request.limit
                       /\ Readable(m, request) /\ ~m.raises
                       /\ Wanted(Opportunity(m), request)
                    THEN Append(kept[k - 1], m) ELSE kept[k - 1]
    IN kept[Len(markets)]

(* Buys first, then by edge; the APY, which breaks ties, is left out.       *)
Outranks(o, q) ==
    \/ o.decision.action = "buy" /\ q.decision.action # "buy"
    \/ (o.decision.action = "buy") = (q.decision.action = "buy") /\ o.edge > q.edge

ScanMonitor(markets, request) ==
    LET opportunities == {Opportunity(m) : m \in ToSet(Keep(markets, request))}
    IN [opportunities |-> opportunities,
        best |-> {o \in opportunities : \A q \in opportunities : ~Outranks(q, o)}]

=============================================================================
