--------------------------------- MODULE Desk ---------------------------------
(***************************************************************************)
(* What kernel requests do with markets (kernel/wiring.py): resolve one    *)
(* from the request, discover and recommend, analyse, trade on paper and   *)
(* log a prediction, over the process-wide market cache of mcp_server.py,  *)
(* while prices move and markets resolve; and the prediction journal, two  *)
(* of whose passes may overlap (storage/predictions.py).                   *)
(*                                                                         *)
(* A token stands for one side of a market, a price is a whole tick, a     *)
(* request is the set of its words, of which one may be a token's id.  An  *)
(* analysis, and a translation of a request, is whatever the LLM makes of  *)
(* it.                                                                     *)
(***************************************************************************)
EXTENDS Naturals, SequencesExt, FiniteSetsExt

CONSTANTS Tokens,
          About,       \* the words of a token's question
          Found,       \* what a search in its text finds: words and parts of them
          Generic,     \* words and phrases that ask for any market: "liquid", ...
          Translations, \* sets of keywords the LLM may answer with
          Busy,        \* tokens with volume and days enough for discover()
          Payout,      \* price of a share that has won; half of it, of a void one
          Quotes,      \* bound: prices a market is traded at
          Beliefs,     \* probabilities a signal may have, in ticks
          EdgeFloor,   \* the least edge to act on
          Journals,    \* passes of prediction_journal
          Sessions,    \* words of a request, packs loaded, tokens logged before;
                       \* bounds: calls of the request, price moves meanwhile
          None

Table == INSTANCE Capabilities

ASSUME DeskAssumption ==
    /\ IsFiniteSet(Tokens) /\ Busy \subseteq Tokens /\ None \notin Tokens \cup Nat
    /\ \A t \in Tokens : IsFiniteSet(Found[t]) /\ About[t] \subseteq Found[t]
    /\ Quotes \cup Beliefs \subseteq 1..(Payout - 1)
    /\ \A s \in Sessions : /\ DOMAIN s = {"asked", "packs", "logged", "calls", "moves"}
                           /\ s.packs \subseteq DOMAIN Table!PACKS
                           /\ s.logged \subseteq Tokens /\ s.calls \in Nat /\ s.moves \in Nat
    /\ {Payout, EdgeFloor} \subseteq Nat /\ Payout >= 2

VARIABLES venue,       \* the exchange: price of a token, closed and archived or not
          markets,     \* _MARKETS: the snapshot of a token, by price
          request,     \* the request being handled
          predictions, \* l1_predictions
          journal,     \* the passes over it
          moves        \* price moves left

vars == <<venue, markets, request, predictions, journal, moves>>

-----------------------------------------------------------------------------
(* Types.                                                                   *)

Chat == {"resolve_market", "discover_markets", "recommend_markets",
         "analyze_market", "paper_trade", "log_prediction"}

FactKeys == UNION {Table!DefaultRegistry[c].effects : c \in Chat}

Prices == 0..Payout

Venues == [Tokens -> [price : Prices, closed : BOOLEAN, archived : BOOLEAN]]

(* A scored market: p is None if there was no signal.                       *)
Core(t, p, action) == [token |-> t, p |-> p, action |-> action]

NothingAnalysed == Core(None, None, "none")

TypeOK ==
    /\ venue \in Venues
    /\ markets \in [Tokens -> Prices \cup {None}]
    /\ request.asked \in {s.asked : s \in Sessions} /\ DOMAIN request.facts = FactKeys
    /\ DOMAIN request.analysed \subseteq Tokens
    /\ \A i \in DOMAIN predictions :
          /\ predictions[i].token \in Tokens
          /\ predictions[i].outcome \in {None, 0, 1}
    /\ \A j \in Journals : journal[j].todo \subseteq DOMAIN predictions
    /\ moves \in Nat

(* known: the condition id of its market is on record.  asked and by, a     *)
(* history: the words of the request and those its market was found by.     *)
Open(t, asked, by, known) ==
    [token |-> t, asked |-> asked, by |-> by, known |-> known, outcome |-> None]

(* calls: how many more it makes.  The memo of the analyses (analysed)      *)
(* lives as long as the request.                                            *)
NewRequest(session) ==
    [asked |-> session.asked, packs |-> session.packs, calls |-> session.calls,
     facts |-> [k \in FactKeys |-> None], analysed |-> <<>>]

IdlePass == [on |-> FALSE, todo |-> {}, found |-> None, due |-> {}, clean |-> TRUE]

Init ==
    /\ venue = [t \in Tokens |-> [price |-> Payout \div 2, closed |-> FALSE, archived |-> FALSE]]
    /\ markets = [t \in Tokens |-> None]
    /\ \E s \in Sessions :
          /\ request = NewRequest(s)
          /\ predictions = SetToSeq({Open(t, {t}, {t}, TRUE) : t \in s.logged})
          /\ moves = s.moves
    /\ journal = [j \in Journals |-> IdlePass]

-----------------------------------------------------------------------------
(* The exchange.                                                            *)

Move(t) ==
    /\ ~venue[t].closed /\ moves > 0
    /\ \E p \in Quotes \ {venue[t].price} : venue' = [venue EXCEPT ![t].price = p]
    /\ moves' = moves - 1
    /\ UNCHANGED <<markets, request, predictions, journal>>

(* Won, lost, or void.                                                      *)
Resolve(t) ==
    /\ ~venue[t].closed
    /\ \E p \in {0, Payout \div 2, Payout} :
          venue' = [venue EXCEPT ![t] = [@ EXCEPT !.price = p, !.closed = TRUE]]
    /\ UNCHANGED <<markets, request, predictions, journal, moves>>

(* Taken off the lists, resolved or not.                                    *)
Archive(t) ==
    /\ ~venue[t].closed /\ ~venue[t].archived
    /\ venue' = [venue EXCEPT ![t] = [@ EXCEPT !.archived = TRUE]]
    /\ UNCHANGED <<markets, request, predictions, journal, moves>>

Listed == {t \in Tokens : ~venue[t].closed /\ ~venue[t].archived}

-----------------------------------------------------------------------------
(* The market cache.                                                        *)

(* _refresh_markets: listed markets are stored, the others stay as they     *)
(* are.  A failed request lists nothing.                                    *)
Refreshed(listed, cache) ==
    [t \in Tokens |-> IF t \in listed THEN venue[t].price ELSE cache[t]]

Listings == {Listed, {}}

(* _get_market: the cache after a look-up of t, refreshed if it is missing. *)
LookedUp(t, listed, cache) ==
    IF t = None \/ cache[t] # None THEN cache ELSE Refreshed(listed, cache)

(* scan_markets: whatever the cache holds at a price worth trading.         *)
Scan(cache) == {t \in Tokens : cache[t] # None /\ cache[t] \in 1..(Payout - 1)}

-----------------------------------------------------------------------------
(* resolve.                                                                 *)

Hits(t, words) == Cardinality(Found[t] \cap words)

BestMatch(rows, words) ==
    {t \in rows : Hits(t, words) > 0 /\ \A u \in rows : Hits(u, words) <= Hits(t, words)}

(* by, a history: the words that found it.                                  *)
Ref(t, matched, by) == [token |-> t, matched |-> matched, by |-> by]

(* The best match of the request's words; if there is none, of them and of  *)
(* the keywords the LLM makes of them; if there is none again, the most     *)
(* active market, a fallback unless any market will do.                     *)
Matched(asked, any, cache) ==
    LET mostActive == {Ref(None, "error", {})} \cup
                      {Ref(t, IF any THEN "most_active" ELSE "fallback", {}) : t \in Listed}
        Matches(words) == {Ref(t, "keywords", words) : t \in BestMatch(Scan(cache), words)}
        Translated(words) == IF Matches(words) # {} THEN Matches(words) ELSE mostActive
    IN IF Matches(asked) # {} THEN Matches(asked)
       ELSE UNION {Translated(asked \cup keywords) : keywords \in Translations}

(* A request that is the id of a token in the cache, by now, is that token; *)
(* any other is matched in a scan.  The cache it leaves and its market.     *)
Refs(asked, any) ==
    LET Named(cache) == {t \in Tokens : asked = {t} /\ cache[t] # None}
        Of(looked, listed) ==
            IF Named(looked) # {}
            THEN {[cache |-> looked, ref |-> Ref(t, "token_id", asked)] : t \in Named(looked)}
            ELSE LET cache == Refreshed(listed, looked)
                 IN {[cache |-> cache, ref |-> ref] : ref \in Matched(asked, any, cache)}
    IN UNION {Of(IF Named(markets) # {} THEN markets ELSE Refreshed(first, markets), listed) :
                 first \in Listings, listed \in Listings}

AsksForAny(asked) == asked \cap Generic # {}

-----------------------------------------------------------------------------
(* Capabilities.                                                            *)

Known == {"question"} \cup {k \in FactKeys : request.facts[k] # None}

Menu == [c \in Chat \cap Table!KernelCapabilityNames(request.packs) |-> Table!DefaultRegistry[c]]

(* The controller calls a capability of the loaded packs and gets its facts. *)
Call(c) ==
    /\ c \in Table!Runnable(Menu, Known)
    /\ request.calls > 0
    /\ UNCHANGED <<venue, journal, moves>>

Produce(facts, analysed) ==
    request' = [request EXCEPT !.calls = @ - 1, !.analysed = analysed,
                               !.facts = [k \in FactKeys |-> IF k \in DOMAIN facts THEN facts[k] ELSE @[k]]]

Fact(key, value) == [k \in {key} |-> value]

ResolveMarket ==
    /\ Call("resolve_market")
    /\ \E r \in Refs(request.asked, request.asked = {} \/ AsksForAny(request.asked)) :
          /\ markets' = r.cache
          /\ Produce(Fact("market_ref", r.ref), request.analysed)
    /\ UNCHANGED predictions

(* discover: the YES side of each market that shares a word with the topic  *)
(* or with the keywords the LLM makes of it.                                *)
Discover ==
    /\ Call("discover_markets")
    /\ \E listed \in Listings, keywords \in Translations :
          /\ markets' = Refreshed(listed, markets)
          /\ Produce(Fact("candidates", {t \in Scan(markets') \cap Busy :
                                            About[t] \cap (request.asked \cup keywords) # {}}),
                     request.analysed)
    /\ UNCHANGED predictions

(* decide(): a buy or a sell beyond the edge floor, a hold below it or      *)
(* behind a risk gate; no decision without a signal.                        *)
Decisions(t, price) ==
    {Core(t, None, "none")} \cup
    UNION {{Core(t, p, "hold")} \cup
           (IF p >= price + EdgeFloor THEN {Core(t, p, "buy")} ELSE {}) \cup
           (IF price >= p + EdgeFloor THEN {Core(t, p, "sell")} ELSE {}) : p \in Beliefs}

(* For comparison: every analysis is a run of its own.                      *)
AnalyseAfresh(t, analysed, cache) == Decisions(t, cache[t])

(* _analysis_core: memoised by token for the request.                       *)
AnalysisCores(t, analysed, cache) ==
    IF t \in DOMAIN analysed THEN {analysed[t]} ELSE Decisions(t, cache[t])

Remember(cores) == [t \in DOMAIN request.analysed \cup DOMAIN cores |->
                       IF t \in DOMAIN request.analysed THEN request.analysed[t] ELSE cores[t]]

(* Ranked: what can be acted on first, then by signed edge.                 *)
Edge(core, cache) == IF core.p = None THEN 0 ELSE core.p - cache[core.token]

Ranks(c, d, cache) ==
    LET acts(x) == x.action \in {"buy", "sell"}
    IN \/ acts(c) /\ ~acts(d)
       \/ acts(c) = acts(d) /\ Edge(c, cache) >= Edge(d, cache)

(* Candidates whose analysis raised are left out; the best of the others is *)
(* the pick, and becomes the market of the request.                         *)
Recommend ==
    /\ Call("recommend_markets")
    /\ UNCHANGED <<markets, predictions>>
    /\ \E scored \in SUBSET request.facts["candidates"] :
       \E cores \in [scored -> UNION {AnalysisCores(t, request.analysed, markets) : t \in scored}] :
          /\ \A t \in scored : cores[t] \in AnalysisCores(t, request.analysed, markets)
          /\ \/ /\ scored = {}
                /\ Produce(Fact("recommendation", [pick |-> None, cores |-> cores]), request.analysed)
             \/ \E t \in scored :
                   /\ \A u \in scored : Ranks(cores[t], cores[u], markets)
                   /\ Produce([k \in {"recommendation", "market_ref"} |->
                                 IF k = "market_ref" THEN Ref(t, "pick", {})
                                 ELSE [pick |-> t, cores |-> cores]], Remember(cores))

(* The market of the request, analysed, or an error; and the cache by then. *)
Analyses ==
    LET t == request.facts["market_ref"].token
        Of(cache) ==
            IF t = None \/ cache[t] = None
            THEN {[cache |-> cache, core |-> NothingAnalysed, analysed |-> request.analysed]}
            ELSE {[cache |-> cache, core |-> core, analysed |-> Remember([u \in {t} |-> core])] :
                     core \in AnalysisCores(t, request.analysed, cache)}
    IN UNION {Of(LookedUp(t, listed, markets)) : listed \in Listings}

AnalyzeMarket ==
    /\ Call("analyze_market")
    /\ \E a \in Analyses :
          /\ markets' = a.cache
          /\ Produce(Fact("market_analysis", a.core), a.analysed)
    /\ UNCHANGED predictions

(* A decided buy goes to the breaker, which may refuse it.                  *)
PaperTrade ==
    /\ Call("paper_trade")
    /\ \E a \in Analyses : \E executed \in IF a.core.action = "buy" THEN BOOLEAN ELSE {FALSE} :
          /\ markets' = a.cache
          /\ Produce(Fact("paper_trade", [core |-> a.core, executed |-> executed]), a.analysed)
    /\ UNCHANGED predictions

Prediction(ref, cache) == Open(ref.token, request.asked, ref.by, cache[ref.token] # None)

Logged(refused) == Produce(Fact("prediction_logged", [refused |-> refused]), request.analysed)

(* For comparison: a fallback pick is logged like any match.                *)
LogAnyMatch ==
    /\ Call("log_prediction")
    /\ \E r \in Refs(request.asked, AsksForAny(request.asked)) :
          /\ markets' = r.cache
          /\ predictions' = IF r.ref.token = None THEN predictions
                            ELSE Append(predictions, Prediction(r.ref, markets'))
          /\ Logged(r.ref.token = None)

(* The user's own probability of the market the request resolves to: a      *)
(* request without one is refused, and so is a fallback.  The words left of *)
(* it are never none.                                                       *)
LogPrediction ==
    /\ Call("log_prediction")
    /\ \/ Logged(TRUE) /\ UNCHANGED <<markets, predictions>>
       \/ \E r \in Refs(request.asked, AsksForAny(request.asked)), again \in Listings :
             IF r.ref.matched \in {"error", "fallback"}
             THEN markets' = r.cache /\ Logged(TRUE) /\ UNCHANGED predictions
             ELSE /\ markets' = LookedUp(r.ref.token, again, r.cache)
                  /\ predictions' = Append(predictions, Prediction(r.ref, markets'))
                  /\ Logged(FALSE)

-----------------------------------------------------------------------------
(* prediction_journal.                                                      *)

OpenRows == {i \in DOMAIN predictions : predictions[i].outcome = None}

(* The journal can fetch the row's market and takes it for resolved.        *)
IsDue(i) ==
    LET p == predictions[i]
    IN p.known /\ (venue[p.token].closed \/ venue[p.token].archived)

(* due, a history: the open rows that are due as the pass begins.  A pass   *)
(* that finds nothing open does nothing.                                    *)
JournalOpen(j) ==
    /\ "prediction-journal" \in request.packs
    /\ ~journal[j].on /\ OpenRows # {}
    /\ journal' = [journal EXCEPT ![j] =
          [on |-> TRUE, todo |-> OpenRows, found |-> None, clean |-> TRUE,
           due |-> {i \in OpenRows : IsDue(i)}]]
    /\ UNCHANGED <<venue, markets, request, predictions, moves>>

Half == Payout \div 2

FirstOf(j) == CHOOSE i \in journal[j].todo : \A k \in journal[j].todo : i <= k

Won(t) == IF venue[t].price >= Half THEN 1 ELSE 0

FetchRow(j) ==
    /\ journal[j].on /\ journal[j].found = None /\ journal[j].todo # {}
    /\ UNCHANGED <<venue, markets, request, predictions, moves>>

Skip(j, i, clean) == journal' = [journal EXCEPT ![j].todo = @ \ {i}, ![j].clean = @ /\ clean]

(* For comparison: the pass ends at the first row it cannot score.          *)
StopAtOpenMarket(j) ==
    /\ FetchRow(j)
    /\ LET i == FirstOf(j)
       IN IF IsDue(i)
          THEN journal' = [journal EXCEPT ![j].found = [row |-> i, outcome |-> Won(predictions[i].token)]]
          ELSE journal' = [journal EXCEPT ![j].todo = {}]

(* For comparison: a market's price is taken before it is over.             *)
ScoreOpenMarkets(j) ==
    /\ FetchRow(j)
    /\ LET i == FirstOf(j)
       IN \/ journal' = [journal EXCEPT ![j].found = [row |-> i, outcome |-> Won(predictions[i].token)]]
          \/ Skip(j, i, FALSE)

(* The market of the next row is fetched, and if it is over its price is    *)
(* the outcome.  A row whose market is open, has no condition id or cannot  *)
(* be fetched is skipped.                                                   *)
JournalFetch(j) ==
    /\ FetchRow(j)
    /\ LET i == FirstOf(j)
       IN \/ /\ IsDue(i)
             /\ journal' = [journal EXCEPT ![j].found = [row |-> i, outcome |-> Won(predictions[i].token)]]
          \/ ~IsDue(i) /\ Skip(j, i, TRUE)
          \/ Skip(j, i, FALSE)

JournalMark(j) ==
    /\ journal[j].found # None
    /\ LET pass == journal[j]
           found == pass.found
       IN /\ predictions' = [predictions EXCEPT ![found.row].outcome = found.outcome]
          /\ journal' = [journal EXCEPT ![j] =
                [pass EXCEPT !.found = None, !.todo = @ \ {found.row}]]
    /\ UNCHANGED <<venue, markets, request, moves>>

Finished(j) == journal[j].on /\ journal[j].found = None /\ journal[j].todo = {}

JournalEnd(j) ==
    /\ Finished(j)
    /\ journal' = [journal EXCEPT ![j] = IdlePass]
    /\ UNCHANGED <<venue, markets, request, predictions, moves>>

Next ==
    \/ \E t \in Tokens : Move(t) \/ Resolve(t) \/ Archive(t)
    \/ ResolveMarket \/ Discover \/ Recommend \/ AnalyzeMarket \/ PaperTrade \/ LogPrediction
    \/ \E j \in Journals : JournalOpen(j) \/ JournalFetch(j) \/ JournalMark(j) \/ JournalEnd(j)

Spec == Init /\ [][Next]_vars

-----------------------------------------------------------------------------
(* Properties.                                                              *)

(* The analyses a fact shows.                                               *)
Analysed(key, fact) ==
    IF fact = None THEN {}
    ELSE CASE key = "recommendation"  -> {fact.cores[t] : t \in DOMAIN fact.cores}
           [] key = "market_analysis" -> {fact} \ {NothingAnalysed}
           [] key = "paper_trade"     -> {fact.core} \ {NothingAnalysed}
           [] OTHER                   -> {}

(* What was recommended, what the framework shows and what was traded on    *)
(* agree about a token, however its price moves and the cache is refreshed  *)
(* in between (wiring.py:1185-1201: "the recommendation and the framework   *)
(* then agree").                                                            *)
AnalysesAgree ==
    \A k, l \in FactKeys :
       \A c \in Analysed(k, request.facts[k]), d \in Analysed(l, request.facts[l]) :
          c.token = d.token => c = d

(* A prediction is logged for a market found by a word of the request or of *)
(* its translation, or by its id, and never for the one a request falls     *)
(* back to unless it asks for any market (wiring.py:793-798).               *)
LoggedIsMeant ==
    \A i \in DOMAIN predictions :
       LET p == predictions[i]
       IN p.asked = {p.token} \/ Found[p.token] \cap p.by # {} \/ AsksForAny(p.asked)

(* "don't log a wrong market" (wiring.py:797), as the comment has it: a     *)
(* request with words of its own is logged for a market they find.  The     *)
(* code waives them if "liquid" is anywhere in the request (:1175).         *)
NoWrongMarket ==
    \A i \in DOMAIN predictions :
       LET p == predictions[i]
       IN p.asked \subseteq Generic \/ p.asked = {p.token} \/ Found[p.token] \cap p.by # {}

(* A pass of the journal that could fetch every market leaves no prediction *)
(* open whose market was over before it began (wiring.py:823-834).          *)
JournalLeavesNothingDue ==
    \A j \in Journals : Finished(j) /\ journal[j].clean =>
       \A i \in journal[j].due : predictions[i].outcome # None

IsResult(p) ==
    LET market == venue[p.token]
    IN /\ market.closed
       /\ market.price = Payout => p.outcome = 1
       /\ market.price = 0 => p.outcome = 0

(* Unless its market was archived before it closed, a scored prediction is  *)
(* of a closed market and has its result, also if two passes scored it;     *)
(* only a void market has none to have (wiring.py:823-834).                 *)
ScoresAreResults ==
    \A i \in DOMAIN predictions :
       predictions[i].outcome # None =>
          venue[predictions[i].token].archived \/ IsResult(predictions[i])

(* "auto-settle any open calls whose market has resolved" (wiring.py:814),  *)
(* as the docstring has it: the same, of every market.  The code scores an  *)
(* archived market at its price of the day (:826-831).                      *)
OnlyResolvedAreScored ==
    \A i \in DOMAIN predictions :
       predictions[i].outcome # None => IsResult(predictions[i])

=============================================================================
