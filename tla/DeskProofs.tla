------------------------------ MODULE DeskProofs ------------------------------
(***************************************************************************)
(* Theorems about Desk for any tokens, words, translations, prices,        *)
(* beliefs, sessions and number of overlapping journal passes: the         *)
(* analyses of a request agree, a fallback pick is not logged, a score is  *)
(* the result of a closed market even between its fetch and its mark       *)
(* unless the market was archived, and a pass that could fetch every       *)
(* market leaves no row behind that was due when it began.                 *)
(***************************************************************************)
EXTENDS Desk, FiniteSetTheorems, WellFoundedInduction, TLAPS

Outcomes == {0, 1}

Words == (UNION {s.asked : s \in Sessions}) \cup (UNION Translations) \cup Tokens

Row == [token : Tokens, asked : SUBSET Words, by : SUBSET Words, known : BOOLEAN,
        outcome : Outcomes \cup {None}]

Score == [row : Nat, outcome : Outcomes]

Pass == [on : BOOLEAN, todo : SUBSET Nat, found : Score \cup {None},
         due : SUBSET Nat, clean : BOOLEAN]

Caches == [Tokens -> Prices \cup {None}]

(* The state apart from what a request knows.                               *)
StateOK ==
    /\ venue \in Venues
    /\ markets \in Caches
    /\ DOMAIN request = {"asked", "packs", "calls", "facts", "analysed"}
    /\ request.asked \in SUBSET Words
    /\ predictions \in Seq(Row)
    /\ journal \in [Journals -> Pass]

(* The outcome is the result of the market of row i, which has closed, or   *)
(* the market was archived before it had.                                   *)
ResultOf(i, outcome) ==
    LET market == venue[predictions[i].token]
    IN \/ market.archived
       \/ /\ market.closed
          /\ market.price = Payout => outcome = 1
          /\ market.price = 0 => outcome = 0

ScoreInv == \A i \in DOMAIN predictions :
               predictions[i].outcome # None => ResultOf(i, predictions[i].outcome)

FoundInv == \A j \in Journals : journal[j].found # None =>
               /\ journal[j].found.row \in DOMAIN predictions
               /\ ResultOf(journal[j].found.row, journal[j].found.outcome)

(* What is due stays fetchable, and as long as nothing failed it is either  *)
(* still to do or scored.                                                   *)
DueInv == \A j \in Journals :
             /\ journal[j].todo \subseteq DOMAIN predictions
             /\ \A i \in journal[j].due :
                   /\ i \in DOMAIN predictions
                   /\ IsDue(i)
                   /\ journal[j].clean =>
                         i \in journal[j].todo \/ predictions[i].outcome # None

(* The memo has analyses under their tokens, and every analysis that a fact *)
(* shows.                                                                   *)
MemoOK(analysed) == \A t \in DOMAIN analysed : analysed[t].token = t

InMemo(c, analysed) == c.token \in DOMAIN analysed /\ c = analysed[c.token]

MemoInv ==
    /\ MemoOK(request.analysed)
    /\ \A k \in FactKeys : \A c \in Analysed(k, request.facts[k]) : InMemo(c, request.analysed)

IInv == StateOK /\ LoggedIsMeant /\ ScoreInv /\ FoundInv /\ DueInv /\ MemoInv

-----------------------------------------------------------------------------
(* A set of numbers that is not empty has a least one.                      *)
LEMMA LeastExists ==
    ASSUME NEW S \in SUBSET Nat, S # {}
    PROVE  (CHOOSE i \in S : \A k \in S : i <= k) \in S
<1> DEFINE less == {ss \in Nat \X Nat : ss[1] < ss[2]}
<1>1. IsWellFoundedOn(less, Nat)
  BY NatLessThanWellFounded DEF OpToRel
<1> HIDE DEF less
<1>2. PICK x \in S : \A y \in S : <<y, x>> \notin less
  BY <1>1, WFMin
<1>3. \A y \in S : x <= y
  <2> SUFFICES ASSUME NEW y \in S, y < x PROVE FALSE
    OBVIOUS
  <2>1. <<y, x>> \in less
    BY DEF less
  <2> QED
    BY <1>2, <2>1
<1> QED
  BY <1>3

(* A finite set laid out as a sequence.                                     *)
LEMMA LaidOut ==
    ASSUME NEW S, IsFiniteSet(S)
    PROVE  /\ SetToSeq(S) \in Seq(S)
           /\ \A i \in DOMAIN SetToSeq(S) : SetToSeq(S)[i] \in S
<1>1. Cardinality(S) \in Nat /\ ExistsBijection(1..Cardinality(S), S)
  BY FS_CardinalityType
<1>2. \E f \in [1..Cardinality(S) -> S] : IsInjective(f)
  BY <1>1 DEF ExistsBijection, Bijection, Injection, IsInjective
<1>3. SetToSeq(S) \in [1..Cardinality(S) -> S]
  BY <1>2 DEF SetToSeq
<1> QED
  BY <1>1, <1>3

(* A look-up or a refresh leaves a cache of listed prices.                  *)
LEMMA CacheType ==
    ASSUME venue \in Venues, NEW cache \in Caches, NEW listed
    PROVE  /\ Refreshed(listed, cache) \in Caches
           /\ \A t : LookedUp(t, listed, cache) \in Caches
           /\ Scan(cache) \subseteq Tokens
<1>1. Refreshed(listed, cache) \in Caches
  BY DEF Refreshed, Caches, Venues
<1> QED
  BY <1>1 DEF LookedUp, Scan

(* What a request is about does not change while it is handled; its facts   *)
(* and its memo are what the capability made of them.                       *)
LEMMA ProduceKeeps ==
    ASSUME DOMAIN request = {"asked", "packs", "calls", "facts", "analysed"},
           NEW facts, NEW analysed, Produce(facts, analysed)
    PROVE  /\ DOMAIN request' = DOMAIN request /\ request'.asked = request.asked
           /\ request'.analysed = analysed
           /\ \A k \in FactKeys : request'.facts[k] =
                 IF k \in DOMAIN facts THEN facts[k] ELSE request.facts[k]
BY DEF Produce

(* A market that is not a fallback is named by its id, shares a word with   *)
(* those it was found by, or is the answer to a request for any.            *)
NamesIt(asked, any, ref) ==
    ref.matched \notin {"error", "fallback"} =>
       /\ ref.token \in Tokens /\ ref.by \in SUBSET Words
       /\ asked = {ref.token} \/ Found[ref.token] \cap ref.by # {} \/ any

LEMMA MatchNamesIt ==
    ASSUME venue \in Venues, markets \in Caches, NEW asked \in SUBSET Words,
           NEW any, NEW r \in Refs(asked, any)
    PROVE  r.cache \in Caches /\ NamesIt(asked, any, r.ref)
<1> DEFINE Named(cache) == {t \in Tokens : asked = {t} /\ cache[t] # None}
           Of(looked, listed) ==
              IF Named(looked) # {}
              THEN {[cache |-> looked, ref |-> Ref(t, "token_id", asked)] : t \in Named(looked)}
              ELSE LET cache == Refreshed(listed, looked)
                   IN {[cache |-> cache, ref |-> ref] : ref \in Matched(asked, any, cache)}
           Start(first) == IF Named(markets) # {} THEN markets ELSE Refreshed(first, markets)
           Good(ref) == NamesIt(asked, any, ref)
<1>1. ASSUME NEW cache \in Caches, NEW words \in SUBSET Words,
             NEW t \in BestMatch(Scan(cache), words)
      PROVE  Good(Ref(t, "keywords", words))
  <2>1. t \in Tokens /\ Cardinality(Found[t] \cap words) > 0
    BY DEF BestMatch, Hits, Scan
  <2>2. Found[t] \cap words # {}
    BY <2>1, FS_EmptySet
  <2> QED
    BY <2>1, <2>2 DEF Ref, NamesIt
<1>2. Good(Ref(None, "error", {}))
  BY DEF Ref, NamesIt
<1>3. \A t \in Listed : Good(Ref(t, IF any THEN "most_active" ELSE "fallback", {}))
  BY DEF Ref, Listed, NamesIt
<1>4. \A t \in Tokens : asked = {t} => Good(Ref(t, "token_id", asked))
  BY DEF Ref, NamesIt
<1> HIDE DEF Good
<1>5. ASSUME NEW cache \in Caches, NEW ref \in Matched(asked, any, cache) PROVE Good(ref)
  <2> DEFINE Matches(words) == {Ref(t, "keywords", words) : t \in BestMatch(Scan(cache), words)}
             mostActive == {Ref(None, "error", {})} \cup
                           {Ref(t, IF any THEN "most_active" ELSE "fallback", {}) : t \in Listed}
  <2>1. \A words \in SUBSET Words : \A x \in Matches(words) : Good(x)
    BY <1>1
  <2>2. \A x \in mostActive : Good(x)
    BY <1>2, <1>3
  <2>3. \/ ref \in Matches(asked)
        \/ \E keywords \in Translations : ref \in Matches(asked \cup keywords)
        \/ ref \in mostActive
    BY <1>5 DEF Matched
  <2>4. \A keywords \in Translations : asked \cup keywords \in SUBSET Words
    BY DEF Words
  <2> HIDE DEF Matches, mostActive
  <2> QED
    BY <2>1, <2>2, <2>3, <2>4
<1>6. PICK first \in Listings, listed \in Listings : r \in Of(Start(first), listed)
  BY DEF Refs
<1>7. Start(first) \in Caches
  BY CacheType
<1> HIDE DEF Start
<1>8. CASE Named(Start(first)) # {}
  <2>1. PICK t \in Named(Start(first)) :
           r = [cache |-> Start(first), ref |-> Ref(t, "token_id", asked)]
    BY <1>6, <1>8
  <2> QED
    BY <1>4, <1>7, <2>1 DEF Good
<1>9. CASE Named(Start(first)) = {}
  <2>1. PICK ref \in Matched(asked, any, Refreshed(listed, Start(first))) :
           r = [cache |-> Refreshed(listed, Start(first)), ref |-> ref]
    BY <1>6, <1>9
  <2>2. Refreshed(listed, Start(first)) \in Caches
    BY <1>7, CacheType
  <2> QED
    BY <1>5, <2>1, <2>2 DEF Good
<1> QED
  BY <1>8, <1>9

(* An analysis is of its token, and the one in the memo if there is one.    *)
LEMMA AnalysisOfToken ==
    ASSUME MemoOK(request.analysed), NEW t, NEW cache,
           NEW c \in AnalysisCores(t, request.analysed, cache)
    PROVE  c.token = t /\ (t \in DOMAIN request.analysed => c = request.analysed[t])
BY DEF MemoOK, AnalysisCores, Decisions, Core

(* Remembering analyses keeps those remembered before.                      *)
LEMMA RememberKeeps ==
    ASSUME MemoOK(request.analysed), NEW cores,
           \A t \in DOMAIN cores :
              cores[t].token = t /\ (t \in DOMAIN request.analysed => cores[t] = request.analysed[t])
    PROVE  /\ MemoOK(Remember(cores))
           /\ \A c : InMemo(c, request.analysed) => InMemo(c, Remember(cores))
           /\ \A t \in DOMAIN cores : InMemo(cores[t], Remember(cores))
BY DEF MemoOK, InMemo, Remember

(* New facts that show what is in the memo, which keeps what it had.        *)
LEMMA MemoStep ==
    ASSUME DOMAIN request = {"asked", "packs", "calls", "facts", "analysed"},
           MemoInv, NEW facts, NEW analysed, Produce(facts, analysed), MemoOK(analysed),
           \A c : InMemo(c, request.analysed) => InMemo(c, analysed),
           \A k \in DOMAIN facts : \A c \in Analysed(k, facts[k]) : InMemo(c, analysed)
    PROVE  MemoInv'
<1>1. /\ request'.analysed = analysed
      /\ \A k \in FactKeys : request'.facts[k] =
            IF k \in DOMAIN facts THEN facts[k] ELSE request.facts[k]
  BY ProduceKeeps
<1>2. ASSUME NEW k \in FactKeys, NEW c \in Analysed(k, request'.facts[k])
      PROVE  InMemo(c, analysed)
  BY <1>1, <1>2 DEF MemoInv
<1> QED
  BY <1>1, <1>2 DEF MemoInv, MemoOK, InMemo, Analysed

(* A fact that shows no analysis.                                           *)
LEMMA PlainFact ==
    ASSUME DOMAIN request = {"asked", "packs", "calls", "facts", "analysed"},
           MemoInv, NEW key \in {"market_ref", "candidates", "prediction_logged"},
           NEW value, Produce(Fact(key, value), request.analysed)
    PROVE  MemoInv'
<1>1. \A k \in DOMAIN Fact(key, value) : Analysed(k, Fact(key, value)[k]) = {}
  BY DEF Fact, Analysed
<1> QED
  BY <1>1, MemoStep DEF MemoInv

-----------------------------------------------------------------------------
LEMMA InitIInv == Init => IInv
<1> SUFFICES ASSUME Init PROVE IInv
  OBVIOUS
<1>1. PICK s \in Sessions :
          /\ request = NewRequest(s)
          /\ predictions = SetToSeq({Open(t, {t}, {t}, TRUE) : t \in s.logged})
  BY DEF Init
<1> DEFINE rows == {Open(t, {t}, {t}, TRUE) : t \in s.logged}
<1>0. s.logged \subseteq Tokens
  BY DeskAssumption
<1>2. IsFiniteSet(rows)
  <2>1. IsFiniteSet(s.logged)
    BY <1>0, DeskAssumption, FS_Subset
  <2>2. [t \in s.logged |-> Open(t, {t}, {t}, TRUE)] \in Surjection(s.logged, rows)
    BY DEF Surjection
  <2> QED
    BY <2>1, <2>2, FS_Surjection
<1>3. \A r \in rows : r \in Row /\ r.outcome = None /\ r.asked = {r.token}
  <2>1. ASSUME NEW t \in s.logged
        PROVE  LET r == Open(t, {t}, {t}, TRUE)
               IN r \in Row /\ r.outcome = None /\ r.asked = {r.token}
    <3>1. t \in Tokens /\ {t} \in SUBSET Words
      BY <1>0 DEF Words
    <3> QED
      BY <3>1 DEF Open, Row
  <2> QED
    BY <2>1
<1> HIDE DEF rows
<1>4. /\ predictions \in Seq(rows)
      /\ \A i \in DOMAIN predictions : predictions[i] \in rows
  BY <1>1, <1>2, LaidOut DEF rows
<1>5. predictions \in Seq(Row)
  BY <1>3, <1>4
<1>6. DOMAIN request = {"asked", "packs", "calls", "facts", "analysed"}
      /\ request.asked \in SUBSET Words
      /\ request.facts = [k \in FactKeys |-> None] /\ request.analysed = <<>>
  BY <1>1 DEF NewRequest, Words
<1>7. IdlePass \in Pass
  BY DEF IdlePass, Pass
<1>8. StateOK
  <2>1. Payout \div 2 \in Prices
    BY DeskAssumption DEF Prices
  <2> QED
    BY <1>5, <1>6, <1>7, <2>1 DEF Init, StateOK, Venues, Caches
<1>9. LoggedIsMeant /\ ScoreInv
  BY <1>3, <1>4 DEF LoggedIsMeant, ScoreInv
<1>10. FoundInv /\ DueInv
  BY DEF Init, IdlePass, FoundInv, DueInv
<1>11. MemoInv
  BY <1>6 DEF MemoInv, MemoOK, Analysed
<1> QED
  BY <1>8, <1>9, <1>10, <1>11 DEF IInv

(* Steps of the exchange: a market that has closed keeps its price, and one *)
(* that is archived stays so.                                               *)
LEMMA ExchangeStep ==
    ASSUME IInv, venue' \in Venues,
           \A t \in Tokens : /\ venue[t].closed => venue'[t] = venue[t]
                             /\ venue[t].archived => venue'[t].archived,
           UNCHANGED <<markets, request, predictions, journal>>
    PROVE  IInv'
<1>1. \A i \in DOMAIN predictions : predictions[i].token \in Tokens
  <2>1. predictions \in Seq(Row)
    BY DEF IInv, StateOK
  <2>2. \A i \in DOMAIN predictions : predictions[i] \in Row
    BY <2>1
  <2> QED
    BY <2>2 DEF Row
<1>2. ASSUME NEW i \in DOMAIN predictions, NEW outcome, ResultOf(i, outcome)
      PROVE  ResultOf(i, outcome)'
  BY <1>1, <1>2 DEF ResultOf
<1>3. StateOK' /\ LoggedIsMeant'
  BY DEF IInv, StateOK, LoggedIsMeant
<1>4. ScoreInv'
  BY <1>2 DEF IInv, ScoreInv, ResultOf
<1>5. FoundInv'
  <2> SUFFICES ASSUME NEW j \in Journals, journal[j].found # None
               PROVE  /\ journal[j].found.row \in DOMAIN predictions
                      /\ ResultOf(journal[j].found.row, journal[j].found.outcome)'
    BY DEF FoundInv
  <2>1. /\ journal[j].found.row \in DOMAIN predictions
        /\ ResultOf(journal[j].found.row, journal[j].found.outcome)
    BY DEF IInv, FoundInv
  <2> QED
    BY <1>2, <2>1 DEF ResultOf
<1>6. DueInv'
  BY <1>1 DEF IInv, DueInv, IsDue
<1>7. MemoInv'
  BY DEF IInv, MemoInv, MemoOK, InMemo, Analysed
<1> QED
  BY <1>3, <1>4, <1>5, <1>6, <1>7 DEF IInv

(* Steps of a request that log nothing.                                     *)
LEMMA RequestStep ==
    ASSUME IInv, markets' \in Caches,
           NEW facts, NEW analysed, Produce(facts, analysed), MemoInv',
           UNCHANGED <<venue, predictions, journal>>
    PROVE  IInv'
<1>1. DOMAIN request' = DOMAIN request /\ request'.asked = request.asked
  BY ProduceKeeps DEF IInv, StateOK
<1>2. StateOK'
  BY <1>1 DEF IInv, StateOK
<1> QED
  BY <1>2 DEF IInv, LoggedIsMeant, ScoreInv, FoundInv, DueInv, IsDue, ResultOf

(* A row is logged, open, for a market the request means.                   *)
LEMMA LogStep ==
    ASSUME IInv, markets' \in Caches,
           NEW facts, NEW analysed, Produce(facts, analysed), MemoInv',
           NEW t \in Tokens, NEW by \in SUBSET Words, NEW known \in BOOLEAN,
           request.asked = {t} \/ Found[t] \cap by # {} \/ AsksForAny(request.asked),
           predictions' = Append(predictions, Open(t, request.asked, by, known)),
           UNCHANGED <<venue, journal>>
    PROVE  IInv'
<1> DEFINE row == Open(t, request.asked, by, known)
           n == Len(predictions)
<1>1. DOMAIN request' = DOMAIN request /\ request'.asked = request.asked
  BY ProduceKeeps DEF IInv, StateOK
<1>2. /\ row \in Row /\ row.outcome = None
      /\ row.token = t /\ row.asked = request.asked /\ row.by = by
  BY DEF IInv, StateOK, Row, Open
<1> HIDE DEF row
<1>3. /\ predictions' \in Seq(Row)
      /\ n \in Nat /\ DOMAIN predictions = 1..n /\ DOMAIN predictions' = 1..n + 1
      /\ predictions'[n + 1] = row
      /\ \A i \in DOMAIN predictions : predictions'[i] = predictions[i]
  BY <1>2 DEF IInv, StateOK, row
<1>4. StateOK'
  BY <1>1, <1>3 DEF IInv, StateOK
<1>5. LoggedIsMeant'
  BY <1>2, <1>3 DEF IInv, LoggedIsMeant
<1>6. ASSUME NEW i \in DOMAIN predictions, NEW outcome, ResultOf(i, outcome)
      PROVE  ResultOf(i, outcome)'
  BY <1>3, <1>6 DEF ResultOf
<1>7. ScoreInv'
  BY <1>2, <1>3, <1>6 DEF IInv, ScoreInv, ResultOf
<1>8. FoundInv'
  <2> SUFFICES ASSUME NEW j \in Journals, journal[j].found # None
               PROVE  /\ journal[j].found.row \in DOMAIN predictions'
                      /\ ResultOf(journal[j].found.row, journal[j].found.outcome)'
    BY DEF FoundInv
  <2>1. /\ journal[j].found.row \in DOMAIN predictions
        /\ ResultOf(journal[j].found.row, journal[j].found.outcome)
    BY DEF IInv, FoundInv
  <2>2. PICK i, o : i = journal[j].found.row /\ o = journal[j].found.outcome
    OBVIOUS
  <2>3. ResultOf(i, o)'
    BY <1>6, <2>1, <2>2
  <2>4. i \in DOMAIN predictions' /\ journal' = journal
    BY <1>3, <2>1, <2>2
  <2> QED
    BY <2>2, <2>3, <2>4 DEF ResultOf
<1>9. DueInv'
  BY <1>3 DEF IInv, DueInv, IsDue
<1> QED
  BY <1>4, <1>5, <1>7, <1>8, <1>9 DEF IInv

(* Steps of a pass that change neither rows nor markets.                    *)
LEMMA PassStep ==
    ASSUME IInv, NEW j \in Journals, NEW pass \in Pass,
           journal' = [journal EXCEPT ![j] = pass],
           UNCHANGED <<venue, markets, request, predictions>>,
           pass.todo \subseteq DOMAIN predictions,
           pass.found # None => /\ pass.found.row \in DOMAIN predictions
                                /\ ResultOf(pass.found.row, pass.found.outcome),
           \A i \in pass.due :
              /\ i \in DOMAIN predictions
              /\ IsDue(i)
              /\ pass.clean => i \in pass.todo \/ predictions[i].outcome # None
    PROVE  IInv'
<1>1. /\ journal'[j] = pass
      /\ \A k \in Journals \ {j} : journal'[k] = journal[k]
      /\ journal' \in [Journals -> Pass]
  BY DEF IInv, StateOK
<1>2. StateOK' /\ LoggedIsMeant' /\ ScoreInv'
  BY <1>1 DEF IInv, StateOK, LoggedIsMeant, ScoreInv, ResultOf
<1>3. FoundInv'
  <2> SUFFICES ASSUME NEW k \in Journals, journal'[k].found # None
               PROVE  /\ journal'[k].found.row \in DOMAIN predictions
                      /\ ResultOf(journal'[k].found.row, journal'[k].found.outcome)
    BY DEF FoundInv, ResultOf
  <2>1. CASE k = j
    BY <1>1, <2>1
  <2>2. CASE k # j
    BY <1>1, <2>2 DEF IInv, FoundInv
  <2> QED
    BY <2>1, <2>2
<1>4. DueInv'
  <2> SUFFICES ASSUME NEW k \in Journals
               PROVE  /\ journal'[k].todo \subseteq DOMAIN predictions
                      /\ \A i \in journal'[k].due :
                            /\ i \in DOMAIN predictions
                            /\ IsDue(i)
                            /\ journal'[k].clean =>
                                  i \in journal'[k].todo \/ predictions[i].outcome # None
    BY DEF DueInv, IsDue
  <2>1. CASE k = j
    BY <1>1, <2>1
  <2>2. CASE k # j
    BY <1>1, <2>2 DEF IInv, DueInv
  <2> QED
    BY <2>1, <2>2
<1>5. MemoInv'
  BY DEF IInv, MemoInv, MemoOK, InMemo, Analysed
<1> QED
  BY <1>2, <1>3, <1>4, <1>5 DEF IInv

(* The row a pass looks at next, and its market.                            *)
LEMMA NextRow ==
    ASSUME IInv, NEW j \in Journals, FetchRow(j)
    PROVE  /\ FirstOf(j) \in journal[j].todo
           /\ FirstOf(j) \in DOMAIN predictions
           /\ predictions[FirstOf(j)] \in Row
           /\ predictions[FirstOf(j)].token \in Tokens
<1>1. journal[j].todo \in SUBSET Nat /\ journal[j].todo # {}
  BY DEF FetchRow, IInv, StateOK, Pass
<1>2. FirstOf(j) \in journal[j].todo
  BY <1>1, LeastExists DEF FirstOf
<1>3. FirstOf(j) \in DOMAIN predictions /\ predictions \in Seq(Row)
  BY <1>2 DEF IInv, DueInv, StateOK
<1>4. predictions[FirstOf(j)] \in Row
  BY <1>3
<1> QED
  BY <1>2, <1>3, <1>4 DEF Row

(* What a closed market is scored as is its result.                         *)
LEMMA WonIsResult ==
    ASSUME StateOK, NEW i \in DOMAIN predictions, predictions[i].token \in Tokens, IsDue(i)
    PROVE  /\ ResultOf(i, Won(predictions[i].token))
           /\ Won(predictions[i].token) \in Outcomes
BY DeskAssumption DEF StateOK, Venues, IsDue, ResultOf, Won, Half, Outcomes, Prices

LEMMA FetchStep ==
    ASSUME IInv, NEW j \in Journals, JournalFetch(j)
    PROVE  IInv'
<1> DEFINE i == FirstOf(j)
           t == predictions[i].token
           pass == journal[j]
<1>1. /\ FetchRow(j) /\ UNCHANGED <<venue, markets, request, predictions>>
      /\ pass.found = None
  BY DEF JournalFetch, FetchRow
<1>2. i \in pass.todo /\ i \in DOMAIN predictions /\ predictions[i] \in Row /\ t \in Tokens
  BY <1>1, NextRow
<1>3. /\ pass \in Pass /\ i \in Nat
      /\ pass.todo \subseteq DOMAIN predictions
      /\ \A k \in pass.due :
            /\ k \in DOMAIN predictions
            /\ IsDue(k)
            /\ pass.clean => k \in pass.todo \/ predictions[k].outcome # None
  BY <1>2 DEF IInv, StateOK, DueInv, Pass
<1>4. CASE /\ IsDue(i)
           /\ journal' = [journal EXCEPT ![j].found = [row |-> i, outcome |-> Won(t)]]
  <2> DEFINE found == [row |-> i, outcome |-> Won(t)]
             new == [pass EXCEPT !.found = found]
  <2>1. ResultOf(i, Won(t)) /\ found \in Score
    BY <1>2, <1>3, <1>4, WonIsResult DEF IInv, Score
  <2>2. /\ journal' = [journal EXCEPT ![j] = new]
        /\ found.row = i /\ found.outcome = Won(t)
    BY <1>4
  <2> HIDE DEF found, i, t
  <2>3. /\ new \in Pass /\ new.found = found
        /\ new.todo = pass.todo /\ new.due = pass.due /\ new.clean = pass.clean
    BY <1>3, <2>1 DEF Pass
  <2> HIDE DEF new, pass
  <2> QED
    BY <1>1, <1>2, <1>3, <2>1, <2>2, <2>3, PassStep
<1>5. ASSUME NEW clean \in BOOLEAN, Skip(j, i, clean),
             clean => ~IsDue(i)
      PROVE  IInv'
  <2> DEFINE rest == [pass EXCEPT !.todo = @ \ {i}]
             new == [rest EXCEPT !.clean = @ /\ clean]
  <2>1. journal' = [journal EXCEPT ![j] = new]
    BY ZenonT(40), <1>5 DEF Skip, IInv, StateOK
  <2> HIDE DEF i, t
  <2>2. /\ rest \in Pass /\ rest.todo = pass.todo \ {i}
        /\ rest.found = pass.found /\ rest.due = pass.due /\ rest.clean = pass.clean
    BY <1>3 DEF Pass
  <2> HIDE DEF rest
  <2>3. /\ new \in Pass /\ new.todo = pass.todo \ {i}
        /\ new.found = pass.found /\ new.due = pass.due /\ new.clean = (pass.clean /\ clean)
    BY <1>3, <2>2 DEF Pass
  <2> HIDE DEF new
  <2>4. \A k \in new.due : new.clean => k \in new.todo \/ predictions[k].outcome # None
    BY <1>3, <1>5, <2>3 DEF t
  <2> HIDE DEF pass
  <2> QED
    BY <1>1, <1>3, <2>1, <2>3, <2>4, PassStep
<1> QED
  BY <1>4, <1>5 DEF JournalFetch

(* The result a pass fetched is still the result when it is marked, and a   *)
(* row another pass scored stays scored.                                    *)
LEMMA MarkStep ==
    ASSUME IInv, NEW j \in Journals, JournalMark(j)
    PROVE  IInv'
<1> DEFINE pass == journal[j]
           r == pass.found.row
           outcome == pass.found.outcome
           cleared == [pass EXCEPT !.found = None]
           new == [cleared EXCEPT !.todo = @ \ {r}]
           scored == [predictions[r] EXCEPT !.outcome = outcome]
<1>1. /\ pass.found # None
      /\ predictions' = [predictions EXCEPT ![r] = scored]
      /\ journal' = [journal EXCEPT ![j] = new]
      /\ UNCHANGED <<venue, markets, request>>
  <2>1. /\ pass.found # None /\ UNCHANGED <<venue, markets, request>>
    BY DEF JournalMark
  <2>2. predictions' = [predictions EXCEPT ![r] = scored]
    BY DEF JournalMark
  <2>3. journal' = [journal EXCEPT ![j] = new]
    BY DEF JournalMark
  <2> QED
    BY <2>1, <2>2, <2>3
<1>2. /\ pass \in Pass /\ pass.found \in Score
      /\ r \in DOMAIN predictions /\ ResultOf(r, outcome)
  BY <1>1 DEF IInv, StateOK, FoundInv, Pass
<1>3. r \in Nat /\ outcome \in Outcomes /\ outcome # None
  BY <1>2, DeskAssumption DEF Score, Outcomes
<1>4. /\ new \in Pass /\ new.found = None
      /\ new.todo = pass.todo \ {r} /\ new.due = pass.due /\ new.clean = pass.clean
  <2>1. /\ cleared \in Pass /\ cleared.found = None
        /\ cleared.todo = pass.todo /\ cleared.due = pass.due /\ cleared.clean = pass.clean
    BY <1>2 DEF Pass
  <2> HIDE DEF cleared, r
  <2> QED
    BY <2>1 DEF Pass
<1>5. predictions \in Seq(Row) /\ predictions[r] \in Row
  BY <1>2 DEF IInv, StateOK
<1> HIDE DEF r, outcome, new
<1>6. /\ scored \in Row /\ scored.outcome = outcome
      /\ scored.token = predictions[r].token /\ scored.asked = predictions[r].asked
      /\ scored.by = predictions[r].by
      /\ scored.known = predictions[r].known
  BY <1>3, <1>5 DEF Row
<1> HIDE DEF scored, pass
<1>7. /\ predictions' \in Seq(Row) /\ DOMAIN predictions' = DOMAIN predictions
      /\ predictions'[r] = scored
      /\ \A i \in DOMAIN predictions \ {r} : predictions'[i] = predictions[i]
  BY <1>1, <1>2, <1>5, <1>6
<1>8. \A i \in DOMAIN predictions :
         /\ predictions'[i].token = predictions[i].token
         /\ predictions'[i].asked = predictions[i].asked
         /\ predictions'[i].by = predictions[i].by
         /\ predictions'[i].known = predictions[i].known
         /\ predictions[i].outcome # None => predictions'[i].outcome # None
  BY <1>3, <1>6, <1>7
<1>9. /\ journal' \in [Journals -> Pass] /\ journal'[j] = new
      /\ \A k \in Journals \ {j} : journal'[k] = journal[k]
  BY <1>1, <1>4 DEF IInv, StateOK
<1>10. ASSUME NEW i \in DOMAIN predictions, NEW o, ResultOf(i, o) PROVE ResultOf(i, o)'
  BY <1>1, <1>8, <1>10 DEF ResultOf
<1>11. StateOK'
  BY <1>1, <1>7, <1>9 DEF IInv, StateOK
<1>12. LoggedIsMeant'
  BY <1>7, <1>8 DEF IInv, LoggedIsMeant
<1>13. ScoreInv'
  <2> SUFFICES ASSUME NEW i \in DOMAIN predictions, predictions'[i].outcome # None
               PROVE  ResultOf(i, predictions[i].outcome)'
    BY <1>7 DEF ScoreInv, ResultOf
  <2>1. CASE i = r
    <3>1. predictions'[r].outcome = outcome /\ predictions'[r].token = predictions[r].token
      BY <1>6, <1>7
    <3> QED
      BY <1>1, <1>2, <2>1, <3>1 DEF ResultOf
  <2>2. CASE i # r
    <3>1. ResultOf(i, predictions[i].outcome)
      BY <1>7, <2>2 DEF IInv, ScoreInv
    <3> QED
      BY <1>7, <1>10, <2>2, <3>1 DEF ResultOf
  <2> QED
    BY <2>1, <2>2
<1>14. FoundInv'
  <2> SUFFICES ASSUME NEW k \in Journals, journal'[k].found # None
               PROVE  /\ journal'[k].found.row \in DOMAIN predictions'
                      /\ ResultOf(journal[k].found.row, journal[k].found.outcome)'
    BY DEF FoundInv, ResultOf
  <2>1. k # j /\ journal'[k] = journal[k]
    BY <1>4, <1>9
  <2>2. /\ journal[k].found.row \in DOMAIN predictions
        /\ ResultOf(journal[k].found.row, journal[k].found.outcome)
    BY <2>1 DEF IInv, FoundInv
  <2>3. PICK i, o : i = journal[k].found.row /\ o = journal[k].found.outcome
    OBVIOUS
  <2>4. ResultOf(i, o)'
    BY <1>10, <2>2, <2>3
  <2> QED
    BY <1>7, <2>1, <2>2, <2>3, <2>4 DEF ResultOf
<1>15. DueInv'
  <2>0. \A i \in DOMAIN predictions : IsDue(i) => IsDue(i)'
    BY <1>1, <1>8 DEF IsDue
  <2> SUFFICES ASSUME NEW k \in Journals
               PROVE  /\ journal'[k].todo \subseteq DOMAIN predictions'
                      /\ \A i \in journal'[k].due :
                            /\ i \in DOMAIN predictions'
                            /\ IsDue(i)'
                            /\ journal'[k].clean =>
                                  i \in journal'[k].todo \/ predictions'[i].outcome # None
    BY DEF DueInv
  <2>1. /\ journal[k].todo \subseteq DOMAIN predictions
        /\ \A i \in journal[k].due :
              /\ i \in DOMAIN predictions
              /\ IsDue(i)
              /\ journal[k].clean =>
                    i \in journal[k].todo \/ predictions[i].outcome # None
    BY DEF IInv, DueInv
  <2>2. CASE k = j
    BY <1>1, <1>3, <1>4, <1>6, <1>7, <1>8, <1>9, <2>0, <2>1, <2>2 DEF pass
  <2>3. CASE k # j
    BY <1>1, <1>7, <1>8, <1>9, <2>0, <2>1, <2>3
  <2> QED
    BY <2>2, <2>3
<1>16. MemoInv'
  BY <1>1 DEF IInv, MemoInv, MemoOK, InMemo, Analysed
<1> QED
  BY <1>11, <1>12, <1>13, <1>14, <1>15, <1>16 DEF IInv

-----------------------------------------------------------------------------
LEMMA NextIInv == IInv /\ [Next]_vars => IInv'
<1> SUFFICES ASSUME IInv, [Next]_vars PROVE IInv'
  OBVIOUS
<1>0. /\ venue \in Venues /\ markets \in Caches /\ request.asked \in SUBSET Words
      /\ DOMAIN request = {"asked", "packs", "calls", "facts", "analysed"}
      /\ MemoInv /\ MemoOK(request.analysed)
      /\ \A listed : Refreshed(listed, markets) \in Caches
  BY CacheType DEF IInv, StateOK, MemoInv
<1>1. ASSUME NEW t \in Tokens, Move(t) \/ Resolve(t) \/ Archive(t) PROVE IInv'
  <2>1. venue' \in Venues
    <3>1. CASE Move(t)
      <4>1. PICK p \in Quotes : venue' = [venue EXCEPT ![t].price = p]
        BY <3>1 DEF Move
      <4>2. p \in Prices
        BY DeskAssumption DEF Prices
      <4> QED
        BY <1>0, <4>1, <4>2 DEF Venues
    <3>2. CASE Resolve(t)
      <4>1. PICK p \in {0, Payout \div 2, Payout} :
               venue' = [venue EXCEPT ![t] = [@ EXCEPT !.price = p, !.closed = TRUE]]
        BY <3>2 DEF Resolve
      <4>2. p \in Prices
        BY DeskAssumption DEF Prices
      <4> QED
        BY <1>0, <4>1, <4>2 DEF Venues
    <3>3. CASE Archive(t)
      BY <1>0, <3>3 DEF Archive, Venues
    <3> QED
      BY <1>1, <3>1, <3>2, <3>3
  <2>2. \A u \in Tokens : /\ venue[u].closed => venue'[u] = venue[u]
                          /\ venue[u].archived => venue'[u].archived
    BY <1>0, <1>1 DEF Move, Resolve, Archive, Venues
  <2> QED
    BY <1>1, <2>1, <2>2, ExchangeStep DEF Move, Resolve, Archive
<1>3. CASE ResolveMarket
  <2>1. PICK r \in Refs(request.asked, request.asked = {} \/ AsksForAny(request.asked)) :
           markets' = r.cache /\ Produce(Fact("market_ref", r.ref), request.analysed)
    BY <1>3 DEF ResolveMarket
  <2>2. markets' \in Caches
    BY <1>0, <2>1, MatchNamesIt
  <2>3. MemoInv'
    BY <1>0, <2>1, PlainFact
  <2> QED
    BY <1>3, <2>1, <2>2, <2>3, RequestStep DEF ResolveMarket, Call
<1>4. CASE Discover
  <2>0. PICK listed \in Listings :
           \E value : /\ markets' = Refreshed(listed, markets)
                      /\ Produce(Fact("candidates", value), request.analysed)
    BY <1>4 DEF Discover
  <2>1. PICK value : /\ markets' = Refreshed(listed, markets)
                     /\ Produce(Fact("candidates", value), request.analysed)
    BY <2>0
  <2>2. MemoInv'
    BY <1>0, <2>1, PlainFact
  <2> QED
    BY <1>0, <1>4, <2>1, <2>2, RequestStep DEF Discover, Call
<1>5. CASE Recommend
  <2> DEFINE Ranking(scored, cores) ==
           /\ \A t \in scored : cores[t] \in AnalysisCores(t, request.analysed, markets)
           /\ \/ /\ scored = {}
                 /\ Produce(Fact("recommendation", [pick |-> None, cores |-> cores]), request.analysed)
              \/ \E t \in scored :
                    Produce([k \in {"recommendation", "market_ref"} |->
                               IF k = "market_ref" THEN Ref(t, "pick", {})
                               ELSE [pick |-> t, cores |-> cores]], Remember(cores))
  <2>0. PICK scored \in SUBSET request.facts["candidates"] :
           \E cores \in [scored -> UNION {AnalysisCores(t, request.analysed, markets) : t \in scored}] :
              Ranking(scored, cores)
    BY <1>5 DEF Recommend
  <2>1. PICK cores \in [scored -> UNION {AnalysisCores(t, request.analysed, markets) : t \in scored}] :
           Ranking(scored, cores)
    BY <2>0
  <2>2. /\ DOMAIN cores = scored
        /\ \A t \in DOMAIN cores : /\ cores[t].token = t
                                   /\ t \in DOMAIN request.analysed => cores[t] = request.analysed[t]
    BY <1>0, <2>1, AnalysisOfToken
  <2>3. /\ MemoOK(Remember(cores))
        /\ \A c : InMemo(c, request.analysed) => InMemo(c, Remember(cores))
        /\ \A t \in DOMAIN cores : InMemo(cores[t], Remember(cores))
    BY <1>0, <2>2, RememberKeeps
  <2>4. CASE /\ scored = {}
             /\ Produce(Fact("recommendation", [pick |-> None, cores |-> cores]), request.analysed)
    <3> DEFINE facts == Fact("recommendation", [pick |-> None, cores |-> cores])
    <3>1. \A k \in DOMAIN facts : \A c \in Analysed(k, facts[k]) : InMemo(c, request.analysed)
      BY <2>2, <2>4 DEF Fact, Analysed
    <3> HIDE DEF facts
    <3>2. MemoInv'
      BY <1>0, <2>4, <3>1, MemoStep DEF facts
    <3> QED
      BY <1>0, <1>5, <2>4, <3>2, RequestStep DEF Recommend, Call
  <2>5. ASSUME NEW t \in scored,
               Produce([k \in {"recommendation", "market_ref"} |->
                          IF k = "market_ref" THEN Ref(t, "pick", {})
                          ELSE [pick |-> t, cores |-> cores]], Remember(cores))
        PROVE  IInv'
    <3> DEFINE facts == [k \in {"recommendation", "market_ref"} |->
                            IF k = "market_ref" THEN Ref(t, "pick", {})
                            ELSE [pick |-> t, cores |-> cores]]
    <3>1. \A k \in DOMAIN facts : \A c \in Analysed(k, facts[k]) : InMemo(c, Remember(cores))
      BY <2>3 DEF Analysed
    <3> HIDE DEF facts
    <3>2. MemoInv'
      BY <1>0, <2>3, <2>5, <3>1, MemoStep DEF facts
    <3> QED
      BY <1>0, <1>5, <2>5, <3>2, RequestStep DEF Recommend, Call
  <2> QED
    BY <2>1, <2>4, <2>5
<1>6. ASSUME NEW a \in Analyses
      PROVE  /\ a.cache \in Caches
             /\ MemoOK(a.analysed)
             /\ \A c : InMemo(c, request.analysed) => InMemo(c, a.analysed)
             /\ a.core = NothingAnalysed \/ InMemo(a.core, a.analysed)
  <2> DEFINE t == request.facts["market_ref"].token
             Of(cache) ==
                IF t = None \/ cache[t] = None
                THEN {[cache |-> cache, core |-> NothingAnalysed, analysed |-> request.analysed]}
                ELSE {[cache |-> cache, core |-> core,
                       analysed |-> Remember([u \in {t} |-> core])] :
                         core \in AnalysisCores(t, request.analysed, cache)}
  <2>1. PICK listed \in Listings : a \in Of(LookedUp(t, listed, markets))
    BY DEF Analyses
  <2>2. PICK cache \in Caches : cache = LookedUp(t, listed, markets)
    BY <1>0, CacheType
  <2>3. \/ a = [cache |-> cache, core |-> NothingAnalysed, analysed |-> request.analysed]
        \/ \E core \in AnalysisCores(t, request.analysed, cache) :
              a = [cache |-> cache, core |-> core, analysed |-> Remember([u \in {t} |-> core])]
    BY <2>1, <2>2
  <2> HIDE DEF Of, t
  <2>4. CASE a = [cache |-> cache, core |-> NothingAnalysed, analysed |-> request.analysed]
    BY <1>0, <2>4
  <2>5. ASSUME NEW core \in AnalysisCores(t, request.analysed, cache),
               a = [cache |-> cache, core |-> core, analysed |-> Remember([u \in {t} |-> core])]
        PROVE  /\ a.cache \in Caches
               /\ MemoOK(a.analysed)
               /\ \A c : InMemo(c, request.analysed) => InMemo(c, a.analysed)
               /\ InMemo(a.core, a.analysed)
    <3> DEFINE cores == [u \in {t} |-> core]
    <3>1. core.token = t /\ (t \in DOMAIN request.analysed => core = request.analysed[t])
      BY <1>0, <2>5, AnalysisOfToken
    <3>2. DOMAIN cores = {t} /\ cores[t] = core
      OBVIOUS
    <3> HIDE DEF cores
    <3>3. /\ MemoOK(Remember(cores))
          /\ \A c : InMemo(c, request.analysed) => InMemo(c, Remember(cores))
          /\ InMemo(core, Remember(cores))
      BY <1>0, <3>1, <3>2, RememberKeeps
    <3> QED
      BY <2>5, <3>3 DEF cores
  <2> QED
    BY <2>3, <2>4, <2>5
<1>7. CASE AnalyzeMarket
  <2>1. PICK a \in Analyses :
           markets' = a.cache /\ Produce(Fact("market_analysis", a.core), a.analysed)
    BY <1>7 DEF AnalyzeMarket
  <2> DEFINE facts == Fact("market_analysis", a.core)
  <2>2. \A k \in DOMAIN facts : \A c \in Analysed(k, facts[k]) : InMemo(c, a.analysed)
    BY <1>6 DEF Fact, Analysed
  <2> HIDE DEF facts
  <2>3. MemoInv'
    BY <1>0, <1>6, <2>1, <2>2, MemoStep DEF facts
  <2> QED
    BY <1>6, <1>7, <2>1, <2>3, RequestStep DEF AnalyzeMarket, Call
<1>8. CASE PaperTrade
  <2>1. PICK a \in Analyses, executed \in BOOLEAN :
           /\ markets' = a.cache
           /\ Produce(Fact("paper_trade", [core |-> a.core, executed |-> executed]), a.analysed)
    BY <1>8 DEF PaperTrade
  <2> DEFINE facts == Fact("paper_trade", [core |-> a.core, executed |-> executed])
  <2>2. \A k \in DOMAIN facts : \A c \in Analysed(k, facts[k]) : InMemo(c, a.analysed)
    BY <1>6 DEF Fact, Analysed
  <2> HIDE DEF facts
  <2>3. MemoInv'
    BY <1>0, <1>6, <2>1, <2>2, MemoStep DEF facts
  <2> QED
    BY <1>6, <1>8, <2>1, <2>3, RequestStep DEF PaperTrade, Call
<1>9. CASE LogPrediction
  <2>0. ASSUME NEW refused, Logged(refused) PROVE MemoInv'
    BY <1>0, <2>0, PlainFact DEF Logged
  <2>1. CASE Logged(TRUE) /\ UNCHANGED <<markets, predictions>>
    BY <1>0, <1>9, <2>0, <2>1, RequestStep DEF LogPrediction, Call, Logged
  <2>2. ASSUME NEW r \in Refs(request.asked, AsksForAny(request.asked)), NEW again \in Listings,
               IF r.ref.matched \in {"error", "fallback"}
               THEN markets' = r.cache /\ Logged(TRUE) /\ UNCHANGED predictions
               ELSE /\ markets' = LookedUp(r.ref.token, again, r.cache)
                    /\ predictions' = Append(predictions, Prediction(r.ref, markets'))
                    /\ Logged(FALSE)
        PROVE  IInv'
    <3>0. /\ r.cache \in Caches
          /\ r.ref.matched \notin {"error", "fallback"} =>
                /\ r.ref.token \in Tokens /\ r.ref.by \in SUBSET Words
                /\ \/ request.asked = {r.ref.token}
                   \/ Found[r.ref.token] \cap r.ref.by # {}
                   \/ AsksForAny(request.asked)
      <4> DEFINE any == AsksForAny(request.asked)
      <4>1. r \in Refs(request.asked, any)
        OBVIOUS
      <4> HIDE DEF any
      <4>2. r.cache \in Caches /\ NamesIt(request.asked, any, r.ref)
        BY <1>0, <4>1, MatchNamesIt
      <4> QED
        BY <4>2 DEF any, NamesIt
    <3>1. CASE r.ref.matched \in {"error", "fallback"}
      <4>1. markets' = r.cache /\ Logged(TRUE) /\ UNCHANGED predictions
        BY <2>2, <3>1, Zenon
      <4>2. UNCHANGED <<venue, journal>>
        BY <1>9 DEF LogPrediction, Call
      <4> QED
        BY <2>0, <3>0, <4>1, <4>2, RequestStep DEF Logged
    <3>2. CASE r.ref.matched \notin {"error", "fallback"}
      <4>0. markets' = LookedUp(r.ref.token, again, r.cache)
        BY <2>2, <3>2, Zenon
      <4>1. markets' \in Caches
        BY <1>0, <3>0, <3>2, <4>0, CacheType, Zenon
      <4>2. PICK t \in Tokens, by \in SUBSET Words : t = r.ref.token /\ by = r.ref.by
        BY <3>0, <3>2
      <4>3. predictions' = Append(predictions,
                                  Open(t, request.asked, by, markets'[t] # None))
        BY <2>2, <3>2, <4>2 DEF Prediction
      <4>4. Logged(FALSE) /\ UNCHANGED <<venue, journal>>
        BY <1>9, <2>2, <3>2 DEF LogPrediction, Call
      <4>5. request.asked = {t} \/ Found[t] \cap by # {} \/ AsksForAny(request.asked)
        BY <3>0, <3>2, <4>2
      <4> QED
        BY <2>0, <4>1, <4>3, <4>4, <4>5, LogStep DEF Logged
    <3> QED
      BY <3>1, <3>2
  <2> QED
    BY <1>9, <2>1, <2>2 DEF LogPrediction
<1>10. ASSUME NEW j \in Journals, JournalOpen(j) PROVE IInv'
  <2> DEFINE pass == [on |-> TRUE, todo |-> OpenRows, found |-> None, clean |-> TRUE,
                      due |-> {i \in OpenRows : IsDue(i)}]
  <2>1. OpenRows \subseteq DOMAIN predictions /\ OpenRows \in SUBSET Nat
    BY DEF OpenRows, IInv, StateOK
  <2>2. pass \in Pass
    BY <2>1 DEF Pass
  <2>3. journal' = [journal EXCEPT ![j] = pass]
    BY <1>10 DEF JournalOpen
  <2>4. \A i \in pass.due :
           /\ i \in DOMAIN predictions
           /\ IsDue(i)
           /\ pass.clean => i \in pass.todo \/ predictions[i].outcome # None
    BY <2>1
  <2>5. pass.found = None /\ pass.todo = OpenRows
    OBVIOUS
  <2> HIDE DEF pass
  <2> QED
    BY <1>10, <2>1, <2>2, <2>3, <2>4, <2>5, PassStep DEF JournalOpen
<1>11. ASSUME NEW j \in Journals, JournalEnd(j) PROVE IInv'
  <2>1. IdlePass \in Pass
    BY DEF IdlePass, Pass
  <2>2. IdlePass.todo = {} /\ IdlePass.due = {} /\ IdlePass.found = None
    BY DEF IdlePass
  <2> QED
    BY <1>11, <2>1, <2>2, PassStep DEF JournalEnd
<1>12. CASE UNCHANGED vars
  <2>1. StateOK' /\ LoggedIsMeant' /\ ScoreInv' /\ FoundInv' /\ DueInv'
    BY <1>12 DEF vars, IInv, StateOK, LoggedIsMeant, ScoreInv, FoundInv, DueInv, IsDue, ResultOf
  <2>2. MemoInv'
    BY <1>12 DEF vars, IInv, MemoInv, MemoOK, InMemo, Analysed
  <2> QED
    BY <2>1, <2>2 DEF IInv
<1> QED
  BY <1>1, <1>3, <1>4, <1>5, <1>7, <1>8, <1>9, <1>10, <1>11, <1>12,
     FetchStep, MarkStep DEF Next

-----------------------------------------------------------------------------
(* Whatever the LLM thinks of a market, however often the request comes     *)
(* back to it and whatever the price does meanwhile, the ranking, the       *)
(* framework and the trade show one and the same analysis of it             *)
(* (wiring.py:1185-1201).                                                   *)
THEOREM OneAnalysisPerToken == Spec => []AnalysesAgree
<1>1. IInv => AnalysesAgree
  BY DEF IInv, MemoInv, InMemo, AnalysesAgree
<1> QED
  BY <1>1, InitIInv, NextIInv, PTL DEF Spec

(* Whatever is asked for and whatever keywords the LLM answers, a row of    *)
(* the journal is about a market that they or the request's words find, the *)
(* token the request is, or it asked for any market (wiring.py:793-798).    *)
THEOREM LoggedIsMatched == Spec => []LoggedIsMeant
<1>1. IInv => LoggedIsMeant
  BY DEF IInv
<1> QED
  BY <1>1, InitIInv, NextIInv, PTL DEF Spec

(* A scored row has the result of a closed market unless the market was     *)
(* archived first, however many passes overlap and however long one waits   *)
(* between fetching a market and marking the row (wiring.py:823-834).       *)
THEOREM ScoredByTheResult == Spec => []ScoresAreResults
<1>1. IInv => ScoresAreResults
  BY DEF IInv, ScoreInv, ResultOf, ScoresAreResults, IsResult
<1> QED
  BY <1>1, InitIInv, NextIInv, PTL DEF Spec

(* A pass whose every fetch succeeded has scored each row that was due when *)
(* it began, itself or through another pass (wiring.py:823-834).            *)
THEOREM NothingDueIsLeft == Spec => []JournalLeavesNothingDue
<1>1. IInv => JournalLeavesNothingDue
  BY DEF IInv, DueInv, Finished, JournalLeavesNothingDue
<1> QED
  BY <1>1, InitIInv, NextIInv, PTL DEF Spec

=============================================================================
