----------------------------- MODULE Supervisor -----------------------------
(***************************************************************************)
(* A strategy run (orchestration/): the supervisor dispatches sub-agents   *)
(* over one blackboard, in a thread of its own, and its events cross to    *)
(* the browser through the queue of the stream (web/server.py:502).  The   *)
(* live order book moves between the turns; the market object does not.    *)
(***************************************************************************)
EXTENDS Decision, SequencesExt

CONSTANTS Requests,   \* [strategy, router, found, key]: what may be asked for
          Beliefs,    \* probabilities the signal agent may return
          Books,      \* [mid, spread]: bound: states of the live book
          Market,     \* the market object: [price, liquidity, days]
          MaxIters,   \* turns of the loop
          MaxRepeat,  \* how often the LLM router runs one agent
          MaxMoves    \* bound: moves of the book

ASSUME SupervisorAssumption ==
    /\ Requests \subseteq [strategy : STRING, router : {"plan", "llm", "callback"},
                           found : BOOLEAN, key : BOOLEAN]
    /\ Books \subseteq [mid : 1..Unit - 1, spread : Nat] \cup {[mid |-> None, spread |-> None]}
    /\ {MaxIters, MaxRepeat} \subseteq Nat \ {0} /\ MaxMoves \in Nat

VARIABLES book,    \* what the venue would answer now
          moves,   \* moves of the book so far
          run,     \* the request
          worker,  \* "start", "route", the agent at work, "finish" or "ended"
          board,   \* the blackboard
          read,    \* the book the present signal was read from
          inbox,   \* the queue of the stream: events on their way to the event loop
          client   \* "open", "closed" (read to the end) or "gone"

supervisorVars == <<book, moves, run, worker, board, read, inbox, client>>

-----------------------------------------------------------------------------
Strategies ==
    [research |-> <<"data">>, signal |-> <<"data", "signal">>,
     full |-> <<"data", "signal", "risk">>,
     trade |-> <<"data", "signal", "risk", "execution">>]

Agents == ToSet(Strategies.trade)

ASSUME NobodyAssumption == None \notin Agents \cup {"unknown"}

(* A strategy nobody knows is the full one.                                 *)
PlanOf(strategy) ==
    IF strategy \in DOMAIN Strategies THEN Strategies[strategy] ELSE Strategies.full

(* A router other than the plan may choose from all the agents.             *)
Available == IF run.router = "plan" THEN ToSet(PlanOf(run.strategy)) ELSE Agents

(* What the blackboard knows of the microstructure; DataAgent overwrites    *)
(* it, SignalAgent only fills in what is not there.                         *)
Microstructure(state) == [price |-> state.price, spread |-> state.spread]

Result(agent, ok, halt) == [agent |-> agent, ok |-> ok, halt |-> halt]

EmptyBoard == [data |-> None, signal |-> None, risk |-> None, execution |-> None, trace |-> <<>>]

SupervisorInit ==
    /\ book \in Books
    /\ moves = 0
    /\ run \in Requests
    /\ worker = "start"
    /\ board = EmptyBoard
    /\ read = None
    /\ inbox = <<>>
    /\ client = "open"

-----------------------------------------------------------------------------
(* The venue.                                                               *)

BookMoves ==
    /\ moves < MaxMoves
    /\ moves' = moves + 1
    /\ \E b \in Books \ {book} : book' = b
    /\ UNCHANGED <<run, worker, board, read, inbox, client>>

-----------------------------------------------------------------------------
(* The worker thread.  A stream whose client is gone has nobody to read it. *)

PutEvents(events) == inbox' = IF client = "gone" THEN <<>> ELSE inbox \o events

(* No market, or no key for anything but research: an error and the end.    *)
Refused == ~run.found \/ (run.strategy # "research" /\ ~run.key)

(* For comparison: an early return that does not reach the `finally`.       *)
BeginWithoutEnd ==
    /\ worker = "start"
    /\ IF Refused THEN worker' = "ended" /\ PutEvents(<<"error">>)
                  ELSE worker' = "route" /\ PutEvents(<<"run_start">>)
    /\ UNCHANGED <<book, moves, run, board, read, client>>

Begin ==
    /\ worker = "start"
    /\ IF Refused THEN worker' = "ended" /\ PutEvents(<<"error", "end">>)
                  ELSE worker' = "route" /\ PutEvents(<<"run_start">>)
    /\ UNCHANGED <<book, moves, run, board, read, client>>

(* The LLM that is to route cannot be built, or the engine cannot.          *)
BeginFails ==
    /\ worker = "start" /\ ~Refused
    /\ worker' = "ended" /\ PutEvents(<<"error", "end">>)
    /\ UNCHANGED <<book, moves, run, board, read, client>>

TimesRun(agent) == Cardinality({i \in DOMAIN board.trace : board.trace[i].agent = agent})

(* For comparison: a router without its loop guard.                         *)
UnguardedNext ==
    CASE run.router = "plan" ->
            LET plan == PlanOf(run.strategy)
            IN IF Len(board.trace) < Len(plan) THEN {plan[Len(board.trace) + 1]} ELSE {None}
      [] OTHER -> Agents \cup {None}

(* The next agent by plan; by the LLM, where doubt, an unknown name and a   *)
(* repetition mean stop; or by any function at all.                         *)
NextAgent ==
    CASE run.router = "plan" ->
            LET plan == PlanOf(run.strategy)
            IN IF Len(board.trace) < Len(plan) THEN {plan[Len(board.trace) + 1]} ELSE {None}
      [] run.router = "llm" -> {a \in Agents : TimesRun(a) < MaxRepeat} \cup {None}
      [] run.router = "callback" -> Agents \cup {"unknown", None}

Halted == board.trace # <<>> /\ Last(board.trace).halt

Route ==
    /\ worker = "route"
    /\ ~Halted /\ Len(board.trace) < MaxIters
    /\ \E name \in NextAgent :
          \/ /\ name = None
             /\ worker' = "finish"
             /\ UNCHANGED <<board, inbox>>
          \/ /\ name \in Available
             /\ worker' = name
             /\ PutEvents(<<"agent_start">>)
             /\ UNCHANGED board
          \/ /\ name = "unknown"
             /\ worker' = "finish"
             /\ board' = [board EXCEPT !.trace = Append(@, Result(name, FALSE, TRUE))]
             /\ UNCHANGED inbox
    /\ UNCHANGED <<book, moves, run, read, client>>

LoopEnds ==
    /\ worker = "route"
    /\ Halted \/ Len(board.trace) = MaxIters
    /\ worker' = "finish"
    /\ UNCHANGED <<book, moves, run, board, read, inbox, client>>

(* The result of an agent goes to the trace and to the stream.              *)
Report(b, ok, halt) ==
    /\ board' = [b EXCEPT !.trace = Append(@, Result(worker, ok, halt))]
    /\ worker' = "route"
    /\ PutEvents(<<"agent_result">>)
    /\ UNCHANGED <<book, moves, run, client>>

(* Whatever an agent raises halts the loop and leaves the board as it was.  *)
AgentRaises ==
    /\ worker \in {"data", "signal"}
    /\ Report(board, FALSE, TRUE)
    /\ UNCHANGED read

DataAgent ==
    /\ worker = "data"
    /\ Report([board EXCEPT !.data = Microstructure(Collected(Market, book))], TRUE, FALSE)
    /\ UNCHANGED read

SignalAgent ==
    /\ worker = "signal"
    /\ \E p \in Beliefs, d \in {"yes", "none"} :
          LET state == Collected(Market, book)
          IN /\ Report([board EXCEPT !.signal = [direction |-> d, p |-> p, price |-> state.price],
                                     !.data = IF @ = None THEN Microstructure(state) ELSE @],
                       TRUE, FALSE)
             /\ read' = state

RiskAgent ==
    /\ worker = "risk"
    /\ UNCHANGED read
    /\ \/ /\ board.signal = None
          /\ Report(board, FALSE, TRUE)
       \/ /\ board.signal # None
          /\ LET d == Decide(board.signal, board.signal.price, Market.liquidity,
                             board.data.spread, Market.days)
             IN Report([board EXCEPT !.risk = [decision |-> d, of |-> board.signal]],
                       TRUE, d.action = "hold")

(* Stages the order; nothing is sent yet.                                   *)
ExecutionAgent ==
    /\ worker = "execution"
    /\ UNCHANGED read
    /\ \/ /\ board.risk = None
          /\ Report(board, FALSE, TRUE)
       \/ /\ board.risk # None /\ board.risk.decision.action \notin {"buy", "sell"}
          /\ Report(board, FALSE, FALSE)
       \/ /\ board.risk # None /\ board.risk.decision.action \in {"buy", "sell"}
          /\ Report([board EXCEPT !.execution = board.risk.decision], TRUE, FALSE)

Finish ==
    /\ worker = "finish"
    /\ worker' = "ended"
    /\ PutEvents(<<"run_end", "final", "end">>)
    /\ UNCHANGED <<book, moves, run, board, read, client>>

Supervise == Begin \/ BeginFails \/ Route \/ LoopEnds \/ AgentRaises \/ DataAgent \/ SignalAgent
        \/ RiskAgent \/ ExecutionAgent \/ Finish

-----------------------------------------------------------------------------
(* The event loop and the browser.                                          *)

Deliver ==
    /\ client = "open" /\ inbox # <<>>
    /\ inbox' = Tail(inbox)
    /\ client' = IF Head(inbox) = "end" THEN "closed" ELSE "open"
    /\ UNCHANGED <<book, moves, run, worker, board, read>>

Leave ==
    /\ client = "open"
    /\ client' = "gone" /\ inbox' = <<>>
    /\ UNCHANGED <<book, moves, run, worker, board, read>>

SupervisorNext == BookMoves \/ Supervise \/ Deliver \/ Leave

(* The thread runs until it returns, and the event loop serves its queue.   *)
SupervisorSpec ==
    /\ SupervisorInit /\ [][SupervisorNext]_supervisorVars
    /\ WF_supervisorVars(Supervise) /\ WF_supervisorVars(Deliver)

-----------------------------------------------------------------------------
SupervisorTyped ==
    /\ book \in Books /\ moves \in 0..MaxMoves /\ run \in Requests
    /\ worker \in {"start", "route", "finish", "ended"} \cup Agents
    /\ client \in {"open", "closed", "gone"}
    /\ Len(board.trace) <= MaxIters

(* Whatever a model chooses as the next agent, an order that stands on the  *)
(* board is the order of the decision on the board, and that was made for   *)
(* the signal on the board: none of them was replaced under the others      *)
(* (subagents.py:96-137, llm_router.py:67-69).  Only a callback, which      *)
(* nothing guards, can do that.                                             *)
OrderFollowsDecision ==
    run.router # "callback" /\ board.execution # None =>
        /\ board.execution = board.risk.decision
        /\ board.execution.action \in {"buy", "sell"}
        /\ board.risk.of = board.signal

(* The book mid is the real, tradeable reference, so prefer it when         *)
(* available (agents/risk.py:14-16): a decision is the one made at the      *)
(* price of the analysis behind its signal.                                 *)
DecidedAtTheBook ==
    run.router = "plan" /\ board.risk # None =>
        board.risk.decision =
            Decide(board.signal, EffectivePrice(read), read.liquidity, board.data.spread, read.days)

(* A client that stays reads to the end, whatever fails and however long    *)
(* the router would go on (web/server.py:511-545, supervisor.py:74).        *)
StreamEnds == <>(client \in {"closed", "gone"})

=============================================================================
