-------------------------------- MODULE Kernel --------------------------------
(***************************************************************************)
(* One request in kernel mode (kernel/run.py run_mode): the LLM controller *)
(* over a registry of capabilities (kernel/controller.py), and the         *)
(* deterministic goal-directed loop it falls back to (kernel/core.py).     *)
(*                                                                         *)
(* A capability is known by the facts it needs, the facts it produces, its *)
(* cost and what is special about it: it may stream tokens, produce less   *)
(* than it declares, or place a paper order.  The LLM is free to answer    *)
(* anything.                                                               *)
(***************************************************************************)
EXTENDS Integers, Sequences, FiniteSets

CONSTANTS Facts,        \* fact keys
          Registry,     \* capabilities of the session: CORE and the packs
          Pre, Effects, \* their preconditions and effects
          Optional,     \* effects a run may leave out
          Cost,         \* their cost, for the deterministic planner
          Streaming,    \* the capabilities with a stream function
          Trading,      \* the capabilities that place a paper order
          Seed,         \* what the controller starts from: question, event
          Goals,        \* goals recognize() can make: targets and facts
          Answer,       \* the fact the controller's answer lands in
          NoCapability, \* none is being run
          MaxSteps      \* step budget (12 in run_mode)

ASSUME KernelAssumption ==
    /\ IsFiniteSet(Facts) /\ NoCapability \notin Registry
    /\ Pre \in [Registry -> SUBSET Facts]
    /\ Effects \in [Registry -> SUBSET Facts]
    /\ Optional \in [Registry -> SUBSET Facts]
    /\ Cost \in [Registry -> Nat]
    /\ Streaming \subseteq Registry /\ Trading \subseteq Registry
    /\ Seed \subseteq Facts /\ Answer \in Facts
    /\ \A g \in Goals : g.targets \subseteq Facts /\ g.facts \subseteq Facts
    /\ MaxSteps \in Nat

(* Whatever trades delivers the same facts, all of them: paper_trade is the *)
(* only one.                                                                *)
ASSUME TradingAssumption ==
    \A c, d \in Trading : Effects[c] = Effects[d] /\ Effects[c] \cap Optional[c] = {}

(* No goal that recognize() makes needs, however far behind it, what a trade *)
(* delivers.                                                                 *)
ASSUME GoalsAssumption ==
    \A g \in Goals : \E need \in SUBSET Facts :
       /\ g.targets \subseteq need
       /\ \A c \in Registry : Effects[c] \cap need # {} => Pre[c] \subseteq need
       /\ \A c \in Trading : Effects[c] \cap need = {}

VARIABLES pc,       \* where run_mode is
          goal,     \* what recognize() makes of the request
          known,    \* ctx.facts, as the set of its keys
          step,     \* iterations of the current loop
          running,  \* the capability being run
          decided,  \* capability calls the controller's LLM has decided on
          path,     \* ctx.trace: <<capability, ok>>
          queue,    \* events posted by on_event and not read yet
          orders    \* history: paper orders booked for this request

kernelVars == <<pc, goal, known, step, running, decided, path, queue, orders>>

-----------------------------------------------------------------------------
Event(type, name) == [type |-> type, name |-> name]

EventTypes == {"token", "start", "done", "error", "result", "failure"}

Locations == {"controller", "controllerRun",
              "loop", "loopRun", "returned"}

TypeOK ==
    /\ pc \in Locations
    /\ goal \in Goals
    /\ known \subseteq Facts
    /\ step \in 0..MaxSteps
    /\ running \in Registry \cup {NoCapability}
    /\ decided \in 0..MaxSteps
    /\ path \in Seq(Registry \X BOOLEAN)
    /\ queue \in Seq([type : EventTypes, name : Registry \cup {NoCapability}])
    /\ orders \in Nat

Emit(type, name) == queue' = Append(queue, Event(type, name))

(* For comparison: capabilities whose effects are already known.            *)
RunnableAgain == {c \in Registry : Pre[c] \subseteq known}

Runnable == {c \in Registry : Pre[c] \subseteq known /\ ~(Effects[c] \subseteq known)}

-----------------------------------------------------------------------------
(* run_mode: the controller when an LLM can be built, else the loop.  The   *)
(* loop starts over, from the goal's own facts.                             *)

EnterLoop ==
    /\ pc' = "loop"
    /\ known' = goal.facts
    /\ step' = 0
    /\ path' = <<>>
    /\ running' = NoCapability

KernelInit ==
    /\ goal \in Goals
    /\ \/ pc = "controller" /\ known = Seed
       \/ pc = "loop" /\ known = goal.facts
    /\ step = 0 /\ decided = 0 /\ orders = 0
    /\ running = NoCapability /\ path = <<>> /\ queue = <<>>

Return ==
    /\ pc' = "returned"
    /\ running' = NoCapability
    /\ Emit("result", NoCapability)

-----------------------------------------------------------------------------
(* KernelController.run.                                                    *)

ControllerTurn == pc = "controller" /\ step < MaxSteps

NextIteration == pc' = "controller" /\ step' = step + 1

(* A final answer that is not empty ends the run.                           *)
FinalAnswer ==
    /\ ControllerTurn
    /\ Return
    /\ known' = known \cup {Answer}
    /\ UNCHANGED <<goal, step, decided, path, orders>>

(* The model failed or answered nothing of use, or named a capability that  *)
(* is not runnable: a note for the next prompt.                             *)
Nudge ==
    /\ ControllerTurn
    /\ NextIteration
    /\ UNCHANGED <<goal, known, running, decided, path, queue, orders>>

(* For comparison: a turn that costs no budget.                             *)
CallNotCounted(c) ==
    /\ ControllerTurn
    /\ c \in Runnable
    /\ pc' = "controllerRun"
    /\ running' = c
    /\ UNCHANGED decided
    /\ Emit("start", c)
    /\ UNCHANGED <<goal, known, step, path, orders>>

ControllerCall(c) ==
    /\ ControllerTurn
    /\ c \in Runnable
    /\ pc' = "controllerRun"
    /\ running' = c
    /\ decided' = decided + 1
    /\ Emit("start", c)
    /\ UNCHANGED <<goal, known, step, path, orders>>

(* Tokens of a streaming capability, while it runs.  Bound: one of them     *)
(* waits to be read at a time.                                              *)
EmitToken ==
    /\ pc = "controllerRun"
    /\ running \in Streaming
    /\ \A i \in DOMAIN queue : queue[i].type # "token"
    /\ Emit("token", NoCapability)
    /\ UNCHANGED <<pc, goal, known, step, running, decided, path, orders>>

(* What a run of c can add to the facts: all its effects, or all but the    *)
(* optional ones.                                                           *)
Produce(c) == \E left \in SUBSET Optional[c] : known' = known \cup (Effects[c] \ left)

(* Whether a paper order was booked on the way.                             *)
MayTrade(c) == orders' \in IF c \in Trading THEN {orders, orders + 1} ELSE {orders}

(* For comparison: a result without an event.                               *)
DoneUnannounced ==
    /\ pc = "controllerRun"
    /\ NextIteration
    /\ Produce(running)
    /\ MayTrade(running)
    /\ path' = Append(path, <<running, TRUE>>)
    /\ running' = NoCapability
    /\ UNCHANGED <<goal, decided, queue>>

ControllerDone ==
    /\ pc = "controllerRun"
    /\ NextIteration
    /\ Produce(running)
    /\ MayTrade(running)
    /\ path' = Append(path, <<running, TRUE>>)
    /\ running' = NoCapability
    /\ Emit("done", running)
    /\ UNCHANGED <<goal, decided>>

(* The capability raised: the model may call it again.  A paper trade can   *)
(* raise after its order was booked (portfolio_status walks the positions   *)
(* while other threads change them).                                        *)
ControllerError ==
    /\ pc = "controllerRun"
    /\ NextIteration
    /\ MayTrade(running)
    /\ path' = Append(path, <<running, FALSE>>)
    /\ running' = NoCapability
    /\ Emit("error", running)
    /\ UNCHANGED <<goal, known, decided>>

(* For comparison: a forced answer that starts over.                        *)
AskUntilAnswered ==
    /\ pc = "controller" /\ step = MaxSteps
    /\ \E ok \in BOOLEAN :
          \/ /\ decided > 0 \/ ok
             /\ Return
             /\ known' = known \cup {Answer}
             /\ UNCHANGED <<step, path>>
          \/ /\ decided = 0 /\ ~ok
             /\ step' = 0
             /\ UNCHANGED <<pc, known, running, path, queue>>
    /\ UNCHANGED <<goal, decided, orders>>

(* The budget is spent: the model is asked for an answer once more.  If it  *)
(* gives none and has never called anything, it counts as unusable.         *)
ForcedAnswer ==
    /\ pc = "controller" /\ step = MaxSteps
    /\ \E ok \in BOOLEAN :
          \/ /\ decided > 0 \/ ok
             /\ Return
             /\ known' = known \cup {Answer}
             /\ UNCHANGED <<step, path>>
          \/ /\ decided = 0 /\ ~ok
             /\ EnterLoop
             /\ UNCHANGED queue
    /\ UNCHANGED <<goal, decided, orders>>

Controller ==
    \/ FinalAnswer \/ Nudge
    \/ \E c \in Registry : ControllerCall(c)
    \/ ControllerDone \/ ControllerError \/ ForcedAnswer

-----------------------------------------------------------------------------
(* AgentLoop.run with the planner next_capability.                          *)

(* The effects still needed, backwards from the targets: the least set that *)
(* holds them and what the providers of its members require.                *)
Needed ==
    LET closed(need) ==
            /\ goal.targets \ known \subseteq need
            /\ \A c \in Registry : Effects[c] \cap need # {} => Pre[c] \ known \subseteq need
    IN {f \in Facts : \A need \in SUBSET Facts : closed(need) => f \in need}

GoalMet == goal.targets \subseteq known

Useful == {c \in Runnable : Effects[c] \cap Needed # {}}

(* The cheapest useful one; ties are broken by name, here by choice.        *)
Planned == IF GoalMet THEN {}
           ELSE {c \in Useful : \A d \in Useful : Cost[c] <= Cost[d]}

LoopCall(c) ==
    /\ pc = "loop" /\ step < MaxSteps
    /\ c \in Planned
    /\ pc' = "loopRun"
    /\ running' = c
    /\ Emit("start", c)
    /\ UNCHANGED <<goal, known, step, decided, path, orders>>

LoopDone ==
    /\ pc = "loopRun"
    /\ pc' = "loop" /\ step' = step + 1
    /\ Produce(running)
    /\ MayTrade(running)
    /\ path' = Append(path, <<running, TRUE>>)
    /\ running' = NoCapability
    /\ Emit("done", running)
    /\ UNCHANGED <<goal, decided>>

(* Unlike the controller, the loop gives up at the first error.             *)
LoopError ==
    /\ pc = "loopRun"
    /\ pc' = "returned"
    /\ MayTrade(running)
    /\ path' = Append(path, <<running, FALSE>>)
    /\ running' = NoCapability
    /\ queue' = queue \o <<Event("error", running), Event("result", NoCapability)>>
    /\ UNCHANGED <<goal, known, step, decided>>

LoopEnd ==
    /\ pc = "loop"
    /\ step = MaxSteps \/ Planned = {}
    /\ Return
    /\ UNCHANGED <<goal, known, step, decided, path, orders>>

Loop == (\E c \in Registry : LoopCall(c)) \/ LoopDone \/ LoopError \/ LoopEnd

(* The registry or the engine behind it cannot be built.                    *)
SetupFails ==
    /\ pc \in {"controller", "loop"} /\ step = 0 /\ path = <<>>
    /\ decided = 0 /\ queue = <<>>
    /\ pc' = "returned"
    /\ Emit("failure", NoCapability)
    /\ UNCHANGED <<goal, known, step, running, decided, path, orders>>

Work == Controller \/ Loop

-----------------------------------------------------------------------------
(* Properties of the loops.                                                 *)

Trades == {i \in DOMAIN path : path[i][1] \in Trading}

(* A request trades at most once for good: only a run that failed after its *)
(* order was booked can be repeated, so of the orders of a request at most  *)
(* one belongs to a run that reported back (controller.py:221-223, 273-279).*)
RepeatsOnlyAfterFailure ==
    /\ Cardinality({i \in Trades : path[i][2]}) <= 1
    /\ orders <= Cardinality(Trades)

(* A request that has placed an order is never handled a second time from   *)
(* scratch by the fallback (controller.py:266, 289-290; run.py:68).         *)
NoFallbackAfterTrade == pc \in {"loop", "loopRun"} => orders = 0

=============================================================================
