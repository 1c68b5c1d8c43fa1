----------------------------- MODULE AgentProofs -----------------------------
(***************************************************************************)
(* Theorems about the two agent loops and their streams.  Kernel and       *)
(* KernelStream, for any registry, goals, budget, LLM and client: the      *)
(* trade invariants follow what the controller's LLM has decided on, what  *)
(* the runs in the path have delivered and what the goals need; the        *)
(* stream's follow which tool the events on their way will have shown      *)
(* last.  Supervisor, for any requests, beliefs, books, thresholds and     *)
(* budget: what stands on the board was put there by agents in the trace,  *)
(* each of which ran once.                                                 *)
(***************************************************************************)
EXTENDS KernelStream, Supervisor, FiniteSetTheorems, TLAPS

InController == pc \in {"controller", "controllerRun"}

InLoop == pc \in {"loop", "loopRun"}

Busy == pc \in {"controllerRun", "loopRun"}

(* Where a request is: something runs exactly while it is run, within the   *)
(* budget, and the controller has a turn for every call decided on.         *)
ControlInv ==
    /\ IF Busy THEN running \in Registry /\ step < MaxSteps ELSE running = NoCapability
    /\ pc = "controller" => decided <= step
    /\ pc = "controllerRun" => 0 < decided /\ decided <= step + 1
    /\ InLoop => decided = 0
    /\ pc = "loopRun" => running \notin Trading

(* Orders are booked by runs the controller's LLM decided on, each of which *)
(* is in the path; no two of them succeeded, and none runs after one did.   *)
TradeInv ==
    /\ decided = 0 => orders = 0
    /\ orders <= Cardinality(Trades)
    /\ \A i, k \in Trades : path[i][2] /\ path[k][2] => i = k
    /\ \A i \in Trades : path[i][2] => \A c \in Trading : Effects[c] \subseteq known
    /\ pc = "controllerRun" /\ running \in Trading => \A i \in Trades : ~path[i][2]

KernelInv == TypeOK /\ ControlInv /\ TradeInv

(* The tool an event leaves shown, for the events that are about tools.     *)
AboutTool(e) == e.type \in {"start", "done", "error"}

Shows(e) == IF e.type = "start" THEN e.name ELSE NoCapability

Ending(e) == e.type \in {"result", "failure"}

(* When all of the queue q is shown, the tool shown is r: the last event    *)
(* about a tool says so, or there is none and it is shown already.          *)
Told(q, tool, r) ==
    /\ (\A i \in DOMAIN q : ~AboutTool(q[i])) => tool = r
    /\ \A i \in DOMAIN q :
          AboutTool(q[i]) /\ (\A k \in DOMAIN q : k > i => ~AboutTool(q[k])) => Shows(q[i]) = r

(* The end is posted last, and nothing after it.                            *)
EndsLast(q, ended) == \A i \in DOMAIN q : Ending(q[i]) => i = Len(q) /\ ended

ToolInv == Told(queue, stream.tool, running)

EndInv ==
    /\ EndsLast(queue, pc = "returned")
    /\ stream.pc = "done" => pc = "returned" /\ queue = <<>>

IInv == KernelInv /\ StreamTypeOK /\ ToolInv /\ EndInv

-----------------------------------------------------------------------------
(* The queue of events.                                                     *)

Events == [type : EventTypes, name : Registry \cup {NoCapability}]

LEMMA EventType ==
    ASSUME NEW type \in EventTypes, NEW name \in Registry \cup {NoCapability}
    PROVE  LET e == Event(type, name)
           IN e \in Events /\ e.type = type /\ e.name = name
BY DEF Event, Events

(* What an event posted does to what will be shown.                         *)
LEMMA Post ==
    ASSUME NEW q \in Seq(Events), NEW e \in Events, NEW tool, NEW r, NEW ended,
           Told(q, tool, r), \A i \in DOMAIN q : ~Ending(q[i]),
           Ending(e) => ended
    PROVE  /\ Append(q, e) \in Seq(Events)
           /\ Told(Append(q, e), tool, IF AboutTool(e) THEN Shows(e) ELSE r)
           /\ EndsLast(Append(q, e), ended)
           /\ ~Ending(e) => \A i \in DOMAIN Append(q, e) : ~Ending(Append(q, e)[i])
<1> DEFINE p == Append(q, e)
           n == Len(q)
<1>1. /\ p \in Seq(Events) /\ n \in Nat /\ Len(p) = n + 1
      /\ DOMAIN q = 1..n /\ DOMAIN p = 1..n + 1
      /\ p[n + 1] = e /\ \A i \in 1..n : p[i] = q[i]
  OBVIOUS
<1> HIDE DEF p
<1>2. CASE AboutTool(e)
  <2>1. \A i \in DOMAIN p : (\A k \in DOMAIN p : k > i => ~AboutTool(p[k])) => i = n + 1
    BY <1>1, <1>2
  <2>2. Told(p, tool, Shows(e))
    BY <1>1, <1>2, <2>1 DEF Told
  <2> QED
    BY <1>1, <1>2, <2>2 DEF EndsLast, p
<1>3. CASE ~AboutTool(e)
  <2>1. Told(p, tool, r)
    <3>1. ASSUME \A i \in DOMAIN p : ~AboutTool(p[i]) PROVE tool = r
      BY <1>1, <3>1 DEF Told
    <3>2. ASSUME NEW i \in DOMAIN p, AboutTool(p[i]),
                 \A k \in DOMAIN p : k > i => ~AboutTool(p[k])
          PROVE  Shows(p[i]) = r
      <4>1. i \in DOMAIN q /\ p[i] = q[i]
        BY <1>1, <1>3, <3>2
      <4>2. \A k \in DOMAIN q : k > i => ~AboutTool(q[k])
        BY <1>1, <3>2
      <4> QED
        BY <3>2, <4>1, <4>2 DEF Told
    <3> QED
      BY <3>1, <3>2 DEF Told
  <2> QED
    BY <1>1, <1>3, <2>1 DEF EndsLast, p
<1> QED
  BY <1>2, <1>3

(* What reading the first event does to what is shown.                      *)
LEMMA Read ==
    ASSUME NEW q \in Seq(Events), q # <<>>, NEW tool, NEW r, NEW ended, Told(q, tool, r),
           EndsLast(q, ended)
    PROVE  /\ Tail(q) \in Seq(Events) /\ Head(q) \in Events
           /\ Told(Tail(q), IF AboutTool(Head(q)) THEN Shows(Head(q)) ELSE tool, r)
           /\ EndsLast(Tail(q), ended)
           /\ Ending(Head(q)) => Tail(q) = <<>> /\ ended
<1> DEFINE p == Tail(q)
           n == Len(q)
<1>1. /\ p \in Seq(Events) /\ n \in Nat \ {0} /\ Len(p) = n - 1
      /\ DOMAIN q = 1..n /\ DOMAIN p = 1..n - 1
      /\ Head(q) = q[1] /\ Head(q) \in Events
      /\ \A i \in 1..n - 1 : p[i] = q[i + 1]
  OBVIOUS
<1> HIDE DEF p
<1>2. EndsLast(p, ended)
  BY <1>1 DEF EndsLast
<1>3. Ending(Head(q)) => Tail(q) = <<>> /\ ended
  BY <1>1 DEF EndsLast, p
<1>4. ASSUME NEW i \in DOMAIN p, AboutTool(p[i]), \A k \in DOMAIN p : k > i => ~AboutTool(p[k])
      PROVE  Shows(p[i]) = r
  <2>1. i + 1 \in DOMAIN q /\ q[i + 1] = p[i]
    BY <1>1
  <2>2. \A k \in DOMAIN q : k > i + 1 => k - 1 \in DOMAIN p /\ p[k - 1] = q[k] /\ k - 1 > i
    BY <1>1
  <2> QED
    BY <1>4, <2>1, <2>2 DEF Told
<1>5. ASSUME \A i \in DOMAIN p : ~AboutTool(p[i])
      PROVE  (IF AboutTool(Head(q)) THEN Shows(Head(q)) ELSE tool) = r
  <2>1. \A k \in DOMAIN q : k > 1 => ~AboutTool(q[k])
    <3>1. \A k \in DOMAIN q : k > 1 => k - 1 \in DOMAIN p /\ p[k - 1] = q[k]
      BY <1>1
    <3> QED
      BY <1>5, <3>1
  <2>2. CASE AboutTool(q[1])
    BY <1>1, <2>1, <2>2 DEF Told
  <2>3. CASE ~AboutTool(q[1])
    BY <1>1, <2>1, <2>3 DEF Told
  <2> QED
    BY <1>1, <2>2, <2>3
<1> QED
  BY <1>1, <1>2, <1>3, <1>4, <1>5 DEF Told, p

-----------------------------------------------------------------------------
(* What a run leaves in the path, and what it delivers.                     *)
LEMMA RunEnds ==
    ASSUME KernelInv, running \in Registry, NEW ok \in BOOLEAN,
           running \in Trading => \A i \in Trades : ~path[i][2],
           IF ok THEN Produce(running) ELSE known' = known,
           MayTrade(running), path' = Append(path, <<running, ok>>)
    PROVE  /\ path' \in Seq(Registry \X BOOLEAN) /\ known' \subseteq Facts /\ orders' \in Nat
           /\ orders' <= Cardinality(Trades')
           /\ \A i, k \in Trades' : path'[i][2] /\ path'[k][2] => i = k
           /\ \A i \in Trades' : path'[i][2] => \A c \in Trading : Effects[c] \subseteq known'
<1> DEFINE n == Len(path)
           last == <<running, ok>>
<1>1. /\ path \in Seq(Registry \X BOOLEAN) /\ orders \in Nat /\ known \subseteq Facts
      /\ Trading \subseteq Registry /\ orders <= Cardinality(Trades)
  BY KernelAssumption DEF KernelInv, TypeOK, TradeInv
<1>2. last \in Registry \X BOOLEAN /\ last[1] = running /\ last[2] = ok
  OBVIOUS
<1> HIDE DEF last
<1>3. /\ path' \in Seq(Registry \X BOOLEAN) /\ n \in Nat
      /\ DOMAIN path = 1..n /\ DOMAIN path' = 1..n + 1
      /\ path'[n + 1] = last /\ \A i \in 1..n : path'[i] = path[i]
  BY <1>1, <1>2 DEF last
<1>4. /\ IsFiniteSet(Trades) /\ n + 1 \notin Trades /\ Trades \subseteq 1..n
      /\ Trades' = IF running \in Trading THEN Trades \cup {n + 1} ELSE Trades
  <2>1. Trades \in SUBSET (1..n) /\ IsFiniteSet(1..n)
    BY <1>3, FS_Interval DEF Trades
  <2>2. IsFiniteSet(Trades)
    BY <2>1, FS_Subset
  <2>3. Trades' = IF running \in Trading THEN Trades \cup {n + 1} ELSE Trades
    BY <1>2, <1>3 DEF Trades
  <2> QED
    BY <1>3, <2>1, <2>2, <2>3
<1>5. orders' \in Nat /\ orders' <= Cardinality(Trades')
  <2>1. Cardinality(Trades) \in Nat
    BY <1>4, FS_CardinalityType
  <2>2. CASE running \in Trading
    <3>1. Cardinality(Trades') = Cardinality(Trades) + 1
      BY <1>4, <2>2, FS_AddElement
    <3> QED
      BY <1>1, <2>1, <2>2, <3>1 DEF MayTrade
  <2>3. CASE running \notin Trading
    BY <1>1, <1>4, <2>1, <2>3 DEF MayTrade
  <2> QED
    BY <2>2, <2>3
<1>6. known \subseteq known' /\ known' \subseteq Facts
  BY <1>1, KernelAssumption DEF Produce
<1>7. \A i \in Trades' : path'[i][2] =>
         \/ i \in Trades /\ path[i][2]
         \/ i = n + 1 /\ ok /\ running \in Trading
  BY <1>2, <1>3, <1>4
<1>8. \A i, k \in Trades' : path'[i][2] /\ path'[k][2] => i = k
  BY <1>7 DEF KernelInv, TradeInv
<1>9. ASSUME NEW i \in Trades', path'[i][2], NEW c \in Trading
      PROVE  Effects[c] \subseteq known'
  <2>1. CASE i \in Trades /\ path[i][2]
    BY <1>6, <2>1 DEF KernelInv, TradeInv
  <2>2. CASE ok /\ running \in Trading
    BY <2>2, TradingAssumption DEF Produce
  <2> QED
    BY <1>7, <1>9, <2>1, <2>2
<1> QED
  BY <1>3, <1>5, <1>6, <1>8, <1>9

(* The loop's planner never calls for a trade.                              *)
LEMMA PlanNeedsNoTrade ==
    ASSUME goal \in Goals, NEW c \in Planned
    PROVE  c \in Registry /\ c \notin Trading
<1>1. PICK need \in SUBSET Facts :
         /\ goal.targets \subseteq need
         /\ \A d \in Registry : Effects[d] \cap need # {} => Pre[d] \subseteq need
         /\ \A d \in Trading : Effects[d] \cap need = {}
  BY GoalsAssumption
<1>2. Needed \subseteq need
  BY <1>1 DEF Needed
<1>3. c \in Registry /\ Effects[c] \cap Needed # {}
  BY DEF Planned, Useful, Runnable
<1> QED
  BY <1>1, <1>2, <1>3

-----------------------------------------------------------------------------
(* Nothing is in the path of a request that begins, or begins again.        *)
LEMMA NoPathNoTrades ==
    ASSUME path = <<>>
    PROVE  Trades = {} /\ Cardinality(Trades) = 0
BY FS_EmptySet DEF Trades

LEMMA InitIInv == Init => IInv
<1> SUFFICES ASSUME Init PROVE IInv
  OBVIOUS
<1>1. TypeOK
  BY KernelAssumption DEF Init, KernelInit, TypeOK, Locations
<1>2. ControlInv
  BY DEF Init, KernelInit, ControlInv, Busy, InLoop
<1>3. TradeInv
  BY NoPathNoTrades DEF Init, KernelInit, TradeInv
<1>4. StreamTypeOK /\ ToolInv /\ EndInv
  BY DEF Init, KernelInit, StreamTypeOK, ToolInv, EndInv, Told, EndsLast
<1> QED
  BY <1>1, <1>2, <1>3, <1>4 DEF IInv, KernelInv

(* What a step of the thread posts, and that it keeps the stream's          *)
(* invariants: the tool shown in the end is the one that then runs.         *)
LEMMA PostStep ==
    ASSUME IInv, pc # "returned", UNCHANGED stream,
           NEW type \in EventTypes, NEW name \in Registry \cup {NoCapability}, Emit(type, name),
           type \in {"result", "failure"} => pc' = "returned",
           running' = CASE type = "start" -> name
                        [] type \in {"done", "error"} -> NoCapability
                        [] OTHER -> running
    PROVE  /\ queue' \in Seq(Events) /\ StreamTypeOK' /\ ToolInv' /\ EndInv'
<1> DEFINE e == Event(type, name)
<1>1. e \in Events /\ e.type = type /\ e.name = name
  BY EventType
<1>2. queue \in Seq(Events) /\ queue' = Append(queue, e)
  BY DEF IInv, KernelInv, TypeOK, Events, Emit
<1> HIDE DEF e
<1>3. /\ Told(queue, stream.tool, running) /\ \A i \in DOMAIN queue : ~Ending(queue[i])
      /\ stream.pc # "done"
  BY DEF IInv, ToolInv, EndInv, EndsLast
<1>4. Ending(e) => pc' = "returned"
  BY <1>1 DEF Ending
<1>5. running' = IF AboutTool(e) THEN Shows(e) ELSE running
  BY <1>1 DEF AboutTool, Shows, EventTypes
<1>6. /\ queue' \in Seq(Events) /\ Told(queue', stream.tool, running')
      /\ EndsLast(queue', pc' = "returned")
  BY <1>1, <1>2, <1>3, <1>4, <1>5, Post
<1> QED
  BY <1>3, <1>6 DEF IInv, StreamTypeOK, ToolInv, EndInv

(* Steps of the controller that run nothing to its end.                     *)
LEMMA ControllerTurns ==
    ASSUME IInv, UNCHANGED stream,
           FinalAnswer \/ Nudge \/ (\E c \in Registry : ControllerCall(c)) \/ ForcedAnswer
    PROVE  IInv'
<1>0. TypeOK /\ ControlInv /\ TradeInv /\ pc # "returned"
  BY DEF IInv, KernelInv, FinalAnswer, Nudge, ControllerCall, ForcedAnswer, ControllerTurn
<1>1. CASE FinalAnswer
  <2>1. queue' \in Seq(Events) /\ StreamTypeOK' /\ ToolInv' /\ EndInv'
    BY <1>0, <1>1, PostStep DEF FinalAnswer, Return, ControllerTurn, ControlInv, Busy, EventTypes
  <2>2. TypeOK'
    BY <1>0, <1>1, <2>1, KernelAssumption
       DEF FinalAnswer, Return, TypeOK, Locations, Events
  <2>3. ControlInv' /\ TradeInv'
    BY <1>0, <1>1 DEF FinalAnswer, Return, ControlInv, Busy, InLoop, TradeInv, Trades
  <2> QED
    BY <2>1, <2>2, <2>3 DEF IInv, KernelInv
<1>2. CASE Nudge
  <2>1. TypeOK' /\ step' \in Nat /\ step' = step + 1 /\ step \in Nat
    BY <1>0, <1>2, KernelAssumption
       DEF Nudge, NextIteration, ControllerTurn, TypeOK, Locations
  <2>2. ControlInv' /\ TradeInv'
    BY <1>0, <1>2, <2>1
       DEF Nudge, NextIteration, ControllerTurn, ControlInv, Busy, InLoop, TradeInv, Trades, TypeOK
  <2>3. StreamTypeOK' /\ ToolInv' /\ EndInv'
    BY <1>0, <1>2 DEF Nudge, NextIteration, IInv, StreamTypeOK, ToolInv, EndInv, EndsLast, ControllerTurn
  <2> QED
    BY <2>1, <2>2, <2>3 DEF IInv, KernelInv
<1>3. ASSUME NEW c \in Registry, ControllerCall(c) PROVE IInv'
  <2>1. queue' \in Seq(Events) /\ StreamTypeOK' /\ ToolInv' /\ EndInv'
    BY <1>0, <1>3, PostStep DEF ControllerCall, ControllerTurn, EventTypes
  <2>2. /\ step \in Nat /\ step < MaxSteps /\ decided \in Nat /\ decided <= step
        /\ decided' = decided + 1
    BY <1>0, <1>3, KernelAssumption DEF ControllerCall, ControllerTurn, TypeOK, ControlInv
  <2>3. TypeOK'
    BY <1>0, <1>3, <2>1, <2>2, KernelAssumption DEF ControllerCall, TypeOK, Locations, Events
  <2>4. ControlInv'
    BY <1>3, <2>2 DEF ControllerCall, ControlInv, Busy, InLoop
  <2>5. c \in Trading => \A i \in Trades : ~path[i][2]
    BY <1>0, <1>3 DEF ControllerCall, Runnable, TradeInv
  <2>6. TradeInv'
    BY <1>0, <1>3, <2>2, <2>5 DEF ControllerCall, TradeInv, Trades
  <2> QED
    BY <2>1, <2>3, <2>4, <2>6 DEF IInv, KernelInv
<1>4. CASE ForcedAnswer
  <2>1. CASE Return /\ known' = known \cup {Answer} /\ UNCHANGED <<step, path>>
    <3>1. queue' \in Seq(Events) /\ StreamTypeOK' /\ ToolInv' /\ EndInv'
      BY <1>0, <1>4, <2>1, PostStep DEF ForcedAnswer, Return, ControlInv, Busy, EventTypes
    <3>2. TypeOK'
      BY <1>0, <1>4, <2>1, <3>1, KernelAssumption
         DEF ForcedAnswer, Return, TypeOK, Locations, Events
    <3>3. ControlInv' /\ TradeInv'
      BY <1>0, <1>4, <2>1
         DEF ForcedAnswer, Return, ControlInv, Busy, InLoop, TradeInv, Trades
    <3> QED
      BY <3>1, <3>2, <3>3 DEF IInv, KernelInv
  <2>2. CASE decided = 0 /\ EnterLoop /\ UNCHANGED queue
    <3>1. path' = <<>> /\ orders' = 0
      BY <1>0, <1>4, <2>2 DEF ForcedAnswer, EnterLoop, TradeInv
    <3>2. TypeOK'
      BY <1>0, <1>4, <2>2, KernelAssumption DEF ForcedAnswer, EnterLoop, TypeOK, Locations
    <3>3. Trades' = {} /\ Cardinality(Trades') = 0
      BY <3>1, FS_EmptySet DEF Trades
    <3>4. ControlInv' /\ TradeInv'
      BY <1>0, <1>4, <2>2, <3>1, <3>3
         DEF ForcedAnswer, EnterLoop, ControlInv, Busy, InLoop, TradeInv
    <3>5. StreamTypeOK' /\ ToolInv' /\ EndInv'
      BY <1>0, <1>4, <2>2
         DEF ForcedAnswer, EnterLoop, IInv, StreamTypeOK, ToolInv, EndInv, EndsLast, ControlInv, Busy
    <3> QED
      BY <3>2, <3>4, <3>5 DEF IInv, KernelInv
  <2> QED
    BY <1>4, <2>1, <2>2 DEF ForcedAnswer
<1> QED
  BY <1>1, <1>2, <1>3, <1>4

(* A run ends, well or badly, in the controller or in the loop.             *)
LEMMA RunStep ==
    ASSUME IInv, UNCHANGED stream,
           ControllerDone \/ ControllerError \/ LoopDone
    PROVE  IInv'
<1>0. /\ TypeOK /\ ControlInv /\ TradeInv /\ Busy /\ running \in Registry
      /\ pc # "returned" /\ step < MaxSteps /\ step \in Nat
      /\ running \in Trading => \A i \in Trades : ~path[i][2]
  <2>1. TypeOK /\ ControlInv /\ TradeInv
    BY DEF IInv, KernelInv
  <2>2. pc = "controllerRun" \/ pc = "loopRun"
    BY DEF ControllerDone, ControllerError, LoopDone
  <2>3. Busy /\ running \in Registry /\ step < MaxSteps
    BY <2>1, <2>2 DEF Busy, ControlInv
  <2>4. step \in Nat
    BY <2>1, KernelAssumption DEF TypeOK
  <2>5. running \in Trading => \A i \in Trades : ~path[i][2]
    BY <2>1, <2>2 DEF ControlInv, TradeInv
  <2> QED
    BY <2>1, <2>2, <2>3, <2>4, <2>5
<1>1. ASSUME NEW ok \in BOOLEAN,
             IF ok THEN Produce(running) ELSE known' = known,
             MayTrade(running), path' = Append(path, <<running, ok>>),
             running' = NoCapability, step' = step + 1, UNCHANGED <<goal, decided>>,
             Emit(IF ok THEN "done" ELSE "error", running),
             \/ pc = "controllerRun" /\ pc' = "controller"
             \/ pc = "loopRun" /\ pc' = "loop"
      PROVE  IInv'
  <2>1. queue' \in Seq(Events) /\ StreamTypeOK' /\ ToolInv' /\ EndInv'
    BY <1>0, <1>1, PostStep DEF EventTypes
  <2>2. /\ path' \in Seq(Registry \X BOOLEAN) /\ known' \subseteq Facts /\ orders' \in Nat
        /\ orders' <= Cardinality(Trades')
        /\ \A i, k \in Trades' : path'[i][2] /\ path'[k][2] => i = k
        /\ \A i \in Trades' : path'[i][2] => \A c \in Trading : Effects[c] \subseteq known'
    BY <1>0, <1>1, RunEnds DEF IInv
  <2>3. TypeOK'
    BY <1>0, <1>1, <2>1, <2>2, KernelAssumption DEF TypeOK, Locations, Events
  <2>4. ControlInv'
    BY <1>0, <1>1, KernelAssumption DEF ControlInv, Busy, InLoop, TypeOK
  <2>5. decided = 0 => orders' = 0
    BY <1>0, <1>1 DEF TradeInv, ControlInv, MayTrade
  <2>6. TradeInv'
    BY <1>1, <2>2, <2>5 DEF TradeInv
  <2> QED
    BY <2>1, <2>3, <2>4, <2>6 DEF IInv, KernelInv
<1>2. CASE ControllerDone
  BY <1>1, <1>2 DEF ControllerDone, NextIteration
<1>3. CASE ControllerError
  BY <1>1, <1>3 DEF ControllerError, NextIteration
<1>4. CASE LoopDone
  BY <1>1, <1>4 DEF LoopDone
<1> QED
  BY <1>2, <1>3, <1>4

(* The other steps of the loop, of a streaming run and of a failed start.   *)
LEMMA OtherSteps ==
    ASSUME IInv, UNCHANGED stream,
           (\E c \in Registry : LoopCall(c)) \/ LoopError \/ LoopEnd \/ EmitToken \/ SetupFails
    PROVE  IInv'
<1>0. TypeOK /\ ControlInv /\ TradeInv
  BY DEF IInv, KernelInv
<1>1. ASSUME NEW c \in Registry, LoopCall(c) PROVE IInv'
  <2>1. queue' \in Seq(Events) /\ StreamTypeOK' /\ ToolInv' /\ EndInv'
    BY <1>1, PostStep DEF LoopCall, EventTypes
  <2>2. c \notin Trading
    BY <1>0, <1>1, PlanNeedsNoTrade DEF LoopCall, TypeOK
  <2>3. TypeOK'
    BY <1>0, <1>1, <2>1 DEF LoopCall, TypeOK, Locations, Events
  <2>4. ControlInv' /\ TradeInv'
    BY <1>0, <1>1, <2>2 DEF LoopCall, ControlInv, Busy, InLoop, TradeInv, Trades
  <2> QED
    BY <2>1, <2>3, <2>4 DEF IInv, KernelInv
<1>2. CASE LoopEnd
  <2>1. queue' \in Seq(Events) /\ StreamTypeOK' /\ ToolInv' /\ EndInv'
    BY <1>0, <1>2, PostStep DEF LoopEnd, Return, EventTypes, ControlInv, Busy
  <2>2. TypeOK'
    BY <1>0, <1>2, <2>1 DEF LoopEnd, Return, TypeOK, Locations, Events
  <2>3. ControlInv' /\ TradeInv'
    BY <1>0, <1>2 DEF LoopEnd, Return, ControlInv, Busy, InLoop, TradeInv, Trades
  <2> QED
    BY <2>1, <2>2, <2>3 DEF IInv, KernelInv
<1>3. CASE EmitToken
  <2>1. queue' \in Seq(Events) /\ StreamTypeOK' /\ ToolInv' /\ EndInv'
    BY <1>3, PostStep DEF EmitToken, EventTypes
  <2>2. TypeOK'
    BY <1>0, <1>3, <2>1 DEF EmitToken, TypeOK, Events
  <2>3. ControlInv' /\ TradeInv'
    BY <1>0, <1>3 DEF EmitToken, ControlInv, Busy, InLoop, TradeInv, Trades
  <2> QED
    BY <2>1, <2>2, <2>3 DEF IInv, KernelInv
<1>4. CASE SetupFails
  <2>1. queue' \in Seq(Events) /\ StreamTypeOK' /\ ToolInv' /\ EndInv'
    BY <1>4, PostStep DEF SetupFails, EventTypes
  <2>2. TypeOK'
    BY <1>0, <1>4, <2>1 DEF SetupFails, TypeOK, Locations, Events
  <2>3. ControlInv' /\ TradeInv'
    BY <1>0, <1>4 DEF SetupFails, ControlInv, Busy, InLoop, TradeInv, Trades
  <2> QED
    BY <2>1, <2>2, <2>3 DEF IInv, KernelInv
<1>5. CASE LoopError
  <2> DEFINE failed == Event("error", running)
             ended == Event("result", NoCapability)
             q == Append(queue, failed)
  <2>1. /\ pc = "loopRun" /\ pc' = "returned" /\ running' = NoCapability
        /\ running \in Registry \ Trading
    BY <1>0, <1>5 DEF LoopError, ControlInv, Busy
  <2>2. /\ failed \in Events /\ AboutTool(failed) /\ Shows(failed) = NoCapability /\ ~Ending(failed)
        /\ ended \in Events /\ ~AboutTool(ended)
    BY <2>1, EventType DEF EventTypes, AboutTool, Shows, Ending
  <2>3. /\ queue \in Seq(Events) /\ Told(queue, stream.tool, running)
        /\ \A i \in DOMAIN queue : ~Ending(queue[i])
        /\ stream.pc # "done"
    BY <1>0, <2>1 DEF IInv, TypeOK, Events, ToolInv, EndInv, EndsLast
  <2>4. queue' = Append(q, ended)
    <3> HIDE DEF failed, ended
    <3>1. queue' = queue \o <<failed, ended>>
      BY <1>5 DEF LoopError, failed, ended
    <3> QED
      BY <2>2, <2>3, <3>1
  <2> HIDE DEF failed, ended
  <2>5. /\ q \in Seq(Events) /\ Told(q, stream.tool, NoCapability)
        /\ \A i \in DOMAIN q : ~Ending(q[i])
    BY <2>2, <2>3, Post
  <2> HIDE DEF q
  <2>6. /\ queue' \in Seq(Events) /\ Told(queue', stream.tool, NoCapability)
        /\ EndsLast(queue', TRUE)
    BY <2>2, <2>4, <2>5, Post
  <2>7. StreamTypeOK' /\ ToolInv' /\ EndInv'
    BY <2>1, <2>3, <2>6 DEF IInv, StreamTypeOK, ToolInv, EndInv
  <2>8. /\ path' \in Seq(Registry \X BOOLEAN) /\ known' \subseteq Facts /\ orders' \in Nat
        /\ orders' <= Cardinality(Trades')
        /\ \A i, k \in Trades' : path'[i][2] /\ path'[k][2] => i = k
        /\ \A i \in Trades' : path'[i][2] => \A c \in Trading : Effects[c] \subseteq known'
    BY <1>5, <2>1, RunEnds DEF IInv, LoopError
  <2>9. TypeOK'
    BY <1>0, <1>5, <2>6, <2>8 DEF LoopError, TypeOK, Locations, Events
  <2>10. ControlInv' /\ TradeInv'
    BY <1>0, <1>5, <2>1, <2>8
       DEF LoopError, ControlInv, Busy, InLoop, TradeInv, MayTrade
  <2> QED
    BY <2>7, <2>9, <2>10 DEF IInv, KernelInv
<1> QED
  BY <1>1, <1>2, <1>3, <1>4, <1>5

(* The generator reads one event.                                           *)
LEMMA ShowStep == ASSUME IInv, Show PROVE IInv'
<1> DEFINE e == Head(queue)
<1>1. /\ stream.pc = "reading" /\ queue # <<>> /\ queue' = Tail(queue)
      /\ UNCHANGED kernelVars \/ UNCHANGED <<pc, goal, known, step, running, decided, path, orders>>
  BY DEF Show, ShowToken, ShowTool, ShowToolEnd, ShowResult, SummaryFails, ShowFailure,
         Reading
<1>2. UNCHANGED <<pc, goal, known, step, running, decided, path, orders>>
  BY <1>1 DEF kernelVars
<1>3. /\ queue \in Seq(Events) /\ Told(queue, stream.tool, running)
      /\ EndsLast(queue, pc = "returned") /\ StreamTypeOK
  BY DEF IInv, KernelInv, TypeOK, Events, ToolInv, EndInv
<1>4. /\ queue' \in Seq(Events) /\ e \in Events
      /\ Told(queue', IF AboutTool(e) THEN Shows(e) ELSE stream.tool, running)
      /\ EndsLast(queue', pc = "returned")
      /\ Ending(e) => queue' = <<>> /\ pc = "returned"
  BY <1>1, <1>3, Read
<1>5. KernelInv'
  BY <1>2, <1>4 DEF IInv, KernelInv, TypeOK, ControlInv, TradeInv, Trades, Busy, InLoop, Events
<1>6. /\ StreamTypeOK'
      /\ stream'.tool = IF AboutTool(e) THEN Shows(e) ELSE stream.tool
      /\ stream'.pc = "done" => Ending(e)
  <2>1. e.name \in Registry \cup {NoCapability}
    BY <1>4 DEF Events
  <2>2. CASE ShowToken
    BY <1>3, <2>2 DEF ShowToken, Reading, StreamTypeOK, AboutTool
  <2>3. CASE ShowTool
    BY <1>3, <2>1, <2>3 DEF ShowTool, Reading, StreamTypeOK, AboutTool, Shows
  <2>4. CASE ShowToolEnd
    BY <1>3, <2>4 DEF ShowToolEnd, Reading, StreamTypeOK, AboutTool, Shows
  <2>5. CASE ShowResult
    BY <1>3, <2>5 DEF ShowResult, Reading, StreamTypeOK, AboutTool, Ending
  <2>6. CASE ShowFailure
    BY <1>3, <2>6 DEF ShowFailure, Reading, StreamTypeOK, AboutTool, Ending
  <2>7. CASE SummaryFails
    BY <1>3, <2>7 DEF SummaryFails, Reading, StreamTypeOK, AboutTool, Ending
  <2> QED
    BY <2>2, <2>3, <2>4, <2>5, <2>6, <2>7 DEF Show
<1> HIDE DEF e
<1>7. ToolInv' /\ EndInv'
  BY <1>2, <1>4, <1>6 DEF ToolInv, EndInv
<1> QED
  BY <1>5, <1>6, <1>7 DEF IInv

LEMMA NextIInv == IInv /\ [Next]_vars => IInv'
<1> SUFFICES ASSUME IInv, [Next]_vars PROVE IInv'
  OBVIOUS
<1>1. CASE (Work \/ EmitToken \/ SetupFails) /\ UNCHANGED stream
  BY <1>1, ControllerTurns, RunStep, OtherSteps DEF Work, Controller, Loop
<1>2. CASE Show
  BY <1>2, ShowStep
<1>3. CASE Disconnect
  <2>1. UNCHANGED <<pc, goal, known, step, running, decided, path, queue, orders>>
    BY <1>3 DEF Disconnect, kernelVars
  <2>2. StreamTypeOK' /\ stream'.tool = stream.tool /\ stream'.pc = "gone"
    BY <1>3 DEF Disconnect, IInv, StreamTypeOK
  <2> QED
    BY <2>1, <2>2 DEF IInv, KernelInv, TypeOK, ControlInv, TradeInv, Trades, Busy, InLoop,
                      ToolInv, EndInv
<1>4. CASE UNCHANGED vars
  BY <1>4 DEF vars, kernelVars, IInv, KernelInv, TypeOK, ControlInv, TradeInv, Trades, Busy,
              InLoop, StreamTypeOK, ToolInv, EndInv
<1> QED
  BY <1>1, <1>2, <1>3, <1>4 DEF Next

-----------------------------------------------------------------------------
(* The request, its events and the stream are always well formed, and the   *)
(* controller never decides on more calls than its budget.                  *)
THEOREM TypeCorrect == Spec => [](TypeOK /\ StreamTypeOK)
<1>1. IInv => TypeOK /\ StreamTypeOK
  BY DEF IInv, KernelInv
<1> QED
  BY <1>1, InitIInv, NextIInv, PTL DEF Spec

(* For any registry in which all trades deliver the same facts: of the      *)
(* orders of a request at most one is of a run that reported back, and each *)
(* is of a run in the path (controller.py:221-223, 273-279).                *)
THEOREM OnlyFailedTradesRepeat == Spec => []RepeatsOnlyAfterFailure
<1>1. IInv => RepeatsOnlyAfterFailure
  <2> SUFFICES ASSUME IInv PROVE RepeatsOnlyAfterFailure
    OBVIOUS
  <2> DEFINE done == {i \in Trades : path[i][2]}
  <2>1. \A i, k \in done : i = k
    BY DEF IInv, KernelInv, TradeInv
  <2>2. done = {} \/ \E i : done = {i}
    BY <2>1
  <2>3. Cardinality(done) <= 1
    <3> HIDE DEF done
    <3>1. CASE done = {}
      <4>1. Cardinality({}) = 0
        BY FS_EmptySet
      <4> QED
        BY <3>1, <4>1
    <3>2. ASSUME NEW i, done = {i} PROVE Cardinality(done) <= 1
      <4>1. Cardinality({i}) = 1
        BY FS_Singleton
      <4> QED
        BY <3>2, <4>1
    <3> QED
      BY <2>2, <3>1, <3>2
  <2> QED
    BY <2>3 DEF IInv, KernelInv, TradeInv, RepeatsOnlyAfterFailure
<1> QED
  BY <1>1, InitIInv, NextIInv, PTL DEF Spec

(* For any goals behind which no trade is needed: the fallback never runs   *)
(* for a request that has placed an order, and places none itself           *)
(* (controller.py:266, 289-290; run.py:68).                                 *)
THEOREM FallbackNeverFollowsTrade == Spec => []NoFallbackAfterTrade
<1>1. IInv => NoFallbackAfterTrade
  BY DEF IInv, KernelInv, ControlInv, InLoop, TradeInv, NoFallbackAfterTrade
<1> QED
  BY <1>1, InitIInv, NextIInv, PTL DEF Spec

(* A stream that says it is done says so after the work, with everything    *)
(* posted shown and no tool left as running (server.py:1692-1718).          *)
THEOREM StreamEndsLast == Spec => []EndsAfterWork
<1>1. IInv => EndsAfterWork
  <2> SUFFICES ASSUME IInv, stream.pc = "done"
               PROVE  pc = "returned" /\ stream.tool = NoCapability /\ queue = <<>>
    BY DEF EndsAfterWork
  <2>1. pc = "returned" /\ queue = <<>> /\ running = NoCapability
    BY DEF IInv, EndInv, KernelInv, ControlInv, Busy
  <2> QED
    BY <2>1 DEF IInv, ToolInv, Told
<1> QED
  BY <1>1, InitIInv, NextIInv, PTL DEF Spec

-----------------------------------------------------------------------------
(* Supervisor.                                                              *)

Turns == [agent : Agents \cup {"unknown"}, ok : BOOLEAN, halt : BOOLEAN]

HasRun(agent) == \E i \in DOMAIN board.trace : board.trace[i].agent = agent

(* The trace is within the budget, with a turn left for the agent at work.  *)
TraceInv ==
    /\ run \in Requests
    /\ worker \in {"start", "route", "finish", "ended"} \cup Agents
    /\ board.trace \in Seq(Turns)
    /\ Len(board.trace) <= MaxIters
    /\ worker \in Agents => Len(board.trace) < MaxIters

(* By plan, the trace is the plan as far as it got.                         *)
PlanInv ==
    run.router = "plan" =>
        LET plan == PlanOf(run.strategy)
        IN /\ \A i \in DOMAIN board.trace : i <= Len(plan) /\ board.trace[i].agent = plan[i]
           /\ worker \in Agents => /\ Len(board.trace) < Len(plan)
                                   /\ worker = plan[Len(board.trace) + 1]

(* What is on the board was put there by an agent that has run, and stands  *)
(* on what was there before.                                                *)
BoardInv ==
    /\ board.signal # None => HasRun("signal")
    /\ board.risk # None => HasRun("risk") /\ board.signal # None /\ board.risk.of = board.signal
    /\ board.execution # None =>
          /\ HasRun("execution") /\ board.risk # None
          /\ board.execution = board.risk.decision
          /\ board.execution.action \in {"buy", "sell"}

(* An agent at work has not run before.                                     *)
FirstTime == worker \in Agents => ~HasRun(worker)

BoardType ==
    board = [data |-> board.data, signal |-> board.signal, risk |-> board.risk,
             execution |-> board.execution, trace |-> board.trace]

(* Routers under which no agent runs twice: a plan, or an LLM that may run  *)
(* each of them once.                                                       *)
Guarded == run.router = "plan" \/ (run.router = "llm" /\ MaxRepeat = 1)

SupervisorInv ==
    /\ BoardType /\ TraceInv /\ PlanInv
    /\ Guarded => BoardInv /\ FirstTime

LEMMA AgentsAre == Agents = {"data", "signal", "risk", "execution"}
<1>1. Strategies.trade = <<"data", "signal", "risk", "execution">>
  BY DEF Strategies
<1>2. ToSet(Strategies.trade) = {Strategies.trade[i] : i \in 1..4}
  BY <1>1 DEF ToSet
<1>3. 1..4 = {1, 2, 3, 4}
  OBVIOUS
<1> QED
  BY <1>1, <1>2, <1>3 DEF Agents

(* A plan names agents, none of them twice.                                 *)
LEMMA PlanNamesEachOnce ==
    ASSUME NEW strategy
    PROVE  /\ Len(PlanOf(strategy)) \in 1..4
           /\ \A i \in 1..Len(PlanOf(strategy)) : PlanOf(strategy)[i] \in Agents
           /\ \A i, k \in 1..Len(PlanOf(strategy)) :
                 PlanOf(strategy)[i] = PlanOf(strategy)[k] => i = k
<1> DEFINE plan == PlanOf(strategy)
<1>1. plan \in {<<"data">>, <<"data", "signal">>, <<"data", "signal", "risk">>,
                <<"data", "signal", "risk", "execution">>}
  BY DEF PlanOf, Strategies
<1> HIDE DEF plan
<1>2. CASE plan = <<"data">>
  BY <1>2, AgentsAre DEF plan
<1>3. CASE plan = <<"data", "signal">>
  BY <1>3, AgentsAre DEF plan
<1>4. CASE plan = <<"data", "signal", "risk">>
  BY <1>4, AgentsAre DEF plan
<1>5. CASE plan = <<"data", "signal", "risk", "execution">>
  BY <1>5, AgentsAre DEF plan
<1> QED
  BY <1>1, <1>2, <1>3, <1>4, <1>5

LEMMA SupervisorInvInit == SupervisorInit => SupervisorInv
<1> SUFFICES ASSUME SupervisorInit PROVE SupervisorInv
  OBVIOUS
<1>1. worker \notin Agents
  BY AgentsAre DEF SupervisorInit
<1>2. board.trace = <<>> /\ Len(board.trace) = 0 /\ MaxIters \in Nat
  BY SupervisorAssumption DEF SupervisorInit, EmptyBoard
<1>3. BoardType /\ TraceInv
  BY <1>2, <1>1 DEF SupervisorInit, EmptyBoard, BoardType, TraceInv
<1>4. PlanInv
  BY <1>1, <1>2 DEF PlanInv
<1>5. BoardInv /\ FirstTime
  BY <1>1, <1>2 DEF SupervisorInit, EmptyBoard, BoardInv, FirstTime, HasRun
<1> QED
  BY <1>3, <1>4, <1>5 DEF SupervisorInv

(* A step that leaves the board alone and starts no agent.                  *)
LEMMA QuietStep ==
    ASSUME SupervisorInv, UNCHANGED <<run, board>>,
           worker' = worker \/ worker' \in {"start", "route", "finish", "ended"}
    PROVE  SupervisorInv'
<1>1. worker' \in Agents => worker' = worker
  BY AgentsAre
<1> QED
  BY <1>1 DEF SupervisorInv, BoardType, TraceInv, PlanInv, Guarded, BoardInv, FirstTime, HasRun

(* A turn that is over: what it made of the board, and its agent, who may   *)
(* be the unknown one.                                                      *)
LEMMA TraceGrows ==
    ASSUME SupervisorInv, NEW agent \in Agents \cup {"unknown"},
           NEW ok \in BOOLEAN, NEW halt \in BOOLEAN,
           Len(board.trace) < MaxIters, run' = run, worker' \in {"route", "finish"},
           board'.trace = Append(board.trace, Result(agent, ok, halt)),
           run.router = "plan" =>
              LET plan == PlanOf(run.strategy)
              IN Len(board.trace) < Len(plan) /\ agent = plan[Len(board.trace) + 1]
    PROVE  /\ TraceInv' /\ PlanInv' /\ FirstTime'
           /\ \A a : HasRun(a)' <=> HasRun(a) \/ a = agent
<1> DEFINE n == Len(board.trace)
<1>1. /\ board.trace \in Seq(Turns) /\ n \in Nat /\ DOMAIN board.trace = 1..n
      /\ MaxIters \in Nat /\ Result(agent, ok, halt) \in Turns
      /\ Result(agent, ok, halt).agent = agent
  BY SupervisorAssumption DEF SupervisorInv, TraceInv, Result, Turns
<1>2. /\ board'.trace \in Seq(Turns) /\ Len(board'.trace) = n + 1
      /\ DOMAIN board'.trace = 1..(n + 1)
      /\ board'.trace[n + 1].agent = agent
      /\ \A i \in 1..n : board'.trace[i] = board.trace[i]
  BY <1>1
<1>3. worker' \notin Agents
  BY AgentsAre
<1> HIDE DEF n
<1>4. TraceInv'
  BY <1>1, <1>2, <1>3 DEF SupervisorInv, TraceInv, n
<1>5. PlanInv'
  <2> SUFFICES ASSUME run.router = "plan", NEW i \in 1..(n + 1)
               PROVE  i <= Len(PlanOf(run.strategy)) /\ board'.trace[i].agent = PlanOf(run.strategy)[i]
    BY <1>2, <1>3 DEF PlanInv
  <2>1. i \in 1..n \/ i = n + 1
    BY <1>1
  <2>2. Len(PlanOf(run.strategy)) \in Nat
    BY PlanNamesEachOnce
  <2> QED
    BY SMTT(30), <1>1, <1>2, <2>1, <2>2 DEF SupervisorInv, PlanInv, n
<1>6. ASSUME NEW a PROVE HasRun(a)' <=> HasRun(a) \/ a = agent
  <2>1. \A i \in 1..(n + 1) : i \in 1..n \/ i = n + 1
    BY <1>1
  <2> QED
    BY <1>1, <1>2, <2>1 DEF HasRun
<1> QED
  BY <1>3, <1>4, <1>5, <1>6 DEF FirstTime

(* The LLM's choice has not run if an agent may run once.                   *)
LEMMA NeverRun ==
    ASSUME SupervisorInv, MaxRepeat = 1, NEW agent, TimesRun(agent) < MaxRepeat
    PROVE  ~HasRun(agent)
<1> DEFINE turns == {i \in DOMAIN board.trace : board.trace[i].agent = agent}
<1>1. DOMAIN board.trace = 1..Len(board.trace) /\ Len(board.trace) \in Nat
  BY DEF SupervisorInv, TraceInv
<1>2. IsFiniteSet(turns)
  <2>1. IsFiniteSet(1..Len(board.trace))
    BY <1>1, FS_Interval
  <2> QED
    BY <1>1, <2>1, FS_Subset
<1>3. Cardinality(turns) \in Nat /\ Cardinality(turns) < 1
  BY <1>2, FS_CardinalityType DEF TimesRun
<1>4. turns = {}
  BY <1>2, <1>3, FS_EmptySet
<1> QED
  BY <1>4 DEF HasRun

LEMMA RouteKeeps == SupervisorInv /\ Route => SupervisorInv'
<1> SUFFICES ASSUME SupervisorInv, Route PROVE SupervisorInv'
  OBVIOUS
<1> DEFINE n == Len(board.trace)
           plan == PlanOf(run.strategy)
<1>1. /\ board.trace \in Seq(Turns) /\ n \in Nat /\ DOMAIN board.trace = 1..n
      /\ MaxIters \in Nat /\ n < MaxIters /\ run' = run
  BY SupervisorAssumption DEF SupervisorInv, TraceInv, Route
<1>2. run.router \in {"plan", "llm", "callback"}
  BY SupervisorAssumption DEF SupervisorInv, TraceInv
<1>3. PICK name \in NextAgent :
         \/ name = None /\ worker' = "finish" /\ board' = board
         \/ name \in Available /\ worker' = name /\ board' = board
         \/ /\ name = "unknown" /\ worker' = "finish"
            /\ board' = [board EXCEPT !.trace = Append(@, Result(name, FALSE, TRUE))]
  BY DEF Route
<1>4. CASE worker' = "finish" /\ board' = board
  BY <1>1, <1>4, QuietStep
<1>5. CASE name \in Available /\ worker' = name /\ board' = board
  <2>1. Len(plan) \in Nat /\ \A i \in 1..Len(plan) : plan[i] \in Agents
    BY PlanNamesEachOnce
  <2>2. name \in Agents
    <3>1. CASE run.router = "plan"
      BY <1>5, <2>1, <3>1 DEF Available, ToSet
    <3>2. CASE run.router # "plan"
      BY <1>5, <3>2 DEF Available
    <3> QED
      BY <3>1, <3>2
  <2>3. CASE run.router = "plan"
    <3>1. CASE n < Len(plan)
      <4>1. name = plan[n + 1]
        BY <1>3, <2>3, <3>1 DEF NextAgent
      <4>2. \A i \in 1..n : board.trace[i].agent = plan[i]
        BY <1>1, <2>3 DEF SupervisorInv, PlanInv
      <4>3. ~HasRun(name)
        <5> SUFFICES ASSUME NEW i \in 1..n, board.trace[i].agent = name PROVE FALSE
          BY <1>1 DEF HasRun
        <5>1. i \in 1..Len(plan) /\ n + 1 \in 1..Len(plan) /\ i # n + 1
          BY <1>1, <2>1, <3>1
        <5>2. plan[i] = plan[n + 1]
          BY <4>1, <4>2
        <5> QED
          BY <5>1, <5>2, PlanNamesEachOnce
      <4>4. BoardType' /\ TraceInv' /\ PlanInv' /\ (BoardInv => BoardInv')
        BY <1>1, <1>5, <2>2, <3>1, <4>1
           DEF SupervisorInv, BoardType, TraceInv, PlanInv, BoardInv, HasRun
      <4>5. FirstTime'
        BY <1>5, <4>3 DEF FirstTime, HasRun
      <4> QED
        BY <1>1, <4>4, <4>5, <2>3 DEF SupervisorInv, Guarded
    <3>2. CASE ~(n < Len(plan))
      <4>1. None \in Agents
        BY <1>3, <2>2, <2>3, <3>2 DEF NextAgent
      <4> QED
        BY <4>1, NobodyAssumption
    <3> QED
      BY <3>1, <3>2
  <2>4. CASE run.router = "llm"
    <3>1. MaxRepeat = 1 => ~HasRun(name)
      BY <1>3, <2>2, <2>4, NeverRun, NobodyAssumption DEF NextAgent
    <3>2. BoardType' /\ TraceInv' /\ PlanInv' /\ (BoardInv => BoardInv')
      BY <1>1, <1>5, <2>2, <2>4 DEF SupervisorInv, BoardType, TraceInv, PlanInv, BoardInv, HasRun
    <3>3. MaxRepeat = 1 => FirstTime'
      BY <1>5, <3>1 DEF FirstTime, HasRun
    <3> QED
      BY <1>1, <2>4, <3>2, <3>3 DEF SupervisorInv, Guarded
  <2>5. CASE run.router = "callback"
    BY <1>1, <1>5, <2>2, <2>5 DEF SupervisorInv, Guarded, BoardType, TraceInv, PlanInv
  <2> QED
    BY <1>2, <2>3, <2>4, <2>5
<1>6. CASE name = "unknown" /\ worker' = "finish"
           /\ board' = [board EXCEPT !.trace = Append(@, Result(name, FALSE, TRUE))]
  <2>1. run.router = "callback"
    <3>1. "unknown" \notin Agents
      BY AgentsAre
    <3>2. \A i \in 1..Len(plan) : plan[i] \in Agents
      BY PlanNamesEachOnce
    <3>3. n < Len(plan) => n + 1 \in 1..Len(plan)
      BY <1>1, PlanNamesEachOnce
    <3>4. CASE run.router = "plan"
      BY <1>3, <1>6, <3>1, <3>2, <3>3, <3>4, NobodyAssumption DEF NextAgent
    <3>5. CASE run.router = "llm"
      BY <1>3, <1>6, <3>1, <3>5, NobodyAssumption DEF NextAgent
    <3> QED
      BY <1>2, <3>4, <3>5
  <2>2. board'.trace = Append(board.trace, Result("unknown", FALSE, TRUE)) /\ BoardType'
    BY <1>6 DEF SupervisorInv, BoardType
  <2>3. TraceInv' /\ PlanInv'
    BY <1>1, <1>6, <2>1, <2>2, TraceGrows
  <2> QED
    BY <1>1, <2>1, <2>2, <2>3 DEF SupervisorInv, Guarded
<1> QED
  BY <1>3, <1>4, <1>5, <1>6

Boardlike(b) == b = [data |-> b.data, signal |-> b.signal, risk |-> b.risk,
                     execution |-> b.execution, trace |-> b.trace]

(* What a report leaves on the board, and in the trace.                     *)
LEMMA Reported ==
    ASSUME SupervisorInv, worker \in Agents, NEW b, Boardlike(b), b.trace = board.trace,
           NEW ok \in BOOLEAN, NEW halt \in BOOLEAN, Report(b, ok, halt)
    PROVE  /\ run' = run /\ BoardType' /\ TraceInv' /\ PlanInv' /\ FirstTime'
           /\ board'.signal = b.signal /\ board'.risk = b.risk /\ board'.execution = b.execution
           /\ \A a : HasRun(a)' <=> HasRun(a) \/ a = worker
<1>1. /\ board' = [b EXCEPT !.trace = Append(@, Result(worker, ok, halt))]
      /\ run' = run /\ worker' = "route"
  BY DEF Report
<1>2. /\ board'.trace = Append(board.trace, Result(worker, ok, halt))
      /\ board'.signal = b.signal /\ board'.risk = b.risk /\ board'.execution = b.execution
      /\ BoardType'
  <2> DEFINE t == Append(b.trace, Result(worker, ok, halt))
  <2>1. board' = [b EXCEPT !.trace = t]
    BY <1>1 DEF Boardlike
  <2> HIDE DEF t
  <2>2. board' = [data |-> b.data, signal |-> b.signal, risk |-> b.risk,
                  execution |-> b.execution, trace |-> t]
    BY <2>1 DEF Boardlike
  <2> QED
    BY <2>2 DEF BoardType, t
<1>3. Len(board.trace) < MaxIters
  BY DEF SupervisorInv, TraceInv
<1>4. run.router = "plan" => LET plan == PlanOf(run.strategy)
                             IN Len(board.trace) < Len(plan) /\ worker = plan[Len(board.trace) + 1]
  BY DEF SupervisorInv, PlanInv
<1>5. /\ TraceInv' /\ PlanInv' /\ FirstTime'
      /\ \A a : HasRun(a)' <=> HasRun(a) \/ a = worker
  <2> HIDE DEF Report
  <2> DEFINE agent == worker
  <2>1. agent \in Agents \cup {"unknown"} /\ worker' \in {"route", "finish"}
    BY <1>1
  <2> QED
    BY <1>1, <1>2, <1>3, <1>4, <2>1, TraceGrows
<1> QED
  BY <1>1, <1>2, <1>5

LEMMA DataKeeps == SupervisorInv /\ DataAgent => SupervisorInv'
<1> SUFFICES ASSUME SupervisorInv, DataAgent PROVE SupervisorInv'
  OBVIOUS
<1> DEFINE b == [board EXCEPT !.data = Microstructure(Collected(Market, book))]
<1>1. worker = "data" /\ Report(b, TRUE, FALSE) /\ worker \in Agents
  BY AgentsAre DEF DataAgent
<1>2. /\ Boardlike(b) /\ b.trace = board.trace
      /\ b.signal = board.signal /\ b.risk = board.risk /\ b.execution = board.execution
  BY DEF SupervisorInv, BoardType, Boardlike
<1> HIDE DEF b
<1>3. /\ run' = run /\ BoardType' /\ TraceInv' /\ PlanInv' /\ FirstTime'
      /\ board'.signal = board.signal /\ board'.risk = board.risk
      /\ board'.execution = board.execution
      /\ \A a : HasRun(a)' <=> HasRun(a) \/ a = worker
  BY <1>1, <1>2, Reported
<1>4. BoardInv => BoardInv'
  BY <1>3 DEF BoardInv
<1> QED
  BY <1>3, <1>4 DEF SupervisorInv, Guarded

LEMMA NothingWritten ==
    ASSUME SupervisorInv, worker \in Agents, NEW ok \in BOOLEAN, NEW halt \in BOOLEAN,
           Report(board, ok, halt)
    PROVE  SupervisorInv'
<1>1. Boardlike(board)
  BY DEF SupervisorInv, BoardType, Boardlike
<1> DEFINE b == board
<1>2. /\ run' = run /\ BoardType' /\ TraceInv' /\ PlanInv' /\ FirstTime'
      /\ board'.signal = b.signal /\ board'.risk = b.risk
      /\ board'.execution = b.execution
      /\ \A a : HasRun(a)' <=> HasRun(a) \/ a = worker
  BY <1>1, Reported
<1>3. BoardInv => BoardInv'
  BY <1>2 DEF BoardInv
<1> QED
  BY <1>2, <1>3 DEF SupervisorInv, Guarded

LEMMA RaisesKeeps == SupervisorInv /\ AgentRaises => SupervisorInv'
BY AgentsAre, NothingWritten DEF AgentRaises

(* There is no decision yet when the signal is made.                        *)
LEMMA SignalKeeps == SupervisorInv /\ SignalAgent => SupervisorInv'
<1> SUFFICES ASSUME SupervisorInv, SignalAgent PROVE SupervisorInv'
  OBVIOUS
<1> DEFINE state == Collected(Market, book)
           b(s) == [board EXCEPT !.signal = s,
                                 !.data = IF @ = None THEN Microstructure(state) ELSE @]
<1>1. PICK s : Report(b(s), TRUE, FALSE)
  BY DEF SignalAgent
<1>2. worker = "signal" /\ worker \in Agents
  BY AgentsAre DEF SignalAgent
<1> DEFINE bs == b(s)
<1>3. /\ Boardlike(bs) /\ bs.trace = board.trace
      /\ bs.risk = board.risk /\ bs.execution = board.execution
  <2> HIDE DEF state
  <2> DEFINE d == IF board.data = None THEN Microstructure(state) ELSE board.data
  <2>1. bs = [[board EXCEPT !.signal = s] EXCEPT !.data = IF @ = None THEN Microstructure(state) ELSE @]
    BY DEF SupervisorInv, BoardType
  <2>2. [board EXCEPT !.signal = s] = [data |-> board.data, signal |-> s, risk |-> board.risk,
                                       execution |-> board.execution, trace |-> board.trace]
    BY DEF SupervisorInv, BoardType
  <2>3. bs = [data |-> d, signal |-> s, risk |-> board.risk,
              execution |-> board.execution, trace |-> board.trace]
    <3> DEFINE r == [data |-> board.data, signal |-> s, risk |-> board.risk,
                     execution |-> board.execution, trace |-> board.trace]
    <3>1. bs = [r EXCEPT !.data = IF @ = None THEN Microstructure(state) ELSE @]
      BY <2>1, <2>2
    <3>2. [r EXCEPT !.data = IF @ = None THEN Microstructure(state) ELSE @] = [r EXCEPT !.data = d]
      OBVIOUS
    <3> HIDE DEF bs, d
    <3> QED
      BY <3>1, <3>2
  <2> HIDE DEF bs, d
  <2> QED
    BY <2>3 DEF Boardlike
<1>4. Report(bs, TRUE, FALSE)
  BY <1>1
<1> HIDE DEF bs
<1>5. /\ run' = run /\ BoardType' /\ TraceInv' /\ PlanInv' /\ FirstTime'
      /\ board'.risk = board.risk /\ board'.execution = board.execution
      /\ \A a : HasRun(a)' <=> HasRun(a) \/ a = worker
  BY <1>2, <1>3, <1>4, Reported
<1>6. Guarded => BoardInv'
  <2> SUFFICES ASSUME Guarded PROVE BoardInv'
    OBVIOUS
  <2>1. ~HasRun("signal") /\ BoardInv
    BY <1>2 DEF SupervisorInv, FirstTime
  <2>2. board.risk = None /\ board.execution = None
    BY <2>1 DEF BoardInv
  <2> QED
    BY <1>2, <1>5, <2>2 DEF BoardInv
<1> QED
  BY <1>5, <1>6 DEF SupervisorInv, Guarded

LEMMA RiskKeeps == SupervisorInv /\ RiskAgent => SupervisorInv'
<1> SUFFICES ASSUME SupervisorInv, RiskAgent PROVE SupervisorInv'
  OBVIOUS
<1> DEFINE d == Decide(board.signal, board.signal.price, Market.liquidity,
                       board.data.spread, Market.days)
           b == [board EXCEPT !.risk = [decision |-> d, of |-> board.signal]]
<1>1. worker = "risk" /\ worker \in Agents
  BY AgentsAre DEF RiskAgent
<1>2. \/ Report(board, FALSE, TRUE)
      \/ board.signal # None /\ Report(b, TRUE, d.action = "hold")
  BY DEF RiskAgent
<1>3. CASE Report(board, FALSE, TRUE)
  BY <1>1, <1>3, NothingWritten
<1>4. CASE board.signal # None /\ Report(b, TRUE, d.action = "hold")
  <2> HIDE DEF d
  <2>1. /\ Boardlike(b) /\ b.trace = board.trace
        /\ b.signal = board.signal /\ b.execution = board.execution /\ b.risk.of = board.signal
    BY DEF SupervisorInv, BoardType, Boardlike
  <2> DEFINE halt == d.action = "hold"
  <2>2. halt \in BOOLEAN /\ Report(b, TRUE, halt)
    BY <1>4
  <2> HIDE DEF b, halt
  <2>3. /\ run' = run /\ BoardType' /\ TraceInv' /\ PlanInv' /\ FirstTime'
        /\ board'.signal = b.signal /\ board'.risk = b.risk /\ board'.execution = b.execution
        /\ \A a : HasRun(a)' <=> HasRun(a) \/ a = worker
    BY <1>1, <2>1, <2>2, Reported
  <2>4. ASSUME Guarded PROVE BoardInv'
    <3>1. ~HasRun("risk") /\ BoardInv
      BY <1>1, <2>4 DEF SupervisorInv, FirstTime
    <3>2. board.risk = None /\ board.execution = None
      BY <3>1 DEF BoardInv
    <3> QED
      BY <1>1, <1>4, <2>1, <2>3, <3>1, <3>2 DEF BoardInv
  <2> QED
    BY <2>3, <2>4 DEF SupervisorInv, Guarded
<1> QED
  BY <1>2, <1>3, <1>4

LEMMA ExecutionKeeps == SupervisorInv /\ ExecutionAgent => SupervisorInv'
<1> SUFFICES ASSUME SupervisorInv, ExecutionAgent PROVE SupervisorInv'
  OBVIOUS
<1> DEFINE b == [board EXCEPT !.execution = board.risk.decision]
<1>1. worker = "execution" /\ worker \in Agents
  BY AgentsAre DEF ExecutionAgent
<1>2. \/ Report(board, FALSE, TRUE) \/ Report(board, FALSE, FALSE)
      \/ /\ board.risk # None /\ board.risk.decision.action \in {"buy", "sell"}
         /\ Report(b, TRUE, FALSE)
  BY DEF ExecutionAgent
<1>3. CASE Report(board, FALSE, TRUE) \/ Report(board, FALSE, FALSE)
  BY <1>1, <1>3, NothingWritten
<1>4. CASE /\ board.risk # None /\ board.risk.decision.action \in {"buy", "sell"}
           /\ Report(b, TRUE, FALSE)
  <2>1. /\ Boardlike(b) /\ b.trace = board.trace
        /\ b.signal = board.signal /\ b.risk = board.risk
        /\ b.execution = board.risk.decision
    BY DEF SupervisorInv, BoardType, Boardlike
  <2> HIDE DEF b
  <2>2. /\ run' = run /\ BoardType' /\ TraceInv' /\ PlanInv' /\ FirstTime'
        /\ board'.signal = b.signal /\ board'.risk = b.risk /\ board'.execution = b.execution
        /\ \A a : HasRun(a)' <=> HasRun(a) \/ a = worker
    BY <1>1, <1>4, <2>1, Reported
  <2>3. BoardInv => BoardInv'
    BY <1>1, <1>4, <2>1, <2>2 DEF BoardInv
  <2> QED
    BY <2>2, <2>3 DEF SupervisorInv, Guarded
<1> QED
  BY <1>2, <1>3, <1>4

LEMMA SupervisorInvStep == SupervisorInv /\ [SupervisorNext]_supervisorVars => SupervisorInv'
<1> SUFFICES ASSUME SupervisorInv, [SupervisorNext]_supervisorVars PROVE SupervisorInv'
  OBVIOUS
<1>1. CASE UNCHANGED supervisorVars
  BY <1>1, QuietStep DEF supervisorVars
<1>2. CASE BookMoves \/ Deliver \/ Leave
  BY <1>2, QuietStep DEF BookMoves, Deliver, Leave
<1>3. CASE Begin \/ BeginFails \/ LoopEnds \/ Finish
  BY <1>3, QuietStep DEF Begin, BeginFails, LoopEnds, Finish
<1>4. CASE Route
  BY <1>4, RouteKeeps
<1>5. CASE AgentRaises \/ DataAgent \/ SignalAgent \/ RiskAgent \/ ExecutionAgent
  BY <1>5, RaisesKeeps, DataKeeps, SignalKeeps, RiskKeeps, ExecutionKeeps
<1> QED
  BY <1>1, <1>2, <1>3, <1>4, <1>5 DEF SupervisorNext, Supervise

(* An order on the board is the order of the decision on the board, made    *)
(* for the signal on the board, whatever the model chooses to run next, if  *)
(* it may run an agent once, as the router's default has it                 *)
(* (llm_router.py:51).                                                      *)
THEOREM OrdersFollowDecisions ==
    ASSUME MaxRepeat = 1
    PROVE  SupervisorSpec => []OrderFollowsDecision
<1>1. SupervisorInv => OrderFollowsDecision
  <2> SUFFICES ASSUME SupervisorInv, run.router # "callback" PROVE BoardInv
    BY DEF BoardInv, OrderFollowsDecision
  <2>1. run.router \in {"plan", "llm", "callback"}
    BY SupervisorAssumption DEF SupervisorInv, TraceInv
  <2> QED
    BY <2>1 DEF SupervisorInv, Guarded
<1> QED
  BY <1>1, SupervisorInvInit, SupervisorInvStep, PTL DEF SupervisorSpec

(* The run stays within its budget of turns, whatever routes it, and only   *)
(* agents of the registry ever work (supervisor.py:52-82).                  *)
THEOREM SupervisorWellTyped == SupervisorSpec => []SupervisorTyped
<1> DEFINE Venue == book \in Books /\ moves \in 0..MaxMoves
           Browser == client \in {"open", "closed", "gone"}
<1>1. SupervisorInit => Venue /\ Browser
  BY SupervisorAssumption DEF SupervisorInit
<1>2. Venue /\ Browser /\ [SupervisorNext]_supervisorVars => Venue' /\ Browser'
  <2> SUFFICES ASSUME Venue, Browser, [SupervisorNext]_supervisorVars PROVE Venue' /\ Browser'
    OBVIOUS
  <2>1. MaxMoves \in Nat
    BY SupervisorAssumption
  <2>2. CASE BookMoves
    BY <2>1, <2>2 DEF BookMoves
  <2>3. CASE Begin \/ BeginFails \/ Route \/ LoopEnds \/ Finish
    BY <2>3 DEF Begin, BeginFails, Route, LoopEnds, Finish
  <2>4. CASE AgentRaises \/ DataAgent \/ SignalAgent \/ RiskAgent \/ ExecutionAgent
    BY <2>4 DEF AgentRaises, DataAgent, SignalAgent, RiskAgent, ExecutionAgent, Report
  <2>5. CASE Deliver \/ Leave
    BY <2>5 DEF Deliver, Leave
  <2>6. CASE UNCHANGED supervisorVars
    BY <2>6 DEF supervisorVars
  <2> QED
    BY <2>2, <2>3, <2>4, <2>5, <2>6 DEF SupervisorNext, Supervise
<1>3. SupervisorInv /\ Venue /\ Browser => SupervisorTyped
  BY DEF SupervisorInv, TraceInv, SupervisorTyped
<1> QED
  BY <1>1, <1>2, <1>3, SupervisorInvInit, SupervisorInvStep, PTL DEF SupervisorSpec

-----------------------------------------------------------------------------
(* The stream of a strategy run.                                            *)

Sent == {"error", "end", "run_start", "agent_start", "agent_result", "run_end", "final"}

(* A stream closes after the work, with nothing left in the queue; and once *)
(* the work is over, a client that still reads has its end coming           *)
(* (web/server.py:511-545).                                                 *)
StreamClosesAfterWork ==
    /\ client = "closed" => worker = "ended" /\ inbox = <<>>
    /\ worker = "ended" /\ client = "open" => inbox # <<>> /\ inbox[Len(inbox)] = "end"

EndComesLast ==
    \A i \in DOMAIN inbox : inbox[i] = "end" => worker = "ended" /\ i = Len(inbox)

InboxInv ==
    /\ inbox \in Seq(Sent) /\ client \in {"open", "closed", "gone"}
    /\ client = "gone" => inbox = <<>>
    /\ EndComesLast /\ StreamClosesAfterWork

(* What the worker puts ends with "end" exactly if it is done.              *)
LEMMA WorkerPuts ==
    ASSUME InboxInv, worker # "ended", client' = client, NEW events \in Seq(Sent),
           PutEvents(events), events # <<>>,
           \A i \in 1..Len(events) : events[i] = "end" <=> worker' = "ended" /\ i = Len(events)
    PROVE  InboxInv'
<1> DEFINE n == Len(inbox)
           m == Len(events)
<1>1. /\ inbox \in Seq(Sent) /\ n \in Nat /\ m \in Nat /\ m > 0
      /\ client \in {"open", "gone"}
      /\ \A i \in 1..n : inbox[i] # "end"
  BY DEF InboxInv, EndComesLast, StreamClosesAfterWork
<1>2. CASE client = "gone"
  BY <1>1, <1>2 DEF PutEvents, InboxInv, EndComesLast, StreamClosesAfterWork
<1>3. CASE client = "open"
  <2>1. inbox' = inbox \o events
    BY <1>3 DEF PutEvents
  <2>2. /\ inbox' \in Seq(Sent) /\ Len(inbox') = n + m /\ DOMAIN inbox' = 1..(n + m)
        /\ \A i \in 1..n : inbox'[i] = inbox[i]
        /\ \A i \in (n + 1)..(n + m) : inbox'[i] = events[i - n]
    BY <1>1, <2>1
  <2> HIDE DEF n, m
  <2>3. ASSUME NEW i \in 1..(n + m), inbox'[i] = "end"
        PROVE  worker' = "ended" /\ i = n + m
    <3>1. i \in 1..n \/ i \in (n + 1)..(n + m)
      BY <1>1
    <3>2. i \in (n + 1)..(n + m) /\ events[i - n] = "end" /\ i - n \in 1..m
      BY <1>1, <2>2, <2>3, <3>1
    <3> QED
      BY <1>1, <3>2 DEF m
  <2>4. EndComesLast'
    <3> SUFFICES ASSUME NEW i \in DOMAIN inbox', inbox'[i] = "end"
                 PROVE  worker' = "ended" /\ i = Len(inbox')
      BY DEF EndComesLast
    <3> QED
      BY <2>2, <2>3
  <2>5. inbox' # <<>> /\ inbox'[n + m] = events[m]
    <3>1. n + m \in (n + 1)..(n + m) /\ (n + m) - n = m
      BY <1>1
    <3> QED
      BY <1>1, <2>2, <3>1
  <2>6. worker' = "ended" => events[m] = "end"
    BY <1>1 DEF m
  <2> QED
    BY <1>1, <1>3, <2>2, <2>4, <2>5, <2>6 DEF InboxInv, StreamClosesAfterWork
<1> QED
  BY <1>1, <1>2, <1>3

(* A worker that goes on without a word.                                    *)
LEMMA WorkerSilent ==
    ASSUME InboxInv, worker # "ended", worker' # "ended", UNCHANGED <<inbox, client>>
    PROVE  InboxInv'
BY DEF InboxInv, EndComesLast, StreamClosesAfterWork

LEMMA DeliverKeeps == InboxInv /\ Deliver => InboxInv'
<1> SUFFICES ASSUME InboxInv, Deliver PROVE InboxInv'
  OBVIOUS
<1> DEFINE n == Len(inbox)
<1>1. /\ inbox \in Seq(Sent) /\ n \in Nat /\ n > 0 /\ client = "open" /\ worker' = worker
      /\ inbox' = Tail(inbox) /\ Head(inbox) = inbox[1]
      /\ client' = IF Head(inbox) = "end" THEN "closed" ELSE "open"
  BY DEF InboxInv, Deliver
<1>2. /\ inbox' \in Seq(Sent) /\ Len(inbox') = n - 1
      /\ \A i \in 1..(n - 1) : inbox'[i] = inbox[i + 1]
  BY <1>1
<1> HIDE DEF n
<1>3. EndComesLast'
  BY <1>1, <1>2 DEF InboxInv, EndComesLast, n
<1>4. CASE Head(inbox) = "end"
  <2>1. n = 1 /\ worker = "ended"
    <3>1. 1 \in DOMAIN inbox /\ inbox[1] = "end"
      BY <1>1, <1>4 DEF n
    <3>2. worker = "ended" /\ 1 = Len(inbox)
      BY <3>1 DEF InboxInv, EndComesLast
    <3> QED
      BY <3>2 DEF n
  <2>2. inbox' = <<>>
    BY <1>2, <2>1
  <2> QED
    BY <1>1, <1>2, <1>3, <1>4, <2>1, <2>2 DEF InboxInv, StreamClosesAfterWork
<1>5. CASE Head(inbox) # "end"
  <2>1. client' = "open"
    BY <1>1, <1>5
  <2>2. worker = "ended" => inbox' # <<>> /\ inbox'[Len(inbox')] = "end"
    <3> SUFFICES ASSUME worker = "ended" PROVE inbox' # <<>> /\ inbox'[Len(inbox')] = "end"
      OBVIOUS
    <3>1. inbox[n] = "end"
      BY <1>1 DEF InboxInv, StreamClosesAfterWork, n
    <3>2. n > 1
      BY <1>1, <1>5, <3>1
    <3>3. n - 1 \in 1..(n - 1) /\ (n - 1) + 1 = n
      BY <1>1, <3>2
    <3>4. inbox'[n - 1] = inbox[n]
      BY <1>2, <3>3
    <3>5. inbox'[Len(inbox')] = "end"
      BY <1>2, <3>1, <3>4
    <3>6. Len(inbox') # 0
      BY <1>1, <1>2, <3>2
    <3>7. inbox' # <<>>
      BY <3>6
    <3> QED
      BY <3>5, <3>7
  <2> QED
    BY <1>1, <1>2, <1>3, <2>1, <2>2 DEF InboxInv, StreamClosesAfterWork
<1> QED
  BY <1>4, <1>5

LEMMA InboxStep == InboxInv /\ [SupervisorNext]_supervisorVars => InboxInv'
<1> SUFFICES ASSUME InboxInv, [SupervisorNext]_supervisorVars PROVE InboxInv'
  OBVIOUS
<1>1. CASE UNCHANGED supervisorVars \/ BookMoves
  BY <1>1 DEF supervisorVars, BookMoves, InboxInv, EndComesLast, StreamClosesAfterWork
<1>2. CASE Begin \/ BeginFails
  <2>1. worker # "ended" /\ client' = client
    BY <1>2 DEF Begin, BeginFails
  <2>2. CASE worker' = "ended" /\ PutEvents(<<"error", "end">>)
    <3> DEFINE events == <<"error", "end">>
    <3>1. /\ events \in Seq(Sent) /\ events # <<>> /\ Len(events) = 2
          /\ events[1] = "error" /\ events[2] = "end"
      BY DEF Sent
    <3>2. PutEvents(events)
      BY <2>2
    <3>3. 1..2 = {1, 2}
      OBVIOUS
    <3> HIDE DEF events
    <3> QED
      BY <2>1, <2>2, <3>1, <3>2, <3>3, WorkerPuts
  <2>3. CASE worker' = "route" /\ PutEvents(<<"run_start">>)
    <3> DEFINE events == <<"run_start">>
    <3>1. /\ events \in Seq(Sent) /\ events # <<>> /\ Len(events) = 1 /\ events[1] = "run_start"
      BY DEF Sent
    <3>2. PutEvents(events)
      BY <2>3
    <3> HIDE DEF events
    <3> QED
      BY <2>1, <2>3, <3>1, <3>2, WorkerPuts
  <2> QED
    BY <1>2, <2>2, <2>3 DEF Begin, BeginFails
<1>3. CASE Route
  <2>1. worker # "ended" /\ client' = client
    BY <1>3 DEF Route
  <2>2. PICK name \in NextAgent :
           \/ worker' = "finish" /\ UNCHANGED inbox
           \/ name \in Available /\ worker' = name /\ PutEvents(<<"agent_start">>)
    BY <1>3 DEF Route
  <2>3. CASE worker' = "finish" /\ UNCHANGED inbox
    BY <2>1, <2>3, WorkerSilent
  <2>4. CASE name \in Available /\ worker' = name /\ PutEvents(<<"agent_start">>)
    <3>1. name \in Agents
      BY <2>4, PlanNamesEachOnce DEF Available, ToSet
    <3>2. worker' # "ended"
      BY <2>4, <3>1, AgentsAre
    <3> DEFINE events == <<"agent_start">>
    <3>3. /\ events \in Seq(Sent) /\ events # <<>> /\ Len(events) = 1 /\ events[1] = "agent_start"
      BY DEF Sent
    <3>4. PutEvents(events)
      BY <2>4
    <3> HIDE DEF events
    <3> QED
      BY <2>1, <3>2, <3>3, <3>4, WorkerPuts
  <2> QED
    BY <2>2, <2>3, <2>4
<1>4. CASE LoopEnds
  BY <1>4, WorkerSilent DEF LoopEnds
<1>5. CASE AgentRaises \/ DataAgent \/ SignalAgent \/ RiskAgent \/ ExecutionAgent
  <2>1. /\ worker # "ended" /\ worker' = "route" /\ client' = client
        /\ PutEvents(<<"agent_result">>)
    BY <1>5 DEF AgentRaises, DataAgent, SignalAgent, RiskAgent, ExecutionAgent, Report
  <2> DEFINE events == <<"agent_result">>
  <2>2. /\ events \in Seq(Sent) /\ events # <<>> /\ Len(events) = 1 /\ events[1] = "agent_result"
    BY DEF Sent
  <2>3. PutEvents(events)
    BY <2>1
  <2> HIDE DEF events
  <2> QED
    BY <2>1, <2>2, <2>3, WorkerPuts
<1>6. CASE Finish
  <2>1. /\ worker # "ended" /\ worker' = "ended" /\ client' = client
        /\ PutEvents(<<"run_end", "final", "end">>)
    BY <1>6 DEF Finish
  <2> DEFINE events == <<"run_end", "final", "end">>
  <2>2. /\ events \in Seq(Sent) /\ events # <<>> /\ Len(events) = 3
        /\ events[1] = "run_end" /\ events[2] = "final" /\ events[3] = "end"
    BY DEF Sent
  <2>3. PutEvents(events)
    BY <2>1
  <2>4. 1..3 = {1, 2, 3}
    OBVIOUS
  <2> HIDE DEF events
  <2> QED
    BY <2>1, <2>2, <2>3, <2>4, WorkerPuts
<1>7. CASE Deliver
  BY <1>7, DeliverKeeps
<1>8. CASE Leave
  BY <1>8 DEF Leave, InboxInv, EndComesLast, StreamClosesAfterWork
<1> QED
  BY <1>1, <1>2, <1>3, <1>4, <1>5, <1>6, <1>7, <1>8 DEF SupervisorNext, Supervise

(* The stream of a run is closed only after its work, with everything read; *)
(* whatever fails or refuses, the end is put for a client that still reads. *)
THEOREM StreamNeverEndsEarly == SupervisorSpec => []StreamClosesAfterWork
<1>1. SupervisorInit => InboxInv
  BY DEF SupervisorInit, InboxInv, EndComesLast, StreamClosesAfterWork
<1>2. InboxInv => StreamClosesAfterWork
  BY DEF InboxInv
<1> QED
  BY <1>1, <1>2, InboxStep, PTL DEF SupervisorSpec

=============================================================================
