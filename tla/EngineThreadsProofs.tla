-------------------------- MODULE EngineThreadsProofs --------------------------
(* What interleaved orders cannot do to the one Portfolio, for any number   *)
(* of threads, tokens and sizes.                                            *)
EXTENDS EngineThreads, PortfolioProofs

Job == [pc : {"idle"} \cup BuySteps \cup CloseSteps,
        token : Tokens \cup {NoObject}, obj : Objects \cup {NoObject},
        size : Nat, fill : Nat, notional : Int, total : Nat]

(* What a worker holds at each step of its job.                             *)
JobOK(w) ==
    /\ job[w].pc # "idle" => job[w].token \in Tokens
    /\ job[w].pc = "checked" => job[w].size \in 1..MaxSize
    /\ Booking(w) => job[w].notional \in 1..MaxSize
    /\ job[w].pc = "merging" => job[w].obj \in Objects
    /\ job[w].pc = "close" => job[w].notional \in Nat
    /\ job[w].pc = "popped" => job[w].obj \in Objects /\ job[w].notional \in Nat

JobsOK == \A w \in Workers : JobOK(w)

(* A Position belongs to one key of the dict or to one thread that popped   *)
(* it, never to two.                                                        *)
OneOwner ==
    /\ \A t, u \in Tokens :
          t # u => positions[t] # positions[u] \/ positions[t] = NoObject
    /\ \A w \in Workers, t \in Tokens :
          job[w].pc = "popped" => positions[t] # job[w].obj
    /\ \A w, v \in Workers :
          w # v /\ job[w].pc = "popped" /\ job[v].pc = "popped"
              => job[w].obj # job[v].obj

(* A thread that books a buy on a Position does so for its owner's token.   *)
OwnToken ==
    \A w \in Workers :
       Booking(w) /\ job[w].obj # NoObject =>
          /\ \A t \in Tokens : positions[t] = job[w].obj => t = job[w].token
          /\ \A v \in Workers :
                job[v].pc = "popped" /\ job[v].obj = job[w].obj
                    => job[v].token = job[w].token

Shape == TypeOK /\ JobsOK /\ OneOwner /\ OwnToken

-----------------------------------------------------------------------------
(* There is always an object nothing refers to when a new Position is made. *)
LEMMA FreshExists ==
    ASSUME TypeOK, NEW w \in Workers, job[w].obj = NoObject
    PROVE  Fresh \in Objects /\ Fresh \notin Referenced
<1> DEFINE Others == Workers \ {w}
           inDict == [t \in Tokens |-> positions[t]]
           inHand == [v \in Others |-> job[v].obj]
           A == {positions[t] : t \in Tokens}
           B == {job[v].obj : v \in Others}
<1>1. IsFiniteSet(A) /\ Cardinality(A) <= Cardinality(Tokens)
  <2>1. inDict \in Surjection(Tokens, A)
    BY DEF Surjection
  <2> HIDE DEF inDict, A
  <2> QED
    BY <2>1, PortfolioAssumption, FS_Surjection
<1>2. IsFiniteSet(Others) /\ Cardinality(Others) = Cardinality(Workers) - 1
  BY ThreadsAssumption, FS_RemoveElement
<1>3. IsFiniteSet(B) /\ Cardinality(B) <= Cardinality(Others)
  <2>1. inHand \in Surjection(Others, B)
    BY DEF Surjection
  <2> HIDE DEF inHand, B, Others
  <2> QED
    BY <2>1, <1>2, FS_Surjection
<1>4. Referenced \subseteq A \cup B \cup {NoObject}
  BY DEF Referenced
<1>5. /\ Cardinality(Tokens) \in Nat /\ Cardinality(Workers) \in Nat
      /\ Cardinality(Objects) \in Nat
  BY ThreadsAssumption, PortfolioAssumption, FS_CardinalityType
<1> HIDE DEF A, B, Others
<1>6. ~(Objects \subseteq A \cup B)
  <2> SUFFICES ASSUME Objects \subseteq A \cup B PROVE FALSE
    OBVIOUS
  <2>1. /\ IsFiniteSet(A \cup B)
        /\ Cardinality(A \cup B) = Cardinality(A) + Cardinality(B) - Cardinality(A \cap B)
    BY <1>1, <1>3, FS_Union
  <2>2. Cardinality(A) \in Nat /\ Cardinality(B) \in Nat
    BY <1>1, <1>3, FS_CardinalityType
  <2>3. Cardinality(A \cap B) \in Nat
    BY <1>1, FS_Intersection, FS_CardinalityType
  <2>4. Cardinality(Objects) <= Cardinality(A \cup B)
    BY <2>1, FS_Subset
  <2> QED
    BY <1>1, <1>2, <1>3, <1>5, <2>1, <2>2, <2>3, <2>4, ThreadsAssumption
<1>7. \E o \in Objects : o \notin Referenced
  BY <1>4, <1>6, ThreadsAssumption
<1> QED
  BY <1>7 DEF Fresh

(* The shape of the initial state.                                          *)
LEMMA InitShape == Init => Shape
BY PortfolioAssumption, ThreadsAssumption
   DEF Init, Shape, TypeOK, JobsOK, JobOK, OneOwner, OwnToken, Booking, Idle,
       BuySteps, CloseSteps

(* Starting a job disturbs no other.                                        *)
LEMMA StartShape ==
    ASSUME Shape, NEW w \in Workers, NEW j, Start(w, j),
           j \in [pc : {"checked", "reduce", "close"}, token : Tokens, obj : {NoObject},
                  size : Nat, fill : Nat, notional : Nat, total : Nat],
           j.pc = "checked" => j.size \in 1..MaxSize
    PROVE  Shape'
<1>1. /\ job' = [job EXCEPT ![w] = j]
      /\ job'[w] = j /\ \A v \in Workers \ {w} : job'[v] = job[v]
      /\ positions' = positions
  BY DEF Start, Shape, TypeOK
<1>2. TypeOK'
  BY ThreadsAssumption DEF Start, Shape, TypeOK, BuySteps, CloseSteps
<1>3. JobsOK'
  BY <1>1 DEF Shape, JobsOK, JobOK, Booking
<1>4. OneOwner'
  BY <1>1 DEF Shape, OneOwner
<1>5. OwnToken'
  BY <1>1 DEF Shape, OwnToken, Booking
<1> QED
  BY <1>2, <1>3, <1>4, <1>5 DEF Shape

LEMMA StartsShape ==
    ASSUME Shape, NEW w \in Workers, NEW t \in Tokens,
           \/ \E size \in Sizes : CheckBuy(w, t, size)
           \/ CheckSell(w, t)
           \/ SettleRead(w, t)
    PROVE  Shape'
<1> DEFINE Jobs == [pc : {"checked", "reduce", "close"}, token : Tokens, obj : {NoObject},
                    size : Nat, fill : Nat, notional : Nat, total : Nat]
<1>1. CASE \E size \in Sizes : CheckBuy(w, t, size)
  <2>1. PICK size \in Sizes : CheckBuy(w, t, size)
    BY <1>1
  <2> DEFINE j == [Idle EXCEPT !.pc = "checked", !.token = t, !.size = size]
  <2>2. Start(w, j)
    BY <2>1 DEF CheckBuy
  <2>3. size \in 1..MaxSize /\ size \in Nat
    BY ThreadsAssumption
  <2>4. j \in Jobs /\ j.size = size
    BY <2>3 DEF Idle
  <2> HIDE DEF j
  <2> QED
    BY <2>2, <2>3, <2>4, StartShape
<1>2. CASE CheckSell(w, t)
  <2> DEFINE j == [Idle EXCEPT !.pc = "reduce", !.token = t]
  <2>1. /\ Start(w, j)
        /\ j \in Jobs
        /\ j.pc # "checked"
    BY <1>2, ThreadsAssumption DEF CheckSell, Idle
  <2> QED
    BY <2>1, StartShape
<1>3. CASE SettleRead(w, t)
  <2>1. PICK price \in {0, Payout} :
            Start(w, [Idle EXCEPT !.pc = "close", !.token = t, !.notional = price])
    BY <1>3 DEF SettleRead
  <2> DEFINE j == [Idle EXCEPT !.pc = "close", !.token = t, !.notional = price]
  <2>2. Start(w, j)
    BY <2>1
  <2>3. price \in Nat
    BY PortfolioAssumption
  <2>4. j \in Jobs /\ j.pc = "close"
    BY <2>3 DEF Idle
  <2> HIDE DEF j
  <2> QED
    BY <2>2, <2>4, StartShape
<1> QED
  BY <1>1, <1>2, <1>3

LEMMA DebitShape == ASSUME Shape, NEW w \in Workers, Debit(w) PROVE Shape'
<1>1. PICK f \in BuyFills(job[w].size) :
          /\ money' = [money EXCEPT !.cash = @ - f.notional]
          /\ job' = [job EXCEPT ![w].pc = "debited",
                                ![w].obj = positions[job[w].token],
                                ![w].fill = f.shares,
                                ![w].notional = f.notional]
          /\ unsold' = [unsold EXCEPT ![job[w].token] = @ + f.shares]
  BY DEF Debit
<1>2. /\ job[w].pc = "checked" /\ job[w].token \in Tokens /\ job[w].size \in 1..MaxSize
      /\ positions' = positions /\ heap' = heap /\ started' = started
  BY DEF Debit, Shape, JobsOK, JobOK
<1>3. f.shares \in Nat /\ f.notional \in 1..MaxSize
  BY <1>2, ThreadsAssumption DEF BuyFills
<1> DEFINE t == job[w].token
           j == [job[w] EXCEPT !.pc = "debited", !.obj = positions[t],
                               !.fill = f.shares, !.notional = f.notional]
<1>4. /\ job' = [job EXCEPT ![w] = j]
      /\ job'[w] = j /\ \A v \in Workers \ {w} : job'[v] = job[v]
  BY <1>1 DEF Shape, TypeOK
<1>5. /\ j \in Job
      /\ j.pc = "debited" /\ j.token = t /\ j.obj = positions[t]
      /\ j.notional = f.notional
  <2>1. /\ job[w] \in Job /\ positions[t] \in Objects \cup {NoObject}
        /\ f.notional \in Int
    BY <1>2, <1>3 DEF Shape, TypeOK, Job
  <2> QED
    BY <1>3, <2>1 DEF Job, BuySteps
<1> HIDE DEF j
<1>6. TypeOK'
  <2>1. money' \in [cash : Int, realized : Int, today : Int, losses : Nat]
    BY <1>1, <1>3 DEF Shape, TypeOK
  <2>2. unsold' \in [Tokens -> Int]
    BY <1>1, <1>2, <1>3 DEF Shape, TypeOK
  <2>3. job \in [Workers -> Job]
    BY DEF Shape, TypeOK, Job
  <2>4. job' \in [Workers -> Job]
    BY <1>4, <1>5, <2>3
  <2> QED
    BY <1>2, <2>1, <2>2, <2>4 DEF Shape, TypeOK, Job
<1>7. JobsOK'
  BY <1>2, <1>3, <1>4, <1>5 DEF Shape, JobsOK, JobOK, Booking
<1>8. OneOwner'
  BY <1>2, <1>4, <1>5 DEF Shape, OneOwner
<1>9. OwnToken'
  BY <1>2, <1>4, <1>5 DEF Shape, OneOwner, OwnToken, Booking
<1> QED
  BY <1>6, <1>7, <1>8, <1>9 DEF Shape

LEMMA StoreNewShape == ASSUME Shape, NEW w \in Workers, StoreNew(w) PROVE Shape'
<1>1. /\ Fresh \in Objects /\ Fresh \notin Referenced
  BY FreshExists DEF StoreNew, Shape
<1> DEFINE t == job[w].token
           new == [shares |-> job[w].fill, cost |-> job[w].notional]
<1>2. /\ t \in Tokens /\ job[w].pc = "debited"
      /\ new \in [shares : Nat, cost : Nat]
  BY DEF StoreNew, Shape, TypeOK, JobsOK, JobOK, Booking
<1>3. /\ positions' = [positions EXCEPT ![t] = Fresh]
      /\ heap' = [heap EXCEPT ![Fresh] = new]
      /\ job' = [job EXCEPT ![w] = Idle]
      /\ money' = money /\ started' = started /\ unsold' = unsold
  BY DEF StoreNew, Finish
<1> HIDE DEF new
<1>4. /\ job'[w].pc = "idle" /\ \A v \in Workers \ {w} : job'[v] = job[v]
      /\ positions'[t] = Fresh /\ \A u \in Tokens \ {t} : positions'[u] = positions[u]
  BY <1>2, <1>3 DEF Shape, TypeOK, Idle
<1>5. /\ \A u \in Tokens : positions[u] # Fresh
      /\ \A v \in Workers : job[v].obj # Fresh
  BY <1>1 DEF Referenced
<1> HIDE DEF t
<1>6. TypeOK'
  BY <1>1, <1>2, <1>3, ThreadsAssumption DEF Shape, TypeOK, Idle
<1>7. JobsOK'
  BY <1>4 DEF Shape, JobsOK, JobOK, Booking
<1>8. OneOwner'
  <2>1. \A u, v \in Tokens :
           u # v => positions'[u] # positions'[v] \/ positions'[u] = NoObject
    BY <1>4, <1>5 DEF Shape, OneOwner
  <2>2. \A x \in Workers, u \in Tokens :
           job'[x].pc = "popped" => positions'[u] # job'[x].obj
    BY <1>4, <1>5 DEF Shape, OneOwner
  <2>3. \A x, v \in Workers :
           x # v /\ job'[x].pc = "popped" /\ job'[v].pc = "popped"
               => job'[x].obj # job'[v].obj
    BY <1>4 DEF Shape, OneOwner
  <2> QED
    BY <2>1, <2>2, <2>3 DEF OneOwner
<1>9. OwnToken'
  BY <1>4, <1>5 DEF Shape, OwnToken, Booking
<1> QED
  BY <1>6, <1>7, <1>8, <1>9 DEF Shape

LEMMA ReadTotalShape == ASSUME Shape, NEW w \in Workers, ReadTotal(w) PROVE Shape'
<1> DEFINE total == heap[job[w].obj].shares + job[w].fill
           j == [job[w] EXCEPT !.pc = "merging", !.total = total]
<1>1. /\ job[w].pc = "debited" /\ job[w].obj \in Objects /\ total \in Nat
      /\ positions' = positions /\ heap' = heap /\ started' = started
      /\ money' = money /\ unsold' = unsold
      /\ job' = [job EXCEPT ![w] = j]
  <2>1. /\ job[w].pc = "debited" /\ job[w].obj \in Objects
        /\ heap[job[w].obj].shares \in Nat /\ job[w].fill \in Nat
    BY DEF ReadTotal, Shape, TypeOK
  <2>2. /\ positions' = positions /\ heap' = heap /\ started' = started
        /\ money' = money /\ unsold' = unsold
        /\ job' = [job EXCEPT ![w] = j]
    BY DEF ReadTotal, Shape, TypeOK
  <2> QED
    BY <2>1, <2>2
<1> HIDE DEF total
<1>2. /\ j \in Job
      /\ j.pc = "merging" /\ j.token = job[w].token /\ j.obj = job[w].obj
      /\ j.notional = job[w].notional
  BY <1>1 DEF Shape, TypeOK, BuySteps, Job
<1>3. job'[w] = j /\ \A v \in Workers \ {w} : job'[v] = job[v]
  BY <1>1 DEF Shape, TypeOK
<1> HIDE DEF j
<1>4. TypeOK'
  BY <1>1, <1>2 DEF Shape, TypeOK, Job
<1>5. JobsOK'
  BY <1>1, <1>2, <1>3 DEF Shape, JobsOK, JobOK, Booking
<1>6. OneOwner'
  BY <1>1, <1>2, <1>3 DEF Shape, OneOwner
<1>7. OwnToken'
  BY <1>1, <1>2, <1>3 DEF Shape, OwnToken, Booking
<1> QED
  BY <1>4, <1>5, <1>6, <1>7 DEF Shape

(* A worker that is done, or that lets go of its object, disturbs no other. *)
LEMMA FinishShape ==
    ASSUME Shape, NEW w \in Workers, Finish(w), positions' = positions
    PROVE  JobsOK' /\ OneOwner' /\ OwnToken'
<1>1. /\ job'[w].pc = "idle" /\ \A v \in Workers \ {w} : job'[v] = job[v]
  BY DEF Finish, Shape, TypeOK, Idle
<1>2. JobsOK'
  BY <1>1 DEF Shape, JobsOK, JobOK, Booking
<1>3. OneOwner'
  BY <1>1 DEF Shape, OneOwner
<1>4. OwnToken'
  BY <1>1 DEF Shape, OwnToken, Booking
<1> QED
  BY <1>2, <1>3, <1>4

LEMMA MergeShape == ASSUME Shape, NEW w \in Workers, Merge(w) PROVE Shape'
<1> DEFINE o == job[w].obj
           merged == [shares |-> job[w].total, cost |-> heap[o].cost + job[w].notional]
<1>1. /\ o \in Objects /\ merged \in [shares : Nat, cost : Nat]
      /\ heap' = [heap EXCEPT ![o] = merged]
      /\ Finish(w)
      /\ positions' = positions /\ money' = money /\ started' = started /\ unsold' = unsold
  BY DEF Merge, Shape, TypeOK, JobsOK, JobOK, Booking
<1> HIDE DEF merged
<1>2. TypeOK'
  BY <1>1, ThreadsAssumption DEF Shape, TypeOK, Finish, Idle
<1> QED
  BY <1>1, <1>2, FinishShape DEF Shape

LEMMA SubmitExitShape == ASSUME Shape, NEW w \in Workers, SubmitExit(w) PROVE Shape'
<1>1. /\ job[w].pc = "reduce" /\ job[w].token \in Tokens
      /\ positions' = positions /\ heap' = heap /\ started' = started
      /\ money' = money /\ unsold' = unsold
  BY DEF SubmitExit, Shape, JobsOK, JobOK
<1>2. CASE Finish(w)
  <2>1. TypeOK'
    BY <1>1, <1>2, ThreadsAssumption DEF Shape, TypeOK, Finish, Idle
  <2> QED
    BY <1>1, <1>2, <2>1, FinishShape DEF Shape
<1>3. CASE \E price \in Prices :
              job' = [job EXCEPT ![w].pc = "close", ![w].notional = price]
  <2>1. PICK price \in Prices : job' = [job EXCEPT ![w].pc = "close", ![w].notional = price]
    BY <1>3
  <2>2. price \in Nat
    BY PortfolioAssumption
  <2> DEFINE j == [job[w] EXCEPT !.pc = "close", !.notional = price]
  <2>3. /\ job' = [job EXCEPT ![w] = j]
        /\ job'[w] = j /\ \A v \in Workers \ {w} : job'[v] = job[v]
        /\ j \in Job
        /\ j.pc = "close" /\ j.token = job[w].token /\ j.notional = price
    <3>1. job[w] \in Job
      BY DEF Shape, TypeOK, Job
    <3>2. /\ job' = [job EXCEPT ![w] = j]
          /\ job'[w] = j /\ \A v \in Workers \ {w} : job'[v] = job[v]
      BY <2>1, <3>1 DEF Shape, TypeOK
    <3>3. price \in Int /\ "close" \in CloseSteps
      BY <2>2 DEF CloseSteps
    <3>4. j \in Job
      BY <3>1, <3>3 DEF Job
    <3>5. j.pc = "close" /\ j.token = job[w].token /\ j.notional = price
      BY <3>1 DEF Job
    <3> HIDE DEF j
    <3> QED
      BY <3>2, <3>4, <3>5
  <2> HIDE DEF j
  <2>4. TypeOK'
    BY <1>1, <2>3 DEF Shape, TypeOK, Job
  <2>5. JobsOK'
    BY <1>1, <2>2, <2>3 DEF Shape, JobsOK, JobOK, Booking
  <2>6. OneOwner' /\ OwnToken'
    BY <1>1, <2>3 DEF Shape, OneOwner, OwnToken, Booking
  <2> QED
    BY <2>4, <2>5, <2>6 DEF Shape
<1> QED
  BY <1>2, <1>3 DEF SubmitExit

LEMMA PopShape == ASSUME Shape, NEW w \in Workers, Pop(w) PROVE Shape'
<1> DEFINE t == job[w].token
<1>1. /\ job[w].pc = "close" /\ t \in Tokens /\ job[w].notional \in Nat
      /\ heap' = heap /\ started' = started /\ money' = money /\ unsold' = unsold
  BY DEF Pop, Shape, JobsOK, JobOK
<1>2. CASE Finish(w) /\ positions' = positions
  <2>1. TypeOK'
    BY <1>1, <1>2, ThreadsAssumption DEF Shape, TypeOK, Finish, Idle
  <2> QED
    BY <1>1, <1>2, <2>1, FinishShape DEF Shape
<1>3. CASE /\ positions[t] # NoObject
           /\ positions' = [positions EXCEPT ![t] = NoObject]
           /\ job' = [job EXCEPT ![w].pc = "popped", ![w].obj = positions[t]]
  <2> DEFINE j == [job[w] EXCEPT !.pc = "popped", !.obj = positions[t]]
  <2>1. /\ job' = [job EXCEPT ![w] = j]
        /\ job'[w] = j /\ \A v \in Workers \ {w} : job'[v] = job[v]
        /\ positions[t] \in Objects
        /\ positions'[t] = NoObject /\ \A u \in Tokens \ {t} : positions'[u] = positions[u]
        /\ j \in Job
        /\ j.pc = "popped" /\ j.token = t /\ j.notional = job[w].notional
        /\ j.obj = positions[t]
    BY ZenonT(40), <1>1, <1>3 DEF Shape, TypeOK, CloseSteps, Job
  <2> HIDE DEF j, t
  <2>2. TypeOK'
    BY <1>1, <1>3, <2>1 DEF Shape, TypeOK, Job
  <2>3. JobsOK'
    BY <1>1, <2>1 DEF Shape, JobsOK, JobOK, Booking
  <2>4. OneOwner'
    BY SMTT(30), <1>1, <2>1, ThreadsAssumption DEF Shape, TypeOK, JobsOK, JobOK, OneOwner
  <2>5. OwnToken'
    BY <1>1, <2>1 DEF Shape, OwnToken, Booking
  <2> QED
    BY <2>2, <2>3, <2>4, <2>5 DEF Shape
<1> QED
  BY <1>2, <1>3 DEF Pop

LEMMA BookCloseShape == ASSUME Shape, NEW w \in Workers, BookClose(w) PROVE Shape'
<1> DEFINE o == job[w].obj
           proceeds == job[w].notional * heap[o].shares
           pnl == proceeds - heap[o].cost
           j == [job[w] EXCEPT !.pc = "streak", !.obj = NoObject, !.notional = pnl]
<1>1. /\ job[w].pc = "popped" /\ job[w].token \in Tokens
      /\ heap[o].shares \in Nat /\ heap[o].cost \in Nat /\ job[w].notional \in Nat
  BY DEF BookClose, Shape, TypeOK, JobsOK, JobOK
<1>2. proceeds \in Nat /\ pnl \in Int
  BY <1>1
<1>3. /\ money' = [money EXCEPT !.cash = @ + proceeds, !.realized = @ + pnl,
                                !.today = @ + pnl]
      /\ job' = [job EXCEPT ![w] = j]
      /\ unsold' = [unsold EXCEPT ![job[w].token] = @ - heap[o].shares]
      /\ positions' = positions /\ heap' = heap /\ started' = started
  BY DEF BookClose, Shape, TypeOK
<1> HIDE DEF proceeds, pnl
<1>4. /\ job'[w] = j /\ \A v \in Workers \ {w} : job'[v] = job[v]
      /\ j \in Job
      /\ j.pc = "streak" /\ j.token = job[w].token
  BY ZenonT(40), <1>1, <1>2, <1>3 DEF Shape, TypeOK, CloseSteps, Job
<1> HIDE DEF j
<1>5. TypeOK'
  <2>1. money' \in [cash : Int, realized : Int, today : Int, losses : Nat]
    <3> DEFINE cash == money.cash + proceeds
               realized == money.realized + pnl
               today == money.today + pnl
    <3>1. cash \in Int /\ realized \in Int /\ today \in Int
      BY <1>2 DEF Shape, TypeOK
    <3>2. money' = [money EXCEPT !.cash = cash, !.realized = realized, !.today = today]
      BY <1>3 DEF Shape, TypeOK
    <3> HIDE DEF cash, realized, today
    <3> QED
      BY <3>1, <3>2 DEF Shape, TypeOK
  <2>2. unsold' \in [Tokens -> Int]
    BY <1>1, <1>3 DEF Shape, TypeOK
  <2> QED
    BY <1>3, <1>4, <2>1, <2>2 DEF Shape, TypeOK, Job
<1>6. JobsOK'
  BY <1>1, <1>4 DEF Shape, JobsOK, JobOK, Booking
<1>7. OneOwner' /\ OwnToken'
  BY <1>3, <1>4 DEF Shape, OneOwner, OwnToken, Booking
<1> QED
  BY <1>5, <1>6, <1>7 DEF Shape

LEMMA CountStreakShape == ASSUME Shape, NEW w \in Workers, CountStreak(w) PROVE Shape'
<1>1. TypeOK'
  BY ThreadsAssumption DEF CountStreak, Shape, TypeOK, Finish, Idle
<1> QED
  BY <1>1, FinishShape DEF Shape, CountStreak

LEMMA StepShape == ASSUME Shape, NEW w \in Workers, Step(w) PROVE Shape'
BY DebitShape, StoreNewShape, ReadTotalShape, MergeShape, SubmitExitShape, PopShape,
   BookCloseShape, CountStreakShape DEF Step

LEMMA QuietShape == ASSUME Shape, NextDay \/ UNCHANGED vars PROVE Shape'
<1>1. positions' = positions /\ heap' = heap /\ job' = job
      /\ started' = started /\ unsold' = unsold
  BY DEF NextDay, vars
<1>2. money' \in [cash : Int, realized : Int, today : Int, losses : Nat]
  BY DEF NextDay, vars, Shape, TypeOK
<1> QED
  BY <1>1, <1>2 DEF Shape, TypeOK, JobsOK, JobOK, OneOwner, OwnToken, Booking

LEMMA NextShape == Shape /\ [Next]_vars => Shape'
BY StartsShape, StepShape, QuietShape DEF Next

-----------------------------------------------------------------------------
(* Money.                                                                   *)

Costs == [t \in Tokens |-> Cost(t)]

(* Every sum the invariants take is a sum of natural numbers.               *)
LEMMA Sums ==
    Shape => /\ Costs \in [Tokens -> Nat] /\ Exposure(Book) \in Nat
             /\ Exposure(Book) = Cardinality(Units(Costs, Tokens))
             /\ Spent \in [Workers -> Nat] /\ Paid \in Nat
             /\ Asked \in [Workers -> Nat] /\ Promised \in Nat
             /\ Closed \in [Workers -> Nat] /\ Closing \in Nat
<1> SUFFICES ASSUME Shape PROVE /\ Costs \in [Tokens -> Nat] /\ Exposure(Book) \in Nat
             /\ Exposure(Book) = Cardinality(Units(Costs, Tokens))
             /\ Spent \in [Workers -> Nat] /\ Paid \in Nat
             /\ Asked \in [Workers -> Nat] /\ Promised \in Nat
             /\ Closed \in [Workers -> Nat] /\ Closing \in Nat
  OBVIOUS
<1>1. Costs \in [Tokens -> Nat]
  BY DEF Costs, Cost, Shape, TypeOK
<1>2. Exposure(Book) = Cardinality(Units(Costs, Tokens))
  BY DEF Exposure, Stake, Book, Costs
<1>3. Spent \in [Workers -> Nat]
  BY DEF Spent, Booking, Shape, JobsOK, JobOK
<1>4. Asked \in [Workers -> Nat]
  BY DEF Asked, Shape, TypeOK
<1>5. Closed \in [Workers -> Nat]
  BY DEF Closed, Shape, TypeOK, JobsOK, JobOK
<1> QED
  BY <1>1, <1>2, <1>3, <1>4, <1>5, UnitsFinite, PortfolioAssumption, ThreadsAssumption
     DEF Paid, Promised, Closing, Total

(* A step of one worker changes the sums by its own share of them.          *)
LEMMA WorkerSums ==
    ASSUME Shape, Shape', NEW w \in Workers,
           \A v \in Workers \ {w} : job'[v] = job[v]
    PROVE  /\ Paid' = Paid - Spent[w] + Spent'[w]
           /\ Promised' = Promised - Asked[w] + Asked'[w]
           /\ (\A v \in Workers \ {w} :
                 job[v].pc = "popped" => heap'[job[v].obj].cost = heap[job[v].obj].cost)
              => Closing' = Closing - Closed[w] + Closed'[w]
<1>1. Sums /\ Sums'
  BY Sums, PTL
<1>2. \A v \in Workers \ {w} : Spent'[v] = Spent[v] /\ Asked'[v] = Asked[v]
  BY DEF Spent, Asked, Booking
<1>3. (\A v \in Workers \ {w} :
         job[v].pc = "popped" => heap'[job[v].obj].cost = heap[job[v].obj].cost)
      => \A v \in Workers \ {w} : Closed'[v] = Closed[v]
  BY DEF Closed
<1> QED
  BY SMTT(30), <1>1, <1>2, <1>3, UnitsChange, ThreadsAssumption DEF Paid, Promised, Closing, Total

(* A step that leaves the dict and the objects alone keeps the exposure.    *)
LEMMA SameExposure ==
    ASSUME positions' = positions, heap' = heap
    PROVE  Exposure(Book)' = Exposure(Book)
BY DEF Exposure, Stake, Units, Book, Cost

(* The cost of one token changes: so does the exposure.                     *)
LEMMA TokenSum ==
    ASSUME Shape, Shape', NEW t \in Tokens,
           \A u \in Tokens \ {t} : Costs'[u] = Costs[u]
    PROVE  Exposure(Book)' = Exposure(Book) - Costs[t] + Costs'[t]
<1>1. Sums /\ Sums'
  BY Sums, PTL
<1> QED
  BY <1>1, UnitsChange, PortfolioAssumption

StartedSize(j) == IF j.pc = "checked" THEN j.size ELSE 0

LEMMA StartMoney ==
    ASSUME Shape, Shape', NEW w \in Workers, NEW j, Start(w, j),
           j.pc \in {"checked", "reduce", "close"}
    PROVE  /\ Exposure(Book)' = Exposure(Book) /\ money' = money
           /\ Paid' = Paid /\ Closing' = Closing
           /\ Promised' = Promised + StartedSize(j)
<1>1. /\ job'[w] = j /\ \A v \in Workers \ {w} : job'[v] = job[v]
      /\ job[w].pc = "idle"
      /\ heap' = heap /\ positions' = positions /\ money' = money
  BY DEF Start, Shape, TypeOK
<1>2. /\ Paid' = Paid - Spent[w] + Spent'[w]
      /\ Promised' = Promised - Asked[w] + Asked'[w]
      /\ Closing' = Closing - Closed[w] + Closed'[w]
  BY <1>1, WorkerSums
<1>3. Spent[w] = 0 /\ Asked[w] = 0 /\ Closed[w] = 0
  BY <1>1 DEF Spent, Asked, Closed, Booking
<1>4. Spent'[w] = 0 /\ Asked'[w] = StartedSize(j) /\ Closed'[w] = 0
  BY <1>1 DEF Spent, Asked, Closed, Booking, StartedSize
<1>5. StartedSize(j) \in Nat
  BY <1>1 DEF StartedSize, Shape, TypeOK
<1> QED
  BY <1>1, <1>2, <1>3, <1>4, <1>5, Sums, SameExposure

LEMMA DebitMoney ==
    ASSUME Shape, Shape', NEW w \in Workers, Debit(w)
    PROVE  \E n, size \in 1..MaxSize :
              /\ n <= size
              /\ money' = [money EXCEPT !.cash = @ - n]
              /\ Exposure(Book)' = Exposure(Book) /\ Closing' = Closing
              /\ Paid' = Paid + n /\ Promised' = Promised - size
<1>1. PICK f \in BuyFills(job[w].size) :
          /\ money' = [money EXCEPT !.cash = @ - f.notional]
          /\ job' = [job EXCEPT ![w].pc = "debited",
                                ![w].obj = positions[job[w].token],
                                ![w].fill = f.shares,
                                ![w].notional = f.notional]
  BY DEF Debit
<1> DEFINE n == f.notional
           size == job[w].size
<1>2. /\ job[w].pc = "checked" /\ size \in 1..MaxSize
      /\ positions' = positions /\ heap' = heap
  BY DEF Debit, Shape, JobsOK, JobOK
<1>3. n \in 1..MaxSize /\ n <= size
  BY <1>2, ThreadsAssumption DEF BuyFills
<1>4. /\ job'[w].pc = "debited" /\ job'[w].notional = n
      /\ \A v \in Workers \ {w} : job'[v] = job[v]
  BY <1>1 DEF Shape, TypeOK
<1>5. /\ Paid' = Paid - Spent[w] + Spent'[w]
      /\ Promised' = Promised - Asked[w] + Asked'[w]
      /\ Closing' = Closing - Closed[w] + Closed'[w]
  BY <1>2, <1>4, WorkerSums
<1>6. Spent[w] = 0 /\ Asked[w] = size /\ Closed[w] = 0
  BY <1>2 DEF Spent, Asked, Closed, Booking
<1>7. Spent'[w] = n /\ Asked'[w] = 0 /\ Closed'[w] = 0
  BY <1>4 DEF Spent, Asked, Closed, Booking
<1>8. Exposure(Book)' = Exposure(Book)
  BY <1>2, SameExposure
<1>9. /\ Paid' = Paid + n /\ Promised' = Promised - size /\ Closing' = Closing
  BY <1>2, <1>3, <1>5, <1>6, <1>7, Sums
<1> QED
  BY <1>1, <1>2, <1>3, <1>8, <1>9

(* Storing a new Position books the buy; a Position it overwrites is lost.  *)
LEMMA StoreNewMoney ==
    ASSUME Shape, Shape', NEW w \in Workers, StoreNew(w)
    PROVE  \E n, lost \in Nat :
              /\ money' = money
              /\ Exposure(Book)' = Exposure(Book) + n - lost /\ Closing' = Closing
              /\ Paid' = Paid - n /\ Promised' = Promised
<1> DEFINE t == job[w].token
           n == job[w].notional
           lost == Costs[t]
<1>1. /\ Fresh \in Objects /\ Fresh \notin Referenced
  BY FreshExists DEF StoreNew, Shape
<1>2. /\ t \in Tokens /\ job[w].pc = "debited" /\ n \in Nat
  BY DEF StoreNew, Shape, JobsOK, JobOK, Booking
<1>3. /\ job'[w].pc = "idle" /\ \A v \in Workers \ {w} : job'[v] = job[v]
      /\ positions'[t] = Fresh /\ \A u \in Tokens \ {t} : positions'[u] = positions[u]
      /\ heap'[Fresh].cost = n /\ \A o \in Objects \ {Fresh} : heap'[o] = heap[o]
      /\ money' = money
  BY <1>1, <1>2 DEF StoreNew, Finish, Shape, TypeOK, Idle
<1>4. /\ \A u \in Tokens : positions[u] # Fresh /\ positions[u] \in Objects \cup {NoObject}
      /\ \A v \in Workers : job[v].obj # Fresh /\ job[v].obj \in Objects \cup {NoObject}
  BY <1>1 DEF Referenced, Shape, TypeOK
<1>5. \A v \in Workers \ {w} :
         job[v].pc = "popped" => heap'[job[v].obj].cost = heap[job[v].obj].cost
  BY <1>3, <1>4 DEF Shape, JobsOK, JobOK
<1>6. /\ Paid' = Paid - Spent[w] + Spent'[w]
      /\ Promised' = Promised - Asked[w] + Asked'[w]
      /\ Closing' = Closing - Closed[w] + Closed'[w]
  BY <1>3, <1>5, WorkerSums
<1>7. Spent[w] = n /\ Asked[w] = 0 /\ Closed[w] = 0
  BY <1>2 DEF Spent, Asked, Closed, Booking
<1>8. Spent'[w] = 0 /\ Asked'[w] = 0 /\ Closed'[w] = 0
  BY <1>3 DEF Spent, Asked, Closed, Booking
<1>9. Costs'[t] = n
  BY <1>1, <1>2, <1>3, ThreadsAssumption DEF Costs, Cost
<1>10. \A u \in Tokens \ {t} : Costs'[u] = Costs[u]
  BY <1>3, <1>4 DEF Costs, Cost
<1>11. Exposure(Book)' = Exposure(Book) - Costs[t] + n
  BY <1>2, <1>9, <1>10, TokenSum
<1>12. lost \in Nat
  BY <1>2, Sums
<1>13. /\ Exposure(Book)' = Exposure(Book) + n - lost
       /\ Paid' = Paid - n /\ Promised' = Promised /\ Closing' = Closing
  BY <1>2, <1>6, <1>7, <1>8, <1>11, <1>12, Sums
<1> HIDE DEF n, lost
<1> QED
  BY <1>2, <1>3, <1>12, <1>13

LEMMA ReadTotalMoney ==
    ASSUME Shape, Shape', NEW w \in Workers, ReadTotal(w)
    PROVE  /\ money' = money /\ Exposure(Book)' = Exposure(Book)
           /\ Closing' = Closing /\ Paid' = Paid /\ Promised' = Promised
<1>1. /\ job'[w].pc = "merging" /\ job'[w].notional = job[w].notional
      /\ \A v \in Workers \ {w} : job'[v] = job[v]
      /\ job[w].pc = "debited"
      /\ heap' = heap /\ positions' = positions /\ money' = money
  BY DEF ReadTotal, Shape, TypeOK
<1>2. /\ Paid' = Paid - Spent[w] + Spent'[w]
      /\ Promised' = Promised - Asked[w] + Asked'[w]
      /\ Closing' = Closing - Closed[w] + Closed'[w]
  BY <1>1, WorkerSums
<1>3. Spent'[w] = Spent[w] /\ Asked'[w] = Asked[w] /\ Closed'[w] = Closed[w]
  BY <1>1 DEF Spent, Asked, Closed, Booking
<1> QED
  BY <1>1, <1>2, <1>3, Sums, SameExposure

(* A merge books the buy on whoever has the Position: the dict, a thread    *)
(* that popped it, or nobody.                                               *)
LEMMA MergeMoney ==
    ASSUME Shape, Shape', NEW w \in Workers, Merge(w)
    PROVE  \E n \in Nat :
              /\ money' = money
              /\ Paid' = Paid - n /\ Promised' = Promised
              /\ Exposure(Book)' <= Exposure(Book) + n
              /\ Exposure(Book)' + Closing' <= Exposure(Book) + Closing + n
<1> DEFINE o == job[w].obj
           n == job[w].notional
<1>1. /\ job[w].pc = "merging" /\ o \in Objects /\ n \in Nat /\ Booking(w)
      /\ job[w].token \in Tokens
  BY DEF Merge, Shape, JobsOK, JobOK, Booking
<1>2. /\ job'[w].pc = "idle" /\ \A v \in Workers \ {w} : job'[v] = job[v]
      /\ positions' = positions /\ money' = money
  BY DEF Merge, Finish, Shape, TypeOK, Idle
<1>3. /\ heap'[o].cost = heap[o].cost + n
      /\ \A x \in Objects \ {o} : heap'[x] = heap[x]
      /\ heap[o].cost \in Nat
  BY <1>1 DEF Merge, Shape, TypeOK
<1>4. /\ Paid' = Paid - Spent[w] + Spent'[w]
      /\ Promised' = Promised - Asked[w] + Asked'[w]
  BY <1>2, WorkerSums
<1>5. Spent[w] = n /\ Asked[w] = 0 /\ Closed[w] = 0
  BY <1>1 DEF Spent, Asked, Closed, Booking
<1>6. Spent'[w] = 0 /\ Asked'[w] = 0 /\ Closed'[w] = 0
  BY <1>2 DEF Spent, Asked, Closed, Booking
<1>7. Sums /\ Sums'
  BY Sums, PTL
<1>8. Paid' = Paid - n /\ Promised' = Promised
  BY <1>1, <1>4, <1>5, <1>6, <1>7
<1> HIDE DEF n
<1>9. CASE \E t \in Tokens : positions[t] = o
  <2>1. PICK t \in Tokens : positions[t] = o
    BY <1>9
  <2>2. /\ \A u \in Tokens \ {t} : positions[u] # o
        /\ \A v \in Workers : job[v].pc = "popped" => job[v].obj # o
    BY <2>1, <1>1, ThreadsAssumption DEF Shape, OneOwner
  <2>3. Costs'[t] = Costs[t] + n
    BY <2>1, <1>1, <1>2, <1>3, ThreadsAssumption DEF Costs, Cost
  <2>4. \A u \in Tokens \ {t} : Costs'[u] = Costs[u]
    BY <2>2, <1>2, <1>3 DEF Costs, Cost, Shape, TypeOK
  <2>5. Exposure(Book)' = Exposure(Book) + n
    BY <2>3, <2>4, <1>1, <1>7, TokenSum
  <2>6. \A v \in Workers \ {w} :
            job[v].pc = "popped" => heap'[job[v].obj].cost = heap[job[v].obj].cost
    BY <2>2, <1>3 DEF Shape, JobsOK, JobOK
  <2>7. Closing' = Closing
    BY <2>6, <1>2, <1>5, <1>6, <1>7, WorkerSums
  <2> QED
    BY <2>5, <2>7, <1>1, <1>2, <1>7, <1>8
<1>10. CASE \A t \in Tokens : positions[t] # o
  <2>1. \A t \in Tokens : Costs'[t] = Costs[t]
    BY <1>10, <1>2, <1>3 DEF Costs, Cost, Shape, TypeOK
  <2>2. Exposure(Book)' = Exposure(Book)
    BY <2>1, <1>1, <1>7, TokenSum
  <2>3. CASE \E v \in Workers : job[v].pc = "popped" /\ job[v].obj = o
    <3>1. PICK v \in Workers : job[v].pc = "popped" /\ job[v].obj = o
      BY <2>3
    <3>2. v # w
      BY <3>1, <1>1
    <3>3. Closed[v] = heap[o].cost /\ Closed'[v] = heap[o].cost + n
      BY <3>1, <3>2, <1>2, <1>3 DEF Closed
    <3>4. \A u \in Workers \ {v} : Closed'[u] = Closed[u]
      <4>1. \A u \in Workers \ {v} :
               job[u].pc = "popped" => job[u].obj \in Objects \ {o}
        BY <3>1 DEF Shape, OneOwner, JobsOK, JobOK
      <4>2. \A u \in Workers \ {v, w} : Closed'[u] = Closed[u]
        BY <4>1, <1>2, <1>3 DEF Closed
      <4> QED
        BY <4>2, <1>5, <1>6
    <3>5. Closing' = Closing - Closed[v] + Closed'[v]
      BY <3>4, <1>7, UnitsChange, ThreadsAssumption DEF Closing, Total
    <3>6. Closing' = Closing + n
      BY <3>3, <3>5, <1>1, <1>3, <1>7
    <3> QED
      BY <3>6, <2>2, <1>1, <1>2, <1>7, <1>8
  <2>4. CASE \A v \in Workers : job[v].pc = "popped" => job[v].obj # o
    <3>1. \A v \in Workers \ {w} :
              job[v].pc = "popped" => heap'[job[v].obj].cost = heap[job[v].obj].cost
      BY <2>4, <1>3 DEF Shape, JobsOK, JobOK
    <3>2. Closing' = Closing
      BY <3>1, <1>2, <1>5, <1>6, <1>7, WorkerSums
    <3> QED
      BY <3>2, <2>2, <1>1, <1>2, <1>7, <1>8
  <2> QED
    BY <2>3, <2>4
<1> QED
  BY <1>9, <1>10

(* A popped Position takes its cost with it.                                *)
LEMMA PopMoney ==
    ASSUME Shape, Shape', NEW w \in Workers, Pop(w)
    PROVE  \E cost \in Nat :
              /\ money' = money /\ Paid' = Paid /\ Promised' = Promised
              /\ Exposure(Book)' = Exposure(Book) - cost
              /\ Closing' = Closing + cost
<1> DEFINE t == job[w].token
<1>1. /\ job[w].pc = "close" /\ t \in Tokens /\ heap' = heap /\ money' = money
  BY DEF Pop, Shape, JobsOK, JobOK
<1>2. Sums /\ Sums'
  BY Sums, PTL
<1>3. Spent[w] = 0 /\ Asked[w] = 0 /\ Closed[w] = 0
  BY <1>1 DEF Spent, Asked, Closed, Booking
<1>4. CASE Finish(w) /\ positions' = positions
  <2>1. /\ job'[w].pc = "idle" /\ \A v \in Workers \ {w} : job'[v] = job[v]
    BY <1>4 DEF Finish, Shape, TypeOK, Idle
  <2>2. /\ Paid' = Paid - Spent[w] + Spent'[w]
        /\ Promised' = Promised - Asked[w] + Asked'[w]
        /\ Closing' = Closing - Closed[w] + Closed'[w]
    BY <1>1, <2>1, WorkerSums
  <2>3. Spent'[w] = 0 /\ Asked'[w] = 0 /\ Closed'[w] = 0
    BY <2>1 DEF Spent, Asked, Closed, Booking
  <2>4. Exposure(Book)' = Exposure(Book)
    BY <1>1, <1>4, SameExposure
  <2>5. /\ Exposure(Book)' = Exposure(Book) - 0 /\ Closing' = Closing + 0
        /\ Paid' = Paid /\ Promised' = Promised
    BY <2>2, <2>3, <2>4, <1>2, <1>3
  <2> QED
    BY <2>5, <1>1
<1>5. CASE /\ positions[t] # NoObject
           /\ positions' = [positions EXCEPT ![t] = NoObject]
           /\ job' = [job EXCEPT ![w].pc = "popped", ![w].obj = positions[t]]
  <2> DEFINE cost == heap[positions[t]].cost
  <2>1. /\ job'[w].pc = "popped" /\ job'[w].obj = positions[t]
        /\ \A v \in Workers \ {w} : job'[v] = job[v]
        /\ positions'[t] = NoObject /\ \A u \in Tokens \ {t} : positions'[u] = positions[u]
        /\ positions[t] \in Objects
    BY <1>1, <1>5 DEF Shape, TypeOK
  <2>2. /\ Paid' = Paid - Spent[w] + Spent'[w]
        /\ Promised' = Promised - Asked[w] + Asked'[w]
        /\ Closing' = Closing - Closed[w] + Closed'[w]
    BY <1>1, <2>1, WorkerSums
  <2>3. Spent'[w] = 0 /\ Asked'[w] = 0 /\ Closed'[w] = cost
    BY <2>1, <1>1 DEF Spent, Asked, Closed, Booking
  <2>4. Costs[t] = cost /\ Costs'[t] = 0
    BY <1>1, <1>5, <2>1 DEF Costs, Cost
  <2>5. \A u \in Tokens \ {t} : Costs'[u] = Costs[u]
    BY <1>1, <2>1 DEF Costs, Cost
  <2>6. Exposure(Book)' = Exposure(Book) - Costs[t] + Costs'[t]
    BY <1>1, <2>5, TokenSum
  <2>7. cost \in Nat
    BY <1>1, <1>2, <2>4
  <2> HIDE DEF cost
  <2>8. /\ Exposure(Book)' = Exposure(Book) - cost /\ Closing' = Closing + cost
        /\ Paid' = Paid /\ Promised' = Promised
    BY <2>2, <2>3, <2>4, <2>6, <2>7, <1>2, <1>3
  <2> QED
    BY <2>7, <2>8, <1>1
<1> QED
  BY <1>4, <1>5 DEF Pop

(* Booking a close turns the cost of the Position into cash and P&L.        *)
LEMMA BookCloseMoney ==
    ASSUME Shape, Shape', NEW w \in Workers, BookClose(w)
    PROVE  \E cost, proceeds \in Nat :
              /\ money'.cash = money.cash + proceeds
              /\ money'.realized = money.realized + proceeds - cost
              /\ Paid' = Paid /\ Promised' = Promised
              /\ Exposure(Book)' = Exposure(Book)
              /\ Closing' = Closing - cost
<1> DEFINE o == job[w].obj
           cost == heap[o].cost
           proceeds == job[w].notional * heap[o].shares
<1>1. /\ job[w].pc = "popped" /\ heap' = heap /\ positions' = positions
      /\ heap[o].shares \in Nat /\ cost \in Nat /\ job[w].notional \in Nat
  BY DEF BookClose, Shape, TypeOK, JobsOK, JobOK
<1>2. proceeds \in Nat
  BY <1>1
<1>3. /\ job'[w].pc = "streak" /\ \A v \in Workers \ {w} : job'[v] = job[v]
  BY DEF BookClose, Shape, TypeOK
<1>4. /\ money'.cash = money.cash + proceeds
      /\ money'.realized = money.realized + (proceeds - cost)
      /\ money.realized \in Int
  BY DEF BookClose, Shape, TypeOK
<1>5. /\ Paid' = Paid - Spent[w] + Spent'[w]
      /\ Promised' = Promised - Asked[w] + Asked'[w]
      /\ Closing' = Closing - Closed[w] + Closed'[w]
  BY <1>1, <1>3, WorkerSums
<1>6. Spent[w] = 0 /\ Asked[w] = 0 /\ Closed[w] = cost
  BY <1>1 DEF Spent, Asked, Closed, Booking
<1>7. Spent'[w] = 0 /\ Asked'[w] = 0 /\ Closed'[w] = 0
  BY <1>3 DEF Spent, Asked, Closed, Booking
<1>8. Exposure(Book)' = Exposure(Book)
  BY <1>1, SameExposure
<1> HIDE DEF cost, proceeds
<1>9. /\ Paid' = Paid /\ Promised' = Promised /\ Closing' = Closing - cost
      /\ money'.realized = money.realized + proceeds - cost
  BY <1>1, <1>2, <1>4, <1>5, <1>6, <1>7, Sums
<1> QED
  BY <1>1, <1>2, <1>4, <1>8, <1>9

(* The steps that touch neither cash nor positions.                         *)
LEMMA OtherMoney ==
    ASSUME Shape, Shape', NextDay \/ UNCHANGED vars
                          \/ \E w \in Workers : SubmitExit(w) \/ CountStreak(w)
    PROVE  /\ money'.cash = money.cash /\ money'.realized = money.realized
           /\ Paid' = Paid /\ Promised' = Promised
           /\ Exposure(Book)' = Exposure(Book)
           /\ Closing' = Closing
<1>1. /\ heap' = heap /\ positions' = positions
      /\ money'.cash = money.cash /\ money'.realized = money.realized
  BY DEF NextDay, vars, SubmitExit, CountStreak, Shape, TypeOK
<1>2. Exposure(Book)' = Exposure(Book)
  BY <1>1, SameExposure
<1>3. CASE job' = job
  BY <1>1, <1>2, <1>3 DEF Paid, Promised, Closing, Total, Units, Spent, Asked, Closed, Booking
<1>4. CASE \E w \in Workers : SubmitExit(w) \/ CountStreak(w)
  <2>1. PICK w \in Workers : SubmitExit(w) \/ CountStreak(w)
    BY <1>4
  <2>2. /\ job[w].pc \in {"reduce", "streak"} /\ job'[w].pc \in {"close", "idle"}
        /\ \A v \in Workers \ {w} : job'[v] = job[v]
    BY <2>1 DEF SubmitExit, CountStreak, Finish, Shape, TypeOK, Idle
  <2>3. /\ Paid' = Paid - Spent[w] + Spent'[w]
        /\ Promised' = Promised - Asked[w] + Asked'[w]
        /\ Closing' = Closing - Closed[w] + Closed'[w]
    BY <1>1, <2>2, WorkerSums
  <2>4. /\ Spent[w] = 0 /\ Asked[w] = 0 /\ Closed[w] = 0
        /\ Spent'[w] = 0 /\ Asked'[w] = 0 /\ Closed'[w] = 0
    BY <2>2 DEF Spent, Asked, Closed, Booking
  <2> QED
    BY <1>1, <1>2, <2>3, <2>4, Sums
<1> QED
  BY <1>3, <1>4 DEF NextDay, vars

-----------------------------------------------------------------------------
(* No money from nothing.                                                   *)

LEMMA InitMoney == Init => NoMoneyFromNothing
<1> SUFFICES ASSUME Init PROVE NoMoneyFromNothing
  OBVIOUS
<1>1. Shape
  BY InitShape
<1>2. /\ \A w \in Workers : Spent[w] = 0 /\ Asked[w] = 0 /\ Closed[w] = 0
      /\ \A t \in Tokens : Costs[t] = 0
  BY DEF Init, Spent, Asked, Closed, Booking, Idle, Costs, Cost
<1>3. Paid = 0 /\ Closing = 0 /\ Exposure(Book) = 0
  BY <1>1, <1>2, Sums, UnitsOfNothing DEF Paid, Closing, Total
<1> QED
  BY <1>3, PortfolioAssumption DEF Init, NoMoneyFromNothing

(* What starting a job does, whichever it is.                               *)
LEMMA StartsMoney ==
    ASSUME Shape, Shape', NEW w \in Workers, NEW t \in Tokens,
           \/ \E size \in Sizes : CheckBuy(w, t, size)
           \/ CheckSell(w, t)
           \/ SettleRead(w, t)
    PROVE  /\ Exposure(Book)' = Exposure(Book) /\ money' = money
           /\ Paid' = Paid /\ Closing' = Closing
           /\ \/ Promised' = Promised
              \/ \E size \in Sizes :
                    /\ job[w].pc = "idle"
                    /\ EntryAllowed(Book, Order(t, "buy", size))
                    /\ Promised' = Promised + size
<1>1. CASE \E size \in Sizes : CheckBuy(w, t, size)
  <2>1. PICK size \in Sizes : CheckBuy(w, t, size)
    BY <1>1
  <2> DEFINE j == [Idle EXCEPT !.pc = "checked", !.token = t, !.size = size]
  <2>2. Start(w, j) /\ j.pc = "checked" /\ j.size = size
    BY <2>1 DEF CheckBuy, Idle
  <2>3. job[w].pc = "idle" /\ EntryAllowed(Book, Order(t, "buy", size))
    BY <2>1 DEF CheckBuy, Start
  <2> HIDE DEF j
  <2> QED
    BY <2>2, <2>3, StartMoney DEF StartedSize
<1>2. CASE CheckSell(w, t)
  <2> DEFINE j == [Idle EXCEPT !.pc = "reduce", !.token = t]
  <2>1. Start(w, j) /\ j.pc = "reduce"
    BY <1>2 DEF CheckSell, Idle
  <2> HIDE DEF j
  <2> QED
    BY <2>1, StartMoney, Sums DEF StartedSize
<1>3. CASE SettleRead(w, t)
  <2>1. PICK price \in {0, Payout} :
            Start(w, [Idle EXCEPT !.pc = "close", !.token = t, !.notional = price])
    BY <1>3 DEF SettleRead
  <2> DEFINE j == [Idle EXCEPT !.pc = "close", !.token = t, !.notional = price]
  <2>2. Start(w, j) /\ j.pc = "close"
    BY <2>1 DEF Idle
  <2> HIDE DEF j
  <2> QED
    BY <2>2, StartMoney, Sums DEF StartedSize
<1> QED
  BY <1>1, <1>2, <1>3

LEMMA NextMoney ==
    Shape /\ NoMoneyFromNothing /\ [Next]_vars => NoMoneyFromNothing'
<1> SUFFICES ASSUME Shape, NoMoneyFromNothing, [Next]_vars PROVE NoMoneyFromNothing'
  OBVIOUS
<1>1. Shape'
  BY NextShape
<1>2. /\ Sums /\ Sums' /\ Bankroll \in Nat
      /\ money.cash \in Int /\ money.realized \in Int
      /\ money'.cash \in Int /\ money'.realized \in Int
  <2>1. Sums /\ Sums'
    BY Sums, PTL
  <2> QED
    BY <1>1, <2>1, PortfolioAssumption DEF Shape, TypeOK
<1>3. ASSUME NEW w \in Workers, NEW t \in Tokens,
             \/ \E size \in Sizes : CheckBuy(w, t, size)
             \/ CheckSell(w, t) \/ SettleRead(w, t)
      PROVE  NoMoneyFromNothing'
  BY <1>1, <1>2, <1>3, StartsMoney DEF NoMoneyFromNothing
<1>4. ASSUME NEW w \in Workers, Debit(w) PROVE NoMoneyFromNothing'
  <2>1. PICK n \in Nat :
            /\ money' = [money EXCEPT !.cash = @ - n]
            /\ Exposure(Book)' = Exposure(Book) /\ Closing' = Closing
            /\ Paid' = Paid + n
    BY <1>1, <1>4, DebitMoney
  <2>2. money'.cash = money.cash - n /\ money'.realized = money.realized
    BY <2>1 DEF Shape, TypeOK
  <2> QED
    BY <1>2, <2>1, <2>2 DEF NoMoneyFromNothing
<1>5. ASSUME NEW w \in Workers, StoreNew(w) PROVE NoMoneyFromNothing'
  BY <1>1, <1>2, <1>5, StoreNewMoney DEF NoMoneyFromNothing
<1>6. ASSUME NEW w \in Workers, ReadTotal(w) PROVE NoMoneyFromNothing'
  BY <1>1, <1>2, <1>6, ReadTotalMoney DEF NoMoneyFromNothing
<1>7. ASSUME NEW w \in Workers, Merge(w) PROVE NoMoneyFromNothing'
  BY <1>1, <1>2, <1>7, MergeMoney DEF NoMoneyFromNothing
<1>8. ASSUME NEW w \in Workers, Pop(w) PROVE NoMoneyFromNothing'
  BY <1>1, <1>2, <1>8, PopMoney DEF NoMoneyFromNothing
<1>9. ASSUME NEW w \in Workers, BookClose(w) PROVE NoMoneyFromNothing'
  BY <1>1, <1>2, <1>9, BookCloseMoney DEF NoMoneyFromNothing
<1>10. CASE NextDay \/ UNCHANGED vars
            \/ \E w \in Workers : SubmitExit(w) \/ CountStreak(w)
  BY <1>1, <1>2, <1>10, OtherMoney DEF NoMoneyFromNothing
<1> QED
  BY <1>3, <1>4, <1>5, <1>6, <1>7, <1>8, <1>9, <1>10 DEF Next, Step

(* The portfolio's types, and the ownership of its Positions, hold however  *)
(* the threads interleave.                                                  *)
THEOREM ShapeKept == Spec => []Shape
<1>1. Init => Shape
  BY InitShape
<1>2. Shape /\ [Next]_vars => Shape'
  BY NextShape
<1> QED
  BY <1>1, <1>2, PTL DEF Spec

(* Races between buys, sells and settlements on one unlocked portfolio can  *)
(* lose a stake but never make money (portfolio.py apply_buy,               *)
(* apply_sell_close).                                                       *)
THEOREM NoMoneyIsMade == Spec => []NoMoneyFromNothing
<1>1. Init => NoMoneyFromNothing
  BY InitMoney
<1>2. Shape /\ NoMoneyFromNothing /\ [Next]_vars => NoMoneyFromNothing'
  BY NextMoney
<1> QED
  BY <1>1, <1>2, ShapeKept, PTL DEF Spec

-----------------------------------------------------------------------------
(* The damage of checking and submitting in two steps.                      *)

(* The tokens that are held, or that a buy under way is about to hold.      *)
Buying == {job[w].token : w \in {v \in Workers : job[v].pc \in BuySteps}}
Taken == Held(Book) \cup Buying

CapsPassed ==
    /\ Exposure(Book) + Paid + Promised <= ExposureCap + Overshoot
    /\ money.cash - Promised >= -Overshoot

PositionsPassed == Cardinality(Taken) <= MaxPositions + Cardinality(Workers) - 1

LEMMA OvershootType ==
    /\ Cardinality(Workers) \in Nat /\ Cardinality(Workers) >= 1
    /\ Overshoot \in Nat
<1>1. Cardinality(Workers) \in Nat /\ Cardinality(Workers) # 0
  BY ThreadsAssumption, FS_CardinalityType, FS_EmptySet
<1>2. \A a, b \in Nat : a # 0 => (a - 1) * b \in Nat
  OBVIOUS
<1> QED
  BY <1>1, <1>2, ThreadsAssumption DEF Overshoot

(* While a thread is idle the buys the others have under way come to no     *)
(* more than the overshoot.                                                 *)
LEMMA UnderWay ==
    ASSUME Shape, NEW w \in Workers, job[w].pc = "idle"
    PROVE  Paid + Promised <= Overshoot
<1> DEFINE Payers == {v \in Workers : Booking(v)}
           Askers == {v \in Workers : job[v].pc = "checked"}
           Others == Workers \ {w}
           m == MaxSize
<1>1. /\ Payers \subseteq Others /\ Askers \subseteq Others
      /\ Payers \cap Askers = {}
  BY DEF Booking
<1>2. IsFiniteSet(Others) /\ Cardinality(Others) = Cardinality(Workers) - 1
  BY ThreadsAssumption, FS_RemoveElement
<1>3. /\ Spent \in [Workers -> Nat]
      /\ \A v \in Payers : Spent[v] <= m
      /\ \A v \in Workers \ Payers : Spent[v] = 0
  BY Sums, ThreadsAssumption DEF Spent, Shape, JobsOK, JobOK
<1>4. /\ Asked \in [Workers -> Nat]
      /\ \A v \in Askers : Asked[v] <= m
      /\ \A v \in Workers \ Askers : Asked[v] = 0
  BY Sums, ThreadsAssumption DEF Asked, Shape, JobsOK, JobOK
<1>5. Payers \in SUBSET Workers /\ Askers \in SUBSET Workers
  OBVIOUS
<1> HIDE DEF Payers, Askers, Others
<1>6. /\ Paid <= Cardinality(Payers) * m
      /\ Promised <= Cardinality(Askers) * m
  BY <1>3, <1>4, <1>5, UnitsBounded, ThreadsAssumption DEF Paid, Promised, Total
<1>7. /\ IsFiniteSet(Payers) /\ IsFiniteSet(Askers)
      /\ Cardinality(Payers) \in Nat /\ Cardinality(Askers) \in Nat
  BY <1>5, ThreadsAssumption, FS_Subset, FS_CardinalityType
<1>8. /\ IsFiniteSet(Payers \cup Askers)
      /\ Cardinality(Payers \cup Askers) = Cardinality(Payers) + Cardinality(Askers) - 0
  <2>1. Cardinality(Payers \cap Askers) = 0
    BY <1>1, FS_EmptySet
  <2> QED
    BY <1>7, <2>1, FS_Union
<1>9. Cardinality(Payers \cup Askers) <= Cardinality(Others)
  BY <1>1, <1>2, FS_Subset
<1>10. Cardinality(Payers) + Cardinality(Askers) <= Cardinality(Workers) - 1
  BY <1>2, <1>7, <1>8, <1>9, OvershootType
<1>11. \A a, b, c \in Nat : a + b <= c - 1 => a * m + b * m <= (c - 1) * m
  <2> SUFFICES ASSUME NEW a \in Nat, NEW b \in Nat, NEW c \in Nat, a + b <= c - 1
               PROVE  a * m + b * m <= (c - 1) * m
    OBVIOUS
  <2>1. a * m + b * m = (a + b) * m
    BY ThreadsAssumption
  <2>2. \A x, y \in Nat : x <= y => x * m <= y * m
    BY ThreadsAssumption
  <2> QED
    BY <2>1, <2>2
<1>12. Cardinality(Payers) * m + Cardinality(Askers) * m <= (Cardinality(Workers) - 1) * m
  BY <1>7, <1>10, <1>11, OvershootType
<1>13. \A a \in Nat : a * m \in Nat
  BY ThreadsAssumption
<1> QED
  BY <1>6, <1>7, <1>12, <1>13, OvershootType, Sums DEF Overshoot

LEMMA InitCaps == Init => CapsPassed
<1> SUFFICES ASSUME Init PROVE CapsPassed
  OBVIOUS
<1>1. Shape
  BY InitShape
<1>2. /\ \A w \in Workers : Spent[w] = 0 /\ Asked[w] = 0
      /\ \A t \in Tokens : Costs[t] = 0
  BY DEF Init, Spent, Asked, Booking, Idle, Costs, Cost
<1>3. Paid = 0 /\ Promised = 0 /\ Exposure(Book) = 0
  BY <1>1, <1>2, Sums, UnitsOfNothing DEF Paid, Promised, Total
<1> QED
  BY <1>3, PortfolioAssumption, OvershootType DEF Init, CapsPassed

LEMMA NextCaps == Shape /\ CapsPassed /\ [Next]_vars => CapsPassed'
<1> SUFFICES ASSUME Shape, CapsPassed, [Next]_vars PROVE CapsPassed'
  OBVIOUS
<1>1. Shape'
  BY NextShape
<1>2. Sums /\ Sums'
  BY Sums, PTL
<1>3. /\ Exposure(Book) \in Nat /\ Paid \in Nat /\ Promised \in Nat
      /\ Exposure(Book)' \in Nat /\ Paid' \in Nat /\ Promised' \in Nat
      /\ ExposureCap \in Nat /\ Overshoot \in Nat
      /\ money.cash \in Int /\ money'.cash \in Int
      /\ Closing \in Nat /\ Closing' \in Nat
  BY <1>1, <1>2, OvershootType, PortfolioAssumption DEF Shape, TypeOK
<1>4. Overshoot' = Overshoot
  BY DEF Overshoot
<1>5. SUFFICES /\ Exposure(Book)' + Paid' + Promised' <= ExposureCap + Overshoot
               /\ money'.cash - Promised' >= -Overshoot
  BY <1>4 DEF CapsPassed
<1>6. /\ Exposure(Book) + Paid + Promised <= ExposureCap + Overshoot
      /\ money.cash - Promised >= -Overshoot
  BY DEF CapsPassed
<1>7. ASSUME NEW w \in Workers, NEW t \in Tokens,
             \/ \E size \in Sizes : CheckBuy(w, t, size)
             \/ CheckSell(w, t) \/ SettleRead(w, t)
      PROVE  /\ Exposure(Book)' + Paid' + Promised' <= ExposureCap + Overshoot
             /\ money'.cash - Promised' >= -Overshoot
  <2>1. /\ Exposure(Book)' = Exposure(Book) /\ money' = money
        /\ Paid' = Paid
        /\ \/ Promised' = Promised
           \/ \E size \in Sizes :
                 /\ job[w].pc = "idle"
                 /\ EntryAllowed(Book, Order(t, "buy", size))
                 /\ Promised' = Promised + size
    BY <1>1, <1>7, StartsMoney
  <2>2. CASE Promised' = Promised
    BY <1>3, <1>6, <2>1, <2>2
  <2>3. ASSUME NEW size \in Sizes, job[w].pc = "idle",
               EntryAllowed(Book, Order(t, "buy", size)), Promised' = Promised + size
        PROVE  /\ Exposure(Book)' + Paid' + Promised' <= ExposureCap + Overshoot
               /\ money'.cash - Promised' >= -Overshoot
    <3>1. Exposure(Book) + size <= ExposureCap /\ size <= money.cash
      BY <2>3 DEF EntryAllowed, Order, Book
    <3>2. Paid + Promised <= Overshoot
      BY <2>3, UnderWay
    <3>3. size \in Nat
      BY ThreadsAssumption
    <3> QED
      BY <1>3, <2>1, <2>3, <3>1, <3>2, <3>3
  <2> QED
    BY <2>1, <2>2, <2>3
<1>8. ASSUME NEW w \in Workers, Debit(w)
      PROVE  /\ Exposure(Book)' + Paid' + Promised' <= ExposureCap + Overshoot
             /\ money'.cash - Promised' >= -Overshoot
  <2>1. PICK n, size \in 1..MaxSize :
              /\ n <= size
              /\ money' = [money EXCEPT !.cash = @ - n]
              /\ Exposure(Book)' = Exposure(Book)
              /\ Paid' = Paid + n /\ Promised' = Promised - size
    BY <1>1, <1>8, DebitMoney
  <2>2. money'.cash = money.cash - n
    BY <2>1 DEF Shape, TypeOK
  <2>3. n \in Nat /\ size \in Nat
    BY ThreadsAssumption
  <2> QED
    BY <1>3, <1>6, <2>1, <2>2, <2>3
<1>9. ASSUME NEW w \in Workers, StoreNew(w)
      PROVE  /\ Exposure(Book)' + Paid' + Promised' <= ExposureCap + Overshoot
             /\ money'.cash - Promised' >= -Overshoot
  BY <1>1, <1>3, <1>6, <1>9, StoreNewMoney
<1>10. ASSUME NEW w \in Workers, ReadTotal(w)
       PROVE  /\ Exposure(Book)' + Paid' + Promised' <= ExposureCap + Overshoot
              /\ money'.cash - Promised' >= -Overshoot
  BY <1>1, <1>3, <1>6, <1>10, ReadTotalMoney
<1>11. ASSUME NEW w \in Workers, Merge(w)
       PROVE  /\ Exposure(Book)' + Paid' + Promised' <= ExposureCap + Overshoot
              /\ money'.cash - Promised' >= -Overshoot
  BY <1>1, <1>3, <1>6, <1>11, MergeMoney
<1>12. ASSUME NEW w \in Workers, Pop(w)
       PROVE  /\ Exposure(Book)' + Paid' + Promised' <= ExposureCap + Overshoot
              /\ money'.cash - Promised' >= -Overshoot
  BY <1>1, <1>3, <1>6, <1>12, PopMoney
<1>13. ASSUME NEW w \in Workers, BookClose(w)
       PROVE  /\ Exposure(Book)' + Paid' + Promised' <= ExposureCap + Overshoot
              /\ money'.cash - Promised' >= -Overshoot
  BY <1>1, <1>3, <1>6, <1>13, BookCloseMoney
<1>14. CASE NextDay \/ UNCHANGED vars
            \/ \E w \in Workers : SubmitExit(w) \/ CountStreak(w)
  BY <1>1, <1>3, <1>6, <1>14, OtherMoney
<1> QED
  BY <1>7, <1>8, <1>9, <1>10, <1>11, <1>12, <1>13, <1>14 DEF Next, Step

LEMMA TakenFinite ==
    ASSUME Shape
    PROVE  /\ Taken \in SUBSET Tokens /\ IsFiniteSet(Taken) /\ Cardinality(Taken) \in Nat
           /\ Held(Book) = {t \in Tokens : Shares(t) > 0}
<1>1. Held(Book) = {t \in Tokens : Shares(t) > 0}
  BY DEF Held, Book
<1>2. Taken \in SUBSET Tokens
  BY <1>1 DEF Taken, Buying, Shape, JobsOK, JobOK, BuySteps
<1> QED
  BY <1>1, <1>2, PortfolioAssumption, FS_Subset, FS_CardinalityType

(* A new buy takes at most one token more than the breaker has counted.     *)
LEMMA CheckBuyPositions ==
    ASSUME Shape, Shape', PositionsPassed, NEW w \in Workers, NEW t \in Tokens,
           NEW size \in Sizes, CheckBuy(w, t, size)
    PROVE  PositionsPassed'
<1> DEFINE Others == Workers \ {w}
           OtherBuyers == {v \in Others : job[v].pc \in BuySteps}
           theirs == [v \in OtherBuyers |-> job[v].token]
           Theirs == {job[v].token : v \in OtherBuyers}
           H == Held(Book)
<1>1. /\ job[w].pc = "idle" /\ job'[w].pc = "checked" /\ job'[w].token = t
      /\ \A v \in Others : job'[v] = job[v]
      /\ positions' = positions /\ heap' = heap
      /\ t \in H \/ Cardinality(H) < MaxPositions
  BY DEF CheckBuy, Start, Idle, EntryAllowed, Order, Shape, TypeOK
<1>2. Held(Book)' = Held(Book)
  BY <1>1 DEF Held, Book, Shares
<1>3. Buying = Theirs
  BY <1>1 DEF Buying, BuySteps
<1>4. Buying' = Theirs \cup {t}
  <2>1. \A v \in Workers : job'[v].pc \in BuySteps <=> v = w \/ v \in OtherBuyers
    BY <1>1 DEF BuySteps
  <2> QED
    BY <1>1, <2>1 DEF Buying
<1>5. /\ IsFiniteSet(Others) /\ Cardinality(Others) = Cardinality(Workers) - 1
  BY ThreadsAssumption, FS_RemoveElement
<1>6. /\ IsFiniteSet(OtherBuyers) /\ Cardinality(OtherBuyers) \in Nat
      /\ Cardinality(OtherBuyers) <= Cardinality(Workers) - 1
  <2>1. OtherBuyers \in SUBSET Others
    OBVIOUS
  <2> QED
    BY <1>5, <2>1, FS_Subset, FS_CardinalityType
<1>7. /\ IsFiniteSet(Theirs) /\ Cardinality(Theirs) \in Nat
      /\ Cardinality(Theirs) <= Cardinality(OtherBuyers)
  <2>1. theirs \in Surjection(OtherBuyers, Theirs)
    BY DEF Surjection
  <2> HIDE DEF theirs, Theirs, OtherBuyers
  <2> QED
    BY <2>1, <1>6, FS_Surjection, FS_CardinalityType
<1>8. IsFiniteSet(H) /\ Cardinality(H) \in Nat
  <2>1. H \in SUBSET Tokens
    BY TakenFinite
  <2> HIDE DEF H
  <2> QED
    BY <2>1, PortfolioAssumption, FS_Subset, FS_CardinalityType
<1>9. /\ Cardinality(Workers) \in Nat /\ MaxPositions \in Nat
  BY OvershootType, PortfolioAssumption
<1>10. Taken = H \cup Theirs /\ Taken' = H \cup {t} \cup Theirs
  BY <1>2, <1>3, <1>4 DEF Taken
<1> HIDE DEF Others, OtherBuyers, Theirs, H
<1>11. CASE t \in H
  <2>1. Taken' = Taken
    BY <1>10, <1>11
  <2> QED
    BY <2>1 DEF PositionsPassed
<1>12. CASE t \notin H
  <2>1. /\ IsFiniteSet(H \cup {t}) /\ Cardinality(H \cup {t}) = Cardinality(H) + 1
    BY <1>8, <1>12, FS_AddElement
  <2>2. /\ IsFiniteSet((H \cup {t}) \cup Theirs)
        /\ Cardinality((H \cup {t}) \cup Theirs) =
              Cardinality(H \cup {t}) + Cardinality(Theirs)
              - Cardinality((H \cup {t}) \cap Theirs)
    BY <2>1, <1>7, FS_Union
  <2>3. Cardinality((H \cup {t}) \cap Theirs) \in Nat
    BY <2>1, FS_Intersection, FS_CardinalityType
  <2>4. Cardinality(Taken') <= Cardinality(H) + 1 + Cardinality(Theirs)
    BY <1>7, <1>8, <1>10, <2>1, <2>2, <2>3
  <2>5. Cardinality(Taken') <= MaxPositions + Cardinality(Workers) - 1
    <3>1. Cardinality(Taken') \in Nat
      BY <1>10, <2>2, FS_CardinalityType
    <3> QED
      BY <1>1, <1>6, <1>7, <1>8, <1>9, <1>12, <2>4, <3>1
  <2> QED
    BY <2>5 DEF PositionsPassed
<1> QED
  BY <1>11, <1>12

(* No other step takes a token nobody had taken.                            *)
LEMMA NoNewPositions ==
    ASSUME Shape, Shape', PositionsPassed, Taken' \subseteq Taken
    PROVE  PositionsPassed'
<1>1. IsFiniteSet(Taken) /\ Cardinality(Taken) \in Nat
  BY TakenFinite
<1>2. /\ IsFiniteSet(Taken') /\ Cardinality(Taken') <= Cardinality(Taken)
      /\ Cardinality(Taken') \in Nat
  <2> DEFINE T == Taken'
  <2>1. T \in SUBSET Taken
    OBVIOUS
  <2> HIDE DEF T
  <2>2. IsFiniteSet(T) /\ Cardinality(T) <= Cardinality(Taken) /\ Cardinality(T) \in Nat
    BY <1>1, <2>1, FS_Subset, FS_CardinalityType
  <2> QED
    BY <2>2 DEF T
<1> QED
  BY <1>1, <1>2, OvershootType, PortfolioAssumption DEF PositionsPassed

(* A step that is not a checked buy, and leaves the Positions alone.        *)
LEMMA SamePositions ==
    ASSUME positions' = positions, heap' = heap,
           \A w \in Workers : job'[w].pc \in BuySteps =>
              job[w].pc \in BuySteps /\ job'[w].token = job[w].token
    PROVE  Taken' \subseteq Taken
<1>1. Held(Book)' = Held(Book)
  BY DEF Held, Book, Shares
<1>2. Buying' \subseteq Buying
  BY DEF Buying
<1> QED
  BY <1>1, <1>2 DEF Taken

LEMMA StepPositions ==
    ASSUME Shape, Shape', NEW w \in Workers, Step(w)
    PROVE  Taken' \subseteq Taken
<1> DEFINE t == job[w].token
           o == job[w].obj
<1>1. CASE Debit(w) \/ ReadTotal(w) \/ SubmitExit(w) \/ BookClose(w) \/ CountStreak(w)
  <2>1. positions' = positions /\ heap' = heap
    BY <1>1 DEF Debit, ReadTotal, SubmitExit, BookClose, CountStreak
  <2>2. \A v \in Workers \ {w} : job'[v] = job[v]
    BY ZenonT(40), <1>1 DEF Debit, ReadTotal, SubmitExit, BookClose, CountStreak, Finish, Shape, TypeOK
  <2>3. job'[w].pc \in BuySteps => job[w].pc \in BuySteps /\ job'[w].token = job[w].token
    <3>1. CASE Debit(w)
      <4>1. PICK f : job' = [job EXCEPT ![w].pc = "debited",
                                        ![w].obj = positions[job[w].token],
                                        ![w].fill = f.shares,
                                        ![w].notional = f.notional]
        BY <3>1 DEF Debit
      <4>2. job[w].pc = "checked" /\ job'[w].token = job[w].token
        BY <3>1, <4>1 DEF Debit, Shape, TypeOK
      <4> QED
        BY <4>2 DEF BuySteps
    <3>2. CASE ReadTotal(w)
      BY <3>2 DEF ReadTotal, BuySteps, Shape, TypeOK
    <3>3. CASE SubmitExit(w)
      BY <3>3 DEF SubmitExit, Finish, Idle, BuySteps, Shape, TypeOK
    <3>4. CASE BookClose(w)
      BY ZenonT(40), <3>4 DEF BookClose, BuySteps, Shape, TypeOK
    <3>5. CASE CountStreak(w)
      BY <3>5 DEF CountStreak, Finish, Idle, BuySteps, Shape, TypeOK
    <3> QED
      BY <1>1, <3>1, <3>2, <3>3, <3>4, <3>5
  <2> QED
    BY <2>1, <2>2, <2>3, SamePositions
<1>2. CASE StoreNew(w)
  <2>1. Fresh \in Objects /\ Fresh \notin Referenced
    BY <1>2, FreshExists DEF StoreNew, Shape
  <2>2. /\ t \in Tokens /\ job[w].pc = "debited"
    BY <1>2 DEF StoreNew, Shape, JobsOK, JobOK
  <2>3. /\ job'[w].pc = "idle" /\ \A v \in Workers \ {w} : job'[v] = job[v]
        /\ \A u \in Tokens \ {t} : positions'[u] = positions[u]
        /\ \A x \in Objects \ {Fresh} : heap'[x] = heap[x]
    BY <1>2, <2>1, <2>2 DEF StoreNew, Finish, Shape, TypeOK, Idle
  <2>4. \A u \in Tokens : positions[u] # Fresh /\ positions[u] \in Objects \cup {NoObject}
    BY <2>1 DEF Referenced, Shape, TypeOK
  <2>5. \A u \in Tokens \ {t} : Shares(u)' = Shares(u)
    BY <2>3, <2>4 DEF Shares
  <2>6. Held(Book)' \subseteq Held(Book) \cup {t}
    BY <2>5 DEF Held, Book
  <2>7. t \in Buying /\ Buying' \subseteq Buying
    BY <2>2, <2>3 DEF Buying, BuySteps
  <2> QED
    BY <2>6, <2>7 DEF Taken
<1>3. CASE Merge(w)
  <2>1. /\ o \in Objects /\ t \in Tokens /\ job[w].pc = "merging" /\ Booking(w)
    BY <1>3 DEF Merge, Shape, JobsOK, JobOK, Booking
  <2>2. /\ job'[w].pc = "idle" /\ \A v \in Workers \ {w} : job'[v] = job[v]
        /\ positions' = positions
        /\ \A x \in Objects \ {o} : heap'[x] = heap[x]
    BY <1>3, <2>1 DEF Merge, Finish, Shape, TypeOK, Idle
  <2>3. \A u \in Tokens \ {t} : positions[u] # o
    BY <2>1, ThreadsAssumption DEF Shape, OwnToken
  <2>4. \A u \in Tokens \ {t} : Shares(u)' = Shares(u)
    BY <2>2, <2>3 DEF Shares, Shape, TypeOK
  <2>5. Held(Book)' \subseteq Held(Book) \cup {t}
    BY <2>4 DEF Held, Book
  <2>6. t \in Buying /\ Buying' \subseteq Buying
    BY <2>1, <2>2 DEF Buying, BuySteps
  <2> QED
    BY <2>5, <2>6 DEF Taken
<1>4. CASE Pop(w)
  <2>1. /\ t \in Tokens /\ heap' = heap
        /\ \A u \in Tokens : positions'[u] \in {positions[u], NoObject}
        /\ \A v \in Workers \ {w} : job'[v] = job[v]
        /\ job'[w].pc \notin BuySteps
    BY <1>4 DEF Pop, Finish, Idle, Shape, TypeOK, JobsOK, JobOK, BuySteps
  <2>2. Held(Book)' \subseteq Held(Book)
    BY <2>1 DEF Held, Book, Shares
  <2>3. Buying' \subseteq Buying
    BY <2>1 DEF Buying
  <2> QED
    BY <2>2, <2>3 DEF Taken
<1> QED
  BY <1>1, <1>2, <1>3, <1>4 DEF Step

LEMMA NextPositions == Shape /\ PositionsPassed /\ [Next]_vars => PositionsPassed'
<1> SUFFICES ASSUME Shape, PositionsPassed, [Next]_vars PROVE PositionsPassed'
  OBVIOUS
<1>1. Shape'
  BY NextShape
<1>2. ASSUME NEW w \in Workers, NEW t \in Tokens, CheckSell(w, t) \/ SettleRead(w, t)
      PROVE  Taken' \subseteq Taken
  <2>1. /\ positions' = positions /\ heap' = heap
        /\ \A v \in Workers \ {w} : job'[v] = job[v]
        /\ job'[w].pc \notin BuySteps
    <3>1. CASE CheckSell(w, t)
      BY <3>1 DEF CheckSell, Start, Idle, Shape, TypeOK, BuySteps
    <3>2. CASE SettleRead(w, t)
      <4>1. PICK price \in {0, Payout} :
                Start(w, [Idle EXCEPT !.pc = "close", !.token = t, !.notional = price])
        BY <3>2 DEF SettleRead
      <4> QED
        BY <4>1 DEF Start, Idle, Shape, TypeOK, BuySteps
    <3> QED
      BY <1>2, <3>1, <3>2
  <2> QED
    BY <2>1, SamePositions
<1>3. NextDay \/ UNCHANGED vars => Taken' \subseteq Taken
  BY SamePositions DEF NextDay, vars
<1> QED
  BY <1>1, <1>2, <1>3, CheckBuyPositions, StepPositions, NoNewPositions DEF Next

LEMMA InitPositions == Init => PositionsPassed
<1> SUFFICES ASSUME Init PROVE PositionsPassed
  OBVIOUS
<1>1. Taken = {}
  BY DEF Init, Taken, Buying, Held, Book, Shares, Idle, BuySteps
<1> QED
  BY <1>1, FS_EmptySet, OvershootType, PortfolioAssumption DEF PositionsPassed

(* With n threads the breaker's limits are passed by at most n - 1 orders:  *)
(* the exposure and the cash by their sizes, the number of positions by     *)
(* their tokens (mcp_server.py:176-180).                                    *)
THEOREM DamageIsBounded == Spec => []OvershootBounded
<1>1. Init => CapsPassed /\ PositionsPassed
  BY InitCaps, InitPositions
<1>2. Shape /\ CapsPassed /\ [Next]_vars => CapsPassed'
  BY NextCaps
<1>3. Shape /\ PositionsPassed /\ [Next]_vars => PositionsPassed'
  BY NextPositions
<1>4. Shape /\ CapsPassed /\ PositionsPassed => OvershootBounded
  <2> SUFFICES ASSUME Shape, CapsPassed, PositionsPassed PROVE OvershootBounded
    OBVIOUS
  <2>1. Held(Book) \in SUBSET Taken /\ IsFiniteSet(Taken) /\ Cardinality(Taken) \in Nat
    BY TakenFinite DEF Taken
  <2>2. /\ IsFiniteSet(Held(Book)) /\ Cardinality(Held(Book)) <= Cardinality(Taken)
        /\ Cardinality(Held(Book)) \in Nat
    BY <2>1, FS_Subset, FS_CardinalityType
  <2>3. Cardinality(Held(Book)) <= MaxPositions + Cardinality(Workers) - 1
    BY <2>1, <2>2, OvershootType, PortfolioAssumption DEF PositionsPassed
  <2> QED
    BY <2>3 DEF CapsPassed, OvershootBounded
<1> QED
  BY <1>1, <1>2, <1>3, <1>4, ShapeKept, PTL DEF Spec

-----------------------------------------------------------------------------
(* Shares.  A stale total can forget shares, so the shares of a Position do *)
(* not say what was bought on it.  bought does: every step keeps some count *)
(* of the shares bought on each Position that covers what the Position, and *)
(* every merge under way, can still come to.                                *)

Owned(o) == \/ \E t \in Tokens : positions[t] = o
            \/ \E w \in Workers : job[w].pc = "popped" /\ job[w].obj = o

Fills(o) == [w \in Workers |-> IF Booking(w) /\ job[w].obj = o THEN job[w].fill ELSE 0]

Opening(t) == [w \in Workers |->
    IF job[w].pc = "debited" /\ job[w].obj = NoObject /\ job[w].token = t
    THEN job[w].fill ELSE 0]

InDict(bought, t) == IF positions[t] = NoObject THEN 0 ELSE bought[positions[t]]

Popped(bought, t) == [w \in Workers |->
    IF job[w].pc = "popped" /\ job[w].token = t THEN bought[job[w].obj] ELSE 0]

Covered(bought) ==
    /\ \A o \in Objects : Owned(o) => heap[o].shares + Total(Fills(o)) <= bought[o]
    /\ \A w \in Workers, o \in Objects :
          Owned(o) /\ job[w].pc = "merging" /\ job[w].obj = o
              => job[w].total + Total(Fills(o)) - job[w].fill <= bought[o]
    /\ \A t \in Tokens :
          InDict(bought, t) + Total(Popped(bought, t)) + Total(Opening(t)) <= unsold[t]

SharesCovered == \E bought \in [Objects -> Nat] : Covered(bought)

LEMMA TotalChange ==
    ASSUME NEW old \in [Workers -> Nat], NEW new \in [Workers -> Nat],
           NEW w \in Workers, \A v \in Workers \ {w} : new[v] = old[v]
    PROVE  /\ Total(old) \in Nat /\ Total(new) \in Nat
           /\ Total(new) = Total(old) - old[w] + new[w]
BY UnitsFinite, UnitsChange, ThreadsAssumption DEF Total

LEMMA ShareSums ==
    ASSUME Shape, NEW bought \in [Objects -> Nat]
    PROVE  /\ \A o \in Objects : Fills(o) \in [Workers -> Nat] /\ Total(Fills(o)) \in Nat
           /\ \A t \in Tokens :
                 /\ Opening(t) \in [Workers -> Nat] /\ Total(Opening(t)) \in Nat
                 /\ Popped(bought, t) \in [Workers -> Nat]
                 /\ Total(Popped(bought, t)) \in Nat
                 /\ Leaving(t) \in [Workers -> Nat] /\ Total(Leaving(t)) \in Nat
                 /\ InDict(bought, t) \in Nat
<1>1. \A o \in Objects : Fills(o) \in [Workers -> Nat]
  BY DEF Fills, Shape, TypeOK
<1>2. \A t \in Tokens : Opening(t) \in [Workers -> Nat]
  BY DEF Opening, Shape, TypeOK
<1>3. \A t \in Tokens : Popped(bought, t) \in [Workers -> Nat]
  BY DEF Popped, Shape, JobsOK, JobOK
<1>4. \A t \in Tokens : Leaving(t) \in [Workers -> Nat]
  BY DEF Leaving, Shape, TypeOK, JobsOK, JobOK
<1>5. \A t \in Tokens : InDict(bought, t) \in Nat
  BY DEF InDict, Shape, TypeOK
<1>6. \A f \in [Workers -> Nat] : Total(f) \in Nat
  BY UnitsFinite, ThreadsAssumption DEF Total
<1> QED
  BY <1>1, <1>2, <1>3, <1>4, <1>5, <1>6

LEMMA ShareSumsNext ==
    ASSUME Shape', NEW bought \in [Objects -> Nat]
    PROVE  /\ \A o \in Objects : Fills(o)' \in [Workers -> Nat]
           /\ \A t \in Tokens :
                 /\ Opening(t)' \in [Workers -> Nat]
                 /\ Popped(bought, t)' \in [Workers -> Nat]
<1>1. \A o \in Objects : Fills(o)' \in [Workers -> Nat]
  BY DEF Fills, Shape, TypeOK
<1>2. \A t \in Tokens : Opening(t)' \in [Workers -> Nat]
  BY DEF Opening, Shape, TypeOK
<1>3. \A t \in Tokens : Popped(bought, t)' \in [Workers -> Nat]
  BY DEF Popped, Shape, JobsOK, JobOK
<1> QED
  BY <1>1, <1>2, <1>3

(* Covered shares are never sold twice.                                     *)
LEMMA CoveredIsSafe == Shape /\ SharesCovered => NothingSoldTwice
<1> SUFFICES ASSUME Shape, NEW bought \in [Objects -> Nat], Covered(bought),
                    NEW t \in Tokens
             PROVE  Shares(t) + Total(Leaving(t)) <= unsold[t]
  BY DEF SharesCovered, NothingSoldTwice
<1>1. \A o \in Objects : Owned(o) => heap[o].shares <= bought[o]
  <2>1. \A o \in Objects : heap[o].shares \in Nat /\ bought[o] \in Nat
    BY DEF Shape, TypeOK
  <2> QED
    BY <2>1, ShareSums DEF Covered
<1>2. Shares(t) \in Nat /\ Shares(t) <= InDict(bought, t)
  BY <1>1, ThreadsAssumption DEF Shares, InDict, Owned, Shape, TypeOK
<1>3. \A w \in Workers : Leaving(t)[w] <= Popped(bought, t)[w]
  BY <1>1 DEF Leaving, Popped, Owned, Shape, JobsOK, JobOK
<1>4. Total(Leaving(t)) <= Total(Popped(bought, t))
  BY <1>3, ShareSums, UnitsMonotone, ThreadsAssumption DEF Total
<1>5. unsold[t] \in Int
  BY DEF Shape, TypeOK
<1>6. InDict(bought, t) + Total(Popped(bought, t)) + Total(Opening(t)) <= unsold[t]
  BY DEF Covered
<1> QED
  BY <1>2, <1>4, <1>5, <1>6, ShareSums

LEMMA InitShares == Init => SharesCovered
<1> SUFFICES ASSUME Init PROVE SharesCovered
  OBVIOUS
<1> DEFINE none == [o \in Objects |-> 0]
<1>1. none \in [Objects -> Nat]
  OBVIOUS
<1>2. \A o : ThreadsAssumption /\ o \in Objects => ~Owned(o)
  BY DEF Init, Owned, Idle, ThreadsAssumption
<1>3. \A w \in Workers : job[w].pc = "idle"
  BY DEF Init, Idle
<1>4. \A t \in Tokens :
         /\ InDict(none, t) = 0 /\ unsold[t] = 0
         /\ \A w \in Workers : Popped(none, t)[w] = 0 /\ Opening(t)[w] = 0
  BY <1>3 DEF Init, InDict, Popped, Opening
<1>5. \A t \in Tokens : Total(Popped(none, t)) = 0 /\ Total(Opening(t)) = 0
  BY <1>4, UnitsOfNothing DEF Total
<1>6. Covered(none)
  BY <1>2, <1>3, <1>4, <1>5, ThreadsAssumption DEF Covered
<1> QED
  BY <1>1, <1>6 DEF SharesCovered

(* The steps that neither book a buy nor hold a popped Position.            *)
Calm == {"idle", "checked", "reduce", "close", "streak"}

LEMMA CalmShares ==
    ASSUME SharesCovered, positions' = positions, heap' = heap, unsold' = unsold,
           \A w \in Workers :
              \/ job'[w] = job[w]
              \/ job[w].pc \in Calm /\ job'[w].pc \in Calm
    PROVE  SharesCovered'
<1>1. PICK bought \in [Objects -> Nat] : Covered(bought)
  BY DEF SharesCovered
<1>2. \A o : Owned(o)' <=> Owned(o)
  BY DEF Owned, Calm
<1>3. \A o : Fills(o)' = Fills(o)
  BY DEF Fills, Booking, Calm
<1>4. \A t \in Tokens : /\ Opening(t)' = Opening(t)
                        /\ Popped(bought, t)' = Popped(bought, t)
                        /\ InDict(bought, t)' = InDict(bought, t)
  BY DEF Opening, Popped, InDict, Calm
<1>5. \A o : Total(Fills(o))' = Total(Fills(o))
  BY <1>3 DEF Total
<1>6. \A t \in Tokens : /\ Total(Opening(t))' = Total(Opening(t))
                        /\ Total(Popped(bought, t))' = Total(Popped(bought, t))
  BY <1>4 DEF Total
<1>7. \A w \in Workers : job'[w].pc = "merging" => job'[w] = job[w]
  BY DEF Calm
<1>8. Covered(bought)'
  BY <1>1, <1>2, <1>4, <1>5, <1>6, <1>7 DEF Covered
<1> QED
  BY <1>1, <1>8 DEF SharesCovered

LEMMA StartsShares ==
    ASSUME Shape, SharesCovered, NEW w \in Workers, NEW t \in Tokens,
           \/ \E size \in Sizes : CheckBuy(w, t, size)
           \/ CheckSell(w, t)
           \/ SettleRead(w, t)
    PROVE  SharesCovered'
<1>1. \E j : Start(w, j) /\ j.pc \in Calm
  <2>1. ASSUME NEW size \in Sizes, CheckBuy(w, t, size)
        PROVE  \E j : Start(w, j) /\ j.pc \in Calm
    <3> DEFINE j == [Idle EXCEPT !.pc = "checked", !.token = t, !.size = size]
    <3>1. Start(w, j) /\ j.pc \in Calm
      BY <2>1 DEF CheckBuy, Idle, Calm
    <3> QED
      BY <3>1
  <2>2. ASSUME CheckSell(w, t) PROVE \E j : Start(w, j) /\ j.pc \in Calm
    <3> DEFINE j == [Idle EXCEPT !.pc = "reduce", !.token = t]
    <3>1. Start(w, j) /\ j.pc \in Calm
      BY <2>2 DEF CheckSell, Idle, Calm
    <3> QED
      BY <3>1
  <2>3. ASSUME SettleRead(w, t) PROVE \E j : Start(w, j) /\ j.pc \in Calm
    <3>1. PICK price \in {0, Payout} :
              Start(w, [Idle EXCEPT !.pc = "close", !.token = t, !.notional = price])
      BY <2>3 DEF SettleRead
    <3> DEFINE j == [Idle EXCEPT !.pc = "close", !.token = t, !.notional = price]
    <3>2. Start(w, j) /\ j.pc \in Calm
      BY <3>1 DEF Idle, Calm
    <3> QED
      BY <3>2
  <2> QED
    BY <2>1, <2>2, <2>3
<1>2. PICK j : Start(w, j) /\ j.pc \in Calm
  BY <1>1
<1>3. /\ job[w].pc = "idle" /\ job'[w] = j /\ \A v \in Workers \ {w} : job'[v] = job[v]
      /\ positions' = positions /\ heap' = heap /\ unsold' = unsold
  BY <1>2 DEF Start, Shape, TypeOK
<1> QED
  BY <1>2, <1>3, CalmShares DEF Calm

(* A debited buy of a Position raises what was bought on it.                *)
LEMMA DebitShares ==
    ASSUME Shape, Shape', SharesCovered, NEW w \in Workers, Debit(w)
    PROVE  SharesCovered'
<1>1. PICK bought \in [Objects -> Nat] : Covered(bought)
  BY DEF SharesCovered
<1>2. PICK f \in BuyFills(job[w].size) :
          /\ job' = [job EXCEPT ![w].pc = "debited",
                                ![w].obj = positions[job[w].token],
                                ![w].fill = f.shares,
                                ![w].notional = f.notional]
          /\ unsold' = [unsold EXCEPT ![job[w].token] = @ + f.shares]
  BY DEF Debit
<1> DEFINE t == job[w].token
           o == positions[t]
           n == f.shares
<1>3. /\ job[w].pc = "checked" /\ t \in Tokens /\ job[w].size \in Nat
      /\ positions' = positions /\ heap' = heap
      /\ o \in Objects \cup {NoObject}
  BY DEF Debit, Shape, TypeOK, JobsOK, JobOK
<1>4. n \in Nat
  BY <1>3 DEF BuyFills
<1>5. /\ job'[w].pc = "debited" /\ job'[w].token = t /\ job'[w].obj = o
      /\ job'[w].fill = n
      /\ \A v \in Workers \ {w} : job'[v] = job[v]
      /\ unsold'[t] = unsold[t] + n /\ \A u \in Tokens \ {t} : unsold'[u] = unsold[u]
      /\ \A u \in Tokens : unsold[u] \in Int
  BY ZenonT(40), <1>2, <1>3 DEF Shape, TypeOK
<1>6. \A x : Owned(x)' <=> Owned(x)
  BY <1>3, <1>5 DEF Owned
<1>7. \A v \in Workers : job'[v].pc = "merging" => v # w /\ job'[v] = job[v]
  BY <1>5
<1> HIDE DEF t, n, o
<1>8. \A x \in Objects :
         Total(Fills(x))' = IF x = o THEN Total(Fills(x)) + n ELSE Total(Fills(x))
  <2> SUFFICES ASSUME NEW x \in Objects
               PROVE  Total(Fills(x)') = IF x = o THEN Total(Fills(x)) + n
                                         ELSE Total(Fills(x))
    OBVIOUS
  <2>1. Fills(x)[w] = 0 /\ Fills(x)'[w] = IF x = o THEN n ELSE 0
    BY <1>3, <1>5 DEF Fills, Booking
  <2>2. \A v \in Workers \ {w} : Fills(x)'[v] = Fills(x)[v]
    BY <1>5 DEF Fills, Booking
  <2>3. Fills(x) \in [Workers -> Nat] /\ Fills(x)' \in [Workers -> Nat]
    BY <1>1, ShareSums, ShareSumsNext
  <2> QED
    BY <1>4, <2>1, <2>2, <2>3, TotalChange
<1>9. \A u \in Tokens :
         Total(Opening(u))' = IF u = t /\ o = NoObject THEN Total(Opening(u)) + n
                              ELSE Total(Opening(u))
  <2> SUFFICES ASSUME NEW u \in Tokens
               PROVE  Total(Opening(u)') = IF u = t /\ o = NoObject
                                           THEN Total(Opening(u)) + n
                                           ELSE Total(Opening(u))
    OBVIOUS
  <2>1. Opening(u)[w] = 0 /\ Opening(u)'[w] = IF u = t /\ o = NoObject THEN n ELSE 0
    BY <1>3, <1>5 DEF Opening
  <2>2. \A v \in Workers \ {w} : Opening(u)'[v] = Opening(u)[v]
    BY <1>5 DEF Opening
  <2>3. Opening(u) \in [Workers -> Nat] /\ Opening(u)' \in [Workers -> Nat]
    BY <1>1, ShareSums, ShareSumsNext
  <2> QED
    BY <1>4, <2>1, <2>2, <2>3, TotalChange
<1>10. \A u \in Tokens : \A b \in [Objects -> Nat] : Popped(b, u)' = Popped(b, u)
  BY <1>3, <1>5 DEF Popped
<1>11. CASE o = NoObject
  <2>1. \A x \in Objects : Total(Fills(x))' = Total(Fills(x))
    BY <1>8, <1>11, ThreadsAssumption
  <2>2. \A x \in Objects : Owned(x)' => heap'[x].shares + Total(Fills(x))' <= bought[x]
    BY <2>1, <1>1, <1>3, <1>6 DEF Covered
  <2>3. \A v \in Workers, x \in Objects :
           Owned(x)' /\ job'[v].pc = "merging" /\ job'[v].obj = x
              => job'[v].total + Total(Fills(x))' - job'[v].fill <= bought[x]
    BY <2>1, <1>1, <1>6, <1>7 DEF Covered
  <2>4. \A u \in Tokens :
           InDict(bought, u)' + Total(Popped(bought, u))' + Total(Opening(u))' <= unsold'[u]
    <3> SUFFICES ASSUME NEW u \in Tokens
                 PROVE  InDict(bought, u)' + Total(Popped(bought, u)') + Total(Opening(u)')
                            <= unsold'[u]
      OBVIOUS
    <3>1. InDict(bought, u)' = InDict(bought, u)
      BY <1>3 DEF InDict
    <3>2. /\ Popped(bought, u)' = Popped(bought, u)
          /\ InDict(bought, u) + Total(Popped(bought, u)) + Total(Opening(u)) <= unsold[u]
      BY <1>1, <1>10 DEF Covered
    <3>3. /\ Total(Popped(bought, u)) \in Nat /\ Total(Opening(u)) \in Nat
          /\ InDict(bought, u) \in Nat
      BY <1>1, ShareSums
    <3> QED
      BY <3>1, <3>2, <3>3, <1>4, <1>5, <1>9, <1>11
  <2>5. Covered(bought)'
    BY <2>2, <2>3, <2>4 DEF Covered
  <2> QED
    BY <2>5 DEF SharesCovered
<1>12. CASE o \in Objects
  <2>1. PICK more \in [Objects -> Nat] :
            /\ more[o] = bought[o] + n
            /\ \A x \in Objects \ {o} : more[x] = bought[x]
            /\ \A x \in Objects : bought[x] \in Nat
    <3> DEFINE m == [bought EXCEPT ![o] = bought[o] + n]
    <3>1. /\ m \in [Objects -> Nat] /\ m[o] = bought[o] + n
          /\ \A x \in Objects \ {o} : m[x] = bought[x]
          /\ \A x \in Objects : bought[x] \in Nat
      BY <1>4, <1>12
    <3> QED
      BY <3>1
  <2>2. \A x \in Objects : Owned(x)' => heap'[x].shares + Total(Fills(x))' <= more[x]
    <3> SUFFICES ASSUME NEW x \in Objects, Owned(x)'
                 PROVE  heap'[x].shares + Total(Fills(x)') <= more[x]
      OBVIOUS
    <3>1. heap[x].shares + Total(Fills(x)) <= bought[x]
      BY <1>1, <1>6 DEF Covered
    <3>2. heap[x].shares \in Nat /\ Total(Fills(x)) \in Nat
      BY <1>1, ShareSums DEF Shape, TypeOK
    <3> QED
      BY <1>3, <1>4, <1>8, <2>1, <3>1, <3>2
  <2>3. \A v \in Workers, x \in Objects :
           Owned(x)' /\ job'[v].pc = "merging" /\ job'[v].obj = x
              => job'[v].total + Total(Fills(x))' - job'[v].fill <= more[x]
    <3> SUFFICES ASSUME NEW v \in Workers, NEW x \in Objects, Owned(x)',
                        job'[v].pc = "merging", job'[v].obj = x
                 PROVE  job'[v].total + Total(Fills(x)') - job'[v].fill <= more[x]
      OBVIOUS
    <3>1. job'[v] = job[v] /\ job[v].total \in Nat /\ job[v].fill \in Nat
      BY <1>7 DEF Shape, TypeOK
    <3>2. job[v].total + Total(Fills(x)) - job[v].fill <= bought[x]
      BY <3>1, <1>1, <1>6 DEF Covered
    <3>3. Total(Fills(x)) \in Nat
      BY <1>1, ShareSums
    <3> QED
      BY <1>4, <1>8, <2>1, <3>1, <3>2, <3>3
  <2>4. \A u \in Tokens :
           InDict(more, u)' + Total(Popped(more, u))' + Total(Opening(u))' <= unsold'[u]
    <3> SUFFICES ASSUME NEW u \in Tokens
                 PROVE  InDict(more, u)' + Total(Popped(more, u)') + Total(Opening(u)')
                            <= unsold'[u]
      OBVIOUS
    <3>1. InDict(more, u)' = InDict(bought, u) + (IF u = t THEN n ELSE 0)
      <4>1. CASE u = t
        BY <4>1, <1>3, <1>12, <2>1, ThreadsAssumption DEF InDict, o
      <4>2. CASE u # t
        <5>1. positions[u] # o
          BY <4>2, <1>3, <1>12, ThreadsAssumption DEF Shape, OneOwner, o
        <5>2. InDict(more, u)' = InDict(bought, u)
          BY <5>1, <1>3, <2>1 DEF InDict, Shape, TypeOK
        <5>3. InDict(bought, u) \in Nat
          BY <1>1, ShareSums
        <5> QED
          BY <5>2, <5>3, <4>2
      <4> QED
        BY <4>1, <4>2
    <3>2. Popped(more, u)' = Popped(bought, u)
      <4>1. \A v \in Workers : job[v].pc = "popped" => job[v].obj \in Objects \ {o}
        BY <1>3 DEF Shape, OneOwner, JobsOK, JobOK, o
      <4>2. Popped(more, u) = Popped(bought, u)
        BY <4>1, <2>1 DEF Popped
      <4> QED
        BY <4>2, <1>10, <2>1
    <3>3. Total(Opening(u)') = Total(Opening(u))
      BY <1>9, <1>12, ThreadsAssumption
    <3>4. /\ InDict(bought, u) + Total(Popped(bought, u)) + Total(Opening(u)) <= unsold[u]
          /\ Total(Popped(bought, u)) \in Nat /\ Total(Opening(u)) \in Nat
          /\ InDict(bought, u) \in Nat
      BY <1>1, ShareSums DEF Covered
    <3> QED
      BY <3>1, <3>2, <3>3, <3>4, <1>4, <1>5
  <2>5. Covered(more)'
    BY <2>2, <2>3, <2>4 DEF Covered
  <2> QED
    BY <2>1, <2>5 DEF SharesCovered
<1> QED
  BY <1>3, <1>11, <1>12 DEF o

(* A new Position starts with what was bought for it.                       *)
LEMMA StoreNewShares ==
    ASSUME Shape, Shape', SharesCovered, NEW w \in Workers, StoreNew(w)
    PROVE  SharesCovered'
<1>1. PICK bought \in [Objects -> Nat] : Covered(bought)
  BY DEF SharesCovered
<1>2. PICK o \in Objects : o = Fresh /\ o \notin Referenced
  BY FreshExists DEF StoreNew, Shape
<1>3. PICK t \in Tokens : t = job[w].token
  BY DEF StoreNew, Shape, JobsOK, JobOK
<1>4. PICK n \in Nat : n = job[w].fill
  BY DEF Shape, TypeOK
<1>5. /\ job[w].pc = "debited" /\ job[w].obj = NoObject
      /\ job'[w].pc = "idle" /\ \A v \in Workers \ {w} : job'[v] = job[v]
      /\ positions'[t] = o /\ \A u \in Tokens \ {t} : positions'[u] = positions[u]
      /\ heap'[o].shares = n /\ \A x \in Objects \ {o} : heap'[x] = heap[x]
      /\ unsold' = unsold
  BY <1>2, <1>3, <1>4 DEF StoreNew, Finish, Shape, TypeOK, Idle
<1>6. /\ \A u \in Tokens : positions[u] # o /\ positions[u] \in Objects \cup {NoObject}
      /\ \A v \in Workers : job[v].obj # o /\ job[v].obj \in Objects \cup {NoObject}
  BY <1>2 DEF Referenced, Shape, TypeOK
<1>7. \A x \in Objects \ {o} : Owned(x)' => Owned(x)
  BY <1>5, <1>6 DEF Owned
<1>8. PICK more \in [Objects -> Nat] :
          more[o] = n /\ \A x \in Objects \ {o} : more[x] = bought[x]
  <2> DEFINE m == [bought EXCEPT ![o] = n]
  <2>1. m \in [Objects -> Nat] /\ m[o] = n /\ \A x \in Objects \ {o} : m[x] = bought[x]
    OBVIOUS
  <2> QED
    BY <2>1
<1>9. \A x \in Objects : Total(Fills(x))' = Total(Fills(x))
  <2> SUFFICES ASSUME NEW x \in Objects PROVE Total(Fills(x)') = Total(Fills(x))
    OBVIOUS
  <2>1. Fills(x)[w] = 0 /\ Fills(x)'[w] = 0
    BY <1>5, ThreadsAssumption DEF Fills, Booking
  <2>2. \A v \in Workers \ {w} : Fills(x)'[v] = Fills(x)[v]
    BY <1>5 DEF Fills, Booking
  <2>3. Fills(x) \in [Workers -> Nat] /\ Fills(x)' \in [Workers -> Nat]
    BY <1>1, ShareSums, ShareSumsNext
  <2> QED
    BY <2>1, <2>2, <2>3, TotalChange
<1>10. Total(Fills(o)) = 0
  <2>1. \A v \in Workers : Fills(o)[v] = 0
    BY <1>6 DEF Fills
  <2> QED
    BY <2>1, UnitsOfNothing DEF Total
<1>11. \A u \in Tokens :
          Total(Opening(u))' = IF u = t THEN Total(Opening(u)) - n ELSE Total(Opening(u))
  <2> SUFFICES ASSUME NEW u \in Tokens
               PROVE  Total(Opening(u)') = IF u = t THEN Total(Opening(u)) - n
                                           ELSE Total(Opening(u))
    OBVIOUS
  <2>1. Opening(u)[w] = (IF u = t THEN n ELSE 0) /\ Opening(u)'[w] = 0
    BY <1>3, <1>4, <1>5 DEF Opening
  <2>2. \A v \in Workers \ {w} : Opening(u)'[v] = Opening(u)[v]
    BY <1>5 DEF Opening
  <2>3. Opening(u) \in [Workers -> Nat] /\ Opening(u)' \in [Workers -> Nat]
    BY <1>1, ShareSums, ShareSumsNext
  <2> QED
    BY <1>4, <2>1, <2>2, <2>3, TotalChange
<1>12. \A x \in Objects : Owned(x)' => heap'[x].shares + Total(Fills(x))' <= more[x]
  <2> SUFFICES ASSUME NEW x \in Objects, Owned(x)'
               PROVE  heap'[x].shares + Total(Fills(x)') <= more[x]
    OBVIOUS
  <2>1. CASE x = o
    BY <2>1, <1>5, <1>8, <1>9, <1>10
  <2>2. CASE x # o
    BY <2>2, <1>1, <1>5, <1>7, <1>8, <1>9 DEF Covered
  <2> QED
    BY <2>1, <2>2
<1>13. \A v \in Workers, x \in Objects :
          Owned(x)' /\ job'[v].pc = "merging" /\ job'[v].obj = x
             => job'[v].total + Total(Fills(x))' - job'[v].fill <= more[x]
  BY <1>1, <1>5, <1>6, <1>7, <1>8, <1>9 DEF Covered
<1>14. \A u \in Tokens :
          InDict(more, u)' + Total(Popped(more, u))' + Total(Opening(u))' <= unsold'[u]
  <2> SUFFICES ASSUME NEW u \in Tokens
               PROVE  InDict(more, u)' + Total(Popped(more, u)') + Total(Opening(u)')
                          <= unsold'[u]
    OBVIOUS
  <2>1. Popped(more, u)' = Popped(bought, u)
    BY <1>5, <1>6, <1>8 DEF Popped, Shape, JobsOK, JobOK
  <2>2. InDict(more, u)' = IF u = t THEN n ELSE InDict(bought, u)
    BY <1>5, <1>6, <1>8, ThreadsAssumption DEF InDict
  <2>3. /\ InDict(bought, u) + Total(Popped(bought, u)) + Total(Opening(u)) <= unsold[u]
        /\ Total(Popped(bought, u)) \in Nat /\ Total(Opening(u)) \in Nat
        /\ InDict(bought, u) \in Nat /\ unsold[u] \in Int
    BY <1>1, ShareSums DEF Covered, Shape, TypeOK
  <2> QED
    BY <2>1, <2>2, <2>3, <1>5, <1>11
<1>15. Covered(more)'
  BY <1>12, <1>13, <1>14 DEF Covered
<1> QED
  BY <1>8, <1>15 DEF SharesCovered

(* A total is read when it still counts every fill under way once.          *)
LEMMA ReadTotalShares ==
    ASSUME Shape, SharesCovered, NEW w \in Workers, ReadTotal(w)
    PROVE  SharesCovered'
<1>1. PICK bought \in [Objects -> Nat] : Covered(bought)
  BY DEF SharesCovered
<1>2. /\ job[w].pc = "debited" /\ job[w].obj \in Objects
      /\ heap[job[w].obj].shares \in Nat /\ job[w].fill \in Nat
      /\ positions' = positions /\ heap' = heap /\ unsold' = unsold
      /\ \A v \in Workers \ {w} : job'[v] = job[v]
  BY DEF ReadTotal, Shape, TypeOK
<1>3. /\ job'[w].pc = "merging" /\ job'[w].obj = job[w].obj
      /\ job'[w].fill = job[w].fill /\ job'[w].token = job[w].token
      /\ job'[w].total = heap[job[w].obj].shares + job[w].fill
  BY DEF ReadTotal, Shape, TypeOK
<1>4. \A x : Owned(x)' <=> Owned(x)
  BY <1>2, <1>3 DEF Owned
<1>5. \A x : Fills(x)' = Fills(x)
  BY <1>2, <1>3 DEF Fills, Booking
<1>6. \A t \in Tokens : /\ Opening(t)' = Opening(t)
                        /\ Popped(bought, t)' = Popped(bought, t)
                        /\ InDict(bought, t)' = InDict(bought, t)
  BY <1>2, <1>3, ThreadsAssumption DEF Opening, Popped, InDict
<1>7. \A x : Total(Fills(x))' = Total(Fills(x))
  BY <1>5 DEF Total
<1>8. \A t \in Tokens : /\ Total(Opening(t))' = Total(Opening(t))
                        /\ Total(Popped(bought, t))' = Total(Popped(bought, t))
  BY <1>6 DEF Total
<1>9. \A v \in Workers, x \in Objects :
         Owned(x)' /\ job'[v].pc = "merging" /\ job'[v].obj = x
            => job'[v].total + Total(Fills(x))' - job'[v].fill <= bought[x]
  <2> SUFFICES ASSUME NEW v \in Workers, NEW x \in Objects, Owned(x)',
                      job'[v].pc = "merging", job'[v].obj = x
               PROVE  job'[v].total + Total(Fills(x)') - job'[v].fill <= bought[x]
    OBVIOUS
  <2>1. CASE v = w
    <3>1. heap[x].shares + Total(Fills(x)) <= bought[x]
      BY <1>1, <1>4 DEF Covered
    <3>2. Total(Fills(x)) \in Nat
      BY <1>1, ShareSums
    <3> QED
      BY <2>1, <3>1, <3>2, <1>2, <1>3, <1>7
  <2>2. CASE v # w
    BY <2>2, <1>1, <1>2, <1>4, <1>7 DEF Covered
  <2> QED
    BY <2>1, <2>2
<1>10. Covered(bought)'
  BY <1>1, <1>2, <1>4, <1>6, <1>7, <1>8, <1>9 DEF Covered
<1> QED
  BY <1>10 DEF SharesCovered

(* A merge, however stale its total, brings back no more than was bought.   *)
LEMMA MergeShares ==
    ASSUME Shape, Shape', SharesCovered, NEW w \in Workers, Merge(w)
    PROVE  SharesCovered'
<1>1. PICK bought \in [Objects -> Nat] : Covered(bought)
  BY DEF SharesCovered
<1>2. PICK o \in Objects : o = job[w].obj
  BY DEF Merge, Shape, JobsOK, JobOK
<1>3. PICK n \in Nat : n = job[w].fill
  BY DEF Shape, TypeOK
<1>4. /\ job[w].pc = "merging" /\ job'[w].pc = "idle"
      /\ \A v \in Workers \ {w} : job'[v] = job[v]
      /\ positions' = positions /\ unsold' = unsold
      /\ heap'[o].shares = job[w].total /\ \A x \in Objects \ {o} : heap'[x] = heap[x]
      /\ job[w].total \in Nat
  BY <1>2 DEF Merge, Finish, Shape, TypeOK, Idle
<1>5. \A x : Owned(x)' <=> Owned(x)
  BY <1>4 DEF Owned
<1>6. \A x \in Objects :
         /\ Total(Fills(x)) \in Nat /\ Total(Fills(x))' \in Nat
         /\ Total(Fills(x))' = IF x = o THEN Total(Fills(x)) - n ELSE Total(Fills(x))
  <2> SUFFICES ASSUME NEW x \in Objects
               PROVE  /\ Total(Fills(x)) \in Nat /\ Total(Fills(x)') \in Nat
                      /\ Total(Fills(x)') = IF x = o THEN Total(Fills(x)) - n
                                            ELSE Total(Fills(x))
    OBVIOUS
  <2>1. Fills(x)[w] = (IF x = o THEN n ELSE 0) /\ Fills(x)'[w] = 0
    BY <1>2, <1>3, <1>4 DEF Fills, Booking
  <2>2. \A v \in Workers \ {w} : Fills(x)'[v] = Fills(x)[v]
    BY <1>4 DEF Fills, Booking
  <2>3. Fills(x) \in [Workers -> Nat] /\ Fills(x)' \in [Workers -> Nat]
    BY <1>1, ShareSums, ShareSumsNext
  <2> QED
    BY <2>1, <2>2, <2>3, TotalChange
<1>7. \A t \in Tokens : /\ Opening(t)' = Opening(t)
                        /\ Popped(bought, t)' = Popped(bought, t)
                        /\ InDict(bought, t)' = InDict(bought, t)
  BY <1>4 DEF Opening, Popped, InDict
<1>8. \A t \in Tokens : /\ Total(Opening(t))' = Total(Opening(t))
                        /\ Total(Popped(bought, t))' = Total(Popped(bought, t))
  BY <1>7 DEF Total
<1>9. \A x \in Objects : Owned(x)' => heap'[x].shares + Total(Fills(x))' <= bought[x]
  <2> SUFFICES ASSUME NEW x \in Objects, Owned(x)'
               PROVE  heap'[x].shares + Total(Fills(x)') <= bought[x]
    OBVIOUS
  <2>1. CASE x = o
    <3>1. job[w].total + Total(Fills(o)) - n <= bought[o]
      BY <2>1, <1>1, <1>2, <1>3, <1>4, <1>5 DEF Covered
    <3> QED
      BY <2>1, <3>1, <1>4, <1>6
  <2>2. CASE x # o
    BY <2>2, <1>1, <1>4, <1>5, <1>6 DEF Covered
  <2> QED
    BY <2>1, <2>2
<1>10. \A v \in Workers, x \in Objects :
          Owned(x)' /\ job'[v].pc = "merging" /\ job'[v].obj = x
             => job'[v].total + Total(Fills(x))' - job'[v].fill <= bought[x]
  <2> SUFFICES ASSUME NEW v \in Workers, NEW x \in Objects, Owned(x)',
                      job'[v].pc = "merging", job'[v].obj = x
               PROVE  job'[v].total + Total(Fills(x)') - job'[v].fill <= bought[x]
    OBVIOUS
  <2>1. job'[v] = job[v] /\ job[v].total \in Nat /\ job[v].fill \in Nat
    BY <1>4 DEF Shape, TypeOK
  <2>2. job[v].total + Total(Fills(x)) - job[v].fill <= bought[x]
    BY <2>1, <1>1, <1>5 DEF Covered
  <2>3. bought[x] \in Nat
    OBVIOUS
  <2> QED
    BY <2>1, <2>2, <2>3, <1>6
<1>11. Covered(bought)'
  BY <1>1, <1>4, <1>7, <1>8, <1>9, <1>10 DEF Covered
<1> QED
  BY <1>11 DEF SharesCovered

(* A pop moves the Position, and its count, from the dict to the thread.    *)
LEMMA PopShares ==
    ASSUME Shape, Shape', SharesCovered, NEW w \in Workers, Pop(w)
    PROVE  SharesCovered'
<1>1. PICK bought \in [Objects -> Nat] : Covered(bought)
  BY DEF SharesCovered
<1>2. PICK t \in Tokens : t = job[w].token
  BY DEF Pop, Shape, JobsOK, JobOK
<1>3. job[w].pc = "close" /\ heap' = heap /\ unsold' = unsold
  BY DEF Pop
<1>4. CASE Finish(w) /\ positions' = positions
  <2>1. /\ job'[w].pc = "idle" /\ \A v \in Workers \ {w} : job'[v] = job[v]
    BY <1>4 DEF Finish, Shape, TypeOK, Idle
  <2> QED
    BY <1>3, <1>4, <2>1, CalmShares DEF Calm
<1>5. CASE /\ positions[t] # NoObject
           /\ positions' = [positions EXCEPT ![t] = NoObject]
           /\ job' = [job EXCEPT ![w].pc = "popped", ![w].obj = positions[t]]
  <2>1. PICK o \in Objects : o = positions[t]
    BY <1>5 DEF Shape, TypeOK
  <2>2. /\ job'[w].pc = "popped" /\ job'[w].obj = o /\ job'[w].token = t
        /\ \A v \in Workers \ {w} : job'[v] = job[v]
        /\ positions'[t] = NoObject /\ \A u \in Tokens \ {t} : positions'[u] = positions[u]
    BY <1>2, <1>5, <2>1 DEF Shape, TypeOK
  <2>3. \A x \in Objects : Owned(x)' => Owned(x)
    BY <1>3, <2>1, <2>2, ThreadsAssumption DEF Owned
  <2>4. \A x : Fills(x)' = Fills(x)
    BY <1>3, <2>2 DEF Fills, Booking
  <2>5. \A u : Opening(u)' = Opening(u)
    BY <1>3, <2>2 DEF Opening
  <2>6. /\ \A x : Total(Fills(x))' = Total(Fills(x))
        /\ \A u : Total(Opening(u))' = Total(Opening(u))
    BY <2>4, <2>5 DEF Total
  <2>7. \A u \in Tokens :
           InDict(bought, u)' + Total(Popped(bought, u))' + Total(Opening(u))' <= unsold'[u]
    <3> SUFFICES ASSUME NEW u \in Tokens
                 PROVE  InDict(bought, u)' + Total(Popped(bought, u)') + Total(Opening(u)')
                            <= unsold'[u]
      OBVIOUS
    <3>1. /\ InDict(bought, u) + Total(Popped(bought, u)) + Total(Opening(u)) <= unsold[u]
          /\ Total(Popped(bought, u)) \in Nat /\ Total(Opening(u)) \in Nat
          /\ InDict(bought, u) \in Nat
      BY <1>1, ShareSums DEF Covered
    <3>2. Popped(bought, u) \in [Workers -> Nat] /\ Popped(bought, u)' \in [Workers -> Nat]
      BY <1>1, ShareSums, ShareSumsNext
    <3>3. \A v \in Workers \ {w} : Popped(bought, u)'[v] = Popped(bought, u)[v]
      BY <2>2 DEF Popped
    <3>4. /\ Popped(bought, u)[w] = 0
          /\ Popped(bought, u)'[w] = IF u = t THEN bought[o] ELSE 0
      BY <1>3, <2>2 DEF Popped
    <3>5. /\ InDict(bought, u)' = IF u = t THEN 0 ELSE InDict(bought, u)
          /\ u = t => InDict(bought, u) = bought[o]
      BY <1>5, <2>1, <2>2 DEF InDict
    <3>6. Total(Popped(bought, u)') = Total(Popped(bought, u))
                                      + (IF u = t THEN bought[o] ELSE 0)
      BY <3>2, <3>3, <3>4, TotalChange
    <3>7. bought[o] \in Nat /\ unsold[u] \in Int
      BY DEF Shape, TypeOK
    <3> QED
      BY <1>3, <2>6, <3>1, <3>5, <3>6, <3>7
  <2>8. \A v \in Workers : job'[v].pc = "merging" => job'[v] = job[v]
    BY <2>2
  <2>9. Covered(bought)'
    BY <1>1, <1>3, <2>3, <2>6, <2>7, <2>8 DEF Covered
  <2> QED
    BY <2>9 DEF SharesCovered
<1> QED
  BY <1>2, <1>4, <1>5 DEF Pop

(* Booking a close sells no more than was bought on the Position.           *)
LEMMA BookCloseShares ==
    ASSUME Shape, Shape', SharesCovered, NEW w \in Workers, BookClose(w)
    PROVE  SharesCovered'
<1>1. PICK bought \in [Objects -> Nat] : Covered(bought)
  BY DEF SharesCovered
<1>2. PICK t \in Tokens : t = job[w].token
  BY DEF BookClose, Shape, JobsOK, JobOK
<1>3. PICK o \in Objects : o = job[w].obj
  BY DEF BookClose, Shape, JobsOK, JobOK
<1>4. PICK sold \in Nat : sold = heap[o].shares
  BY DEF Shape, TypeOK
<1>5. /\ job[w].pc = "popped" /\ job'[w].pc = "streak"
      /\ \A v \in Workers \ {w} : job'[v] = job[v]
      /\ positions' = positions /\ heap' = heap
      /\ unsold'[t] = unsold[t] - sold /\ \A u \in Tokens \ {t} : unsold'[u] = unsold[u]
  BY <1>2, <1>3, <1>4 DEF BookClose, Shape, TypeOK
<1>6. Owned(o)
  BY <1>3, <1>5 DEF Owned
<1>7. sold <= bought[o] /\ bought[o] \in Nat
  <2>1. heap[o].shares + Total(Fills(o)) <= bought[o]
    BY <1>1, <1>6 DEF Covered
  <2>2. Total(Fills(o)) \in Nat
    BY <1>1, ShareSums
  <2> QED
    BY <1>4, <2>1, <2>2
<1>8. \A x \in Objects : Owned(x)' => Owned(x)
  BY <1>5 DEF Owned
<1>9. \A x : Fills(x)' = Fills(x)
  BY <1>5 DEF Fills, Booking
<1>10. \A u \in Tokens : Opening(u)' = Opening(u) /\ InDict(bought, u)' = InDict(bought, u)
  BY <1>5 DEF Opening, InDict
<1>11. /\ \A x : Total(Fills(x))' = Total(Fills(x))
       /\ \A u \in Tokens : Total(Opening(u))' = Total(Opening(u))
  BY <1>9, <1>10 DEF Total
<1>12. \A u \in Tokens :
          InDict(bought, u)' + Total(Popped(bought, u))' + Total(Opening(u))' <= unsold'[u]
  <2> SUFFICES ASSUME NEW u \in Tokens
               PROVE  InDict(bought, u)' + Total(Popped(bought, u)') + Total(Opening(u)')
                          <= unsold'[u]
    OBVIOUS
  <2>1. /\ InDict(bought, u) + Total(Popped(bought, u)) + Total(Opening(u)) <= unsold[u]
        /\ Total(Popped(bought, u)) \in Nat /\ Total(Opening(u)) \in Nat
        /\ InDict(bought, u) \in Nat /\ unsold[u] \in Int
    BY <1>1, ShareSums DEF Covered, Shape, TypeOK
  <2>2. Popped(bought, u) \in [Workers -> Nat] /\ Popped(bought, u)' \in [Workers -> Nat]
    BY <1>1, ShareSums, ShareSumsNext
  <2>3. \A v \in Workers \ {w} : Popped(bought, u)'[v] = Popped(bought, u)[v]
    BY <1>5 DEF Popped
  <2>4. /\ Popped(bought, u)[w] = IF u = t THEN bought[o] ELSE 0
        /\ Popped(bought, u)'[w] = 0
    BY <1>2, <1>3, <1>5 DEF Popped
  <2>5. Total(Popped(bought, u)') = Total(Popped(bought, u))
                                    - (IF u = t THEN bought[o] ELSE 0)
    BY <1>7, <2>1, <2>2, <2>3, <2>4, TotalChange
  <2> QED
    BY <1>4, <1>5, <1>7, <1>10, <1>11, <2>1, <2>5
<1>13. \A v \in Workers : job'[v].pc = "merging" => job'[v] = job[v]
  BY <1>5
<1>14. Covered(bought)'
  BY <1>1, <1>5, <1>8, <1>11, <1>12, <1>13 DEF Covered
<1> QED
  BY <1>14 DEF SharesCovered

LEMMA NextShares == Shape /\ SharesCovered /\ [Next]_vars => SharesCovered'
<1> SUFFICES ASSUME Shape, SharesCovered, [Next]_vars PROVE SharesCovered'
  OBVIOUS
<1>1. Shape'
  BY NextShape
<1>2. ASSUME NEW w \in Workers, SubmitExit(w) \/ CountStreak(w) PROVE SharesCovered'
  <2>1. /\ positions' = positions /\ heap' = heap /\ unsold' = unsold
        /\ \A v \in Workers \ {w} : job'[v] = job[v]
        /\ job[w].pc \in {"reduce", "streak"} /\ job'[w].pc \in {"close", "idle"}
    BY <1>2 DEF SubmitExit, CountStreak, Finish, Shape, TypeOK, Idle
  <2> QED
    BY <2>1, CalmShares DEF Calm
<1>3. NextDay \/ UNCHANGED vars => SharesCovered'
  BY CalmShares DEF NextDay, vars
<1> QED
  BY <1>1, <1>2, <1>3, StartsShares, DebitShares, StoreNewShares, ReadTotalShares,
     MergeShares, PopShares, BookCloseShares DEF Next, Step

(* What was not bought is not sold: two closes of one Position never both   *)
(* book it, and a stale total never brings back sold shares                 *)
(* (portfolio.py:63 pop, :57-59 merge).                                     *)
THEOREM NothingIsSoldTwice == Spec => []NothingSoldTwice
<1>1. Init => SharesCovered
  BY InitShares
<1>2. Shape /\ SharesCovered /\ [Next]_vars => SharesCovered'
  BY NextShares
<1>3. Shape /\ SharesCovered => NothingSoldTwice
  BY CoveredIsSafe
<1> QED
  BY <1>1, <1>2, <1>3, ShapeKept, PTL DEF Spec

=============================================================================
