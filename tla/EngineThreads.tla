---------------------------- MODULE EngineThreads ----------------------------
(***************************************************************************)
(* The engine's one Portfolio under several threads.  Every web stream of  *)
(* the kernel runs its work in an executor thread (web/server.py), and     *)
(* paper_execute and settle() take no lock, so their steps interleave at   *)
(* every call they make: between the breaker's check and the submit, and   *)
(* inside apply_buy and apply_sell_close.                                  *)
(*                                                                         *)
(* Positions are objects: the dict maps a token to one, and a thread that  *)
(* got hold of it keeps it after it has left the dict.                     *)
(***************************************************************************)
EXTENDS Portfolio

CONSTANTS Workers,     \* executor threads with a request of their own
          Sizes,       \* sizes of the buys they place
          MaxSize,     \* the largest size the callers decide
          Objects,     \* bound: Position objects alive at a time
          NoObject,    \* None
          MaxOps       \* bound: operations started

ASSUME ThreadsAssumption ==
    /\ IsFiniteSet(Workers) /\ Workers # {}
    /\ MaxSize \in Nat /\ Sizes \subseteq 1..MaxSize
    /\ IsFiniteSet(Objects) /\ NoObject \notin Objects
    /\ Cardinality(Objects) >= Cardinality(Tokens) + Cardinality(Workers)
    /\ MaxOps \in Nat

VARIABLES money,      \* cash, realized, today, losses of the Portfolio
          positions,  \* Portfolio.positions: token -> Position object
          heap,       \* shares and cost of every Position object
          job,        \* what each worker is in the middle of
          started,    \* operations started so far
          unsold      \* history: shares bought of a token and not sold yet

vars == <<money, positions, heap, job, started, unsold>>

-----------------------------------------------------------------------------
(* A worker's job: the order it has had checked, the fill it is booking,    *)
(* the Position it holds a reference to and the total it has computed.      *)

Idle == [pc |-> "idle", token |-> NoObject, obj |-> NoObject,
         size |-> 0, fill |-> 0, notional |-> 0, total |-> 0]

BuySteps == {"checked", "debited", "merging"}
CloseSteps == {"reduce", "close", "popped", "streak"}

TypeOK ==
    /\ money \in [cash : Int, realized : Int, today : Int, losses : Nat]
    /\ positions \in [Tokens -> Objects \cup {NoObject}]
    /\ heap \in [Objects -> [shares : Nat, cost : Nat]]
    /\ job \in [Workers -> [pc : {"idle"} \cup BuySteps \cup CloseSteps,
                            token : Tokens \cup {NoObject},
                            obj : Objects \cup {NoObject},
                            size : Nat, fill : Nat, notional : Int, total : Nat]]
    /\ started \in 0..MaxOps
    /\ unsold \in [Tokens -> Int]

(* The portfolio as a thread that reads it all at once sees it.             *)
Shares(t) == IF positions[t] = NoObject THEN 0 ELSE heap[positions[t]].shares
Cost(t) == IF positions[t] = NoObject THEN 0 ELSE heap[positions[t]].cost

Book == [cash |-> money.cash, realized |-> money.realized,
         today |-> money.today, losses |-> money.losses,
         shares |-> [t \in Tokens |-> Shares(t)],
         cost |-> [t \in Tokens |-> Cost(t)]]

(* A new Position is an object nothing refers to.                           *)
Referenced == {positions[t] : t \in Tokens} \cup {job[w].obj : w \in Workers}
Fresh == CHOOSE o \in Objects : o \notin Referenced

Finish(w) == job' = [job EXCEPT ![w] = Idle]

Start(w, j) ==
    /\ job[w].pc = "idle"
    /\ started < MaxOps
    /\ started' = started + 1
    /\ job' = [job EXCEPT ![w] = j]
    /\ UNCHANGED <<money, positions, heap, unsold>>

Init ==
    /\ money = [cash |-> Bankroll, realized |-> 0, today |-> 0, losses |-> 0]
    /\ positions = [t \in Tokens |-> NoObject]
    /\ heap = [o \in Objects |-> [shares |-> 0, cost |-> 0]]
    /\ job = [w \in Workers |-> Idle]
    /\ started = 0
    /\ unsold = [t \in Tokens |-> 0]

-----------------------------------------------------------------------------
(* A buy: check, debit and look the position up, then store a new Position  *)
(* or merge into the one found.                                             *)

(* For comparison: an order no breaker sees.                                *)
BuyUnchecked(w, t, size) ==
    Start(w, [Idle EXCEPT !.pc = "checked", !.token = t, !.size = size])

(* circuit_breaker.check of a buy.  An order that is blocked, one whose     *)
(* check trips over a concurrent change of the dict, and one that finds no  *)
(* liquidity change nothing and are not started.                            *)
CheckBuy(w, t, size) ==
    /\ EntryAllowed(Book, Order(t, "buy", size))
    /\ Start(w, [Idle EXCEPT !.pc = "checked", !.token = t, !.size = size])

(* submit: the book walk, then the first half of apply_buy.                 *)
Debit(w) ==
    /\ job[w].pc = "checked"
    /\ \E f \in BuyFills(job[w].size) :
          /\ money' = [money EXCEPT !.cash = @ - f.notional]
          /\ job' = [job EXCEPT ![w].pc = "debited",
                                ![w].obj = positions[job[w].token],
                                ![w].fill = f.shares,
                                ![w].notional = f.notional]
          /\ unsold' = [unsold EXCEPT ![job[w].token] = @ + f.shares]
    /\ UNCHANGED <<positions, heap, started>>

(* The position was not there when it was looked up: store a new one, over  *)
(* whatever another thread has stored since.                                *)
StoreNew(w) ==
    /\ job[w].pc = "debited" /\ job[w].obj = NoObject
    /\ positions' = [positions EXCEPT ![job[w].token] = Fresh]
    /\ heap' = [heap EXCEPT ![Fresh] = [shares |-> job[w].fill,
                                        cost |-> job[w].notional]]
    /\ Finish(w)
    /\ UNCHANGED <<money, started, unsold>>

ReadTotal(w) ==
    /\ job[w].pc = "debited" /\ job[w].obj # NoObject
    /\ job' = [job EXCEPT ![w].pc = "merging",
                          ![w].total = heap[job[w].obj].shares + job[w].fill]
    /\ UNCHANGED <<money, positions, heap, started, unsold>>

(* For comparison: a merge that puts the object back.                       *)
MergeStoresAgain(w) ==
    /\ job[w].pc = "merging"
    /\ heap' = [heap EXCEPT ![job[w].obj] = [shares |-> job[w].total,
                                             cost |-> @.cost + job[w].notional]]
    /\ positions' = [positions EXCEPT ![job[w].token] = job[w].obj]
    /\ Finish(w)
    /\ UNCHANGED <<money, started, unsold>>

(* The total may be stale by now, and the object may have left the dict.    *)
Merge(w) ==
    /\ job[w].pc = "merging"
    /\ heap' = [heap EXCEPT ![job[w].obj] = [shares |-> job[w].total,
                                             cost |-> @.cost + job[w].notional]]
    /\ Finish(w)
    /\ UNCHANGED <<money, positions, started, unsold>>

-----------------------------------------------------------------------------
(* A close: a checked sell, or settle() of a record of a resolved market.   *)

CheckSell(w, t) ==
    /\ t \in Held(Book)
    /\ Start(w, [Idle EXCEPT !.pc = "reduce", !.token = t])

(* submit looks again and skips an order whose position has gone.           *)
SubmitExit(w) ==
    /\ job[w].pc = "reduce"
    /\ \/ /\ positions[job[w].token] # NoObject
          /\ \E price \in Prices :
                job' = [job EXCEPT ![w].pc = "close", ![w].notional = price]
       \/ /\ positions[job[w].token] = NoObject
          /\ Finish(w)
    /\ UNCHANGED <<money, positions, heap, started, unsold>>

(* settle: the position is read before it is closed, at $1 or $0.           *)
SettleRead(w, t) ==
    /\ positions[t] # NoObject
    /\ \E price \in {0, Payout} :
          Start(w, [Idle EXCEPT !.pc = "close", !.token = t, !.notional = price])

(* For comparison: a close that looks a position up and leaves it.          *)
PeekInsteadOfPop(w) ==
    /\ job[w].pc = "close"
    /\ LET t == job[w].token
       IN \/ /\ positions[t] # NoObject
             /\ job' = [job EXCEPT ![w].pc = "popped", ![w].obj = positions[t]]
          \/ /\ positions[t] = NoObject
             /\ Finish(w)
    /\ UNCHANGED <<money, positions, heap, started, unsold>>

(* apply_sell_close.  Only one thread gets the position out of the dict;    *)
(* the other raises KeyError, which ends its tool call or settlement pass.  *)
Pop(w) ==
    /\ job[w].pc = "close"
    /\ LET t == job[w].token
       IN \/ /\ positions[t] # NoObject
             /\ positions' = [positions EXCEPT ![t] = NoObject]
             /\ job' = [job EXCEPT ![w].pc = "popped", ![w].obj = positions[t]]
          \/ /\ positions[t] = NoObject
             /\ Finish(w)
             /\ UNCHANGED positions
    /\ UNCHANGED <<money, heap, started, unsold>>

(* The object is read after it has left the dict: a merge that got in       *)
(* between is sold with it.                                                 *)
BookClose(w) ==
    /\ job[w].pc = "popped"
    /\ LET proceeds == job[w].notional * heap[job[w].obj].shares
           pnl == proceeds - heap[job[w].obj].cost
       IN /\ money' = [money EXCEPT !.cash = @ + proceeds,
                                    !.realized = @ + pnl,
                                    !.today = @ + pnl]
          /\ job' = [job EXCEPT ![w].pc = "streak", ![w].obj = NoObject,
                                ![w].notional = pnl]
          /\ unsold' = [unsold EXCEPT ![job[w].token] = @ - heap[job[w].obj].shares]
    /\ UNCHANGED <<positions, heap, started>>

CountStreak(w) ==
    /\ job[w].pc = "streak"
    /\ money' = [money EXCEPT !.losses = IF job[w].notional < 0 THEN @ + 1 ELSE 0]
    /\ Finish(w)
    /\ UNCHANGED <<positions, heap, started, unsold>>

-----------------------------------------------------------------------------
NextDay ==
    /\ money.today # 0
    /\ money' = [money EXCEPT !.today = 0]
    /\ UNCHANGED <<positions, heap, job, started, unsold>>

Step(w) ==
    \/ Debit(w) \/ StoreNew(w) \/ ReadTotal(w) \/ Merge(w)
    \/ SubmitExit(w) \/ Pop(w) \/ BookClose(w) \/ CountStreak(w)

Next ==
    \/ \E w \in Workers, t \in Tokens :
          \/ \E size \in Sizes : CheckBuy(w, t, size)
          \/ CheckSell(w, t)
          \/ SettleRead(w, t)
    \/ \E w \in Workers : Step(w)
    \/ NextDay

Spec == Init /\ [][Next]_vars

-----------------------------------------------------------------------------
(* Properties.                                                              *)

Total(amount) == Cardinality(Units(amount, Workers))

Booking(w) == job[w].pc \in {"debited", "merging"}

Spent == [w \in Workers |-> IF Booking(w) THEN job[w].notional ELSE 0]
Asked == [w \in Workers |-> IF job[w].pc = "checked" THEN job[w].size ELSE 0]
Closed == [w \in Workers |-> IF job[w].pc = "popped" THEN heap[job[w].obj].cost ELSE 0]
Leaving(t) == [w \in Workers |-> IF job[w].pc = "popped" /\ job[w].token = t
                                 THEN heap[job[w].obj].shares ELSE 0]

Paid == Total(Spent)
Promised == Total(Asked)
Closing == Total(Closed)
Overshoot == (Cardinality(Workers) - 1) * MaxSize

(* Races can lose a stake -- a stored Position overwritten, a merge into a  *)
(* Position already sold -- but never make money: what there is, in the     *)
(* book or on its way through it, is at most the bankroll and the booked    *)
(* P&L (portfolio.py apply_buy, apply_sell_close under several threads).    *)
NoMoneyFromNothing ==
    money.cash + Exposure(Book) + Paid + Closing <= Bankroll + money.realized

(* Nor can they sell what was not bought: two closes of one Position never  *)
(* both book it, and a stale total never brings back sold shares            *)
(* (portfolio.py:63 pop, :57-59 merge).                                     *)
NothingSoldTwice ==
    \A t \in Tokens : Shares(t) + Total(Leaving(t)) <= unsold[t]

(* The damage of checking and submitting in two steps is bounded: with n    *)
(* threads the breaker's limits are passed by at most n - 1 orders          *)
(* (mcp_server.py:176-180).                                                 *)
OvershootBounded ==
    /\ Exposure(Book) + Paid + Promised <= ExposureCap + Overshoot
    /\ money.cash - Promised >= -Overshoot
    /\ Cardinality(Held(Book)) <= MaxPositions + Cardinality(Workers) - 1

(* What the configuration promises (default_config.py): open exposure is    *)
(* capped, as are the positions and the cash spent.                         *)
CapsRespected == WithinCaps(Book)

=============================================================================
