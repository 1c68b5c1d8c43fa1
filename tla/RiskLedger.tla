------------------------------ MODULE RiskLedger ------------------------------
(***************************************************************************)
(* What the circuit breaker promises, without tokens, orders or books: a   *)
(* ledger whose money is either cash or at risk, whose risk and number of  *)
(* open positions stay under their caps, and which takes no new risk while *)
(* it is halted -- a state only an exit, a new day or a restart can lift.  *)
(* Engine implements it.                                                   *)
(***************************************************************************)
EXTENDS Integers

CONSTANTS Bankroll, ExposureCap, MaxPositions

VARIABLES cash,      \* money not tied up
          atRisk,    \* money tied up in open positions
          open,      \* number of open positions
          realized,  \* P&L booked since the start of the process
          halted     \* no entries: daily loss halt or loss cooldown

vars == <<cash, atRisk, open, realized, halted>>

Fresh == /\ cash = Bankroll
         /\ atRisk = 0
         /\ open = 0
         /\ realized = 0

Init == Fresh /\ halted \in BOOLEAN

(* New risk: moved from cash, within both caps, never in a halt.            *)
Enter ==
    /\ ~halted
    /\ atRisk' > atRisk
    /\ cash' = cash - (atRisk' - atRisk)
    /\ atRisk' <= ExposureCap
    /\ cash' >= 0
    /\ open' \in {open, open + 1}
    /\ open' <= MaxPositions
    /\ UNCHANGED <<realized, halted>>

(* One position closed: its stake leaves the risk, what it fetched goes to  *)
(* cash and the difference is the P&L.  A halt never prevents it.           *)
Exit ==
    /\ open' = open - 1
    /\ atRisk' <= atRisk
    /\ cash' >= cash
    /\ realized' - realized = (cash' - cash) - (atRisk - atRisk')

NewDay == UNCHANGED <<cash, atRisk, open, realized>>

Restart == Fresh'

Next == Enter \/ Exit \/ NewDay \/ Restart

Spec == Init /\ [][Next]_vars

=============================================================================
