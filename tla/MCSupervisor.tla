---------------------------- MODULE MCSupervisor ----------------------------
(* Every strategy by plan, the LLM's choice and any callback, with and      *)
(* without a market and a key; a listed price above, at or below the book.  *)
EXTENDS Supervisor

CONSTANTS none

MCConfig == [edgeFloor |-> 2, marketWeight |-> 0, minApy |-> 50, kellyDivisor |-> 4,
             bankroll |-> 50000, maxFraction |-> 5, minLiquidity |-> 5, maxSpread |-> 3]

MCMarket == [price |-> 10, liquidity |-> 10, days |-> 30]

MCBooks == {[mid |-> 9, spread |-> 4], [mid |-> 13, spread |-> 1], [mid |-> None, spread |-> None]}

MCRequests ==
    [strategy : {"research", "signal", "full", "trade", "other"}, router : {"plan"},
     found : {TRUE}, key : {TRUE, FALSE}]
    \cup [strategy : {"research"}, router : {"llm", "callback"}, found : {TRUE}, key : {FALSE}]
    \cup [strategy : {"trade"}, router : {"plan"}, found : {FALSE}, key : {TRUE}]

=============================================================================
