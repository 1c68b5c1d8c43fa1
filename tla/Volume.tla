-------------------------------- MODULE Volume --------------------------------
(***************************************************************************)
(* Candle volume rebuilt from trades (dataflows/volume.py).  Candles and   *)
(* trades are their times; a bucket holds the trades whose sizes are       *)
(* summed.                                                                 *)
(***************************************************************************)
EXTENDS Integers, Sequences, FiniteSetsExt

CONSTANTS DefaultBar,  \* the bar when candles do not tell (3600)
          BarSample    \* how many gaps are looked at (10)

ASSUME VolumeAssumption == {DefaultBar, BarSample} \subseteq Nat \ {0}

Gaps(candles) ==
    {candles[i + 1] - candles[i] : i \in 1..Min({BarSample, Len(candles) - 1})}

(* _detect_bar_seconds: the smallest gap between candles.                   *)
BarSeconds(candles) ==
    LET positive == {g \in Gaps(candles) : g > 0}
    IN IF Len(candles) < 2 \/ positive = {} THEN DefaultBar ELSE Min(positive)

(* For comparison: the index -1 is the last candle.                         *)
BucketsWrapping(candles, trades) ==
    [i \in DOMAIN candles |->
        {t \in trades : (t - candles[1]) \div BarSeconds(candles) \in {i - 1, i - 1 - Len(candles)}}]

(* _bucket_sum: the i-th bucket starts i - 1 bars after the first candle.   *)
Buckets(candles, trades) ==
    [i \in DOMAIN candles |->
        {t \in trades : (t - candles[1]) \div BarSeconds(candles) = i - 1}]

=============================================================================
