---------------------------- MODULE PortfolioProofs ----------------------------
(* Lemmas about the portfolio operators: what a fill and a close do to the  *)
(* exposure and to the number of positions, for any set of tokens.          *)
EXTENDS Portfolio, FiniteSetTheorems, TLAPS

(* The units one member of a sum stands for.                                   *)
Block(t, n) == {t} \X (1..n)

(* An amount of n is n units.                                               *)
LEMMA BlockSize ==
    ASSUME NEW t, NEW n \in Nat
    PROVE  IsFiniteSet(Block(t, n)) /\ Cardinality(Block(t, n)) = n
<1>1. IsFiniteSet({t}) /\ Cardinality({t}) = 1
  BY FS_Singleton
<1>2. IsFiniteSet(1..n) /\ Cardinality(1..n) = n
  BY FS_Interval
<1>3. IsFiniteSet({t} \X (1..n)) /\ Cardinality({t} \X (1..n)) = 1 * n
  <2> HIDE DEF Block
  <2> DEFINE S == {t}
             T == 1..n
  <2>1. /\ IsFiniteSet(S) /\ IsFiniteSet(T)
        /\ Cardinality(S) = 1 /\ Cardinality(T) = n
    BY <1>1, <1>2
  <2> HIDE DEF S, T
  <2>2. IsFiniteSet(S \X T) /\ Cardinality(S \X T) = Cardinality(S) * Cardinality(T)
    BY <2>1, FS_Product
  <2> QED
    BY <2>1, <2>2 DEF S, T
<1> QED
  BY <1>3 DEF Block

(* A sum over finitely many members is finite.                              *)
LEMMA UnitsFinite ==
    ASSUME NEW S, IsFiniteSet(S), NEW amount \in [S -> Nat]
    PROVE  /\ IsFiniteSet(Units(amount, S))
           /\ Cardinality(Units(amount, S)) \in Nat
<1> DEFINE Blocks == {Block(x, amount[x]) : x \in S}
<1>1. IsFiniteSet(Blocks)
  <2> DEFINE f == [x \in S |-> Block(x, amount[x])]
  <2>1. f \in Surjection(S, Blocks)
    BY DEF Surjection
  <2> HIDE DEF f, Blocks
  <2> QED
    BY <2>1, FS_Surjection
<1>2. \A B \in Blocks : IsFiniteSet(B)
  BY BlockSize
<1>3. IsFiniteSet(UNION Blocks)
  BY <1>1, <1>2, FS_UNION
<1>4. IsFiniteSet(Units(amount, S))
  BY <1>3 DEF Units, Block
<1> QED
  BY <1>4, FS_CardinalityType

(* Changing the amount of one member changes the sum by exactly that much,  *)
(* whatever the others come to.                                             *)
LEMMA UnitsChange ==
    ASSUME NEW S, IsFiniteSet(S), NEW old \in [S -> Nat], NEW new \in [S -> Nat],
           NEW x \in S, \A y \in S \ {x} : new[y] = old[y]
    PROVE  Cardinality(Units(new, S)) = Cardinality(Units(old, S)) - old[x] + new[x]
<1> DEFINE Rest(a) == UNION {Block(y, a[y]) : y \in S \ {x}}
<1>1. ASSUME NEW a \in [S -> Nat]
      PROVE  /\ Units(a, S) = Rest(a) \cup Block(x, a[x])
             /\ IsFiniteSet(Rest(a))
             /\ Rest(a) \cap Block(x, a[x]) = {}
  <2>1. Units(a, S) = Rest(a) \cup Block(x, a[x])
    BY DEF Units, Block
  <2>2. Rest(a) \subseteq Units(a, S)
    BY <2>1
  <2>3. IsFiniteSet(Rest(a))
    BY <2>2, UnitsFinite, FS_Subset
  <2>4. Rest(a) \cap Block(x, a[x]) = {}
    BY DEF Block
  <2> QED
    BY <2>1, <2>3, <2>4
<1>2. ASSUME NEW a \in [S -> Nat]
      PROVE  /\ Cardinality(Rest(a)) \in Nat
             /\ Cardinality(Units(a, S)) = Cardinality(Rest(a)) + a[x]
  <2>1. IsFiniteSet(Block(x, a[x])) /\ Cardinality(Block(x, a[x])) = a[x]
    BY BlockSize
  <2>2. Cardinality(Units(a, S)) = Cardinality(Rest(a)) + a[x]
                                   - Cardinality(Rest(a) \cap Block(x, a[x]))
    BY <1>1, <2>1, FS_Union
  <2>3. Cardinality(Rest(a)) \in Nat
    BY <1>1, FS_CardinalityType
  <2>4. Cardinality({}) = 0
    BY FS_EmptySet
  <2>5. a[x] \in Nat
    OBVIOUS
  <2> HIDE DEF Rest
  <2>6. Cardinality(Units(a, S)) = Cardinality(Rest(a)) + a[x] - 0
    BY <1>1, <2>2, <2>4
  <2> QED
    BY <2>3, <2>5, <2>6
<1>4. Rest(new) = Rest(old)
  OBVIOUS
<1>5. /\ Cardinality(Units(new, S)) = Cardinality(Rest(new)) + new[x]
      /\ Cardinality(Units(old, S)) = Cardinality(Rest(old)) + old[x]
      /\ Cardinality(Rest(old)) \in Nat
  BY <1>2
<1>6. old[x] \in Nat /\ new[x] \in Nat
  OBVIOUS
<1> HIDE DEF Rest
<1> QED
  BY <1>4, <1>5, <1>6

(* A sum of smaller amounts is smaller.                                     *)
LEMMA UnitsMonotone ==
    ASSUME NEW S, IsFiniteSet(S), NEW a \in [S -> Nat], NEW b \in [S -> Nat],
           \A x \in S : a[x] <= b[x]
    PROVE  Cardinality(Units(a, S)) <= Cardinality(Units(b, S))
<1>1. Units(a, S) \in SUBSET Units(b, S)
  <2>1. \A x \in S : 1..a[x] \subseteq 1..b[x]
    OBVIOUS
  <2> QED
    BY <2>1 DEF Units
<1> QED
  BY <1>1, UnitsFinite, FS_Subset

(* A sum is at most the number of members that have an amount at all times  *)
(* the largest amount.                                                      *)
LEMMA UnitsBounded ==
    ASSUME NEW S, IsFiniteSet(S), NEW a \in [S -> Nat], NEW T \in SUBSET S,
           NEW m \in Nat, \A x \in T : a[x] <= m, \A x \in S \ T : a[x] = 0
    PROVE  Cardinality(Units(a, S)) <= Cardinality(T) * m
<1>1. IsFiniteSet(T)
  BY FS_Subset
<1>2. IsFiniteSet(1..m) /\ Cardinality(1..m) = m
  BY FS_Interval
<1> DEFINE I == 1..m
<1>3. Units(a, S) \in SUBSET (T \X I)
  <2>1. \A x \in T : 1..a[x] \subseteq I
    OBVIOUS
  <2>2. \A x \in S \ T : 1..a[x] = {}
    OBVIOUS
  <2> QED
    BY <2>1, <2>2 DEF Units
<1>4. IsFiniteSet(I) /\ Cardinality(I) = m
  BY <1>2
<1> HIDE DEF I
<1>5. IsFiniteSet(T \X I) /\ Cardinality(T \X I) = Cardinality(T) * Cardinality(I)
  BY <1>1, <1>4, FS_Product
<1> QED
  BY <1>3, <1>4, <1>5, FS_Subset

(* Nothing comes to nothing.                                                *)
LEMMA UnitsOfNothing ==
    ASSUME NEW S, NEW a, \A x \in S : a[x] = 0
    PROVE  Cardinality(Units(a, S)) = 0
<1>1. Units(a, S) = {}
  BY DEF Units
<1> QED
  BY <1>1, FS_EmptySet

(* exposure() is finite: every position ties up finitely many units.        *)
LEMMA StakeFinite ==
    ASSUME NEW cost \in [Tokens -> Nat]
    PROVE  IsFiniteSet(Stake(cost))
BY UnitsFinite, PortfolioAssumption DEF Stake

(* Changing the cost basis of one token changes the exposure by exactly     *)
(* that much, whatever the other positions are.                             *)
LEMMA StakeChange ==
    ASSUME NEW cost \in [Tokens -> Nat], NEW t \in Tokens, NEW n \in Nat
    PROVE  Cardinality(Stake([cost EXCEPT ![t] = n]))
               = Cardinality(Stake(cost)) - cost[t] + n
<1> DEFINE new == [cost EXCEPT ![t] = n]
<1>1. /\ new \in [Tokens -> Nat] /\ new[t] = n
      /\ \A u \in Tokens \ {t} : new[u] = cost[u]
  OBVIOUS
<1> HIDE DEF new
<1>2. Cardinality(Units(new, Tokens)) = Cardinality(Units(cost, Tokens)) - cost[t] + new[t]
  BY <1>1, PortfolioAssumption, UnitsChange
<1> QED
  BY <1>1, <1>2 DEF Stake, new

-----------------------------------------------------------------------------
(* A buy raises the exposure by what it spends and opens at most its own    *)
(* position.                                                                *)
LEMMA BuyEffect ==
    ASSUME NEW p \in Portfolios, NEW t \in Tokens,
           NEW shares \in Nat \ {0}, NEW notional \in Nat
    PROVE  LET q == ApplyBuy(p, t, shares, notional)
           IN /\ q \in Portfolios
              /\ Exposure(q) = Exposure(p) + notional
              /\ q.cash = p.cash - notional
              /\ q.realized = p.realized
              /\ q.today = p.today /\ q.losses = p.losses
              /\ Held(q) = Held(p) \cup {t}
<1> DEFINE q == ApplyBuy(p, t, shares, notional)
<1>1. /\ p.cost \in [Tokens -> Nat] /\ p.shares \in [Tokens -> Nat]
      /\ p.cash \in Int /\ p.cost[t] \in Nat /\ p.shares[t] \in Nat
  BY DEF Portfolios
<1>2. /\ q \in Portfolios
      /\ q.cash = p.cash - notional
      /\ q.realized = p.realized
      /\ q.today = p.today /\ q.losses = p.losses
      /\ q.cost = [p.cost EXCEPT ![t] = p.cost[t] + notional]
      /\ q.shares = [p.shares EXCEPT ![t] = p.shares[t] + shares]
  <2> DEFINE cash == p.cash - notional
             lots == [p.shares EXCEPT ![t] = p.shares[t] + shares]
             basis == [p.cost EXCEPT ![t] = p.cost[t] + notional]
  <2>1. cash \in Int /\ lots \in [Tokens -> Nat] /\ basis \in [Tokens -> Nat]
    BY <1>1
  <2>2. q = [p EXCEPT !.cash = cash, !.shares = lots, !.cost = basis]
    BY <1>1 DEF ApplyBuy, Portfolios
  <2> HIDE DEF q, cash, lots, basis
  <2>3. q \in Portfolios
    BY <2>1, <2>2 DEF Portfolios
  <2>4. q.cash = cash /\ q.shares = lots /\ q.cost = basis /\ q.realized = p.realized
        /\ q.today = p.today /\ q.losses = p.losses
    BY <2>2 DEF Portfolios
  <2> QED
    BY <2>3, <2>4 DEF cash, lots, basis
<1>3. Cardinality(Stake(q.cost)) = Cardinality(Stake(p.cost)) - p.cost[t]
                                   + (p.cost[t] + notional)
  <2>1. p.cost[t] + notional \in Nat
    BY <1>1
  <2> QED
    BY <1>1, <1>2, <2>1, StakeChange
<1>4. Cardinality(Stake(p.cost)) \in Nat
  BY <1>1, StakeFinite, FS_CardinalityType
<1>5. Exposure(q) = Exposure(p) + notional
  BY <1>1, <1>3, <1>4 DEF Exposure
<1>6. Held(q) = Held(p) \cup {t}
  BY <1>1, <1>2 DEF Held
<1> QED
  BY <1>2, <1>5, <1>6

(* A close takes the whole cost basis of the token out of the exposure.     *)
LEMMA CloseEffect ==
    ASSUME NEW p \in Portfolios, NEW t \in Tokens, NEW proceeds \in Nat
    PROVE  LET q == ApplySellClose(p, t, proceeds)
           IN /\ q \in Portfolios
              /\ Exposure(q) = Exposure(p) - p.cost[t]
              /\ p.cost[t] \in Nat
              /\ q.cash = p.cash + proceeds
              /\ q.realized = p.realized + proceeds - p.cost[t]
              /\ Held(q) = Held(p) \ {t}
<1> DEFINE q == ApplySellClose(p, t, proceeds)
<1>1. /\ p.cost \in [Tokens -> Nat] /\ p.shares \in [Tokens -> Nat]
      /\ p.cash \in Int /\ p.realized \in Int /\ p.today \in Int /\ p.losses \in Nat
      /\ p.cost[t] \in Nat /\ p.shares[t] \in Nat
  BY DEF Portfolios
<1>2. /\ q \in Portfolios
      /\ q.cash = p.cash + proceeds
      /\ q.realized = p.realized + proceeds - p.cost[t]
      /\ q.cost = [p.cost EXCEPT ![t] = 0]
      /\ q.shares = [p.shares EXCEPT ![t] = 0]
  <2> DEFINE cash == p.cash + proceeds
             lots == [p.shares EXCEPT ![t] = 0]
             basis == [p.cost EXCEPT ![t] = 0]
             realized == p.realized + (proceeds - p.cost[t])
             today == p.today + (proceeds - p.cost[t])
             streak == IF proceeds - p.cost[t] < 0 THEN p.losses + 1 ELSE 0
  <2>1. /\ cash \in Int /\ realized \in Int /\ today \in Int /\ streak \in Nat
        /\ lots \in [Tokens -> Nat] /\ basis \in [Tokens -> Nat]
        /\ realized = p.realized + proceeds - p.cost[t]
    BY <1>1
  <2>2. q = [p EXCEPT !.cash = cash, !.shares = lots, !.cost = basis,
                      !.realized = realized, !.today = today, !.losses = streak]
    BY <1>1 DEF ApplySellClose, Portfolios
  <2> HIDE DEF q, cash, lots, basis, realized, today, streak
  <2>3. q \in Portfolios
    BY <2>1, <2>2 DEF Portfolios
  <2>4. q.cash = cash /\ q.shares = lots /\ q.cost = basis /\ q.realized = realized
    BY <2>2 DEF Portfolios
  <2> QED
    BY <2>1, <2>3, <2>4 DEF cash, lots, basis
<1>3. Cardinality(Stake(q.cost)) = Cardinality(Stake(p.cost)) - p.cost[t] + 0
  BY <1>1, <1>2, StakeChange
<1>4. Cardinality(Stake(p.cost)) \in Nat
  BY <1>1, StakeFinite, FS_CardinalityType
<1>5. Exposure(q) = Exposure(p) - p.cost[t]
  BY <1>1, <1>3, <1>4 DEF Exposure
<1>6. Held(q) = Held(p) \ {t}
  BY <1>1, <1>2 DEF Held
<1> QED
  BY <1>1, <1>2, <1>5, <1>6

-----------------------------------------------------------------------------
(* What the breaker is there to keep: the books balance and the caps hold.  *)
Sound(p) == p \in Portfolios /\ Conserved(p) /\ WithinCaps(p)

(* Exposure and the number of positions are natural numbers.                *)
LEMMA PortfolioSizes ==
    ASSUME NEW p \in Portfolios
    PROVE  /\ Exposure(p) \in Nat
           /\ IsFiniteSet(Held(p)) /\ Cardinality(Held(p)) \in Nat
<1>1. p.cost \in [Tokens -> Nat]
  BY DEF Portfolios
<1>2. Exposure(p) \in Nat
  BY <1>1, StakeFinite, FS_CardinalityType DEF Exposure
<1>3. Held(p) \in SUBSET Tokens
  BY DEF Held
<1>4. IsFiniteSet(Held(p))
  BY <1>3, PortfolioAssumption, FS_Subset
<1> QED
  BY <1>2, <1>4, FS_CardinalityType

(* The portfolio a process starts with is sound.                            *)
LEMMA EmptySound == Sound(EmptyPortfolio) /\ Held(EmptyPortfolio) = {}
<1> DEFINE none == [t \in Tokens |-> 0]
<1>1. EmptyPortfolio \in Portfolios
  BY PortfolioAssumption DEF EmptyPortfolio, Portfolios
<1>2. /\ EmptyPortfolio.cost = none /\ EmptyPortfolio.shares = none
      /\ EmptyPortfolio.cash = Bankroll /\ EmptyPortfolio.realized = 0
  BY DEF EmptyPortfolio
<1>3. Stake(none) = {}
  BY DEF Stake, Units
<1>4. Exposure(EmptyPortfolio) = 0
  BY <1>2, <1>3, FS_EmptySet DEF Exposure
<1>5. Held(EmptyPortfolio) = {}
  BY <1>2 DEF Held
<1>6. Cardinality(Held(EmptyPortfolio)) = 0
  BY <1>5, FS_EmptySet
<1> QED
  BY <1>1, <1>2, <1>4, <1>5, <1>6, PortfolioAssumption DEF Sound, Conserved, WithinCaps

(* Closing a position at any non-negative price keeps the portfolio sound.  *)
LEMMA CloseSound ==
    ASSUME NEW p, Sound(p), NEW t \in Tokens, NEW proceeds \in Nat
    PROVE  Sound(ApplySellClose(p, t, proceeds))
<1> DEFINE q == ApplySellClose(p, t, proceeds)
<1>1. p \in Portfolios /\ Conserved(p) /\ WithinCaps(p)
  BY DEF Sound
<1>2. /\ q \in Portfolios
      /\ Exposure(q) = Exposure(p) - p.cost[t]
      /\ p.cost[t] \in Nat
      /\ q.cash = p.cash + proceeds
      /\ q.realized = p.realized + proceeds - p.cost[t]
      /\ Held(q) = Held(p) \ {t}
  BY <1>1, CloseEffect
<1> HIDE DEF q
<1>3. /\ Exposure(p) \in Nat /\ Cardinality(Held(p)) \in Nat
      /\ IsFiniteSet(Held(p)) /\ p.cash \in Int /\ p.realized \in Int
  BY <1>1, PortfolioSizes DEF Portfolios
<1>4. Conserved(q)
  BY <1>1, <1>2, <1>3, PortfolioAssumption DEF Conserved
<1>5. Cardinality(Held(q)) <= Cardinality(Held(p)) /\ Cardinality(Held(q)) \in Nat
  <2>1. /\ IsFiniteSet(Held(p) \ {t})
        /\ Cardinality(Held(p) \ {t}) = IF t \in Held(p) THEN Cardinality(Held(p)) - 1
                                         ELSE Cardinality(Held(p))
    BY <1>3, FS_RemoveElement
  <2>2. Cardinality(Held(p) \ {t}) \in Nat
    BY <2>1, FS_CardinalityType
  <2> QED
    BY <1>2, <1>3, <2>1, <2>2
<1>6. WithinCaps(q)
  BY <1>1, <1>2, <1>3, <1>5, PortfolioAssumption DEF WithinCaps
<1> QED
  BY <1>2, <1>4, <1>6 DEF Sound, q

(* A buy the breaker let through keeps the portfolio sound, whatever part   *)
(* of its size the book fills.                                              *)
LEMMA BuySound ==
    ASSUME NEW p, Sound(p), NEW o, o.token \in Tokens, o.size \in Nat,
           EntryAllowed(p, o), NEW f \in BuyFills(o.size)
    PROVE  Sound(ApplyBuy(p, o.token, f.shares, f.notional))
<1> DEFINE t == o.token
           q == ApplyBuy(p, t, f.shares, f.notional)
<1>1. p \in Portfolios /\ Conserved(p) /\ WithinCaps(p)
  BY DEF Sound
<1>2. /\ f.shares \in Nat \ {0} /\ f.notional \in Nat
      /\ f.notional <= o.size
  BY DEF BuyFills
<1>3. /\ q \in Portfolios
      /\ Exposure(q) = Exposure(p) + f.notional
      /\ q.cash = p.cash - f.notional
      /\ q.realized = p.realized
      /\ Held(q) = Held(p) \cup {t}
  BY <1>1, <1>2, BuyEffect
<1> HIDE DEF q
<1>4. /\ Exposure(p) \in Nat /\ Cardinality(Held(p)) \in Nat
      /\ IsFiniteSet(Held(p)) /\ p.cash \in Int /\ p.realized \in Int
  BY <1>1, PortfolioSizes DEF Portfolios
<1>5. Conserved(q)
  BY <1>1, <1>2, <1>3, <1>4, PortfolioAssumption DEF Conserved
<1>6. Cardinality(Held(q)) <= MaxPositions
  <2>1. Cardinality(Held(q)) = IF t \in Held(p) THEN Cardinality(Held(p))
                               ELSE Cardinality(Held(p)) + 1
    BY ZenonT(40), <1>3, <1>4, FS_AddElement
  <2>2. t \in Held(p) \/ Cardinality(Held(p)) < MaxPositions
    BY DEF EntryAllowed
  <2> QED
    BY <2>1, <2>2, <1>1, <1>4, PortfolioAssumption DEF WithinCaps
<1>7. Exposure(q) <= ExposureCap /\ q.cash >= 0
  BY <1>2, <1>3, <1>4, PortfolioAssumption DEF EntryAllowed
<1> QED
  BY <1>3, <1>5, <1>6, <1>7 DEF Sound, WithinCaps, q

(* The only two things an executed order can do to the portfolio.           *)
LEMMA ExecuteCases ==
    ASSUME NEW p \in Portfolios, NEW o, o.token \in Tokens, o.size \in Nat,
           o.side \in Sides, NEW r \in Execute(p, o)
    PROVE  /\ r.status \in {"filled", "blocked", "skipped", "rejected"}
           /\ \/ r.portfolio = p
              \/ /\ o.side = "buy" /\ EntryAllowed(p, o)
                 /\ \E f \in BuyFills(o.size) :
                        r.portfolio = ApplyBuy(p, o.token, f.shares, f.notional)
              \/ /\ o.side = "sell" /\ o.token \in Held(p)
                 /\ \E proceeds \in Nat :
                        r.portfolio = ApplySellClose(p, o.token, proceeds)
<1>1. CASE ~Allowed(p, o)
  BY <1>1 DEF Execute, Outcome
<1>2. CASE Allowed(p, o) /\ o.side = "buy"
  BY <1>2 DEF Execute, Submit, SubmitBuy, Outcome, Allowed
<1>3. CASE Allowed(p, o) /\ o.side = "sell"
  <2>1. \A price \in Prices : price * p.shares[o.token] \in Nat
    <3>1. p.shares[o.token] \in Nat
      BY DEF Portfolios
    <3>2. \A a, b \in Nat : a * b \in Nat
      OBVIOUS
    <3> QED
      BY <3>1, <3>2, PortfolioAssumption
  <2> QED
    BY <1>3, <2>1 DEF Execute, Submit, SubmitSell, Outcome, Allowed
<1> QED
  BY <1>1, <1>2, <1>3 DEF Sides

(* The breaker and the paper venue together keep a sound portfolio sound.   *)
LEMMA ExecuteSound ==
    ASSUME NEW p, Sound(p), NEW o, o.token \in Tokens, o.size \in Nat,
           o.side \in Sides, NEW r \in Execute(p, o)
    PROVE  Sound(r.portfolio)
<1>1. p \in Portfolios
  BY DEF Sound
<1>2. CASE r.portfolio = p
  BY <1>2
<1>3. CASE /\ EntryAllowed(p, o)
           /\ \E f \in BuyFills(o.size) :
                  r.portfolio = ApplyBuy(p, o.token, f.shares, f.notional)
  BY <1>3, BuySound
<1>4. CASE \E proceeds \in Nat : r.portfolio = ApplySellClose(p, o.token, proceeds)
  BY <1>4, CloseSound
<1> QED
  BY <1>1, <1>2, <1>3, <1>4, ExecuteCases

(* Nothing gets through the breaker of a frozen portfolio.                  *)
LEMMA ExecuteFrozen ==
    ASSUME NEW p, Frozen(p), NEW o, o.side \in Sides, NEW r \in Execute(p, o)
    PROVE  r.portfolio = p
<1>1. ~Allowed(p, o)
  BY DEF Frozen, Allowed, EntryAllowed, Sides
<1> QED
  BY <1>1 DEF Execute, Outcome

=============================================================================
