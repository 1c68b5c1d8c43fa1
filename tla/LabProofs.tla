------------------------------- MODULE LabProofs -------------------------------
(***************************************************************************)
(* What the Lab's evidence and the pure functions around it are worth, for *)
(* any markets, requests, times, candles and number of threads.            *)
(***************************************************************************)
EXTENDS Evidence, Algorithms, FiniteSetTheorems, SequenceTheorems,
        WellFoundedInduction, TLAPS

-----------------------------------------------------------------------------
(* A strict order of the members of a set.                                  *)
StrictlyOrders(order, S) ==
    /\ \A j \in S : <<j, j>> \notin order
    /\ \A i, j, k \in S : <<i, j>> \in order /\ <<j, k>> \in order => <<i, k>> \in order
    /\ \A j, k \in S : j # k => <<j, k>> \in order \/ <<k, j>> \in order

Ahead(order, S, k) == {j \in S : <<j, k>> \in order}

(* Members of an ordered finite set have different ranks, and every rank is *)
(* taken.                                                                   *)
LEMMA RanksGrow ==
    ASSUME NEW S, IsFiniteSet(S), NEW order, StrictlyOrders(order, S),
           NEW j \in S, NEW k \in S, <<j, k>> \in order
    PROVE  Cardinality(Ahead(order, S, j)) < Cardinality(Ahead(order, S, k))
<1>1. IsFiniteSet(Ahead(order, S, k))
  BY FS_Subset DEF Ahead
<1>2. Ahead(order, S, j) \subseteq Ahead(order, S, k)
  BY DEF Ahead, StrictlyOrders
<1>3. j \in Ahead(order, S, k) /\ j \notin Ahead(order, S, j)
  BY DEF Ahead, StrictlyOrders
<1>4. /\ IsFiniteSet(Ahead(order, S, j))
      /\ Cardinality(Ahead(order, S, j)) <= Cardinality(Ahead(order, S, k))
      /\ Cardinality(Ahead(order, S, j)) # Cardinality(Ahead(order, S, k))
  BY <1>1, <1>2, <1>3, FS_Subset
<1>5. /\ Cardinality(Ahead(order, S, j)) \in Nat
      /\ Cardinality(Ahead(order, S, k)) \in Nat
  BY <1>1, <1>4, FS_CardinalityType
<1> QED
  BY <1>4, <1>5

LEMMA RankInside ==
    ASSUME NEW S, IsFiniteSet(S), NEW order, StrictlyOrders(order, S), NEW k \in S
    PROVE  Cardinality(Ahead(order, S, k)) \in 0..(Cardinality(S) - 1)
<1>1. /\ Ahead(order, S, k) \subseteq S \ {k}
  BY DEF Ahead, StrictlyOrders
<1>2. IsFiniteSet(S \ {k}) /\ Cardinality(S \ {k}) = Cardinality(S) - 1
  BY FS_RemoveElement
<1>3. /\ IsFiniteSet(Ahead(order, S, k))
      /\ Cardinality(Ahead(order, S, k)) <= Cardinality(S) - 1
  BY <1>1, <1>2, FS_Subset
<1> QED
  BY <1>3, FS_CardinalityType

LEMMA RankTaken ==
    ASSUME NEW S, IsFiniteSet(S), NEW order, StrictlyOrders(order, S),
           NEW i \in 0..(Cardinality(S) - 1)
    PROVE  \E k \in S : Cardinality(Ahead(order, S, k)) = i
<1> SUFFICES ASSUME \A k \in S : Cardinality(Ahead(order, S, k)) # i PROVE FALSE
  OBVIOUS
<1> DEFINE n == Cardinality(S)
           T == (0..(n - 1)) \ {i}
           f == [k \in S |-> Cardinality(Ahead(order, S, k))]
<1>1. n \in Nat
  BY FS_CardinalityType
<1>2. IsFiniteSet(0..(n - 1)) /\ Cardinality(0..(n - 1)) = n
  BY <1>1, FS_Interval
<1>3. IsFiniteSet(T) /\ Cardinality(T) = n - 1
  <2> DEFINE U == 0..(n - 1)
  <2>1. IsFiniteSet(U) /\ Cardinality(U) = n /\ i \in U /\ T = U \ {i}
    BY <1>2
  <2> HIDE DEF U, T, n
  <2> QED
    BY <2>1, FS_RemoveElement
<1>4. f \in [S -> T]
  BY RankInside
<1>5. Cardinality(T) < Cardinality(S)
  BY <1>1, <1>3
<1> HIDE DEF T
<1>6. PICK j \in S, k \in S : j # k /\ f[j] = f[k]
  <2> HIDE DEF f
  <2> QED
    BY <1>3, <1>4, <1>5, FS_PigeonHole
<1>7. Cardinality(Ahead(order, S, j)) = Cardinality(Ahead(order, S, k))
  BY <1>6
<1>8. /\ Cardinality(Ahead(order, S, j)) \in Nat
      /\ Cardinality(Ahead(order, S, k)) \in Nat
  BY RankInside
<1>9. CASE <<j, k>> \in order
  BY <1>7, <1>8, <1>9, RanksGrow
<1>10. CASE <<k, j>> \in order
  BY <1>7, <1>8, <1>10, RanksGrow
<1> QED
  BY <1>6, <1>9, <1>10 DEF StrictlyOrders

(* What is arranged are the elements at those places, in that order.        *)
LEMMA Arranging ==
    ASSUME NEW seq, NEW places, IsFiniteSet(places), NEW order, StrictlyOrders(order, places)
    PROVE  \E at \in [1..Cardinality(places) -> places] :
              /\ Arranged(seq, places, order) = [i \in 1..Cardinality(places) |-> seq[at[i]]]
              /\ \A i, j \in 1..Cardinality(places) : i < j => <<at[i], at[j]>> \in order
<1> DEFINE n == Cardinality(places)
           Nth(i) == CHOOSE k \in places : Cardinality(Ahead(order, places, k)) = i - 1
           at == [i \in 1..n |-> Nth(i)]
<1>1. n \in Nat
  BY FS_CardinalityType
<1>2. ASSUME NEW i \in 1..n
      PROVE  Nth(i) \in places /\ Cardinality(Ahead(order, places, Nth(i))) = i - 1
  <2>1. i - 1 \in 0..(Cardinality(places) - 1)
    BY <1>1
  <2> QED
    BY <2>1, RankTaken
<1>3. at \in [1..n -> places]
  BY <1>2
<1>4. Arranged(seq, places, order) = [i \in 1..n |-> seq[at[i]]]
  BY DEF Arranged, Ahead
<1>5. ASSUME NEW i \in 1..n, NEW j \in 1..n, i < j
      PROVE  <<at[i], at[j]>> \in order
  <2>1. /\ at[i] \in places /\ at[j] \in places
        /\ Cardinality(Ahead(order, places, at[i])) = i - 1
        /\ Cardinality(Ahead(order, places, at[j])) = j - 1
    BY <1>2
  <2>2. at[i] # at[j]
    BY <1>1, <1>5, <2>1
  <2> HIDE DEF at
  <2>3. <<at[j], at[i]>> \notin order
    BY <1>1, <1>5, <2>1, RanksGrow
  <2> QED
    BY <2>1, <2>2, <2>3 DEF StrictlyOrders
<1> QED
  BY <1>3, <1>4, <1>5

(* A finite set of numbers that is not empty has a greatest one.            *)
LEMMA MaxExists ==
    ASSUME NEW S \in SUBSET Int, IsFiniteSet(S), S # {}
    PROVE  Max(S) \in S /\ \A x \in S : x <= Max(S)
<1> DEFINE order == {p \in Int \X Int : p[1] < p[2]}
           n == Cardinality(S)
<1>1. \A x, y \in S : <<x, y>> \in order <=> x < y
  OBVIOUS
<1> HIDE DEF order
<1>2. StrictlyOrders(order, S)
  BY <1>1 DEF StrictlyOrders
<1>3. n \in Nat /\ n # 0
  BY FS_CardinalityType, FS_EmptySet
<1>4. PICK k \in S : Cardinality(Ahead(order, S, k)) = n - 1
  <2>1. n - 1 \in 0..(Cardinality(S) - 1)
    BY <1>3
  <2> QED
    BY <1>2, <2>1, RankTaken
<1>5. Ahead(order, S, k) = S \ {k}
  <2>1. Ahead(order, S, k) \in SUBSET (S \ {k})
    BY <1>1 DEF Ahead
  <2>2. IsFiniteSet(S \ {k}) /\ Cardinality(S \ {k}) = n - 1
    BY FS_RemoveElement
  <2> QED
    BY <1>4, <2>1, <2>2, FS_Subset
<1>6. ASSUME NEW x \in S PROVE k >= x
  <2>1. CASE x = k
    BY <2>1
  <2>2. CASE x # k
    <3>1. x \in Ahead(order, S, k)
      BY <1>5, <2>2
    <3>2. x < k
      BY <1>1, <3>1 DEF Ahead
    <3> QED
      BY <3>2
  <2> QED
    BY <2>1, <2>2
<1> QED
  BY <1>6 DEF Max

Candlestick == [ts : Int, close : Int]

NewsItem == [dated : {"moment", "day", "never"}, at : Int]

InTime(candles) == \A i, j \in DOMAIN candles : i < j => candles[i].ts <= candles[j].ts

LEMMA CandlesTyped ==
    ASSUME NEW c \in Seq(Candlestick), NEW k \in DOMAIN c
    PROVE  /\ c[k] \in Candlestick /\ c[k].ts \in Int /\ c[k].close \in Int
           /\ Len(c) \in Nat /\ DOMAIN c = 1..Len(c) /\ k \in Int
<1>1. c[k] \in Candlestick
  OBVIOUS
<1>2. \A x \in Candlestick : x.ts \in Int /\ x.close \in Int
  BY DEF Candlestick
<1> QED
  BY <1>1, <1>2

LEMMA OlderFinite ==
    ASSUME NEW c \in Seq(Candlestick), NEW t
    PROVE  /\ Older(c, t) \in SUBSET (1..Len(c)) /\ DOMAIN c = 1..Len(c) /\ Len(c) \in Nat
           /\ IsFiniteSet(Older(c, t))
<1>1. Older(c, t) \in SUBSET (1..Len(c)) /\ DOMAIN c = 1..Len(c) /\ Len(c) \in Nat
  BY DEF Older
<1>2. IsFiniteSet(1..Len(c))
  BY <1>1, FS_Interval
<1> QED
  BY <1>1, <1>2, FS_Subset

LEMMA ListedOrders ==
    ASSUME NEW c \in Seq(Candlestick), NEW t
    PROVE  /\ StrictlyOrders(AsListed(c), Older(c, t))
           /\ \A j, k \in Older(c, t) : <<j, k>> \in AsListed(c) <=> j < k
<1> DEFINE places == Older(c, t)
<1>1. places \in SUBSET DOMAIN c /\ \A k \in places : k \in Nat
  BY OlderFinite DEF Older
<1>2. \A j, k \in places : <<j, k>> \in AsListed(c) <=> j < k
  BY <1>1 DEF AsListed
<1> HIDE DEF places
<1>3. StrictlyOrders(AsListed(c), places)
  BY <1>1, <1>2 DEF StrictlyOrders
<1> QED
  BY <1>2, <1>3 DEF places

LEMMA TimesOrder ==
    ASSUME NEW c \in Seq(Candlestick), NEW t
    PROVE  /\ StrictlyOrders(ByTime(c), Older(c, t))
           /\ \A j, k \in Older(c, t) : <<j, k>> \in ByTime(c) <=>
                 c[j].ts < c[k].ts \/ (c[j].ts = c[k].ts /\ j < k)
<1> DEFINE places == Older(c, t)
<1>1. \A k \in places : k \in DOMAIN c /\ k \in Nat /\ c[k].ts \in Int
  BY OlderFinite, CandlesTyped DEF Older
<1>2. \A j, k \in places : <<j, k>> \in ByTime(c) <=>
          c[j].ts < c[k].ts \/ (c[j].ts = c[k].ts /\ j < k)
  BY <1>1 DEF ByTime
<1> HIDE DEF places
<1>3. \A j \in places : <<j, j>> \notin ByTime(c)
  BY <1>1, <1>2
<1>4. \A i, j, k \in places :
          <<i, j>> \in ByTime(c) /\ <<j, k>> \in ByTime(c) => <<i, k>> \in ByTime(c)
  BY <1>1, <1>2
<1>5. \A j, k \in places : j # k => <<j, k>> \in ByTime(c) \/ <<k, j>> \in ByTime(c)
  BY <1>1, <1>2
<1> QED
  BY <1>2, <1>3, <1>4, <1>5 DEF StrictlyOrders, places

LEMMA BeforeIs ==
    ASSUME NEW c \in Seq(Candlestick), NEW t \in Int
    PROVE  /\ Before(c, t) \in Seq(Candlestick)
           /\ \A k \in DOMAIN Before(c, t) : Before(c, t)[k].ts < t
           /\ InTime(c) => InTime(Before(c, t))
<1> DEFINE places == Older(c, t)
           n == Cardinality(places)
<1>1. places \subseteq DOMAIN c /\ DOMAIN c = 1..Len(c) /\ Len(c) \in Nat
      /\ \A k \in places : c[k] \in Candlestick /\ c[k].ts \in Int /\ c[k].ts < t
  BY CandlesTyped DEF Older
<1>2. IsFiniteSet(places) /\ n \in Nat
  BY OlderFinite, FS_CardinalityType
<1>3. \A j, k \in places : <<j, k>> \in AsListed(c) <=> j < k
  BY ListedOrders
<1>4. StrictlyOrders(AsListed(c), places)
  BY ListedOrders
<1> HIDE DEF places
<1>5. PICK at \in [1..n -> places] :
              /\ Arranged(c, places, AsListed(c)) = [i \in 1..n |-> c[at[i]]]
              /\ \A i, j \in 1..n : i < j => <<at[i], at[j]>> \in AsListed(c)
  BY <1>2, <1>4, Arranging
<1>6. Before(c, t) = [i \in 1..n |-> c[at[i]]]
  BY <1>5 DEF Before, Selected, places
<1> HIDE DEF n
<1>7. Before(c, t) \in Seq(Candlestick) /\ DOMAIN Before(c, t) = 1..n
      /\ \A i \in 1..n : Before(c, t)[i] = c[at[i]] /\ at[i] \in places
  BY <1>1, <1>2, <1>6
<1>8. ASSUME InTime(c), NEW i \in 1..n, NEW j \in 1..n, i < j
      PROVE  c[at[i]].ts <= c[at[j]].ts
  <2>1. at[i] < at[j]
    BY <1>3, <1>5, <1>7, <1>8
  <2> QED
    BY <1>1, <1>7, <1>8, <2>1 DEF InTime
<1>9. InTime(c) => InTime(Before(c, t))
  BY <1>7, <1>8 DEF InTime
<1> QED
  BY <1>1, <1>7, <1>9

LEMMA OrderedIs ==
    ASSUME NEW c \in Seq(Candlestick), NEW t \in Int
    PROVE  /\ Ordered(c, t) \in Seq(Candlestick)
           /\ \A k \in DOMAIN Ordered(c, t) : Ordered(c, t)[k].ts < t
           /\ InTime(Ordered(c, t))
<1> DEFINE places == Older(c, t)
           n == Cardinality(places)
<1>1. places \subseteq DOMAIN c /\ DOMAIN c = 1..Len(c) /\ Len(c) \in Nat
      /\ \A k \in places : c[k] \in Candlestick /\ c[k].ts \in Int /\ c[k].ts < t
  BY CandlesTyped DEF Older
<1>2. IsFiniteSet(places) /\ n \in Nat
  BY OlderFinite, FS_CardinalityType
<1>3. \A j, k \in places : <<j, k>> \in ByTime(c) <=>
          c[j].ts < c[k].ts \/ (c[j].ts = c[k].ts /\ j < k)
  BY TimesOrder
<1>4. StrictlyOrders(ByTime(c), places)
  BY TimesOrder
<1> HIDE DEF places
<1>5. PICK at \in [1..n -> places] :
              /\ Arranged(c, places, ByTime(c)) = [i \in 1..n |-> c[at[i]]]
              /\ \A i, j \in 1..n : i < j => <<at[i], at[j]>> \in ByTime(c)
  BY <1>2, <1>4, Arranging
<1>6. Ordered(c, t) = [i \in 1..n |-> c[at[i]]]
  BY <1>5 DEF Ordered, places
<1> HIDE DEF n
<1>7. Ordered(c, t) \in Seq(Candlestick) /\ DOMAIN Ordered(c, t) = 1..n
      /\ \A i \in 1..n : Ordered(c, t)[i] = c[at[i]] /\ at[i] \in places
  BY <1>1, <1>2, <1>6
<1>8. ASSUME NEW i \in 1..n, NEW j \in 1..n, i < j
      PROVE  c[at[i]].ts <= c[at[j]].ts
  <2>1. at[i] \in places /\ at[j] \in places /\ <<at[i], at[j]>> \in ByTime(c)
    BY <1>5, <1>7, <1>8
  <2>2. c[at[i]].ts \in Int /\ c[at[j]].ts \in Int
    BY <1>1, <2>1
  <2> QED
    BY <1>3, <2>1, <2>2
<1> QED
  BY <1>1, <1>7, <1>8 DEF InTime

LEMMA PrefixIs ==
    ASSUME NEW o \in Seq(Candlestick), NEW i \in 0..Len(o)
    PROVE  /\ SubSeq(o, 1, i) \in Seq(Candlestick) /\ Len(SubSeq(o, 1, i)) = i
           /\ \A k \in 1..i : SubSeq(o, 1, i)[k] = o[k] /\ k \in DOMAIN o
<1>1. Len(o) \in Nat /\ i \in Int /\ DOMAIN o = 1..Len(o)
      /\ \A k \in 1..i : k \in DOMAIN o /\ o[k] \in Candlestick
  OBVIOUS
<1>2. /\ SubSeq(o, 1, i) \in Seq(Candlestick)
      /\ Len(SubSeq(o, 1, i)) = (IF 1 <= i THEN i - 1 + 1 ELSE 0)
      /\ \A k \in 1..(i - 1 + 1) : SubSeq(o, 1, i)[k] = o[1 + k - 1]
  BY <1>1, SubSeqProperties
<1>3. i - 1 + 1 = i /\ (~(1 <= i) => i = 0) /\ \A k \in 1..i : 1 + k - 1 = k
  BY <1>1
<1> QED
  BY <1>1, <1>2, <1>3

LEMMA HistoryIs ==
    ASSUME NEW o \in Seq(Candlestick), NEW i \in 0..(Len(o) - 1)
    PROVE  /\ o[i + 1].ts \in Int
           /\ History(o, i) \in Seq(Candlestick)
           /\ \A k \in DOMAIN History(o, i) : History(o, i)[k].ts < o[i + 1].ts
           /\ InTime(o) => InTime(History(o, i))
<1> DEFINE first == SubSeq(o, 1, i)
<1>1. Len(o) \in Nat /\ i \in Int /\ DOMAIN o = 1..Len(o) /\ i + 1 \in DOMAIN o
      /\ \A k \in 1..i : k \in DOMAIN o /\ o[k] \in Candlestick
  OBVIOUS
<1>2. first \in Seq(Candlestick) /\ Len(first) = i /\ \A k \in 1..i : first[k] = o[k]
  BY <1>1, PrefixIs
<1>3. InTime(o) => InTime(first)
  BY <1>1, <1>2 DEF InTime
<1> HIDE DEF first
<1>4. o[i + 1].ts \in Int
  BY <1>1, CandlesTyped
<1>5. History(o, i) = Before(first, o[i + 1].ts)
  BY DEF History, first
<1> QED
  BY <1>2, <1>3, <1>4, <1>5, BeforeIs

LEMMA MaxOfTwo ==
    ASSUME NEW a \in Int, NEW b \in Int
    PROVE  Max({a, b}) = (IF a >= b THEN a ELSE b)
BY DEF Max

LEMMA MinOfTwo ==
    ASSUME NEW a \in Int, NEW b \in Int
    PROVE  Min({a, b}) = (IF a <= b THEN a ELSE b)
BY DEF Min

LEMMA ClampedInside ==
    ASSUME NEW i \in Int, NEW least \in Nat, NEW n \in Nat, n >= least + 1
    PROVE  Clamped(i, least, n) \in least..(n - 1)
<1> DEFINE m == Max({i, least})
<1>1. m = (IF i >= least THEN i ELSE least)
  <2>1. least \in Int
    OBVIOUS
  <2> QED
    BY <2>1, MaxOfTwo
<1>2. m \in Int /\ m >= least /\ n - 1 \in Int
  BY <1>1
<1> HIDE DEF m
<1>3. Min({m, n - 1}) = (IF m <= n - 1 THEN m ELSE n - 1)
  BY <1>2, MinOfTwo
<1>4. Clamped(i, least, n) = Min({m, n - 1})
  BY DEF Clamped, m
<1> QED
  BY <1>2, <1>3, <1>4

(* Where a window is.                                                       *)
WindowAt(o, least, w, i) ==
    /\ i \in least..(Len(o) - 1) /\ w = Window(o[i + 1].ts, History(o, i))
    /\ Len(History(o, i)) >= least /\ Priced(History(o, i))

LEMMA WindowIsAt ==
    ASSUME NEW c \in Seq(Candlestick), NEW resolution \in Int, NEW least \in Nat \ {0},
           NEW policy, NEW w \in Windows(c, resolution, least, policy)
    PROVE  \E i : WindowAt(Ordered(c, resolution), least, w, i)
<1> DEFINE o == Ordered(c, resolution)
           n == Len(o)
           indices == {Clamped(i, least, n) : i \in Candidates(policy, n)}
<1>1. n \in Nat
  BY OrderedIs
<1>2. PICK i \in indices : /\ n >= least + 1
                           /\ w = Window(o[i + 1].ts, History(o, i))
                           /\ Len(History(o, i)) >= least /\ Priced(History(o, i))
  <2>1. w \in {Window(o[i + 1].ts, History(o, i)) :
                 i \in {i \in indices : /\ Len(History(o, i)) >= least
                                        /\ Priced(History(o, i))}}
        /\ ~(n < least + 1)
    BY DEF Windows
  <2> HIDE DEF o, n, indices
  <2> QED
    BY <1>1, <2>1
<1>3. \A j \in Candidates(policy, n) : j \in Int
  <2> HIDE DEF n
  <2>1. n \div 2 \in Int
    BY <1>1
  <2>2. \A q \in 1..3 : CeilDiv((n - 1) * q, 4) \in Int
    BY <1>1 DEF CeilDiv
  <2> QED
    BY <2>1, <2>2 DEF Candidates
<1>4. i \in least..(n - 1)
  <2>1. PICK j \in Candidates(policy, n) : i = Clamped(j, least, n)
    OBVIOUS
  <2> HIDE DEF n
  <2> QED
    BY <1>1, <1>2, <1>3, <2>1, ClampedInside
<1> HIDE DEF o, indices
<1> QED
  BY <1>2, <1>4 DEF WindowAt, o

(* Every window ends before the market and is older than its prediction.    *)
LEMMA WindowsAre ==
    ASSUME NEW c \in Seq(Candlestick), NEW resolution \in Int, NEW least \in Nat \ {0},
           NEW policy, NEW w \in Windows(c, resolution, least, policy)
    PROVE  /\ w.asOf \in Int /\ w.asOf < resolution
           /\ w.candles \in Seq(Candlestick) /\ Len(w.candles) >= least
           /\ \A k \in DOMAIN w.candles : /\ w.candles[k].ts < w.asOf
                                          /\ w.candles[k].ts <= Last(w.candles).ts
<1> DEFINE o == Ordered(c, resolution)
           n == Len(o)
<1>1. /\ o \in Seq(Candlestick) /\ InTime(o)
      /\ \A k \in DOMAIN o : o[k].ts < resolution
  BY OrderedIs
<1>2. PICK i \in least..(n - 1) : /\ w = Window(o[i + 1].ts, History(o, i))
                                 /\ Len(History(o, i)) >= least
  BY WindowIsAt DEF WindowAt
<1>3. n \in Nat
  BY <1>1
<1>4. i \in 0..(n - 1)
  <2> HIDE DEF n
  <2> QED
    BY <1>3
<1> DEFINE h == History(o, i)
<1> HIDE DEF o
<1>5. /\ o[i + 1].ts \in Int /\ h \in Seq(Candlestick) /\ InTime(h)
      /\ \A k \in DOMAIN h : h[k].ts < o[i + 1].ts
  BY <1>1, <1>4, HistoryIs
<1>6. o[i + 1].ts < resolution
  <2>1. i + 1 \in DOMAIN o
    BY <1>1, <1>4
  <2> QED
    BY <1>1, <2>1
<1>7. w.asOf = o[i + 1].ts /\ w.candles = h
  BY <1>2 DEF Window
<1> HIDE DEF h
<1>8. Len(h) >= least /\ Len(h) \in Nat /\ DOMAIN h = 1..Len(h)
  BY <1>2, <1>5 DEF h
<1>9. ASSUME NEW k \in DOMAIN h PROVE h[k].ts <= Last(h).ts
  <2>1. Len(h) \in DOMAIN h /\ h[k].ts \in Int
    BY <1>5, <1>8, CandlesTyped
  <2>2. k < Len(h) \/ k = Len(h)
    BY <1>8
  <2> QED
    BY <1>5, <2>1, <2>2 DEF InTime, Last
<1> QED
  BY <1>5, <1>6, <1>7, <1>8, <1>9

(* What is sorted or selected was there before.                             *)
LEMMA CandlesAreTaken ==
    ASSUME NEW c \in Seq(Candlestick), NEW t \in Int
    PROVE  /\ \A k \in DOMAIN Before(c, t) : \E j \in DOMAIN c : Before(c, t)[k] = c[j]
           /\ \A k \in DOMAIN Ordered(c, t) : \E j \in DOMAIN c : Ordered(c, t)[k] = c[j]
<1> DEFINE places == Older(c, t)
           n == Cardinality(places)
<1>1. IsFiniteSet(places) /\ places \subseteq DOMAIN c
  BY OlderFinite DEF Older
<1>2. ASSUME NEW order, StrictlyOrders(order, places)
      PROVE  \A k \in DOMAIN Arranged(c, places, order) :
                \E j \in DOMAIN c : Arranged(c, places, order)[k] = c[j]
  <2> HIDE DEF places
  <2>1. PICK at \in [1..Cardinality(places) -> places] :
            Arranged(c, places, order) = [i \in 1..Cardinality(places) |-> c[at[i]]]
    BY <1>1, <1>2, Arranging
  <2> DEFINE m == Cardinality(places)
             listed == Arranged(c, places, order)
  <2>2. listed = [i \in 1..m |-> c[at[i]]] /\ at \in [1..m -> places]
    BY <2>1
  <2> HIDE DEF m, listed
  <2>3. DOMAIN listed = 1..m /\ \A k \in 1..m : listed[k] = c[at[k]] /\ at[k] \in DOMAIN c
    BY <1>1, <2>2
  <2>4. ASSUME NEW k \in DOMAIN listed PROVE \E j \in DOMAIN c : listed[k] = c[j]
    <3>1. at[k] \in DOMAIN c /\ listed[k] = c[at[k]]
      BY <2>3
    <3> QED
      BY <3>1
  <2> QED
    BY <2>4 DEF listed
<1>3. StrictlyOrders(AsListed(c), places) /\ StrictlyOrders(ByTime(c), places)
  BY ListedOrders, TimesOrder
<1>4. Before(c, t) = Arranged(c, places, AsListed(c))
      /\ Ordered(c, t) = Arranged(c, places, ByTime(c))
  BY DEF Before, Selected, Ordered
<1> HIDE DEF places
<1> QED
  BY <1>2, <1>3, <1>4

(* A window lies among the times of its candles.                            *)
LEMMA WindowsInside ==
    ASSUME NEW c \in Seq(Candlestick), NEW resolution \in Int, NEW least \in Nat \ {0},
           NEW policy, NEW w \in Windows(c, resolution, least, policy),
           NEW Times, \A j \in DOMAIN c : c[j].ts \in Times
    PROVE  w.asOf \in Times /\ Last(w.candles).ts \in Times
<1> DEFINE o == Ordered(c, resolution)
           n == Len(o)
<1>1. o \in Seq(Candlestick) /\ \A k \in DOMAIN o : o[k].ts \in Times
  <2>1. o \in Seq(Candlestick)
    BY OrderedIs
  <2>2. \A k \in DOMAIN o : \E j \in DOMAIN c : o[k] = c[j]
    BY CandlesAreTaken
  <2> HIDE DEF o
  <2>3. ASSUME NEW k \in DOMAIN o PROVE o[k].ts \in Times
    <3>1. PICK j \in DOMAIN c : o[k] = c[j]
      BY <2>2
    <3> QED
      BY <3>1
  <2> QED
    BY <2>1, <2>3
<1>2. PICK i \in least..(n - 1) : /\ w = Window(o[i + 1].ts, History(o, i))
                                 /\ Len(History(o, i)) >= least
  BY WindowIsAt DEF WindowAt
<1>3. n \in Nat
  BY <1>1
<1>4. i \in 0..(n - 1)
  <2> HIDE DEF n
  <2> QED
    BY <1>3
<1> DEFINE h == History(o, i)
           first == SubSeq(o, 1, i)
<1> HIDE DEF o
<1>5. o[i + 1].ts \in Int /\ h \in Seq(Candlestick) /\ i + 1 \in DOMAIN o
  BY <1>1, <1>4, HistoryIs
<1>6. /\ first \in Seq(Candlestick) /\ DOMAIN first = 1..i
      /\ \A k \in 1..i : first[k] = o[k] /\ k \in DOMAIN o
  <2>1. i \in 0..Len(o)
    BY <1>3, <1>4
  <2> QED
    BY <1>1, <2>1, PrefixIs
<1>7. h = Before(first, o[i + 1].ts)
  BY DEF History
<1> HIDE DEF first
<1>8. \A k \in DOMAIN h : h[k].ts \in Times
  <2>1. \A k \in DOMAIN Before(first, o[i + 1].ts) :
           \E j \in DOMAIN first : Before(first, o[i + 1].ts)[k] = first[j]
    BY <1>5, <1>6, CandlesAreTaken
  <2> HIDE DEF h
  <2> SUFFICES ASSUME NEW k \in DOMAIN h PROVE h[k].ts \in Times
    OBVIOUS
  <2>2. PICK j \in DOMAIN first : h[k] = first[j]
    BY <1>7, <2>1
  <2>3. j \in DOMAIN o /\ h[k] = o[j]
    BY <1>6, <2>2
  <2> QED
    BY <1>1, <2>3
<1>9. Len(h) \in DOMAIN h
  BY <1>2, <1>5
<1>10. w.asOf = o[i + 1].ts /\ w.candles = h
  BY <1>2 DEF Window
<1> HIDE DEF h
<1> QED
  BY <1>1, <1>5, <1>8, <1>9, <1>10 DEF Last

LEMMA PublicationIs ==
    ASSUME NEW i \in NewsItem
    PROVE  PublishedAvailableAt(i) \in Int
<1>1. i.at \in Int
  BY DEF NewsItem
<1> DEFINE t == i.at
<1> HIDE DEF t
<1>2. DayLength \in Nat \ {0} /\ t \in Int
  BY <1>1, ReplayAssumption DEF t
<1>3. t \div DayLength \in Int
  BY <1>2
<1> DEFINE d == t \div DayLength
<1> HIDE DEF d
<1>4. (d + 1) * DayLength - 1 \in Int
  BY <1>2, <1>3 DEF d
<1> QED
  BY <1>2, <1>4 DEF PublishedAvailableAt, EndOfDay, Day, t, d

(* What a rebuilt row draws on was known when it declares, and it declares  *)
(* no later than it predicts.                                               *)
LEMMA RebuiltRows ==
    ASSUME NEW market, market.candles \in Seq(Candlestick), market.resolution \in Int,
           market.news \subseteq NewsItem, IsFiniteSet(market.news),
           NEW least \in Nat \ {0}, NEW policy,
           NEW r \in BuildHistoricalCollections(market, least, policy)
    PROVE  /\ r.asOf \in Int /\ r.availableAtMax \in Int
           /\ r.asOf < market.resolution /\ r.availableAtMax <= r.asOf
           /\ \A t \in r.trades : t < r.asOf
           /\ \A i \in r.news : i.dated # "never" /\ PublishedAvailableAt(i) <= r.availableAtMax
           /\ \A k \in DOMAIN r.candles : /\ r.candles[k].ts <= r.availableAtMax
                                          /\ r.candles[k].ts < r.asOf
<1>1. PICK w \in Windows(market.candles, market.resolution, least, policy) :
          r = Collection(w, market.trades, market.news)
  BY DEF BuildHistoricalCollections
<1>2. /\ w.asOf \in Int /\ w.asOf < market.resolution
      /\ w.candles \in Seq(Candlestick) /\ Len(w.candles) >= least
      /\ \A k \in DOMAIN w.candles : /\ w.candles[k].ts < w.asOf
                                     /\ w.candles[k].ts <= Last(w.candles).ts
  BY WindowsAre
<1>3. Last(w.candles).ts \in Int /\ Last(w.candles).ts < w.asOf
  <2>1. Len(w.candles) \in DOMAIN w.candles
    BY <1>2
  <2> QED
    BY <1>2, <2>1, CandlesTyped DEF Last
<1> DEFINE found == SearchBetween(market.news, w.candles[1].ts, w.asOf)
           news == NewsSentiment(found, w.asOf)
           published == {PublishedAvailableAt(i) : i \in news}
           all == {Last(w.candles).ts} \cup published
<1>4. /\ news \subseteq market.news
      /\ \A i \in news : i.dated # "never" /\ PublishedAvailableAt(i) <= w.asOf
  BY DEF NewsSentiment, SearchBetween
<1>5. IsFiniteSet(published) /\ published \subseteq Int
  <2> DEFINE f == [i \in news |-> PublishedAvailableAt(i)]
  <2> HIDE DEF news
  <2>1. IsFiniteSet(news)
    BY <1>4, FS_Subset
  <2>2. f \in Surjection(news, published)
    BY DEF Surjection
  <2>3. published \subseteq Int
    BY <1>4, PublicationIs
  <2> HIDE DEF f, published
  <2> QED
    BY <2>1, <2>2, <2>3, FS_Surjection
<1>6. /\ r.asOf = w.asOf /\ r.candles = w.candles /\ r.news = news
      /\ r.trades = TradesFlow(market.trades, w) /\ r.availableAtMax = Max(all)
  BY <1>1 DEF Collection
<1>7. \A t \in r.trades : t < r.asOf
  BY <1>6 DEF TradesFlow
<1>8. \A x \in all : x \in Int /\ x <= w.asOf
  <2>1. \A x \in published : x \in Int /\ x <= w.asOf
    <3> HIDE DEF news
    <3> QED
      BY <1>4, <1>5
  <2>2. \A x \in {Last(w.candles).ts} : x \in Int /\ x <= w.asOf
    BY <1>2, <1>3
  <2> HIDE DEF published
  <2> QED
    BY <2>1, <2>2
<1>9. \A i \in news : PublishedAvailableAt(i) \in all
  OBVIOUS
<1>10. IsFiniteSet(all) /\ all # {} /\ Last(w.candles).ts \in all
  <2>1. all = published \cup {Last(w.candles).ts}
    OBVIOUS
  <2> HIDE DEF published
  <2>2. IsFiniteSet(published \cup {Last(w.candles).ts})
    BY <1>5, FS_AddElement
  <2> QED
    BY <2>1, <2>2
<1> HIDE DEF all, news
<1>11. Max(all) \in all /\ \A x \in all : x <= Max(all)
  BY <1>8, <1>10, MaxExists
<1>12. Max(all) \in Int /\ Max(all) <= w.asOf
  BY <1>8, <1>11
<1>13. ASSUME NEW k \in DOMAIN w.candles PROVE w.candles[k].ts <= Max(all)
  <2>1. w.candles[k].ts \in Int /\ w.candles[k].ts <= Last(w.candles).ts
    BY <1>2, CandlesTyped
  <2>2. Last(w.candles).ts <= Max(all)
    BY <1>10, <1>11
  <2> QED
    BY <1>3, <1>12, <2>1, <2>2
<1>14. \A i \in r.news : i.dated # "never" /\ PublishedAvailableAt(i) <= r.availableAtMax
  BY <1>4, <1>6, <1>9, <1>11
<1> QED
  BY <1>2, <1>6, <1>7, <1>12, <1>13, <1>14

(* A replayed row holds older candles only.                                 *)
LEMMA ScoredRows ==
    ASSUME NEW c \in Seq(Candlestick), NEW final, NEW least \in Nat,
           NEW r \in ScoreMarket(c, final, least)
    PROVE  \A k \in DOMAIN r.candles : r.candles[k].ts < r.asOf
<1> DEFINE n == Len(c)
           i == ScoreIndex(n, least)
<1>1. n \in Nat
  OBVIOUS
<1>2. n >= least + 1 /\ r \in RowAt(c, i, least, final)
  BY <1>1 DEF ScoreMarket
<1>3. i \in 0..(n - 1)
  <2> HIDE DEF n
  <2>1. n \div 2 \in Int
    BY <1>1
  <2>2. i \in least..(n - 1)
    BY <1>1, <1>2, <2>1, ClampedInside DEF ScoreIndex
  <2> QED
    BY <1>1, <2>2
<1> HIDE DEF i
<1>4. r.asOf = c[i + 1].ts /\ r.candles = Before(SubSeq(c, 1, i), c[i + 1].ts)
  BY <1>2 DEF RowAt
<1>5. \A k \in DOMAIN History(c, i) : History(c, i)[k].ts < c[i + 1].ts
  BY <1>3, HistoryIs
<1> QED
  BY <1>4, <1>5 DEF History

-----------------------------------------------------------------------------
LEMMA Products ==
    ASSUME NEW a \in Int, NEW b \in Int, NEW c \in Nat, a <= b
    PROVE  a * c <= b * c /\ a * c \in Int /\ b * c \in Int
OBVIOUS

LEMMA Quotients ==
    ASSUME NEW n \in Int, NEW d \in Nat \ {0}
    PROVE  /\ n \div d \in Int
           /\ (n \div d) * d <= n
           /\ n < (n \div d) * d + d
OBVIOUS

LEMMA QuotientIs ==
    ASSUME NEW n \in Int, NEW d \in Nat \ {0}, NEW q \in Int, q * d <= n, n < q * d + d
    PROVE  n \div d = q
OBVIOUS

(* What is more per unit is rounded to no less.                             *)
LEMMA RoundedGrows ==
    ASSUME NEW n \in Nat, NEW d \in Nat \ {0}, NEW m \in Nat, NEW e \in Nat \ {0},
           n * e <= m * d
    PROVE  Rounded(n, d) <= Rounded(m, e)
<1> DEFINE q == Rounded(n, d)
           r == Rounded(m, e)
<1>1. /\ q \in Int /\ q * (2 * d) <= 2 * n + d
  BY Quotients DEF Rounded
<1>2. /\ r \in Int /\ 2 * m + e < r * (2 * e) + 2 * e
  <2>1. 2 * m + e \in Int /\ 2 * e \in Nat \ {0}
    OBVIOUS
  <2> QED
    BY <2>1, Quotients DEF Rounded
<1> HIDE DEF q, r
<1> SUFFICES ASSUME q >= r + 1 PROVE FALSE
  BY <1>1, <1>2 DEF q, r
<1>3. (2 * m + e) < (r + 1) * (2 * e)
  BY <1>2
<1>4. (r + 1) * (2 * e) <= q * (2 * e)
  BY <1>1, <1>2, Products
<1>5. 2 * m + e < 2 * (q * e)
  BY <1>1, <1>2, <1>3, <1>4
<1> DEFINE qe == q * e
<1>6. qe \in Int /\ 2 * m + e + 1 <= 2 * qe
  BY <1>1, <1>5
<1>7. (2 * m + e + 1) * d <= (2 * qe) * d
  BY <1>6, Products
<1>8. 2 * (q * d) <= 2 * n + d
  BY <1>1
<1> DEFINE qd == q * d
<1>9. qd \in Int /\ 2 * qd <= 2 * n + d
  BY <1>1, <1>8
<1>10. (2 * qd) * e <= (2 * n + d) * e
  BY <1>9, Products
<1>11. qe * d = qd * e
  BY <1>1
<1> DEFINE x == qe * d
           md == m * d
           ne == n * e
           de == d * e
<1>12. x \in Int /\ md \in Int /\ ne \in Int /\ de \in Int
  BY <1>6
<1>13. 2 * md + de + d <= 2 * x
  BY <1>6, <1>7
<1>14. 2 * x <= 2 * ne + de
  BY <1>9, <1>10, <1>11
<1>15. ne <= md
  OBVIOUS
<1> HIDE DEF x, md, ne, de
<1> QED
  BY <1>12, <1>13, <1>14, <1>15

-----------------------------------------------------------------------------
Probability == 0..Unit

(* An edge is a share of what the estimate is above the price.              *)
LEMMA EdgeIs ==
    ASSUME NEW p \in Probability, NEW q \in Int
    PROVE  /\ Edge(p, q) = (100 - Config.marketWeight) * (p - q)
           /\ Edge(p, q) \in Int
           /\ Edge(p, q) <= Edge(p, q - 1)
<1> DEFINE w == Config.marketWeight
<1>1. w \in Int /\ 0 <= w /\ w <= 100 /\ p \in Int
  BY DecisionAssumption DEF Probability
<1> HIDE DEF w
<1>2. (100 - w) * p + w * q - 100 * q = (100 - w) * (p - q)
  BY <1>1
<1>3. (100 - w) * (p - q) \in Int
  BY <1>1
<1>4. (100 - w) * (p - q) <= (100 - w) * (p - (q - 1))
  BY <1>1
<1>5. (100 - w) * p + w * (q - 1) - 100 * (q - 1) = (100 - w) * (p - (q - 1))
  BY <1>1
<1>6. Edge(p, q) = (100 - w) * p + w * q - 100 * q
  BY <1>1 DEF Edge, Calibrated, w
<1>7. Edge(p, q - 1) = (100 - w) * p + w * (q - 1) - 100 * (q - 1)
  BY <1>1 DEF Edge, Calibrated, w
<1>8. Edge(p, q) = (100 - w) * (p - q)
  BY <1>2, <1>6
<1>9. Edge(p, q - 1) = (100 - w) * (p - (q - 1))
  BY <1>5, <1>7
<1> QED
  BY <1>3, <1>4, <1>8, <1>9 DEF w

LEMMA PositiveEdge ==
    ASSUME NEW p \in Probability, NEW q \in Int, Edge(p, q) > 0
    PROVE  q < p /\ q < Unit
<1> DEFINE v == 100 - Config.marketWeight
<1>1. v \in Nat /\ p \in Int /\ p <= Unit /\ Unit \in Nat
  BY DecisionAssumption DEF Probability
<1>2. v * (p - q) > 0
  BY EdgeIs
<1> HIDE DEF v
<1>3. p - q > 0
  BY <1>1, <1>2
<1> QED
  BY <1>1, <1>3

(* The stake grows as the price falls: the odds improve faster than the     *)
(* share of the bankroll shrinks.                                           *)
Stake(edge, price) ==
    Rounded(edge * Config.bankroll, 100 * Config.kellyDivisor * (Unit - price))

Cap == Rounded(Config.bankroll * Config.maxFraction, 100)

LEMMA CapIs ==
    Cap \in Nat \ {0} /\ 100 * Cap = Config.bankroll * Config.maxFraction
<1>1. PICK c \in 1..Config.bankroll : Config.bankroll * Config.maxFraction = 100 * c
  BY DecisionAssumption
<1>2. c \in Nat \ {0}
  BY <1>1, DecisionAssumption
<1>3. (2 * (100 * c) + 100) \div (2 * 100) = c
  BY <1>2
<1> QED
  BY <1>1, <1>2, <1>3 DEF Cap, Rounded

LEMMA StakeIs ==
    ASSUME NEW edge \in Nat, NEW price \in Int, price < Unit
    PROVE  /\ edge * Config.bankroll \in Nat
           /\ 100 * Config.kellyDivisor * (Unit - price) \in Nat \ {0}
           /\ Stake(edge, price) \in Nat
<1> DEFINE b == Config.bankroll
           d == Config.kellyDivisor
           u == Unit - price
           e == 100 * d * u
<1>1. b \in Nat /\ d \in Nat \ {0} /\ u \in Nat \ {0}
  BY DecisionAssumption
<1> HIDE DEF b, d, u
<1>2. edge * b \in Nat
  BY <1>1
<1>3. d * u \in Nat \ {0}
  BY <1>1
<1>4. e \in Nat \ {0}
  <2> DEFINE du == d * u
  <2>1. 100 * d * u = 100 * du
    BY <1>1
  <2> HIDE DEF du
  <2> QED
    BY <1>3, <2>1 DEF du
<1> DEFINE n == edge * b
<1> HIDE DEF n, e
<1>5. (2 * n + e) \div (2 * e) \in Nat
  <2>1. 2 * n + e \in Nat /\ 2 * e \in Nat \ {0}
    BY <1>2, <1>4 DEF n
  <2> QED
    BY <2>1
<1> QED
  BY <1>2, <1>4, <1>5 DEF Stake, Rounded, n, e, b, d, u

LEMMA SizeIs ==
    ASSUME NEW edge \in Nat, NEW price \in Int, price < Unit
    PROVE  /\ Size(edge, price) \in Nat
           /\ Size(edge, price) = (IF Stake(edge, price) <= Cap THEN Stake(edge, price) ELSE Cap)
<1> DEFINE s == Stake(edge, price)
<1>1. s \in Int /\ Cap \in Int /\ s >= 0 /\ Cap >= 0
  BY StakeIs, CapIs
<1>2. Size(edge, price) = Min({s, Cap})
  BY DecisionAssumption DEF Size, Stake, Cap
<1> HIDE DEF s
<1>3. Min({s, Cap}) = (IF s <= Cap THEN s ELSE Cap)
  BY <1>1 DEF Min
<1> QED
  BY <1>1, <1>2, <1>3 DEF s

LEMMA CheaperStake ==
    ASSUME NEW p \in Probability, NEW q \in Int, q > 0, Edge(p, q) >= 0, q < Unit
    PROVE  Stake(Edge(p, q), q) <= Stake(Edge(p, q - 1), q - 1)
<1> DEFINE v == 100 - Config.marketWeight
           b == Config.bankroll
           k == 100 * Config.kellyDivisor
           x == p - q
           u == Unit - q
           edge == Edge(p, q)
           more == Edge(p, q - 1)
<1>1. /\ v \in Nat /\ b \in Nat /\ k \in Nat \ {0} /\ x \in Int /\ u \in Nat \ {0}
      /\ x <= u
  BY DecisionAssumption DEF Probability
<1>2. /\ edge = v * x /\ edge \in Nat
  BY EdgeIs
<1>3. /\ more = v * (x + 1) /\ more \in Nat
  <2>1. Edge(p, q - 1) = (100 - Config.marketWeight) * (p - (q - 1)) /\ Edge(p, q - 1) \in Int
    BY EdgeIs
  <2>2. p - (q - 1) = x + 1
    BY DEF Probability
  <2> QED
    BY <1>2, <2>1, <2>2, EdgeIs
<1>4. /\ edge * b \in Nat /\ more * b \in Nat
      /\ k * u \in Nat \ {0} /\ k * (u + 1) \in Nat \ {0}
      /\ Stake(edge, q) = Rounded(edge * b, k * u)
      /\ Stake(more, q - 1) = Rounded(more * b, k * (u + 1))
  <2>1. Unit - (q - 1) = u + 1 /\ q - 1 < Unit
    BY DecisionAssumption
  <2>2. /\ edge * b \in Nat /\ k * u \in Nat \ {0}
    BY <1>2, StakeIs
  <2>3. /\ more * b \in Nat /\ k * (u + 1) \in Nat \ {0}
    <3> HIDE DEF more, k, u, b
    <3> QED
      BY <1>1, <1>3
  <2> QED
    BY <2>1, <2>2, <2>3 DEF Stake
<1> HIDE DEF v, b, k, x, u, edge, more
<1>5. edge * (u + 1) <= more * u
  <2>1. v * x <= v * u
    BY <1>1
  <2>2. (v * x) * (u + 1) = (v * x) * u + v * x
    BY <1>1
  <2>3. (v * (x + 1)) * u = (v * x) * u + v * u
    BY <1>1
  <2>4. (v * x) * u \in Int /\ v * x \in Int /\ v * u \in Int
    BY <1>1
  <2> DEFINE a == (v * x) * u
             c == v * x
             d == v * u
  <2> HIDE DEF a, c, d
  <2>5. a + c <= a + d
    BY <2>1, <2>4 DEF a, c, d
  <2>6. edge * (u + 1) = a + c /\ more * u = a + d
    BY <1>2, <1>3, <2>2, <2>3 DEF a, c, d
  <2> QED
    BY <2>5, <2>6
<1>6. (edge * b) * (k * (u + 1)) <= (more * b) * (k * u)
  <2> DEFINE s == b * k
             l == edge * (u + 1)
             m == more * u
  <2>1. s \in Nat /\ l \in Int /\ m \in Int
    BY <1>1, <1>2, <1>3
  <2>2. (edge * b) * (k * (u + 1)) = l * s
    BY <1>1, <1>2
  <2>3. (more * b) * (k * u) = m * s
    BY <1>1, <1>3
  <2>4. l <= m
    BY <1>5
  <2> HIDE DEF s, l, m
  <2> QED
    BY <2>1, <2>2, <2>3, <2>4, Products
<1> DEFINE n1 == edge * b
           d1 == k * u
           n2 == more * b
           d2 == k * (u + 1)
<1>7. n1 \in Nat /\ n2 \in Nat /\ d1 \in Nat \ {0} /\ d2 \in Nat \ {0} /\ n1 * d2 <= n2 * d1
  BY <1>4, <1>6
<1>8. Stake(edge, q) = Rounded(n1, d1) /\ Stake(more, q - 1) = Rounded(n2, d2)
  BY <1>4
<1> HIDE DEF n1, n2, d1, d2
<1>9. Stake(edge, q) <= Stake(more, q - 1)
  BY <1>7, <1>8, RoundedGrows
<1> QED
  BY <1>9 DEF edge, more

LEMMA FloorIs ==
    /\ 100 * Config.edgeFloor \in Nat \ {0}
    /\ Unit \in Nat \ {0}
BY DecisionAssumption

(* Which decision it is.                                                    *)
LEMMA DecideIs ==
    ASSUME NEW p \in Probability, NEW q \in Int, NEW direction, NEW l, NEW s, NEW days, NEW d,
           d = Decide(Signal(direction, p), q, l, s, days)
    PROVE  /\ d.action = "buy" <=>
                 /\ direction # "none" /\ Edge(p, q) >= 100 * Config.edgeFloor
                 /\ ~Gated(l, s) /\ ApyReaches(Edge(p, q), q, days) /\ Size(Edge(p, q), q) > 0
           /\ d.action = "sell" <=> direction # "none" /\ Edge(p, q) <= -(100 * Config.edgeFloor)
           /\ d.size = (IF d.action = "buy" THEN Size(Edge(p, q), q) ELSE 0)
           /\ d = Decision(d.action, d.size) /\ d.action \in {"buy", "sell", "hold"}
<1> DEFINE e == Edge(p, q)
           f == 100 * Config.edgeFloor
           size == Size(e, q)
           none == direction = "none"
           sell == ~none /\ e <= -f
           buy == ~none /\ e >= f /\ ~Gated(l, s) /\ ApyReaches(e, q, days) /\ size > 0
<1>1. e \in Int /\ f \in Int /\ f > 0
  BY EdgeIs, FloorIs
<1>2. d = CASE none -> Decision("hold", 0)
            [] sell -> Decision("sell", 0)
            [] buy -> Decision("buy", size)
            [] OTHER -> Decision("hold", 0)
  BY DEF Decide, Signal
<1>3. ~(sell /\ buy) /\ ~(none /\ sell) /\ ~(none /\ buy)
  <2> HIDE DEF e, f, size
  <2> QED
    BY <1>1
<1> HIDE DEF e, f, size, none, sell, buy
<1>4. CASE none
  <2>1. d = Decision("hold", 0) /\ ~sell /\ ~buy
    BY <1>2, <1>3, <1>4
  <2> QED
    BY <2>1 DEF Decision, e, f, size, none, sell, buy
<1>5. CASE sell
  <2>1. d = Decision("sell", 0) /\ ~none /\ ~buy
    BY <1>2, <1>3, <1>5
  <2> QED
    BY <1>5, <2>1 DEF Decision, e, f, size, none, sell, buy
<1>6. CASE buy
  <2>1. d = Decision("buy", size) /\ ~none /\ ~sell
    BY <1>2, <1>3, <1>6
  <2> QED
    BY <1>6, <2>1 DEF Decision, e, f, size, none, sell, buy
<1>7. CASE ~none /\ ~sell /\ ~buy
  <2>1. d = Decision("hold", 0)
    BY <1>2, <1>7
  <2> QED
    BY <1>7, <2>1 DEF Decision, e, f, size, none, sell, buy
<1> QED
  BY <1>4, <1>5, <1>6, <1>7

HalfDays(days) == Max({2 * days, 1})

LEMMA HalfDaysAre ==
    ASSUME NEW days \in Int
    PROVE  HalfDays(days) \in Nat /\ (days <= 30 => HalfDays(days) <= 60)
<1>1. 2 * days \in Int
  OBVIOUS
<1>2. Max({2 * days, 1}) = (IF 2 * days >= 1 THEN 2 * days ELSE 1)
  BY <1>1 DEF Max
<1> QED
  BY <1>2 DEF HalfDays

(* A larger edge at a lower price reaches the APY if the smaller does.      *)
LEMMA ApyGrows ==
    ASSUME NEW e \in Int, NEW more \in Int, NEW q \in Nat, NEW less \in Nat \ {0}, NEW days \in Int,
           e <= more, less <= q, ApyReaches(e, q, days)
    PROVE  ApyReaches(more, less, days)
<1> DEFINE a == Config.minApy
           h == HalfDays(days)
           c == 100 * h
<1>1. a \in Nat /\ h \in Nat
  BY DecisionAssumption, HalfDaysAre
<1>2. 2 * e * 36500 >= a * q * 100 * h
  BY DEF ApyReaches, HalfDays
<1> HIDE DEF a, h
<1>3. a * less <= a * q /\ a * less \in Int /\ a * q \in Int
  BY <1>1
<1>4. a * less * 100 * h <= a * q * 100 * h
  <2> DEFINE x == a * less
             y == a * q
  <2>1. x \in Int /\ y \in Int /\ x <= y
    BY <1>3
  <2> HIDE DEF x, y
  <2>2. x * 100 <= y * 100 /\ x * 100 \in Int /\ y * 100 \in Int
    BY <2>1
  <2>3. x * 100 * h <= y * 100 * h
    BY <1>1, <2>2, Products
  <2> QED
    BY <2>3 DEF x, y
<1>5. a * less * 100 * h \in Int /\ a * q * 100 * h \in Int
  <2> DEFINE x == a * less
             y == a * q
  <2>1. x \in Int /\ y \in Int
    BY <1>3
  <2> HIDE DEF x, y
  <2>2. x * 100 * h \in Int /\ y * 100 * h \in Int
    BY <1>1, <2>1
  <2> QED
    BY <2>2 DEF x, y
<1> DEFINE lo == a * less * 100 * h
           hi == a * q * 100 * h
<1> HIDE DEF lo, hi
<1>6. lo \in Int /\ hi \in Int /\ lo <= hi /\ 2 * e * 36500 >= hi
  BY <1>2, <1>4, <1>5 DEF lo, hi
<1>7. 2 * more * 36500 >= lo
  BY <1>6
<1> QED
  BY <1>7 DEF ApyReaches, lo, a, h, HalfDays

(* An edge at the floor reaches the APY over a month.                       *)
LEMMA MonthIsEnough ==
    ASSUME NEW e \in Int, NEW q \in Int, NEW days \in Int, days <= 30,
           e >= 100 * Config.edgeFloor, q <= Unit, q = 0 => Config.minApy = 0
    PROVE  ApyReaches(e, q, days)
<1> DEFINE a == Config.minApy
           h == HalfDays(days)
           f == 100 * Config.edgeFloor
           u == Unit
<1>1. /\ a \in Nat /\ h \in Nat /\ h <= 60 /\ f \in Nat /\ u \in Nat
      /\ 2 * f * 36500 >= a * u * 100 * 60
  BY DecisionAssumption, HalfDaysAre
<1>2. e >= f /\ q <= u
  OBVIOUS
<1> HIDE DEF a, h, f, u
<1>3. a * q <= a * u /\ a * q \in Int /\ a * u \in Int /\ a * u >= 0
  BY <1>1, <1>2
<1> DEFINE x == a * q
           y == a * u
<1>4. x \in Int /\ y \in Int /\ x <= y /\ y >= 0 /\ 2 * f * 36500 >= y * 100 * 60
  BY <1>1, <1>3
<1> HIDE DEF x, y
<1>5. x * 100 * h <= y * 100 * 60 /\ x * 100 * h \in Int
  <2>1. x * 100 \in Int /\ y * 100 \in Int /\ x * 100 <= y * 100 /\ y * 100 >= 0
    BY <1>4
  <2> DEFINE xx == x * 100
             yy == y * 100
  <2>2. xx \in Int /\ yy \in Int /\ xx <= yy /\ yy >= 0
    BY <2>1
  <2> HIDE DEF xx, yy
  <2>3. xx * h <= yy * h /\ xx * h \in Int /\ yy * h \in Int
    BY <1>1, <2>2, Products
  <2>4. yy * h <= yy * 60
    BY <1>1, <2>2
  <2>5. yy * 60 \in Int
    BY <2>2
  <2>6. xx * h <= yy * 60
    BY <2>3, <2>4, <2>5
  <2> QED
    BY <2>3, <2>6 DEF xx, yy
<1>6. 2 * e * 36500 >= x * 100 * h
  <2> DEFINE z == x * 100 * h
             t == y * 100 * 60
  <2>1. z \in Int /\ t \in Int /\ z <= t /\ 2 * f * 36500 >= t
    BY <1>4, <1>5
  <2> HIDE DEF z, t
  <2>2. 2 * e * 36500 >= z
    BY <1>1, <1>2, <2>1
  <2> QED
    BY <2>2 DEF z
<1> QED
  BY <1>6 DEF ApyReaches, HalfDays, a, h, x

LEMMA BetterPriceTaken ==
    ASSUME NEW p \in Probability, NEW q \in 0..Unit, q > 1, NEW direction, NEW l, NEW s,
           NEW days \in Int, NEW d, NEW c,
           d = Decide(Signal(direction, p), q, l, s, days), d.action = "buy",
           c = Decide(Signal(direction, p), q - 1, l, s, days)
    PROVE  c.action = "buy" /\ c.size >= d.size
<1> DEFINE e == Edge(p, q)
           more == Edge(p, q - 1)
           f == 100 * Config.edgeFloor
<1>1. q \in Int /\ q \in Nat /\ q - 1 \in Int /\ q - 1 \in Nat \ {0} /\ q - 1 <= q
  BY FloorIs
<1>2. /\ direction # "none" /\ e >= f /\ ~Gated(l, s)
      /\ ApyReaches(e, q, days) /\ Size(e, q) > 0 /\ d.size = Size(e, q)
  BY <1>1, DecideIs
<1>3. e \in Int /\ more \in Int /\ e <= more /\ f \in Nat \ {0}
  BY <1>1, EdgeIs, FloorIs
<1>4. e \in Nat /\ more \in Nat /\ more >= f /\ e > 0
  BY <1>2, <1>3
<1>5. q < Unit
  BY <1>1, <1>4, PositiveEdge
<1>6. q - 1 < Unit /\ q > 0
  BY <1>1, <1>5, FloorIs
<1>7. ApyReaches(more, q - 1, days)
  <2> HIDE DEF e, more
  <2> QED
    BY <1>1, <1>2, <1>3, ApyGrows
<1>8. Stake(e, q) <= Stake(more, q - 1)
  BY <1>1, <1>4, <1>5, <1>6, CheaperStake
<1>9. /\ Size(e, q) \in Nat /\ Size(more, q - 1) \in Nat
      /\ Stake(e, q) \in Nat /\ Stake(more, q - 1) \in Nat /\ Cap \in Nat
      /\ Size(e, q) = (IF Stake(e, q) <= Cap THEN Stake(e, q) ELSE Cap)
      /\ Size(more, q - 1) = (IF Stake(more, q - 1) <= Cap THEN Stake(more, q - 1) ELSE Cap)
  <2> HIDE DEF e, more
  <2> QED
    BY ZenonT(40), <1>1, <1>4, <1>5, <1>6, SizeIs, StakeIs, CapIs
<1>10. Size(more, q - 1) >= Size(e, q)
  <2> DEFINE x == Stake(e, q)
             y == Stake(more, q - 1)
  <2>1. x \in Nat /\ y \in Nat /\ x <= y /\ Cap \in Nat
    BY <1>8, <1>9
  <2>2. Size(e, q) = (IF x <= Cap THEN x ELSE Cap) /\ Size(more, q - 1) = (IF y <= Cap THEN y ELSE Cap)
    BY <1>9
  <2> HIDE DEF x, y, e, more
  <2> QED
    BY <2>1, <2>2
<1>11. Size(more, q - 1) > 0
  BY <1>2, <1>9, <1>10
<1> HIDE DEF e, f
<1>12. c.action = "buy" /\ c.size = Size(more, q - 1)
  BY <1>1, <1>2, <1>4, <1>7, <1>11, DecideIs DEF f
<1> QED
  BY <1>2, <1>9, <1>10, <1>12

LEMMA WorsePriceSold ==
    ASSUME NEW p \in Probability, NEW q \in Nat, NEW direction, NEW l, NEW s,
           NEW days, NEW d, NEW c,
           d = Decide(Signal(direction, p), q, l, s, days), d.action = "sell",
           c = Decide(Signal(direction, p), q + 1, l, s, days)
    PROVE  c.action = "sell"
<1>1. q \in Int /\ q + 1 \in Int /\ (q + 1) - 1 = q
  OBVIOUS
<1>2. direction # "none" /\ Edge(p, q) <= -(100 * Config.edgeFloor)
  BY <1>1, DecideIs
<1>3. Edge(p, q) \in Int /\ Edge(p, q + 1) \in Int /\ Edge(p, q + 1) <= Edge(p, q)
  <2>1. Edge(p, q + 1) <= Edge(p, (q + 1) - 1)
    BY <1>1, EdgeIs
  <2> QED
    BY <1>1, <2>1, EdgeIs
<1>4. Edge(p, q + 1) <= -(100 * Config.edgeFloor)
  BY <1>2, <1>3, FloorIs
<1> QED
  BY <1>1, <1>2, <1>4, DecideIs

(* The check recomputes the edge and the size that decide() had.            *)
LEMMA CheckPasses ==
    ASSUME NEW p \in Probability, NEW q \in Nat, NEW direction, NEW l, NEW s,
           NEW days, NEW d, d = Decide(Signal(direction, p), q, l, s, days)
    PROVE  VerifyTradeMath(Calibrated(p, q), q, d.size, days)
<1> DEFINE e == Edge(p, q)
           size == Size(e, q)
<1>1. q \in Int
  OBVIOUS
<1>2. CASE d.action # "buy"
  <2>1. d.size = 0
    BY <1>1, <1>2, DecideIs
  <2>2. 100 * 0 <= Config.bankroll * Config.maxFraction
    BY CapIs
  <2>3. ~(0 > 0)
    OBVIOUS
  <2>4. VerifyTradeMath(Calibrated(p, q), q, 0, days)
    BY <2>2, <2>3 DEF VerifyTradeMath
  <2> QED
    BY <2>1, <2>4
<1>3. CASE d.action = "buy"
  <2>1. d.size = size /\ size > 0 /\ e >= 100 * Config.edgeFloor /\ ApyReaches(e, q, days)
    BY <1>1, <1>3, DecideIs
  <2> DEFINE f == 100 * Config.edgeFloor
  <2>a. e \in Int /\ f \in Nat \ {0} /\ e >= f
    BY <1>1, <2>1, EdgeIs, FloorIs
  <2>2. e \in Int /\ e > 0
    <3> HIDE DEF e, f
    <3> QED
      BY <2>a
  <2>3. q < Unit
    BY <1>1, <2>2, PositiveEdge
  <2> HIDE DEF e
  <2>4. size \in Nat /\ size <= Cap
    <3>1. e \in Nat
      BY <2>2
    <3>2. Stake(e, q) \in Nat /\ Cap \in Nat
      BY <1>1, <2>3, <3>1, StakeIs, CapIs
    <3> QED
      BY <1>1, <2>3, <3>1, <3>2, SizeIs
  <2> HIDE DEF size
  <2>5. 100 * size <= Config.bankroll * Config.maxFraction
    <3>1. Cap \in Nat /\ 100 * Cap = Config.bankroll * Config.maxFraction
      BY CapIs
    <3> QED
      BY <2>4, <3>1
  <2>6. Distance(size, size) = 0 /\ Distance(e, 0) = e
    BY <2>2, <2>4 DEF Distance
  <2>7. 100 * 0 <= Max({5000, 2 * size})
    <3>1. 2 * size \in Nat
      BY <2>4
    <3>2. Max({5000, 2 * size}) = (IF 5000 >= 2 * size THEN 5000 ELSE 2 * size)
      BY <3>1 DEF Max
    <3> QED
      BY <3>1, <3>2
  <2> QED
    BY <2>1, <2>5, <2>6, <2>7 DEF VerifyTradeMath, Edge, e, size
<1> QED
  BY <1>2, <1>3

LEMMA CheckRefuses ==
    ASSUME NEW p \in Probability, NEW q \in Nat, NEW direction, NEW l, NEW s, NEW days \in Int,
           NEW d, d = Decide(Signal(direction, p), q, l, s, days),
           direction # "none", ~Gated(l, s),
           NEW stake \in Nat \ {0}, VerifyTradeMath(Calibrated(p, q), q, stake, days)
    PROVE  d.action = "buy"
<1> DEFINE e == Edge(p, q)
           f == 100 * Config.edgeFloor
<1>1. q \in Int /\ e \in Int /\ f \in Nat \ {0}
  BY EdgeIs, FloorIs
<1>2. Distance(e, 0) >= f /\ ApyReaches(e, q, days)
  <2>1. stake > 0
    OBVIOUS
  <2> QED
    BY <2>1 DEF VerifyTradeMath, Edge
<1> HIDE DEF e
<1>3. e >= 0
  <2> DEFINE a == Config.minApy
             h == HalfDays(days)
             x == a * q * 100 * h
  <2>1. a \in Nat /\ h \in Nat
    BY DecisionAssumption, HalfDaysAre
  <2>2. 2 * e * 36500 >= x
    BY <1>2 DEF ApyReaches, HalfDays
  <2> HIDE DEF a, h
  <2>3. x \in Nat
    <3> DEFINE y == a * q
    <3>1. y \in Nat
      BY <2>1
    <3> HIDE DEF y
    <3>2. y * 100 * h \in Nat
      BY <2>1, <3>1
    <3> QED
      BY <3>2 DEF y
  <2> HIDE DEF x
  <2> QED
    BY <1>1, <2>2, <2>3
<1>4. e >= f /\ e > 0 /\ e \in Nat
  BY <1>1, <1>2, <1>3 DEF Distance
<1>5. q < Unit
  BY <1>1, <1>4, PositiveEdge DEF e
<1>6. Stake(e, q) > 0 /\ Stake(e, q) \in Nat
  <2> DEFINE n == e * Config.bankroll
             k == 100 * Config.kellyDivisor * (Unit - q)
  <2>1. n \in Nat /\ k \in Nat \ {0} /\ Stake(e, q) \in Nat /\ Stake(e, q) = Rounded(n, k)
    BY <1>1, <1>4, <1>5, StakeIs DEF Stake
  <2>2. 2 * n >= k
    <3> DEFINE b == Config.bankroll
               g == Config.edgeFloor
               kd == Config.kellyDivisor
               u == Unit
    <3>1. b \in Nat /\ g \in Nat /\ kd \in Nat /\ u \in Nat /\ 2 * g * b >= kd * u
      BY DecisionAssumption
    <3> HIDE DEF b, g, kd, u, n, k
    <3>2. e >= 100 * g
      BY <1>4 DEF g
    <3>3. (100 * g) * b <= e * b /\ (100 * g) * b \in Int /\ e * b \in Int
      BY <1>1, <3>1, <3>2, Products
    <3>4. (u - q) * kd <= u * kd /\ (u - q) * kd \in Int /\ u * kd \in Int
      BY <1>1, <3>1, Products
    <3>5. n = e * b /\ k = 100 * ((u - q) * kd)
      BY <1>1, <3>1 DEF n, k, b, kd, u
    <3>6. (100 * g) * b = 100 * (g * b) /\ 2 * g * b = 2 * (g * b) /\ g * b \in Int /\ kd * u = u * kd
      BY <3>1
    <3> DEFINE x == g * b
               y == u * kd
               z == (u - q) * kd
    <3>7. /\ x \in Int /\ y \in Int /\ z \in Int /\ 2 * x >= y /\ z <= y
          /\ 100 * x <= n /\ k = 100 * z /\ n \in Int
      BY <3>1, <3>3, <3>4, <3>5, <3>6
    <3> HIDE DEF x, y, z
    <3> QED
      BY <3>7
  <2> HIDE DEF n, k
  <2>3. (2 * n + k) \div (2 * k) >= 1
    BY <2>1, <2>2
  <2> QED
    BY <2>1, <2>3 DEF Rounded
<1>7. Size(e, q) > 0
  <2>1. Cap \in Nat \ {0}
    BY CapIs
  <2>2. Size(e, q) = (IF Stake(e, q) <= Cap THEN Stake(e, q) ELSE Cap)
    BY <1>1, <1>4, <1>5, SizeIs
  <2> QED
    BY <1>6, <2>1, <2>2
<1> QED
  BY <1>1, <1>2, <1>4, <1>7, DecideIs DEF e

-----------------------------------------------------------------------------
(* A set of numbers with zero and with the successor of each member has     *)
(* them all.                                                                *)
LEMMA Inductive ==
    ASSUME NEW S, 0 \in S, \A n \in Nat : n \in S => n + 1 \in S
    PROVE  Nat \subseteq S
<1> SUFFICES ASSUME NEW m \in Nat, m \notin S PROVE FALSE
  OBVIOUS
<1> DEFINE T == {n \in Nat : n \notin S}
           below == {p \in Nat \X Nat : p[1] < p[2]}
<1>1. IsWellFoundedOn(below, Nat)
  BY NatLessThanWellFounded DEF OpToRel
<1>2. T \subseteq Nat /\ m \in T
  OBVIOUS
<1> HIDE DEF below, T
<1>3. PICK n \in T : \A k \in T : <<k, n>> \notin below
  BY <1>1, <1>2, WFMin
<1>4. n \in Nat /\ n # 0 /\ n \notin S /\ n - 1 \in Nat /\ (n - 1) + 1 = n
  BY <1>2 DEF T
<1>5. <<n - 1, n>> \in below
  BY <1>4 DEF below
<1>6. n - 1 \in S
  BY <1>3, <1>4, <1>5 DEF T
<1> QED
  BY <1>4, <1>6

-----------------------------------------------------------------------------
(* What the loop has kept after the k-th market.                            *)
Taken(markets, request, f, k) ==
    IF k = 0 THEN <<>>
    ELSE LET m == markets[k]
         IN IF /\ Len(f[k - 1]) < request.limit
               /\ Readable(m, request) /\ ~m.raises
               /\ Wanted(Opportunity(m), request)
            THEN Append(f[k - 1], m) ELSE f[k - 1]

LEMMA LoopExists ==
    ASSUME NEW markets, NEW request, NEW n \in Nat
    PROVE  \E f : f = [k \in 0..n |-> Taken(markets, request, f, k)]
<1> DEFINE S == {l \in Nat : \E f : f = [k \in 0..l |-> Taken(markets, request, f, k)]}
<1>1. 0 \in S
  <2> DEFINE f == [k \in 0..0 |-> <<>>]
  <2>1. f = [k \in 0..0 |-> Taken(markets, request, f, k)]
    BY DEF Taken
  <2> QED
    BY <2>1
<1>2. ASSUME NEW l \in Nat, l \in S PROVE l + 1 \in S
  <2>1. PICK g : g = [k \in 0..l |-> Taken(markets, request, g, k)]
    BY <1>2
  <2> DEFINE f == [k \in 0..(l + 1) |-> IF k \in 0..l THEN g[k] ELSE Taken(markets, request, g, k)]
  <2>2. \A k \in 0..l : f[k] = g[k]
    OBVIOUS
  <2>3. \A k \in 0..(l + 1) : Taken(markets, request, f, k) = Taken(markets, request, g, k)
    <3> TAKE k \in 0..(l + 1)
    <3>1. k = 0 \/ f[k - 1] = g[k - 1]
      BY <2>2
    <3> HIDE DEF f
    <3> QED
      BY <3>1 DEF Taken
  <2>4. \A k \in 0..l : g[k] = Taken(markets, request, g, k)
    BY <2>1
  <2>5. \A k \in 0..(l + 1) : f[k] = Taken(markets, request, f, k)
    <3>1. \A k \in 0..(l + 1) : f[k] = Taken(markets, request, g, k)
      BY <2>4
    <3> HIDE DEF f
    <3> QED
      BY <2>3, <3>1
  <2>6. f = [k \in 0..(l + 1) |-> f[k]]
    OBVIOUS
  <2> HIDE DEF f
  <2>7. f = [k \in 0..(l + 1) |-> Taken(markets, request, f, k)]
    BY <2>5, <2>6
  <2> QED
    BY <2>7
<1> HIDE DEF S
<1>3. n \in S
  BY <1>1, <1>2, Inductive
<1> QED
  BY <1>3 DEF S

(* Whether a market is one that the loop of scan() keeps.                   *)
Counted(m, request) == Readable(m, request) /\ ~m.raises /\ Wanted(Opportunity(m), request)

LEMMA ToSetAppend ==
    ASSUME NEW X, NEW s \in Seq(X), NEW x \in X
    PROVE  ToSet(Append(s, x)) = ToSet(s) \cup {x}
<1> DEFINE t == Append(s, x)
<1>1. /\ t \in Seq(X) /\ Len(t) = Len(s) + 1 /\ t[Len(s) + 1] = x
      /\ \A i \in 1..Len(s) : t[i] = s[i]
  BY AppendProperties
<1>2. Len(s) \in Nat /\ DOMAIN s = 1..Len(s) /\ DOMAIN t = 1..(Len(s) + 1)
  BY <1>1, LenProperties
<1> HIDE DEF t
<1>3. ToSet(t) = {t[i] : i \in 1..(Len(s) + 1)} /\ ToSet(s) = {s[i] : i \in 1..Len(s)}
  BY <1>2 DEF ToSet
<1>4. \A i \in 1..(Len(s) + 1) : i \in 1..Len(s) \/ i = Len(s) + 1
  BY <1>2
<1>5. ToSet(t) \subseteq ToSet(s) \cup {x}
  BY <1>1, <1>3, <1>4
<1>6. Len(s) + 1 \in 1..(Len(s) + 1) /\ \A i \in 1..Len(s) : i \in 1..(Len(s) + 1)
  BY <1>2
<1>7. ToSet(s) \cup {x} \subseteq ToSet(t)
  BY <1>1, <1>3, <1>6
<1> QED
  BY <1>5, <1>7 DEF t

(* What the loop has kept after each market.                                *)
LoopOf(kept, markets, request) ==
    /\ Keep(markets, request) = kept[Len(markets)]
    /\ kept[0] = <<>>
    /\ \A k \in 1..Len(markets) :
          kept[k] = IF Len(kept[k - 1]) < request.limit /\ Counted(markets[k], request)
                    THEN Append(kept[k - 1], markets[k]) ELSE kept[k - 1]

LEMMA Keeping ==
    ASSUME NEW X, NEW markets \in Seq(X), NEW request
    PROVE  \E kept \in [0..Len(markets) -> Seq(X)] : LoopOf(kept, markets, request)
<1> DEFINE n == Len(markets)
           kept == CHOOSE f : f = [k \in 0..n |-> Taken(markets, request, f, k)]
           S == {k \in Nat : k > n \/ kept[k] \in Seq(X)}
<1>1. Keep(markets, request) = kept[n]
  BY DEF Keep, Taken
<1>2. n \in Nat
  OBVIOUS
<1>3. kept = [k \in 0..n |-> Taken(markets, request, kept, k)]
  <2> HIDE DEF n
  <2> QED
    BY <1>2, LoopExists
<1> HIDE DEF kept
<1>4. \A k \in 0..n : kept[k] = Taken(markets, request, kept, k)
  BY <1>3
<1>5. kept[0] = <<>>
  <2>1. kept[0] = Taken(markets, request, kept, 0)
    BY <1>2, <1>4
  <2> QED
    BY <2>1 DEF Taken
<1>6. 0 \in S
  <2>1. <<>> \in Seq(X)
    OBVIOUS
  <2> QED
    BY <1>5, <2>1
<1>7. ASSUME NEW k \in 1..n
      PROVE  kept[k] = IF Len(kept[k - 1]) < request.limit /\ Counted(markets[k], request)
                       THEN Append(kept[k - 1], markets[k]) ELSE kept[k - 1]
  <2>1. kept[k] = Taken(markets, request, kept, k) /\ k # 0
    BY <1>2, <1>4
  <2> QED
    BY <2>1 DEF Taken, Counted
<1>8. ASSUME NEW k \in Nat, k \in S PROVE k + 1 \in S
  <2> SUFFICES ASSUME k + 1 <= n PROVE kept[k + 1] \in Seq(X)
    BY <1>2
  <2>1. kept[k] \in Seq(X) /\ markets[k + 1] \in X /\ (k + 1) - 1 = k /\ k + 1 \in 1..n
    BY <1>2, <1>8
  <2>2. kept[k + 1] = kept[k] \/ kept[k + 1] = Append(kept[k], markets[k + 1])
    BY <1>7, <2>1
  <2> DEFINE m == markets[k + 1]
             s == kept[k]
  <2> HIDE DEF m, s
  <2>3. Append(s, m) \in Seq(X)
    BY <2>1 DEF m, s
  <2> QED
    BY <2>1, <2>2, <2>3 DEF m, s
<1> HIDE DEF S
<1>9. \A k \in 0..n : kept[k] \in Seq(X)
  <2>1. Nat \subseteq S
    BY <1>6, <1>8, Inductive
  <2> QED
    BY <1>2, <2>1 DEF S
<1>10. DOMAIN kept = 0..n /\ kept = [k \in 0..n |-> kept[k]]
  BY <1>3
<1>11. kept \in [0..n -> Seq(X)]
  BY <1>9, <1>10
<1>12. LoopOf(kept, markets, request)
  BY <1>1, <1>5, <1>7 DEF LoopOf
<1> QED
  BY <1>11, <1>12

LEMMA CountsFinite ==
    ASSUME NEW n \in Nat, NEW C
    PROVE  LET S == {i \in 1..n : i \in C}
           IN IsFiniteSet(S) /\ Cardinality(S) \in Nat
<1>1. IsFiniteSet(1..n)
  BY FS_Interval
<1>2. {i \in 1..n : i \in C} \in SUBSET (1..n)
  OBVIOUS
<1> QED
  BY <1>1, <1>2, FS_Subset, FS_CardinalityType

(* A market that is wanted is missing only if the limit was reached before  *)
(* it.                                                                      *)
LEMMA NoneMissed ==
    ASSUME NEW X, NEW markets \in Seq(X), NEW request, request.limit \in Nat,
           NEW k \in 1..Len(markets), Counted(markets[k], request),
           markets[k] \notin ToSet(Keep(markets, request))
    PROVE  Cardinality({i \in 1..(k - 1) : Counted(markets[i], request)}) >= request.limit
<1> DEFINE n == Len(markets)
           limit == request.limit
           C == {i \in 1..n : Counted(markets[i], request)}
           Upto(j) == {i \in 1..j : i \in C}
<1>1. n \in Nat /\ limit \in Nat
  OBVIOUS
<1>2. PICK kept \in [0..n -> Seq(X)] : LoopOf(kept, markets, request)
  BY Keeping
<1>3. \A j \in Nat : IsFiniteSet(Upto(j)) /\ Cardinality(Upto(j)) \in Nat
  BY CountsFinite
<1>4. ASSUME NEW j \in Nat, j + 1 <= n
      PROVE  /\ kept[j] \in Seq(X) /\ markets[j + 1] \in X
             /\ kept[j + 1] = IF Len(kept[j]) < limit /\ j + 1 \in C
                              THEN Append(kept[j], markets[j + 1]) ELSE kept[j]
  <2>1. j \in 0..n /\ j + 1 \in 1..n /\ (j + 1) - 1 = j
    BY <1>1, <1>4
  <2>2. kept[j] \in Seq(X) /\ markets[j + 1] \in X
    BY <1>2, <2>1
  <2>3. kept[j + 1] = IF Len(kept[j]) < limit /\ Counted(markets[j + 1], request)
                      THEN Append(kept[j], markets[j + 1]) ELSE kept[j]
    BY <1>2, <2>1 DEF LoopOf
  <2>4. j + 1 \in C <=> Counted(markets[j + 1], request)
    BY <2>1
  <2> HIDE DEF C
  <2> QED
    BY <2>2, <2>3, <2>4
<1>5. ASSUME NEW j \in Nat, j + 1 <= n
      PROVE  /\ Cardinality(Upto(j)) <= Cardinality(Upto(j + 1))
             /\ j + 1 \in C => Cardinality(Upto(j + 1)) = Cardinality(Upto(j)) + 1
  <2>1. Upto(j + 1) = IF j + 1 \in C THEN Upto(j) \cup {j + 1} ELSE Upto(j)
    <3>1. \A i : i \in 1..(j + 1) <=> i \in 1..j \/ i = j + 1
      OBVIOUS
    <3> HIDE DEF C
    <3> QED
      BY <3>1
  <2>2. j + 1 \notin Upto(j)
    OBVIOUS
  <2> HIDE DEF Upto, C
  <2>3. j + 1 \in C => Cardinality(Upto(j + 1)) = Cardinality(Upto(j)) + 1
    BY <1>3, <2>1, <2>2, FS_AddElement
  <2>4. Cardinality(Upto(j)) \in Nat
    BY <1>3
  <2>5. j + 1 \notin C => Upto(j + 1) = Upto(j)
    BY <2>1
  <2> QED
    BY <2>3, <2>4, <2>5
<1> HIDE DEF Upto, C
<1> DEFINE Good(j) ==
              /\ Len(kept[j]) <= Cardinality(Upto(j))
              /\ j >= k => \/ markets[k] \in ToSet(kept[j])
                           \/ Cardinality(Upto(k - 1)) >= limit
           S == {j \in Nat : j > n \/ Good(j)}
<1>6. 0 \in S
  <2>1. Len(kept[0]) = 0 /\ ~(0 >= k) /\ Cardinality(Upto(0)) \in Nat
    BY <1>2, <1>3 DEF LoopOf
  <2> QED
    BY <2>1
<1>7. ASSUME NEW j \in Nat, j \in S PROVE j + 1 \in S
  <2> SUFFICES ASSUME j + 1 <= n PROVE Good(j + 1)
    BY <1>1
  <2>1. Good(j)
    BY <1>1, <1>7
  <2> DEFINE m == markets[j + 1]
             s == kept[j]
             c == Cardinality(Upto(j))
             d == Cardinality(Upto(j + 1))
  <2>2. s \in Seq(X) /\ m \in X
    BY <1>4
  <2>3. kept[j + 1] = IF Len(s) < limit /\ j + 1 \in C THEN Append(s, m) ELSE s
    BY <1>4
  <2>4. c \in Nat /\ d \in Nat /\ c <= d /\ (j + 1 \in C => d = c + 1)
    <3>1. j + 1 \in Nat
      OBVIOUS
    <3>2. c \in Nat /\ d \in Nat
      BY <1>3, <3>1
    <3> QED
      BY <1>5, <3>2
  <2>5. Len(s) <= c
    BY <2>1
  <2>6. Len(Append(s, m)) = Len(s) + 1 /\ ToSet(Append(s, m)) = ToSet(s) \cup {m} /\ Len(s) \in Nat
    BY <2>2, AppendProperties, ToSetAppend, LenProperties
  <2>7. j >= k => markets[k] \in ToSet(s) \/ Cardinality(Upto(k - 1)) >= limit
    BY <2>1
  <2>8. k \in C
    BY DEF C
  <2>9. j + 1 = k => c = Cardinality(Upto(k - 1)) /\ m = markets[k]
    <3>1. j + 1 = k => j = k - 1
      OBVIOUS
    <3> QED
      BY <3>1
  <2> HIDE DEF m, s, c, d
  <2>10. Len(kept[j + 1]) <= d
    BY <2>3, <2>4, <2>5, <2>6
  <2>11. ToSet(s) \subseteq ToSet(kept[j + 1])
    BY <2>3, <2>6
  <2>12. CASE j + 1 = k
    <3>1. CASE Len(s) < limit
      <4>1. m \in ToSet(kept[j + 1])
        BY <2>3, <2>6, <2>8, <2>12, <3>1
      <4> QED
        BY <2>9, <2>10, <2>12, <4>1 DEF d
    <3>2. CASE ~(Len(s) < limit)
      <4>1. c >= limit
        BY <1>1, <2>4, <2>5, <2>6, <3>2
      <4> QED
        BY <2>9, <2>10, <2>12, <4>1 DEF d
    <3> QED
      BY <3>1, <3>2
  <2>13. CASE j + 1 # k
    <3>1. j + 1 >= k => j >= k
      BY <2>13
    <3> QED
      BY <2>7, <2>10, <2>11, <3>1 DEF d
  <2> QED
    BY <2>12, <2>13
<1>8. Good(n)
  <2> HIDE DEF Good
  <2>1. Nat \subseteq S
    <3> HIDE DEF S
    <3> QED
      BY <1>6, <1>7, Inductive
  <2> QED
    BY <1>1, <2>1
<1>9. Cardinality(Upto(k - 1)) >= limit
  BY <1>1, <1>2, <1>8 DEF LoopOf
<1>10. Upto(k - 1) = {i \in 1..(k - 1) : Counted(markets[i], request)}
  <2>1. \A i \in 1..(k - 1) : i \in 1..n
    BY <1>1
  <2> QED
    BY <2>1 DEF Upto, C
<1> QED
  BY <1>9, <1>10

(* Asking for one more loses no market.                                     *)
LEMMA MoreLosesNone ==
    ASSUME NEW X, NEW markets \in Seq(X), NEW request, NEW larger,
           request.limit \in Nat, larger.limit = request.limit + 1
    PROVE  (\A m : Counted(m, larger) <=> Counted(m, request)) =>
              ToSet(Keep(markets, request)) \subseteq ToSet(Keep(markets, larger))
<1> DEFINE n == Len(markets)
           limit == request.limit
<1>1. n \in Nat /\ limit \in Nat
  OBVIOUS
<1>2. PICK f \in [0..n -> Seq(X)] : LoopOf(f, markets, request)
  BY Keeping
<1>3. PICK g \in [0..n -> Seq(X)] : LoopOf(g, markets, larger)
  BY Keeping
<1> SUFFICES ASSUME \A m : Counted(m, larger) <=> Counted(m, request)
             PROVE  ToSet(Keep(markets, request)) \subseteq ToSet(Keep(markets, larger))
  OBVIOUS
<1> DEFINE Good(j) == \/ f[j] = g[j]
                      \/ Len(f[j]) >= limit /\ ToSet(f[j]) \subseteq ToSet(g[j])
           S == {j \in Nat : j > n \/ Good(j)}
<1>4. 0 \in S
  BY <1>2, <1>3 DEF LoopOf
<1>5. ASSUME NEW j \in Nat, j \in S PROVE j + 1 \in S
  <2> SUFFICES ASSUME j + 1 <= n PROVE Good(j + 1)
    BY <1>1
  <2>1. Good(j)
    BY <1>1, <1>5
  <2> DEFINE m == markets[j + 1]
             a == f[j]
             b == g[j]
             c == Counted(m, request)
  <2>2. /\ f[j + 1] = IF Len(a) < limit /\ c THEN Append(a, m) ELSE a
        /\ g[j + 1] = IF Len(b) < limit + 1 /\ c THEN Append(b, m) ELSE b
        /\ a \in Seq(X) /\ b \in Seq(X) /\ m \in X
    <3>1. j \in 0..n /\ j + 1 \in 1..n /\ (j + 1) - 1 = j
      BY <1>1
    <3>2. f[j] \in Seq(X) /\ g[j] \in Seq(X) /\ markets[j + 1] \in X
      <4>1. f[j] \in Seq(X)
        BY <1>2, <3>1
      <4>2. g[j] \in Seq(X)
        BY <1>3, <3>1
      <4>3. markets[j + 1] \in X
        BY <3>1, ElementOfSeq
      <4> QED
        BY <4>1, <4>2, <4>3
    <3>3. f[j + 1] = IF Len(f[j]) < limit /\ Counted(markets[j + 1], request)
                     THEN Append(f[j], markets[j + 1]) ELSE f[j]
      BY <1>2, <3>1 DEF LoopOf
    <3>4. g[j + 1] = IF Len(g[j]) < larger.limit /\ Counted(markets[j + 1], larger)
                     THEN Append(g[j], markets[j + 1]) ELSE g[j]
      BY <1>3, <3>1 DEF LoopOf
    <3>5. Counted(m, larger) <=> Counted(m, request)
      OBVIOUS
    <3> QED
      BY <3>2, <3>3, <3>4, <3>5
  <2>3. /\ Len(a) \in Nat /\ Len(b) \in Nat
        /\ ToSet(b) \subseteq ToSet(Append(b, m))
    BY <2>2, ToSetAppend, LenProperties
  <2>4. a = b \/ (Len(a) >= limit /\ ToSet(a) \subseteq ToSet(b))
    BY <2>1
  <2> HIDE DEF a, b, m, c
  <2>5. CASE a = b /\ Len(a) < limit
    BY <1>1, <2>2, <2>3, <2>5
  <2>6. CASE Len(a) >= limit
    <3>1. f[j + 1] = a
      BY <1>1, <2>2, <2>3, <2>6
    <3>2. ToSet(a) \subseteq ToSet(g[j + 1])
      BY <2>2, <2>3, <2>4
    <3> QED
      BY <2>6, <3>1, <3>2
  <2> QED
    BY <1>1, <2>3, <2>4, <2>5, <2>6
<1>6. Good(n)
  <2> HIDE DEF Good
  <2>1. Nat \subseteq S
    <3> HIDE DEF S
    <3> QED
      BY <1>4, <1>5, Inductive
  <2> QED
    BY <1>1, <2>1
<1> QED
  BY <1>2, <1>3, <1>6 DEF LoopOf

(* The loop keeps markets of the listing.                                   *)
LEMMA KeptAreListed ==
    ASSUME NEW X, NEW markets \in Seq(X), NEW request
    PROVE  Keep(markets, request) \in Seq(X)
<1>1. PICK kept \in [0..Len(markets) -> Seq(X)] : LoopOf(kept, markets, request)
  BY Keeping
<1>2. Len(markets) \in 0..Len(markets) /\ Keep(markets, request) = kept[Len(markets)]
  BY <1>1, LenProperties DEF LoopOf
<1> QED
  BY <1>1, <1>2

Levels == {None} \cup [bids : Seq(Int), asks : Seq(Int)]

(* What the monitor reads of a market.                                      *)
MarketTyped(m) ==
    /\ m.p \in Probability /\ m.price \in Int /\ m.days \in Int
    /\ m.venue.sdk \in Levels /\ m.venue.rest \in Levels

LEMMA MinExists ==
    ASSUME NEW S \in SUBSET Int, IsFiniteSet(S), S # {}
    PROVE  Min(S) \in S /\ \A x \in S : Min(S) <= x
<1> DEFINE order == {p \in Int \X Int : p[2] < p[1]}
           n == Cardinality(S)
<1>1. \A x, y \in S : <<x, y>> \in order <=> y < x
  OBVIOUS
<1> HIDE DEF order
<1>2. StrictlyOrders(order, S)
  BY <1>1 DEF StrictlyOrders
<1>3. n \in Nat /\ n # 0
  BY FS_CardinalityType, FS_EmptySet
<1>4. PICK k \in S : Cardinality(Ahead(order, S, k)) = n - 1
  <2>1. n - 1 \in 0..(Cardinality(S) - 1)
    BY <1>3
  <2> QED
    BY <1>2, <2>1, RankTaken
<1>5. Ahead(order, S, k) = S \ {k}
  <2>1. Ahead(order, S, k) \in SUBSET (S \ {k})
    BY <1>1 DEF Ahead
  <2>2. IsFiniteSet(S \ {k}) /\ Cardinality(S \ {k}) = n - 1
    BY FS_RemoveElement
  <2> QED
    BY <1>4, <2>1, <2>2, FS_Subset
<1>6. ASSUME NEW x \in S PROVE k <= x
  <2>1. CASE x = k
    BY <2>1
  <2>2. CASE x # k
    <3>1. x \in Ahead(order, S, k)
      BY <1>5, <2>2
    <3>2. k < x
      BY <1>1, <3>1 DEF Ahead
    <3> QED
      BY <3>2
  <2> QED
    BY <2>1, <2>2
<1> QED
  BY <1>6 DEF Min

LEMMA PricesAre ==
    ASSUME NEW s \in Seq(Int)
    PROVE  ToSet(s) \subseteq Int /\ IsFiniteSet(ToSet(s)) /\ (s # <<>> => ToSet(s) # {})
<1>1. Len(s) \in Nat /\ DOMAIN s = 1..Len(s) /\ IsFiniteSet(1..Len(s))
  BY FS_Interval
<1>2. ToSet(s) = {s[i] : i \in DOMAIN s} /\ ToSet(s) \subseteq Int
  BY DEF ToSet
<1>3. s \in Surjection(DOMAIN s, ToSet(s))
  BY <1>2 DEF Surjection
<1>4. IsFiniteSet(ToSet(s))
  BY <1>1, <1>3, FS_Surjection
<1>5. s # <<>> => ToSet(s) # {}
  <2>1. s # <<>> => 1 \in DOMAIN s
    BY <1>1
  <2> QED
    BY <1>2, <2>1
<1> QED
  BY <1>2, <1>4, <1>5

(* A book is there if one of the two answers.                               *)
LEMMA BookIs ==
    ASSUME NEW venue, venue.sdk \in Levels, venue.rest \in Levels
    PROVE  LET book == FetchOrderBook(venue)
           IN /\ book = None <=> ~Answers(venue.sdk) /\ ~Answers(venue.rest)
              /\ book # None => /\ book \in [bids : SUBSET Int, asks : SUBSET Int]
                                /\ IsFiniteSet(book.bids) /\ IsFiniteSet(book.asks)
<1> DEFINE book == FetchOrderBook(venue)
<1>1. ASSUME NEW l \in Levels, Answers(l)
      PROVE  /\ OrderBook(l) \in [bids : SUBSET Int, asks : SUBSET Int]
             /\ IsFiniteSet(OrderBook(l).bids) /\ IsFiniteSet(OrderBook(l).asks)
             /\ OrderBook(l) # None
  <2>1. l \in [bids : Seq(Int), asks : Seq(Int)]
    BY <1>1 DEF Levels, Answers
  <2>2. l.bids \in Seq(Int) /\ l.asks \in Seq(Int)
    BY <2>1
  <2>3. OrderBook(l) \in [bids : SUBSET Int, asks : SUBSET Int]
        /\ IsFiniteSet(OrderBook(l).bids) /\ IsFiniteSet(OrderBook(l).asks)
    BY <2>2, PricesAre DEF OrderBook
  <2> QED
    BY <2>3, NoneAssumption
<1>2. CASE Answers(venue.sdk)
  BY <1>1, <1>2 DEF FetchOrderBook
<1>3. CASE ~Answers(venue.sdk) /\ Answers(venue.rest)
  <2>1. book = OrderBook(venue.rest)
    BY <1>3 DEF FetchOrderBook
  <2> QED
    BY <1>1, <1>3, <2>1
<1>4. CASE ~Answers(venue.sdk) /\ ~Answers(venue.rest)
  BY <1>4 DEF FetchOrderBook
<1> QED
  BY <1>2, <1>3, <1>4

(* A reported mid is a price.                                               *)
LEMMA MidIs ==
    ASSUME NEW venue, venue.sdk \in Levels, venue.rest \in Levels
    PROVE  BookReport(FetchOrderBook(venue)).mid \in Int \cup {None}
<1> DEFINE book == FetchOrderBook(venue)
<1>1. book = None \/ ~BothSides(book) => BookReport(book).mid = None
  BY DEF BookReport, ComputeMicrostructure
<1>2. ASSUME book # None, BothSides(book)
      PROVE  BookReport(book).mid \in Int
  <2>1. /\ book.bids \in SUBSET Int /\ book.asks \in SUBSET Int
        /\ IsFiniteSet(book.bids) /\ IsFiniteSet(book.asks)
    BY <1>2, BookIs
  <2>2. Max(book.bids) \in Int /\ Min(book.asks) \in Int
    BY <1>2, <2>1, MaxExists, MinExists DEF BothSides
  <2>3. BookReport(book).mid = Mid(book)
    BY <1>2 DEF BookReport, ComputeMicrostructure
  <2> HIDE DEF book
  <2> DEFINE a == Max(book.bids)
             b == Min(book.asks)
  <2> HIDE DEF a, b
  <2>4. (a + b) \div 2 \in Int
    BY <2>2 DEF a, b
  <2> QED
    BY <2>3, <2>4 DEF Mid, a, b
<1> QED
  BY <1>1, <1>2

(* Whoever takes an end right now for a month away decides as one who does  *)
(* not, and an estimate that leans either way as one that leans to yes.     *)
LEMMA MonthDecides ==
    ASSUME NEW p \in Probability, NEW q \in Int, NEW l, NEW s, NEW days \in Int,
           NEW lean \in {"yes", "no"}, NEW tilt \in {"yes", "no"}
    PROVE  Decide(Signal(lean, p), q, l, s, IF days = 0 THEN 30 ELSE days)
             = Decide(Signal(tilt, p), q, l, s, days)
<1> DEFINE left == IF days = 0 THEN 30 ELSE days
           c == Decide(Signal(lean, p), q, l, s, left)
           d == Decide(Signal(tilt, p), q, l, s, days)
           e == Edge(p, q)
           f == 100 * Config.edgeFloor
<1>1. lean # "none" /\ tilt # "none" /\ left \in Int
  OBVIOUS
<1>2. e >= f => (ApyReaches(e, q, left) <=> ApyReaches(e, q, days))
  <2> SUFFICES ASSUME e >= f, days = 0
               PROVE  ApyReaches(e, q, 30) <=> ApyReaches(e, q, 0)
    OBVIOUS
  <2>1. e \in Int /\ f \in Nat \ {0}
    BY EdgeIs, FloorIs
  <2>2. e > 0
    <3> HIDE DEF e, f
    <3> QED
      BY <2>1
  <2>3. q < Unit
    BY <2>2, PositiveEdge
  <2>4. q <= Unit
    BY <2>3, FloorIs
  <2>5. \A n \in {0, 30} : ApyReaches(e, q, n) => (q = 0 => Config.minApy = 0)
    BY DEF ApyReaches
  <2>6. (q = 0 => Config.minApy = 0) => ApyReaches(e, q, 0) /\ ApyReaches(e, q, 30)
    <3> HIDE DEF e
    <3> QED
      BY <2>1, <2>4, MonthIsEnough
  <2> QED
    BY <2>5, <2>6
<1>3. /\ c.action = "buy" <=>
              e >= f /\ ~Gated(l, s) /\ ApyReaches(e, q, left) /\ Size(e, q) > 0
      /\ c.action = "sell" <=> e <= -f
      /\ c.size = (IF c.action = "buy" THEN Size(e, q) ELSE 0)
      /\ c = Decision(c.action, c.size) /\ c.action \in {"buy", "sell", "hold"}
  <2> HIDE DEF c
  <2>1. c = Decide(Signal(lean, p), q, l, s, left)
    BY DEF c
  <2> QED
    BY <1>1, <2>1, DecideIs
<1>4. /\ d.action = "buy" <=>
              e >= f /\ ~Gated(l, s) /\ ApyReaches(e, q, days) /\ Size(e, q) > 0
      /\ d.action = "sell" <=> e <= -f
      /\ d.size = (IF d.action = "buy" THEN Size(e, q) ELSE 0)
      /\ d = Decision(d.action, d.size) /\ d.action \in {"buy", "sell", "hold"}
  <2> HIDE DEF d
  <2>1. d = Decide(Signal(tilt, p), q, l, s, days)
    BY DEF d
  <2> QED
    BY <1>1, <2>1, DecideIs
<1> HIDE DEF c, d, e, f, left
<1>5. c.action = d.action
  BY <1>2, <1>3, <1>4
<1> QED
  BY <1>3, <1>4, <1>5 DEF c, d, left

(* The monitor, the sizing tool and the analysis graph decide alike.        *)
LEMMA ToolsDecideAlike ==
    ASSUME NEW m, MarketTyped(m)
    PROVE  LET report == BookReport(FetchOrderBook(m.venue))
               sized == SizePosition(m.p, m)
           IN /\ DecisionAgent(Signal("yes", m.p), Collected(m, report)) = sized
              /\ Answers(m.venue.sdk) \/ Answers(m.venue.rest) \/ m.listedSpread = 0
                    => Opportunity(m).decision = sized
<1> DEFINE book == FetchOrderBook(m.venue)
           report == BookReport(book)
           price == IF report.mid = None THEN m.price ELSE report.mid
           spread == report.spread
           lean == Lean(m.p, price).direction
           left == IF m.days = 0 THEN 30 ELSE m.days
           sized == SizePosition(m.p, m)
<1>1. price \in Int /\ m.p \in Probability /\ m.days \in Int
  BY MidIs DEF MarketTyped
<1>2. lean \in {"yes", "no"} /\ Lean(m.p, price) = Signal(lean, m.p)
  BY DEF Lean, Signal
<1>3. sized = Decide(Lean(m.p, price), price, m.liquidity, spread, m.days)
  BY DEF SizePosition, LivePriceSpread
<1>4. DecisionAgent(Signal("yes", m.p), Collected(m, report))
        = Decide(Signal("yes", m.p), price, m.liquidity, spread, left)
  BY DEF DecisionAgent, Collected, EffectivePrice, DaysLeft
<1>5. ASSUME Answers(m.venue.sdk) \/ Answers(m.venue.rest) \/ m.listedSpread = 0
      PROVE  Opportunity(m).decision = Decide(Lean(m.p, price), price, m.liquidity, spread, left)
  <2>1. ~(book = None /\ m.listedSpread # 0)
    BY <1>5, BookIs DEF MarketTyped
  <2>2. LiveRaw(m).price = price /\ LiveRaw(m).spread = spread
    BY <2>1 DEF LiveRaw
  <2> QED
    BY <2>2 DEF Opportunity, DaysLeft
<1> HIDE DEF price, spread, lean, left, sized
<1>6. /\ Decide(Signal("yes", m.p), price, m.liquidity, spread, left) = sized
      /\ Decide(Lean(m.p, price), price, m.liquidity, spread, left) = sized
  <2>1. sized = Decide(Signal(lean, m.p), price, m.liquidity, spread, m.days)
    BY <1>2, <1>3
  <2>2. left = IF m.days = 0 THEN 30 ELSE m.days
    BY DEF left
  <2> QED
    BY <1>1, <1>2, <2>1, <2>2, MonthDecides
<1> QED
  BY <1>4, <1>5, <1>6 DEF sized

LEMMA EvenlySpaced ==
    ASSUME NEW c \in Seq(Int), NEW g \in Int,
           \A i \in 1..(Len(c) - 1) : c[i + 1] - c[i] = g,
           NEW i \in DOMAIN c
    PROVE  c[i] = c[1] + (i - 1) * g
<1> DEFINE S == {k \in Nat : k + 1 \in DOMAIN c => c[k + 1] = c[1] + k * g}
<1>1. Len(c) \in Nat /\ DOMAIN c = 1..Len(c) /\ \A k \in DOMAIN c : c[k] \in Int
  OBVIOUS
<1>2. 0 \in S
  <2>1. 0 * g = 0 /\ 0 + 1 = 1
    OBVIOUS
  <2>2. 1 \in DOMAIN c => c[1] = c[1] + 0
    BY <1>1
  <2> QED
    BY <2>1, <2>2
<1>3. ASSUME NEW k \in Nat, k \in S PROVE k + 1 \in S
  <2> SUFFICES ASSUME (k + 1) + 1 \in DOMAIN c
               PROVE  c[(k + 1) + 1] = c[1] + (k + 1) * g
    OBVIOUS
  <2>1. k + 1 \in DOMAIN c /\ k + 1 \in 1..(Len(c) - 1) /\ 1 \in DOMAIN c
    BY <1>1
  <2>2. c[(k + 1) + 1] - c[k + 1] = g
    BY <2>1
  <2>3. c[k + 1] = c[1] + k * g
    BY <1>3, <2>1
  <2>4. c[(k + 1) + 1] \in Int /\ c[k + 1] \in Int /\ c[1] \in Int
    BY <1>1, <2>1
  <2>5. (k + 1) * g = k * g + g /\ k * g \in Int
    OBVIOUS
  <2>6. PICK next, here, first, kg, more :
            /\ next = c[(k + 1) + 1] /\ here = c[k + 1] /\ first = c[1]
            /\ kg = k * g /\ more = (k + 1) * g
    OBVIOUS
  <2>7. next - here = g /\ here = first + kg /\ more = kg + g
    BY <2>2, <2>3, <2>5, <2>6
  <2>8. next \in Int /\ here \in Int /\ first \in Int /\ kg \in Int
    BY <2>4, <2>5, <2>6
  <2>9. next = first + more
    BY <2>7, <2>8
  <2> QED
    BY <2>6, <2>9
<1> HIDE DEF S
<1>4. i - 1 \in S
  <2>1. i - 1 \in Nat
    BY <1>1
  <2> QED
    BY <1>2, <1>3, <2>1, Inductive
<1>5. (i - 1) + 1 = i
  BY <1>1
<1> QED
  BY <1>4, <1>5 DEF S

(* Over evenly spaced candles the bar is their distance.                    *)
LEMMA EvenBar ==
    ASSUME NEW c \in Seq(Int), Len(c) >= 2, NEW g \in Nat \ {0},
           \A i \in 1..(Len(c) - 1) : c[i + 1] - c[i] = g
    PROVE  BarSeconds(c) = g
<1> DEFINE n == Min({BarSample, Len(c) - 1})
<1>1. n \in 1..(Len(c) - 1)
  <2>1. BarSample \in Int /\ BarSample >= 1 /\ Len(c) - 1 \in Int /\ Len(c) - 1 >= 1
    BY VolumeAssumption
  <2> DEFINE l == Len(c) - 1
  <2> HIDE DEF l
  <2>2. Min({BarSample, l}) = (IF BarSample <= l THEN BarSample ELSE l)
    BY ZenonT(40), <2>1, MinOfTwo DEF l
  <2> QED
    BY <2>1, <2>2 DEF l
<1> HIDE DEF n
<1>2. Gaps(c) = {c[i + 1] - c[i] : i \in 1..n}
  BY DEF Gaps, n
<1>3. Gaps(c) = {g}
  <2>1. \A i \in 1..n : c[i + 1] - c[i] = g
    BY <1>1
  <2>2. 1 \in 1..n
    BY <1>1
  <2> QED
    BY <1>2, <2>1, <2>2
<1>4. {x \in Gaps(c) : x > 0} = {g}
  BY <1>3
<1>5. Min({g}) = g
  BY DEF Min
<1>6. ~(Len(c) < 2) /\ {g} # {}
  OBVIOUS
<1> QED
  BY <1>4, <1>5, <1>6 DEF BarSeconds

(* Each trade is in the bar of its bucket.                                  *)
LEMMA BucketsAreBars ==
    ASSUME NEW c \in Seq(Int), Len(c) >= 2, NEW g \in Nat \ {0},
           \A i \in 1..(Len(c) - 1) : c[i + 1] - c[i] = g,
           NEW trades \in SUBSET Int, NEW i \in DOMAIN c
    PROVE  Buckets(c, trades)[i] = {t \in trades : c[i] <= t /\ t < c[i] + g}
<1>1. Buckets(c, trades)[i] = {t \in trades : (t - c[1]) \div g = i - 1}
  BY EvenBar DEF Buckets
<1>2. i \in Int /\ c[1] \in Int /\ c[i] \in Int
  OBVIOUS
<1>3. c[i] = c[1] + (i - 1) * g
  <2>1. g \in Int
    OBVIOUS
  <2> QED
    BY <2>1, EvenlySpaced
<1>4. ASSUME NEW t \in trades
      PROVE  (t - c[1]) \div g = i - 1 <=> c[i] <= t /\ t < c[i] + g
  <2> DEFINE x == t - c[1]
             q == i - 1
             y == q * g
  <2>1. x \in Int /\ q \in Int /\ y \in Int /\ t \in Int
    BY SMTT(30), <1>2
  <2>2. c[i] <= t /\ t < c[i] + g <=> y <= x /\ x < y + g
    <3> HIDE DEF y
    <3>1. c[i] = c[1] + y
      BY <1>3 DEF y
    <3> QED
      BY SMTT(30), <1>2, <2>1, <3>1
  <2> HIDE DEF x, q
  <2>3. x \div g = q => y <= x /\ x < y + g
    BY <2>1, Quotients
  <2>4. y <= x /\ x < y + g => x \div g = q
    BY <2>1, QuotientIs
  <2> QED
    BY <2>2, <2>3, <2>4 DEF x, q
<1> QED
  BY <1>1, <1>4

-----------------------------------------------------------------------------
(* One that is not among the top is behind as many as are shown.            *)
LEMMA TopIs ==
    ASSUME NEW keys, IsFiniteSet(DOMAIN keys), DOMAIN keys \subseteq Int,
           \A i \in DOMAIN keys : keys[i] \in Int,
           NEW n \in Nat, NEW i \in DOMAIN keys, i \notin Top(keys, n)
    PROVE  /\ Cardinality(Top(keys, n)) = n
           /\ \A j \in Top(keys, n) : keys[j] <= keys[i]
<1> DEFINE S == DOMAIN keys
           order == {p \in S \X S : keys[p[1]] < keys[p[2]]
                                    \/ (keys[p[1]] = keys[p[2]] /\ p[1] < p[2])}
           rank == [j \in S |-> Cardinality(Ahead(order, S, j))]
           T == Top(keys, n)
<1>1. \A j, k \in S : <<j, k>> \in order <=> keys[j] < keys[k] \/ (keys[j] = keys[k] /\ j < k)
  OBVIOUS
<1>2. T = {j \in S : rank[j] < n}
  <2>1. \A j \in S : Ahead(order, S, j) =
                        {k \in S : keys[k] < keys[j] \/ (keys[k] = keys[j] /\ k < j)}
    BY <1>1 DEF Ahead
  <2> HIDE DEF order
  <2> QED
    BY <2>1 DEF Top
<1>3. \A j \in S : j \in Int /\ keys[j] \in Int
  OBVIOUS
<1>4. StrictlyOrders(order, S)
  <2> HIDE DEF order, S
  <2>1. \A j \in S : <<j, j>> \notin order
    BY <1>1, <1>3
  <2>2. \A j, k, l \in S : <<j, k>> \in order /\ <<k, l>> \in order => <<j, l>> \in order
    BY <1>1, <1>3
  <2>3. \A j, k \in S : j # k => <<j, k>> \in order \/ <<k, j>> \in order
    BY <1>1, <1>3
  <2> QED
    BY <2>1, <2>2, <2>3 DEF StrictlyOrders
<1>5. IsFiniteSet(S) /\ i \in S
  OBVIOUS
<1> HIDE DEF order, S
<1>6. \A j \in S : rank[j] = Cardinality(Ahead(order, S, j)) /\ rank[j] \in 0..(Cardinality(S) - 1)
  BY <1>4, <1>5, RankInside
<1>7. \A j, k \in S : <<j, k>> \in order => rank[j] < rank[k]
  BY <1>4, <1>5, <1>6, RanksGrow
<1>8. \A r \in 0..(Cardinality(S) - 1) : \E k \in S : rank[k] = r
  BY <1>4, <1>5, <1>6, RankTaken
<1>9. Cardinality(S) \in Nat
  BY <1>5, FS_CardinalityType
<1> HIDE DEF rank
<1>10. rank[i] >= n /\ i \in S
  <2>1. i \in S /\ i \notin T
    BY <1>5
  <2> HIDE DEF T
  <2>2. ~(rank[i] < n) /\ rank[i] \in 0..(Cardinality(S) - 1)
    BY <1>2, <1>6, <2>1
  <2> QED
    BY <1>9, <2>1, <2>2
<1> HIDE DEF T
<1>11. \A j, k \in S : j # k => rank[j] # rank[k]
  <2> TAKE j \in S, k \in S
  <2> HAVE j # k
  <2>1. rank[j] \in Int /\ rank[k] \in Int
    BY <1>6
  <2>2. <<j, k>> \in order \/ <<k, j>> \in order
    BY <1>4 DEF StrictlyOrders
  <2>3. rank[j] < rank[k] \/ rank[k] < rank[j]
    BY <1>7, <2>2
  <2> QED
    BY <2>1, <2>3
<1>12. IsFiniteSet(T) /\ Cardinality(T) \in Nat /\ T \subseteq S
  <2>1. T \in SUBSET S
    BY <1>2
  <2> QED
    BY <1>5, <2>1, FS_Subset, FS_CardinalityType
<1>13. IsFiniteSet(0..(n - 1)) /\ Cardinality(0..(n - 1)) = n
  <2> DEFINE m == n - 1
  <2>1. m \in Int /\ n = (IF 0 > m THEN 0 ELSE m - 0 + 1)
    OBVIOUS
  <2> HIDE DEF m
  <2>2. IsFiniteSet(0..m) /\ Cardinality(0..m) = n
    BY <2>1, FS_Interval
  <2> QED
    BY <2>2 DEF m
<1> DEFINE f == [j \in T |-> rank[j]]
           U == 0..(n - 1)
<1>14. f \in [T -> U]
  <2>1. \A j \in T : rank[j] \in U
    BY <1>2, <1>6, <1>9
  <2> QED
    BY <2>1
<1>15. f \in Injection(T, U)
  <2>1. \A j, k \in T : f[j] = f[k] => j = k
    BY <1>11, <1>12
  <2> HIDE DEF f, U
  <2> QED
    BY <1>14, <2>1 DEF Injection, IsInjective
<1>16. f \in Surjection(T, U)
  <2>1. ASSUME NEW r \in U PROVE \E j \in T : f[j] = r
    <3>1. r \in 0..(Cardinality(S) - 1) /\ r < n
      BY <1>6, <1>9, <1>10
    <3>2. PICK k \in S : rank[k] = r
      BY <1>8, <3>1
    <3>3. k \in T
      BY <1>2, <3>1, <3>2
    <3> QED
      BY <3>2, <3>3
  <2> HIDE DEF f, U
  <2> QED
    BY <1>14, <2>1 DEF Surjection
<1> HIDE DEF f, U
<1>17. Cardinality(T) = n
  <2>1. IsFiniteSet(U) /\ Cardinality(U) = n
    BY <1>13 DEF U
  <2>2. Cardinality(T) <= Cardinality(U)
    BY <1>15, <2>1, FS_Injection
  <2>3. Cardinality(U) <= Cardinality(T)
    BY <1>12, <1>16, FS_Surjection
  <2> QED
    BY <1>12, <2>1, <2>2, <2>3
<1>18. ASSUME NEW j \in T PROVE keys[j] <= keys[i]
  <2>1. j \in S /\ rank[j] < n
    BY <1>2
  <2>2. rank[j] \in Int /\ rank[i] \in Int
    BY <1>6, <1>10, <2>1
  <2>3. j # i /\ ~(rank[i] < rank[j])
    BY <1>10, <2>1, <2>2
  <2>4. <<j, i>> \in order
    BY <1>4, <1>7, <1>10, <2>1, <2>3 DEF StrictlyOrders
  <2> QED
    BY <1>1, <1>3, <1>10, <2>1, <2>4
<1> QED
  BY <1>17, <1>18 DEF T

Once(shown) == \A r, q \in shown : r.market = q.market => r = q

(* What is shown of the markets, by these keys.                             *)
Shows(shown, markets, keys, n) ==
    /\ Once(shown)
    /\ \A i \in DOMAIN keys : markets[i] \notin shown =>
          /\ Cardinality(shown) = n
          /\ \A q \in shown : \E j \in DOMAIN keys : q = markets[j] /\ keys[j] <= keys[i]

LEMMA TopShown ==
    ASSUME NEW N \in Nat, NEW markets, NEW keys, DOMAIN keys \subseteq 1..N,
           \A i, j \in 1..N : i # j => markets[i].market # markets[j].market,
           \A i \in DOMAIN keys : keys[i] \in Int, NEW n \in Nat
    PROVE  Shows({markets[i] : i \in Top(keys, n)}, markets, keys, n)
<1> DEFINE T == Top(keys, n)
           At == {markets[i] : i \in T}
<1>1. T \subseteq DOMAIN keys /\ T \subseteq 1..N
  BY DEF Top
<1>2. IsFiniteSet(1..N) /\ IsFiniteSet(DOMAIN keys)
  <2>1. IsFiniteSet(1..N) /\ DOMAIN keys \in SUBSET (1..N)
    BY FS_Interval
  <2> QED
    BY <2>1, FS_Subset
<1>3. IsFiniteSet(T)
  <2>1. T \in SUBSET (1..N)
    BY <1>1
  <2> QED
    BY <1>2, <2>1, FS_Subset
<1>4. ASSUME NEW r \in At, NEW q \in At, r.market = q.market PROVE r = q
  BY <1>1, <1>4
<1>5. Cardinality(At) = Cardinality(T)
  <2> HIDE DEF T
  <2> DEFINE f == [i \in T |-> markets[i]]
  <2>1. f \in [T -> At] /\ \A i, j \in T : f[i] = f[j] => i = j
    BY <1>1
  <2>2. \A r \in At : \E i \in T : f[i] = r
    OBVIOUS
  <2> HIDE DEF f, At
  <2>3. f \in Injection(T, At) /\ f \in Surjection(T, At)
    BY <2>1, <2>2 DEF Injection, Surjection, IsInjective
  <2> QED
    BY <1>3, <2>3, FS_Surjection
<1>6. ASSUME NEW i \in DOMAIN keys, markets[i] \notin At
      PROVE  /\ Cardinality(At) = n
             /\ \A q \in At : \E j \in DOMAIN keys : q = markets[j] /\ keys[j] <= keys[i]
  <2>1. i \notin T
    BY <1>6
  <2>2. DOMAIN keys \subseteq Int
    OBVIOUS
  <2>3. Cardinality(T) = n /\ \A j \in T : keys[j] <= keys[i]
    BY <1>2, <2>1, <2>2, TopIs
  <2> HIDE DEF T
  <2> QED
    BY <1>1, <1>5, <2>3
<1> QED
  BY <1>4, <1>6 DEF Shows, Once

RadarRow == [market : STRING, side : {"YES", "NO"}, days : Int, history : Nat, change : Int]

(* The first YES row of its market.                                         *)
First(listed, k) ==
    /\ listed[k].side = "YES"
    /\ \A j \in 1..(k - 1) : listed[j].side = "YES" => listed[j].market # listed[k].market

(* The first rows of the markets are at these places, in order.             *)
FirstsAt(listed, n, at) ==
    /\ n \in Nat /\ at \in [1..n -> DOMAIN listed]
    /\ OncePerMarket(listed) = [i \in 1..n |-> listed[at[i]]]
    /\ \A i \in 1..n : listed[at[i]].side = "YES"
    /\ \A i, j \in 1..n : i < j => at[i] < at[j] /\ listed[at[i]].market # listed[at[j]].market
    /\ \A k \in DOMAIN listed : First(listed, k) => \E i \in 1..n : at[i] = k

LEMMA OnceIs ==
    ASSUME NEW listed \in Seq(RadarRow)
    PROVE  \E n, at : FirstsAt(listed, n, at)
<1> DEFINE D == DOMAIN listed
           yes == {k \in D : listed[k].side = "YES"}
           places == {k \in yes : \A i \in yes : i < k => listed[i].market # listed[k].market}
           order == AsListed(listed)
           N == Cardinality(places)
<1>1. D = 1..Len(listed) /\ Len(listed) \in Nat /\ \A k \in D : k \in Nat
  BY LenProperties
<1>2. IsFiniteSet(places)
  <2>1. IsFiniteSet(D) /\ places \in SUBSET D
    BY <1>1, FS_Interval
  <2> QED
    BY <2>1, FS_Subset
<1>3. \A j, k \in D : <<j, k>> \in order <=> j < k
  BY DEF AsListed
<1> HIDE DEF order
<1>4. StrictlyOrders(order, places)
  <2>1. \A k \in places : k \in D /\ k \in Nat
    BY <1>1
  <2> HIDE DEF places, D
  <2> QED
    BY <1>3, <2>1 DEF StrictlyOrders
<1>5. N \in Nat
  BY <1>2, FS_CardinalityType
<1>6. PICK at \in [1..N -> places] :
         /\ Arranged(listed, places, order) = [i \in 1..N |-> listed[at[i]]]
         /\ \A i, j \in 1..N : i < j => <<at[i], at[j]>> \in order
  BY <1>2, <1>4, Arranging
<1>7. OncePerMarket(listed) = [i \in 1..N |-> listed[at[i]]]
  BY <1>6 DEF OncePerMarket, Selected, order
<1>8. \A k \in places : /\ k \in D /\ listed[k].side = "YES"
                        /\ \A i \in D : listed[i].side = "YES" /\ i < k => listed[i].market # listed[k].market
  OBVIOUS
<1>9. \A k \in D : listed[k].side = "YES"
                   /\ (\A j \in 1..(k - 1) : listed[j].side = "YES" => listed[j].market # listed[k].market)
                   => k \in places
  <2> SUFFICES ASSUME NEW k \in D, listed[k].side = "YES",
                      \A j \in 1..(k - 1) : listed[j].side = "YES" => listed[j].market # listed[k].market
               PROVE  k \in places
    OBVIOUS
  <2>1. \A i \in D : i < k => i \in 1..(k - 1)
    BY <1>1
  <2> QED
    BY <2>1
<1> HIDE DEF places
<1> HIDE DEF N
<1>10. \A i, j \in 1..N : i < j => at[i] < at[j] /\ listed[at[i]].market # listed[at[j]].market
  <2> TAKE i \in 1..N, j \in 1..N
  <2> HAVE i < j
  <2>1. at[i] \in D /\ at[j] \in D /\ at[i] \in places /\ at[j] \in places /\ <<at[i], at[j]>> \in order
    BY <1>6, <1>8
  <2>2. at[i] < at[j]
    BY <1>3, <2>1
  <2> QED
    BY <1>8, <2>1, <2>2
<1>11. at \in Surjection(1..N, places)
  <2>1. ASSUME NEW i \in 1..N, NEW j \in 1..N, at[i] = at[j] PROVE i = j
    <3>1. at[i] \in Nat /\ at[j] \in Nat
      BY <1>1, <1>6, <1>8
    <3>2. ~(i < j) /\ ~(j < i)
      BY <1>10, <2>1, <3>1
    <3> QED
      BY <1>5, <3>2
  <2>2. at \in Injection(1..N, places)
    BY <1>6, <2>1 DEF Injection, IsInjective
  <2>3. Cardinality(1..N) = Cardinality(places)
    <3>1. Cardinality(1..N) = N
      BY <1>5, FS_Interval
    <3> QED
      BY <3>1 DEF N
  <2> QED
    BY <1>2, <2>2, <2>3, FS_Injection
<1>12. \A k \in places : \E i \in 1..N : at[i] = k
  BY <1>11 DEF Surjection
<1>13. at \in [1..N -> D] /\ \A i \in 1..N : listed[at[i]].side = "YES"
  BY <1>6, <1>8
<1>14. \A k \in D : listed[k].side = "YES"
                    /\ (\A j \in 1..(k - 1) : listed[j].side = "YES" => listed[j].market # listed[k].market)
                    => \E i \in 1..N : at[i] = k
  BY <1>9, <1>12
<1>15. at \in [1..N -> DOMAIN listed]
  BY <1>13
<1>16. \A k \in DOMAIN listed : First(listed, k) => \E i \in 1..N : at[i] = k
  BY <1>14 DEF First
<1> HIDE DEF D, yes
<1>17. FirstsAt(listed, N, at)
  BY <1>5, <1>7, <1>10, <1>13, <1>15, <1>16 DEF FirstsAt
<1> QED
  BY <1>17

YesRows(listed, n) == {listed[i] : i \in {i \in 1..n : listed[i].side = "YES"}}

(* The market of the i-th first row is at most the i-th of those before it. *)
LEMMA MarketsBefore ==
    ASSUME NEW listed \in Seq(RadarRow), NEW n, NEW at, FirstsAt(listed, n, at), NEW i \in 1..n
    PROVE  /\ i <= Cardinality({q.market : q \in YesRows(listed, at[i])})
           /\ Cardinality({q.market : q \in YesRows(listed, at[i])}) \in Nat
<1> DEFINE k == at[i]
           P == {j \in 1..k : listed[j].side = "YES"}
           M == {q.market : q \in YesRows(listed, k)}
           f == [j \in P |-> listed[j].market]
           g == [j \in 1..i |-> listed[at[j]].market]
<1>1. n \in Nat /\ k \in 1..Len(listed) /\ k \in Nat /\ i \in Nat
  <2>1. n \in Nat /\ at[i] \in DOMAIN listed
    BY DEF FirstsAt
  <2> QED
    BY <2>1, LenProperties
<1>2. IsFiniteSet(P)
  <2>1. P \in SUBSET (1..k)
    OBVIOUS
  <2> HIDE DEF k, P
  <2>2. IsFiniteSet(1..k)
    BY <1>1, FS_Interval
  <2> QED
    BY <2>1, <2>2, FS_Subset
<1>3. IsFiniteSet(M)
  <2>1. f \in [P -> M] /\ \A m \in M : \E j \in P : f[j] = m
    BY DEF YesRows
  <2> HIDE DEF f, P, M
  <2>2. f \in Surjection(P, M)
    BY <2>1 DEF Surjection
  <2> QED
    BY <1>2, <2>2, FS_Surjection
<1>4. ASSUME NEW j \in 1..i PROVE at[j] \in P /\ j \in 1..n
  <2>1. j \in 1..n /\ (j < i \/ j = i)
    BY <1>1
  <2>2. listed[at[j]].side = "YES" /\ at[j] \in DOMAIN listed
    BY <2>1 DEF FirstsAt
  <2>3. at[j] \in Nat /\ at[j] >= 1
    BY <2>2, LenProperties
  <2>4. at[j] < at[i] \/ j = i
    BY <2>1 DEF FirstsAt
  <2> QED
    BY <1>1, <2>1, <2>2, <2>3, <2>4
<1>5. g \in [1..i -> M]
  <2>1. ASSUME NEW j \in 1..i PROVE listed[at[j]].market \in M
    BY <1>4 DEF YesRows
  <2> QED
    BY <2>1
<1>6. \A j, l \in 1..i : g[j] = g[l] => j = l
  <2> TAKE j \in 1..i, l \in 1..i
  <2> HAVE g[j] = g[l]
  <2>1. j \in 1..n /\ l \in 1..n /\ listed[at[j]].market = listed[at[l]].market
    BY <1>4
  <2>2. ~(j < l) /\ ~(l < j)
    BY <2>1 DEF FirstsAt
  <2> QED
    BY <1>1, <2>1, <2>2
<1> HIDE DEF g, M, P, k
<1>7. g \in Injection(1..i, M)
  BY <1>5, <1>6 DEF Injection, IsInjective
<1>8. Cardinality(1..i) <= Cardinality(M)
  BY <1>3, <1>7, FS_Injection
<1>9. Cardinality(1..i) = i
  BY <1>1, FS_Interval
<1>10. Cardinality(M) \in Nat
  BY <1>3, FS_CardinalityType
<1> QED
  BY <1>8, <1>9, <1>10 DEF M, k

RadarScale == [deep : Nat, expiry : Int, shown : Nat, young : Int]

LEMMA RadarIs ==
    ASSUME NEW listed \in Seq(RadarRow), NEW scale \in RadarScale
    PROVE  LET radar == MarketRadar(listed, scale)
           IN /\ Once(radar.near) /\ Once(radar.movers) /\ Once(radar.fresh)
              /\ \A k \in DOMAIN listed : First(listed, k) =>
                    /\ listed[k].days \in 1..scale.expiry /\ listed[k] \notin radar.near =>
                          /\ Cardinality(radar.near) = scale.shown
                          /\ \A q \in radar.near : q.days <= listed[k].days
                    /\ /\ listed[k].history >= 2 /\ listed[k] \notin radar.movers
                       /\ Cardinality({q.market : q \in YesRows(listed, k)}) <= scale.deep
                       => /\ Cardinality(radar.movers) = scale.shown
                          /\ \A q \in radar.movers : q.change >= listed[k].change
<1>1. PICK n, at : FirstsAt(listed, n, at)
  BY OnceIs
<1>2. PICK markets : markets = OncePerMarket(listed)
  OBVIOUS
<1> DEFINE Ends == {i \in DOMAIN markets : markets[i].days \in 1..scale.expiry}
           most == Min({scale.deep, Len(markets)})
           Read == {i \in 1..most : markets[i].history >= 2}
           Young == {i \in Read : markets[i].history <= scale.young}
           soon == [i \in Ends |-> markets[i].days]
           moved == [i \in Read |-> -markets[i].change]
           read == [i \in Young |-> markets[i].history]
           Near == {markets[i] : i \in Top(soon, scale.shown)}
           Movers == {markets[i] : i \in Top(moved, scale.shown)}
           Fresh == {markets[i] : i \in Top(read, scale.shown)}
           radar == MarketRadar(listed, scale)
<1>3. radar.near = Near /\ radar.movers = Movers /\ radar.fresh = Fresh
  BY <1>2 DEF MarketRadar
<1>4. /\ scale.deep \in Nat /\ scale.expiry \in Int /\ scale.shown \in Nat
  BY DEF RadarScale
<1>5. /\ n \in Nat /\ DOMAIN markets = 1..n /\ Len(markets) = n
      /\ \A i \in 1..n : markets[i] = listed[at[i]] /\ at[i] \in DOMAIN listed
      /\ \A i \in 1..n : markets[i].days \in Int /\ markets[i].history \in Nat /\ markets[i].change \in Int
  <2>1. n \in Nat /\ markets = [i \in 1..n |-> listed[at[i]]] /\ at \in [1..n -> DOMAIN listed]
    BY <1>2, <1>1 DEF FirstsAt
  <2>2. \A k \in DOMAIN listed : listed[k] \in RadarRow
    BY LenProperties, ElementOfSeq
  <2>3. \A r \in RadarRow : r.days \in Int /\ r.history \in Nat /\ r.change \in Int
    BY DEF RadarRow
  <2>4. DOMAIN markets = 1..n /\ Len(markets) = n
    BY <2>1
  <2>5. \A i \in 1..n : markets[i] = listed[at[i]] /\ at[i] \in DOMAIN listed
    BY <2>1
  <2> QED
    BY <2>1, <2>2, <2>3, <2>4, <2>5
<1>6. \A i, j \in 1..n : i # j => markets[i].market # markets[j].market
  <2> TAKE i \in 1..n, j \in 1..n
  <2> HAVE i # j
  <2>1. i < j \/ j < i
    BY <1>5
  <2>2. listed[at[i]].market # listed[at[j]].market
    BY <1>1, <2>1 DEF FirstsAt
  <2> QED
    BY <1>5, <2>2
<1>7. n \in Nat
  BY <1>5
<1>8. DOMAIN markets = 1..n /\ Len(markets) = n
  BY <1>5
<1>9. \A i \in 1..n : /\ markets[i].days \in Int /\ markets[i].history \in Int
                      /\ markets[i].change \in Int
  BY <1>5
<1>10. scale.deep \in Nat
  BY <1>4
<1>11. scale.deep \in Int /\ n \in Int
  BY <1>7, <1>10
<1>12. most \in Nat /\ most <= n /\ (most = scale.deep \/ most = n)
  <2>1. Min({scale.deep, n}) = IF scale.deep <= n THEN scale.deep ELSE n
    BY <1>11, MinOfTwo
  <2>2. most = IF scale.deep <= n THEN scale.deep ELSE n
    BY <1>8, <2>1
  <2> QED
    BY <1>7, <1>10, <2>2
<1> HIDE DEF most
<1>13. Ends \subseteq 1..n /\ Read \subseteq 1..n /\ Young \subseteq 1..n
  <2>1. \A i \in 1..most : i \in 1..n
    BY <1>12, <1>7
  <2> QED
    BY <1>8, <2>1
<1>14. /\ \A i \in Ends : soon[i] = markets[i].days /\ soon[i] \in Int
       /\ \A i \in Read : moved[i] = -markets[i].change /\ moved[i] \in Int
       /\ \A i \in Young : read[i] = markets[i].history /\ read[i] \in Int
  BY <1>9, <1>13
<1>15. DOMAIN soon = Ends /\ DOMAIN moved = Read /\ DOMAIN read = Young
  OBVIOUS
<1>16. \A i \in 1..n : markets[i].days \in 1..scale.expiry => i \in Ends
  BY <1>5
<1>17. \A i \in 1..n : i <= scale.deep /\ markets[i].history >= 2 => i \in Read
  BY <1>7, <1>8, <1>12
<1> HIDE DEF Ends, Read, Young, soon, moved, read
<1>18. Shows(Near, markets, soon, scale.shown)
  <2>1. DOMAIN soon \subseteq 1..n /\ \A i \in DOMAIN soon : soon[i] \in Int
    BY <1>13, <1>14, <1>15
  <2> QED
    BY <1>4, <1>7, <1>6, <2>1, TopShown
<1>19. Shows(Movers, markets, moved, scale.shown)
  <2>1. DOMAIN moved \subseteq 1..n /\ \A i \in DOMAIN moved : moved[i] \in Int
    BY <1>13, <1>14, <1>15
  <2> QED
    BY <1>4, <1>7, <1>6, <2>1, TopShown
<1>20. Shows(Fresh, markets, read, scale.shown)
  <2>1. DOMAIN read \subseteq 1..n /\ \A i \in DOMAIN read : read[i] \in Int
    BY <1>13, <1>14, <1>15
  <2> QED
    BY <1>4, <1>7, <1>6, <2>1, TopShown
<1> HIDE DEF Near, Movers, Fresh
<1>21. ASSUME NEW k \in DOMAIN listed, First(listed, k)
       PROVE  /\ listed[k].days \in 1..scale.expiry /\ listed[k] \notin Near =>
                    /\ Cardinality(Near) = scale.shown
                    /\ \A q \in Near : q.days <= listed[k].days
              /\ /\ listed[k].history >= 2 /\ listed[k] \notin Movers
                 /\ Cardinality({q.market : q \in YesRows(listed, k)}) <= scale.deep
                 => /\ Cardinality(Movers) = scale.shown
                    /\ \A q \in Movers : q.change >= listed[k].change
  <2>1. PICK i \in 1..n : at[i] = k
    BY <1>1, <1>21 DEF FirstsAt
  <2>2. markets[i] = listed[k]
    BY <1>5, <2>1
  <2>3. ASSUME listed[k].days \in 1..scale.expiry, listed[k] \notin Near
        PROVE  /\ Cardinality(Near) = scale.shown
               /\ \A q \in Near : q.days <= listed[k].days
    <3>1. i \in Ends /\ soon[i] = listed[k].days
      BY <1>14, <1>16, <2>2, <2>3
    <3>2. \A j \in Ends : soon[j] <= soon[i] => markets[j].days <= listed[k].days
      BY <1>14, <3>1
    <3> QED
      BY <1>15, <1>18, <2>2, <2>3, <3>1, <3>2 DEF Shows
  <2>4. ASSUME listed[k].history >= 2, listed[k] \notin Movers,
               Cardinality({q.market : q \in YesRows(listed, k)}) <= scale.deep
        PROVE  /\ Cardinality(Movers) = scale.shown
               /\ \A q \in Movers : q.change >= listed[k].change
    <3> DEFINE c == Cardinality({q.market : q \in YesRows(listed, k)})
    <3>1. i <= c /\ c \in Nat
      BY <1>1, <2>1, MarketsBefore
    <3>2. c <= scale.deep
      BY <2>4
    <3> HIDE DEF c
    <3>3. i <= scale.deep
      BY <1>4, <1>5, <3>1, <3>2
    <3>4. i \in Read /\ moved[i] = -listed[k].change
      BY <1>14, <1>17, <2>2, <2>4, <3>3
    <3>5. \A j \in Read : moved[j] <= moved[i] => markets[j].change >= listed[k].change
      BY <1>9, <1>13, <1>14, <2>2, <3>4
    <3> QED
      BY <1>15, <1>19, <2>2, <2>4, <3>4, <3>5 DEF Shows
  <2> QED
    BY <2>3, <2>4
<1> HIDE DEF radar
<1> QED
  BY <1>3, <1>18, <1>19, <1>20, <1>21 DEF radar, Shows

-----------------------------------------------------------------------------
(* What the listing has after the k-th page.                                *)
Page(ranking, k, left) ==
    SubSeq(ranking, (k - 1) * GammaPage + 1,
           Min({(k - 1) * GammaPage + Min({GammaPage, left}), Len(ranking)}))

Got(ranking, limit, failing, f, k) ==
    IF k = 0 THEN [out |-> <<>>, more |-> TRUE]
    ELSE LET before == f[k - 1]
             left == limit - Len(before.out)
             page == IF ~before.more \/ left <= 0 \/ k = failing THEN <<>> ELSE Page(ranking, k, left)
         IN [out |-> before.out \o page, more |-> Len(page) = GammaPage]

LEMMA PagesExist ==
    ASSUME NEW ranking, NEW limit, NEW failing, NEW n \in Nat
    PROVE  \E f : f = [k \in 0..n |-> Got(ranking, limit, failing, f, k)]
<1> DEFINE S == {l \in Nat : \E f : f = [k \in 0..l |-> Got(ranking, limit, failing, f, k)]}
<1>1. 0 \in S
  <2> DEFINE f == [k \in 0..0 |-> [out |-> <<>>, more |-> TRUE]]
  <2>1. f = [k \in 0..0 |-> Got(ranking, limit, failing, f, k)]
    BY DEF Got
  <2> QED
    BY <2>1
<1>2. ASSUME NEW l \in Nat, l \in S PROVE l + 1 \in S
  <2>1. PICK g : g = [k \in 0..l |-> Got(ranking, limit, failing, g, k)]
    BY <1>2
  <2> DEFINE f == [k \in 0..(l + 1) |-> IF k \in 0..l THEN g[k] ELSE Got(ranking, limit, failing, g, k)]
  <2>2. \A k \in 0..l : f[k] = g[k]
    OBVIOUS
  <2>3. \A k \in 0..(l + 1) : Got(ranking, limit, failing, f, k) = Got(ranking, limit, failing, g, k)
    <3> TAKE k \in 0..(l + 1)
    <3>1. k = 0 \/ f[k - 1] = g[k - 1]
      BY <2>2
    <3> HIDE DEF f
    <3> QED
      BY <3>1 DEF Got
  <2>4. \A k \in 0..l : g[k] = Got(ranking, limit, failing, g, k)
    BY <2>1
  <2>5. \A k \in 0..(l + 1) : f[k] = Got(ranking, limit, failing, f, k)
    <3>1. \A k \in 0..(l + 1) : f[k] = Got(ranking, limit, failing, g, k)
      BY <2>4
    <3> HIDE DEF f
    <3> QED
      BY <2>3, <3>1
  <2>6. f = [k \in 0..(l + 1) |-> f[k]]
    OBVIOUS
  <2> HIDE DEF f
  <2>7. f = [k \in 0..(l + 1) |-> Got(ranking, limit, failing, f, k)]
    BY <2>5, <2>6
  <2> QED
    BY <2>7
<1> HIDE DEF S
<1>3. n \in S
  BY <1>1, <1>2, Inductive
<1> QED
  BY <1>3 DEF S

(* How far the pages reach.                                                 *)
Reach(ranking, limit, failing) ==
    Min({limit, Len(ranking)} \cup (IF failing = 0 THEN {} ELSE {GammaPage * (failing - 1)}))

LEMMA ReachIs ==
    ASSUME NEW limit \in Nat, NEW failing \in Nat, NEW X, NEW ranking \in Seq(X)
    PROVE  LET reach == Reach(ranking, limit, failing)
           IN /\ reach \in Nat /\ reach <= limit /\ reach <= Len(ranking)
              /\ failing # 0 => reach <= GammaPage * (failing - 1)
              /\ \/ reach = limit \/ reach = Len(ranking)
                 \/ failing # 0 /\ reach = GammaPage * (failing - 1)
<1> DEFINE n == Len(ranking)
           d == GammaPage * (failing - 1)
           S == {limit, n} \cup (IF failing = 0 THEN {} ELSE {d})
<1>1. limit \in Nat /\ n \in Nat
  BY LenProperties
<1>2. failing # 0 => d \in Nat
  <2> SUFFICES ASSUME failing # 0 PROVE d \in Nat
    OBVIOUS
  <2> DEFINE pages == failing - 1
  <2>1. pages \in Nat /\ GammaPage \in Nat
    BY MonitorAssumption
  <2> HIDE DEF pages
  <2>2. GammaPage * pages \in Nat
    BY <2>1, Products
  <2> QED
    BY <2>2 DEF pages
<1> HIDE DEF d, n
<1>3. S \in SUBSET Nat /\ limit \in S /\ n \in S /\ (failing # 0 => d \in S)
      /\ \A x \in S : x = limit \/ x = n \/ (failing # 0 /\ x = d)
  BY <1>1, <1>2
<1>4. IsFiniteSet(S)
  <2>1. IsFiniteSet({limit} \cup {n})
    BY FS_Singleton, FS_AddElement
  <2>2. IsFiniteSet(({limit} \cup {n}) \cup {d})
    BY <2>1, FS_AddElement
  <2>3. S = {limit} \cup {n} \/ S = ({limit} \cup {n}) \cup {d}
    OBVIOUS
  <2> HIDE DEF S
  <2> QED
    BY <2>1, <2>2, <2>3
<1>5. Reach(ranking, limit, failing) = Min(S)
  BY DEF Reach, n, d
<1> HIDE DEF S
<1>6. S \in SUBSET Int /\ S # {}
  BY <1>3
<1>7. Min(S) \in S /\ \A x \in S : Min(S) <= x
  BY <1>4, <1>6, MinExists
<1> QED
  BY <1>3, <1>5, <1>7 DEF n, d

(* After k pages: as far as k whole pages reach, or at the end.             *)
PagesRead(ranking, limit, failing, got, k) ==
    LET reach == Reach(ranking, limit, failing)
        c == IF got[k].more THEN k * GammaPage ELSE reach
    IN got[k].more \in BOOLEAN /\ c <= reach /\ got[k].out = SubSeq(ranking, 1, c)

LEMMA NextPage ==
    ASSUME NEW limit \in Nat, NEW failing \in Nat, NEW X, NEW ranking \in Seq(X),
           NEW got, NEW k \in Nat, PagesRead(ranking, limit, failing, got, k),
           got[k + 1] = Got(ranking, limit, failing, got, k + 1)
    PROVE  PagesRead(ranking, limit, failing, got, k + 1)
<1> DEFINE n == Len(ranking)
           P == GammaPage
           reach == Reach(ranking, limit, failing)
           q == k * P
           c == IF got[k].more THEN q ELSE reach
           out == got[k].out
           left == limit - Len(out)
           page == IF ~got[k].more \/ left <= 0 \/ k + 1 = failing THEN <<>> ELSE Page(ranking, k + 1, left)
<1>1. n \in Nat /\ limit \in Nat /\ P \in Nat \ {0} /\ k \in Nat /\ failing \in Nat
  BY LenProperties, MonitorAssumption
<1>2. /\ reach \in Nat /\ reach <= limit /\ reach <= n
      /\ failing # 0 => reach <= P * (failing - 1)
      /\ \/ reach = limit \/ reach = n
         \/ failing # 0 /\ reach = P * (failing - 1)
  BY ReachIs
<1>3. got[k].more \in BOOLEAN /\ c <= reach /\ out = SubSeq(ranking, 1, c)
  BY DEF PagesRead
<1>4. /\ got[k + 1].out = out \o page /\ got[k + 1].more \in BOOLEAN
      /\ got[k + 1].more <=> Len(page) = P
  <2>1. k + 1 # 0 /\ (k + 1) - 1 = k
    OBVIOUS
  <2>2. got[k + 1] = [out |-> out \o page, more |-> Len(page) = P]
    BY <2>1 DEF Got
  <2> HIDE DEF page, out, P
  <2>3. got[k + 1].out = out \o page
    BY SMTT(30), <2>2
  <2>4. PICK full \in BOOLEAN : full = (Len(page) = P)
    OBVIOUS
  <2>5. got[k + 1] = [out |-> out \o page, more |-> full]
    BY <2>2, <2>4
  <2>6. got[k + 1].more = full
    BY <2>5
  <2>7. full <=> Len(page) = P
    BY <2>4
  <2> QED
    BY <2>3, <2>6, <2>7
<1>5. q \in Nat /\ (k + 1) * P = q + P
  BY <1>1
<1> HIDE DEF q, reach
<1>6. c \in Nat /\ c <= n
  BY <1>2, <1>3, <1>5
<1> HIDE DEF n
<1>7. out \in Seq(X) /\ Len(out) = c
  <2>1. \A i \in 1..c : ranking[i] \in X
    BY <1>1, <1>6, ElementOfSeq DEF n
  <2>2. SubSeq(ranking, 1, c) \in Seq(X) /\ Len(SubSeq(ranking, 1, c)) = IF 1 <= c THEN c - 1 + 1 ELSE 0
    <3> HIDE DEF c
    <3>1. c \in Int /\ 1 \in Int
      BY <1>6
    <3> QED
      BY <2>1, <3>1, SubSeqProperties
  <2> HIDE DEF c
  <2> QED
    BY <1>3, <1>6, <2>2
<1>8. left = limit - c
  BY <1>7
<1>9. CASE page = <<>> /\ c = reach
  <2>1. got[k + 1].more = FALSE /\ got[k + 1].out = out
    <3> HIDE DEF page, out
    <3>1. Len(page) = 0 /\ out \o page = out
      BY <1>7, <1>9, EmptySeq, ConcatEmptySeq
    <3>2. ~got[k + 1].more
      BY <1>1, <1>4, <3>1
    <3> QED
      BY <1>4, <3>1, <3>2
  <2>2. out = SubSeq(ranking, 1, reach)
    BY <1>3, <1>9
  <2> HIDE DEF page, out, c
  <2> QED
    BY <1>2, <2>1, <2>2 DEF PagesRead, reach
<1>10. CASE ~got[k].more
  BY <1>9, <1>10
<1>11. CASE got[k].more /\ left <= 0
  <2>1. c = reach
    BY <1>1, <1>2, <1>3, <1>6, <1>8, <1>11
  <2> QED
    BY <1>9, <1>11, <2>1
<1>12. CASE got[k].more /\ k + 1 = failing
  <2>1. failing # 0 /\ P * (failing - 1) = q
    <3>1. failing - 1 = k /\ failing # 0
      BY <1>12
    <3> QED
      BY <1>1, <3>1 DEF q
  <2>2. c = reach
    BY <1>2, <1>3, <1>5, <1>12, <2>1
  <2> QED
    BY <1>9, <1>12, <2>2
<1>13. CASE got[k].more /\ left > 0 /\ k + 1 # failing
  <2> DEFINE hi == Min({q + Min({P, left}), n})
  <2>1. c = q
    BY <1>13
  <2>2. left \in Nat /\ left = limit - q
    BY <1>1, <1>5, <1>8, <1>13, <2>1
  <2>3. hi \in Nat /\ q <= hi /\ hi <= n /\ hi <= q + P /\ hi <= limit
        /\ (hi = q + P \/ hi = limit \/ hi = n)
    <3> HIDE DEF left
    <3> DEFINE m == Min({P, left})
    <3>1. m = IF P <= left THEN P ELSE left
      BY <1>1, <2>2, MinOfTwo
    <3>2. m \in Nat /\ q + m \in Int /\ n \in Int
      BY <1>1, <1>5, <2>2, <3>1
    <3> HIDE DEF m
    <3>3. Min({q + m, n}) = IF q + m <= n THEN q + m ELSE n
      BY <3>2, MinOfTwo
    <3>4. hi = Min({q + m, n})
      BY DEF m
    <3> HIDE DEF hi
    <3> QED
      BY <1>1, <1>5, <1>6, <2>1, <2>2, <3>1, <3>2, <3>3, <3>4
  <2>4. page = SubSeq(ranking, q + 1, hi)
    <3>1. page = Page(ranking, k + 1, left)
      BY <1>1, <1>8, <1>13, <2>2
    <3>2. ((k + 1) - 1) * P = q
      BY DEF q
    <3> HIDE DEF page, left
    <3> QED
      BY <3>1, <3>2 DEF Page, n
  <2> HIDE DEF hi
  <2>5. out \o page = SubSeq(ranking, 1, hi)
    <3>1. 1 \in 1..(Len(ranking) + 1) /\ q \in (1 - 1)..Len(ranking) /\ hi \in q..Len(ranking)
      BY <1>1, <1>5, <2>3 DEF n
    <3>2. SubSeq(ranking, 1, q) \o SubSeq(ranking, q + 1, hi) = SubSeq(ranking, 1, hi)
      BY <3>1, ConcatAdjacentSubSeq
    <3> QED
      BY <1>3, <2>1, <2>4, <3>2
  <2>6. Len(page) = hi - q
    <3>1. \A i \in (q + 1)..hi : ranking[i] \in X
      <4>1. \A i \in (q + 1)..hi : i \in 1..Len(ranking)
        BY <1>1, <1>5, <2>3 DEF n
      <4> QED
        BY <4>1, ElementOfSeq
    <3>2. q + 1 \in Int /\ hi \in Int
      BY <1>5, <2>3
    <3>3. Len(SubSeq(ranking, q + 1, hi)) = IF q + 1 <= hi THEN hi - (q + 1) + 1 ELSE 0
      BY <3>1, <3>2, SubSeqProperties
    <3> HIDE DEF page
    <3> QED
      BY <1>5, <2>3, <2>4, <3>3
  <2>7. /\ got[k + 1].out = SubSeq(ranking, 1, hi) /\ got[k + 1].more \in BOOLEAN
        /\ got[k + 1].more <=> Len(page) = P
    <3> HIDE DEF page, out
    <3> QED
      BY <1>4, <2>5
  <2> HIDE DEF page, left, out, c
  <2>8. failing # 0 => q + P <= P * (failing - 1)
    <3> SUFFICES ASSUME failing # 0 PROVE q + P <= P * (failing - 1)
      OBVIOUS
    <3> DEFINE pages == failing - 1
    <3>1. pages \in Nat /\ k \in Nat /\ q <= P * pages
      <4>1. pages \in Nat
        BY <1>1
      <4>2. reach <= P * pages /\ q <= reach
        BY <1>2, <1>3, <2>1
      <4> HIDE DEF pages
      <4>3. P * pages \in Nat
        BY <1>1, <4>1
      <4> QED
        BY <1>1, <1>2, <1>5, <4>1, <4>2, <4>3
    <3>2. k + 1 # pages + 1
      BY <1>1, <1>13
    <3> HIDE DEF pages
    <3>3. k <= pages
      <4> SUFFICES ASSUME pages + 1 <= k PROVE FALSE
        BY <3>1
      <4>1. (pages + 1) * P <= k * P
        BY <1>1, <3>1, Products
      <4>2. (pages + 1) * P = P * pages + P /\ P * pages \in Int
        BY <1>1, <3>1
      <4> QED
        BY <1>1, <1>5, <3>1, <4>1, <4>2 DEF q
    <3>4. k + 1 <= pages
      BY <3>1, <3>2, <3>3
    <3>5. (k + 1) * P <= pages * P
      BY <1>1, <3>1, <3>4, Products
    <3>6. pages * P = P * pages
      BY <1>1, <3>1
    <3> QED
      BY <1>5, <3>5, <3>6 DEF pages
  <2>9. CASE hi = q + P
    <3>1. got[k + 1].more = TRUE
      BY <1>1, <1>5, <2>6, <2>7, <2>9
    <3>2. q + P <= reach
      BY <1>1, <1>2, <1>5, <2>3, <2>8, <2>9
    <3>3. got[k + 1].out = SubSeq(ranking, 1, (k + 1) * P)
      BY <1>5, <2>7, <2>9
    <3> QED
      BY <1>5, <3>1, <3>2, <3>3 DEF PagesRead, reach
  <2>10. CASE hi # q + P
    <3>1. got[k + 1].more = FALSE
      BY <1>1, <1>5, <2>3, <2>6, <2>7, <2>10
    <3>2. hi = reach
      BY <1>1, <1>2, <1>5, <2>3, <2>8, <2>10
    <3> QED
      BY <1>2, <2>7, <3>1, <3>2 DEF PagesRead, reach
  <2> QED
    BY <2>9, <2>10
<1> QED
  <2>1. left <= 0 \/ left > 0
    BY <1>1, <1>6, <1>8
  <2> QED
    BY <1>3, <1>10, <1>11, <1>12, <1>13, <2>1

(* The listing is the top of the ranking, as far as the pages reach.        *)
LEMMA ListingIs ==
    ASSUME NEW limit \in Nat, NEW failing \in Nat, NEW X, NEW ranking \in Seq(X)
    PROVE  ListMarkets(ranking, limit, failing) = SubSeq(ranking, 1, Reach(ranking, limit, failing))
<1> DEFINE n == Len(ranking) + 1
           got == CHOOSE f : f = [k \in 0..n |-> Got(ranking, limit, failing, f, k)]
           S == {k \in Nat : k > n \/ PagesRead(ranking, limit, failing, got, k)}
<1>1. ListMarkets(ranking, limit, failing) = got[n].out
  BY DEF ListMarkets, Got, Page
<1>2. n \in Nat /\ Len(ranking) \in Nat /\ GammaPage \in Nat \ {0}
  BY LenProperties, MonitorAssumption
<1>3. got = [k \in 0..n |-> Got(ranking, limit, failing, got, k)]
  <2> HIDE DEF n
  <2> QED
    BY <1>2, PagesExist
<1> HIDE DEF got
<1>4. \A k \in 0..n : got[k] = Got(ranking, limit, failing, got, k)
  BY <1>3
<1>5. 0 \in S
  <2>1. got[0] = [out |-> <<>>, more |-> TRUE]
    <3>1. got[0] = Got(ranking, limit, failing, got, 0)
      BY <1>2, <1>4
    <3> QED
      BY <3>1 DEF Got
  <2>2. got[0].more = TRUE /\ got[0].out = <<>>
    BY <2>1
  <2>3. SubSeq(ranking, 1, 0) = <<>>
    BY SubSeqEmpty
  <2>4. 0 * GammaPage = 0 /\ 0 <= Reach(ranking, limit, failing)
    BY <1>2, ReachIs
  <2> QED
    BY <2>2, <2>3, <2>4 DEF PagesRead
<1>6. ASSUME NEW k \in Nat, k \in S PROVE k + 1 \in S
  <2> SUFFICES ASSUME k + 1 <= n PROVE PagesRead(ranking, limit, failing, got, k + 1)
    BY <1>2
  <2>1. PagesRead(ranking, limit, failing, got, k)
    BY <1>2, <1>6
  <2>2. got[k + 1] = Got(ranking, limit, failing, got, k + 1)
    BY <1>2, <1>4
  <2> QED
    BY <2>1, <2>2, NextPage
<1> HIDE DEF S
<1>7. PagesRead(ranking, limit, failing, got, n)
  <2>1. Nat \subseteq S
    BY <1>5, <1>6, Inductive
  <2> QED
    BY <1>2, <2>1 DEF S
<1> DEFINE reach == Reach(ranking, limit, failing)
<1>8. reach \in Nat /\ reach <= Len(ranking)
  BY ReachIs
<1>9. n * GammaPage > reach
  <2>1. n * 1 <= n * GammaPage
    BY <1>2
  <2> HIDE DEF reach
  <2> QED
    BY <1>2, <1>8, <2>1
<1>10. ~got[n].more /\ got[n].out = SubSeq(ranking, 1, reach)
  <2> HIDE DEF n
  <2>1. n * GammaPage \in Nat
    BY <1>2
  <2>2. got[n].more => n * GammaPage <= reach
    BY <1>7 DEF PagesRead
  <2>3. got[n].more \in BOOLEAN /\ ~got[n].more
    <3>1. got[n].more \in BOOLEAN
      BY <1>7 DEF PagesRead
    <3> HIDE DEF reach
    <3> QED
      BY <1>8, <1>9, <2>1, <2>2, <3>1
  <2> QED
    BY <1>7, <2>3 DEF PagesRead
<1> QED
  BY <1>1, <1>10

-----------------------------------------------------------------------------
(* Sums.                                                                    *)

(* What is summed up of some members.                                       *)
Summed(prices, f, s) ==
    IF s = {} THEN 0
    ELSE LET x == CHOOSE x \in s : TRUE
         IN prices[x] + f[s \ {x}]

LEMMA SumExists ==
    ASSUME NEW S, IsFiniteSet(S), NEW prices
    PROVE  \E f : f = [s \in SUBSET S |-> Summed(prices, f, s)]
<1> DEFINE Small(l) == {s \in SUBSET S : Cardinality(s) <= l}
           T == {l \in Nat : \E f : f = [s \in Small(l) |-> Summed(prices, f, s)]}
<1>1. \A s \in SUBSET S : IsFiniteSet(s) /\ Cardinality(s) \in Nat /\ Cardinality(s) <= Cardinality(S)
  BY FS_Subset, FS_CardinalityType
<1>2. ASSUME NEW s \in SUBSET S, s # {}
      PROVE  LET x == CHOOSE x \in s : TRUE
             IN s \ {x} \in SUBSET S /\ Cardinality(s \ {x}) = Cardinality(s) - 1
  <2> DEFINE x == CHOOSE x \in s : TRUE
  <2>1. x \in s
    BY <1>2
  <2> HIDE DEF x
  <2> QED
    BY <1>1, <2>1, FS_RemoveElement DEF x
<1>3. 0 \in T
  <2>1. \A s \in Small(0) : s = {}
    <3> TAKE s \in Small(0)
    <3>1. IsFiniteSet(s) /\ Cardinality(s) \in Nat /\ Cardinality(s) <= 0
      BY <1>1
    <3> QED
      BY <3>1, FS_EmptySet
  <2> DEFINE f == [s \in Small(0) |-> 0]
  <2>2. \A s \in Small(0) : Summed(prices, f, s) = 0
    BY <2>1 DEF Summed
  <2>3. f = [s \in Small(0) |-> Summed(prices, f, s)]
    <3> HIDE DEF Small
    <3>1. \A s \in Small(0) : f[s] = Summed(prices, f, s)
      BY <2>2
    <3>2. f = [s \in Small(0) |-> f[s]]
      OBVIOUS
    <3> HIDE DEF f
    <3> QED
      BY <3>1, <3>2
  <2> HIDE DEF f
  <2> QED
    BY <2>3
<1>4. ASSUME NEW l \in Nat, l \in T PROVE l + 1 \in T
  <2>1. PICK g : g = [s \in Small(l) |-> Summed(prices, g, s)]
    BY <1>4
  <2> DEFINE f == [s \in Small(l + 1) |-> IF s \in Small(l) THEN g[s] ELSE Summed(prices, g, s)]
  <2>2. Small(l) \subseteq Small(l + 1)
    BY <1>1
  <2>3. \A s \in Small(l) : f[s] = g[s]
    BY <2>2
  <2>4. \A s \in Small(l + 1) : Summed(prices, f, s) = Summed(prices, g, s)
    <3> TAKE s \in Small(l + 1)
    <3>1. CASE s = {}
      BY <3>1 DEF Summed
    <3>2. CASE s # {}
      <4> DEFINE x == CHOOSE x \in s : TRUE
      <4>1. s \ {x} \in Small(l)
        <5>1. s \in SUBSET S /\ Cardinality(s) \in Nat /\ Cardinality(s) <= l + 1
          BY <1>1
        <5>2. s \ {x} \in SUBSET S /\ Cardinality(s \ {x}) = Cardinality(s) - 1
          BY <1>2, <3>2, <5>1
        <5> HIDE DEF x
        <5> QED
          BY <5>1, <5>2
      <4>2. f[s \ {x}] = g[s \ {x}]
        BY <2>3, <4>1
      <4> HIDE DEF f
      <4> QED
        BY <3>2, <4>2 DEF Summed
    <3> QED
      BY <3>1, <3>2
  <2>5. \A s \in Small(l) : g[s] = Summed(prices, g, s)
    BY <2>1
  <2>6. \A s \in Small(l + 1) : f[s] = Summed(prices, f, s)
    <3>1. \A s \in Small(l + 1) : f[s] = Summed(prices, g, s)
      BY <2>5
    <3> HIDE DEF f
    <3> QED
      BY <2>4, <3>1
  <2>7. f = [s \in Small(l + 1) |-> f[s]]
    OBVIOUS
  <2> HIDE DEF f
  <2>8. f = [s \in Small(l + 1) |-> Summed(prices, f, s)]
    BY <2>6, <2>7
  <2> QED
    BY <2>8
<1>5. Small(Cardinality(S)) = SUBSET S
  BY <1>1
<1>6. Cardinality(S) \in T
  <2> HIDE DEF T
  <2>1. Nat \subseteq T
    BY <1>3, <1>4, Inductive
  <2> QED
    BY <2>1, FS_CardinalityType
<1> HIDE DEF Small
<1> QED
  BY <1>5, <1>6

(* A sum of integers is one, and the sum of two is what it says.            *)
LEMMA SumIs ==
    ASSUME NEW prices, IsFiniteSet(DOMAIN prices), \A k \in DOMAIN prices : prices[k] \in Int
    PROVE  /\ SumOf(prices) \in Int
           /\ \A a, b : a # b /\ DOMAIN prices = {a, b} => SumOf(prices) = prices[a] + prices[b]
<1> DEFINE S == DOMAIN prices
           sum == CHOOSE f : f = [s \in SUBSET S |-> Summed(prices, f, s)]
<1>1. SumOf(prices) = sum[S]
  BY DEF SumOf, FoldFunction, FoldFunctionOnSet, MapThenFoldSet, Summed
<1>2. sum = [s \in SUBSET S |-> Summed(prices, sum, s)]
  BY SumExists
<1> HIDE DEF sum
<1>3. \A s \in SUBSET S : sum[s] = Summed(prices, sum, s)
  BY <1>2
<1>4. sum[{}] = 0
  BY <1>3 DEF Summed
<1>5. ASSUME NEW s \in SUBSET S, s # {}
      PROVE  \E x \in s : sum[s] = prices[x] + sum[s \ {x}]
  BY <1>3, <1>5 DEF Summed
<1>6. \A s \in SUBSET S : IsFiniteSet(s) /\ Cardinality(s) \in Nat
  BY FS_Subset, FS_CardinalityType
<1> DEFINE T == {l \in Nat : \A s \in SUBSET S : Cardinality(s) = l => sum[s] \in Int}
<1>7. 0 \in T
  <2>1. ASSUME NEW s \in SUBSET S, Cardinality(s) = 0 PROVE s = {}
    BY <1>6, <2>1, FS_EmptySet
  <2> QED
    BY <1>4, <2>1
<1>8. ASSUME NEW l \in Nat, l \in T PROVE l + 1 \in T
  <2> SUFFICES ASSUME NEW s \in SUBSET S, Cardinality(s) = l + 1 PROVE sum[s] \in Int
    OBVIOUS
  <2>1. s # {}
    BY FS_EmptySet
  <2>2. PICK x \in s : sum[s] = prices[x] + sum[s \ {x}]
    BY <1>5, <2>1
  <2>3. Cardinality(s \ {x}) = l
    BY <1>6, FS_RemoveElement
  <2>4. sum[s \ {x}] \in Int
    BY <1>8, <2>3
  <2> QED
    BY <2>2, <2>4
<1>9. sum[S] \in Int
  <2> HIDE DEF T
  <2>1. Nat \subseteq T
    BY <1>7, <1>8, Inductive
  <2>2. Cardinality(S) \in T
    BY <1>6, <2>1
  <2> QED
    BY <2>2 DEF T
<1>10. ASSUME NEW a, NEW b, a # b, S = {a, b} PROVE sum[S] = prices[a] + prices[b]
  <2>1. \A x \in S : sum[{x}] = prices[x] + 0
    <3> TAKE x \in S
    <3>1. PICK y \in {x} : sum[{x}] = prices[y] + sum[{x} \ {y}]
      <4>1. {x} \in SUBSET S /\ {x} # {}
        OBVIOUS
      <4> QED
        BY <1>5, <4>1
    <3>2. y = x /\ {x} \ {y} = {}
      OBVIOUS
    <3> QED
      BY <1>4, <3>1, <3>2
  <2>2. PICK x \in S : sum[S] = prices[x] + sum[S \ {x}]
    <3>1. S \in SUBSET S /\ S # {}
      BY <1>10
    <3> QED
      BY <1>5, <3>1
  <2>3. (x = a /\ S \ {x} = {b}) \/ (x = b /\ S \ {x} = {a})
    BY <1>10
  <2>4. prices[a] \in Int /\ prices[b] \in Int /\ a \in S /\ b \in S
    BY <1>10
  <2> HIDE DEF S
  <2> QED
    BY <2>1, <2>2, <2>3, <2>4
<1> HIDE DEF S
<1> QED
  BY <1>1, <1>9, <1>10 DEF S

-----------------------------------------------------------------------------
(* Every place is arranged somewhere.                                       *)
LEMMA NonePassedOver ==
    ASSUME NEW places, IsFiniteSet(places), NEW order, StrictlyOrders(order, places),
           NEW at \in [1..Cardinality(places) -> places],
           \A i, j \in 1..Cardinality(places) : i < j => <<at[i], at[j]>> \in order
    PROVE  \A k \in places : \E i \in 1..Cardinality(places) : at[i] = k
<1> DEFINE N == Cardinality(places)
<1>1. N \in Nat
  BY FS_CardinalityType
<1>2. ASSUME NEW i \in 1..N, NEW j \in 1..N, at[i] = at[j] PROVE i = j
  <2>1. <<at[i], at[j]>> \notin order /\ <<at[j], at[i]>> \notin order
    <3>1. at[i] \in places
      OBVIOUS
    <3> QED
      BY <1>2, <3>1 DEF StrictlyOrders
  <2>2. ~(i < j) /\ ~(j < i)
    BY <2>1
  <2> QED
    BY <1>1, <2>2
<1>3. at \in Injection(1..N, places)
  BY <1>2 DEF Injection, IsInjective
<1>4. Cardinality(1..N) = Cardinality(places)
  <2>1. Cardinality(1..N) = N
    <3> HIDE DEF N
    <3> QED
      BY <1>1, FS_Interval
  <2> QED
    BY <2>1
<1>5. at \in Surjection(1..N, places)
  BY <1>3, <1>4, FS_Injection
<1> QED
  BY <1>5 DEF Surjection

LEMMA LevelIs ==
    ASSUME NEW c, ClaimTyped(c)
    PROVE  /\ Level(c) \in {0, 3, 4}
           /\ Level(c) = 4 <=> c.stage = "win"
           /\ Level(c) = 3 <=> c.stage \in {"final", "semifinal", "quarterfinal"}
           /\ Level(c) = 0 <=> c.stage \in {"advance", "beat"}
BY DEF ClaimTyped, Level, StageLevel

(* Of two stages the one of a higher level is further to go.                *)
LEMMA DeeperIsDearer ==
    ASSUME NEW c, NEW d, ClaimTyped(c), ClaimTyped(d), Level(c) > Level(d), c.of = d.of,
           c.stage # "beat", d.stage # "beat"
    PROVE  RiskFree(<<c, d>>)
<1>1. /\ Depth["win"] = 5 /\ Depth["final"] = 4 /\ Depth["semifinal"] = 3
      /\ Depth["quarterfinal"] = 2 /\ Depth["advance"] = 1
  BY DEF Depth
<1>2. /\ Depth[c.stage] \in Nat /\ Depth[d.stage] \in Nat
      /\ Depth[c.stage] >= Depth[d.stage]
  BY <1>1, LevelIs DEF ClaimTyped
<1>3. ASSUME NEW reached \in 0..5 PROVE Pays(d, reached) + 1 - Pays(c, reached) >= 1
  <2>1. reached >= Depth[c.stage] => reached >= Depth[d.stage]
    BY <1>2
  <2>2. Pays(d, reached) = IF reached >= Depth[d.stage] THEN 1 ELSE 0
    BY DEF Pays
  <2>3. Pays(c, reached) = IF reached >= Depth[c.stage] THEN 1 ELSE 0
    BY DEF Pays
  <2> QED
    BY <2>1, <2>2, <2>3
<1> QED
  BY <1>3 DEF RiskFree

(* The chain of the claims at some places: from the highest level down.     *)
StagedAt(claims, places, n, at) ==
    /\ n \in Nat /\ at \in [1..n -> places]
    /\ Staged(claims, places) = [i \in 1..n |-> claims[at[i]]]
    /\ \A i, j \in 1..n : i < j => \/ Level(claims[at[i]]) > Level(claims[at[j]])
                                   \/ Level(claims[at[i]]) = Level(claims[at[j]]) /\ at[i] < at[j]
    /\ \A k \in places : \E i \in 1..n : at[i] = k

LEMMA StagedIs ==
    ASSUME NEW X, NEW claims \in Seq(X), \A c \in X : ClaimTyped(c),
           NEW places \in SUBSET DOMAIN claims
    PROVE  \E n, at : StagedAt(claims, places, n, at)
<1> DEFINE order == StrongestFirst(claims)
           n == Cardinality(places)
           level == [k \in DOMAIN claims |-> Level(claims[k])]
<1>1. DOMAIN claims = 1..Len(claims) /\ Len(claims) \in Nat
  BY LenProperties
<1>2. IsFiniteSet(places)
  <2>1. IsFiniteSet(DOMAIN claims)
    BY <1>1, FS_Interval
  <2> QED
    BY <2>1, FS_Subset
<1>3. n \in Nat
  BY <1>2, FS_CardinalityType
<1>4. \A k \in places : k \in Int /\ level[k] \in Int /\ level[k] = Level(claims[k])
  <2>1. \A k \in places : k \in 1..Len(claims) /\ claims[k] \in X
    BY <1>1, ElementOfSeq
  <2> QED
    BY <1>1, <2>1, LevelIs
<1>5. \A j, k \in places : <<j, k>> \in order <=> level[j] > level[k] \/ (level[j] = level[k] /\ j < k)
  BY <1>4 DEF StrongestFirst
<1> HIDE DEF order, level
<1>6. StrictlyOrders(order, places)
  <2>1. \A j \in places : <<j, j>> \notin order
    BY <1>4, <1>5
  <2>2. \A j, k, l \in places : <<j, k>> \in order /\ <<k, l>> \in order => <<j, l>> \in order
    BY <1>4, <1>5
  <2>3. \A j, k \in places : j # k => <<j, k>> \in order \/ <<k, j>> \in order
    BY <1>4, <1>5
  <2> QED
    BY <2>1, <2>2, <2>3 DEF StrictlyOrders
<1>7. PICK at \in [1..n -> places] :
         /\ Arranged(claims, places, order) = [i \in 1..n |-> claims[at[i]]]
         /\ \A i, j \in 1..n : i < j => <<at[i], at[j]>> \in order
  BY <1>2, <1>6, Arranging
<1>8. \A k \in places : \E i \in 1..n : at[i] = k
  <2>1. \A i, j \in 1..Cardinality(places) : i < j => <<at[i], at[j]>> \in order
    BY <1>7
  <2> QED
    BY <1>2, <1>6, <2>1, NonePassedOver
<1> HIDE DEF n
<1>9. \A i, j \in 1..n : i < j => \/ Level(claims[at[i]]) > Level(claims[at[j]])
                                  \/ Level(claims[at[i]]) = Level(claims[at[j]]) /\ at[i] < at[j]
  <2> TAKE i \in 1..n, j \in 1..n
  <2> HAVE i < j
  <2>1. at[i] \in places /\ at[j] \in places /\ <<at[i], at[j]>> \in order
    BY <1>7
  <2> QED
    BY <1>4, <1>5, <2>1
<1>10. Staged(claims, places) = [i \in 1..n |-> claims[at[i]]]
  BY <1>7 DEF Staged, order
<1>11. StagedAt(claims, places, n, at)
  BY <1>3, <1>7, <1>8, <1>9, <1>10 DEF StagedAt
<1> QED
  BY <1>11

(* What is flagged of such a chain: neighbours of which the first is dearer.*)
LEMMA FlaggedAre ==
    ASSUME NEW claims, NEW places, NEW n, NEW at, StagedAt(claims, places, n, at)
    PROVE  /\ \A v \in Violations(Staged(claims, places)) :
                 \E i \in 1..(n - 1) : /\ v[1] = claims[at[i]] /\ v[2] = claims[at[i + 1]]
                                       /\ v = <<v[1], v[2]>>
           /\ \A i \in 1..(n - 1) : claims[at[i]].price > claims[at[i + 1]].price + Tolerance =>
                 <<claims[at[i]], claims[at[i + 1]]>> \in Violations(Staged(claims, places))
<1>1. PICK chain : chain = Staged(claims, places)
  OBVIOUS
<1>2. n \in Nat /\ chain = [i \in 1..n |-> claims[at[i]]]
  BY <1>1 DEF StagedAt
<1>3. Len(chain) = n /\ \A i \in 1..(n - 1) : chain[i] = claims[at[i]] /\ chain[i + 1] = claims[at[i + 1]]
  BY <1>2
<1>4. Violations(chain) = {<<chain[i], chain[i + 1]>> : i \in {i \in 1..(n - 1) :
                                             chain[i].price > chain[i + 1].price + Tolerance}}
  BY <1>3 DEF Violations
<1> QED
  BY <1>1, <1>3, <1>4

LEMMA ImplicationsAreFree ==
    ASSUME NEW X, NEW claims \in Seq(X), \A c \in X : ClaimTyped(c),
           NEW e, \A k \in DOMAIN claims : claims[k].vs # e,
           NEW v \in EntityImplication(claims, e), v[1].stage # "beat", v[2].stage # "beat"
    PROVE  RiskFree(v)
<1> DEFINE cluster == {k \in DOMAIN claims : e \in {claims[k].of, claims[k].vs}}
<1>1. v \in Violations(Staged(claims, cluster)) /\ Level(v[1]) > Level(v[2])
  BY DEF EntityImplication
<1>2. \A k \in cluster : k \in DOMAIN claims /\ claims[k].of = e /\ ClaimTyped(claims[k])
  <2>1. \A k \in DOMAIN claims : claims[k] \in X
    BY LenProperties, ElementOfSeq
  <2> QED
    BY <2>1
<1>3. cluster \in SUBSET DOMAIN claims
  OBVIOUS
<1> HIDE DEF cluster
<1>4. PICK n, at : StagedAt(claims, cluster, n, at)
  BY <1>3, StagedIs
<1>5. PICK i \in 1..(n - 1) : v[1] = claims[at[i]] /\ v[2] = claims[at[i + 1]] /\ v = <<v[1], v[2]>>
  BY <1>1, <1>4, FlaggedAre
<1>6. n \in Nat /\ i \in 1..n /\ i + 1 \in 1..n /\ at[i] \in cluster /\ at[i + 1] \in cluster
  <2>1. n \in Nat /\ at \in [1..n -> cluster]
    BY <1>4 DEF StagedAt
  <2>2. i \in 1..n /\ i + 1 \in 1..n
    BY <2>1
  <2> QED
    BY <2>1, <2>2
<1>7. /\ ClaimTyped(v[1]) /\ ClaimTyped(v[2]) /\ v[1].of = v[2].of
  BY <1>2, <1>5, <1>6
<1>8. RiskFree(<<v[1], v[2]>>)
  BY <1>1, <1>7, DeeperIsDearer
<1> QED
  BY <1>5, <1>8

(* In the chain of one entity every claim is of a lower level than the ones *)
(* before.                                                                  *)
LEMMA LevelsFall ==
    ASSUME NEW X, NEW claims \in Seq(X), \A c \in X : ClaimTyped(c), NEW e,
           NEW n, NEW at, StagedAt(claims, FirstOfLevel(claims, e), n, at)
    PROVE  /\ n \in Nat
           /\ \A i \in 1..n : /\ ClaimTyped(claims[at[i]]) /\ claims[at[i]].of = e
                              /\ Level(claims[at[i]]) \in {0, 3, 4}
           /\ \A i, j \in 1..n : i < j => Level(claims[at[i]]) > Level(claims[at[j]])
<1> DEFINE places == FirstOfLevel(claims, e)
<1>1. \A k \in places : /\ k \in DOMAIN claims /\ claims[k].of = e
                        /\ \A i \in places : i < k => Level(claims[i]) # Level(claims[k])
  BY DEF FirstOfLevel
<1>2. \A k \in DOMAIN claims : ClaimTyped(claims[k])
  <2>1. \A k \in DOMAIN claims : claims[k] \in X
    BY LenProperties, ElementOfSeq
  <2> QED
    BY <2>1
<1> HIDE DEF places
<1>3. n \in Nat /\ \A i \in 1..n : at[i] \in places
  <2>1. n \in Nat /\ at \in [1..n -> places]
    BY DEF StagedAt, places
  <2> QED
    BY <2>1
<1>4. \A i \in 1..n : /\ ClaimTyped(claims[at[i]]) /\ claims[at[i]].of = e
                      /\ Level(claims[at[i]]) \in {0, 3, 4}
  BY <1>1, <1>2, <1>3, LevelIs
<1>5. \A i, j \in 1..n : i < j => Level(claims[at[i]]) > Level(claims[at[j]])
  <2> TAKE i \in 1..n, j \in 1..n
  <2> HAVE i < j
  <2>1. \/ Level(claims[at[i]]) > Level(claims[at[j]])
        \/ Level(claims[at[i]]) = Level(claims[at[j]]) /\ at[i] < at[j]
    BY DEF StagedAt
  <2>2. at[i] < at[j] => Level(claims[at[i]]) # Level(claims[at[j]])
    BY <1>1, <1>3
  <2> QED
    BY <2>1, <2>2
<1> QED
  BY <1>3, <1>4, <1>5

LEMMA FirstsAreListed ==
    ASSUME NEW claims, NEW e
    PROVE  FirstOfLevel(claims, e) \in SUBSET DOMAIN claims
BY DEF FirstOfLevel

LEMMA ConditionalsAreFree ==
    ASSUME NEW X, NEW claims \in Seq(X), \A c \in X : ClaimTyped(c),
           NEW v \in ConditionalArb(claims), v[1].stage # "beat", v[2].stage # "beat"
    PROVE  RiskFree(v)
<1>1. PICK c \in ToSet(claims) : v \in Violations(ConditionalChain(claims, c.of))
  BY DEF ConditionalArb
<1>2. PICK e : e = c.of
  OBVIOUS
<1>3. v \in Violations(Staged(claims, FirstOfLevel(claims, e)))
  BY <1>1, <1>2 DEF ConditionalChain
<1>4. PICK n, at : StagedAt(claims, FirstOfLevel(claims, e), n, at)
  BY FirstsAreListed, StagedIs
<1>5. PICK i \in 1..(n - 1) : v[1] = claims[at[i]] /\ v[2] = claims[at[i + 1]] /\ v = <<v[1], v[2]>>
  BY <1>3, <1>4, FlaggedAre
<1>6. /\ n \in Nat
      /\ \A j \in 1..n : ClaimTyped(claims[at[j]]) /\ claims[at[j]].of = e
      /\ \A j, k \in 1..n : j < k => Level(claims[at[j]]) > Level(claims[at[k]])
  BY <1>4, LevelsFall
<1>7. i \in 1..n /\ i + 1 \in 1..n /\ i < i + 1
  BY <1>6
<1>8. ClaimTyped(v[1]) /\ ClaimTyped(v[2]) /\ v[1].of = v[2].of /\ Level(v[1]) > Level(v[2])
  BY <1>5, <1>6, <1>7
<1>9. RiskFree(<<v[1], v[2]>>)
  BY <1>8, DeeperIsDearer
<1> QED
  BY <1>5, <1>9

(* No claim of this entity and level is listed before this one.             *)
FirstListed(claims, c) ==
    \A k \in DOMAIN claims : claims[k].of = c.of /\ Level(claims[k]) = Level(c) =>
                                \E i \in 1..k : claims[i] = c

LEMMA FirstIsKept ==
    ASSUME NEW X, NEW claims \in Seq(X), NEW c \in ToSet(claims), FirstListed(claims, c)
    PROVE  \E k \in FirstOfLevel(claims, c.of) : claims[k] = c
<1> DEFINE S == {k \in DOMAIN claims : claims[k] = c}
           k == Min(S)
<1>1. DOMAIN claims = 1..Len(claims) /\ Len(claims) \in Nat
  BY LenProperties
<1>2. S \in SUBSET Int /\ IsFiniteSet(S) /\ S # {}
  <2>1. S \in SUBSET (1..Len(claims)) /\ IsFiniteSet(1..Len(claims))
    BY <1>1, FS_Interval
  <2>2. S # {}
    BY DEF ToSet
  <2> QED
    BY <2>1, <2>2, FS_Subset
<1>3. k \in S /\ \A i \in S : k <= i
  <2> HIDE DEF S
  <2> QED
    BY <1>2, MinExists
<1>4. k \in DOMAIN claims /\ claims[k] = c
  BY <1>3
<1> HIDE DEF k
<1>5. ASSUME NEW i \in DOMAIN claims, claims[i].of = c.of, i < k PROVE Level(claims[i]) # Level(claims[k])
  <2> SUFFICES ASSUME Level(claims[i]) = Level(claims[k]) PROVE FALSE
    OBVIOUS
  <2>1. PICK j \in 1..i : claims[j] = c
    BY <1>4, <1>5 DEF FirstListed
  <2>2. j \in DOMAIN claims /\ j < k
    BY <1>1, <1>4, <1>5
  <2>3. j \in S
    BY <2>1, <2>2
  <2> QED
    BY <1>1, <1>3, <1>4, <2>2, <2>3
<1>6. k \in FirstOfLevel(claims, c.of)
  BY <1>4, <1>5 DEF FirstOfLevel
<1> QED
  BY <1>4, <1>6

(* A claim that is dearer than a weaker one by more than the steps between  *)
(* them allow is flagged somewhere in between.                              *)
LEMMA DearIsFlagged ==
    ASSUME NEW X, NEW claims \in Seq(X), \A x \in X : ClaimTyped(x),
           NEW c \in ToSet(claims), NEW d \in ToSet(claims), c.of = d.of,
           FirstListed(claims, c), FirstListed(claims, d),
           Level(c) > Level(d), c.price > d.price + 2 * Tolerance
    PROVE  \E pair \in ConditionalArb(claims) : pair[1].of = c.of
<1>1. PICK e : e = c.of
  OBVIOUS
<1>2. PICK n, at : StagedAt(claims, FirstOfLevel(claims, e), n, at)
  BY FirstsAreListed, StagedIs
<1> DEFINE level == [i \in 1..n |-> Level(claims[at[i]])]
           price == [i \in 1..n |-> claims[at[i]].price]
<1>3. /\ n \in Nat
      /\ \A i \in 1..n : /\ claims[at[i]].of = e /\ price[i] = claims[at[i]].price
                         /\ price[i] \in Int /\ level[i] \in {0, 3, 4}
      /\ \A i, j \in 1..n : i < j => level[i] > level[j]
  <2>1. /\ n \in Nat
        /\ \A i \in 1..n : /\ ClaimTyped(claims[at[i]]) /\ claims[at[i]].of = e
                           /\ Level(claims[at[i]]) \in {0, 3, 4}
        /\ \A i, j \in 1..n : i < j => Level(claims[at[i]]) > Level(claims[at[j]])
    BY <1>2, LevelsFall
  <2> QED
    BY <2>1 DEF ClaimTyped
<1>4. PICK ic \in 1..n : claims[at[ic]] = c
  <2>1. PICK k \in FirstOfLevel(claims, e) : claims[k] = c
    BY <1>1, FirstIsKept
  <2> QED
    BY <1>2, <2>1 DEF StagedAt
<1>5. PICK id \in 1..n : claims[at[id]] = d
  <2>1. PICK k \in FirstOfLevel(claims, e) : claims[k] = d
    BY <1>1, FirstIsKept
  <2> QED
    BY <1>2, <2>1 DEF StagedAt
<1>6. /\ level[ic] > level[id] /\ price[ic] > price[id] + 2 * Tolerance
      /\ Tolerance \in Nat
  BY <1>4, <1>5, ScannersAssumption
<1> HIDE DEF level, price
<1>7. ic < id
  <2>1. ic \in Int /\ id \in Int /\ level[ic] \in Int /\ level[id] \in Int
    BY <1>3
  <2>2. ~(id < ic) /\ id # ic
    BY <1>3, <1>6, <2>1
  <2> QED
    BY <2>1, <2>2
<1>8. id = ic + 1 \/ id = ic + 2
  <2> SUFFICES ASSUME id >= ic + 3 PROVE FALSE
    BY <1>3, <1>7
  <2>1. ic + 1 \in 1..n /\ ic + 2 \in 1..n
    BY <1>3
  <2>2. level[ic] > level[ic + 1] /\ level[ic + 1] > level[ic + 2] /\ level[ic + 2] > level[id]
    <3>1. ic < ic + 1 /\ ic + 1 < ic + 2 /\ ic + 2 < id
      BY <1>3
    <3> QED
      BY <1>3, <2>1, <3>1
  <2>3. /\ level[ic] \in {0, 3, 4} /\ level[ic + 1] \in {0, 3, 4}
        /\ level[ic + 2] \in {0, 3, 4} /\ level[id] \in {0, 3, 4}
    BY <1>3, <2>1
  <2> QED
    BY <2>2, <2>3
<1>9. PICK i \in 1..(n - 1) : price[i] > price[i + 1] + Tolerance
  <2>1. CASE id = ic + 1
    <3>1. ic \in 1..(n - 1)
      BY <1>3, <2>1
    <3> QED
      BY <1>3, <1>6, <2>1, <3>1
  <2>2. CASE id = ic + 2
    <3>1. ic \in 1..(n - 1) /\ ic + 1 \in 1..(n - 1) /\ ic + 1 \in 1..n /\ (ic + 1) + 1 = id
      BY <1>3, <2>2
    <3>2. price[ic] > price[ic + 1] + Tolerance \/ price[ic + 1] > price[id] + Tolerance
      BY <1>3, <1>6, <3>1
    <3> QED
      BY <3>1, <3>2
  <2> QED
    BY <1>8, <2>1, <2>2
<1>10. i \in 1..n /\ i + 1 \in 1..n
  BY <1>3
<1>11. claims[at[i]].price > claims[at[i + 1]].price + Tolerance
  BY <1>3, <1>9, <1>10
<1>12. <<claims[at[i]], claims[at[i + 1]]>> \in Violations(Staged(claims, FirstOfLevel(claims, e)))
  BY <1>2, <1>11, FlaggedAre
<1>13. <<claims[at[i]], claims[at[i + 1]]>> \in ConditionalArb(claims)
  BY <1>1, <1>12 DEF ConditionalArb, ConditionalChain
<1> DEFINE pair == <<claims[at[i]], claims[at[i + 1]]>>
<1>14. pair[1].of = c.of
  BY <1>1, <1>3, <1>10
<1> HIDE DEF pair
<1> QED
  BY <1>13, <1>14 DEF pair

-----------------------------------------------------------------------------
(* What is selected of a list, in its order.                                *)
SelectedAt(seq, places, n, at) ==
    /\ n \in Nat /\ n = Cardinality(places) /\ at \in [1..n -> places]
    /\ Selected(seq, places) = [i \in 1..n |-> seq[at[i]]]
    /\ \A i, j \in 1..n : i < j => at[i] < at[j]
    /\ \A k \in places : \E i \in 1..n : at[i] = k

LEMMA SelectedIs ==
    ASSUME NEW X, NEW seq \in Seq(X), NEW places \in SUBSET DOMAIN seq
    PROVE  \E n, at : SelectedAt(seq, places, n, at)
<1> DEFINE order == AsListed(seq)
           n == Cardinality(places)
<1>1. DOMAIN seq = 1..Len(seq) /\ Len(seq) \in Nat
  BY LenProperties
<1>2. IsFiniteSet(places)
  <2>1. IsFiniteSet(DOMAIN seq)
    BY <1>1, FS_Interval
  <2> QED
    BY <2>1, FS_Subset
<1>3. n \in Nat
  BY <1>2, FS_CardinalityType
<1>4. \A k \in places : k \in Nat
  BY <1>1
<1>5. \A j, k \in places : <<j, k>> \in order <=> j < k
  BY DEF AsListed
<1> HIDE DEF order
<1>6. StrictlyOrders(order, places)
  BY <1>4, <1>5 DEF StrictlyOrders
<1>7. PICK at \in [1..n -> places] :
         /\ Arranged(seq, places, order) = [i \in 1..n |-> seq[at[i]]]
         /\ \A i, j \in 1..n : i < j => <<at[i], at[j]>> \in order
  BY <1>2, <1>6, Arranging
<1>8. \A k \in places : \E i \in 1..n : at[i] = k
  <2>1. \A i, j \in 1..Cardinality(places) : i < j => <<at[i], at[j]>> \in order
    BY <1>7
  <2> QED
    BY <1>2, <1>6, <2>1, NonePassedOver
<1>9. n = Cardinality(places)
  OBVIOUS
<1> HIDE DEF n
<1>10. \A i, j \in 1..n : i < j => at[i] < at[j]
  BY <1>5, <1>7
<1>11. Selected(seq, places) = [i \in 1..n |-> seq[at[i]]]
  BY <1>7 DEF Selected, order
<1>12. SelectedAt(seq, places, n, at)
  BY <1>3, <1>7, <1>8, <1>9, <1>10, <1>11 DEF SelectedAt
<1> QED
  BY <1>12

LEMMA AtMostOne ==
    ASSUME NEW S, IsFiniteSet(S), \A x, y \in S : x = y
    PROVE  Cardinality(S) \in {0, 1}
<1>1. CASE S = {}
  BY <1>1, FS_EmptySet
<1>2. CASE S # {}
  <2>1. PICK x \in S : S = {x}
    BY <1>2
  <2> QED
    BY <2>1, FS_Singleton
<1> QED
  BY <1>1, <1>2

(* What costs more than a dollar and a cent, costs more than a dollar.      *)
LEMMA MoreThanPaid ==
    ASSUME NEW sum \in Int, Overround(sum), NEW paid \in {0, 1}
    PROVE  sum > 100 * Tolerance * paid
<1>1. Tolerance \in Nat /\ sum > 101 * Tolerance
  BY ScannersAssumption DEF Overround
<1>2. CASE paid = 0
  BY <1>1, <1>2
<1>3. CASE paid = 1
  BY <1>1, <1>3
<1> QED
  BY <1>2, <1>3

Prices(sold) == [k \in DOMAIN sold |-> sold[k].price]

LEMMA PricesTyped ==
    ASSUME NEW X, NEW seq \in Seq(X), \A x \in X : x.price \in Int,
           NEW places \in SUBSET DOMAIN seq
    PROVE  LET sold == Selected(seq, places)
           IN /\ IsFiniteSet(DOMAIN sold) /\ SumOf(Prices(sold)) \in Int
              /\ \A a, b : a # b /\ DOMAIN sold = {a, b} =>
                    SumOf(Prices(sold)) = sold[a].price + sold[b].price
<1>1. PICK sold : sold = Selected(seq, places)
  OBVIOUS
<1>2. PICK n, at : SelectedAt(seq, places, n, at)
  BY SelectedIs
<1>3. /\ n \in Nat /\ DOMAIN sold = 1..n
      /\ \A k \in 1..n : sold[k] = seq[at[k]] /\ at[k] \in DOMAIN seq
  BY <1>1, <1>2 DEF SelectedAt
<1>4. \A k \in DOMAIN sold : sold[k].price \in Int
  <2>1. \A k \in DOMAIN seq : seq[k] \in X
    BY LenProperties, ElementOfSeq
  <2> QED
    BY <1>3, <2>1
<1>5. IsFiniteSet(DOMAIN sold)
  BY <1>3, FS_Interval
<1>6. DOMAIN Prices(sold) = DOMAIN sold /\ \A k \in DOMAIN sold : Prices(sold)[k] = sold[k].price
  BY DEF Prices
<1>7. /\ SumOf(Prices(sold)) \in Int
      /\ \A a, b : a # b /\ DOMAIN Prices(sold) = {a, b} =>
            SumOf(Prices(sold)) = Prices(sold)[a] + Prices(sold)[b]
  <2>1. IsFiniteSet(DOMAIN Prices(sold)) /\ \A k \in DOMAIN Prices(sold) : Prices(sold)[k] \in Int
    BY <1>4, <1>5, <1>6
  <2> QED
    BY <2>1, SumIs
<1>8. ASSUME NEW a, NEW b, a # b, DOMAIN sold = {a, b}
      PROVE  SumOf(Prices(sold)) = sold[a].price + sold[b].price
  <2>1. SumOf(Prices(sold)) = Prices(sold)[a] + Prices(sold)[b]
    BY <1>6, <1>7, <1>8
  <2> QED
    BY <1>6, <1>8, <2>1
<1> QED
  BY <1>1, <1>5, <1>7, <1>8

(* All scores of a match sold bring more than a result pays.                *)
LEMMA ScoresOverround ==
    ASSUME NEW X, NEW scores \in Seq(X), \A x \in X : x.price \in Int, NEW teams,
           Overround(SumOf(Prices(ScoresOf(scores, teams)))), NEW result,
           ScoresPaid(ScoresOf(scores, teams), result) <= 1
    PROVE  SumOf(Prices(ScoresOf(scores, teams)))
              > 100 * Tolerance * ScoresPaid(ScoresOf(scores, teams), result)
<1> DEFINE places == {k \in DOMAIN scores : {scores[k].a, scores[k].b} = teams}
           listed == ScoresOf(scores, teams)
           sum == SumOf(Prices(listed))
           paid == ScoresPaid(listed, result)
<1>1. listed = Selected(scores, places) /\ places \in SUBSET DOMAIN scores
  BY DEF ScoresOf
<1> HIDE DEF places
<1>2. IsFiniteSet(DOMAIN Selected(scores, places)) /\ SumOf(Prices(Selected(scores, places))) \in Int
  BY <1>1, PricesTyped
<1>3. IsFiniteSet(DOMAIN listed) /\ sum \in Int
  BY <1>1, <1>2
<1>4. paid \in Nat
  <2> DEFINE S == {k \in DOMAIN listed : /\ result[listed[k].a] = listed[k].goals[1]
                                         /\ result[listed[k].b] = listed[k].goals[2]}
  <2>1. S \in SUBSET DOMAIN listed
    OBVIOUS
  <2>2. Cardinality(S) \in Nat
    <3> HIDE DEF S, listed
    <3> QED
      BY <1>3, <2>1, FS_Subset, FS_CardinalityType
  <2> QED
    BY <2>2 DEF ScoresPaid
<1>5. paid \in {0, 1}
  <2>1. paid <= 1
    OBVIOUS
  <2> HIDE DEF paid
  <2> QED
    BY <1>4, <2>1
<1>6. Overround(sum)
  OBVIOUS
<1> HIDE DEF sum, paid
<1>7. sum > 100 * Tolerance * paid
  BY <1>3, <1>5, <1>6, MoreThanPaid
<1> QED
  BY <1>7 DEF sum, paid, listed

LEMMA WinnerIs ==
    ASSUME NEW X, NEW wins \in Seq(X), NEW team, NEW p \in WinnerPrice(wins, team)
    PROVE  \E k \in DOMAIN wins : wins[k].team = team /\ wins[k].price = p
<1> DEFINE of == {k \in DOMAIN wins : wins[k].team = team}
<1>1. of # {} /\ p = wins[Max(of)].price
  BY DEF WinnerPrice
<1>2. of \in SUBSET Int /\ IsFiniteSet(of)
  <2>1. of \in SUBSET (1..Len(wins)) /\ Len(wins) \in Nat
    BY LenProperties
  <2> HIDE DEF of
  <2>2. IsFiniteSet(1..Len(wins))
    BY <2>1, FS_Interval
  <2>3. IsFiniteSet(of)
    BY <2>1, <2>2, FS_Subset
  <2>4. of \in SUBSET Int
    BY <2>1
  <2> QED
    BY <2>3, <2>4
<1>3. Max(of) \in of
  <2> HIDE DEF of
  <2> QED
    BY <1>1, <1>2, MaxExists
<1> QED
  BY <1>1, <1>3

WinsOf(wins, teams) == Selected(wins, {k \in DOMAIN wins : wins[k].team \in teams})

(* Both winners of a match sold bring more than a result pays.              *)
LEMMA WinsOverround ==
    ASSUME NEW X, NEW wins \in Seq(X), \A x \in X : x.price \in Int,
           NEW a, NEW b, a # b, NEW p \in WinnerPrice(wins, a), NEW q \in WinnerPrice(wins, b),
           Overround(p + q), NEW result \in [{a, b} -> 0..2], Len(WinsOf(wins, {a, b})) = 2
    PROVE  SumOf(Prices(WinsOf(wins, {a, b}))) > 100 * Tolerance * WinsPaid(WinsOf(wins, {a, b}), result)
<1> DEFINE places == {k \in DOMAIN wins : wins[k].team \in {a, b}}
<1>1. PICK sold : sold = WinsOf(wins, {a, b}) /\ sold = Selected(wins, places)
  BY DEF WinsOf
<1>2. PICK ka \in DOMAIN wins : wins[ka].team = a /\ wins[ka].price = p
  BY WinnerIs
<1>3. PICK kb \in DOMAIN wins : wins[kb].team = b /\ wins[kb].price = q
  BY WinnerIs
<1>4. ka \in places /\ kb \in places /\ ka # kb /\ places \in SUBSET DOMAIN wins
  BY <1>2, <1>3
<1>5. Len(sold) = 2
  BY <1>1
<1>6. \A k \in places : wins[k].team \in {a, b}
  OBVIOUS
<1>7. PICK n, at : SelectedAt(wins, places, n, at)
  BY <1>4, SelectedIs
<1> HIDE DEF places
<1>8. /\ n = 2 /\ DOMAIN sold = {1, 2}
      /\ sold[1] = wins[at[1]] /\ sold[2] = wins[at[2]]
      /\ \E i \in 1..2 : at[i] = ka
      /\ \E i \in 1..2 : at[i] = kb
  <2>1. n \in Nat /\ sold = [i \in 1..n |-> wins[at[i]]]
    BY <1>1, <1>7 DEF SelectedAt
  <2>2. Len(sold) = n /\ DOMAIN sold = 1..n
    BY <2>1
  <2>3. n = 2 /\ 1..2 = {1, 2}
    <3>1. n = 2
      BY <1>5, <2>2
    <3>2. 1..2 = {1, 2}
      OBVIOUS
    <3> QED
      BY <3>1, <3>2
  <2>4. \A k \in places : \E i \in 1..n : at[i] = k
    BY <1>7 DEF SelectedAt
  <2> QED
    BY <1>4, <2>1, <2>2, <2>3, <2>4
<1>9. (at[1] = ka /\ at[2] = kb) \/ (at[1] = kb /\ at[2] = ka)
  BY <1>4, <1>8
<1>10. p \in Int /\ q \in Int
  <2>1. wins[ka] \in X /\ wins[kb] \in X
    BY LenProperties, ElementOfSeq
  <2> QED
    BY <1>2, <1>3, <2>1
<1>11. sold[1].price + sold[2].price = p + q
  BY SMTT(30), <1>2, <1>3, <1>8, <1>9, <1>10
<1> DEFINE sum == SumOf(Prices(sold))
           paid == WinsPaid(sold, result)
<1>12. sum = p + q
  <2>1. 1 # 2 /\ DOMAIN sold = {1, 2}
    BY <1>8
  <2>2. SumOf(Prices(sold)) = sold[1].price + sold[2].price
    <3>1. sold = Selected(wins, places)
      BY <1>1
    <3> QED
      BY <1>4, <2>1, <3>1, PricesTyped
  <2> QED
    BY <1>11, <2>2
<1>13. paid \in {0, 1}
  <2> DEFINE S == {k \in DOMAIN sold : \A t \in DOMAIN result \ {sold[k].team} :
                                          result[sold[k].team] > result[t]}
  <2>1. DOMAIN result = {a, b} /\ result[a] \in 0..2 /\ result[b] \in 0..2
    OBVIOUS
  <2>2. (sold[1].team = a /\ sold[2].team = b) \/ (sold[1].team = b /\ sold[2].team = a)
    BY <1>2, <1>3, <1>8, <1>9
  <2>3. ~(1 \in S /\ 2 \in S)
    BY <1>8, <2>1, <2>2
  <2>4. S \in SUBSET {1, 2} /\ IsFiniteSet({1, 2})
    <3>1. {1, 2} = 1..2
      OBVIOUS
    <3>2. IsFiniteSet(1..2)
      <4>1. 1 \in Int /\ 2 \in Int
        OBVIOUS
      <4> QED
        BY <4>1, FS_Interval
    <3> QED
      BY <1>8, <3>1, <3>2
  <2>5. paid = Cardinality(S)
    BY DEF WinsPaid
  <2> HIDE DEF S, paid
  <2>6. IsFiniteSet(S) /\ \A x, y \in S : x = y
    BY <2>3, <2>4, FS_Subset
  <2> QED
    BY <2>5, <2>6, AtMostOne
<1> HIDE DEF sum, paid
<1>14. sum \in Int /\ Overround(sum)
  BY <1>10, <1>12
<1>15. sum > 100 * Tolerance * paid
  BY <1>13, <1>14, MoreThanPaid
<1> QED
  BY <1>1, <1>15 DEF sum, paid

-----------------------------------------------------------------------------
(* Only the elements at the places and their order count.                   *)
LEMMA SameArranged ==
    ASSUME NEW a, NEW b, NEW places, IsFiniteSet(places), NEW o1, NEW o2,
           StrictlyOrders(o1, places),
           \A j, k \in places : <<j, k>> \in o1 <=> <<j, k>> \in o2,
           \A k \in places : a[k] = b[k]
    PROVE  Arranged(a, places, o1) = Arranged(b, places, o2)
<1> DEFINE n == Cardinality(places)
           Nth(order, i) == CHOOSE k \in places : Cardinality(Ahead(order, places, k)) = i - 1
<1>1. n \in Nat
  BY FS_CardinalityType
<1>2. StrictlyOrders(o2, places)
  BY DEF StrictlyOrders
<1>3. \A k \in places : Ahead(o1, places, k) = Ahead(o2, places, k)
  BY DEF Ahead
<1>4. ASSUME NEW i \in 1..n
      PROVE  /\ Nth(o1, i) \in places /\ Cardinality(Ahead(o1, places, Nth(o1, i))) = i - 1
             /\ Nth(o2, i) \in places /\ Cardinality(Ahead(o2, places, Nth(o2, i))) = i - 1
  <2>1. i - 1 \in 0..(Cardinality(places) - 1)
    BY <1>1
  <2> QED
    BY <1>2, <2>1, RankTaken
<1>5. ASSUME NEW i \in 1..n PROVE Nth(o1, i) = Nth(o2, i)
  <2> DEFINE j == Nth(o1, i)
             k == Nth(o2, i)
  <2>1. /\ j \in places /\ Cardinality(Ahead(o1, places, j)) = i - 1
        /\ k \in places /\ Cardinality(Ahead(o1, places, k)) = i - 1
    BY <1>3, <1>4
  <2> HIDE DEF j, k
  <2>2. <<j, k>> \notin o1 /\ <<k, j>> \notin o1
    BY <2>1, RanksGrow
  <2>3. j = k
    BY <2>1, <2>2 DEF StrictlyOrders
  <2> QED
    BY <2>3 DEF j, k
<1>6. /\ Arranged(a, places, o1) = [i \in 1..n |-> a[Nth(o1, i)]]
      /\ Arranged(b, places, o2) = [i \in 1..n |-> b[Nth(o2, i)]]
  BY DEF Arranged, Ahead
<1>7. \A i \in 1..n : a[Nth(o1, i)] = b[Nth(o2, i)]
  BY <1>4, <1>5
<1> HIDE DEF Nth, n
<1> QED
  BY <1>6, <1>7

(* In a history in order, what is older than a candle is all listed before  *)
(* it: the history of a prediction depends on its moment alone.             *)
LEMMA HistoryOfMoment ==
    ASSUME NEW o \in Seq(Candlestick), InTime(o), NEW i \in 0..(Len(o) - 1)
    PROVE  History(o, i) = Before(o, o[i + 1].ts)
<1>1. PICK first : first = SubSeq(o, 1, i)
  OBVIOUS
<1>2. PICK t \in Int : t = o[i + 1].ts
  BY HistoryIs
<1>3. /\ first \in Seq(Candlestick) /\ Len(first) = i
      /\ \A k \in 1..i : first[k] = o[k] /\ k \in DOMAIN o
  BY <1>1, PrefixIs
<1>4. Len(o) \in Nat /\ DOMAIN o = 1..Len(o) /\ DOMAIN first = 1..i /\ i \in Nat /\ i + 1 \in DOMAIN o
  BY <1>3
<1>5. \A k \in DOMAIN o : o[k].ts \in Int /\ (k > i + 1 => o[k].ts >= t)
  <2>1. \A k \in DOMAIN o : o[k].ts \in Int
    BY CandlesTyped
  <2> QED
    BY <1>2, <1>4, <2>1 DEF InTime
<1>6. Older(first, t) = Older(o, t)
  <2>1. \A k \in Older(o, t) : k \in 1..i
    BY <1>2, <1>4, <1>5 DEF Older
  <2> QED
    BY <1>3, <1>4, <2>1 DEF Older
<1>7. PICK places : places = Older(o, t)
  OBVIOUS
<1>8. /\ IsFiniteSet(places) /\ StrictlyOrders(AsListed(first), places)
      /\ \A j, k \in places : <<j, k>> \in AsListed(first) <=> <<j, k>> \in AsListed(o)
      /\ \A k \in places : first[k] = o[k]
  <2>1. IsFiniteSet(places)
    BY <1>7, OlderFinite
  <2>2. /\ StrictlyOrders(AsListed(first), places)
        /\ \A j, k \in places : <<j, k>> \in AsListed(first) <=> j < k
    BY <1>3, <1>6, <1>7, ListedOrders
  <2>3. \A j, k \in places : <<j, k>> \in AsListed(o) <=> j < k
    BY <1>7, ListedOrders
  <2>4. \A k \in places : k \in 1..i
    BY <1>4, <1>6, <1>7 DEF Older
  <2> QED
    BY <1>3, <2>1, <2>2, <2>3, <2>4
<1>9. Arranged(first, places, AsListed(first)) = Arranged(o, places, AsListed(o))
  BY <1>8, SameArranged
<1> QED
  BY <1>1, <1>2, <1>6, <1>7, <1>9 DEF History, Before, Selected

(* Two windows at one moment are one.                                       *)
LEMMA OneWindow ==
    ASSUME NEW c \in Seq(Candlestick), NEW resolution \in Int, NEW least \in Nat \ {0}, NEW policy,
           NEW v \in Windows(c, resolution, least, policy),
           NEW w \in Windows(c, resolution, least, policy), v.asOf = w.asOf
    PROVE  v = w
<1>1. PICK o : o = Ordered(c, resolution)
  OBVIOUS
<1>2. o \in Seq(Candlestick) /\ InTime(o)
  BY <1>1, OrderedIs
<1>3. PICK i : WindowAt(o, least, v, i)
  BY <1>1, WindowIsAt
<1>4. PICK j : WindowAt(o, least, w, j)
  BY <1>1, WindowIsAt
<1>5. i \in 0..(Len(o) - 1) /\ j \in 0..(Len(o) - 1)
  BY <1>3, <1>4 DEF WindowAt
<1>6. /\ v = Window(o[i + 1].ts, Before(o, o[i + 1].ts))
      /\ w = Window(o[j + 1].ts, Before(o, o[j + 1].ts))
  BY <1>2, <1>3, <1>4, <1>5, HistoryOfMoment DEF WindowAt
<1>7. o[i + 1].ts = o[j + 1].ts
  BY <1>6 DEF Window
<1> QED
  BY <1>6, <1>7

(* No window is dropped because another is not point-in-time.               *)
LEMMA NoneDropped ==
    ASSUME NEW market, market.candles \in Seq(Candlestick), market.resolution \in Int,
           NEW least \in Nat \ {0}, NEW policy
    PROVE  BuildHistoricalCollections(market, least, policy)
           = {Collection(w, market.trades, market.news) :
                 w \in Windows(market.candles, market.resolution, least, policy)}
<1>1. ASSUME NEW w \in Windows(market.candles, market.resolution, least, policy)
      PROVE  ~(Last(w.candles).ts >= w.asOf \/ w.asOf >= market.resolution)
  <2>1. /\ w.asOf \in Int /\ w.asOf < market.resolution
        /\ w.candles \in Seq(Candlestick) /\ Len(w.candles) >= least
        /\ \A k \in DOMAIN w.candles : w.candles[k].ts < w.asOf
    BY WindowsAre
  <2>2. Len(w.candles) \in DOMAIN w.candles
    BY <2>1
  <2>3. Last(w.candles).ts \in Int /\ Last(w.candles).ts < w.asOf
    BY <2>1, <2>2, CandlesTyped DEF Last
  <2> QED
    BY <2>1, <2>3
<1> QED
  BY <1>1 DEF BuildHistoricalCollections

(* The middle is among the candidates of every policy.                      *)
LEMMA MidIsCandidate ==
    ASSUME NEW n \in Nat, NEW policy
    PROVE  n \div 2 \in Candidates(policy, n)
<1>1. CeilDiv((n - 1) * 2, 4) = n \div 2
  <2>1. CeilDiv((n - 1) * 2, 4) = (2 * n + 1) \div 4
    BY DEF CeilDiv
  <2>2. (2 * n + 1) \div 4 = n \div 2
    OBVIOUS
  <2> QED
    BY <2>1, <2>2
<1> QED
  BY <1>1 DEF Candidates

(* Every candidate with enough history and a price is a window.             *)
LEMMA CandidateIsWindow ==
    ASSUME NEW c \in Seq(Candlestick), NEW resolution \in Int, NEW least \in Nat \ {0}, NEW policy,
           NEW o, o = Ordered(c, resolution), Len(o) >= least + 1,
           NEW j \in Candidates(policy, Len(o)), NEW i, i = Clamped(j, least, Len(o)),
           Len(History(o, i)) >= least, Priced(History(o, i))
    PROVE  Window(o[i + 1].ts, History(o, i)) \in Windows(c, resolution, least, policy)
<1> DEFINE n == Len(o)
           indices == {Clamped(q, least, n) : q \in Candidates(policy, n)}
           good == {q \in indices : Len(History(o, q)) >= least /\ Priced(History(o, q))}
<1>1. n \in Nat /\ ~(n < least + 1)
  <2>1. n \in Nat
    BY OrderedIs
  <2> QED
    BY <2>1
<1>2. Windows(c, resolution, least, policy) = {Window(o[q + 1].ts, History(o, q)) : q \in good}
  BY <1>1 DEF Windows
<1>3. i \in good
  OBVIOUS
<1> HIDE DEF good
<1> QED
  BY <1>2, <1>3

LEMMA MidpointsAreIncluded ==
    ASSUME NEW market, market.candles \in Seq(Candlestick), market.resolution \in Int,
           NEW least \in Nat \ {0}, NEW policy
    PROVE  BuildHistoricalCollections(market, least, "midpoint")
           \subseteq BuildHistoricalCollections(market, least, policy)
<1>1. PICK c, resolution : c = market.candles /\ resolution = market.resolution
  OBVIOUS
<1>2. ASSUME NEW w \in Windows(c, resolution, least, "midpoint")
      PROVE  w \in Windows(c, resolution, least, policy)
  <2> DEFINE o == Ordered(c, resolution)
             n == Len(o)
             indices == {Clamped(q, least, n) : q \in Candidates("midpoint", n)}
             i == Clamped(n \div 2, least, n)
  <2>1. n \in Nat
    BY <1>1, OrderedIs
  <2>2. w \in {Window(o[q + 1].ts, History(o, q)) :
                 q \in {q \in indices : Len(History(o, q)) >= least /\ Priced(History(o, q))}}
        /\ ~(n < least + 1)
    BY <1>2 DEF Windows
  <2>3. indices = {i}
    BY DEF Candidates
  <2> HIDE DEF indices, i, n
  <2>4. /\ n >= least + 1 /\ w = Window(o[i + 1].ts, History(o, i))
        /\ Len(History(o, i)) >= least /\ Priced(History(o, i))
    BY <2>1, <2>2, <2>3
  <2>5. n \div 2 \in Candidates(policy, n)
    BY <2>1, MidIsCandidate
  <2>6. PICK p : p = Ordered(c, resolution)
    OBVIOUS
  <2>7. /\ Len(p) >= least + 1 /\ n \div 2 \in Candidates(policy, Len(p))
        /\ i = Clamped(n \div 2, least, Len(p)) /\ w = Window(p[i + 1].ts, History(p, i))
        /\ Len(History(p, i)) >= least /\ Priced(History(p, i))
    BY <2>4, <2>5, <2>6 DEF i, n
  <2> QED
    BY <1>1, <2>6, <2>7, CandidateIsWindow
<1>3. ASSUME NEW p
      PROVE  BuildHistoricalCollections(market, least, p)
             = {Collection(w, market.trades, market.news) : w \in Windows(c, resolution, least, p)}
  BY <1>1, NoneDropped
<1> QED
  BY <1>2, <1>3

-----------------------------------------------------------------------------
(* A history whose candles all have prices and times of their own.          *)
Spread(candles) ==
    /\ \A k \in DOMAIN candles : candles[k].close \in 0..Payout
    /\ Cardinality({candles[k].ts : k \in DOMAIN candles}) = Len(candles)

LEMMA TimesDiffer ==
    ASSUME NEW c \in Seq(Candlestick), Cardinality({c[k].ts : k \in DOMAIN c}) = Len(c),
           NEW j \in DOMAIN c, NEW k \in DOMAIN c, j # k
    PROVE  c[j].ts # c[k].ts
<1>1. PICK n \in Nat : n = Len(c)
  OBVIOUS
<1> DEFINE times == {c[i].ts : i \in 1..n}
           f == [i \in 1..n |-> c[i].ts]
<1>2. DOMAIN c = 1..n
  BY <1>1
<1>3. Cardinality(times) = n
  BY <1>1, <1>2
<1>4. f \in Surjection(1..n, times)
  BY DEF Surjection
<1>5. f[j] = c[j].ts /\ f[k] = c[k].ts /\ j \in 1..n /\ k \in 1..n
  BY <1>2
<1> HIDE DEF f, times
<1>6. IsFiniteSet(1..n) /\ Cardinality(1..n) = n
  <2>1. 1 \in Int /\ n \in Int
    OBVIOUS
  <2>2. IsFiniteSet(1..n) /\ Cardinality(1..n) = IF 1 > n THEN 0 ELSE n - 1 + 1
    BY <2>1, FS_Interval
  <2> QED
    BY <2>2
<1>7. f \in Injection(1..n, times)
  BY <1>3, <1>4, <1>6, FS_Surjection
<1> QED
  BY <1>5, <1>7 DEF Injection, IsInjective

(* The candles before the end, in order, are those listed before the end.   *)
LEMMA OrderedAt ==
    ASSUME NEW c \in Seq(Candlestick), NEW t \in Int, Spread(Before(c, t))
    PROVE  /\ Len(Ordered(c, t)) = Len(Before(c, t))
           /\ \A i \in DOMAIN Ordered(c, t) : Ordered(c, t)[i].close \in 0..Payout
           /\ \A i, j \in DOMAIN Ordered(c, t) : i < j => Ordered(c, t)[i].ts < Ordered(c, t)[j].ts
<1> DEFINE places == Older(c, t)
<1>1. PICK b : b = Before(c, t)
  OBVIOUS
<1>2. PICK o : o = Ordered(c, t)
  OBVIOUS
<1>3. PICK m, in : SelectedAt(c, places, m, in)
  BY OlderFinite, SelectedIs
<1>4. /\ m \in Nat /\ m = Cardinality(places) /\ b = [i \in 1..m |-> c[in[i]]]
      /\ \A i \in 1..m : in[i] \in places
      /\ \A k \in places : \E i \in 1..m : in[i] = k
  BY <1>1, <1>3 DEF SelectedAt, Before
<1>5. b \in Seq(Candlestick) /\ DOMAIN b = 1..m /\ Len(b) = m
  <2>1. b \in Seq(Candlestick)
    BY <1>1, BeforeIs
  <2> QED
    BY <1>4, <2>1
<1>6. /\ IsFiniteSet(places) /\ places \in SUBSET DOMAIN c
      /\ \A k \in places : k \in Nat /\ c[k].ts \in Int
  BY OlderFinite, CandlesTyped
<1>7. \A j, k \in places : <<j, k>> \in ByTime(c) <=>
          c[j].ts < c[k].ts \/ (c[j].ts = c[k].ts /\ j < k)
  BY TimesOrder
<1>8. \A k \in places : c[k].close \in 0..Payout
  <2> TAKE k \in places
  <2>1. PICK i \in 1..m : in[i] = k
    BY <1>4
  <2>2. b[i] = c[k] /\ i \in DOMAIN b
    BY <1>4, <2>1
  <2> QED
    BY <1>1, <2>2 DEF Spread
<1>9. \A j, k \in places : j # k => c[j].ts # c[k].ts
  <2> TAKE j \in places, k \in places
  <2> HAVE j # k
  <2>1. PICK x \in 1..m : in[x] = j
    BY <1>4
  <2>2. PICK y \in 1..m : in[y] = k
    BY <1>4
  <2>3. x # y /\ b[x] = c[j] /\ b[y] = c[k] /\ x \in DOMAIN b /\ y \in DOMAIN b
    BY <1>4, <2>1, <2>2
  <2>4. Cardinality({b[i].ts : i \in DOMAIN b}) = Len(b)
    BY <1>1 DEF Spread
  <2>5. b[x].ts # b[y].ts
    BY <1>5, <2>3, <2>4, TimesDiffer
  <2> QED
    BY <2>3, <2>5
<1>10. StrictlyOrders(ByTime(c), places)
  BY TimesOrder
<1> HIDE DEF places
<1>11. PICK at \in [1..Cardinality(places) -> places] :
          /\ Arranged(c, places, ByTime(c)) = [i \in 1..Cardinality(places) |-> c[at[i]]]
          /\ \A i, j \in 1..Cardinality(places) : i < j => <<at[i], at[j]>> \in ByTime(c)
  BY <1>6, <1>10, Arranging
<1>12. /\ o = [i \in 1..m |-> c[at[i]]]
       /\ \A i \in 1..m : at[i] \in places
       /\ \A i, j \in 1..m : i < j => <<at[i], at[j]>> \in ByTime(c)
  BY <1>2, <1>4, <1>11 DEF Ordered, places
<1>13. DOMAIN o = 1..m /\ Len(o) = m /\ \A i \in 1..m : o[i] = c[at[i]]
  BY <1>4, <1>12
<1>14. ASSUME NEW i \in 1..m, NEW j \in 1..m, i < j PROVE o[i].ts < o[j].ts
  <2>1. at[i] \in places /\ at[j] \in places /\ <<at[i], at[j]>> \in ByTime(c)
    BY <1>12, <1>14
  <2>2. at[i] # at[j]
    BY <1>10, <2>1 DEF StrictlyOrders
  <2>3. c[at[i]].ts < c[at[j]].ts
    BY <1>7, <1>9, <2>1, <2>2
  <2> QED
    BY <1>13, <2>3
<1>15. \A i \in 1..m : o[i].close \in 0..Payout
  BY <1>8, <1>12, <1>13
<1> QED
  BY <1>1, <1>2, <1>5, <1>13, <1>14, <1>15

(* Nothing of a history of different times is left out of a prediction.     *)
LEMMA WholeHistory ==
    ASSUME NEW o \in Seq(Candlestick), \A k \in DOMAIN o : o[k].close \in 0..Payout,
           \A j, k \in DOMAIN o : j < k => o[j].ts < o[k].ts,
           NEW i \in 1..(Len(o) - 1)
    PROVE  Len(History(o, i)) = i /\ Priced(History(o, i))
<1>1. PICK first, t : first = SubSeq(o, 1, i) /\ t = o[i + 1].ts
  OBVIOUS
<1>2. Len(o) \in Nat /\ DOMAIN o = 1..Len(o) /\ i \in 0..Len(o) /\ i + 1 \in DOMAIN o
  OBVIOUS
<1>3. /\ first \in Seq(Candlestick) /\ Len(first) = i /\ DOMAIN first = 1..i
      /\ \A k \in 1..i : first[k] = o[k] /\ k \in DOMAIN o
  <2>1. /\ first \in Seq(Candlestick) /\ Len(first) = i
        /\ \A k \in 1..i : first[k] = o[k] /\ k \in DOMAIN o
    BY <1>1, <1>2, PrefixIs
  <2> QED
    BY <2>1
<1>4. Older(first, t) = 1..i
  <2>1. \A k \in 1..i : o[k].ts < t
    BY <1>1, <1>2
  <2> QED
    BY <1>3, <2>1 DEF Older
<1>5. 1..i \in SUBSET DOMAIN first
  BY <1>3
<1>6. PICK n, at : SelectedAt(first, 1..i, n, at)
  BY <1>3, <1>5, SelectedIs
<1>7. n = i
  <2>1. Cardinality(1..i) = i
    <3>1. 1 \in Int /\ i \in Int /\ i >= 1
      BY <1>2
    <3>2. Cardinality(1..i) = IF 1 > i THEN 0 ELSE i - 1 + 1
      BY <3>1, FS_Interval
    <3> QED
      BY <3>1, <3>2
  <2> QED
    BY <1>6, <2>1 DEF SelectedAt
<1>8. PICK h : h = History(o, i)
  OBVIOUS
<1>9. h = [k \in 1..i |-> first[at[k]]] /\ \A k \in 1..i : at[k] \in 1..i
  BY <1>1, <1>4, <1>6, <1>7, <1>8 DEF SelectedAt, History, Before
<1>10. Len(h) = i /\ h[i] = first[at[i]] /\ at[i] \in 1..i
  BY <1>9
<1>11. Last(h).close \in 0..Payout
  BY <1>3, <1>10 DEF Last
<1> QED
  BY <1>8, <1>10, <1>11 DEF Priced

(* A market with enough candles at times of their own has a row.            *)
LEMMA NoneIsLost ==
    ASSUME NEW market, market.candles \in Seq(Candlestick), market.resolution \in Int,
           NEW least \in Nat \ {0}, NEW policy,
           Spread(Before(market.candles, market.resolution)),
           Len(Before(market.candles, market.resolution)) > least
    PROVE  BuildHistoricalCollections(market, least, policy) # {}
<1>1. PICK c, resolution : c = market.candles /\ resolution = market.resolution
  OBVIOUS
<1>2. PICK o : o = Ordered(c, resolution)
  OBVIOUS
<1>3. o \in Seq(Candlestick)
  BY <1>1, <1>2, OrderedIs
<1>4. /\ Len(o) = Len(Before(c, resolution))
      /\ \A k \in DOMAIN o : o[k].close \in 0..Payout
      /\ \A j, k \in DOMAIN o : j < k => o[j].ts < o[k].ts
  BY <1>1, <1>2, OrderedAt
<1>5. PICK n \in Nat : n = Len(o)
  BY <1>3
<1>6. n >= least + 1
  BY <1>1, <1>4, <1>5
<1>7. PICK j \in Int : j = n \div 2
  BY <1>5
<1>8. j \in Candidates(policy, n)
  BY <1>7, MidIsCandidate
<1>9. PICK i : i = Clamped(j, least, n)
  OBVIOUS
<1>10. i \in least..(n - 1)
  BY <1>6, <1>9, ClampedInside
<1>11. i \in 1..(Len(o) - 1) /\ i >= least
  BY <1>5, <1>10
<1>12. Len(History(o, i)) >= least /\ Priced(History(o, i))
  BY <1>3, <1>4, <1>11, WholeHistory
<1>13. Window(o[i + 1].ts, History(o, i)) \in Windows(c, resolution, least, policy)
  BY <1>1, <1>2, <1>5, <1>6, <1>8, <1>9, <1>12, CandidateIsWindow
<1>14. BuildHistoricalCollections(market, least, policy)
       = {Collection(w, market.trades, market.news) : w \in Windows(c, resolution, least, policy)}
  BY <1>1, NoneDropped
<1> QED
  BY <1>13, <1>14

-----------------------------------------------------------------------------
(* What the store holds of a market: a close for some times.                *)
StoredTyped(stored) ==
    /\ stored \in [DOMAIN stored -> Int] /\ DOMAIN stored \subseteq Int
    /\ IsFiniteSet(DOMAIN stored)

LEMMA ReadIsTyped ==
    ASSUME NEW stored, StoredTyped(stored)
    PROVE  GetCandles(stored) \in Seq(Candlestick)
<1> DEFINE D == DOMAIN stored
           n == Cardinality(D)
           order == {p \in D \X D : p[1] < p[2]}
           Nth(k) == CHOOSE t \in D : Cardinality({u \in D : u < t}) = k - 1
<1>1. D \in SUBSET Int /\ IsFiniteSet(D) /\ n \in Nat /\ \A t \in D : stored[t] \in Int
  BY FS_CardinalityType DEF StoredTyped
<1>2. \A t, u \in D : <<u, t>> \in order <=> u < t
  OBVIOUS
<1> HIDE DEF order
<1>3. StrictlyOrders(order, D)
  BY <1>1, <1>2 DEF StrictlyOrders
<1>4. \A t \in D : Ahead(order, D, t) = {u \in D : u < t}
  BY <1>2 DEF Ahead
<1>5. ASSUME NEW k \in 1..n PROVE Nth(k) \in D
  <2>1. k - 1 \in 0..(Cardinality(D) - 1)
    BY <1>1
  <2>2. \E t \in D : Cardinality(Ahead(order, D, t)) = k - 1
    BY <1>1, <1>3, <2>1, RankTaken
  <2>3. \E t \in D : Cardinality({u \in D : u < t}) = k - 1
    BY <1>4, <2>2
  <2> QED
    BY <2>3
<1>6. GetCandles(stored) = [k \in 1..n |-> Candle(Nth(k), stored[Nth(k)])]
  BY DEF GetCandles
<1> HIDE DEF Nth
<1>7. \A k \in 1..n : Candle(Nth(k), stored[Nth(k)]) \in Candlestick
  BY <1>1, <1>5 DEF Candle, Candlestick
<1> HIDE DEF n
<1> QED
  BY <1>1, <1>6, <1>7

LEMMA UpsertTyped ==
    ASSUME NEW stored, StoredTyped(stored), NEW c \in Seq(Candlestick)
    PROVE  StoredTyped(UpsertCandles(stored, c))
<1> DEFINE times == {c[k].ts : k \in DOMAIN c}
           At(t) == {k \in DOMAIN c : c[k].ts = t}
           LastOf(t) == c[Max(At(t))].close
           new == [t \in DOMAIN stored \cup times |-> IF t \in times THEN LastOf(t) ELSE stored[t]]
<1>1. PICK n \in Nat : n = Len(c) /\ DOMAIN c = 1..n
  OBVIOUS
<1>2. IsFiniteSet(1..n)
  <2>1. 1 \in Int /\ n \in Int
    OBVIOUS
  <2> QED
    BY <2>1, FS_Interval
<1>3. IsFiniteSet(times) /\ times \subseteq Int
  <2> DEFINE f == [k \in 1..n |-> c[k].ts]
  <2>1. f \in Surjection(1..n, times)
    BY <1>1 DEF Surjection
  <2>2. times \subseteq Int
    BY CandlesTyped
  <2> HIDE DEF f, times
  <2> QED
    BY <1>2, <2>1, <2>2, FS_Surjection
<1>4. ASSUME NEW t \in times PROVE LastOf(t) \in Int
  <2>1. At(t) \in SUBSET (1..n) /\ At(t) # {}
    BY <1>1
  <2>2. IsFiniteSet(At(t)) /\ At(t) \in SUBSET Int
    <3> HIDE DEF At
    <3> QED
      BY <1>2, <2>1, FS_Subset
  <2>3. Max(At(t)) \in At(t)
    <3> HIDE DEF At
    <3> QED
      BY <2>1, <2>2, MaxExists
  <2>4. Max(At(t)) \in DOMAIN c
    BY <2>3
  <2> QED
    BY <2>4, CandlesTyped
<1>5. UpsertCandles(stored, c) = new
  BY DEF UpsertCandles
<1> HIDE DEF times, LastOf
<1>6. \A t \in DOMAIN stored : stored[t] \in Int /\ t \in Int
  BY DEF StoredTyped
<1>7. new \in [DOMAIN stored \cup times -> Int] /\ DOMAIN new = DOMAIN stored \cup times
  BY <1>4, <1>6
<1>8. DOMAIN stored \cup times \subseteq Int /\ IsFiniteSet(DOMAIN stored \cup times)
  BY <1>3, <1>6, FS_Union DEF StoredTyped
<1> HIDE DEF new
<1> QED
  BY <1>5, <1>7, <1>8 DEF StoredTyped

(* Every time that a fetch has is overwritten by it.                        *)
LEMMA Overwritten ==
    ASSUME NEW stored, NEW c, DOMAIN stored \subseteq {c[k].ts : k \in DOMAIN c}
    PROVE  UpsertCandles(stored, c) = UpsertCandles(<<>>, c)
<1> DEFINE times == {c[k].ts : k \in DOMAIN c}
           LastOf(t) == c[Max({k \in DOMAIN c : c[k].ts = t})].close
           new(old) == [t \in DOMAIN old \cup times |-> IF t \in times THEN LastOf(t) ELSE old[t]]
<1>1. UpsertCandles(stored, c) = new(stored) /\ UpsertCandles(<<>>, c) = new(<<>>)
  BY DEF UpsertCandles
<1>2. DOMAIN stored \cup times = times /\ DOMAIN <<>> \cup times = times
  OBVIOUS
<1> HIDE DEF times, LastOf
<1>3. new(stored) = [t \in times |-> LastOf(t)]
  BY <1>2
<1>4. new(<<>>) = [t \in times |-> LastOf(t)]
  BY <1>2
<1> QED
  BY <1>1, <1>3, <1>4

(* A second replay reads the candles of the first.                          *)
LEMMA SameCandles ==
    ASSUME NEW stored, NEW c,
           DOMAIN stored \subseteq {c[k].ts : k \in DOMAIN c} \/ Enough(stored, 4),
           GetCandles(UpsertCandles(<<>>, c)) = c
    PROVE  CandlesFor(WriteThrough(stored, c, 4), c, 4) = CandlesFor(stored, c, 4)
<1>1. CASE Enough(stored, 4)
  BY <1>1 DEF WriteThrough
<1>2. CASE ~Enough(stored, 4)
  <2>1. WriteThrough(stored, c, 4) = UpsertCandles(<<>>, c) /\ CandlesFor(stored, c, 4) = c
    BY <1>2, Overwritten DEF WriteThrough, CandlesFor
  <2> QED
    BY <2>1 DEF CandlesFor
<1> QED
  BY <1>1, <1>2

-----------------------------------------------------------------------------
(* The row of a market in a replay, and the rows of a list of markets.      *)
ReplayRow(m) == ScoreMarket(CandlesFor(m.stored, m.candles, 4), m.final, 4)

ReplayRows(markets) == [k \in DOMAIN markets |-> ReplayRow(markets[k])]

LEMMA RunnerIs ==
    ASSUME NEW markets, NEW most
    PROVE  /\ ReplayMarkets(markets, most, 4) = FirstRows(ReplayRows(markets), most)
           /\ MultiScore(markets, most) = FirstRows(ReplayRows(markets), most)
<1>1. ReplayMarkets(markets, most, 4) = FirstRows(ReplayRows(markets), most)
  BY DEF ReplayMarkets, ReplayRows, ReplayRow
<1> DEFINE Scored(m) == LET candles == CandlesFor(m.stored, m.candles, 4)
                         n == Len(candles)
                     IN IF ~Settled(m.final) \/ n < 5 THEN {}
                        ELSE RowAt(candles, Min({Max({n \div 2, 4}), n - 1}), 4, m.final)
<1>2. \A m : Scored(m) = ReplayRow(m)
  <2>1. 4 + 1 = 5
    OBVIOUS
  <2> QED
    BY <2>1 DEF ReplayRow, ScoreMarket, ScoreIndex, Clamped
<1>3. MultiScore(markets, most) = FirstRows([k \in DOMAIN markets |-> Scored(markets[k])], most)
  BY DEF MultiScore
<1> HIDE DEF Scored
<1>4. [k \in DOMAIN markets |-> Scored(markets[k])] = ReplayRows(markets)
  BY <1>2 DEF ReplayRows
<1> QED
  BY <1>1, <1>3, <1>4

(* Every row that is returned is the row of a market.                       *)
LEMMA RowsAreFound ==
    ASSUME NEW markets, NEW X, markets \in Seq(X), NEW most,
           NEW r \in ToSet(FirstRows(ReplayRows(markets), most))
    PROVE  \E k \in DOMAIN markets : r \in ReplayRow(markets[k])
<1> DEFINE found == {k \in DOMAIN ReplayRows(markets) : ReplayRows(markets)[k] # {}}
           first == {k \in found : Cardinality({j \in found : j < k}) < most}
           all == [k \in DOMAIN ReplayRows(markets) |-> CHOOSE q \in ReplayRows(markets)[k] : TRUE]
<1>1. DOMAIN ReplayRows(markets) = DOMAIN markets /\ DOMAIN markets = 1..Len(markets) /\ Len(markets) \in Nat
      /\ \A k \in DOMAIN markets : ReplayRows(markets)[k] = ReplayRow(markets[k])
  BY DEF ReplayRows
<1>2. PICK Y : Y = {all[k] : k \in DOMAIN ReplayRows(markets)}
  OBVIOUS
<1>3. all \in Seq(Y) /\ DOMAIN all = DOMAIN ReplayRows(markets)
  BY <1>1, <1>2
<1>4. first \in SUBSET DOMAIN all
  BY <1>3
<1>5. \A k \in first : k \in DOMAIN markets /\ all[k] \in ReplayRow(markets[k])
  BY <1>1
<1>6. FirstRows(ReplayRows(markets), most) = Selected(all, first)
  BY DEF FirstRows
<1> HIDE DEF all, first
<1>7. PICK n, at : SelectedAt(all, first, n, at)
  BY <1>3, <1>4, SelectedIs
<1>8. r \in ToSet([i \in 1..n |-> all[at[i]]]) /\ at \in [1..n -> first]
  BY <1>6, <1>7 DEF SelectedAt
<1>9. PICK i \in 1..n : r = all[at[i]]
  BY <1>8 DEF ToSet
<1> QED
  BY <1>5, <1>8, <1>9

LEMMA ReplayedRows ==
    ASSUME NEW X, NEW markets \in Seq(X), NEW most,
           \A m \in X : m.candles \in Seq(Candlestick) /\ StoredTyped(m.stored),
           NEW r \in ToSet(FirstRows(ReplayRows(markets), most))
    PROVE  \A k \in DOMAIN r.candles : r.candles[k].ts < r.asOf
<1>1. PICK k \in DOMAIN markets : r \in ReplayRow(markets[k])
  BY RowsAreFound
<1>2. PICK m \in X : m = markets[k]
  BY ElementOfSeq, LenProperties
<1>3. CandlesFor(m.stored, m.candles, 4) \in Seq(Candlestick)
  BY <1>2, ReadIsTyped DEF CandlesFor
<1>4. r \in ScoreMarket(CandlesFor(m.stored, m.candles, 4), m.final, 4)
  BY <1>1, <1>2 DEF ReplayRow
<1> QED
  BY <1>3, <1>4, ScoredRows

-----------------------------------------------------------------------------
(* A call keeps its arguments until it returns, and what it has returned is *)
(* what its function is of them.                                            *)

Drawn ==
    /\ call.fn = "build" => call \in BuildCalls
    /\ call.fn = "score" => call \in ScoreCalls
    /\ call.fn = "outcomes" => call \in OutcomeCalls
    /\ call.fn = "volume" => call \in VolumeCalls
    /\ call.fn = "decide" => call \in DecideCalls
    /\ call.fn = "monitor" => call \in MonitorCalls
    /\ call.fn = "radar" => call \in RadarCalls
    /\ call.fn = "list" => call \in ListCalls
    /\ call.fn = "arb" => call \in ArbCalls
    /\ call.fn = "match" => call \in MatchCalls
    /\ call.fn = "replay" => call \in ReplayCalls

(* The markets of a replay once the store has their candles.                *)
LaterOf(markets) ==
    LET Later(m) == [m EXCEPT !.stored = WriteThrough(m.stored, m.candles, 4)]
    IN [k \in DOMAIN markets |-> Later(markets[k])]

Answered ==
    answer # NoAnswer =>
    /\ call.fn = "build" =>
          answer = BuildHistoricalCollections(call.market, call.minHistory, call.policy)
    /\ call.fn = "score" => answer = ScoreMarket(call.candles, call.final, call.minHistory)
    /\ call.fn = "outcomes" => answer = SettledOutcomes(call.names, call.finals)
    /\ call.fn = "volume" => answer = Buckets(call.candles, call.trades)
    /\ call.fn = "decide" => answer = DecideAt(call, call.price)
    /\ call.fn = "monitor" => answer = ScanMonitor(call.markets, call.request)
    /\ call.fn = "radar" => answer = MarketRadar(call.rows, call.scale)
    /\ call.fn = "list" => answer = ListMarkets(call.ranking, call.limit, call.failing)
    /\ call.fn = "arb" =>
          answer = [conditional |-> ConditionalArb(call.claims),
                    implied |-> [e \in Subjects |-> EntityImplication(call.claims, e)]]
    /\ call.fn = "match" => answer = MatchConsistency(call.wins, call.scores)
    /\ call.fn = "replay" =>
          answer = [runner |-> ReplayMarkets(call.markets, call.most, 4),
                    matrix |-> MultiScore(call.markets, call.most),
                    again  |-> ReplayMarkets(LaterOf(call.markets), call.most, 4)]

CallInv == Drawn /\ Answered

LEMMA InitCallInv == CallInit => CallInv
<1> SUFFICES ASSUME CallInit PROVE CallInv
  OBVIOUS
<1>1. Answered
  BY DEF CallInit, Answered
<1>2. /\ \A c \in BuildCalls : c.fn = "build"
      /\ \A c \in ScoreCalls : c.fn = "score"
      /\ \A c \in OutcomeCalls : c.fn = "outcomes"
      /\ \A c \in VolumeCalls : c.fn = "volume"
  BY DEF BuildCalls, ScoreCalls, OutcomeCalls, VolumeCalls
<1>3. /\ \A c \in PlanCalls : c.fn = "plan"
      /\ \A c \in DecideCalls : c.fn = "decide"
      /\ \A c \in ArbCalls : c.fn = "arb"
      /\ \A c \in MonitorCalls : c.fn = "monitor"
  BY DEF PlanCalls, DecideCalls, ArbCalls, MonitorCalls
<1>4. /\ \A c \in ReplayCalls : c.fn = "replay"
      /\ \A c \in MatchCalls : c.fn = "match"
      /\ \A c \in RadarCalls : c.fn = "radar"
      /\ \A c \in ListCalls : c.fn = "list"
  BY DEF ReplayCalls, MatchCalls, RadarCalls, ListCalls
<1>5. \/ call \in BuildCalls \/ call \in ScoreCalls \/ call \in OutcomeCalls \/ call \in VolumeCalls
      \/ call \in PlanCalls \/ call \in DecideCalls \/ call \in ArbCalls \/ call \in MonitorCalls
      \/ call \in ReplayCalls \/ call \in MatchCalls \/ call \in RadarCalls \/ call \in ListCalls
  BY DEF CallInit
<1>6. Drawn
  BY <1>2, <1>3, <1>4, <1>5 DEF Drawn
<1> QED
  BY <1>1, <1>6 DEF CallInv

LEMMA NextCallInv == CallInv /\ [CallNext]_callVars => CallInv'
<1> SUFFICES ASSUME CallInv, [CallNext]_callVars PROVE CallInv'
  OBVIOUS
<1>1. call' = call
  BY DEF CallNext, callVars
<1>2. Drawn'
  BY <1>1 DEF CallInv, Drawn
<1>3. Answered'
  <2>1. CASE UNCHANGED callVars
    BY <2>1 DEF callVars, CallInv, Answered, Subjects
  <2>2. CASE Build \/ Score \/ Outcomes \/ EnrichVolume
    BY <1>1, <2>2 DEF Build, Score, Outcomes, EnrichVolume, Answered
  <2>3. CASE DecideSide \/ MonitorScan
    <3>1. CASE DecideSide
      BY <1>1, <3>1 DEF DecideSide, Answered, DecideAt
    <3>2. CASE MonitorScan
      BY <1>1, <3>2 DEF MonitorScan, Answered
    <3> QED
      BY <2>3, <3>1, <3>2
  <2>4. CASE ReplayTwice
    BY <1>1, <2>4 DEF ReplayTwice, LaterOf, Answered
  <2>5. CASE ScanArb \/ CheckMatches
    <3>1. CASE ScanArb
      BY <1>1, <3>1 DEF ScanArb, Subjects, Answered
    <3>2. CASE CheckMatches
      BY <1>1, <3>2 DEF CheckMatches, Answered
    <3> QED
      BY <2>5, <3>1, <3>2
  <2>6. CASE Radar \/ List
    <3>1. CASE Radar
      BY <1>1, <3>1 DEF Radar, Answered
    <3>2. CASE List
      BY <1>1, <3>2 DEF List, Answered
    <3> QED
      BY <2>6, <3>1, <3>2
  <2>7. CASE Plan
    <3>1. call.fn = "plan"
      BY <2>7 DEF Plan
    <3> QED
      BY <1>1, <3>1 DEF Answered
  <2> QED
    BY <2>1, <2>2, <2>3, <2>4, <2>5, <2>6, <2>7 DEF CallNext
<1> QED
  BY <1>2, <1>3 DEF CallInv

LEMMA CallInvariance == CallSpec => []CallInv
BY InitCallInv, NextCallInv, PTL DEF CallSpec

(* No row holds anything that was not known when it predicts: candles and   *)
(* trades are strictly older, news are published, and the moment that the   *)
(* row declares covers all of it and is before the market's end             *)
(* (replay_builder.py:134-176, feature_builder.py:74-139,                   *)
(* lab/backtest.py:157-199), for any history in any order.                  *)
THEOREM RowsKnowNoFuture == CallSpec => []NothingFromTheFuture
<1>1. CallInv => NothingFromTheFuture
  <2> SUFFICES ASSUME CallInv PROVE NothingFromTheFuture
    OBVIOUS
  <2>1. ASSUME Returned("build"), NEW r \in answer
        PROVE  /\ r.asOf < call.market.resolution
               /\ \A t \in r.trades : t < r.asOf
               /\ \A i \in r.news : i.dated # "never" /\ LatestPublication(i) <= r.availableAtMax
               /\ \A k \in DOMAIN r.candles : r.candles[k].ts <= r.availableAtMax
               /\ r.availableAtMax <= r.asOf
               /\ \A k \in DOMAIN r.candles : r.candles[k].ts < r.asOf
    <3>1. /\ call \in BuildCalls
          /\ answer = BuildHistoricalCollections(call.market, call.minHistory, call.policy)
      BY <2>1 DEF CallInv, Drawn, Answered, Returned
    <3>2. call.market \in Markets /\ call.minHistory \in Nat \ {0}
      BY <3>1, AlgorithmsAssumption DEF BuildCalls
    <3>3. /\ call.market.candles \in Seq(Candlestick) /\ call.market.resolution \in Int
          /\ call.market.news \subseteq NewsItem /\ IsFiniteSet(call.market.news)
      BY <3>2, AlgorithmsAssumption DEF Candlestick, NewsItem
    <3> QED
      BY <2>1, <3>1, <3>2, <3>3, RebuiltRows DEF LatestPublication, PublishedAvailableAt
  <2>2. ASSUME Returned("score"), NEW r \in answer, NEW k \in DOMAIN r.candles
        PROVE  r.candles[k].ts < r.asOf
    <3>1. /\ call \in ScoreCalls
          /\ answer = ScoreMarket(call.candles, call.final, call.minHistory)
      BY <2>2 DEF CallInv, Drawn, Answered, Returned
    <3>2. call.candles \in Seq(Candlestick) /\ call.minHistory \in Nat
      BY <3>1, AlgorithmsAssumption DEF ScoreCalls, Candlestick
    <3> QED
      BY <2>2, <3>1, <3>2, ScoredRows
  <2> QED
    BY <2>1, <2>2 DEF NothingFromTheFuture
<1> QED
  BY <1>1, CallInvariance, PTL

(* One row per moment, and none lost: rows at one time are one row; a market *)
(* with enough candles, at times of their own and all priced, has a row      *)
(* under both policies, and the multi policy's rows contain the midpoint's;  *)
(* the kernel's replay takes the rows that the runner takes, and a second    *)
(* replay, from the store the first one filled, takes them again; none of    *)
(* them is from the future (replay_builder.py:142-160,                       *)
(* lab/backtest.py:128-199, kernel/wiring.py:1070-1100), for any markets,    *)
(* histories and stores.                                                     *)
THEOREM MomentsHaveOneRow == CallSpec => []OneRowPerMoment
<1>1. CallInv => OneRowPerMoment
  <2> SUFFICES ASSUME CallInv PROVE OneRowPerMoment
    OBVIOUS
  <2> DEFINE past == Before(call.market.candles, call.market.resolution)
             Replayable(m) == LET at == {m.candles[k].ts : k \in DOMAIN m.candles}
                              IN /\ DOMAIN m.stored \subseteq at \/ Enough(m.stored, 4)
                                 /\ Cardinality(at) = Len(m.candles)
                                 /\ GetCandles(UpsertCandles(<<>>, m.candles)) = m.candles
  <2>1. ASSUME Returned("build")
        PROVE  /\ \A r, s \in answer : r.asOf = s.asOf => r = s
               /\ Spread(past) /\ Len(past) > call.minHistory => answer # {}
               /\ BuildHistoricalCollections(call.market, call.minHistory, "midpoint") \subseteq answer
    <3>1. PICK m, least, policy : m = call.market /\ least = call.minHistory /\ policy = call.policy
      OBVIOUS
    <3>2. call \in BuildCalls /\ answer = BuildHistoricalCollections(m, least, policy)
      BY <2>1, <3>1 DEF CallInv, Drawn, Answered, Returned
    <3>3. m \in Markets /\ least \in Histories
      BY <3>1, <3>2 DEF BuildCalls
    <3>4. /\ m.candles \in Seq(Candlestick) /\ m.resolution \in Int
          /\ least \in Nat \ {0}
      <4>1. Histories \subseteq Nat \ {0}
        BY AlgorithmsAssumption
      <4>2. m.candles \in Seq(Candlestick) /\ m.resolution \in Int
        BY <3>3, AlgorithmsAssumption DEF Candlestick
      <4> QED
        BY <3>3, <4>1, <4>2
    <3>5. PICK c, resolution : c = m.candles /\ resolution = m.resolution
      OBVIOUS
    <3>6. answer = {Collection(w, m.trades, m.news) : w \in Windows(c, resolution, least, policy)}
      BY <3>2, <3>4, <3>5, NoneDropped
    <3>7. ASSUME NEW r \in answer, NEW s \in answer, r.asOf = s.asOf PROVE r = s
      <4>1. PICK v \in Windows(c, resolution, least, policy) : r = Collection(v, m.trades, m.news)
        BY <3>6
      <4>2. PICK w \in Windows(c, resolution, least, policy) : s = Collection(w, m.trades, m.news)
        BY <3>6
      <4>3. v.asOf = w.asOf
        BY <3>7, <4>1, <4>2 DEF Collection
      <4>4. v = w
        BY <3>4, <3>5, <4>3, OneWindow
      <4> QED
        BY <4>1, <4>2, <4>4
    <3>8. Spread(past) /\ Len(past) > least => answer # {}
      BY <3>1, <3>2, <3>4, NoneIsLost
    <3>9. BuildHistoricalCollections(m, least, "midpoint") \subseteq answer
      BY <3>2, <3>4, MidpointsAreIncluded
    <3> QED
      BY <3>1, <3>7, <3>8, <3>9
  <2>2. ASSUME Returned("replay")
        PROVE  /\ answer.matrix = answer.runner
               /\ (\A k \in DOMAIN call.markets : Replayable(call.markets[k])) => answer.again = answer.runner
               /\ \A r \in ToSet(answer.runner) \cup ToSet(answer.again) :
                     \A k \in DOMAIN r.candles : r.candles[k].ts < r.asOf
    <3>1. PICK markets, most : markets = call.markets /\ most = call.most
      OBVIOUS
    <3>2. PICK later : later = LaterOf(markets)
      OBVIOUS
    <3>3. /\ call \in ReplayCalls
          /\ answer = [runner |-> ReplayMarkets(markets, most, 4),
                       matrix |-> MultiScore(markets, most),
                       again  |-> ReplayMarkets(later, most, 4)]
      BY <2>2, <3>1, <3>2 DEF CallInv, Drawn, Answered, Returned
    <3>4. /\ answer.runner = FirstRows(ReplayRows(markets), most)
          /\ answer.matrix = FirstRows(ReplayRows(markets), most)
          /\ answer.again = FirstRows(ReplayRows(later), most)
      BY <3>3, RunnerIs
    <3>5. PICK X : X = ToSet(markets)
      OBVIOUS
    <3>6. markets \in Seq(X) /\ \A m \in X : PastTyped(m)
      <4>1. markets \in ReplayLists
        BY <3>1, <3>3 DEF ReplayCalls
      <4> QED
        BY <3>5, <4>1, AlgorithmsAssumption
    <3>7. \A m \in X : m.candles \in Seq(Candlestick) /\ StoredTyped(m.stored)
      BY <3>6 DEF PastTyped, StoredTyped, Candlestick
    <3>8. /\ DOMAIN markets = 1..Len(markets) /\ Len(markets) \in Nat
          /\ \A k \in DOMAIN markets : markets[k] \in X
      BY <3>6
    <3>9. ASSUME NEW k \in DOMAIN markets
          PROVE  /\ later[k].candles = markets[k].candles /\ later[k].final = markets[k].final
                 /\ later[k].stored = WriteThrough(markets[k].stored, markets[k].candles, 4)
      <4>1. PICK m \in X : m = markets[k]
        BY <3>8
      <4>2. later[k] = [m EXCEPT !.stored = WriteThrough(m.stored, m.candles, 4)]
        BY <3>2, <4>1 DEF LaterOf
      <4>3. m = [candles |-> m.candles, final |-> m.final, stored |-> m.stored]
        BY <3>6 DEF PastTyped
      <4> QED
        BY <4>1, <4>2, <4>3
    <3>10. DOMAIN later = DOMAIN markets
      BY <3>2 DEF LaterOf
    <3>11. ASSUME \A k \in DOMAIN markets : Replayable(markets[k])
           PROVE  answer.again = answer.runner
      <4>1. ASSUME NEW k \in DOMAIN markets PROVE ReplayRow(later[k]) = ReplayRow(markets[k])
        <5>1. PICK stored, c : stored = markets[k].stored /\ c = markets[k].candles
          OBVIOUS
        <5>2. /\ DOMAIN stored \subseteq {c[i].ts : i \in DOMAIN c} \/ Enough(stored, 4)
              /\ GetCandles(UpsertCandles(<<>>, c)) = c
          BY <3>11, <5>1
        <5>3. CandlesFor(WriteThrough(stored, c, 4), c, 4) = CandlesFor(stored, c, 4)
          BY <5>2, SameCandles
        <5> QED
          BY <3>9, <5>1, <5>3 DEF ReplayRow
      <4>2. ReplayRows(later) = ReplayRows(markets)
        BY <3>10, <4>1 DEF ReplayRows
      <4> QED
        BY <3>4, <4>2
    <3>12. ASSUME NEW r \in ToSet(answer.runner), NEW k \in DOMAIN r.candles
           PROVE  r.candles[k].ts < r.asOf
      BY <3>4, <3>6, <3>7, <3>12, ReplayedRows
    <3>13. ASSUME NEW r \in ToSet(answer.again), NEW k \in DOMAIN r.candles
           PROVE  r.candles[k].ts < r.asOf
      <4>1. PICK Y : Y = {later[i] : i \in DOMAIN markets}
        OBVIOUS
      <4>2. later \in Seq(Y)
        <5>1. later = [i \in 1..Len(markets) |-> later[i]]
          BY <3>2, <3>8 DEF LaterOf
        <5>2. \A i \in 1..Len(markets) : later[i] \in Y
          BY <3>8, <4>1
        <5> QED
          BY <3>8, <5>1, <5>2
      <4>3. ASSUME NEW i \in DOMAIN markets
            PROVE  later[i].candles \in Seq(Candlestick) /\ StoredTyped(later[i].stored)
        <5>1. PICK stored, c : stored = markets[i].stored /\ c = markets[i].candles
          OBVIOUS
        <5>2. c \in Seq(Candlestick) /\ StoredTyped(stored)
          BY <3>7, <3>8, <5>1
        <5>3. StoredTyped(WriteThrough(stored, c, 4))
          BY <5>2, UpsertTyped DEF WriteThrough
        <5> QED
          BY <3>9, <5>1, <5>2, <5>3
      <4>4. \A m \in Y : m.candles \in Seq(Candlestick) /\ StoredTyped(m.stored)
        BY <4>1, <4>3
      <4> QED
        BY <3>4, <3>13, <4>2, <4>4, ReplayedRows
    <3> HIDE DEF Replayable
    <3> QED
      BY <3>1, <3>4, <3>11, <3>12, <3>13
  <2> QED
    BY <2>1, <2>2 DEF OneRowPerMoment, Spread
<1> QED
  BY <1>1, CallInvariance, PTL

(* Of the outcomes of a market that paid in full on one of them, that one   *)
(* alone is labelled as won, and a yes/no market gives one row              *)
(* (replay_builder.py:80-123), for any number of outcomes.                  *)
THEOREM WinnerTakesTheLabel == CallSpec => []OneWinner
<1>1. CallInv => OneWinner
  <2> SUFFICES ASSUME CallInv, Returned("outcomes") PROVE OneWinner
    BY DEF OneWinner
  <2> DEFINE names == call.names
             finals == call.finals
             listed == {i \in DOMAIN names : IsYesNo(names) => names[i] = "yes"}
             Labelling(i) == [name |-> names[i], outcome |-> Label(finals[i])]
  <2>1. names \in Seq(STRING) /\ answer = SettledOutcomes(names, finals)
    <3>1. call \in OutcomeCalls /\ answer = SettledOutcomes(names, finals)
      BY DEF CallInv, Drawn, Answered, Returned
    <3>2. call.names \in NameLists
      BY <3>1 DEF OutcomeCalls
    <3> QED
      BY <3>1, <3>2, AlgorithmsAssumption
  <2>2. answer \subseteq {Labelling(i) : i \in listed}
    BY <2>1 DEF SettledOutcomes
  <2>3. ASSUME IsYesNo(names) PROVE Cardinality(answer) <= 1
    <3>1. DOMAIN names = 1..2 /\ {"yes", "no"} = {names[1], names[2]}
      <4>1. Len(names) = 2 /\ DOMAIN names = 1..Len(names) /\ ToSet(names) = {"yes", "no"}
        BY <2>1, <2>3 DEF IsYesNo
      <4>2. ToSet(names) = {names[i] : i \in 1..2}
        BY <4>1 DEF ToSet
      <4>3. {names[i] : i \in 1..2} = {names[1], names[2]}
        OBVIOUS
      <4> QED
        BY <4>1, <4>2, <4>3
    <3>2. PICK one \in 1..2 : \A i \in listed : i = one
      <4>1. "yes" # "no"
        OBVIOUS
      <4>2. ~(names[1] = "yes" /\ names[2] = "yes")
        BY <3>1, <4>1
      <4> QED
        BY <2>3, <3>1, <4>2
    <3>3. answer \in SUBSET {Labelling(one)}
      BY <2>2, <3>2
    <3> HIDE DEF Labelling
    <3>4. IsFiniteSet({Labelling(one)}) /\ Cardinality({Labelling(one)}) = 1
      BY FS_Singleton
    <3> QED
      BY <3>3, <3>4, FS_Subset
  <2>4. ASSUME NEW w \in DOMAIN finals,
               \A i \in DOMAIN finals \ {w} : finals[i] = 0
        PROVE  {r.name : r \in {r \in answer : r.outcome = 1}} \subseteq {names[w]}
    <3>1. Label(0) = 0
      BY ReplayAssumption DEF Label
    <3>2. ASSUME NEW i \in listed, Label(finals[i]) = 1, answer # {} PROVE i = w
      <4>1. i \in DOMAIN finals
        <5>1. CASE Len(names) < 2 \/ Len(finals) # Len(names)
          BY <2>1, <3>2, <5>1 DEF SettledOutcomes
        <5>2. CASE ~(Len(names) < 2 \/ Len(finals) # Len(names))
          <6>1. call \in OutcomeCalls
            BY DEF CallInv, Drawn, Returned
          <6>2. PICK n \in {Len(names), Len(names) - 1} : finals \in [1..n -> Finals]
            BY <6>1 DEF OutcomeCalls
          <6>3. n \in Nat /\ finals \in Seq(Finals) /\ Len(finals) = n
            <7>1. n \in Nat
              BY <2>1, <5>2
            <7> HIDE DEF finals
            <7> QED
              BY <6>2, <7>1
          <6>4. DOMAIN finals = DOMAIN names
            BY <2>1, <5>2, <6>2, <6>3
          <6> QED
            BY <6>4
        <5> QED
          BY <5>1, <5>2
      <4> QED
        BY <2>4, <3>1, <3>2, <4>1
    <3>3. \A r \in answer : r.outcome = 1 => r.name = names[w]
      <4> TAKE r \in answer
      <4>1. PICK i \in listed : r = Labelling(i)
        BY <2>2
      <4> QED
        BY <3>2, <4>1
    <3> QED
      BY <3>3
  <2> HIDE DEF names, finals
  <2> QED
    BY <2>3, <2>4 DEF OneWinner, names, finals
<1> QED
  BY <1>1, CallInvariance, PTL

(* No trade is counted twice, and over evenly spaced candles each is        *)
(* counted in the candle whose bar it falls into (dataflows/volume.py:71),  *)
(* for any candles and trades.                                              *)
THEOREM TradesFallIntoTheirBars == CallSpec => []VolumeGoesToItsCandle
<1>1. CallInv => VolumeGoesToItsCandle
  <2> SUFFICES ASSUME CallInv, Returned("volume") PROVE VolumeGoesToItsCandle
    BY DEF VolumeGoesToItsCandle
  <2> DEFINE c == call.candles
             trades == call.trades
             g == c[2] - c[1]
  <2>1. c \in Seq(Int) /\ trades \in SUBSET Int /\ answer = Buckets(c, trades)
    <3>1. call \in VolumeCalls /\ answer = Buckets(c, trades)
      BY DEF CallInv, Drawn, Answered, Returned
    <3>2. call.candles \in CandleTimes /\ call.trades \in TradeSets
      BY <3>1 DEF VolumeCalls
    <3> QED
      BY <3>1, <3>2, AlgorithmsAssumption
  <2>2. DOMAIN answer = DOMAIN c
        /\ \A i \in DOMAIN c : answer[i] = {t \in trades : (t - c[1]) \div BarSeconds(c) = i - 1}
    BY <2>1 DEF Buckets
  <2>3. \A i, j \in DOMAIN answer : i # j => answer[i] \cap answer[j] = {}
    <3> TAKE i, j \in DOMAIN answer
    <3> HAVE i # j
    <3>1. i \in Int /\ j \in Int
      BY <2>1, <2>2
    <3> HIDE DEF c, trades
    <3>2. i - 1 # j - 1
      BY <3>1
    <3> QED
      BY <2>2, <3>2
  <2>4. ASSUME Len(c) >= 2, c[2] > c[1], \A i \in 1..(Len(c) - 1) : c[i + 1] - c[i] = g,
               NEW i \in DOMAIN answer
        PROVE  answer[i] = {t \in trades : c[i] <= t /\ t < c[i] + g}
    <3>1. g \in Nat \ {0}
      <4>1. c[1] \in Int /\ c[2] \in Int
        BY <2>1, <2>4
      <4> HIDE DEF c
      <4> QED
        BY <2>4, <4>1
    <3> HIDE DEF g, c, trades
    <3> QED
      BY <2>1, <2>2, <2>4, <3>1, BucketsAreBars
  <2> HIDE DEF c, trades
  <2> QED
    BY <2>3, <2>4 DEF VolumeGoesToItsCandle, c, trades
<1> QED
  BY <1>1, CallInvariance, PTL


LEMMA SideIs ==
    ASSUME NEW m, SideTyped(m)
    PROVE  MarketTyped(m)
BY DEF SideTyped, MarketTyped, Levels, Probability

(* Decisions agree with each other: no gate, rounding or shrinking of the   *)
(* estimate turns a better offer down; the independent check accepts what   *)
(* decide() sizes and nothing that it would not buy; and the monitor, the   *)
(* sizing tool and the analysis graph decide alike over the same book       *)
(* (decision_agent.py:46-85, compliance.py:31-50, monitor.py:130-199,       *)
(* mcp_server.py:89-161), for any price, estimate, book and settings within *)
(* DecisionAssumption.                                                      *)
THEOREM DecisionsAgreeAlways == CallSpec => []DecisionsAgree
<1>1. CallInv => DecisionsAgree
  <2> SUFFICES ASSUME CallInv PROVE DecisionsAgree
    OBVIOUS
  <2> DEFINE p == call.p
             q == call.price
             Passes(size) == VerifyTradeMath(Calibrated(p, q), q, size, call.days)
  <2>1. ASSUME Returned("decide")
        PROVE  /\ p \in Probability /\ q \in Probability /\ q \in Nat /\ call.days \in Int
               /\ answer = Decide(Signal(call.direction, p), q, call.liquidity, call.spread, call.days)
    <3>1. call \in DecideCalls /\ answer = DecideAt(call, call.price)
      BY <2>1 DEF CallInv, Drawn, Answered, Returned
    <3>2. p \in 0..Unit /\ q \in 0..Unit /\ call.days \in Days
      BY <3>1 DEF DecideCalls
    <3>3. q \in Nat
      BY <3>2, DecisionAssumption
    <3> QED
      BY <3>1, <3>2, <3>3, AlgorithmsAssumption DEF DecideAt, Probability
  <2>2. ASSUME Returned("decide"), answer.action = "buy", q > 1
        PROVE  /\ DecideAt(call, q - 1).action = "buy"
               /\ DecideAt(call, q - 1).size >= answer.size
    <3> DEFINE c == DecideAt(call, q - 1)
    <3>1. c = Decide(Signal(call.direction, p), q - 1, call.liquidity, call.spread, call.days)
      BY DEF DecideAt
    <3> HIDE DEF c, p, q
    <3>2. c.action = "buy" /\ c.size >= answer.size
      BY <2>1, <2>2, <3>1, BetterPriceTaken DEF Probability
    <3> QED
      BY <3>2 DEF c
  <2>3. ASSUME Returned("decide"), answer.action = "sell"
        PROVE  DecideAt(call, q + 1).action = "sell"
    <3> DEFINE c == DecideAt(call, q + 1)
    <3>1. c = Decide(Signal(call.direction, p), q + 1, call.liquidity, call.spread, call.days)
      BY DEF DecideAt
    <3> HIDE DEF c, p, q
    <3>2. c.action = "sell"
      BY <2>1, <2>3, <3>1, WorsePriceSold
    <3> QED
      BY <3>2 DEF c
  <2>4. ASSUME Returned("decide") PROVE Passes(answer.size)
    <3> HIDE DEF p, q
    <3> QED
      BY <2>1, <2>4, CheckPasses
  <2>5. ASSUME Returned("decide"), call.direction # "none",
               ~Gated(call.liquidity, call.spread), NEW stake \in Stakes, Passes(stake)
        PROVE  answer.action = "buy"
    <3>1. stake \in Nat \ {0}
      BY AlgorithmsAssumption
    <3> HIDE DEF p, q
    <3> QED
      BY <2>1, <2>5, <3>1, CheckRefuses
  <2>6. ASSUME Returned("monitor"), NEW o \in answer.opportunities
        PROVE  LET m == o.market
                   report == BookReport(FetchOrderBook(m.venue))
                   sized == SizePosition(m.p, m)
               IN /\ DecisionAgent(Signal("yes", m.p), Collected(m, report)) = sized
                  /\ Answers(m.venue.sdk) \/ Answers(m.venue.rest) \/ m.listedSpread = 0
                       => o.decision = sized
    <3> DEFINE kept == Keep(call.markets, call.request)
    <3>1. call \in MonitorCalls /\ answer = ScanMonitor(call.markets, call.request)
      BY <2>6 DEF CallInv, Drawn, Answered, Returned
    <3>2. call.markets \in Seq(ToSet(call.markets)) /\ \A m \in ToSet(call.markets) : SideTyped(m)
      <4>1. call.markets \in Listings
        BY <3>1 DEF MonitorCalls
      <4> QED
        BY <4>1, AlgorithmsAssumption
    <3>3. PICK m \in ToSet(kept) : o = Opportunity(m)
      BY <2>6, <3>1 DEF ScanMonitor
    <3>4. kept \in Seq(ToSet(call.markets))
      BY <3>2, KeptAreListed
    <3> HIDE DEF kept
    <3>5. m \in ToSet(call.markets)
      BY <3>3, <3>4 DEF ToSet
    <3>6. o.market = m /\ MarketTyped(m)
      BY <3>2, <3>3, <3>5, SideIs DEF Opportunity
    <3> QED
      BY <3>3, <3>6, ToolsDecideAlike
  <2> QED
    BY <2>2, <2>3, <2>4, <2>5, <2>6 DEF DecisionsAgree
<1> QED
  BY <1>1, CallInvariance, PTL


(* A scan of the monitor misses no market, and asking for one more loses    *)
(* none; the radar shows each market once, and leaves out one that ends     *)
(* soon or has moved only for as many that do so more; the listing is the   *)
(* top of the venue's ranking as far as pages could be read                 *)
(* (lab/monitor.py:218-252, kernel/wiring.py:705-731,                       *)
(* polymarket_client.py:90-148), for any listings, sizes of page, requests  *)
(* and limits.                                                              *)
THEOREM NothingIsMissed == CallSpec => []ScansMissNothing
<1>1. CallInv => ScansMissNothing
  <2> SUFFICES ASSUME CallInv PROVE ScansMissNothing
    OBVIOUS
  <2>1. ASSUME Returned("monitor")
        PROVE  LET request == call.request
                   Reported(m) == \E o \in answer.opportunities : o.market = m
                   Counts(m) == Readable(m, request) /\ ~m.raises /\ Wanted(Opportunity(m), request)
                   more == ScanMonitor(call.markets, [request EXCEPT !.limit = @ + 1])
               IN /\ \A k \in DOMAIN call.markets :
                        Counts(call.markets[k]) /\ ~Reported(call.markets[k]) =>
                           Cardinality({i \in 1..(k - 1) : Counts(call.markets[i])}) >= request.limit
                  /\ answer.opportunities \subseteq more.opportunities
                  /\ (\E o \in answer.opportunities : o.decision.action = "buy") =>
                        \A o \in answer.best : o.decision.action = "buy"
    <3> DEFINE request == call.request
               listed == call.markets
               larger == [request EXCEPT !.limit = @ + 1]
               kept == Keep(listed, request)
    <3>1. call \in MonitorCalls /\ answer = ScanMonitor(listed, request)
      BY <2>1 DEF CallInv, Drawn, Answered, Returned
    <3>2. /\ listed \in Seq(ToSet(listed))
          /\ request \in [limit : Nat, minVolume : Int, minEdge : Int \cup {None}, holds : BOOLEAN]
      <4>1. listed \in Listings /\ request \in MonitorRequests \cup {AskRequest(2)}
        BY <3>1 DEF MonitorCalls
      <4>2. AskRequest(2) \in [limit : Nat, minVolume : Int, minEdge : Int \cup {None}, holds : BOOLEAN]
        BY DEF AskRequest, Request
      <4> QED
        BY <4>1, <4>2, AlgorithmsAssumption
    <3>3. /\ request.limit \in Nat /\ larger.limit = request.limit + 1
          /\ larger.minVolume = request.minVolume /\ larger.minEdge = request.minEdge
          /\ larger.holds = request.holds
      BY <3>2
    <3>4. /\ answer.opportunities = {Opportunity(m) : m \in ToSet(kept)}
          /\ answer.best = {o \in answer.opportunities :
                               \A q \in answer.opportunities : ~Outranks(q, o)}
      BY <3>1 DEF ScanMonitor
    <3> HIDE DEF larger
    <3>5. \A m : Counted(m, larger) <=> Counted(m, request)
      BY <3>3 DEF Counted, Readable, Wanted
    <3>6. ASSUME NEW k \in DOMAIN listed, Counted(listed[k], request),
                 ~\E o \in answer.opportunities : o.market = listed[k]
          PROVE  Cardinality({i \in 1..(k - 1) : Counted(listed[i], request)}) >= request.limit
      <4>1. listed[k] \notin ToSet(kept)
        <5>1. \A m : Opportunity(m).market = m
          BY DEF Opportunity
        <5> HIDE DEF kept
        <5> QED
          BY <3>4, <3>6, <5>1
      <4>2. k \in 1..Len(listed)
        BY <3>2, LenProperties
      <4> HIDE DEF request, listed
      <4> QED
        BY <3>2, <3>3, <3>6, <4>1, <4>2, NoneMissed DEF kept
    <3>7. answer.opportunities \subseteq ScanMonitor(listed, larger).opportunities
      <4>1. ToSet(kept) \subseteq ToSet(Keep(listed, larger))
        <5> HIDE DEF request, listed
        <5> QED
          BY <3>2, <3>3, <3>5, MoreLosesNone DEF kept
      <4>2. ScanMonitor(listed, larger).opportunities = {Opportunity(m) : m \in ToSet(Keep(listed, larger))}
        BY DEF ScanMonitor
      <4> HIDE DEF kept
      <4> QED
        BY <3>4, <4>1, <4>2
    <3>8. ASSUME NEW o \in answer.opportunities, o.decision.action = "buy", NEW q \in answer.best
          PROVE  q.decision.action = "buy"
      BY <3>4, <3>8 DEF Outranks
    <3> QED
      BY <3>6, <3>7, <3>8 DEF Counted, larger
  <2>2. ASSUME Returned("radar")
        PROVE  LET scale == call.scale
                   Yes(n) == {call.rows[i] : i \in {i \in 1..n : call.rows[i].side = "YES"}}
                   Full(shown) == Cardinality(shown) = scale.shown
                   One(shown) == \A r, q \in shown : r.market = q.market => r = q
               IN /\ One(answer.near) /\ One(answer.movers) /\ One(answer.fresh)
                  /\ \A k \in DOMAIN call.rows :
                        LET r == call.rows[k]
                        IN r.side = "YES" /\ (\A q \in Yes(k - 1) : q.market # r.market) =>
                             /\ r.days \in 1..scale.expiry /\ r \notin answer.near =>
                                   Full(answer.near) /\ \A q \in answer.near : q.days <= r.days
                             /\ /\ r.history >= 2 /\ r \notin answer.movers
                                /\ Cardinality({q.market : q \in Yes(k)}) <= scale.deep
                                => Full(answer.movers) /\ \A q \in answer.movers : q.change >= r.change
    <3>1. call \in RadarCalls /\ answer = MarketRadar(call.rows, call.scale)
      BY <2>2 DEF CallInv, Drawn, Answered, Returned
    <3>2. call.rows \in Seq(RadarRow) /\ call.scale \in RadarScale
      <4>1. call.rows \in RadarLists /\ call.scale \in Scales
        BY <3>1 DEF RadarCalls
      <4> QED
        BY <4>1, AlgorithmsAssumption DEF RadarRow, RadarScale
    <3> DEFINE listed == call.rows
               scale == call.scale
    <3>3. /\ Once(answer.near) /\ Once(answer.movers) /\ Once(answer.fresh)
          /\ \A k \in DOMAIN listed : First(listed, k) =>
                /\ listed[k].days \in 1..scale.expiry /\ listed[k] \notin answer.near =>
                      /\ Cardinality(answer.near) = scale.shown
                      /\ \A q \in answer.near : q.days <= listed[k].days
                /\ /\ listed[k].history >= 2 /\ listed[k] \notin answer.movers
                   /\ Cardinality({q.market : q \in YesRows(listed, k)}) <= scale.deep
                   => /\ Cardinality(answer.movers) = scale.shown
                      /\ \A q \in answer.movers : q.change >= listed[k].change
      BY <3>1, <3>2, RadarIs
    <3>4. \A k : listed[k].side = "YES" /\ (\A q \in YesRows(listed, k - 1) : q.market # listed[k].market)
                 => First(listed, k)
      BY DEF First, YesRows
    <3> HIDE DEF listed, scale
    <3> QED
      BY <3>3, <3>4 DEF Once, YesRows, listed, scale
  <2>3. ASSUME Returned("list")
        PROVE  answer = SubSeq(call.ranking, 1,
                           Min({call.limit, Len(call.ranking)}
                               \cup (IF call.failing = 0 THEN {} ELSE {GammaPage * (call.failing - 1)})))
    <3>1. /\ call \in ListCalls
          /\ answer = ListMarkets(call.ranking, call.limit, call.failing)
      BY <2>3 DEF CallInv, Drawn, Answered, Returned
    <3>2. call.limit \in Nat /\ call.failing \in Nat /\ call.ranking \in Seq(Nat)
      <4>1. /\ call.limit \in Lengths /\ call.failing \in Lengths
            /\ \E n \in Lengths : call.ranking = [k \in 1..n |-> k]
        BY <3>1 DEF ListCalls
      <4>2. \A n \in Nat : [k \in 1..n |-> k] \in Seq(Nat)
        OBVIOUS
      <4> QED
        <5>1. Lengths \subseteq Nat
          BY AlgorithmsAssumption
        <5> QED
          BY <4>1, <4>2, <5>1
    <3> QED
      BY <3>1, <3>2, ListingIs DEF Reach
  <2> QED
    BY <2>1, <2>2, <2>3 DEF ScansMissNothing
<1> QED
  BY <1>1, CallInvariance, PTL

(* Every pair of stages that a scan flags is the risk-free bet it is called, *)
(* a claim dearer than a weaker one by more than a tolerance for each step   *)
(* between them is flagged, and what is sold of a match over the odds brings *)
(* more than any result pays (kernel/wiring.py:336-402, 609-654, 670-703),   *)
(* for any list of claims and of the markets of any matches, at any prices   *)
(* and for any tolerance.                                                    *)
THEOREM FlaggedPairsAreFree == CallSpec => []ArbIsRiskFree
<1>1. CallInv => ArbIsRiskFree
  <2> SUFFICES ASSUME CallInv PROVE ArbIsRiskFree
    OBVIOUS
  <2>1. ASSUME Returned("arb")
        PROVE  LET claims == call.claims
                   FirstC(c) == \A k \in DOMAIN claims :
                                  claims[k].of = c.of /\ Level(claims[k]) = Level(c) =>
                                     \E i \in 1..k : claims[i] = c
                   OfStages(pair) == pair[1].stage # "beat" /\ pair[2].stage # "beat"
               IN /\ \A pair \in answer.conditional : OfStages(pair) => RiskFree(pair)
                  /\ \A e \in Subjects :
                        (\A c \in ToSet(claims) : c.vs # e) =>
                           \A pair \in answer.implied[e] : OfStages(pair) => RiskFree(pair)
                  /\ \A c, d \in ToSet(claims) :
                        /\ c.of = d.of /\ FirstC(c) /\ FirstC(d) /\ Level(c) > Level(d)
                        /\ c.price > d.price + 2 * Tolerance
                        => \E pair \in answer.conditional : pair[1].of = c.of
    <3>1. PICK claims : claims = call.claims
      OBVIOUS
    <3>2. /\ call \in ArbCalls
          /\ answer = [conditional |-> ConditionalArb(claims),
                       implied |-> [e \in Subjects |-> EntityImplication(claims, e)]]
      BY <2>1, <3>1 DEF CallInv, Drawn, Answered, Returned
    <3>3. claims \in Seq(ToSet(claims)) /\ \A c \in ToSet(claims) : ClaimTyped(c)
      BY <3>1, <3>2, AlgorithmsAssumption DEF ArbCalls
    <3>4. /\ answer.conditional = ConditionalArb(claims)
          /\ \A e \in Subjects : answer.implied[e] = EntityImplication(claims, e)
      BY <3>2
    <3>5. ASSUME NEW pair \in answer.conditional, pair[1].stage # "beat", pair[2].stage # "beat"
          PROVE  RiskFree(pair)
      BY <3>3, <3>4, <3>5, ConditionalsAreFree
    <3>6. ASSUME NEW e \in Subjects, \A c \in ToSet(claims) : c.vs # e,
                 NEW pair \in answer.implied[e], pair[1].stage # "beat", pair[2].stage # "beat"
          PROVE  RiskFree(pair)
      <4>1. \A k \in DOMAIN claims : claims[k].vs # e
        BY <3>6 DEF ToSet
      <4>2. pair \in EntityImplication(claims, e)
        BY <3>4, <3>6
      <4> QED
        BY <3>3, <3>6, <4>1, <4>2, ImplicationsAreFree
    <3>7. ASSUME NEW c \in ToSet(claims), NEW d \in ToSet(claims), c.of = d.of,
                 FirstListed(claims, c), FirstListed(claims, d),
                 Level(c) > Level(d), c.price > d.price + 2 * Tolerance
          PROVE  \E pair \in answer.conditional : pair[1].of = c.of
      BY <3>3, <3>4, <3>7, DearIsFlagged
    <3> QED
      BY <3>1, <3>5, <3>6, <3>7 DEF FirstListed
  <2>2. ASSUME Returned("match"), NEW m \in answer
        PROVE  LET listed == ScoresOf(call.scores, m.teams)
                   wins == Selected(call.wins, {k \in DOMAIN call.wins : call.wins[k].team \in m.teams})
                   Results == [m.teams -> 0..2]
                   Brought(sold) == SumOf([k \in DOMAIN sold |-> sold[k].price])
               IN /\ m.exact /\ (\A result \in Results : ScoresPaid(listed, result) <= 1) =>
                        \A result \in Results :
                           Brought(listed) > 100 * Tolerance * ScoresPaid(listed, result)
                  /\ m.winner /\ Cardinality({wins[k].day : k \in DOMAIN wins}) = 1 /\ Len(wins) = 2 =>
                        \A result \in Results :
                           Brought(wins) > 100 * Tolerance * WinsPaid(wins, result)
    <3>1. PICK wins, scores : wins = call.wins /\ scores = call.scores
      OBVIOUS
    <3>2. call \in MatchCalls /\ answer = MatchConsistency(wins, scores)
      BY <2>2, <3>1 DEF CallInv, Drawn, Answered, Returned
    <3>3. wins \in WinLists /\ scores \in ScoreLists
      BY <3>1, <3>2 DEF MatchCalls
    <3>4. /\ wins \in Seq(ToSet(wins)) /\ \A w \in ToSet(wins) : w.price \in Int
          /\ scores \in Seq(ToSet(scores))
          /\ \A s \in ToSet(scores) : s.price \in Int /\ s.a # s.b
      BY <3>3, AlgorithmsAssumption
    <3>5. PICK s \in ToSet(scores) :
             /\ m.teams = {s.a, s.b}
             /\ m.exact = Overround(SumOf(Prices(ScoresOf(scores, {s.a, s.b}))))
             /\ m.winner = \E p \in WinnerPrice(wins, s.a), q \in WinnerPrice(wins, s.b) : Overround(p + q)
      <4> DEFINE full(s) == Overround(SumOf(Prices(ScoresOf(scores, {s.a, s.b}))))
                 both(s) == \E p \in WinnerPrice(wins, s.a), q \in WinnerPrice(wins, s.b) : Overround(p + q)
      <4>1. answer = {[teams |-> {s.a, s.b}, exact |-> full(s), winner |-> both(s)] : s \in ToSet(scores)}
        BY <3>2 DEF MatchConsistency, Prices
      <4>2. \A s : full(s) \in BOOLEAN /\ both(s) \in BOOLEAN
        BY DEF Overround
      <4> HIDE DEF full, both
      <4>3. PICK s \in ToSet(scores) : m = [teams |-> {s.a, s.b}, exact |-> full(s), winner |-> both(s)]
        BY <2>2, <4>1
      <4>4. m.teams = {s.a, s.b} /\ m.exact = full(s) /\ m.winner = both(s)
        BY <4>3
      <4> QED
        BY <4>4 DEF full, both
    <3>6. ASSUME m.exact, NEW result \in [m.teams -> 0..2], ScoresPaid(ScoresOf(scores, m.teams), result) <= 1
          PROVE  SumOf(Prices(ScoresOf(scores, m.teams)))
                    > 100 * Tolerance * ScoresPaid(ScoresOf(scores, m.teams), result)
      BY <3>4, <3>5, <3>6, ScoresOverround
    <3>7. ASSUME m.winner, NEW result \in [m.teams -> 0..2], Len(WinsOf(wins, m.teams)) = 2
          PROVE  SumOf(Prices(WinsOf(wins, m.teams))) > 100 * Tolerance * WinsPaid(WinsOf(wins, m.teams), result)
      <4>1. PICK a, b : a = s.a /\ b = s.b
        OBVIOUS
      <4>2. a # b /\ m.teams = {a, b}
        BY <3>4, <3>5, <4>1
      <4>3. PICK p \in WinnerPrice(wins, a), q \in WinnerPrice(wins, b) : Overround(p + q)
        BY <3>5, <3>7, <4>1
      <4>4. result \in [{a, b} -> 0..2] /\ Len(WinsOf(wins, {a, b})) = 2
        BY <3>7, <4>2
      <4>5. PICK X : X = ToSet(wins)
        OBVIOUS
      <4>6. wins \in Seq(X) /\ \A x \in X : x.price \in Int
        BY <3>4, <4>5
      <4>7. SumOf(Prices(WinsOf(wins, {a, b}))) > 100 * Tolerance * WinsPaid(WinsOf(wins, {a, b}), result)
        BY <4>2, <4>3, <4>4, <4>6, WinsOverround
      <4> QED
        BY <4>2, <4>7
    <3> QED
      BY ZenonT(40), <3>1, <3>6, <3>7 DEF Prices, WinsOf
  <2> QED
    BY <2>1, <2>2 DEF ArbIsRiskFree
<1> QED
  BY <1>1, CallInvariance, PTL

-----------------------------------------------------------------------------
(* The label of a row says what the market of its token settled to.         *)
Labelled(token, label) == settled[token] # NoValue /\ label = settled[token].outcome

RowsTrue ==
    \A k \in DOMAIN rows : /\ k.token \in Tokens
                           /\ rows[k].label # NoValue => Labelled(k.token, rows[k].label)

WritesTrue ==
    \A w \in Workers : backfill[w] # NoValue =>
        \A x \in backfill[w] : /\ x.key.token \in Tokens
                               /\ Labelled(x.key.token, x.row.label)

SampleTrue(sample) ==
    \A f \in sample : f.key.token \in Tokens /\ Labelled(f.key.token, f.outcome)

InProgress == {"read", "forecasts", "evaluated"}

SamplesTrue ==
    /\ \A r \in Runs : run[r].at \in InProgress => SampleTrue(run[r].sample)
    /\ \A r \in DOMAIN evaluations : SampleTrue(evaluations[r].sample)

LabelsTrue == RowsTrue /\ WritesTrue /\ SamplesTrue

(* What a backtest is made of while it runs.                                *)
Shape ==
    /\ IsFiniteSet(DOMAIN rows)
    /\ DOMAIN settled = Tokens /\ DOMAIN backfill = Workers
    /\ DOMAIN run = Runs /\ DOMAIN forecasts = Runs
    /\ settled = [t \in Tokens |-> settled[t]]
    /\ backfill = [w \in Workers |-> backfill[w]]
    /\ run = [r \in Runs |-> run[r]] /\ forecasts = [r \in Runs |-> forecasts[r]]
    /\ \A r \in Runs :
          \/ run[r] = Idle \/ run[r] = [at |-> "over"]
          \/ /\ run[r].at \in InProgress
             /\ run[r] = [at |-> run[r].at, request |-> run[r].request,
                          sample |-> run[r].sample, warnings |-> run[r].warnings]
             /\ run[r].request \in Requests /\ IsFiniteSet(run[r].sample)

(* What has been saved by the time a run is at its place.                   *)
Saved ==
    /\ \A r \in Runs :
          /\ run[r].at \in {"forecasts", "evaluated"} => forecasts[r] = 1..SampleSize(r)
          /\ run[r].at = "evaluated" =>
                r \in DOMAIN evaluations /\ evaluations[r].n = SampleSize(r)
    /\ \A r \in runRows : r \in Runs /\ run[r].at = "over"
    /\ SavedRunsAreComplete

(* A report's counts are those of its sample.                               *)
ReportsTrue ==
    \A e \in Reports : e.paperReady => Cardinality(e.sample) >= MinSamples

EInv == Shape /\ LabelsTrue /\ Saved /\ ReportsTrue

-----------------------------------------------------------------------------
LEMMA Upserting ==
    ASSUME NEW k, NEW row
    PROVE  /\ DOMAIN Upserted(k, row) = DOMAIN rows \cup {k}
           /\ Upserted(k, row)[k] = row
           /\ \A l \in DOMAIN rows \ {k} : Upserted(k, row)[l] = rows[l]
           /\ IsFiniteSet(DOMAIN rows) => IsFiniteSet(DOMAIN Upserted(k, row))
<1>1. DOMAIN Upserted(k, row) = DOMAIN rows \cup {k}
  BY DEF Upserted
<1>2. IsFiniteSet(DOMAIN rows) => IsFiniteSet(DOMAIN rows \cup {k})
  BY FS_AddElement
<1> QED
  BY <1>1, <1>2 DEF Upserted

(* The number of forecasts of a run is a number, and more than the fixtures *)
(* only with real rows.                                                     *)
LEMMA SampleSizes ==
    ASSUME NEW r \in Runs, run[r].request \in Requests, IsFiniteSet(run[r].sample)
    PROVE  /\ SampleSize(r) \in Nat
           /\ SampleSize(r) >= MinSamples => Cardinality(run[r].sample) >= MinSamples
<1>1. Fixtures \in Nat /\ MinSamples \in Nat /\ Fixtures < MinSamples
      /\ run[r].request.limit \in Nat
  BY EvidenceAssumption
<1>2. /\ Min({Fixtures, run[r].request.limit}) \in Nat
      /\ Min({Fixtures, run[r].request.limit}) <= Fixtures
  <2> DEFINE l == run[r].request.limit
  <2>1. Fixtures \in Int /\ l \in Int
    BY <1>1
  <2> HIDE DEF l
  <2>2. Min({Fixtures, l}) = (IF Fixtures <= l THEN Fixtures ELSE l)
    BY <2>1, MinOfTwo
  <2> QED
    BY <1>1, <2>1, <2>2 DEF l
<1>3. Cardinality(run[r].sample) \in Nat
  BY FS_CardinalityType
<1> QED
  BY <1>1, <1>2, <1>3 DEF SampleSize, IsFixture

-----------------------------------------------------------------------------
LEMMA InitEInv == Init => EInv
<1> SUFFICES ASSUME Init PROVE EInv
  OBVIOUS
<1>1. DOMAIN rows = {} /\ DOMAIN evaluations = {}
  BY DEF Init
<1>2. Shape
  BY <1>1, FS_EmptySet DEF Init, Shape, Idle
<1>3. LabelsTrue
  BY <1>1 DEF Init, LabelsTrue, RowsTrue, WritesTrue, SamplesTrue, InProgress, Idle
<1>4. Saved /\ ReportsTrue
  BY <1>1 DEF Init, Saved, SavedRunsAreComplete, ReportsTrue, Reports, Idle
<1> QED
  BY <1>2, <1>3, <1>4 DEF EInv

(* A market that settles changes no label there is.                         *)
LEMMA SettleStep ==
    ASSUME EInv, NEW t \in Tokens, NEW o \in {0, 1}, Settle(t, o)
    PROVE  EInv'
<1>1. /\ \A u \in Tokens \ {t} : settled'[u] = settled[u]
      /\ settled[t] = NoValue
      /\ DOMAIN settled' = Tokens
      /\ settled' = [u \in Tokens |-> settled'[u]]
      /\ rows' = rows /\ backfill' = backfill /\ run' = run /\ forecasts' = forecasts
      /\ evaluations' = evaluations /\ runRows' = runRows
  BY DEF Settle, EInv, Shape
<1>2. \A u \in Tokens : \A label : Labelled(u, label) => Labelled(u, label)'
  BY <1>1 DEF Labelled
<1>3. Shape'
  BY <1>1 DEF EInv, Shape
<1>4. \A S : SampleTrue(S) => SampleTrue(S)'
  BY <1>2 DEF SampleTrue
<1>5. RowsTrue' /\ WritesTrue'
  BY <1>1, <1>2 DEF EInv, LabelsTrue, RowsTrue, WritesTrue
<1>6. SamplesTrue'
  BY <1>1, <1>4 DEF EInv, LabelsTrue, SamplesTrue
<1>7. Saved' /\ ReportsTrue'
  BY ZenonT(40), <1>1 DEF EInv, Saved, SavedRunsAreComplete, ReportsTrue, Reports, SampleSize, IsFixture
<1> QED
  BY <1>3, <1>5, <1>6, <1>7 DEF EInv, LabelsTrue

(* A row may be written if it has no label or the true one.                 *)
LEMMA WriteStep ==
    ASSUME EInv, NEW k, NEW row, rows' = Upserted(k, row), k.token \in Tokens,
           row.label # NoValue => Labelled(k.token, row.label),
           UNCHANGED <<settled, run, forecasts, evaluations, runRows>>,
           DOMAIN backfill' = Workers, backfill' = [w \in Workers |-> backfill'[w]],
           \A w \in Workers :
              \/ backfill'[w] = backfill[w]
              \/ backfill[w] # NoValue /\ backfill'[w] \subseteq backfill[w]
    PROVE  EInv'
<1>1. Shape'
  BY Upserting DEF EInv, Shape
<1>2. RowsTrue'
  <2>1. DOMAIN rows' = DOMAIN rows \cup {k} /\ rows'[k] = row
        /\ \A l \in DOMAIN rows \ {k} : rows'[l] = rows[l]
    BY DEF Upserted
  <2>2. \A l \in DOMAIN rows : /\ l.token \in Tokens
                               /\ rows[l].label # NoValue => Labelled(l.token, rows[l].label)
    BY DEF EInv, LabelsTrue, RowsTrue
  <2> QED
    BY <2>1, <2>2 DEF RowsTrue, Labelled
<1>3. WritesTrue'
  <2>1. \A w \in Workers : backfill[w] # NoValue =>
          \A x \in backfill[w] : x.key.token \in Tokens /\ Labelled(x.key.token, x.row.label)
    BY DEF EInv, LabelsTrue, WritesTrue
  <2> QED
    BY <2>1 DEF WritesTrue, Labelled
<1>4. SamplesTrue'
  BY DEF EInv, LabelsTrue, SamplesTrue, SampleTrue, Labelled
<1>5. Saved' /\ ReportsTrue'
  BY SMTT(30) DEF EInv, Saved, SavedRunsAreComplete, ReportsTrue, Reports, SampleSize, IsFixture
<1> QED
  BY <1>1, <1>2, <1>3, <1>4, <1>5 DEF EInv, LabelsTrue

(* Reading a row, or nothing, disturbs nothing else.                        *)
LEMMA RowsStep ==
    ASSUME EInv, NEW t \in Tokens, RecordCollection(t) \/ Ingest(t)
    PROVE  EInv'
<1>1. CASE RecordCollection(t)
  <2> DEFINE k == Key(t, now, "live")
             row == Row(NoValue, NoValue)
  <2>1. k.token = t /\ row.label = NoValue
    BY DEF Key, Row
  <2>2. rows' = Upserted(k, row)
        /\ UNCHANGED <<settled, backfill, run, forecasts, evaluations, runRows>>
    BY <1>1 DEF RecordCollection
  <2>3. DOMAIN backfill' = Workers /\ backfill' = [w \in Workers |-> backfill'[w]]
        /\ \A w \in Workers : backfill'[w] = backfill[w]
    BY <2>2 DEF EInv, Shape
  <2> HIDE DEF k, row
  <2> QED
    BY <2>1, <2>2, <2>3, WriteStep
<1>2. CASE Ingest(t)
  <2>1. PICK c \in Rebuilt(t) :
            rows' = Upserted(Key(t, c.asOf, "rebuilt"),
                             Row(settled[t].outcome, c.availableAtMax))
    BY <1>2 DEF Ingest
  <2> DEFINE k == Key(t, c.asOf, "rebuilt")
             row == Row(settled[t].outcome, c.availableAtMax)
  <2>2. k.token = t /\ row.label = settled[t].outcome
    BY DEF Key, Row
  <2>3. settled[t] # NoValue
        /\ UNCHANGED <<settled, backfill, run, forecasts, evaluations, runRows>>
    BY <1>2 DEF Ingest
  <2>4. DOMAIN backfill' = Workers /\ backfill' = [w \in Workers |-> backfill'[w]]
        /\ \A w \in Workers : backfill'[w] = backfill[w]
    BY <2>3 DEF EInv, Shape
  <2>5. rows' = Upserted(k, row)
    BY <2>1
  <2> HIDE DEF k, row
  <2>6. Labelled(k.token, row.label)
    BY <2>2, <2>3 DEF Labelled
  <2> QED
    BY <2>2, <2>3, <2>4, <2>5, <2>6, WriteStep
<1> QED
  BY <1>1, <1>2

(* What a worker read still holds when it is written, however late: an      *)
(* outcome is never withdrawn.                                              *)
LEMMA BackfillStep ==
    ASSUME EInv, NEW w \in Workers, BackfillRead(w) \/ BackfillWrite(w) \/ BackfillEnd(w)
    PROVE  EInv'
<1>1. CASE BackfillRead(w)
  <2>1. PICK fetched \in FetchCollections(0..now, BackfillLimit),
             resolved \in SUBSET {t \in Tokens : settled[t] # NoValue} :
            backfill' = [backfill EXCEPT ![w] =
              {[key |-> k, row |-> Row(settled[k.token].outcome, rows[k].declared)] :
                   k \in {k \in fetched : rows[k].label = NoValue /\ k.token \in resolved}}]
    BY <1>1 DEF BackfillRead
  <2> DEFINE writes ==
              {[key |-> k, row |-> Row(settled[k.token].outcome, rows[k].declared)] :
                   k \in {k \in fetched : rows[k].label = NoValue /\ k.token \in resolved}}
  <2>2. \A x \in writes : x.key.token \in Tokens /\ Labelled(x.key.token, x.row.label)
    BY DEF Row, Labelled
  <2>3. backfill' = [backfill EXCEPT ![w] = writes]
    BY <2>1
  <2> HIDE DEF writes
  <2>4. /\ UNCHANGED <<settled, rows, run, forecasts, evaluations, runRows>>
        /\ DOMAIN backfill' = Workers /\ backfill' = [v \in Workers |-> backfill'[v]]
        /\ backfill'[w] = writes /\ \A v \in Workers \ {w} : backfill'[v] = backfill[v]
    <3>1. UNCHANGED <<settled, rows, run, forecasts, evaluations, runRows>>
      BY <1>1 DEF BackfillRead
    <3>2. backfill = [v \in Workers |-> backfill[v]] /\ DOMAIN backfill = Workers
      BY DEF EInv, Shape
    <3> QED
      BY <2>3, <3>1, <3>2
  <2>5. Shape'
    BY <2>4 DEF EInv, Shape
  <2>6. RowsTrue' /\ SamplesTrue'
    BY <2>4 DEF EInv, LabelsTrue, RowsTrue, SamplesTrue, SampleTrue, Labelled
  <2>7. WritesTrue'
    <3>1. \A v \in Workers : backfill[v] # NoValue =>
             \A x \in backfill[v] : x.key.token \in Tokens /\ Labelled(x.key.token, x.row.label)
      BY DEF EInv, LabelsTrue, WritesTrue
    <3> QED
      BY <2>2, <2>4, <3>1 DEF WritesTrue, Labelled
  <2>8. Saved' /\ ReportsTrue'
    BY <2>4 DEF EInv, Saved, SavedRunsAreComplete, ReportsTrue, Reports, SampleSize, IsFixture
  <2> QED
    BY <2>5, <2>6, <2>7, <2>8 DEF EInv, LabelsTrue
<1>2. CASE BackfillWrite(w)
  <2>1. PICK x \in backfill[w] : /\ rows' = Upserted(x.key, x.row)
                                 /\ backfill' = [backfill EXCEPT ![w] = @ \ {x}]
    BY <1>2 DEF BackfillWrite
  <2>2. /\ backfill[w] # NoValue
        /\ UNCHANGED <<settled, run, forecasts, evaluations, runRows>>
    BY <1>2 DEF BackfillWrite
  <2>3. x.key.token \in Tokens /\ Labelled(x.key.token, x.row.label)
    BY <2>2 DEF EInv, LabelsTrue, WritesTrue
  <2>4. /\ DOMAIN backfill' = Workers /\ backfill' = [v \in Workers |-> backfill'[v]]
        /\ backfill'[w] \subseteq backfill[w]
        /\ \A v \in Workers \ {w} : backfill'[v] = backfill[v]
    BY <2>1 DEF EInv, Shape
  <2> QED
    BY <2>1, <2>2, <2>3, <2>4, WriteStep
<1>3. CASE BackfillEnd(w)
  <2>1. /\ UNCHANGED <<settled, rows, run, forecasts, evaluations, runRows>>
        /\ DOMAIN backfill' = Workers /\ backfill' = [v \in Workers |-> backfill'[v]]
        /\ backfill'[w] = NoValue /\ \A v \in Workers \ {w} : backfill'[v] = backfill[v]
    BY <1>3 DEF BackfillEnd, EInv, Shape
  <2>2. Shape' /\ RowsTrue' /\ SamplesTrue'
    BY <2>1 DEF EInv, Shape, LabelsTrue, RowsTrue, SamplesTrue, SampleTrue, Labelled
  <2>3. WritesTrue'
    BY <2>1 DEF EInv, LabelsTrue, WritesTrue, Labelled
  <2>4. Saved' /\ ReportsTrue'
    BY <2>1 DEF EInv, Saved, SavedRunsAreComplete, ReportsTrue, Reports, SampleSize, IsFixture
  <2> QED
    BY <2>2, <2>3, <2>4 DEF EInv, LabelsTrue
<1> QED
  BY <1>1, <1>2, <1>3

-----------------------------------------------------------------------------
(* A sample is made of rows that have a label.                              *)
LEMMA ReadStep ==
    ASSUME EInv, NEW r \in Runs, NEW q \in Requests, ReadEvidence(r, q)
    PROVE  EInv'
<1>1. PICK fetched \in FetchCollections(q.window, q.limit) :
          run' = [run EXCEPT ![r] =
              [at |-> "read", request |-> q,
               sample |-> {Forecast(k) : k \in {k \in fetched : Eligible(k, q)}},
               warnings |-> {k \in fetched : Usable(k, q) /\ PitWarning(k)}]]
  BY DEF ReadEvidence
<1> DEFINE chosen == {k \in fetched : Eligible(k, q)}
           sample == {Forecast(k) : k \in chosen}
           warnings == {k \in fetched : Usable(k, q) /\ PitWarning(k)}
           j == [at |-> "read", request |-> q, sample |-> sample, warnings |-> warnings]
<1>2. fetched \subseteq DOMAIN rows
  BY DEF FetchCollections
<1>3. IsFiniteSet(sample)
  <2>1. chosen \in SUBSET DOMAIN rows /\ IsFiniteSet(DOMAIN rows)
    BY <1>2 DEF EInv, Shape
  <2>2. IsFiniteSet(chosen)
    BY <2>1, FS_Subset
  <2> DEFINE f == [k \in chosen |-> Forecast(k)]
  <2>3. f \in Surjection(chosen, sample)
    BY DEF Surjection
  <2> HIDE DEF f, chosen, sample
  <2> QED
    BY <2>2, <2>3, FS_Surjection
<1>4. SampleTrue(sample)
  <2>1. \A k \in chosen : k.token \in Tokens /\ Labelled(k.token, rows[k].label)
    BY <1>2 DEF EInv, LabelsTrue, RowsTrue, Eligible, Usable
  <2> QED
    BY <2>1 DEF SampleTrue, Forecast
<1>5. run' = [run EXCEPT ![r] = j]
  BY <1>1
<1> HIDE DEF chosen, sample, warnings
<1>6. /\ UNCHANGED <<settled, rows, backfill, forecasts, evaluations, runRows>>
      /\ run[r].at = "new"
  BY DEF ReadEvidence
<1>7. /\ DOMAIN run' = Runs /\ run' = [p \in Runs |-> run'[p]]
      /\ run'[r] = j /\ \A p \in Runs \ {r} : run'[p] = run[p]
  <2>1. DOMAIN run = Runs
    BY DEF EInv, Shape
  <2> QED
    BY <1>5, <2>1
<1>8. /\ j.at = "read" /\ j.request = q /\ j.sample = sample
      /\ j = [at |-> j.at, request |-> j.request, sample |-> j.sample, warnings |-> j.warnings]
  OBVIOUS
<1> HIDE DEF j
<1>9. Shape'
  BY <1>3, <1>6, <1>7, <1>8 DEF EInv, Shape, InProgress
<1>10. RowsTrue' /\ WritesTrue'
  BY <1>6 DEF EInv, LabelsTrue, RowsTrue, WritesTrue, Labelled
<1>11. SamplesTrue'
  BY <1>4, <1>6, <1>7, <1>8 DEF EInv, LabelsTrue, SamplesTrue, SampleTrue, Labelled
<1>12. Saved'
  <2>1. \A p \in runRows : p # r
    BY <1>6 DEF EInv, Saved
  <2> QED
    BY <1>6, <1>7, <1>8, <2>1 DEF EInv, Saved, SavedRunsAreComplete, SampleSize, IsFixture
<1>13. ReportsTrue'
  BY <1>6 DEF EInv, ReportsTrue, Reports
<1> QED
  BY <1>9, <1>10, <1>11, <1>12, <1>13 DEF EInv, LabelsTrue

(* A backtest moves on from one saved part to the next.                     *)
LEMMA StageMoves ==
    ASSUME EInv, NEW r \in Runs, run[r].at \in InProgress, NEW at \in InProgress,
           run' = [run EXCEPT ![r].at = at]
    PROVE  /\ DOMAIN run' = Runs /\ run' = [p \in Runs |-> run'[p]]
           /\ run'[r] = [at |-> at, request |-> run[r].request,
                         sample |-> run[r].sample, warnings |-> run[r].warnings]
           /\ \A p \in Runs \ {r} : run'[p] = run[p]
           /\ SampleSize(r)' = SampleSize(r)
           /\ run[r].request \in Requests /\ IsFiniteSet(run[r].sample)
<1>1. /\ run[r] = [at |-> run[r].at, request |-> run[r].request,
                   sample |-> run[r].sample, warnings |-> run[r].warnings]
      /\ run[r].request \in Requests /\ IsFiniteSet(run[r].sample)
      /\ DOMAIN run = Runs
  BY DEF EInv, Shape, InProgress, Idle
<1>2. [run[r] EXCEPT !.at = at] = [at |-> at, request |-> run[r].request,
                         sample |-> run[r].sample, warnings |-> run[r].warnings]
  BY <1>1
<1> DEFINE j == [run[r] EXCEPT !.at = at]
<1>3. run' = [run EXCEPT ![r] = j]
  BY <1>1
<1> HIDE DEF j
<1>4. /\ DOMAIN run' = Runs /\ run' = [p \in Runs |-> run'[p]]
      /\ run'[r] = j /\ \A p \in Runs \ {r} : run'[p] = run[p]
  BY <1>1, <1>3
<1>5. run'[r].sample = run[r].sample /\ run'[r].request = run[r].request
  BY <1>2, <1>4 DEF j
<1> QED
  BY <1>1, <1>2, <1>4, <1>5 DEF j, SampleSize, IsFixture

LEMMA SaveForecastsStep ==
    ASSUME EInv, NEW r \in Runs, SaveForecasts(r)
    PROVE  EInv'
<1>1. /\ run[r].at = "read" /\ run' = [run EXCEPT ![r].at = "forecasts"]
      /\ forecasts' = [forecasts EXCEPT ![r] = 1..SampleSize(r)]
      /\ UNCHANGED <<settled, rows, backfill, evaluations, runRows>>
  BY DEF SaveForecasts
<1>2. /\ DOMAIN run' = Runs /\ run' = [p \in Runs |-> run'[p]]
      /\ run'[r] = [at |-> "forecasts", request |-> run[r].request,
                    sample |-> run[r].sample, warnings |-> run[r].warnings]
      /\ \A p \in Runs \ {r} : run'[p] = run[p]
      /\ SampleSize(r)' = SampleSize(r)
      /\ run[r].request \in Requests /\ IsFiniteSet(run[r].sample)
  BY <1>1, StageMoves DEF InProgress
<1> DEFINE size == SampleSize(r)
<1>3. /\ DOMAIN forecasts' = Runs /\ forecasts' = [p \in Runs |-> forecasts'[p]]
      /\ forecasts'[r] = 1..size /\ \A p \in Runs \ {r} : forecasts'[p] = forecasts[p]
  <2>1. DOMAIN forecasts = Runs
    BY DEF EInv, Shape
  <2> HIDE DEF size
  <2>2. forecasts' = [forecasts EXCEPT ![r] = 1..size]
    BY <1>1 DEF size
  <2> QED
    BY <2>1, <2>2
<1>4. Shape'
  BY <1>1, <1>2, <1>3 DEF EInv, Shape, InProgress
<1>5. RowsTrue' /\ WritesTrue'
  BY <1>1 DEF EInv, LabelsTrue, RowsTrue, WritesTrue, Labelled
<1>6. SamplesTrue'
  <2>1. SampleTrue(run[r].sample)
    BY <1>1 DEF EInv, LabelsTrue, SamplesTrue, InProgress
  <2>2. \A S : SampleTrue(S)' <=> SampleTrue(S)
    BY <1>1 DEF SampleTrue, Labelled
  <2>3. \A p \in Runs : run'[p].at \in InProgress => SampleTrue(run'[p].sample)
    BY <1>2, <2>1 DEF EInv, LabelsTrue, SamplesTrue
  <2>4. \A q \in DOMAIN evaluations' : SampleTrue(evaluations'[q].sample)
    BY <1>1 DEF EInv, LabelsTrue, SamplesTrue
  <2> QED
    BY <2>2, <2>3, <2>4 DEF SamplesTrue
<1>7. \A p \in runRows : p # r
  BY <1>1 DEF EInv, Saved
<1>8. Saved'
  <2>1. \A p \in Runs \ {r} : SampleSize(p)' = SampleSize(p)
    BY <1>2 DEF SampleSize, IsFixture
  <2> QED
    BY <1>1, <1>2, <1>3, <1>7, <2>1 DEF EInv, Saved, SavedRunsAreComplete
<1>9. ReportsTrue'
  BY <1>1 DEF EInv, ReportsTrue, Reports
<1> QED
  BY <1>4, <1>5, <1>6, <1>8, <1>9 DEF EInv, LabelsTrue

LEMMA SaveEvaluationStep ==
    ASSUME EInv, NEW r \in Runs, SaveEvaluation(r)
    PROVE  EInv'
<1>1. PICK beatsMarket \in BOOLEAN, ecePass \in BOOLEAN :
          evaluations' = [q \in DOMAIN evaluations \cup {r} |->
              IF q = r THEN Report(r, PaperReady(r, beatsMarket, ecePass)) ELSE evaluations[q]]
  BY DEF SaveEvaluation
<1> DEFINE new == Report(r, PaperReady(r, beatsMarket, ecePass))
<1>2. /\ run[r].at = "forecasts" /\ run' = [run EXCEPT ![r].at = "evaluated"]
      /\ UNCHANGED <<settled, rows, backfill, forecasts, runRows>>
  BY DEF SaveEvaluation
<1>3. /\ DOMAIN run' = Runs /\ run' = [p \in Runs |-> run'[p]]
      /\ run'[r] = [at |-> "evaluated", request |-> run[r].request,
                    sample |-> run[r].sample, warnings |-> run[r].warnings]
      /\ \A p \in Runs \ {r} : run'[p] = run[p]
      /\ SampleSize(r)' = SampleSize(r)
      /\ run[r].request \in Requests /\ IsFiniteSet(run[r].sample)
  BY <1>2, StageMoves DEF InProgress
<1>4. /\ new.sample = run[r].sample /\ new.n = SampleSize(r)
      /\ new.paperReady => Cardinality(new.sample) >= MinSamples
  BY <1>3, SampleSizes DEF Report, PaperReady
<1> HIDE DEF new
<1>5. /\ DOMAIN evaluations' = DOMAIN evaluations \cup {r}
      /\ evaluations'[r] = new
      /\ \A q \in DOMAIN evaluations \ {r} : evaluations'[q] = evaluations[q]
  BY <1>1 DEF new
<1>6. Shape'
  BY <1>2, <1>3 DEF EInv, Shape, InProgress
<1>7. RowsTrue' /\ WritesTrue'
  BY <1>2 DEF EInv, LabelsTrue, RowsTrue, WritesTrue, Labelled
<1>8. SamplesTrue'
  <2>1. SampleTrue(run[r].sample)
    BY <1>2 DEF EInv, LabelsTrue, SamplesTrue, InProgress
  <2>2. \A S : SampleTrue(S)' <=> SampleTrue(S)
    BY <1>2 DEF SampleTrue, Labelled
  <2>3. \A p \in Runs : run'[p].at \in InProgress => SampleTrue(run'[p].sample)
    BY <1>3, <2>1 DEF EInv, LabelsTrue, SamplesTrue
  <2>4. \A q \in DOMAIN evaluations' : SampleTrue(evaluations'[q].sample)
    BY <1>4, <1>5, <2>1 DEF EInv, LabelsTrue, SamplesTrue
  <2> QED
    BY <2>2, <2>3, <2>4 DEF SamplesTrue
<1>9. \A p \in runRows : p # r
  BY <1>2 DEF EInv, Saved
<1>10. Saved'
  <2>1. \A p \in Runs \ {r} : SampleSize(p)' = SampleSize(p)
    BY <1>3 DEF SampleSize, IsFixture
  <2>2. /\ \A p \in Runs : run[p].at \in {"forecasts", "evaluated"} =>
                               forecasts[p] = 1..SampleSize(p)
        /\ \A p \in Runs : run[p].at = "evaluated" =>
                p \in DOMAIN evaluations /\ evaluations[p].n = SampleSize(p)
        /\ \A p \in runRows : /\ p \in Runs /\ run[p].at = "over"
                               /\ p \in DOMAIN evaluations
                               /\ Cardinality(forecasts[p]) = evaluations[p].n
    BY DEF EInv, Saved, SavedRunsAreComplete
  <2>3. \A p \in Runs : run'[p].at \in {"forecasts", "evaluated"} =>
                           forecasts'[p] = 1..SampleSize(p)'
    <3>1. forecasts[r] = 1..SampleSize(r) /\ forecasts' = forecasts
      BY <1>2, <2>2
    <3> TAKE p \in Runs
    <3>2. CASE p = r
      BY <1>3, <3>1, <3>2
    <3>3. CASE p # r
      <4>1. run'[p] = run[p] /\ SampleSize(p)' = SampleSize(p)
        BY <1>3, <2>1, <3>3
      <4> QED
        BY <2>2, <3>1, <4>1
    <3> QED
      BY <3>2, <3>3
  <2>4. \A p \in Runs : run'[p].at = "evaluated" =>
              p \in DOMAIN evaluations' /\ evaluations'[p].n = SampleSize(p)'
    BY <1>3, <1>4, <1>5, <2>1, <2>2
  <2>5. \A p \in runRows' : /\ p \in Runs /\ run'[p].at = "over"
                             /\ p \in DOMAIN evaluations'
                             /\ Cardinality(forecasts'[p]) = evaluations'[p].n
    BY <1>2, <1>3, <1>5, <1>9, <2>2
  <2> QED
    BY <2>3, <2>4, <2>5 DEF Saved, SavedRunsAreComplete
<1>11. ReportsTrue'
  BY <1>4, <1>5 DEF EInv, ReportsTrue, Reports
<1> QED
  BY <1>6, <1>7, <1>8, <1>10, <1>11 DEF EInv, LabelsTrue

LEMMA SaveRunStep ==
    ASSUME EInv, NEW r \in Runs, SaveBacktestRun(r)
    PROVE  EInv'
<1> DEFINE j == [at |-> "over"]
<1>1. /\ run[r].at = "evaluated" /\ run' = [run EXCEPT ![r] = j]
      /\ runRows' = runRows \cup {r}
      /\ UNCHANGED <<settled, rows, backfill, forecasts, evaluations>>
  BY DEF SaveBacktestRun
<1>2. j.at = "over"
  OBVIOUS
<1>3. /\ DOMAIN run' = Runs /\ run' = [p \in Runs |-> run'[p]]
      /\ run'[r] = j /\ \A p \in Runs \ {r} : run'[p] = run[p]
  <2>1. DOMAIN run = Runs
    BY DEF EInv, Shape
  <2> QED
    BY <1>1, <2>1
<1>4. Shape'
  BY <1>1, <1>3 DEF EInv, Shape
<1>5. RowsTrue' /\ WritesTrue'
  BY <1>1 DEF EInv, LabelsTrue, RowsTrue, WritesTrue, Labelled
<1>6. SamplesTrue'
  BY <1>1, <1>2, <1>3 DEF EInv, LabelsTrue, SamplesTrue, SampleTrue, Labelled, InProgress
<1>7. /\ run[r].request \in Requests /\ IsFiniteSet(run[r].sample)
  BY <1>1 DEF EInv, Shape, InProgress, Idle
<1>8. /\ r \in DOMAIN evaluations /\ Cardinality(forecasts[r]) = evaluations[r].n
  <2> DEFINE n == SampleSize(r)
  <2>1. n \in Nat
    BY <1>7, SampleSizes
  <2>2. forecasts[r] = 1..n /\ r \in DOMAIN evaluations /\ evaluations[r].n = n
    BY <1>1 DEF EInv, Saved
  <2> HIDE DEF n
  <2>3. Cardinality(1..n) = n
    BY <2>1, FS_Interval
  <2> QED
    BY <2>2, <2>3
<1>9. Saved'
  <2>1. \A p \in Runs \ {r} : SampleSize(p)' = SampleSize(p)
    BY <1>3 DEF SampleSize, IsFixture
  <2> QED
    BY <1>1, <1>2, <1>3, <1>8, <2>1 DEF EInv, Saved, SavedRunsAreComplete
<1>10. ReportsTrue'
  BY <1>1 DEF EInv, ReportsTrue, Reports
<1> QED
  BY <1>4, <1>5, <1>6, <1>9, <1>10 DEF EInv, LabelsTrue

(* A death forgets what was running and nothing that was saved.             *)
LEMMA DieStep == ASSUME EInv, Die PROVE EInv'
<1>1. /\ UNCHANGED <<settled, rows, forecasts, evaluations, runRows>>
      /\ backfill' = [w \in Workers |-> NoValue]
      /\ run' = [r \in Runs |-> IF run[r].at = "new" THEN Idle ELSE [at |-> "over"]]
  BY DEF Die
<1>2. /\ DOMAIN run' = Runs /\ run' = [r \in Runs |-> run'[r]]
      /\ \A r \in Runs : run'[r] = Idle \/ run'[r] = [at |-> "over"]
      /\ \A r \in Runs : run[r].at = "over" => run'[r] = [at |-> "over"]
  BY <1>1
<1>3. DOMAIN backfill' = Workers /\ backfill' = [w \in Workers |-> backfill'[w]]
      /\ \A w \in Workers : backfill'[w] = NoValue
  BY <1>1
<1>4. \A r \in Runs : run'[r].at \in {"new", "over"}
  BY <1>2 DEF Idle
<1>5. Shape'
  BY <1>1, <1>2, <1>3 DEF EInv, Shape
<1>6. RowsTrue' /\ WritesTrue'
  BY <1>1, <1>3 DEF EInv, LabelsTrue, RowsTrue, WritesTrue, Labelled
<1>7. SamplesTrue'
  BY <1>1, <1>4 DEF EInv, LabelsTrue, SamplesTrue, SampleTrue, Labelled, InProgress
<1>8. Saved' /\ ReportsTrue'
  BY <1>1, <1>2, <1>4 DEF EInv, Saved, SavedRunsAreComplete, ReportsTrue, Reports
<1> QED
  BY <1>5, <1>6, <1>7, <1>8 DEF EInv, LabelsTrue

LEMMA NextEInv == EInv /\ [Next]_vars => EInv'
<1> SUFFICES ASSUME EInv, [Next]_vars PROVE EInv'
  OBVIOUS
<1>1. CASE Tick \/ UNCHANGED vars
  <2>1. UNCHANGED <<settled, rows, backfill, run, forecasts, evaluations, runRows>>
    BY <1>1 DEF Tick, vars
  <2>2. Shape' /\ RowsTrue' /\ WritesTrue'
    BY SMTT(30), <2>1 DEF EInv, Shape, LabelsTrue, RowsTrue, WritesTrue, Labelled
  <2>3. SamplesTrue'
    BY <2>1 DEF EInv, LabelsTrue, SamplesTrue, SampleTrue, Labelled
  <2>4. Saved' /\ ReportsTrue'
    BY <2>1 DEF EInv, Saved, SavedRunsAreComplete, ReportsTrue, Reports, SampleSize, IsFixture
  <2> QED
    BY <2>2, <2>3, <2>4 DEF EInv, LabelsTrue
<1>2. CASE Die
  BY <1>2, DieStep
<1>3. ASSUME NEW t \in Tokens,
             RecordCollection(t) \/ Ingest(t) \/ (\E o \in {0, 1} : Settle(t, o))
      PROVE  EInv'
  BY <1>3, RowsStep, SettleStep
<1>4. ASSUME NEW w \in Workers, BackfillRead(w) \/ BackfillWrite(w) \/ BackfillEnd(w)
      PROVE  EInv'
  BY <1>4, BackfillStep
<1>5. ASSUME NEW r \in Runs, \/ \E q \in Requests : ReadEvidence(r, q)
                             \/ SaveForecasts(r) \/ SaveEvaluation(r) \/ SaveBacktestRun(r)
      PROVE  EInv'
  BY <1>5, ReadStep, SaveForecastsStep, SaveEvaluationStep, SaveRunStep
<1> QED
  BY <1>1, <1>2, <1>3, <1>4, <1>5 DEF Next

(* The invariant holds in every state, by what each transaction writes.     *)
THEOREM Invariance == Spec => []EInv
BY InitEInv, NextEInv, PTL DEF Spec

(* A report that says paper-ready rests on at least MinSamples real rows    *)
(* with the label their market settled to, whatever a worker had read       *)
(* before and whatever died in between (BacktestRunner.run,                 *)
(* build_evaluation_summary, backfill_outcomes).                            *)
THEOREM PaperReadyIsEarned == Spec => []PaperReadyRestsOnEvidence
<1>1. EInv => PaperReadyRestsOnEvidence
  <2> SUFFICES ASSUME EInv, NEW e \in Reports, e.paperReady
               PROVE  /\ Cardinality(e.sample) >= MinSamples
                      /\ \A f \in e.sample : /\ settled[f.key.token] # NoValue
                                             /\ f.outcome = settled[f.key.token].outcome
    BY DEF PaperReadyRestsOnEvidence
  <2>1. PICK r \in DOMAIN evaluations : e = evaluations[r]
    BY DEF Reports
  <2>2. SampleTrue(e.sample)
    BY <2>1 DEF EInv, LabelsTrue, SamplesTrue
  <2> QED
    BY <2>2 DEF EInv, ReportsTrue, SampleTrue, Labelled
<1> QED
  BY <1>1, Invariance, PTL

(* A run that can be looked up has its report and all its forecasts,        *)
(* wherever the process died (LabRepository, three transactions).           *)
THEOREM LookedUpRunsAreComplete == Spec => []SavedRunsAreComplete
<1>1. EInv => SavedRunsAreComplete
  BY DEF EInv, Saved
<1> QED
  BY <1>1, Invariance, PTL

-----------------------------------------------------------------------------
(* A row that is written over keeps a label it had: both are what the       *)
(* market settled to.                                                       *)
LEMMA FinalStep ==
    ASSUME EInv, [Next]_vars, NEW k \in DOMAIN rows, rows[k].label # NoValue
    PROVE  k \in DOMAIN rows' /\ rows'[k].label = rows[k].label
<1>1. k.token \in Tokens /\ Labelled(k.token, rows[k].label)
  BY DEF EInv, LabelsTrue, RowsTrue
<1>2. ASSUME NEW key, NEW row, rows' = Upserted(key, row),
             key = k => row.label = rows[k].label
      PROVE  k \in DOMAIN rows' /\ rows'[k].label = rows[k].label
  BY <1>2 DEF Upserted
<1>3. ASSUME NEW t \in Tokens, RecordCollection(t)
      PROVE  k \in DOMAIN rows' /\ rows'[k].label = rows[k].label
  <2>1. Key(t, now, "live") # k
        /\ rows' = Upserted(Key(t, now, "live"), Row(NoValue, NoValue))
    BY <1>3 DEF RecordCollection
  <2> QED
    BY <1>2, <2>1
<1>4. ASSUME NEW t \in Tokens, Ingest(t)
      PROVE  k \in DOMAIN rows' /\ rows'[k].label = rows[k].label
  <2>1. PICK c \in Rebuilt(t) :
            rows' = Upserted(Key(t, c.asOf, "rebuilt"),
                             Row(settled[t].outcome, c.availableAtMax))
    BY <1>4 DEF Ingest
  <2>2. Key(t, c.asOf, "rebuilt") = k =>
            Row(settled[t].outcome, c.availableAtMax).label = rows[k].label
    BY <1>1 DEF Key, Row, Labelled
  <2> QED
    BY <1>2, <2>1, <2>2
<1>5. ASSUME NEW w \in Workers, BackfillWrite(w)
      PROVE  k \in DOMAIN rows' /\ rows'[k].label = rows[k].label
  <2>1. PICK x \in backfill[w] : rows' = Upserted(x.key, x.row)
    BY <1>5 DEF BackfillWrite
  <2>2. Labelled(x.key.token, x.row.label)
    BY <1>5 DEF BackfillWrite, EInv, LabelsTrue, WritesTrue
  <2> QED
    BY <1>1, <1>2, <2>1, <2>2 DEF Labelled
<1>6. CASE rows' = rows
  BY <1>6
<1> QED
  BY <1>3, <1>4, <1>5, <1>6
     DEF Next, vars, Tick, Die, Settle, BackfillRead, BackfillEnd, ReadEvidence,
         SaveForecasts, SaveEvaluation, SaveBacktestRun

(* A label, once written, is neither lost nor changed, although a worker    *)
(* writes back whole rows it read before ingestion and other workers wrote  *)
(* them (backfill_outcomes, DataStore._upsert).                             *)
THEOREM WrittenLabelsAreFinal == Spec => LabelsAreFinal
<1>1. EInv /\ [Next]_vars =>
        [\A k \in DOMAIN rows : rows[k].label # NoValue =>
            k \in DOMAIN rows' /\ rows'[k].label = rows[k].label]_vars
  BY FinalStep
<1> QED
  BY <1>1, Invariance, PTL DEF Spec, LabelsAreFinal

-----------------------------------------------------------------------------
(* A row is well typed and declares a time no later than it predicts, or    *)
(* none, wherever a copy of it is held; so nothing raises a warning.        *)
CleanRow(k, row) ==
    /\ k \in Keys /\ row.label \in {0, 1, NoValue}
    /\ row.declared = NoValue \/ (row.declared \in 0..MaxTime /\ row.declared <= k.asOf)

RowsClean == \A k \in DOMAIN rows : CleanRow(k, rows[k])

WritesClean ==
    \A w \in Workers : backfill[w] # NoValue => \A x \in backfill[w] : CleanRow(x.key, x.row)

RunsClean ==
    /\ \A r \in Runs : run[r].at \in InProgress => run[r].warnings = {}
    /\ \A r \in DOMAIN evaluations : r \in Runs /\ evaluations[r].warnings = {}

ClockTyped ==
    /\ now \in 0..MaxTime
    /\ \A t \in Tokens : settled[t] # NoValue =>
          settled[t].at \in 0..MaxTime /\ settled[t].outcome \in {0, 1}

Clean == ClockTyped /\ RowsClean /\ WritesClean /\ RunsClean

LEMMA InitClean == Init => Clean
<1> SUFFICES ASSUME Init PROVE Clean
  OBVIOUS
<1>1. DOMAIN rows = {} /\ DOMAIN evaluations = {}
  BY DEF Init
<1>2. 0 \in 0..MaxTime
  BY EvidenceAssumption
<1> QED
  BY <1>1, <1>2 DEF Init, Clean, ClockTyped, RowsClean, WritesClean, RunsClean, InProgress, Idle

(* What ingestion rebuilds is clean, for any end date, and lies in the life *)
(* of its market.                                                           *)
LEMMA RebuiltIsClean ==
    ASSUME Clean, NEW t \in Tokens, settled[t] # NoValue, NEW c \in Rebuilt(t)
    PROVE  /\ c.asOf \in 0..MaxTime /\ c.availableAtMax \in 0..MaxTime
           /\ c.availableAtMax <= c.asOf
<1> DEFINE n == settled[t].at + 1
           candles == [i \in 1..n |-> Candle(i - 1, 0)]
           market == [candles |-> candles, resolution |-> EndDate[t], trades |-> {}, news |-> {}]
<1>1. /\ n \in Nat /\ EndDate[t] \in Int /\ MinHistory \in Nat \ {0}
      /\ \A i \in 1..n : i - 1 \in 0..MaxTime
  <2>1. settled[t].at \in 0..MaxTime /\ MaxTime \in Nat
    BY EvidenceAssumption DEF Clean, ClockTyped
  <2> QED
    BY <2>1, EvidenceAssumption
<1>2. candles \in Seq(Candlestick)
  <2> HIDE DEF n
  <2>1. \A i \in 1..n : Candle(i - 1, 0) \in Candlestick
    BY <1>1 DEF Candle, Candlestick
  <2> QED
    BY <1>1, <2>1
<1>3. c \in BuildHistoricalCollections(market, MinHistory, "multi")
  BY DEF Rebuilt
<1>4. /\ market.candles \in Seq(Candlestick) /\ market.resolution \in Int
      /\ market.news \subseteq NewsItem /\ IsFiniteSet(market.news)
  BY <1>1, <1>2, FS_EmptySet
<1>5. /\ \A j \in DOMAIN candles : candles[j].ts \in 0..MaxTime
      /\ market.candles = candles /\ market.resolution = EndDate[t] /\ market.news = {}
  <2> HIDE DEF n
  <2> QED
    BY <1>1 DEF Candle
<1> HIDE DEF market, candles
<1>6. c.availableAtMax \in Int /\ c.availableAtMax <= c.asOf
  BY <1>1, <1>3, <1>4, RebuiltRows
<1>7. PICK w \in Windows(candles, EndDate[t], MinHistory, "multi") :
          c = Collection(w, market.trades, {})
  BY <1>3, <1>5 DEF BuildHistoricalCollections
<1>8. w.asOf \in 0..MaxTime /\ Last(w.candles).ts \in 0..MaxTime
  BY <1>1, <1>2, <1>5, WindowsInside
<1>9. c.asOf = w.asOf /\ c.availableAtMax = Last(w.candles).ts
  <2> DEFINE last == Last(w.candles).ts
             news == NewsSentiment(SearchBetween({}, w.candles[1].ts, w.asOf), w.asOf)
             published == {PublishedAvailableAt(i) : i \in news}
  <2>1. c.asOf = w.asOf /\ c.availableAtMax = Max({last} \cup published)
    BY <1>7 DEF Collection
  <2>2. news = {}
    BY DEF NewsSentiment, SearchBetween
  <2>3. {last} \cup published = {last, last}
    <3> HIDE DEF news
    <3>1. published = {}
      BY <2>2
    <3> HIDE DEF published
    <3> QED
      BY <3>1
  <2>4. last \in Int
    BY <1>8
  <2> HIDE DEF published, last
  <2>5. Max({last, last}) = last
    BY <2>4, MaxOfTwo
  <2>6. c.availableAtMax = last
    BY <2>1, <2>3, <2>5
  <2> QED
    BY <2>1, <2>6 DEF last
<1> QED
  BY <1>6, <1>8, <1>9

(* A clean row may be written.                                              *)
LEMMA CleanWrite ==
    ASSUME Clean, NEW k, NEW row, rows' = Upserted(k, row), CleanRow(k, row),
           UNCHANGED <<now, settled, run, evaluations>>,
           \A w \in Workers :
              \/ backfill'[w] = backfill[w]
              \/ backfill[w] # NoValue /\ backfill'[w] \subseteq backfill[w]
    PROVE  Clean'
<1>1. /\ DOMAIN rows' = DOMAIN rows \cup {k} /\ rows'[k] = row
      /\ \A l \in DOMAIN rows \ {k} : rows'[l] = rows[l]
  BY DEF Upserted
<1>2. \A l, x : CleanRow(l, x)' <=> CleanRow(l, x)
  BY DEF CleanRow
<1>3. \A l \in DOMAIN rows' : CleanRow(l, rows'[l])
  BY <1>1 DEF Clean, RowsClean
<1>4. RowsClean'
  BY <1>3 DEF RowsClean, CleanRow
<1>5. WritesClean'
  BY DEF Clean, WritesClean, CleanRow
<1>6. ClockTyped' /\ RunsClean'
  BY DEF Clean, ClockTyped, RunsClean
<1> QED
  BY <1>4, <1>5, <1>6 DEF Clean

LEMMA CleanBackfill ==
    ASSUME EInv, Clean, NEW w \in Workers,
           BackfillRead(w) \/ BackfillWrite(w) \/ BackfillEnd(w)
    PROVE  Clean'
<1> backfill = [v \in Workers |-> backfill[v]] /\ DOMAIN backfill = Workers
  BY DEF EInv, Shape
<1>1. CASE BackfillRead(w)
  <2>1. PICK fetched \in FetchCollections(0..now, BackfillLimit),
             resolved \in SUBSET {t \in Tokens : settled[t] # NoValue} :
            backfill' = [backfill EXCEPT ![w] =
              {[key |-> k, row |-> Row(settled[k.token].outcome, rows[k].declared)] :
                   k \in {k \in fetched : rows[k].label = NoValue /\ k.token \in resolved}}]
    BY <1>1 DEF BackfillRead
  <2> DEFINE writes ==
              {[key |-> k, row |-> Row(settled[k.token].outcome, rows[k].declared)] :
                   k \in {k \in fetched : rows[k].label = NoValue /\ k.token \in resolved}}
  <2>2. fetched \subseteq DOMAIN rows
    BY DEF FetchCollections
  <2>3. \A x \in writes : CleanRow(x.key, x.row)
    <3> DEFINE chosen == {k \in fetched : rows[k].label = NoValue /\ k.token \in resolved}
               row(k) == Row(settled[k.token].outcome, rows[k].declared)
    <3>1. ASSUME NEW k \in chosen PROVE CleanRow(k, row(k))
      <4>1. CleanRow(k, rows[k])
        BY <2>2 DEF Clean, RowsClean
      <4>2. settled[k.token].outcome \in {0, 1}
        BY DEF Clean, ClockTyped
      <4>3. row(k).label = settled[k.token].outcome /\ row(k).declared = rows[k].declared
        BY DEF Row
      <4> QED
        BY <4>1, <4>2, <4>3 DEF CleanRow
    <3> HIDE DEF row
    <3>2. \A x \in writes : \E k \in chosen : x = [key |-> k, row |-> row(k)]
      BY DEF row
    <3> HIDE DEF chosen, writes
    <3>3. ASSUME NEW x \in writes PROVE CleanRow(x.key, x.row)
      <4>1. PICK k \in chosen : x = [key |-> k, row |-> row(k)]
        BY <3>2
      <4>2. x.key = k /\ x.row = row(k)
        BY <4>1
      <4> QED
        BY <3>1, <4>2
    <3> QED
      BY <3>3
  <2>4. backfill' = [backfill EXCEPT ![w] = writes]
    BY <2>1
  <2> HIDE DEF writes
  <2>5. backfill'[w] = writes /\ \A v \in Workers \ {w} : backfill'[v] = backfill[v]
    BY <2>4
  <2>6. UNCHANGED <<now, settled, rows, run, evaluations>>
    BY <1>1 DEF BackfillRead
  <2>7. \A v \in Workers : backfill'[v] # NoValue => \A x \in backfill'[v] : CleanRow(x.key, x.row)
    BY <2>3, <2>5 DEF Clean, WritesClean
  <2>8. WritesClean'
    BY <2>7 DEF WritesClean, CleanRow
  <2> QED
    BY <2>6, <2>8 DEF Clean, ClockTyped, RowsClean, RunsClean, CleanRow
<1>2. CASE BackfillWrite(w)
  <2>1. PICK x \in backfill[w] : /\ rows' = Upserted(x.key, x.row)
                                 /\ backfill' = [backfill EXCEPT ![w] = @ \ {x}]
    BY <1>2 DEF BackfillWrite
  <2>2. backfill[w] # NoValue /\ UNCHANGED <<now, settled, run, evaluations>>
    BY <1>2 DEF BackfillWrite
  <2>3. CleanRow(x.key, x.row)
    BY <2>2 DEF Clean, WritesClean
  <2>4. /\ backfill'[w] \subseteq backfill[w]
        /\ \A v \in Workers \ {w} : backfill'[v] = backfill[v]
    BY <2>1
  <2> QED
    BY <2>1, <2>2, <2>3, <2>4, CleanWrite
<1>3. CASE BackfillEnd(w)
  <2>1. /\ UNCHANGED <<now, settled, rows, run, evaluations>>
        /\ backfill'[w] = NoValue /\ \A v \in Workers \ {w} : backfill'[v] = backfill[v]
    BY <1>3 DEF BackfillEnd
  <2>2. \A v \in Workers : backfill'[v] # NoValue => \A x \in backfill'[v] : CleanRow(x.key, x.row)
    BY <2>1 DEF Clean, WritesClean
  <2>3. WritesClean'
    BY <2>2 DEF WritesClean, CleanRow
  <2> QED
    BY <2>1, <2>3 DEF Clean, ClockTyped, RowsClean, RunsClean, CleanRow
<1> QED
  BY <1>1, <1>2, <1>3

(* A backtest that reads clean rows has nothing to warn of.                 *)
LEMMA CleanRuns ==
    ASSUME EInv, Clean, NEW r \in Runs,
           \/ \E q \in Requests : ReadEvidence(r, q)
           \/ SaveForecasts(r) \/ SaveEvaluation(r) \/ SaveBacktestRun(r)
    PROVE  Clean'
<1> run = [p \in Runs |-> run[p]] /\ DOMAIN run = Runs
  BY DEF EInv, Shape
<1>1. UNCHANGED <<now, settled, rows, backfill>>
  BY DEF ReadEvidence, SaveForecasts, SaveEvaluation, SaveBacktestRun
<1>2. ASSUME RunsClean' PROVE Clean'
  BY <1>1, <1>2 DEF Clean, ClockTyped, RowsClean, WritesClean, CleanRow
<1>3. ASSUME NEW q \in Requests, ReadEvidence(r, q) PROVE RunsClean'
  <2>1. PICK fetched \in FetchCollections(q.window, q.limit) :
          run' = [run EXCEPT ![r] =
              [at |-> "read", request |-> q,
               sample |-> {Forecast(k) : k \in {k \in fetched : Eligible(k, q)}},
               warnings |-> {k \in fetched : Usable(k, q) /\ PitWarning(k)}]]
    BY <1>3 DEF ReadEvidence
  <2> DEFINE sample == {Forecast(k) : k \in {k \in fetched : Eligible(k, q)}}
             warnings == {k \in fetched : Usable(k, q) /\ PitWarning(k)}
             j == [at |-> "read", request |-> q, sample |-> sample, warnings |-> warnings]
  <2>2. \A k \in DOMAIN rows : ~PitWarning(k)
    BY EvidenceAssumption DEF Clean, RowsClean, CleanRow, PitWarning, AvailableAt, Keys
  <2>3. warnings = {}
    BY <2>2 DEF FetchCollections
  <2>4. run' = [run EXCEPT ![r] = j]
    BY <2>1
  <2>5. j.warnings = {}
    BY <2>3
  <2> HIDE DEF j
  <2>6. run'[r] = j /\ \A p \in Runs \ {r} : run'[p] = run[p]
    BY <2>4
  <2>7. evaluations' = evaluations
    BY <1>3 DEF ReadEvidence
  <2> QED
    BY <2>5, <2>6, <2>7 DEF Clean, RunsClean
<1>4. CASE SaveForecasts(r) \/ SaveEvaluation(r)
  <2>1. PICK at \in InProgress : run' = [run EXCEPT ![r].at = at]
    BY <1>4 DEF SaveForecasts, SaveEvaluation, InProgress
  <2>2. run[r].at \in InProgress
    BY <1>4 DEF SaveForecasts, SaveEvaluation, InProgress
  <2>3. run'[r].warnings = {} /\ \A p \in Runs \ {r} : run'[p] = run[p]
    <3>1. run[r].warnings = {}
      BY <2>2 DEF Clean, RunsClean
    <3>2. run'[r] = [run[r] EXCEPT !.at = at]
      BY <2>1
    <3>3. run[r] = [at |-> run[r].at, request |-> run[r].request,
                    sample |-> run[r].sample, warnings |-> run[r].warnings]
      BY <2>2 DEF EInv, Shape, Idle, InProgress
    <3>4. run'[r] = [at |-> at, request |-> run[r].request,
                     sample |-> run[r].sample, warnings |-> run[r].warnings]
      BY <3>2, <3>3
    <3>5. run'[r].warnings = run[r].warnings
      BY <3>4
    <3> QED
      BY <2>1, <3>1, <3>5
  <2>4. \A p \in DOMAIN evaluations' : p \in Runs /\ evaluations'[p].warnings = {}
    <3>1. CASE SaveForecasts(r)
      BY <3>1 DEF SaveForecasts, Clean, RunsClean
    <3>2. CASE SaveEvaluation(r)
      <4>1. PICK beatsMarket \in BOOLEAN, ecePass \in BOOLEAN :
                evaluations' = [p \in DOMAIN evaluations \cup {r} |->
                    IF p = r THEN Report(r, PaperReady(r, beatsMarket, ecePass)) ELSE evaluations[p]]
        BY <3>2 DEF SaveEvaluation
      <4> DEFINE new == Report(r, PaperReady(r, beatsMarket, ecePass))
      <4>2. new.warnings = {}
        BY <2>2 DEF Report, Warnings, Clean, RunsClean
      <4> HIDE DEF new
      <4>3. /\ DOMAIN evaluations' = DOMAIN evaluations \cup {r} /\ evaluations'[r] = new
            /\ \A p \in DOMAIN evaluations \ {r} : evaluations'[p] = evaluations[p]
        BY <4>1 DEF new
      <4> QED
        BY <4>2, <4>3 DEF Clean, RunsClean
    <3> QED
      BY <1>4, <3>1, <3>2
  <2>5. RunsClean'
    BY <2>3, <2>4 DEF Clean, RunsClean
  <2> QED
    BY <1>2, <2>5
<1>5. CASE SaveBacktestRun(r)
  <2> DEFINE j == [at |-> "over"]
  <2>1. run' = [run EXCEPT ![r] = j] /\ evaluations' = evaluations
    BY <1>5 DEF SaveBacktestRun
  <2>2. j.at \notin InProgress
    BY DEF InProgress
  <2> HIDE DEF j
  <2>3. run'[r] = j /\ \A p \in Runs \ {r} : run'[p] = run[p]
    BY <2>1
  <2>4. RunsClean'
    BY <2>1, <2>2, <2>3 DEF Clean, RunsClean
  <2> QED
    BY <1>2, <2>4
<1> QED
  BY <1>2, <1>3, <1>4, <1>5

LEMMA NextClean == EInv /\ Clean /\ [Next]_vars => Clean'
<1> SUFFICES ASSUME EInv, Clean, [Next]_vars PROVE Clean'
  OBVIOUS
<1>1. CASE Tick \/ UNCHANGED vars
  <2>1. UNCHANGED <<settled, rows, backfill, run, evaluations>> /\ now' \in 0..MaxTime
    BY <1>1, EvidenceAssumption DEF Tick, vars, Clean, ClockTyped
  <2> QED
    BY <2>1 DEF Clean, ClockTyped, RowsClean, WritesClean, RunsClean, CleanRow
<1>2. CASE Die
  <2>1. /\ UNCHANGED <<now, settled, rows, evaluations>>
        /\ \A w \in Workers : backfill'[w] = NoValue
        /\ \A r \in Runs : run'[r] = Idle \/ run'[r] = [at |-> "over"]
    BY <1>2 DEF Die
  <2>2. \A r \in Runs : run'[r].at \notin InProgress
    BY <2>1 DEF Idle, InProgress
  <2> QED
    BY <2>1, <2>2 DEF Clean, ClockTyped, RowsClean, WritesClean, RunsClean, CleanRow
<1>3. ASSUME NEW t \in Tokens, NEW o \in {0, 1}, Settle(t, o) PROVE Clean'
  <2>1. /\ UNCHANGED <<now, rows, backfill, run, evaluations>>
        /\ settled' = [settled EXCEPT ![t] = [outcome |-> o, at |-> now]]
    BY <1>3 DEF Settle
  <2>2. \A u \in Tokens : settled'[u] # NoValue =>
           settled'[u].at \in 0..MaxTime /\ settled'[u].outcome \in {0, 1}
    BY <2>1 DEF Clean, ClockTyped, EInv, Shape
  <2> QED
    BY <2>1, <2>2 DEF Clean, ClockTyped, RowsClean, WritesClean, RunsClean, CleanRow
<1>4. ASSUME NEW t \in Tokens, RecordCollection(t) PROVE Clean'
  <2> DEFINE k == Key(t, now, "live")
             row == Row(NoValue, NoValue)
  <2>1. CleanRow(k, row)
    BY DEF CleanRow, Key, Keys, Row, Clean, ClockTyped
  <2>2. rows' = Upserted(k, row) /\ UNCHANGED <<now, settled, backfill, run, evaluations>>
    BY <1>4 DEF RecordCollection
  <2> HIDE DEF k, row
  <2> QED
    BY <2>1, <2>2, CleanWrite
<1>5. ASSUME NEW t \in Tokens, Ingest(t) PROVE Clean'
  <2>1. PICK c \in Rebuilt(t) :
            rows' = Upserted(Key(t, c.asOf, "rebuilt"),
                             Row(settled[t].outcome, c.availableAtMax))
    BY <1>5 DEF Ingest
  <2> DEFINE k == Key(t, c.asOf, "rebuilt")
             row == Row(settled[t].outcome, c.availableAtMax)
  <2>2. settled[t] # NoValue /\ UNCHANGED <<now, settled, backfill, run, evaluations>>
    BY <1>5 DEF Ingest
  <2>3. /\ c.asOf \in 0..MaxTime /\ c.availableAtMax \in 0..MaxTime
        /\ c.availableAtMax <= c.asOf /\ settled[t].outcome \in {0, 1}
    BY <2>2, RebuiltIsClean DEF Clean, ClockTyped
  <2>4. CleanRow(k, row)
    BY <2>3 DEF CleanRow, Key, Keys, Row
  <2>5. rows' = Upserted(k, row)
    BY <2>1
  <2> HIDE DEF k, row
  <2> QED
    BY <2>2, <2>4, <2>5, CleanWrite
<1>6. ASSUME NEW w \in Workers, BackfillRead(w) \/ BackfillWrite(w) \/ BackfillEnd(w)
      PROVE  Clean'
  BY <1>6, CleanBackfill
<1>7. ASSUME NEW r \in Runs, \/ \E q \in Requests : ReadEvidence(r, q)
                             \/ SaveForecasts(r) \/ SaveEvaluation(r) \/ SaveBacktestRun(r)
      PROVE  Clean'
  BY <1>7, CleanRuns
<1> QED
  BY <1>1, <1>2, <1>3, <1>4, <1>5, <1>6, <1>7 DEF Next

(* No row the program writes raises a point-in-time warning: what ingestion *)
(* rebuilds from any history declares a time before it predicts, and        *)
(* whatever rewrites a row keeps what it declares                           *)
(* (replay_builder.py:278-305, lab/backtest.py:285).                        *)
THEOREM ReportsAreClean == Spec => []OwnRowsAreClean
<1>1. Clean => OwnRowsAreClean
  BY DEF Clean, RunsClean, OwnRowsAreClean, Reports
<1>2. Spec => []Clean
  BY Invariance, InitClean, NextClean, PTL DEF Spec
<1> QED
  BY <1>1, <1>2, PTL

(* Every row, however it was written and rewritten, is about a known token, *)
(* predicts and declares within the life of the process, and has a label    *)
(* that a market can settle to or none; a report is of a run there is       *)
(* (ingestion/polymarket_ingest.py:92-104, kernel/wiring.py:870-885).       *)
THEOREM EvidenceWellTyped == Spec => []TypeOK
<1>1. EInv /\ Clean => TypeOK
  <2> SUFFICES ASSUME EInv, Clean PROVE TypeOK
    OBVIOUS
  <2>1. now \in 0..MaxTime /\ \A t \in Tokens : settled[t] # NoValue => settled[t].outcome \in {0, 1}
    BY DEF Clean, ClockTyped
  <2>2. /\ DOMAIN rows \subseteq Keys
        /\ \A k \in DOMAIN rows : /\ rows[k].label \in {0, 1, NoValue}
                                  /\ rows[k].declared \in 0..MaxTime \cup {NoValue}
    BY DEF Clean, RowsClean, CleanRow
  <2>3. \A r \in Runs : run[r].at \in {"new", "read", "forecasts", "evaluated", "over"}
    BY DEF EInv, Shape, InProgress, Idle
  <2>4. DOMAIN evaluations \subseteq Runs /\ runRows \subseteq Runs
    BY DEF Clean, RunsClean, EInv, Saved
  <2> QED
    BY <2>1, <2>2, <2>3, <2>4 DEF TypeOK
<1>2. Spec => []Clean
  BY Invariance, InitClean, NextClean, PTL DEF Spec
<1> QED
  BY <1>1, <1>2, Invariance, PTL

================================================================================
