----------------------------- MODULE Book_proof -----------------------------
(***************************************************************************)
(* Proofs about one symbol's ladder, its early answer and their rejoin,    *)
(* for every number of levels and groups, every tick and base, and every   *)
(* finite set of prices.  The bounds on what rests are not used.           *)
(***************************************************************************)
EXTENDS Book, FunctionTheorems, FiniteSetTheorems, WellFoundedInduction, TLAPS

(***************************** arithmetic **********************************)

LEMMA Quotient ==
    ASSUME NEW m \in Nat \ {0}, NEW x \in Int
    PROVE  x = m * (x \div m) + (x % m) /\ x \div m \in Int /\ x % m \in 0..(m - 1)
  OBVIOUS

LEMMA QuotientOf ==
    ASSUME NEW m \in Nat \ {0}, NEW q \in Int, NEW r \in 0..(m - 1)
    PROVE  (q * m + r) \div m = q
  OBVIOUS

LEMMA ProductOrder ==
    ASSUME NEW m \in Nat, NEW a \in Int, NEW b \in Int, a <= b
    PROVE  a * m <= b * m /\ a * m \in Int /\ b * m \in Int
  OBVIOUS

LEMMA QuotientOrder ==
    ASSUME NEW m \in Nat \ {0}, NEW a \in Nat, NEW b \in Nat, a <= b
    PROVE  a \div m <= b \div m /\ a \div m \in Nat
<1> DEFINE c == a \div m
           d == b \div m
<1>1. a = m * c + (a % m) /\ c \in Int /\ a % m \in 0..(m - 1)
  BY Quotient
<1>2. b = m * d + (b % m) /\ d \in Int /\ b % m \in 0..(m - 1)
  BY Quotient
<1> HIDE DEF c, d
<1>3. c <= d
  <2> SUFFICES ASSUME d <= c - 1 PROVE FALSE
    BY <1>1, <1>2
  <2>1. d * m <= (c - 1) * m
    BY <1>1, <1>2, ProductOrder
  <2>2. (c - 1) * m = m * c - m /\ d * m = m * d
    BY <1>1, <1>2
  <2> QED BY <1>1, <1>2, <2>1, <2>2
<1>4. c >= 0
  <2> SUFFICES ASSUME c <= -1 PROVE FALSE
    BY <1>1
  <2>1. c * m <= (-1) * m
    BY <1>1, ProductOrder
  <2>2. c * m = m * c /\ (-1) * m = -m
    BY <1>1
  <2> QED BY <1>1, <2>1, <2>2
<1> QED BY <1>1, <1>3, <1>4 DEF c, d

LEMMA QuotientBound ==
    ASSUME NEW m \in Nat \ {0}, NEW k \in Nat, NEW x \in Nat, x < k * m
    PROVE  x \div m \in Nat /\ x \div m < k
<1> DEFINE d == x \div m
<1>1. x = m * d + (x % m) /\ d \in Int /\ x % m \in 0..(m - 1)
  BY Quotient
<1>2. d \in Nat
  BY QuotientOrder
<1> HIDE DEF d
<1>3. d < k
  <2> SUFFICES ASSUME k <= d PROVE FALSE
    BY <1>1
  <2>1. k * m <= d * m /\ d * m = m * d
    BY <1>1, ProductOrder
  <2> QED BY <1>1, <2>1
<1> QED BY <1>2, <1>3 DEF d

(************************** levels and prices ******************************)

LEMMA Constants ==
    /\ Levels \in Nat \ {0} /\ GroupSize \in Nat \ {0} /\ Tick \in Nat \ {0}
    /\ OobMod \in Nat \ {0} /\ Base \in Nat
    /\ Level \subseteq Nat /\ 0 \in Level
  BY LadderAssumption DEF Level

(* A level has a price in the band, and that price has this level.         *)
LEMMA PriceOfLevel ==
    ASSUME NEW l \in Level
    PROVE  /\ PriceOf(l) \in Nat /\ InBand(PriceOf(l)) /\ IndexOf(PriceOf(l)) = l
           /\ PriceOf(l) = Base + l * Tick
<1>1. l \in Nat /\ l <= Levels - 1
  BY Constants DEF Level
<1>2. /\ 0 * Tick <= l * Tick /\ l * Tick \in Int
      /\ (l + 1) * Tick <= Levels * Tick /\ Levels * Tick \in Int
  BY <1>1, Constants, ProductOrder
<1>3. (l + 1) * Tick = l * Tick + Tick /\ 0 * Tick = 0
  BY <1>1, Constants
<1>4. PriceOf(l) = Base + l * Tick
  BY DEF PriceOf
<1> DEFINE t == l * Tick
           n == Levels * Tick
<1>5. t \in Nat /\ t + Tick <= n /\ n \in Int /\ PriceOf(l) = Base + t
  BY <1>2, <1>3, <1>4, Constants
<1>6. (t + 0) \div Tick = l
  BY <1>1, Constants, QuotientOf
<1> HIDE DEF t
<1>7. PriceOf(l) - Base = t
  BY <1>5, Constants
<1>8. IndexOf(PriceOf(l)) = l
  <2>1. t + 0 = t
    BY <1>5
  <2> QED BY <1>6, <1>7, <2>1 DEF IndexOf
<1>9. PriceOf(l) \in Nat /\ InBand(PriceOf(l))
  BY <1>5, Constants DEF InBand, n
<1> QED BY <1>4, <1>8, <1>9

(* A price of an order that is in the band has a level, and the level that *)
(* price.                                                                  *)
LEMMA LevelOfPrice ==
    ASSUME NEW p \in Prices, InBand(p)
    PROVE  IndexOf(p) \in Level /\ PriceOf(IndexOf(p)) = p
<1> DEFINE x == p - Base
<1>1. p \in Nat /\ x \in Nat /\ x < Levels * Tick /\ x % Tick = 0
  BY Constants, BookAssumption DEF InBand
<1>2. x = Tick * (x \div Tick) + (x % Tick) /\ x \div Tick \in Int
  BY <1>1, Constants, Quotient
<1>3. x \div Tick \in Nat /\ x \div Tick < Levels
  BY <1>1, Constants, QuotientBound
<1> DEFINE i == x \div Tick
<1>4. IndexOf(p) = i
  BY DEF IndexOf
<1>5. i \in Level
  BY <1>3, Constants DEF Level
<1> HIDE DEF i
<1>6. Tick * i = i * Tick
  BY <1>3, Constants DEF i
<1>7. x = i * Tick
  <2>1. x = Tick * i + 0
    BY <1>1, <1>2 DEF i
  <2>2. i * Tick \in Int
    BY <1>3, Constants DEF i
  <2> QED BY <1>1, <1>6, <2>1, <2>2
<1>8. PriceOf(i) = p
  BY <1>1, <1>7, Constants DEF PriceOf
<1> QED BY <1>4, <1>5, <1>8

LEMMA GroupOrder ==
    ASSUME NEW a \in Level, NEW b \in Level, a <= b
    PROVE  Group(a) <= Group(b) /\ Group(a) \in Nat
  BY Constants, QuotientOrder DEF Group

(* Prices are in the order of their levels.                                *)
LEMMA PriceOrder ==
    ASSUME NEW a \in Level, NEW b \in Level, a <= b
    PROVE  PriceOf(a) <= PriceOf(b) /\ PriceOf(a) \in Nat /\ PriceOf(b) \in Nat
<1>1. a * Tick <= b * Tick
  BY Constants, ProductOrder
<1> QED BY <1>1, Constants, PriceOfLevel

(**************************** the outermost ********************************)

LEMMA LeastExists ==
    ASSUME NEW I \in SUBSET Nat, I # {}
    PROVE  \E x \in I : \A y \in I : x <= y
<1>1. PICK x \in I : \A y \in I : ~(<<y, x>> \in OpToRel(<, Nat))
  BY NatLessThanWellFounded, WFMin
<1>2. \A y \in I : ~(y < x)
  BY <1>1 DEF OpToRel
<1> QED BY <1>2

LEMMA LargestExists ==
    ASSUME NEW I \in SUBSET Nat, I # {}, NEW n \in Nat, \A x \in I : x <= n
    PROVE  \E x \in I : \A y \in I : x >= y
<1> DEFINE J == {n - x : x \in I}
<1>1. J \in SUBSET Nat /\ J # {}
  OBVIOUS
<1>2. PICK z \in J : \A y \in J : z <= y
  <2> HIDE DEF J
  <2> QED BY <1>1, LeastExists
<1>3. PICK x \in I : z = n - x
  OBVIOUS
<1>4. ASSUME NEW y \in I PROVE x >= y
  <2>1. n - y \in J
    OBVIOUS
  <2> QED BY <1>2, <1>3, <2>1
<1> QED BY <1>4

LEMMA ValuesBounded ==
    ASSUME NEW k \in Nat, NEW f \in [1..k -> Nat]
    PROVE  \E n \in Nat : \A i \in 1..k : f[i] <= n
<1> DEFINE bad == {j \in 0..k : ~(\E n \in Nat : \A i \in 1..j : f[i] <= n)}
<1>1. ASSUME bad # {} PROVE FALSE
  <2>1. bad \in SUBSET Nat
    OBVIOUS
  <2>2. PICK j \in bad : \A y \in bad : j <= y
    <3> HIDE DEF bad
    <3> QED BY <1>1, <2>1, LeastExists
  <2>3. j \in 0..k /\ ~(\E n \in Nat : \A i \in 1..j : f[i] <= n)
    BY <2>2
  <2>4. j # 0
    BY <2>3
  <2>5. j - 1 \in 0..k /\ j - 1 \notin bad
    <3>1. j - 1 \in 0..k /\ ~(j <= j - 1)
      BY <2>3, <2>4
    <3> HIDE DEF bad
    <3> QED BY <2>2, <3>1
  <2>6. PICK n \in Nat : \A i \in 1..(j - 1) : f[i] <= n
    BY <2>5
  <2> DEFINE m == IF f[j] <= n THEN n ELSE f[j]
  <2>7. j \in 1..k /\ f[j] \in Nat
    BY <2>3, <2>4
  <2>8. m \in Nat /\ n <= m /\ f[j] <= m
    BY <2>7
  <2>9. ASSUME NEW i \in 1..j PROVE f[i] <= m
    <3>1. CASE i = j
      BY <2>8, <3>1
    <3>2. CASE i # j
      <4>1. i \in 1..(j - 1) /\ i \in 1..k
        BY <2>7, <3>2
      <4>2. f[i] <= n /\ f[i] \in Nat
        BY <2>6, <4>1
      <4> HIDE DEF m
      <4> QED BY <2>8, <4>2
    <3> QED BY <3>1, <3>2
  <2> QED BY <2>3, <2>8, <2>9
<1>2. k \in 0..k
  OBVIOUS
<1> QED BY <1>1, <1>2

(* Prices are finitely many, so they have a bound.                         *)
LEMMA PricesBounded == \E n \in Nat : \A p \in Prices : p <= n
<1>1. PICK k \in Nat : ExistsSurjection(1..k, Prices)
  BY BookAssumption, FS_NatSurjection
<1>2. PICK f : f \in Surjection(1..k, Prices)
  BY <1>1 DEF ExistsSurjection
<1>3. f \in [1..k -> Prices] /\ \A p \in Prices : \E i \in 1..k : f[i] = p
  BY <1>2 DEF Surjection
<1>4. f \in [1..k -> Nat]
  BY <1>3, BookAssumption
<1>5. PICK n \in Nat : \A i \in 1..k : f[i] <= n
  BY <1>4, ValuesBounded
<1> QED BY <1>3, <1>5

(* No level or price of the set is further out.                            *)
Beyond(s, a, b) == IF s = "bid" THEN a >= b ELSE a <= b

LEMMA OutermostIs ==
    ASSUME NEW s \in Side, NEW I \in SUBSET Nat, I # {}, NEW n \in Nat, \A x \in I : x <= n
    PROVE  /\ Outermost(s, I) \in I
           /\ \A y \in I : Beyond(s, Outermost(s, I), y)
           /\ \A x \in I : (\A y \in I : Beyond(s, x, y)) => Outermost(s, I) = x
<1>1. CASE s = "bid"
  <2>1. Outermost(s, I) = CHOOSE x \in I : \A y \in I : x >= y
    BY <1>1 DEF Outermost, Max
  <2>2. Outermost(s, I) \in I /\ \A y \in I : Outermost(s, I) >= y
    BY <2>1, LargestExists
  <2>3. ASSUME NEW x \in I, \A y \in I : x >= y PROVE Outermost(s, I) = x
    <3>1. x >= Outermost(s, I) /\ Outermost(s, I) >= x /\ Outermost(s, I) \in Nat
      BY <2>2, <2>3
    <3> QED BY <3>1
  <2> QED BY <1>1, <2>2, <2>3 DEF Beyond
<1>2. CASE s = "ask"
  <2>1. Outermost(s, I) = CHOOSE x \in I : \A y \in I : x =< y
    BY <1>2 DEF Outermost, Min
  <2>2. Outermost(s, I) \in I /\ \A y \in I : Outermost(s, I) <= y
    BY <2>1, LeastExists
  <2>3. ASSUME NEW x \in I, \A y \in I : x <= y PROVE Outermost(s, I) = x
    <3>1. x <= Outermost(s, I) /\ Outermost(s, I) <= x /\ Outermost(s, I) \in Nat
      BY <2>2, <2>3
    <3> QED BY <3>1
  <2> QED BY <1>2, <2>2, <2>3 DEF Beyond
<1> QED BY <1>1, <1>2 DEF Side

(* ---- what the ladder holds, and what is still to come of the delta ---- *)

(* What rests at the price of a level.                                     *)
Rest(s, l) == IF PriceOf(l) \in Prices THEN resting[s][PriceOf(l)] ELSE 0

(* Where a part of the record is before the divide, and after it.          *)
PartAtPrice(part, l) == IF part # <<>> /\ part[1].px = PriceOf(l) THEN part[1].qty ELSE 0
PartAtLevel(part, l) == IF part # <<>> /\ part[1].idx = l THEN part[1].qty ELSE 0

Priced   == {"SUB", "IDX"}
Removing == {"RD", "REM", "REMW"}
Adding   == Removing \cup {"ADD"}

ToTake(s, l) ==
    IF lstate \in Priced /\ rec[1].side = s THEN PartAtPrice(rec[1].rem, l)
    ELSE IF lstate \in Removing /\ rec[1].side = s THEN PartAtLevel(rec[1].rem, l)
    ELSE 0
ToAdd(s, l) ==
    IF lstate \in Priced /\ rec[1].side = s THEN PartAtPrice(rec[1].add, l)
    ELSE IF lstate \in Adding /\ rec[1].side = s THEN PartAtLevel(rec[1].add, l)
    ELSE 0

LevelPart == {<<>>} \cup {<<[idx |-> l, qty |-> n]>> : l \in Level, n \in 1..MaxLevelQty}

States == {"IDLE", "SUB", "IDX", "RD", "REM", "REMW", "ADD", "BQ", "RDQ", "PX", "OUT"}

LadderType ==
    /\ clrAddr \in 0..Levels
    /\ qty \in [Side -> [Level -> Nat]]
    /\ occ \in [Side -> SUBSET Level] /\ gany \in [Side -> SUBSET Nat]
    /\ lstate \in States
    /\ resting \in [Side -> [Prices -> Nat]]

(* The record on its way down the pipeline.                                *)
RecInv ==
    /\ lstate = "SUB" => \E d \in Delta : rec = <<d>>
    /\ lstate = "IDX" =>
         \E d \in Delta : rec = <<d>> /\ Banded(d.rem) = d.rem /\ Banded(d.add) = d.add
    /\ lstate \in Adding =>
         \E r \in [side : Side, rem : LevelPart, add : LevelPart] : rec = <<r>>

(* The clear sweep is behind clrAddr; nothing rests until it is done.      *)
ClearInv ==
    ClrBusy =>
      /\ lstate = "IDLE" /\ resting = NoOrders
      /\ \A s \in Side : occ[s] = {} /\ gany[s] = {}
      /\ \A s \in Side, l \in Level : l < clrAddr => qty[s][l] = 0
      /\ ladBbo = Empty

QtyInv ==
    ~ClrBusy => \A s \in Side, l \in Level :
        ToTake(s, l) <= qty[s][l] /\ Rest(s, l) = (qty[s][l] - ToTake(s, l)) + ToAdd(s, l)

(* Occupancy and its summary.                                              *)
OccInv ==
    ~ClrBusy => \A s \in Side :
        occ[s] = {l \in Level : qty[s][l] > 0} /\ gany[s] = {Group(l) : l \in occ[s]}

(* Each read register in the state that uses it, and what was made of it.  *)
ReadInv ==
    LET r == Head(rec) IN
    /\ lstate = "REM" /\ r.rem # <<>> => rdata[r.side] = qty[r.side][r.rem[1].idx]
    /\ lstate = "REMW" /\ r.rem # <<>> => remNew = qty[r.side][r.rem[1].idx] - r.rem[1].qty
    /\ lstate = "ADD" /\ r.rem # <<>> => remNew = qty[r.side][r.rem[1].idx]
    /\ lstate = "ADD" /\ r.add # <<>> /\ ~(r.rem # <<>> /\ r.rem[1].idx = r.add[1].idx)
         => rdata[r.side] = qty[r.side][r.add[1].idx]

(* The best level, and the top of what the memories hold.                  *)
Peak(s) == IF occ[s] = {} THEN <<>> ELSE <<Outermost(s, occ[s])>>
PeakTop ==
    [s \in Side |-> [i \in DOMAIN Peak(s) |->
        [px |-> PriceOf(Peak(s)[i]), qty |-> qty[s][Peak(s)[i]]]]]

BestInv ==
    /\ lstate \in {"RDQ", "PX"} => best = [s \in Side |-> Peak(s)]
    /\ lstate = "PX" => \A s \in Side : best[s] # <<>> => rdata[s] = qty[s][Head(best[s])]
    /\ lstate = "OUT" => top = PeakTop
    /\ lstate = "IDLE" /\ ~ClrBusy => ladBbo = PeakTop

LadderInv ==
    LadderType /\ RecInv /\ ClearInv /\ QtyInv /\ OccInv /\ ReadInv /\ BestInv /\ TopInBand(resting)

(* ---- the early answer and the rejoin ----                               *)
FastInv ==
    /\ fastOut # <<>> => lstate = "SUB"
    /\ ClrBusy => stale
    /\ ladValid => lstate = "IDLE" /\ ~ClrBusy
    /\ ~stale /\ ~ladValid => shadow = Top
    /\ fastOut # <<>> => \E b : fastOut = <<b>> /\ (b.certain => b.bbo = Top)

MergeInv ==
    /\ lstate \in {"IDLE", "SUB"} /\ ~ladValid => emitted = ladBbo /\ lead = <<>>
    /\ ladValid => \/ lead = <<>> /\ emitted # ladBbo
                   \/ lead = <<ladBbo>> /\ emitted = ladBbo
    /\ lstate \notin {"IDLE", "SUB"} =>
         \/ lead = <<>> /\ emitted = ladBbo
         \/ lead = <<Top>> /\ emitted = Top /\ Top # ladBbo
(************************ a part of the record *****************************)

Owed == Part(1..MaxLevelQty)

(* The band check takes nothing away that some level has the price of.     *)
LEMMA BandedPart ==
    ASSUME NEW part \in Owed
    PROVE  /\ Banded(part) \in Owed
           /\ Banded(Banded(part)) = Banded(part)
           /\ \A l \in Level : PartAtPrice(Banded(part), l) = PartAtPrice(part, l)
<1>1. CASE part = <<>>
  BY <1>1 DEF Banded, Owed, Part
<1>2. CASE \E p \in Prices, n \in 1..MaxLevelQty : part = <<[px |-> p, qty |-> n]>>
  <2>1. PICK p \in Prices, n \in 1..MaxLevelQty : part = <<[px |-> p, qty |-> n]>>
    BY <1>2
  <2> DEFINE x == [px |-> p, qty |-> n]
  <2>2. part # <<>> /\ Head(part).px = p /\ part[1] = x /\ x.px = p
    BY <2>1
  <2> HIDE DEF x
  <2>3. CASE InBand(p)
    <3>1. Banded(part) = part
      BY <2>2, <2>3 DEF Banded
    <3> QED BY <3>1
  <2>4. CASE ~InBand(p)
    <3>1. Banded(part) = <<>>
      BY <2>2, <2>4 DEF Banded
    <3>2. ASSUME NEW l \in Level PROVE PartAtPrice(part, l) = 0
      <4>1. PriceOf(l) # p
        BY <2>4, PriceOfLevel
      <4> QED BY <2>2, <4>1 DEF PartAtPrice
    <3> QED BY <3>1, <3>2 DEF PartAtPrice, Banded, Owed, Part
  <2> QED BY <2>3, <2>4
<1> QED BY <1>1, <1>2 DEF Owed, Part

(* The divide gives it the level that has its price.                       *)
LEMMA IndexedPart ==
    ASSUME NEW part \in Owed, Banded(part) = part
    PROVE  /\ Indexed(part) \in LevelPart
           /\ \A l \in Level : PartAtLevel(Indexed(part), l) = PartAtPrice(part, l)
<1>1. CASE part = <<>>
  <2>1. Indexed(part) = <<>>
    BY <1>1 DEF Indexed
  <2> QED BY <1>1, <2>1 DEF LevelPart, PartAtLevel, PartAtPrice
<1>2. CASE \E p \in Prices, n \in 1..MaxLevelQty : part = <<[px |-> p, qty |-> n]>>
  <2>1. PICK p \in Prices, n \in 1..MaxLevelQty : part = <<[px |-> p, qty |-> n]>>
    BY <1>2
  <2>2. part # <<>> /\ Head(part).px = p /\ part[1].px = p /\ part[1].qty = n /\ DOMAIN part = 1..1
    BY <2>1
  <2>3. InBand(p)
    BY <2>2 DEF Banded
  <2>4. Indexed(part) = <<[idx |-> IndexOf(p), qty |-> n]>>
    <3>1. Indexed(part) = [i \in 1..1 |-> [idx |-> IndexOf(p), qty |-> n]]
      BY <2>2 DEF Indexed
    <3> QED BY <3>1
  <2> DEFINE y == [idx |-> IndexOf(p), qty |-> n]
  <2>5. Indexed(part) # <<>> /\ Indexed(part)[1] = y /\ y.idx = IndexOf(p) /\ y.qty = n
    BY <2>4
  <2>6. IndexOf(p) \in Level /\ PriceOf(IndexOf(p)) = p
    BY <2>3, LevelOfPrice
  <2>7. Indexed(part) \in LevelPart
    BY <2>4, <2>6 DEF LevelPart
  <2> HIDE DEF y
  <2>8. ASSUME NEW l \in Level
        PROVE  PartAtLevel(Indexed(part), l) = PartAtPrice(part, l)
    <3>1. IndexOf(p) = l <=> p = PriceOf(l)
      BY <2>6, PriceOfLevel
    <3> QED BY <2>2, <2>5, <3>1 DEF PartAtLevel, PartAtPrice
  <2> QED BY <2>7, <2>8
<1> QED BY <1>1, <1>2 DEF Owed, Part

LEMMA OwedTypes ==
    ASSUME NEW part \in Owed
    PROVE  /\ \A l \in Level : PartAtPrice(part, l) \in Nat
           /\ part # <<>> => /\ part[1].qty \in Nat \ {0} /\ part[1].px \in Prices
                             /\ Head(part) = part[1] /\ part = <<part[1]>>
                             /\ \E p \in Prices, n \in Nat : part = <<[px |-> p, qty |-> n]>>
<1>1. MaxLevelQty \in Nat
  BY BookAssumption
<1>2. ASSUME part # <<>>
      PROVE  /\ part[1].qty \in Nat \ {0} /\ part[1].px \in Prices
             /\ Head(part) = part[1] /\ part = <<part[1]>>
             /\ \E p \in Prices, n \in Nat : part = <<[px |-> p, qty |-> n]>>
  <2>1. PICK p \in Prices, n \in 1..MaxLevelQty : part = <<[px |-> p, qty |-> n]>>
    BY <1>2 DEF Owed, Part
  <2>2. part[1].qty = n /\ part[1].px = p /\ Head(part) = part[1] /\ part = <<part[1]>>
    BY <2>1
  <2>3. n \in Nat \ {0}
    BY <1>1
  <2> QED BY <2>1, <2>2, <2>3
<1> QED BY <1>2 DEF PartAtPrice

LEMMA LevelTypes ==
    ASSUME NEW part \in LevelPart
    PROVE  /\ \A l \in Level : PartAtLevel(part, l) \in Nat
           /\ part # <<>> => /\ part[1].qty \in Nat \ {0} /\ part[1].idx \in Level
                             /\ Head(part) = part[1] /\ part = <<part[1]>>
<1>1. MaxLevelQty \in Nat
  BY BookAssumption
<1>2. ASSUME part # <<>>
      PROVE  /\ part[1].qty \in Nat \ {0} /\ part[1].idx \in Level
             /\ Head(part) = part[1] /\ part = <<part[1]>>
  <2>1. PICK l \in Level, n \in 1..MaxLevelQty : part = <<[idx |-> l, qty |-> n]>>
    BY <1>2 DEF LevelPart
  <2>2. part[1].qty = n /\ part[1].idx = l /\ Head(part) = part[1] /\ part = <<part[1]>>
    BY <2>1
  <2> QED BY <1>1, <2>2
<1> QED BY <1>2 DEF PartAtLevel

LEMMA WithParts ==
    ASSUME NEW d \in Delta, NEW x, NEW y
    PROVE  [d EXCEPT !.rem = x, !.add = y] = [side |-> d.side, rem |-> x, add |-> y]
<1>1. [d EXCEPT !.rem = x, !.add = y] \in [side : {d.side}, rem : {x}, add : {y}]
  BY DEF Delta
<1>2. ASSUME NEW e \in [side : {d.side}, rem : {x}, add : {y}]
      PROVE  e = [side |-> d.side, rem |-> x, add |-> y]
  OBVIOUS
<1> QED BY <1>1, <1>2

(************************** the ladder, step by step ***********************)

(* Where nothing is written the memories stay as they are.                 *)
LEMMA NoWrite ==
    ASSUME ~ClrBusy, Memories, lstate \notin {"REMW", "ADD"}
    PROVE  qty' = qty
  BY DEF Memories, Written

(* A step that moves the record on and changes no level.                   *)
LEMMA QuietStep ==
    ASSUME LadderInv, ~ClrBusy, lstate' \in States, clrAddr' = clrAddr,
           qty' = qty, occ' = occ, gany' = gany, resting' = resting,
           \A s \in Side, l \in Level : ToTake(s, l)' = ToTake(s, l) /\ ToAdd(s, l)' = ToAdd(s, l)
    PROVE  /\ LadderType' /\ ClearInv' /\ QtyInv' /\ OccInv' /\ TopInBand(resting)'
           /\ PeakTop' = PeakTop /\ ~ClrBusy'
           /\ \A s \in Side : Peak(s)' = Peak(s)
<1>1. ~ClrBusy' /\ ClearInv'
  BY DEF ClrBusy, ClearInv
<1>2. LadderType'
  BY DEF LadderInv, LadderType
<1>3. QtyInv'
  <2>1. ASSUME NEW s \in Side, NEW l \in Level
        PROVE  /\ ToTake(s, l)' <= qty'[s][l]
               /\ Rest(s, l)' = (qty'[s][l] - ToTake(s, l)') + ToAdd(s, l)'
    <3>1. Rest(s, l)' = Rest(s, l)
      BY DEF Rest, PriceOf
    <3>2. /\ ToTake(s, l) <= qty[s][l]
          /\ Rest(s, l) = (qty[s][l] - ToTake(s, l)) + ToAdd(s, l)
      BY DEF LadderInv, QtyInv
    <3> QED BY <3>1, <3>2
  <2> QED BY <2>1 DEF QtyInv
<1>4. OccInv'
  BY DEF LadderInv, OccInv, Group
<1>5. \A s \in Side : Peak(s)' = Peak(s)
  BY DEF Peak
<1>6. PeakTop' = PeakTop
  BY DEF PeakTop, Peak, PriceOf
<1>7. TopInBand(resting)'
  BY DEF LadderInv, TopInBand, TopOf, HeldAt, InBand
<1> QED BY <1>1, <1>2, <1>3, <1>4, <1>5, <1>6, <1>7

LEMMA IdleStep ==
    ASSUME LadderInv, ~ClrBusy, clrAddr' = clrAddr, resting' = resting, Memories, Accept(<<>>)
    PROVE  LadderInv'
<1>1. /\ lstate = "IDLE" /\ lstate' = "IDLE" /\ rec' = rec /\ ladBbo' = ladBbo
      /\ occ' = occ /\ gany' = gany
  BY DEF Accept
<1>2. qty' = qty
  BY <1>1, NoWrite
<1>3. \A s \in Side, l \in Level : ToTake(s, l)' = ToTake(s, l) /\ ToAdd(s, l)' = ToAdd(s, l)
  BY <1>1 DEF ToTake, ToAdd, Priced, Removing, Adding
<1>4. /\ LadderType' /\ ClearInv' /\ QtyInv' /\ OccInv' /\ TopInBand(resting)'
      /\ PeakTop' = PeakTop /\ ~ClrBusy'
  BY <1>1, <1>2, <1>3, QuietStep DEF States
<1>5. RecInv' /\ ReadInv'
  BY <1>1 DEF RecInv, ReadInv, Removing, Adding
<1>6. BestInv'
  BY <1>1, <1>4 DEF LadderInv, BestInv
<1> QED BY <1>4, <1>5, <1>6 DEF LadderInv

LEMMA SubtractStep ==
    ASSUME LadderInv, ~ClrBusy, clrAddr' = clrAddr, resting' = resting, Memories, Subtract
    PROVE  LadderInv'
<1>1. lstate = "SUB" /\ lstate' = "IDX" /\ occ' = occ /\ gany' = gany
  BY DEF Subtract, Go
<1>2. qty' = qty
  BY <1>1, NoWrite
<1>3. PICK d \in Delta : rec = <<d>>
  BY <1>1 DEF LadderInv, RecInv
<1>4. d.side \in Side /\ d.rem \in Owed /\ d.add \in Owed
  BY DEF Delta, Owed
<1> DEFINE e == [side |-> d.side, rem |-> Banded(d.rem), add |-> Banded(d.add)]
<1>5. rec' = <<e>>
  <2>1. Head(rec) = d
    BY <1>3
  <2>2. [d EXCEPT !.rem = Banded(@), !.add = Banded(@)] = e
    BY WithParts
  <2>3. rec' = <<[d EXCEPT !.rem = Banded(@), !.add = Banded(@)]>>
    BY <2>1 DEF Subtract
  <2> QED BY <2>2, <2>3
<1>6. /\ e.side = d.side /\ e.rem = Banded(d.rem) /\ e.add = Banded(d.add)
      /\ rec[1] = d /\ rec'[1] = e
  BY <1>3, <1>5
<1>7. e \in Delta /\ Banded(e.rem) = e.rem /\ Banded(e.add) = e.add
  BY <1>4, BandedPart DEF Delta, Owed
<1> HIDE DEF e
<1>8. ASSUME NEW s \in Side, NEW l \in Level
      PROVE  ToTake(s, l)' = ToTake(s, l) /\ ToAdd(s, l)' = ToAdd(s, l)
  <2>1. /\ PartAtPrice(e.rem, l) = PartAtPrice(d.rem, l)
        /\ PartAtPrice(e.add, l) = PartAtPrice(d.add, l)
    BY <1>4, <1>6, BandedPart
  <2>2. /\ ToTake(s, l) = IF d.side = s THEN PartAtPrice(d.rem, l) ELSE 0
        /\ ToAdd(s, l) = IF d.side = s THEN PartAtPrice(d.add, l) ELSE 0
    BY <1>1, <1>6 DEF ToTake, ToAdd, Priced, Removing, Adding
  <2>3. /\ ToTake(s, l)' = IF e.side = s THEN PartAtPrice(e.rem, l) ELSE 0
        /\ ToAdd(s, l)' = IF e.side = s THEN PartAtPrice(e.add, l) ELSE 0
    BY <1>1, <1>6 DEF ToTake, ToAdd, Priced, Removing, Adding, PartAtPrice, PriceOf
  <2> QED BY <1>6, <2>1, <2>2, <2>3
<1>9. LadderType' /\ ClearInv' /\ QtyInv' /\ OccInv' /\ TopInBand(resting)'
  BY <1>1, <1>2, <1>8, QuietStep DEF States
<1>10. RecInv'
  BY <1>1, <1>5, <1>7 DEF RecInv, Removing, Adding, Banded, InBand
<1>11. ReadInv' /\ BestInv'
  BY <1>1 DEF ReadInv, BestInv
<1> QED BY <1>9, <1>10, <1>11 DEF LadderInv

LEMMA DivideStep ==
    ASSUME LadderInv, ~ClrBusy, clrAddr' = clrAddr, resting' = resting, Memories, Divide
    PROVE  LadderInv'
<1>1. lstate = "IDX" /\ lstate' = "RD" /\ occ' = occ /\ gany' = gany
  BY DEF Divide, Go
<1>2. qty' = qty
  BY <1>1, NoWrite
<1>3. PICK d \in Delta : rec = <<d>> /\ Banded(d.rem) = d.rem /\ Banded(d.add) = d.add
  BY <1>1 DEF LadderInv, RecInv
<1>4. d.side \in Side /\ d.rem \in Owed /\ d.add \in Owed
  BY DEF Delta, Owed
<1> DEFINE e == [side |-> d.side, rem |-> Indexed(d.rem), add |-> Indexed(d.add)]
<1>5. rec' = <<e>>
  <2>1. Head(rec) = d
    BY <1>3
  <2>2. [d EXCEPT !.rem = Indexed(@), !.add = Indexed(@)] = e
    BY WithParts
  <2>3. rec' = <<[d EXCEPT !.rem = Indexed(@), !.add = Indexed(@)]>>
    BY <2>1 DEF Divide
  <2> QED BY <2>2, <2>3
<1>6. /\ e.side = d.side /\ e.rem = Indexed(d.rem) /\ e.add = Indexed(d.add)
      /\ rec[1] = d /\ rec'[1] = e
  BY <1>3, <1>5
<1>7. e \in [side : Side, rem : LevelPart, add : LevelPart]
  BY <1>3, <1>4, IndexedPart
<1> HIDE DEF e
<1>8. ASSUME NEW s \in Side, NEW l \in Level
      PROVE  ToTake(s, l)' = ToTake(s, l) /\ ToAdd(s, l)' = ToAdd(s, l)
  <2>1. /\ PartAtLevel(e.rem, l) = PartAtPrice(d.rem, l)
        /\ PartAtLevel(e.add, l) = PartAtPrice(d.add, l)
    BY <1>3, <1>4, <1>6, IndexedPart
  <2>2. /\ ToTake(s, l) = IF d.side = s THEN PartAtPrice(d.rem, l) ELSE 0
        /\ ToAdd(s, l) = IF d.side = s THEN PartAtPrice(d.add, l) ELSE 0
    BY <1>1, <1>6 DEF ToTake, ToAdd, Priced, Removing, Adding
  <2>3. /\ ToTake(s, l)' = IF e.side = s THEN PartAtLevel(e.rem, l) ELSE 0
        /\ ToAdd(s, l)' = IF e.side = s THEN PartAtLevel(e.add, l) ELSE 0
    BY <1>1, <1>6 DEF ToTake, ToAdd, Priced, Removing, Adding, PartAtLevel
  <2> QED BY <1>6, <2>1, <2>2, <2>3
<1>9. LadderType' /\ ClearInv' /\ QtyInv' /\ OccInv' /\ TopInBand(resting)'
  BY <1>1, <1>2, <1>8, QuietStep DEF States
<1>10. RecInv'
  BY <1>1, <1>5, <1>7 DEF RecInv, Removing, Adding, LevelPart, Level
<1>11. ReadInv' /\ BestInv'
  BY <1>1 DEF ReadInv, BestInv
<1> QED BY <1>9, <1>10, <1>11 DEF LadderInv

(* The record in the states behind the divide.                             *)
LEMMA RecordFacts ==
    ASSUME LadderInv, lstate \in Adding
    PROVE  \E r \in [side : Side, rem : LevelPart, add : LevelPart] :
             /\ rec = <<r>> /\ Head(rec) = r /\ rec[1] = r /\ rec # <<>>
             /\ r.side \in Side /\ r.rem \in LevelPart /\ r.add \in LevelPart
<1>1. PICK r \in [side : Side, rem : LevelPart, add : LevelPart] : rec = <<r>>
  BY DEF LadderInv, RecInv
<1>2. Head(rec) = r /\ rec[1] = r /\ rec # <<>>
  BY <1>1
<1> QED BY <1>1, <1>2

(* What is still to come, behind the divide.                               *)
LEMMA ToCome ==
    ASSUME lstate \in Adding, NEW r, rec = <<r>>, NEW s \in Side, NEW l \in Level
    PROVE  /\ ToTake(s, l) = IF lstate \in Removing /\ r.side = s THEN PartAtLevel(r.rem, l) ELSE 0
           /\ ToAdd(s, l) = IF r.side = s THEN PartAtLevel(r.add, l) ELSE 0
<1>1. rec[1] = r
  OBVIOUS
<1> QED BY <1>1 DEF ToTake, ToAdd, Priced, Removing, Adding

(* RD and REM: the removed level is read, and what it keeps computed.      *)
LEMMA ReadStep ==
    ASSUME LadderInv, ~ClrBusy, clrAddr' = clrAddr, resting' = resting, Memories,
           Wait("RD", "REM")
    PROVE  LadderInv'
<1>1. lstate = "RD" /\ lstate' = "REM" /\ occ' = occ /\ gany' = gany /\ rec' = rec
  BY DEF Wait, Go
<1>2. qty' = qty
  BY <1>1, NoWrite
<1>3. lstate \in Adding
  BY <1>1 DEF Adding, Removing
<1>4. PICK r \in [side : Side, rem : LevelPart, add : LevelPart] :
             /\ rec = <<r>> /\ Head(rec) = r /\ rec[1] = r /\ rec # <<>>
             /\ r.side \in Side /\ r.rem \in LevelPart /\ r.add \in LevelPart
  BY <1>3, RecordFacts
<1>5. \A s \in Side, l \in Level : ToTake(s, l)' = ToTake(s, l) /\ ToAdd(s, l)' = ToAdd(s, l)
  BY <1>1 DEF ToTake, ToAdd, Priced, Removing, Adding, PartAtLevel
<1>6. LadderType' /\ ClearInv' /\ QtyInv' /\ OccInv' /\ TopInBand(resting)'
  BY <1>1, <1>2, <1>5, QuietStep DEF States
<1>7. RecInv'
  BY <1>1, <1>4 DEF RecInv, Removing, Adding, LevelPart, Level
<1>8. ASSUME r.rem # <<>> PROVE rdata'[r.side] = qty[r.side][r.rem[1].idx]
  <2>1. ReadAddr(r.side) = r.rem[1].idx
    BY <1>1, <1>4, <1>8 DEF ReadAddr
  <2>2. rdata'[r.side] = qty[r.side][ReadAddr(r.side)]
    BY <1>4 DEF Memories
  <2> QED BY <2>1, <2>2
<1>9. ReadInv'
  BY <1>1, <1>2, <1>4, <1>8 DEF ReadInv
<1>10. BestInv'
  BY <1>1 DEF BestInv
<1> QED BY <1>6, <1>7, <1>9, <1>10 DEF LadderInv

LEMMA RemoveStep ==
    ASSUME LadderInv, ~ClrBusy, clrAddr' = clrAddr, resting' = resting, Memories, Remove
    PROVE  LadderInv'
<1>1. lstate = "REM" /\ lstate' = "REMW" /\ occ' = occ /\ gany' = gany /\ rec' = rec
  BY DEF Remove, Go
<1>2. qty' = qty
  BY <1>1, NoWrite
<1>3. lstate \in Adding
  BY <1>1 DEF Adding, Removing
<1>4. PICK r \in [side : Side, rem : LevelPart, add : LevelPart] :
             /\ rec = <<r>> /\ Head(rec) = r /\ rec[1] = r /\ rec # <<>>
             /\ r.side \in Side /\ r.rem \in LevelPart /\ r.add \in LevelPart
  BY <1>3, RecordFacts
<1>5. \A s \in Side, l \in Level : ToTake(s, l)' = ToTake(s, l) /\ ToAdd(s, l)' = ToAdd(s, l)
  BY <1>1 DEF ToTake, ToAdd, Priced, Removing, Adding, PartAtLevel
<1>6. LadderType' /\ ClearInv' /\ QtyInv' /\ OccInv' /\ TopInBand(resting)'
  BY <1>1, <1>2, <1>5, QuietStep DEF States
<1>7. RecInv'
  BY <1>1, <1>4 DEF RecInv, Removing, Adding, LevelPart, Level
<1>8. ASSUME r.rem # <<>> PROVE remNew' = qty[r.side][r.rem[1].idx] - r.rem[1].qty
  <2> DEFINE l == r.rem[1].idx
             n == r.rem[1].qty
  <2>1. l \in Level /\ n \in Nat
    BY <1>4, <1>8, LevelTypes
  <2>2. rdata[r.side] = qty[r.side][l]
    BY <1>1, <1>4, <1>8 DEF LadderInv, ReadInv
  <2>3. ToTake(r.side, l) = n
    BY <1>1, <1>3, <1>4, <1>8, <2>1, ToCome DEF PartAtLevel, Removing
  <2>4. n <= qty[r.side][l] /\ qty[r.side][l] \in Nat
    BY <1>4, <2>1, <2>3 DEF LadderInv, QtyInv, LadderType
  <2>5. remNew' = IF rdata[r.side] > n THEN rdata[r.side] - n ELSE 0
    BY <1>4, <1>8 DEF Remove
  <2> HIDE DEF l, n
  <2>6. remNew' = qty[r.side][l] - n
    BY <2>1, <2>2, <2>4, <2>5
  <2> QED BY <2>6 DEF l, n
<1>9. ReadInv'
  BY <1>1, <1>2, <1>4, <1>8 DEF ReadInv
<1>10. BestInv'
  BY <1>1 DEF BestInv
<1> QED BY <1>6, <1>7, <1>9, <1>10 DEF LadderInv

(* BQ and RDQ: the two-level scan finds the outermost level that holds     *)
(* anything.                                                               *)
LEMMA ScanFindsPeak ==
    ASSUME LadderInv, ~ClrBusy, NEW s \in Side
    PROVE  BestOf(s) = Peak(s)
<1>1. gany[s] = {Group(l) : l \in occ[s]} /\ occ[s] \in SUBSET Level
  BY DEF LadderInv, OccInv, LadderType
<1>2. CASE occ[s] = {}
  BY <1>1, <1>2 DEF BestOf, Peak
<1>3. CASE occ[s] # {}
  <2> DEFINE g == Outermost(s, gany[s])
             ls == {l \in occ[s] : Group(l) = g}
  <2>1. gany[s] \in SUBSET Nat /\ gany[s] # {} /\ \A x \in gany[s] : x <= Group(Levels - 1)
    <3>1. \A l \in occ[s] : Group(l) \in Nat /\ Group(l) <= Group(Levels - 1)
      BY <1>1, Constants, GroupOrder DEF Level
    <3> QED BY <1>1, <1>3, <3>1
  <2>2. Group(Levels - 1) \in Nat
    BY Constants, GroupOrder DEF Level
  <2>3. g \in gany[s] /\ \A y \in gany[s] : Beyond(s, g, y)
    BY <2>1, <2>2, OutermostIs
  <2>4. \A l \in Level : l \in Nat /\ l <= Levels - 1
    BY Constants DEF Level
  <2>5. Levels - 1 \in Nat /\ occ[s] \in SUBSET Nat /\ \A x \in occ[s] : x <= Levels - 1
    <3>1. Levels - 1 \in Nat
      BY Constants
    <3>2. \A x \in occ[s] : x \in Nat /\ x <= Levels - 1
      BY <1>1, <2>4
    <3> HIDE DEF ls, g
    <3> QED BY <3>1, <3>2
  <2>6. ls \in SUBSET Nat /\ ls # {} /\ \A x \in ls : x <= Levels - 1
    BY <1>1, <2>3, <2>5
  <2>7. Outermost(s, ls) \in ls /\ \A y \in ls : Beyond(s, Outermost(s, ls), y)
    <3> HIDE DEF ls
    <3> QED BY <2>5, <2>6, OutermostIs
  <2> DEFINE best1 == Outermost(s, ls)
  <2>8. best1 \in occ[s] /\ Group(best1) = g
    BY <2>7
  <2>9. ASSUME NEW y \in occ[s] PROVE Beyond(s, best1, y)
    <3>1. CASE Group(y) = g
      BY <2>7, <3>1
    <3>2. CASE Group(y) # g
      <4>1. Beyond(s, g, Group(y)) /\ y \in Level /\ best1 \in Level
        BY <1>1, <2>3, <2>8
      <4>2. /\ best1 <= y => Group(best1) <= Group(y) /\ Group(best1) \in Nat
            /\ y <= best1 => Group(y) <= Group(best1) /\ Group(y) \in Nat
            /\ Group(y) \in Nat /\ Group(best1) \in Nat /\ y \in Nat /\ best1 \in Nat
        BY <4>1, <2>4, GroupOrder
      <4> HIDE DEF best1, g
      <4> QED BY <2>8, <3>2, <4>1, <4>2 DEF Beyond
    <3> QED BY <3>1, <3>2
  <2>10. Outermost(s, occ[s]) = best1
    <3> HIDE DEF best1
    <3> QED BY <1>3, <2>5, <2>8, <2>9, OutermostIs
  <2> QED BY <1>3, <2>1, <2>10 DEF BestOf, Peak
<1> QED BY <1>2, <1>3

LEMMA FindBestStep ==
    ASSUME LadderInv, ~ClrBusy, clrAddr' = clrAddr, resting' = resting, Memories, FindBest
    PROVE  LadderInv'
<1>1. lstate = "BQ" /\ lstate' = "RDQ" /\ occ' = occ /\ gany' = gany /\ rec' = rec
  BY DEF FindBest, Go
<1>2. qty' = qty
  BY <1>1, NoWrite
<1>3. \A s \in Side, l \in Level : ToTake(s, l)' = ToTake(s, l) /\ ToAdd(s, l)' = ToAdd(s, l)
  BY <1>1 DEF ToTake, ToAdd, Priced, Removing, Adding
<1>4. /\ LadderType' /\ ClearInv' /\ QtyInv' /\ OccInv' /\ TopInBand(resting)'
      /\ \A s \in Side : Peak(s)' = Peak(s)
  BY <1>1, <1>2, <1>3, QuietStep DEF States
<1>5. best' = [s \in Side |-> Peak(s)]
  BY ScanFindsPeak DEF FindBest
<1>6. BestInv'
  BY <1>1, <1>4, <1>5 DEF BestInv
<1>7. RecInv' /\ ReadInv'
  BY <1>1 DEF RecInv, ReadInv, Removing, Adding
<1> QED BY <1>4, <1>6, <1>7 DEF LadderInv

LEMMA ReadBestStep ==
    ASSUME LadderInv, ~ClrBusy, clrAddr' = clrAddr, resting' = resting, Memories,
           Wait("RDQ", "PX")
    PROVE  LadderInv'
<1>1. /\ lstate = "RDQ" /\ lstate' = "PX" /\ occ' = occ /\ gany' = gany /\ rec' = rec
      /\ best' = best
  BY DEF Wait, Go
<1>2. qty' = qty
  BY <1>1, NoWrite
<1>3. \A s \in Side, l \in Level : ToTake(s, l)' = ToTake(s, l) /\ ToAdd(s, l)' = ToAdd(s, l)
  BY <1>1 DEF ToTake, ToAdd, Priced, Removing, Adding
<1>4. /\ LadderType' /\ ClearInv' /\ QtyInv' /\ OccInv' /\ TopInBand(resting)'
      /\ \A s \in Side : Peak(s)' = Peak(s)
  BY <1>1, <1>2, <1>3, QuietStep DEF States
<1>5. best = [s \in Side |-> Peak(s)]
  BY <1>1 DEF LadderInv, BestInv
<1>6. ASSUME NEW s \in Side, best[s] # <<>> PROVE rdata'[s] = qty[s][Head(best[s])]
  <2>1. ReadAddr(s) = Head(best[s])
    BY <1>1, <1>6 DEF ReadAddr, Probe
  <2> QED BY <2>1 DEF Memories
<1>7. BestInv'
  BY <1>1, <1>2, <1>4, <1>5, <1>6 DEF BestInv
<1>8. RecInv' /\ ReadInv'
  BY <1>1 DEF RecInv, ReadInv, Removing, Adding
<1> QED BY <1>4, <1>7, <1>8 DEF LadderInv

LEMMA PeakShape ==
    ASSUME NEW s \in Side
    PROVE  \/ Peak(s) = <<>> /\ occ[s] = {}
           \/ /\ Peak(s) = <<Outermost(s, occ[s])>> /\ occ[s] # {}
              /\ Head(Peak(s)) = Outermost(s, occ[s]) /\ Peak(s)[1] = Outermost(s, occ[s])
              /\ DOMAIN Peak(s) = 1..1 /\ Peak(s) # <<>>
<1>1. CASE occ[s] = {}
  BY <1>1 DEF Peak
<1>2. CASE occ[s] # {}
  <2>1. Peak(s) = <<Outermost(s, occ[s])>>
    BY <1>2 DEF Peak
  <2> QED BY <1>2, <2>1
<1> QED BY <1>1, <1>2

LEMMA PriceStep ==
    ASSUME LadderInv, ~ClrBusy, clrAddr' = clrAddr, resting' = resting, Memories, Price
    PROVE  LadderInv'
<1>1. /\ lstate = "PX" /\ lstate' = "OUT" /\ occ' = occ /\ gany' = gany /\ rec' = rec
  BY DEF Price, Go
<1>2. qty' = qty
  BY <1>1, NoWrite
<1>3. \A s \in Side, l \in Level : ToTake(s, l)' = ToTake(s, l) /\ ToAdd(s, l)' = ToAdd(s, l)
  BY <1>1 DEF ToTake, ToAdd, Priced, Removing, Adding
<1>4. /\ LadderType' /\ ClearInv' /\ QtyInv' /\ OccInv' /\ TopInBand(resting)'
      /\ PeakTop' = PeakTop
  BY <1>1, <1>2, <1>3, QuietStep DEF States
<1>5. /\ best = [s \in Side |-> Peak(s)]
      /\ \A s \in Side : best[s] # <<>> => rdata[s] = qty[s][Head(best[s])]
  BY <1>1 DEF LadderInv, BestInv
<1>6. ASSUME NEW s \in Side
      PROVE  [i \in DOMAIN best[s] |-> [px |-> PriceOf(best[s][i]), qty |-> rdata[s]]]
              = [i \in DOMAIN Peak(s) |-> [px |-> PriceOf(Peak(s)[i]), qty |-> qty[s][Peak(s)[i]]]]
  <2>1. best[s] = Peak(s)
    BY <1>5
  <2>2. ASSUME NEW i \in DOMAIN Peak(s) PROVE rdata[s] = qty[s][Peak(s)[i]]
    <3>1. i = 1 /\ Peak(s) # <<>> /\ Head(Peak(s)) = Peak(s)[1]
      BY PeakShape
    <3> QED BY <1>5, <2>1, <3>1
  <2> QED BY <2>1, <2>2
<1>7. top' = PeakTop
  BY <1>6 DEF Price, PeakTop
<1>8. BestInv'
  BY <1>1, <1>4, <1>7 DEF BestInv
<1>9. RecInv' /\ ReadInv'
  BY <1>1 DEF RecInv, ReadInv, Removing, Adding
<1> QED BY <1>4, <1>8, <1>9 DEF LadderInv

LEMMA PublishStep ==
    ASSUME LadderInv, ~ClrBusy, clrAddr' = clrAddr, resting' = resting, Memories, Publish
    PROVE  LadderInv'
<1>1. /\ lstate = "OUT" /\ lstate' = "IDLE" /\ occ' = occ /\ gany' = gany /\ rec' = rec
      /\ ladBbo' = top
  BY DEF Publish, Go
<1>2. qty' = qty
  BY <1>1, NoWrite
<1>3. \A s \in Side, l \in Level : ToTake(s, l)' = ToTake(s, l) /\ ToAdd(s, l)' = ToAdd(s, l)
  BY <1>1 DEF ToTake, ToAdd, Priced, Removing, Adding
<1>4. /\ LadderType' /\ ClearInv' /\ QtyInv' /\ OccInv' /\ TopInBand(resting)'
      /\ PeakTop' = PeakTop
  BY <1>1, <1>2, <1>3, QuietStep DEF States
<1>5. top = PeakTop
  BY <1>1 DEF LadderInv, BestInv
<1>6. BestInv'
  BY <1>1, <1>4, <1>5 DEF BestInv
<1>7. RecInv' /\ ReadInv'
  BY <1>1 DEF RecInv, ReadInv, Removing, Adding
<1> QED BY <1>4, <1>6, <1>7 DEF LadderInv

(* A level written and marked as what is written there says.               *)
LEMMA MarkStep ==
    ASSUME LadderInv, ~ClrBusy, clrAddr' = clrAddr, resting' = resting, lstate' \in States,
           NEW s \in Side, NEW l \in Level, NEW v \in Nat, NEW holds \in BOOLEAN, holds <=> v > 0,
           qty' = [qty EXCEPT ![s][l] = v], Mark(s, l, holds),
           \A t \in Side, k \in Level :
              /\ ToTake(t, k)' <= qty'[t][k]
              /\ (qty'[t][k] - ToTake(t, k)') + ToAdd(t, k)' = (qty[t][k] - ToTake(t, k)) + ToAdd(t, k)
    PROVE  LadderType' /\ ClearInv' /\ QtyInv' /\ OccInv' /\ TopInBand(resting)' /\ ~ClrBusy'
<1>1. ~ClrBusy' /\ ClearInv'
  BY DEF ClrBusy, ClearInv
<1>2. /\ qty \in [Side -> [Level -> Nat]] /\ occ \in [Side -> SUBSET Level]
      /\ gany \in [Side -> SUBSET Nat]
      /\ clrAddr \in 0..Levels /\ resting \in [Side -> [Prices -> Nat]]
  BY DEF LadderInv, LadderType
<1>3. qty' \in [Side -> [Level -> Nat]]
  BY <1>2
<1>4. /\ occ' = [occ EXCEPT ![s] = IF holds THEN occ[s] \cup {l} ELSE occ[s] \ {l}]
      /\ gany' = [gany EXCEPT ![s] = Summary(s, l, holds)]
  BY DEF Mark
<1>5. LadderType'
  <2>1. occ' \in [Side -> SUBSET Level]
    BY <1>2, <1>4
  <2>2. gany' \in [Side -> SUBSET Nat]
    <3>1. gany[s] \in SUBSET Nat /\ Group(l) \in Nat
      BY <1>2, GroupOrder, Constants
    <3>2. Summary(s, l, holds) \in SUBSET Nat
      BY <3>1 DEF Summary
    <3> QED BY <1>2, <1>4, <3>2
  <2> QED BY <1>2, <1>3, <2>1, <2>2 DEF LadderType
<1>6. QtyInv'
  <2>1. ASSUME NEW t \in Side, NEW k \in Level
        PROVE  /\ ToTake(t, k)' <= qty'[t][k]
               /\ Rest(t, k)' = (qty'[t][k] - ToTake(t, k)') + ToAdd(t, k)'
    <3>1. Rest(t, k)' = Rest(t, k)
      BY DEF Rest, PriceOf
    <3>2. Rest(t, k) = (qty[t][k] - ToTake(t, k)) + ToAdd(t, k)
      BY DEF LadderInv, QtyInv
    <3> QED BY <3>1, <3>2
  <2> QED BY <2>1 DEF QtyInv
<1>7. TopInBand(resting)'
  BY DEF LadderInv, TopInBand, TopOf, HeldAt, InBand
<1>8. \A t \in Side : /\ occ[t] = {k \in Level : qty[t][k] > 0}
                      /\ gany[t] = {Group(k) : k \in occ[t]}
  BY DEF LadderInv, OccInv
<1>9. ASSUME NEW t \in Side
      PROVE  occ'[t] = {k \in Level : qty'[t][k] > 0} /\ gany'[t] = {Group(k) : k \in occ'[t]}
  <2>1. CASE t # s
    <3>1. qty'[t] = qty[t] /\ occ'[t] = occ[t]
      BY <1>2, <1>4, <2>1
    <3>2. gany'[t] = gany[t]
      BY <1>2, <1>4, <2>1
    <3> QED BY <1>8, <3>1, <3>2
  <2>2. CASE t = s
    <3>1. occ'[s] = IF holds THEN occ[s] \cup {l} ELSE occ[s] \ {l}
      BY <1>2, <1>4
    <3>2. qty'[s][l] = v /\ \A k \in Level : k # l => qty'[s][k] = qty[s][k]
      BY <1>2
    <3>3. occ'[s] = {k \in Level : qty'[s][k] > 0}
      BY <1>8, <3>1, <3>2
    <3>4. gany'[s] = Summary(s, l, holds)
      BY <1>2, <1>4
    <3>5. Summary(s, l, holds) = {Group(k) : k \in occ'[s]}
      <4>1. gany[s] = {Group(k) : k \in occ[s]}
        BY <1>8
      <4> QED BY <4>1, <3>1 DEF Summary
    <3> QED BY <2>2, <3>3, <3>4, <3>5
  <2> QED BY <2>1, <2>2
<1>10. OccInv'
  BY <1>9 DEF OccInv, Group
<1> QED BY <1>1, <1>5, <1>6, <1>7, <1>10

(* REMW: the level keeps what the removal leaves.                          *)
LEMMA WriteRemovalStep ==
    ASSUME LadderInv, ~ClrBusy, clrAddr' = clrAddr, resting' = resting, Memories, WriteRemoval
    PROVE  LadderInv'
<1>1. lstate = "REMW" /\ lstate' = "ADD" /\ rec' = rec /\ remNew' = remNew
  BY DEF WriteRemoval, Go
<1>2. lstate \in Adding /\ lstate' \in Adding /\ lstate \in Removing /\ lstate' \notin Removing
  BY <1>1 DEF Adding, Removing
<1>3. PICK r \in [side : Side, rem : LevelPart, add : LevelPart] :
             /\ rec = <<r>> /\ Head(rec) = r /\ rec[1] = r /\ rec # <<>>
             /\ r.side \in Side /\ r.rem \in LevelPart /\ r.add \in LevelPart
  BY <1>2, RecordFacts
<1>4. RecInv'
  BY <1>1, <1>3 DEF RecInv, Removing, Adding, LevelPart, Level
<1>5. BestInv'
  BY <1>1 DEF BestInv
<1>6. ASSUME NEW s \in Side, NEW l \in Level
      PROVE  /\ ToTake(s, l) = IF r.side = s THEN PartAtLevel(r.rem, l) ELSE 0
             /\ ToTake(s, l)' = 0 /\ ToAdd(s, l)' = ToAdd(s, l)
             /\ ToAdd(s, l) \in Nat /\ ToTake(s, l) <= qty[s][l] /\ qty[s][l] \in Nat
  <2>1. /\ ToTake(s, l) = IF r.side = s THEN PartAtLevel(r.rem, l) ELSE 0
        /\ ToAdd(s, l) = IF r.side = s THEN PartAtLevel(r.add, l) ELSE 0
    BY <1>2, <1>3, ToCome
  <2>2. ToTake(s, l)' = 0 /\ ToAdd(s, l)' = IF r.side = s THEN PartAtLevel(r.add, l) ELSE 0
    BY <1>1, <1>3 DEF ToTake, ToAdd, Priced, Removing, Adding, PartAtLevel
  <2>3. ToTake(s, l) <= qty[s][l] /\ qty[s][l] \in Nat
    BY DEF LadderInv, QtyInv, LadderType
  <2> QED BY <1>3, <2>1, <2>2, <2>3, LevelTypes
<1>7. ASSUME r.add # <<>> PROVE rdata'[r.side] = qty[r.side][r.add[1].idx]
  <2>1. ReadAddr(r.side) = r.add[1].idx
    BY <1>1, <1>3, <1>7 DEF ReadAddr
  <2>2. rdata'[r.side] = qty[r.side][ReadAddr(r.side)]
    BY <1>3 DEF Memories
  <2> QED BY <2>1, <2>2
<1>8. CASE r.rem = <<>>
  <2>1. qty' = qty
    BY <1>1, <1>3, <1>8 DEF Memories, Written
  <2>2. occ' = occ /\ gany' = gany
    BY <1>3, <1>8 DEF WriteRemoval
  <2>3. \A s \in Side, l \in Level : ToTake(s, l)' = ToTake(s, l) /\ ToAdd(s, l)' = ToAdd(s, l)
    BY <1>6, <1>8 DEF PartAtLevel
  <2>4. LadderType' /\ ClearInv' /\ QtyInv' /\ OccInv' /\ TopInBand(resting)'
    BY <1>1, <2>1, <2>2, <2>3, QuietStep DEF States
  <2>5. ReadInv'
    BY <1>1, <1>3, <1>7, <1>8, <2>1 DEF ReadInv
  <2> QED BY <1>4, <1>5, <2>4, <2>5 DEF LadderInv
<1>9. CASE r.rem # <<>>
  <2> DEFINE s == r.side
             l == r.rem[1].idx
  <2>1. s \in Side /\ l \in Level /\ r.rem[1].qty \in Nat
    BY <1>3, <1>9, LevelTypes
  <2>2. remNew = qty[s][l] - r.rem[1].qty
    BY <1>1, <1>3, <1>9 DEF LadderInv, ReadInv
  <2>3. ToTake(s, l) = r.rem[1].qty
    BY <1>6, <1>9, <2>1 DEF PartAtLevel
  <2>4. remNew \in Nat /\ remNew = qty[s][l] - ToTake(s, l)
    BY <1>6, <2>1, <2>2, <2>3
  <2>5. qty' = [qty EXCEPT ![s][l] = remNew]
    BY <1>1, <1>3, <1>9 DEF Memories, Written
  <2>6. Mark(s, l, remNew # 0)
    BY <1>3, <1>9 DEF WriteRemoval
  <2>7. ASSUME NEW t \in Side, NEW k \in Level
        PROVE  /\ ToTake(t, k)' <= qty'[t][k]
               /\ (qty'[t][k] - ToTake(t, k)') + ToAdd(t, k)'
                    = (qty[t][k] - ToTake(t, k)) + ToAdd(t, k)
    <3>1. qty \in [Side -> [Level -> Nat]]
      BY DEF LadderInv, LadderType
    <3>2. CASE t = s /\ k = l
      <4>1. qty'[t][k] = remNew
        BY <2>1, <2>5, <3>1, <3>2
      <4> HIDE DEF s, l
      <4> QED BY <1>6, <2>4, <3>2, <4>1
    <3>3. CASE ~(t = s /\ k = l)
      <4>1. qty'[t][k] = qty[t][k]
        BY <2>1, <2>5, <3>1, <3>3
      <4>2. ToTake(t, k) = 0
        BY <1>6, <3>3 DEF PartAtLevel
      <4>3. ToTake(t, k)' = 0 /\ ToAdd(t, k)' = ToAdd(t, k) /\ qty[t][k] \in Nat
        BY <1>6
      <4> HIDE DEF s, l
      <4> QED BY <4>1, <4>2, <4>3
    <3> QED BY <3>2, <3>3
  <2>8. LadderType' /\ ClearInv' /\ QtyInv' /\ OccInv' /\ TopInBand(resting)'
    <3>1. (remNew # 0) \in BOOLEAN /\ ((remNew # 0) <=> remNew > 0) /\ lstate' \in States
      BY <1>1, <2>4 DEF States
    <3> HIDE DEF s, l
    <3> QED BY <2>1, <2>4, <2>5, <2>6, <2>7, <3>1, MarkStep
  <2>9. ReadInv'
    <3>1. qty \in [Side -> [Level -> Nat]]
      BY DEF LadderInv, LadderType
    <3>2. qty'[s][l] = remNew
      BY <2>1, <2>5, <3>1
    <3>3. ASSUME r.add # <<>>, r.rem[1].idx # r.add[1].idx
          PROVE  rdata'[r.side] = qty'[r.side][r.add[1].idx]
      <4>1. r.add[1].idx \in Level
        BY <1>3, <3>3, LevelTypes
      <4> QED BY <1>7, <2>1, <2>5, <3>1, <3>3, <4>1
    <3> QED BY <1>1, <1>3, <1>9, <3>2, <3>3 DEF ReadInv
  <2> QED BY <1>4, <1>5, <2>8, <2>9 DEF LadderInv
<1> QED BY <1>8, <1>9

(* ADD: the level holds the sum, whichever way it is read.                 *)
LEMMA AddStep ==
    ASSUME LadderInv, ~ClrBusy, clrAddr' = clrAddr, resting' = resting, Memories, Add
    PROVE  LadderInv'
<1>1. lstate = "ADD" /\ lstate' = "BQ" /\ rec' = rec
  BY DEF Add, Go
<1>2. lstate \in Adding /\ lstate \notin Removing
  BY <1>1 DEF Adding, Removing
<1>3. PICK r \in [side : Side, rem : LevelPart, add : LevelPart] :
             /\ rec = <<r>> /\ Head(rec) = r /\ rec[1] = r /\ rec # <<>>
             /\ r.side \in Side /\ r.rem \in LevelPart /\ r.add \in LevelPart
  BY <1>2, RecordFacts
<1>4. RecInv' /\ ReadInv' /\ BestInv'
  BY <1>1 DEF RecInv, ReadInv, BestInv, Removing, Adding
<1>5. ASSUME NEW s \in Side, NEW l \in Level
      PROVE  /\ ToAdd(s, l) = IF r.side = s THEN PartAtLevel(r.add, l) ELSE 0
             /\ ToTake(s, l) = 0 /\ ToTake(s, l)' = 0 /\ ToAdd(s, l)' = 0
             /\ qty[s][l] \in Nat
  <2>1. /\ ToTake(s, l) = 0
        /\ ToAdd(s, l) = IF r.side = s THEN PartAtLevel(r.add, l) ELSE 0
    BY <1>2, <1>3, ToCome
  <2>2. ToTake(s, l)' = 0 /\ ToAdd(s, l)' = 0
    BY <1>1 DEF ToTake, ToAdd, Priced, Removing, Adding
  <2>3. qty[s][l] \in Nat
    BY DEF LadderInv, LadderType
  <2> QED BY <2>1, <2>2, <2>3
<1>6. CASE r.add = <<>>
  <2>1. qty' = qty
    BY <1>1, <1>3, <1>6 DEF Memories, Written
  <2>2. occ' = occ /\ gany' = gany
    BY <1>3, <1>6 DEF Add
  <2>3. \A s \in Side, l \in Level : ToTake(s, l)' = ToTake(s, l) /\ ToAdd(s, l)' = ToAdd(s, l)
    BY <1>5, <1>6 DEF PartAtLevel
  <2>4. LadderType' /\ ClearInv' /\ QtyInv' /\ OccInv' /\ TopInBand(resting)'
    BY <1>1, <2>1, <2>2, <2>3, QuietStep DEF States
  <2> QED BY <1>4, <2>4 DEF LadderInv
<1>7. CASE r.add # <<>>
  <2> DEFINE s == r.side
             l == r.add[1].idx
  <2>1. s \in Side /\ l \in Level /\ r.add[1].qty \in Nat \ {0}
    BY <1>3, <1>7, LevelTypes
  <2>2. (IF r.rem # <<>> /\ r.rem[1].idx = l THEN remNew ELSE rdata[s]) = qty[s][l]
    BY <1>1, <1>3, <1>7 DEF LadderInv, ReadInv
  <2>3. Sum(r) = qty[s][l] + r.add[1].qty
    BY <2>2 DEF Sum
  <2> DEFINE v == Sum(r)
  <2>4. v \in Nat /\ v > 0
    BY <1>5, <2>1, <2>3
  <2>5. qty' = [qty EXCEPT ![s][l] = v]
    BY <1>1, <1>3, <1>7 DEF Memories, Written
  <2>6. Mark(s, l, TRUE)
    BY <1>3, <1>7 DEF Add
  <2>7. ASSUME NEW t \in Side, NEW k \in Level
        PROVE  /\ ToTake(t, k)' <= qty'[t][k]
               /\ (qty'[t][k] - ToTake(t, k)') + ToAdd(t, k)'
                    = (qty[t][k] - ToTake(t, k)) + ToAdd(t, k)
    <3>1. qty \in [Side -> [Level -> Nat]]
      BY DEF LadderInv, LadderType
    <3>2. CASE t = s /\ k = l
      <4>1. qty'[t][k] = v
        BY <2>1, <2>5, <3>1, <3>2
      <4>2. ToAdd(t, k) = r.add[1].qty
        BY <1>5, <1>7, <3>2 DEF PartAtLevel
      <4> HIDE DEF s, l, v
      <4>3. v = qty[t][k] + ToAdd(t, k)
        BY <2>3, <3>2, <4>2 DEF s, l, v
      <4> QED BY <1>5, <2>1, <2>4, <4>1, <4>2, <4>3
    <3>3. CASE ~(t = s /\ k = l)
      <4>1. qty'[t][k] = qty[t][k]
        BY <2>1, <2>5, <3>1, <3>3
      <4>2. ToAdd(t, k) = 0
        BY <1>5, <3>3 DEF PartAtLevel
      <4> HIDE DEF s, l, v
      <4> QED BY <1>5, <4>1, <4>2
    <3> QED BY <3>2, <3>3
  <2>8. LadderType' /\ ClearInv' /\ QtyInv' /\ OccInv' /\ TopInBand(resting)'
    <3>1. (TRUE <=> v > 0) /\ lstate' \in States
      BY <1>1, <2>4 DEF States
    <3> HIDE DEF s, l, v
    <3> QED BY <2>1, <2>4, <2>5, <2>6, <2>7, <3>1, MarkStep
  <2> QED BY <1>4, <2>8 DEF LadderInv
<1> QED BY <1>6, <1>7

(* A delta is accepted: what it says is now still to come.                 *)
LEMMA AcceptStep ==
    ASSUME LadderInv, LadderReady, clrAddr' = clrAddr, Memories, NEW d \in Delta, Legal(d),
           resting' = Applied(d), Accept(<<d>>)
    PROVE  LadderInv'
<1>1. lstate = "IDLE" /\ ~ClrBusy /\ lstate' = "SUB" /\ occ' = occ /\ gany' = gany
  <2>1. <<d>> # <<>>
    OBVIOUS
  <2> QED BY <2>1 DEF Accept, Go, LadderReady
<1>2. rec' = <<d>> /\ rec'[1] = d
  <2>1. <<d>> # <<>> /\ <<d>>[1] = d
    OBVIOUS
  <2> QED BY <2>1 DEF Accept
<1>3. qty' = qty
  BY <1>1, NoWrite
<1>4. d.side \in Side /\ d.rem \in Owed /\ d.add \in Owed
  BY DEF Delta, Owed
<1>5. resting \in [Side -> [Prices -> Nat]] /\ qty \in [Side -> [Level -> Nat]]
  BY DEF LadderInv, LadderType
<1>6. resting' = [resting EXCEPT ![d.side] =
          [p \in Prices |-> (resting[d.side][p] - QtyAt(d.rem, p)) + QtyAt(d.add, p)]]
  BY DEF Applied
<1>7. ASSUME NEW p \in Prices
      PROVE  /\ QtyAt(d.rem, p) \in Nat /\ QtyAt(d.add, p) \in Nat
             /\ QtyAt(d.rem, p) <= resting[d.side][p] /\ resting[d.side][p] \in Nat
  <2>1. resting[d.side][p] \in Nat
    BY <1>4, <1>5
  <2>2. QtyAt(d.rem, p) \in Nat /\ QtyAt(d.add, p) \in Nat
    BY <1>4, OwedTypes DEF QtyAt
  <2>3. d.rem # <<>> => d.rem[1].qty <= resting[d.side][d.rem[1].px]
    BY DEF Legal
  <2> QED BY <2>1, <2>2, <2>3 DEF QtyAt
<1>8. /\ resting' \in [Side -> [Prices -> Nat]]
      /\ \A s \in Side, p \in Prices : resting'[s][p] =
            IF d.side = s THEN (resting[s][p] - QtyAt(d.rem, p)) + QtyAt(d.add, p)
            ELSE resting[s][p]
  <2> DEFINE row == [p \in Prices |-> (resting[d.side][p] - QtyAt(d.rem, p)) + QtyAt(d.add, p)]
  <2>1. row \in [Prices -> Nat]
    BY <1>7
  <2>2. \A p \in Prices : row[p] = (resting[d.side][p] - QtyAt(d.rem, p)) + QtyAt(d.add, p)
    OBVIOUS
  <2>3. resting' = [resting EXCEPT ![d.side] = row]
    BY <1>6
  <2> HIDE DEF row
  <2> QED BY <1>4, <1>5, <2>1, <2>2, <2>3
<1>9. LadderType'
  BY <1>1, <1>3, <1>8 DEF LadderInv, LadderType, States
<1>10. ASSUME NEW s \in Side, NEW l \in Level
       PROVE  /\ ToTake(s, l)' <= qty'[s][l]
              /\ Rest(s, l)' = (qty'[s][l] - ToTake(s, l)') + ToAdd(s, l)'
  <2>1. ToTake(s, l) = 0 /\ ToAdd(s, l) = 0
    BY <1>1 DEF ToTake, ToAdd, Priced, Removing, Adding
  <2>2. Rest(s, l) = (qty[s][l] - 0) + 0 /\ qty[s][l] \in Nat
    BY <1>1, <1>5, <2>1 DEF LadderInv, QtyInv
  <2>3. qty[s][l] = Rest(s, l) /\ Rest(s, l) \in Nat
    BY <2>2
  <2>4. /\ ToTake(s, l)' = IF d.side = s THEN PartAtPrice(d.rem, l) ELSE 0
        /\ ToAdd(s, l)' = IF d.side = s THEN PartAtPrice(d.add, l) ELSE 0
    BY <1>1, <1>2 DEF ToTake, ToAdd, Priced, Removing, Adding, PartAtPrice, PriceOf
  <2>5. Rest(s, l)' = IF PriceOf(l) \in Prices THEN resting'[s][PriceOf(l)] ELSE 0
    BY DEF Rest, PriceOf
  <2>6. CASE PriceOf(l) \in Prices
    <3>1. /\ PartAtPrice(d.rem, l) = QtyAt(d.rem, PriceOf(l))
          /\ PartAtPrice(d.add, l) = QtyAt(d.add, PriceOf(l))
      BY DEF PartAtPrice, QtyAt
    <3>2. Rest(s, l) = resting[s][PriceOf(l)]
      BY <2>6 DEF Rest
    <3>3. Rest(s, l)' = IF d.side = s
                        THEN (Rest(s, l) - PartAtPrice(d.rem, l)) + PartAtPrice(d.add, l)
                        ELSE Rest(s, l)
      BY <1>8, <2>5, <2>6, <3>1, <3>2
    <3>4. d.side = s => PartAtPrice(d.rem, l) <= Rest(s, l)
      BY <1>7, <2>6, <3>1, <3>2
    <3>5. PartAtPrice(d.rem, l) \in Nat /\ PartAtPrice(d.add, l) \in Nat
      BY <1>4, OwedTypes
    <3> QED BY <1>3, <2>3, <2>4, <3>3, <3>4, <3>5
  <2>7. CASE PriceOf(l) \notin Prices
    <3>1. PartAtPrice(d.rem, l) = 0 /\ PartAtPrice(d.add, l) = 0
      BY <1>4, <2>7, OwedTypes DEF PartAtPrice
    <3>2. Rest(s, l) = 0 /\ Rest(s, l)' = 0
      BY <2>5, <2>7 DEF Rest
    <3> QED BY <1>3, <2>3, <2>4, <3>1, <3>2
  <2> QED BY <2>6, <2>7
<1>11. QtyInv'
  BY <1>10 DEF QtyInv
<1>12. ~ClrBusy' /\ ClearInv' /\ OccInv'
  BY <1>1, <1>3 DEF ClrBusy, ClearInv, LadderInv, OccInv, Group
<1>13. TopInBand(resting)'
  <2>1. TopInBand(Applied(d))
    BY DEF Legal
  <2>2. PICK b : b = Applied(d)
    OBVIOUS
  <2>3. TopInBand(b) /\ resting' = b
    BY <2>1, <2>2
  <2> QED BY <2>3 DEF TopInBand, TopOf, HeldAt, InBand
<1>14. RecInv' /\ ReadInv' /\ BestInv'
  BY <1>1, <1>2 DEF RecInv, ReadInv, BestInv, Removing, Adding
<1> QED BY <1>9, <1>11, <1>12, <1>13, <1>14 DEF LadderInv

(* Nothing rests: no price is the top of a side.                           *)
LEMMA NothingRests ==
    /\ NoOrders \in [Side -> [Prices -> Nat]]
    /\ \A s \in Side : HeldAt(NoOrders, s) = {}
    /\ TopInBand(NoOrders)
  BY DEF NoOrders, HeldAt, TopInBand

(* The sweep clears one more level; behind the last the ladder is at rest. *)
LEMMA ClearStep ==
    ASSUME LadderInv, ClrBusy, Memories, ClearLevel, resting' = resting
    PROVE  LadderInv'
<1>1. /\ lstate = "IDLE" /\ resting = NoOrders /\ ladBbo = Empty
      /\ \A s \in Side : occ[s] = {} /\ gany[s] = {}
      /\ \A s \in Side, l \in Level : l < clrAddr => qty[s][l] = 0
  BY DEF LadderInv, ClearInv
<1>2. /\ lstate' = "IDLE" /\ ladBbo' = Empty /\ occ' = occ /\ gany' = gany
      /\ clrAddr' = clrAddr + 1
  BY <1>1 DEF ClearLevel
<1>3. clrAddr \in Level /\ clrAddr \in Nat /\ clrAddr < Levels
  BY Constants DEF LadderInv, LadderType, Level, ClrBusy
<1>4. /\ qty \in [Side -> [Level -> Nat]] /\ resting \in [Side -> [Prices -> Nat]]
      /\ occ \in [Side -> SUBSET Level] /\ gany \in [Side -> SUBSET Nat]
  BY DEF LadderInv, LadderType
<1>5. qty' = [s \in Side |-> [qty[s] EXCEPT ![clrAddr] = 0]]
  BY DEF Memories, Written
<1>6. /\ qty' \in [Side -> [Level -> Nat]]
      /\ \A s \in Side, l \in Level : qty'[s][l] = IF l = clrAddr THEN 0 ELSE qty[s][l]
  <2>1. ASSUME NEW s \in Side
        PROVE  /\ qty'[s] \in [Level -> Nat]
               /\ \A l \in Level : qty'[s][l] = IF l = clrAddr THEN 0 ELSE qty[s][l]
    <3>1. qty'[s] = [qty[s] EXCEPT ![clrAddr] = 0] /\ qty[s] \in [Level -> Nat]
      BY <1>4, <1>5
    <3> QED BY <1>3, <3>1
  <2> QED BY <1>5, <2>1
<1>7. LadderType'
  <2>1. clrAddr' \in 0..Levels
    BY <1>2, <1>3, Constants
  <2> QED BY <1>2, <1>4, <1>6, <2>1 DEF LadderType, States
<1>8. \A s \in Side, l \in Level : l < clrAddr' => qty'[s][l] = 0
  <2>1. ASSUME NEW s \in Side, NEW l \in Level, l < clrAddr' PROVE qty'[s][l] = 0
    <3>1. l < clrAddr \/ l = clrAddr
      BY <1>2, <1>3, <2>1, Constants
    <3> QED BY <1>1, <1>6, <3>1
  <2> QED BY <2>1
<1>9. ClearInv'
  <2>1. resting' = NoOrders
    BY <1>1
  <2> QED BY <1>1, <1>2, <1>8, <2>1 DEF ClearInv, NoOrders, Empty
<1>10. TopInBand(resting)'
  BY DEF LadderInv, TopInBand, TopOf, HeldAt, InBand
<1>11. RecInv' /\ ReadInv'
  BY <1>2 DEF RecInv, ReadInv, Removing, Adding
<1>12. ASSUME ~ClrBusy' PROVE \A s \in Side, l \in Level : qty'[s][l] = 0
  <2>1. \A l \in Level : l < clrAddr'
    BY <1>2, <1>3, <1>12, Constants DEF ClrBusy, Level
  <2> QED BY <1>8, <2>1
<1>13. QtyInv'
  <2>1. ASSUME ~ClrBusy', NEW s \in Side, NEW l \in Level
        PROVE  /\ ToTake(s, l)' <= qty'[s][l]
               /\ Rest(s, l)' = (qty'[s][l] - ToTake(s, l)') + ToAdd(s, l)'
    <3>1. ToTake(s, l)' = 0 /\ ToAdd(s, l)' = 0
      BY <1>2 DEF ToTake, ToAdd, Priced, Removing, Adding
    <3>2. Rest(s, l)' = 0
      BY <1>1 DEF Rest, PriceOf, NoOrders
    <3>3. qty'[s][l] = 0
      BY <1>12, <2>1
    <3> QED BY <3>1, <3>2, <3>3
  <2> QED BY <2>1 DEF QtyInv
<1>14. OccInv'
  <2>1. ASSUME ~ClrBusy', NEW s \in Side
        PROVE  occ'[s] = {l \in Level : qty'[s][l] > 0} /\ gany'[s] = {Group(l) : l \in occ'[s]}
    <3>1. occ'[s] = {} /\ gany'[s] = {}
      BY <1>1, <1>2
    <3>2. \A l \in Level : ~(qty'[s][l] > 0)
      BY <1>12, <2>1
    <3> QED BY <3>1, <3>2
  <2> QED BY <2>1 DEF OccInv, Group
<1>15. BestInv'
  <2>1. ASSUME NEW s \in Side
        PROVE  [i \in DOMAIN Peak(s)' |->
                  [px |-> PriceOf(Peak(s)'[i]), qty |-> qty'[s][Peak(s)'[i]]]] = <<>>
    <3>1. Peak(s)' = <<>>
      BY <1>1, <1>2 DEF Peak
    <3> QED BY <3>1
  <2>2. PeakTop' = Empty
    BY <2>1 DEF PeakTop, PriceOf, Empty
  <2> QED BY <1>2, <2>2 DEF BestInv
<1> QED BY <1>7, <1>9, <1>10, <1>11, <1>13, <1>14, <1>15 DEF LadderInv

(* What the memories hold after any clock.                                 *)
LEMMA WrittenType ==
    ASSUME LadderInv
    PROVE  Written \in [Side -> [Level -> Nat]]
<1>1. qty \in [Side -> [Level -> Nat]]
  BY DEF LadderInv, LadderType
<1>2. CASE ClrBusy
  <2>1. Written = [s \in Side |-> [qty[s] EXCEPT ![clrAddr] = 0]]
    BY <1>2 DEF Written
  <2>2. \A s \in Side : [qty[s] EXCEPT ![clrAddr] = 0] \in [Level -> Nat]
    BY <1>1
  <2> QED BY <2>1, <2>2
<1>3. CASE ~ClrBusy /\ lstate = "REMW"
  <2>1. lstate \in Adding /\ lstate \in Removing
    BY <1>3 DEF Adding, Removing
  <2>2. PICK r \in [side : Side, rem : LevelPart, add : LevelPart] :
             /\ rec = <<r>> /\ Head(rec) = r /\ rec[1] = r /\ rec # <<>>
             /\ r.side \in Side /\ r.rem \in LevelPart /\ r.add \in LevelPart
    BY <2>1, RecordFacts
  <2>3. CASE r.rem = <<>>
    BY <1>1, <1>3, <2>2, <2>3 DEF Written
  <2>4. CASE r.rem # <<>>
    <3>1. r.rem[1].idx \in Level /\ r.rem[1].qty \in Nat
      BY <2>2, <2>4, LevelTypes
    <3>2. remNew = qty[r.side][r.rem[1].idx] - r.rem[1].qty
      BY <1>3, <2>2, <2>4 DEF LadderInv, ReadInv
    <3>3. ToTake(r.side, r.rem[1].idx) = r.rem[1].qty
      BY <2>1, <2>2, <2>4, <3>1, ToCome DEF PartAtLevel
    <3>4. r.rem[1].qty <= qty[r.side][r.rem[1].idx] /\ qty[r.side][r.rem[1].idx] \in Nat
      BY <1>1, <1>3, <2>2, <3>1, <3>3 DEF LadderInv, QtyInv
    <3>5. remNew \in Nat
      BY <3>1, <3>2, <3>4
    <3>6. Written = [qty EXCEPT ![r.side][r.rem[1].idx] = remNew]
      BY <1>3, <2>2, <2>4 DEF Written
    <3> QED BY <1>1, <2>2, <3>1, <3>5, <3>6
  <2> QED BY <2>3, <2>4
<1>4. CASE ~ClrBusy /\ lstate = "ADD"
  <2>1. lstate \in Adding
    BY <1>4 DEF Adding, Removing
  <2>2. PICK r \in [side : Side, rem : LevelPart, add : LevelPart] :
             /\ rec = <<r>> /\ Head(rec) = r /\ rec[1] = r /\ rec # <<>>
             /\ r.side \in Side /\ r.rem \in LevelPart /\ r.add \in LevelPart
    BY <2>1, RecordFacts
  <2>3. CASE r.add = <<>>
    BY <1>1, <1>4, <2>2, <2>3 DEF Written
  <2>4. CASE r.add # <<>>
    <3>1. r.add[1].idx \in Level /\ r.add[1].qty \in Nat
      BY <2>2, <2>4, LevelTypes
    <3>2. (IF r.rem # <<>> /\ r.rem[1].idx = r.add[1].idx THEN remNew ELSE rdata[r.side])
            = qty[r.side][r.add[1].idx]
      BY <1>4, <2>2, <2>4 DEF LadderInv, ReadInv
    <3>3. Sum(r) = qty[r.side][r.add[1].idx] + r.add[1].qty
      BY <3>2 DEF Sum
    <3>4. qty[r.side][r.add[1].idx] \in Nat
      BY <1>1, <2>2, <3>1
    <3>5. Sum(r) \in Nat
      BY <3>1, <3>3, <3>4
    <3>6. Written = [qty EXCEPT ![r.side][r.add[1].idx] = Sum(r)]
      BY <1>4, <2>2, <2>4 DEF Written
    <3> QED BY <1>1, <2>2, <3>1, <3>5, <3>6
  <2> QED BY <2>3, <2>4
<1>5. CASE ~ClrBusy /\ lstate \notin {"REMW", "ADD"}
  BY <1>1, <1>5 DEF Written
<1> QED BY <1>2, <1>3, <1>4, <1>5

LEMMA ResetStep ==
    ASSUME LadderInv, LadderReset, resting' = NoOrders
    PROVE  LadderInv'
<1>1. /\ clrAddr' = 0 /\ lstate' = "IDLE" /\ ladBbo' = Empty
      /\ occ' = [s \in Side |-> {}] /\ gany' = [s \in Side |-> {}]
  BY DEF LadderReset, SweepOver
<1>2. qty' \in [Side -> [Level -> Nat]]
  BY WrittenType DEF LadderReset, Memories
<1>3. ClrBusy'
  BY <1>1, Constants DEF ClrBusy
<1>4. LadderType'
  <2>1. clrAddr' \in 0..Levels
    BY <1>1, Constants
  <2> QED BY <1>1, <1>2, <2>1, NothingRests DEF LadderType, States
<1>5. ClearInv'
  <2>1. \A s \in Side, l \in Level : ~(l < clrAddr')
    BY <1>1, Constants
  <2> QED BY <1>1, <2>1 DEF ClearInv, NoOrders, Empty
<1>6. QtyInv' /\ OccInv' /\ BestInv'
  BY <1>1, <1>3 DEF QtyInv, OccInv, BestInv
<1>7. RecInv' /\ ReadInv'
  BY <1>1 DEF RecInv, ReadInv, Removing, Adding
<1>8. TopInBand(resting)'
  BY NothingRests DEF TopInBand, TopOf, HeldAt, InBand
<1> QED BY <1>4, <1>5, <1>6, <1>7, <1>8 DEF LadderInv

LEMMA LadderStart == Init => LadderInv
<1> SUFFICES ASSUME Init PROVE LadderInv
  OBVIOUS
<1>1. /\ clrAddr = 0 /\ lstate = "IDLE" /\ ladBbo = Empty /\ resting = NoOrders
      /\ occ = [s \in Side |-> {}] /\ gany = [s \in Side |-> {}]
      /\ qty = [s \in Side |-> [l \in Level |-> 0]]
  BY DEF Init, LadderInit
<1>2. ClrBusy
  BY <1>1, Constants DEF ClrBusy
<1>3. LadderType
  <2>1. clrAddr \in 0..Levels
    BY <1>1, Constants
  <2> QED BY <1>1, <2>1, NothingRests DEF LadderType, States
<1>4. ClearInv /\ QtyInv /\ OccInv /\ BestInv
  BY <1>1, <1>2 DEF ClearInv, QtyInv, OccInv, BestInv
<1>5. RecInv /\ ReadInv
  BY <1>1 DEF RecInv, ReadInv, Removing, Adding
<1> QED BY <1>1, <1>3, <1>4, <1>5, NothingRests DEF LadderInv

LEMMA LadderStutters ==
    ASSUME LadderInv, UNCHANGED vars
    PROVE  LadderInv'
<1>1. /\ UNCHANGED <<clrAddr, qty, rdata, occ, gany, lstate, rec, remNew, best, top, ladBbo>>
      /\ resting' = resting
  BY DEF vars, ladderVars, envVars
<1>2. LadderType' /\ ClearInv'
  BY <1>1 DEF LadderInv, LadderType, ClearInv, ClrBusy, NoOrders, Empty
<1>3. RecInv' /\ ReadInv'
  BY <1>1 DEF LadderInv, RecInv, ReadInv
<1>4. \A s \in Side, l \in Level :
        /\ ToTake(s, l)' = ToTake(s, l) /\ ToAdd(s, l)' = ToAdd(s, l) /\ Rest(s, l)' = Rest(s, l)
  BY <1>1 DEF ToTake, ToAdd, Rest
<1>5. QtyInv' /\ OccInv'
  BY <1>1, <1>4 DEF LadderInv, QtyInv, OccInv, ClrBusy
<1>6. \A s \in Side : Peak(s)' = Peak(s)
  BY <1>1 DEF Peak
<1>7. PeakTop' = PeakTop
  BY <1>1, <1>6 DEF PeakTop, PriceOf
<1>8. BestInv'
  BY <1>1, <1>6, <1>7 DEF LadderInv, BestInv, ClrBusy
<1>9. TopInBand(resting)'
  BY <1>1 DEF LadderInv, TopInBand, TopOf, HeldAt, InBand
<1> QED BY <1>2, <1>3, <1>5, <1>8, <1>9 DEF LadderInv

(* A clock in which nothing is accepted.                                   *)
LEMMA LadderIdles ==
    ASSUME LadderInv, LadderTick(<<>>), resting' = resting
    PROVE  LadderInv'
<1>1. CASE ClrBusy
  BY <1>1, ClearStep DEF LadderTick
<1>2. CASE ~ClrBusy
  <2>1. LadderStep(<<>>) /\ clrAddr' = clrAddr /\ Memories
    BY <1>2 DEF LadderTick
  <2> QED BY <1>2, <2>1, IdleStep, SubtractStep, DivideStep, ReadStep, RemoveStep,
             WriteRemovalStep, AddStep, FindBestStep, ReadBestStep, PriceStep, PublishStep
          DEF LadderStep
<1> QED BY <1>1, <1>2

(* What a clock does when a delta is accepted.                             *)
LEMMA TakeIsAccept ==
    ASSUME LadderReady, NEW d, LadderTick(<<d>>)
    PROVE  Accept(<<d>>) /\ clrAddr' = clrAddr /\ Memories
  BY DEF LadderTick, LadderStep, LadderReady, Accept, Subtract, Divide, Wait, Remove,
         WriteRemoval, Add, FindBest, Price, Publish

LEMMA LadderNext == LadderInv /\ [Next]_vars => LadderInv'
<1> SUFFICES ASSUME LadderInv, [Next]_vars PROVE LadderInv'
  OBVIOUS
<1>1. CASE Idle
  BY <1>1, LadderIdles DEF Idle, Clock
<1>2. CASE Take
  <2>1. PICK d \in Delta : LadderReady /\ Legal(d) /\ Clock(<<d>>)
    BY <1>2 DEF Take
  <2>2. LadderTick(<<d>>) /\ resting' = Applied(d)
    BY <2>1 DEF Clock
  <2> QED BY <2>1, <2>2, TakeIsAccept, AcceptStep
<1>3. CASE Reset
  BY <1>3, ResetStep DEF Reset
<1>4. CASE UNCHANGED vars
  BY <1>4, LadderStutters
<1> QED BY <1>1, <1>2, <1>3, <1>4 DEF Next

(* When nothing of a delta is still to come, the top of what the memories  *)
(* hold is the top of the book: levels and prices in the band correspond,  *)
(* in the same order, and no price outside it is the best.                 *)
LEMMA PeakIsTop ==
    ASSUME LadderInv, ~ClrBusy,
           \A s \in Side, l \in Level : ToTake(s, l) = 0 /\ ToAdd(s, l) = 0
    PROVE  PeakTop = Top
<1>1. \A s \in Side, l \in Level : Rest(s, l) = qty[s][l] /\ qty[s][l] \in Nat
  <2>1. ASSUME NEW s \in Side, NEW l \in Level
        PROVE  Rest(s, l) = qty[s][l] /\ qty[s][l] \in Nat
    <3>1. Rest(s, l) = (qty[s][l] - ToTake(s, l)) + ToAdd(s, l) /\ qty[s][l] \in Nat
      BY DEF LadderInv, LadderType, QtyInv
    <3>2. ToTake(s, l) = 0 /\ ToAdd(s, l) = 0
      OBVIOUS
    <3> QED BY <3>1, <3>2
  <2> QED BY <2>1
<1>2. PICK n \in Nat : \A p \in Prices : p <= n
  BY PricesBounded
<1>3. ASSUME NEW s \in Side
      PROVE  [i \in DOMAIN Peak(s) |-> [px |-> PriceOf(Peak(s)[i]), qty |-> qty[s][Peak(s)[i]]]]
               = Top[s]
  <2> DEFINE held == HeldAt(resting, s)
             p == Outermost(s, held)
             i == IndexOf(p)
  <2>1. /\ held \subseteq Prices /\ held \in SUBSET Nat
        /\ \A q \in Prices : q \in held <=> resting[s][q] > 0
    BY BookAssumption DEF HeldAt
  <2>2. Top[s] = IF held = {} THEN <<>> ELSE <<[px |-> p, qty |-> resting[s][p]]>>
    BY DEF Top, TopOf
  <2>3. \A l \in Level : l \in occ[s] <=> PriceOf(l) \in held
    <3>1. occ[s] = {l \in Level : qty[s][l] > 0}
      BY DEF LadderInv, OccInv
    <3> QED BY <1>1, <2>1, <3>1 DEF Rest
  <2>4. occ[s] \subseteq Level
    BY DEF LadderInv, LadderType
  <2>5. CASE held = {}
    <3>1. occ[s] = {}
      BY <2>3, <2>4, <2>5
    <3>2. Peak(s) = <<>>
      BY <3>1 DEF Peak
    <3> QED BY <2>2, <2>5, <3>2
  <2>6. CASE held # {}
    <3>1. p \in held /\ \A q \in held : Beyond(s, p, q)
      <4> HIDE DEF held
      <4> QED BY <1>2, <2>1, <2>6, OutermostIs
    <3>2. InBand(p)
      <4>1. InBand(TopOf(resting)[s][1].px)
        BY <2>6 DEF LadderInv, TopInBand
      <4>2. Top[s][1].px = p
        BY <2>2, <2>6
      <4> QED BY <4>1, <4>2 DEF Top
    <3>3. i \in Level /\ PriceOf(i) = p
      BY <2>1, <3>1, <3>2, LevelOfPrice
    <3>4. i \in occ[s]
      BY <2>3, <3>1, <3>3
    <3>5. ASSUME NEW y \in occ[s] PROVE Beyond(s, i, y)
      <4>1. y \in Level /\ PriceOf(y) \in held
        BY <2>3, <2>4
      <4>2. Beyond(s, PriceOf(i), PriceOf(y))
        BY <3>1, <3>3, <4>1
      <4>3. /\ i <= y => PriceOf(i) <= PriceOf(y)
            /\ y <= i => PriceOf(y) <= PriceOf(i)
            /\ PriceOf(i) \in Nat /\ PriceOf(y) \in Nat /\ i \in Nat /\ y \in Nat
            /\ PriceOf(i) = PriceOf(y) => i = y
        <5>1. PriceOf(i) = PriceOf(y) => i = y
          BY <3>3, <4>1, PriceOfLevel
        <5>2. i \in Nat /\ y \in Nat
          BY <3>3, <4>1, Constants
        <5> HIDE DEF i, p, held
        <5> QED BY <3>3, <4>1, <5>1, <5>2, PriceOrder, PriceOfLevel
      <4> HIDE DEF i, p, held
      <4> QED BY <4>2, <4>3 DEF Beyond
    <3>6. Outermost(s, occ[s]) = i
      <4>1. Levels - 1 \in Nat /\ \A l \in occ[s] : l \in Nat /\ l <= Levels - 1
        BY <2>4, Constants DEF Level
      <4> HIDE DEF i, p, held
      <4> QED BY <3>4, <3>5, <4>1, OutermostIs
    <3>7. Peak(s) = <<i>>
      BY <3>4, <3>6 DEF Peak
    <3>8. qty[s][i] = resting[s][p]
      BY <1>1, <2>1, <3>1, <3>3 DEF Rest
    <3>9. [j \in DOMAIN Peak(s) |-> [px |-> PriceOf(Peak(s)[j]), qty |-> qty[s][Peak(s)[j]]]]
            = <<[px |-> p, qty |-> resting[s][p]]>>
      <4> HIDE DEF i, p, held
      <4>1. DOMAIN Peak(s) = 1..1 /\ Peak(s)[1] = i
        BY <3>7
      <4>2. [j \in DOMAIN Peak(s) |-> [px |-> PriceOf(Peak(s)[j]), qty |-> qty[s][Peak(s)[j]]]]
              = [j \in 1..1 |-> [px |-> p, qty |-> resting[s][p]]]
        BY <3>3, <3>8, <4>1
      <4> QED BY <4>2
    <3> QED BY <2>2, <2>6, <3>9
  <2> QED BY <2>5, <2>6
<1>4. Top = [s \in Side |-> Top[s]]
  BY DEF Top, TopOf
<1> QED BY <1>3, <1>4 DEF PeakTop

LEMMA LadderAtRest ==
    ASSUME LadderInv, LadderReady
    PROVE  ladBbo = Top
<1>1. lstate = "IDLE" /\ ~ClrBusy
  BY DEF LadderReady
<1>2. \A s \in Side, l \in Level : ToTake(s, l) = 0 /\ ToAdd(s, l) = 0
  BY <1>1 DEF ToTake, ToAdd, Priced, Removing, Adding
<1>3. PeakTop = Top
  BY <1>1, <1>2, PeakIsTop
<1> QED BY <1>1, <1>3 DEF LadderInv, BestInv

(* Whatever deltas came, and however often the ladder was reset, at rest   *)
(* its record is the top of the book (price_ladder.sv): the pipeline, the  *)
(* forwarding, the occupancy, its summary and the sweep lose nothing.      *)
THEOREM LadderShowsTheBook == Spec => []LadderIsRight
<1>1. LadderInv => LadderIsRight
  BY LadderAtRest DEF LadderIsRight
<1> QED BY <1>1, LadderStart, LadderNext, PTL DEF Spec

(************************** the early answer *******************************)

(* One side after a delta: what rests at each price.                       *)
LEMMA AppliedIs ==
    ASSUME resting \in [Side -> [Prices -> Nat]], NEW d \in Delta, Legal(d)
    PROVE  /\ \A s \in Side, p \in Prices : Applied(d)[s][p] =
                IF d.side = s THEN (resting[s][p] - QtyAt(d.rem, p)) + QtyAt(d.add, p)
                ELSE resting[s][p]
           /\ \A p \in Prices : /\ QtyAt(d.rem, p) \in Nat /\ QtyAt(d.add, p) \in Nat
                                /\ QtyAt(d.rem, p) <= resting[d.side][p]
           /\ d.side \in Side /\ d.rem \in Owed /\ d.add \in Owed
<1>1. d.side \in Side /\ d.rem \in Owed /\ d.add \in Owed
  BY DEF Delta, Owed
<1>2. ASSUME NEW p \in Prices
      PROVE  /\ QtyAt(d.rem, p) \in Nat /\ QtyAt(d.add, p) \in Nat
             /\ QtyAt(d.rem, p) <= resting[d.side][p]
  <2>1. resting[d.side][p] \in Nat
    BY <1>1
  <2>2. QtyAt(d.rem, p) \in Nat /\ QtyAt(d.add, p) \in Nat
    BY <1>1, OwedTypes DEF QtyAt
  <2>3. d.rem # <<>> => d.rem[1].qty <= resting[d.side][d.rem[1].px]
    BY DEF Legal
  <2> QED BY <2>1, <2>2, <2>3 DEF QtyAt
<1>3. Applied(d) = [resting EXCEPT ![d.side] =
          [p \in Prices |-> (resting[d.side][p] - QtyAt(d.rem, p)) + QtyAt(d.add, p)]]
  BY DEF Applied
<1>4. ASSUME NEW s \in Side, NEW p \in Prices
      PROVE  Applied(d)[s][p] =
               IF d.side = s THEN (resting[s][p] - QtyAt(d.rem, p)) + QtyAt(d.add, p)
               ELSE resting[s][p]
  BY <1>1, <1>3
<1> QED BY <1>1, <1>2, <1>4

(* The top of a side, once its outermost price is known.                   *)
LEMMA TopIs ==
    ASSUME NEW book, NEW s \in Side, NEW p \in Prices, book[s][p] > 0,
           \A q \in Prices : book[s][q] > 0 => Beyond(s, p, q)
    PROVE  TopOf(book)[s] = <<[px |-> p, qty |-> book[s][p]]>>
<1>1. PICK n \in Nat : \A q \in Prices : q <= n
  BY PricesBounded
<1> DEFINE held == HeldAt(book, s)
<1>2. /\ held \in SUBSET Nat /\ p \in held /\ held # {} /\ \A q \in held : q <= n
      /\ \A q \in held : Beyond(s, p, q)
  BY <1>1, BookAssumption DEF HeldAt
<1>3. Outermost(s, held) = p
  <2> HIDE DEF held
  <2> QED BY <1>2, OutermostIs
<1> QED BY <1>2, <1>3 DEF TopOf

(* And what it says of the book.                                           *)
LEMMA TopSays ==
    ASSUME NEW book \in [Side -> [Prices -> Nat]], NEW s \in Side
    PROVE  \/ TopOf(book)[s] = <<>> /\ \A q \in Prices : book[s][q] = 0
           \/ \E p \in Prices :
                /\ TopOf(book)[s] = <<[px |-> p, qty |-> book[s][p]]>>
                /\ book[s][p] > 0 /\ \A q \in Prices : book[s][q] > 0 => Beyond(s, p, q)
<1>1. PICK n \in Nat : \A q \in Prices : q <= n
  BY PricesBounded
<1> DEFINE held == HeldAt(book, s)
<1>2. /\ held \in SUBSET Nat /\ held \subseteq Prices /\ \A q \in held : q <= n
      /\ \A q \in Prices : q \in held <=> book[s][q] > 0
  BY <1>1, BookAssumption DEF HeldAt
<1>3. CASE held = {}
  <2>1. TopOf(book)[s] = <<>>
    BY <1>3 DEF TopOf
  <2>2. \A q \in Prices : book[s][q] = 0
    <3>1. \A q \in Prices : book[s][q] \in Nat /\ ~(book[s][q] > 0)
      BY <1>2, <1>3
    <3> QED BY <3>1
  <2> QED BY <2>1, <2>2
<1>4. CASE held # {}
  <2> DEFINE p == Outermost(s, held)
  <2>1. p \in held /\ \A q \in held : Beyond(s, p, q)
    <3> HIDE DEF held
    <3> QED BY <1>1, <1>2, <1>4, OutermostIs
  <2>2. TopOf(book)[s] = <<[px |-> p, qty |-> book[s][p]]>>
    BY <1>4 DEF TopOf
  <2> HIDE DEF p, held
  <2> QED BY <1>2, <2>1, <2>2
<1> QED BY <1>3, <1>4

(* What fast_bbo says with certainty is the top of the book after the      *)
(* delta, when it knew the top before (fast_bbo.sv).                       *)
LEMMA AnswerIsTop ==
    ASSUME resting \in [Side -> [Prices -> Nat]], NEW d \in Delta, Legal(d), NEW lad,
           Known(lad) = Top, ~Defers(d, lad)
    PROVE  Answer(d, lad) = TopOf(Applied(d))
<1> DEFINE s   == d.side
           cur == Top[s]
<1>1. /\ \A t \in Side, p \in Prices : Applied(d)[t][p] =
           IF s = t THEN (resting[t][p] - QtyAt(d.rem, p)) + QtyAt(d.add, p)
           ELSE resting[t][p]
      /\ \A p \in Prices : /\ QtyAt(d.rem, p) \in Nat /\ QtyAt(d.add, p) \in Nat
                           /\ QtyAt(d.rem, p) <= resting[s][p] /\ resting[s][p] \in Nat
      /\ s \in Side /\ d.rem \in Owed /\ d.add \in Owed
  BY AppliedIs
<1>2. /\ d.add # <<>> => /\ d.add[1].px \in Prices /\ d.add[1].qty \in Nat \ {0}
                         /\ \E q \in Prices, n \in Nat : d.add = <<[px |-> q, qty |-> n]>>
      /\ d.rem # <<>> => d.rem[1].px \in Prices /\ d.rem[1].qty \in Nat \ {0}
  BY <1>1, OwedTypes
<1>3. \/ cur = <<>> /\ \A q \in Prices : resting[s][q] = 0
      \/ \E p \in Prices :
           /\ cur = <<[px |-> p, qty |-> resting[s][p]]>>
           /\ resting[s][p] > 0 /\ \A q \in Prices : resting[s][q] > 0 => Beyond(s, p, q)
  BY <1>1, TopSays DEF Top
<1>4. ~(RemEmpties(d, cur) /\ ~AddImproves(d, cur))
  BY DEF Defers
<1>5. Answer(d, lad) = [Top EXCEPT ![s] =
          IF AddImproves(d, cur) THEN d.add
          ELSE [i \in DOMAIN cur |-> [cur[i] EXCEPT !.qty = NetQty(d, cur)]]]
  BY DEF Answer
<1>6. Prices \subseteq Nat
  BY BookAssumption
<1> HIDE DEF s, cur
<1>7. (IF AddImproves(d, cur) THEN d.add
       ELSE [i \in DOMAIN cur |-> [cur[i] EXCEPT !.qty = NetQty(d, cur)]])
         = TopOf(Applied(d))[s]
  <2>1. CASE AddImproves(d, cur)
    <3>1. PICK a \in Prices, n \in Nat : d.add = <<[px |-> a, qty |-> n]>>
      BY <1>2, <2>1 DEF AddImproves
    <3>2. d.add[1].px = a /\ d.add[1].qty = n /\ d.add # <<>> /\ n > 0
      <4>1. d.add[1].px = a /\ d.add[1].qty = n /\ d.add # <<>>
        BY <3>1
      <4> QED BY <1>2, <4>1
    <3>3. cur = <<>> \/ Beats(s, a, cur[1].px)
      BY <2>1, <3>2 DEF AddImproves, s
    <3>4. \A q \in Prices : resting[s][q] > 0 => Beyond(s, a, q) /\ q # a
      <4>1. CASE cur = <<>> /\ \A q \in Prices : resting[s][q] = 0
        BY <4>1
      <4>2. CASE \E p \in Prices :
                   /\ cur = <<[px |-> p, qty |-> resting[s][p]]>>
                   /\ \A q \in Prices : resting[s][q] > 0 => Beyond(s, p, q)
        <5>1. PICK p \in Prices : /\ cur = <<[px |-> p, qty |-> resting[s][p]]>>
                                  /\ \A q \in Prices : resting[s][q] > 0 => Beyond(s, p, q)
          BY <4>2
        <5>2. cur # <<>> /\ cur[1].px = p
          BY <5>1
        <5>3. Beats(s, a, p)
          BY <3>3, <5>2
        <5> QED BY <1>6, <5>1, <5>3 DEF Beats, Beyond
      <4> QED BY <1>3, <4>1, <4>2
    <3>5. resting[s][a] = 0 /\ QtyAt(d.rem, a) = 0 /\ QtyAt(d.add, a) = n
      <4>1. resting[s][a] \in Nat /\ ~(resting[s][a] > 0) /\ QtyAt(d.rem, a) \in Nat
        BY <1>1, <3>4
      <4>2. QtyAt(d.rem, a) <= resting[s][a]
        BY <1>1
      <4>3. QtyAt(d.add, a) = n
        BY <3>2 DEF QtyAt
      <4> QED BY <4>1, <4>2, <4>3
    <3>6. Applied(d)[s][a] = n
      BY <1>1, <3>5
    <3>7. ASSUME NEW q \in Prices, Applied(d)[s][q] > 0 PROVE Beyond(s, a, q)
      <4>1. CASE q = a
        BY <1>6, <4>1 DEF Beyond
      <4>2. CASE q # a
        <5>1. QtyAt(d.add, q) = 0
          BY <3>2, <4>2 DEF QtyAt
        <5>2. Applied(d)[s][q] = (resting[s][q] - QtyAt(d.rem, q)) + QtyAt(d.add, q)
          BY <1>1
        <5>3. /\ resting[s][q] \in Nat /\ QtyAt(d.rem, q) \in Nat
          BY <1>1
        <5>4. resting[s][q] > 0
          BY <3>7, <5>1, <5>2, <5>3
        <5> QED BY <3>4, <5>4
      <4> QED BY <4>1, <4>2
    <3>8. TopOf(Applied(d))[s] = <<[px |-> a, qty |-> Applied(d)[s][a]]>>
      <4>1. Applied(d)[s][a] > 0
        BY <3>2, <3>6
      <4> QED BY <1>1, <3>7, <4>1, TopIs
    <3> QED BY <2>1, <3>1, <3>6, <3>8
  <2>2. CASE ~AddImproves(d, cur) /\ cur = <<>>
    <3>1. \A q \in Prices : resting[s][q] = 0
      <4>1. ASSUME NEW p \in Prices PROVE <<>> # <<[px |-> p, qty |-> resting[s][p]]>>
        OBVIOUS
      <4> QED BY <1>3, <2>2, <4>1
    <3>2. d.add = <<>>
      BY <2>2 DEF AddImproves
    <3>3. d.rem # <<>> /\ d.rem[1].qty <= resting[s][d.rem[1].px]
      BY <3>2 DEF Legal, s
    <3> QED BY <1>2, <3>1, <3>3
  <2>3. CASE ~AddImproves(d, cur) /\ cur # <<>>
    <3>1. PICK p \in Prices :
             /\ cur = <<[px |-> p, qty |-> resting[s][p]]>>
             /\ resting[s][p] > 0 /\ \A q \in Prices : resting[s][q] > 0 => Beyond(s, p, q)
      BY <1>3, <2>3
    <3>2. cur[1].px = p /\ cur[1].qty = resting[s][p] /\ DOMAIN cur = 1..1 /\ cur # <<>>
          /\ cur[1] = [px |-> p, qty |-> resting[s][p]]
      BY <3>1
    <3>3. NetQty(d, cur) = (resting[s][p] - QtyAt(d.rem, p)) + QtyAt(d.add, p)
      <4>1. (IF RemHitsBest(d, cur) THEN d.rem[1].qty ELSE 0) = QtyAt(d.rem, p)
        BY <3>2 DEF RemHitsBest, QtyAt
      <4>2. (IF AddAtBest(d, cur) THEN d.add[1].qty ELSE 0) = QtyAt(d.add, p)
        BY <3>2 DEF AddAtBest, QtyAt
      <4> QED BY <3>2, <4>1, <4>2 DEF NetQty
    <3>4. Applied(d)[s][p] = NetQty(d, cur)
      BY <1>1, <3>3
    <3>5. QtyAt(d.rem, p) < resting[s][p]
      <4>1. ~RemEmpties(d, cur)
        BY <1>4, <2>3
      <4>2. (d.rem # <<>> /\ d.rem[1].px = p) => ~(d.rem[1].qty >= resting[s][p])
        BY <3>2, <4>1 DEF RemEmpties, RemHitsBest
      <4>3. resting[s][p] \in Nat
        BY <1>1
      <4> QED BY <1>2, <3>1, <4>2, <4>3 DEF QtyAt
    <3>6. Applied(d)[s][p] > 0
      <4>1. QtyAt(d.rem, p) \in Nat /\ QtyAt(d.add, p) \in Nat /\ resting[s][p] \in Nat
        BY <1>1
      <4> QED BY <3>3, <3>4, <3>5, <4>1
    <3>7. ASSUME NEW q \in Prices, Applied(d)[s][q] > 0 PROVE Beyond(s, p, q)
      <4>1. CASE resting[s][q] > 0
        BY <3>1, <4>1
      <4>2. CASE ~(resting[s][q] > 0)
        <5>1. Applied(d)[s][q] = (resting[s][q] - QtyAt(d.rem, q)) + QtyAt(d.add, q)
          BY <1>1
        <5>2. resting[s][q] \in Nat /\ QtyAt(d.rem, q) \in Nat /\ QtyAt(d.add, q) \in Nat
          BY <1>1
        <5>3. QtyAt(d.add, q) # 0
          BY <3>7, <4>2, <5>1, <5>2
        <5>4. d.add # <<>> /\ d.add[1].px = q
          BY <5>3 DEF QtyAt
        <5>5. ~Beats(s, q, p)
          BY <2>3, <3>2, <5>4 DEF AddImproves, s
        <5> QED BY <1>6, <5>5 DEF Beats, Beyond
      <4> QED BY <4>1, <4>2
    <3>8. TopOf(Applied(d))[s] = <<[px |-> p, qty |-> NetQty(d, cur)]>>
      BY <1>1, <3>4, <3>6, <3>7, TopIs
    <3>9. [i \in DOMAIN cur |-> [cur[i] EXCEPT !.qty = NetQty(d, cur)]]
            = <<[px |-> p, qty |-> NetQty(d, cur)]>>
      <4>1. [cur[1] EXCEPT !.qty = NetQty(d, cur)] = [px |-> p, qty |-> NetQty(d, cur)]
        BY <3>2
      <4>2. [i \in DOMAIN cur |-> [cur[i] EXCEPT !.qty = NetQty(d, cur)]]
              = [i \in 1..1 |-> [px |-> p, qty |-> NetQty(d, cur)]]
        BY <3>2, <4>1
      <4> QED BY <4>2
    <3> QED BY <2>3, <3>8, <3>9
  <2> QED BY <2>1, <2>2, <2>3
<1>8. ASSUME NEW t \in Side, t # s PROVE TopOf(Applied(d))[t] = Top[t]
  <2>1. Applied(d)[t] = resting[t]
    BY <1>1, <1>8 DEF Applied, s
  <2> QED BY <2>1 DEF TopOf, Top, HeldAt
<1>9. Top = [t \in Side |-> Top[t]] /\ TopOf(Applied(d)) = [t \in Side |-> TopOf(Applied(d))[t]]
  BY DEF Top, TopOf
<1> DEFINE x == TopOf(Applied(d))
<1>10. Answer(d, lad) = [Top EXCEPT ![s] = x[s]]
  BY <1>5, <1>7
<1> HIDE DEF x
<1>11. x = [t \in Side |-> x[t]] /\ \A t \in Side : t # s => x[t] = Top[t]
  BY <1>8, <1>9 DEF x
<1>12. [Top EXCEPT ![s] = x[s]] = x
  BY <1>1, <1>9, <1>11
<1> QED BY <1>10, <1>12 DEF x

(************************ one clock of the three ***************************)

BookInv == LadderInv /\ FastInv /\ MergeInv

(* What one clock does to the state of the ladder and its record.          *)
LEMMA LadderMoves ==
    ASSUME LadderInv, NEW delta, LadderTick(delta), delta # <<>> => LadderReady
    PROVE  /\ lstate = "IDLE" => /\ lstate' \in {"IDLE", "SUB"} /\ ladBbo' = ladBbo
                                 /\ delta # <<>> => lstate' = "SUB"
           /\ lstate = "SUB" => lstate' = "IDX" /\ ladBbo' = ladBbo
           /\ lstate \notin {"IDLE", "SUB", "OUT"} =>
                lstate' \notin {"IDLE", "SUB"} /\ ladBbo' = ladBbo
           /\ lstate = "OUT" => lstate' = "IDLE" /\ ladBbo' = top
           /\ ladValid' <=> (lstate = "OUT" /\ top # ladBbo)
           /\ ClrBusy' => ClrBusy
           /\ ClrBusy => lstate = "IDLE"
<1>1. ladValid' <=> (lstate = "OUT" /\ top # ladBbo)
  BY DEF LadderTick
<1>2. ClrBusy => lstate = "IDLE"
  BY DEF LadderInv, ClearInv
<1>3. lstate \in States
  BY DEF LadderInv, LadderType
<1>4. CASE ClrBusy
  <2>1. lstate' = "IDLE" /\ ladBbo' = ladBbo /\ delta = <<>>
    BY <1>2, <1>4 DEF LadderTick, ClearLevel, LadderReady
  <2> QED BY <1>1, <1>2, <1>4, <2>1
<1>5. CASE ~ClrBusy
  <2>1. LadderStep(delta) /\ clrAddr' = clrAddr
    BY <1>5 DEF LadderTick
  <2>2. ~ClrBusy'
    BY <1>5, <2>1 DEF ClrBusy
  <2>3. CASE Accept(delta)
    BY <1>1, <1>5, <2>2, <2>3 DEF Accept, Go
  <2>4. CASE Subtract
    BY <1>1, <1>5, <2>2, <2>4 DEF Subtract, Go
  <2>5. CASE Divide
    BY <1>1, <1>5, <2>2, <2>5 DEF Divide, Go
  <2>6. CASE Wait("RD", "REM") \/ Wait("RDQ", "PX")
    BY <1>1, <1>5, <2>2, <2>6 DEF Wait, Go
  <2>7. CASE Remove
    BY <1>1, <1>5, <2>2, <2>7 DEF Remove, Go
  <2>8. CASE WriteRemoval
    BY <1>1, <1>5, <2>2, <2>8 DEF WriteRemoval, Go
  <2>9. CASE Add
    BY <1>1, <1>5, <2>2, <2>9 DEF Add, Go
  <2>10. CASE FindBest
    BY <1>1, <1>5, <2>2, <2>10 DEF FindBest, Go
  <2>11. CASE Price
    BY <1>1, <1>5, <2>2, <2>11 DEF Price, Go
  <2>12. CASE Publish
    BY <1>1, <1>5, <2>2, <2>12 DEF Publish, Go
  <2> QED BY <2>1, <2>3, <2>4, <2>5, <2>6, <2>7, <2>8, <2>9, <2>10, <2>11, <2>12 DEF LadderStep
<1> QED BY <1>4, <1>5

(* The early answer that is out is certain of the top of the book or of    *)
(* nothing.                                                                *)
LEMMA EarlyAnswer ==
    ASSUME FastInv, fastOut # <<>>
    PROVE  Head(fastOut).certain => Head(fastOut).bbo = Top
<1>1. PICK b : fastOut = <<b>> /\ (b.certain => b.bbo = Top)
  BY DEF FastInv
<1>2. Head(fastOut) = b
  BY <1>1
<1> QED BY <1>1, <1>2

(* What the early answer goes by, unless it defers for being stale.        *)
LEMMA KnownIsTop ==
    ASSUME LadderInv, FastInv, ~EffStale(LadRecord)
    PROVE  Known(LadRecord) = Top
<1>1. CASE ladValid
  <2>1. LadRecord = <<ladBbo>>
    BY <1>1 DEF LadRecord
  <2>2. Known(LadRecord) = ladBbo
    <3>1. <<ladBbo>> # <<>> /\ Head(<<ladBbo>>) = ladBbo
      OBVIOUS
    <3> QED BY <2>1, <3>1 DEF Known
  <2>3. LadderReady
    BY <1>1 DEF FastInv, LadderReady
  <2> QED BY <2>2, <2>3, LadderAtRest
<1>2. CASE ~ladValid
  BY <1>2 DEF LadRecord, Known, EffStale, FastInv
<1> QED BY <1>1, <1>2

LEMMA FastIdles ==
    ASSUME LadderInv, FastInv, LadderTick(<<>>), FastTick(<<>>, LadRecord), resting' = resting
    PROVE  FastInv'
<1>1. shadow' = Known(LadRecord) /\ stale' = EffStale(LadRecord) /\ fastOut' = <<>>
  BY DEF FastTick
<1>2. ladValid' <=> (lstate = "OUT" /\ top # ladBbo)
  BY LadderMoves
<1>3. ClrBusy' => stale'
  <2>1. ClrBusy' => ClrBusy
    BY LadderMoves
  <2>2. ClrBusy => stale /\ ~ladValid
    BY DEF FastInv
  <2> QED BY <1>1, <2>1, <2>2 DEF EffStale, LadRecord
<1>4. ladValid' => lstate' = "IDLE" /\ ~ClrBusy'
  <2>1. lstate = "OUT" => ~ClrBusy /\ lstate' = "IDLE"
    BY LadderMoves
  <2>2. ClrBusy' => ClrBusy
    BY LadderMoves
  <2> QED BY <1>2, <2>1, <2>2
<1>5. ~stale' => shadow' = Top'
  <2>1. Top' = Top
    BY DEF Top, TopOf, HeldAt
  <2> QED BY <1>1, <2>1, KnownIsTop
<1> QED BY <1>1, <1>3, <1>4, <1>5 DEF FastInv

LEMMA FastTakes ==
    ASSUME LadderInv, FastInv, LadderReady, NEW d \in Delta, Legal(d), LadderTick(<<d>>),
           FastTick(<<d>>, LadRecord), resting' = Applied(d)
    PROVE  FastInv'
<1>1. lstate' = "SUB" /\ ~ladValid' /\ ~ClrBusy'
  <2>1. <<d>> # <<>>
    OBVIOUS
  <2>2. lstate = "IDLE" /\ ~ClrBusy
    BY DEF LadderReady
  <2> QED BY <2>1, <2>2, LadderMoves
<1>2. CASE Defers(d, LadRecord)
  <2>1. stale' = TRUE /\ \E b : fastOut' = <<b>> /\ ~b.certain
    <3> DEFINE b == [certain |-> FALSE, bbo |-> Known(LadRecord)]
    <3>1. <<d>> # <<>> /\ Head(<<d>>) = d /\ ~b.certain
      OBVIOUS
    <3>2. stale' = TRUE /\ fastOut' = <<b>>
      BY <1>2, <3>1 DEF FastTick
    <3> QED BY <3>1, <3>2
  <2> QED BY <1>1, <2>1 DEF FastInv
<1>3. CASE ~Defers(d, LadRecord)
  <2>1. ~EffStale(LadRecord)
    BY <1>3 DEF Defers
  <2>2. Answer(d, LadRecord) = TopOf(Applied(d))
    BY <1>3, <2>1, KnownIsTop, AnswerIsTop DEF LadderInv, LadderType
  <2>3. Top' = TopOf(Applied(d))
    <3>1. PICK b : b = Applied(d)
      OBVIOUS
    <3>2. resting' = b
      BY <3>1
    <3>3. Top' = TopOf(b)
      BY <3>2 DEF Top, TopOf, HeldAt
    <3> QED BY <3>1, <3>3
  <2> DEFINE a == Answer(d, LadRecord)
  <2>4. shadow' = a /\ fastOut' = <<[certain |-> TRUE, bbo |-> a]>>
    <3>1. <<d>> # <<>> /\ Head(<<d>>) = d
      OBVIOUS
    <3> QED BY <1>3, <3>1 DEF FastTick
  <2>5. a = Top'
    BY <2>2, <2>3
  <2>6. \E b : fastOut' = <<b>> /\ b.bbo = Top'
    <3> HIDE DEF a
    <3>1. [certain |-> TRUE, bbo |-> a].bbo = a
      OBVIOUS
    <3> QED BY <2>4, <2>5, <3>1
  <2> HIDE DEF a
  <2> QED BY <1>1, <2>4, <2>5, <2>6 DEF FastInv
<1> QED BY <1>2, <1>3

(* A record the ladder publishes is the one ahead of it.                   *)
LEMMA LadderPublishesAhead ==
    ASSUME BookInv, ladValid
    PROVE  /\ Ahead = <<ladBbo>>
           /\ IF Emits(fastOut, LadRecord) THEN Head(Offered(fastOut, LadRecord)) = ladBbo
              ELSE emitted = ladBbo
<1>1. \A x : /\ <<x>> # <<>> /\ Head(<<x>>) = x /\ <<>> \o <<x>> = <<x>>
             /\ <<x>> \o <<>> = <<x>>
  OBVIOUS
<1>2. Offered(fastOut, LadRecord) = <<ladBbo>>
  BY <1>1 DEF Offered, LadRecord
<1>3. CASE lead = <<>> /\ emitted # ladBbo
  <2>1. Emits(fastOut, LadRecord)
    <3>1. <<ladBbo>> # <<emitted>>
      BY <1>3
    <3> QED BY <1>1, <1>2, <3>1 DEF Emits
  <2>2. Emitting = <<ladBbo>>
    BY <1>2, <2>1 DEF Emitting
  <2>3. Ahead = <<ladBbo>>
    BY <1>1, <1>3, <2>2 DEF Ahead
  <2> QED BY <1>1, <1>2, <2>1, <2>3
<1>4. CASE lead = <<ladBbo>> /\ emitted = ladBbo
  <2>1. ~Emits(fastOut, LadRecord)
    BY <1>2, <1>4 DEF Emits
  <2>2. Ahead = <<ladBbo>>
    BY <1>1, <1>4, <2>1 DEF Ahead, Emitting
  <2> QED BY <1>4, <2>1, <2>2
<1> QED BY <1>3, <1>4 DEF BookInv, MergeInv

(* What is emitted, and who is ahead of the ladder then.                   *)
LEMMA Rejoin ==
    ASSUME BookInv, MergeTick(fastOut, LadRecord),
           lead' = IF ladValid /\ Ahead # <<>> THEN Tail(Ahead) ELSE Ahead
    PROVE  /\ ladValid => Ahead = <<ladBbo>> /\ lead' = <<>> /\ emitted' = ladBbo
           /\ ~ladValid /\ lstate # "SUB" => lead' = lead /\ emitted' = emitted
           /\ ~ladValid /\ lstate = "SUB" =>
                \/ lead' = <<>> /\ emitted' = ladBbo
                \/ lead' = <<Top>> /\ emitted' = Top /\ Top # ladBbo
<1>1. \A x : /\ <<x>> # <<>> /\ Head(<<x>>) = x /\ Tail(<<x>>) = <<>> /\ <<>> \o <<x>> = <<x>>
             /\ <<x>> \o <<>> = <<x>>
  OBVIOUS
<1>2. emitted' = IF Emits(fastOut, LadRecord) THEN Head(Offered(fastOut, LadRecord)) ELSE emitted
  BY DEF MergeTick
<1>3. ASSUME ladValid PROVE Ahead = <<ladBbo>> /\ lead' = <<>> /\ emitted' = ladBbo
  BY <1>1, <1>2, <1>3, LadderPublishesAhead
<1>4. ASSUME ~ladValid, lstate # "SUB" PROVE lead' = lead /\ emitted' = emitted
  <2>1. fastOut = <<>> /\ LadRecord = <<>>
    BY <1>4 DEF BookInv, FastInv, LadRecord
  <2>2. ~Emits(fastOut, LadRecord)
    BY <2>1 DEF Emits, Offered, FastTake
  <2>3. Ahead = lead \o <<>>
    BY <2>2 DEF Ahead, Emitting
  <2>4. lead = <<>> \/ lead = <<Top>>
    BY <1>4 DEF BookInv, MergeInv
  <2>5. lead \o <<>> = lead
    <3>1. <<>> \o <<>> = <<>>
      OBVIOUS
    <3> QED BY <1>1, <2>4, <3>1
  <2> QED BY <1>2, <1>4, <2>2, <2>3, <2>5
<1>5. ASSUME ~ladValid, lstate = "SUB"
      PROVE  \/ lead' = <<>> /\ emitted' = ladBbo
             \/ lead' = <<Top>> /\ emitted' = Top /\ Top # ladBbo
  <2>1. emitted = ladBbo /\ lead = <<>> /\ LadRecord = <<>>
    BY <1>5 DEF BookInv, MergeInv, LadRecord
  <2>2. lead' = Ahead
    BY <1>5
  <2>3. CASE Emits(fastOut, LadRecord)
    <3>1. FastTake(fastOut, LadRecord) /\ Offered(fastOut, LadRecord) = <<Head(fastOut).bbo>>
      BY <2>1, <2>3 DEF Emits, Offered
    <3>2. Head(fastOut).bbo = Top
      BY <3>1, EarlyAnswer DEF FastTake, BookInv
    <3>3. Offered(fastOut, LadRecord) = <<Top>>
      BY <3>1, <3>2
    <3>4. Top # emitted
      BY <2>3, <3>3 DEF Emits
    <3>5. Ahead = <<Top>>
      BY <1>1, <2>1, <2>3, <3>3 DEF Ahead, Emitting
    <3> QED BY <1>1, <1>2, <2>1, <2>2, <2>3, <3>3, <3>4, <3>5
  <2>4. CASE ~Emits(fastOut, LadRecord)
    <3>1. Ahead = <<>> \o <<>>
      BY <2>1, <2>4 DEF Ahead, Emitting
    <3>2. <<>> \o <<>> = <<>>
      OBVIOUS
    <3> QED BY <1>2, <2>1, <2>2, <2>4, <3>1, <3>2
  <2> QED BY <2>3, <2>4
<1> QED BY <1>3, <1>4, <1>5

(* At the end of its walk the ladder has found the top of the book.        *)
LEMMA FoundTop ==
    ASSUME LadderInv, lstate = "OUT"
    PROVE  top = Top
<1>1. ~ClrBusy
  BY DEF LadderInv, ClearInv
<1>2. \A s \in Side, l \in Level : ToTake(s, l) = 0 /\ ToAdd(s, l) = 0
  BY DEF ToTake, ToAdd, Priced, Removing, Adding
<1>3. PeakTop = Top
  BY <1>1, <1>2, PeakIsTop
<1> QED BY <1>3 DEF LadderInv, BestInv

LEMMA MergeStep ==
    ASSUME BookInv, NEW delta, LadderTick(delta), delta # <<>> => LadderReady,
           MergeTick(fastOut, LadRecord),
           lead' = IF ladValid /\ Ahead # <<>> THEN Tail(Ahead) ELSE Ahead,
           delta = <<>> => resting' = resting
    PROVE  MergeInv'
<1>1. LadderInv /\ MergeInv /\ FastInv
  BY DEF BookInv
<1>2. /\ ladValid => Ahead = <<ladBbo>> /\ lead' = <<>> /\ emitted' = ladBbo
      /\ ~ladValid /\ lstate # "SUB" => lead' = lead /\ emitted' = emitted
      /\ ~ladValid /\ lstate = "SUB" =>
           \/ lead' = <<>> /\ emitted' = ladBbo
           \/ lead' = <<Top>> /\ emitted' = Top /\ Top # ladBbo
  BY Rejoin
<1>3. ladValid => lstate = "IDLE"
  BY <1>1 DEF FastInv
<1>4. ladValid' <=> (lstate = "OUT" /\ top # ladBbo)
  BY <1>1, LadderMoves
<1>5. lstate # "IDLE" => Top' = Top
  <2>1. lstate # "IDLE" => resting' = resting
    BY DEF LadderReady
  <2> QED BY <2>1 DEF Top, TopOf, HeldAt
<1>6. CASE lstate = "IDLE"
  <2>1. lstate' \in {"IDLE", "SUB"} /\ ladBbo' = ladBbo
    BY <1>1, <1>6, LadderMoves
  <2>2. emitted' = ladBbo /\ lead' = <<>>
    BY <1>1, <1>2, <1>6 DEF MergeInv
  <2> QED BY <1>4, <1>6, <2>1, <2>2 DEF MergeInv
<1>7. CASE lstate = "SUB"
  <2>1. lstate' = "IDX" /\ ladBbo' = ladBbo /\ Top' = Top
    BY <1>1, <1>5, <1>7, LadderMoves
  <2> QED BY <1>2, <1>3, <1>4, <1>7, <2>1 DEF MergeInv
<1>8. CASE lstate \notin {"IDLE", "SUB", "OUT"}
  <2>1. lstate' \notin {"IDLE", "SUB"} /\ ladBbo' = ladBbo /\ Top' = Top
    BY <1>1, <1>5, <1>8, LadderMoves
  <2>2. lead' = lead /\ emitted' = emitted
    BY <1>2, <1>3, <1>8
  <2> QED BY <1>1, <1>4, <1>8, <2>1, <2>2 DEF MergeInv
<1>9. CASE lstate = "OUT"
  <2>1. lstate' = "IDLE" /\ ladBbo' = Top
    BY <1>1, <1>9, LadderMoves, FoundTop
  <2>2. lead' = lead /\ emitted' = emitted
    BY <1>2, <1>3, <1>9
  <2>3. ladValid' <=> Top # ladBbo
    BY <1>1, <1>4, <1>9, FoundTop
  <2>4. \/ lead = <<>> /\ emitted = ladBbo
        \/ lead = <<Top>> /\ emitted = Top /\ Top # ladBbo
    BY <1>1, <1>9 DEF MergeInv
  <2> QED BY <2>1, <2>2, <2>3, <2>4 DEF MergeInv
<1> QED BY <1>6, <1>7, <1>8, <1>9

LEMMA BookStart == Init => BookInv
<1> SUFFICES ASSUME Init PROVE BookInv
  OBVIOUS
<1>1. /\ lstate = "IDLE" /\ ladValid = FALSE /\ ladBbo = Empty /\ stale = TRUE
      /\ fastOut = <<>> /\ emitted = [s \in {"bid", "ask"} |-> <<>>] /\ lead = <<>>
  BY DEF Init, LadderInit, FastInit, MergeInit
<1>2. FastInv /\ MergeInv
  BY <1>1 DEF FastInv, MergeInv, Empty, Side
<1> QED BY <1>2, LadderStart DEF BookInv

LEMMA BookNext == BookInv /\ [Next]_vars => BookInv'
<1> SUFFICES ASSUME BookInv, [Next]_vars PROVE BookInv'
  OBVIOUS
<1>1. LadderInv' /\ LadderInv /\ FastInv /\ MergeInv
  BY LadderNext DEF BookInv
<1>2. CASE Idle
  <2>1. /\ LadderTick(<<>>) /\ FastTick(<<>>, LadRecord) /\ MergeTick(fastOut, LadRecord)
        /\ resting' = resting
        /\ lead' = IF ladValid /\ Ahead # <<>> THEN Tail(Ahead) ELSE Ahead
    BY <1>2 DEF Idle, Clock
  <2>2. FastInv'
    BY <1>1, <2>1, FastIdles
  <2>3. MergeInv'
    BY <2>1, MergeStep
  <2> QED BY <1>1, <2>2, <2>3 DEF BookInv
<1>3. CASE Take
  <2>1. PICK d \in Delta : LadderReady /\ Legal(d) /\ Clock(<<d>>)
    BY <1>3 DEF Take
  <2>2. <<d>> # <<>> /\ Head(<<d>>) = d
    OBVIOUS
  <2>3. /\ LadderTick(<<d>>) /\ FastTick(<<d>>, LadRecord) /\ MergeTick(fastOut, LadRecord)
        /\ resting' = Applied(d)
        /\ lead' = IF ladValid /\ Ahead # <<>> THEN Tail(Ahead) ELSE Ahead
    BY <2>1, <2>2 DEF Clock
  <2>4. FastInv'
    BY <1>1, <2>1, <2>3, FastTakes
  <2>5. MergeInv'
    BY <2>1, <2>2, <2>3, MergeStep
  <2> QED BY <1>1, <2>4, <2>5 DEF BookInv
<1>4. CASE Reset
  <2>1. /\ lstate' = "IDLE" /\ ladValid' = FALSE /\ ladBbo' = Empty /\ stale' = TRUE
        /\ fastOut' = <<>> /\ emitted' = [s \in {"bid", "ask"} |-> <<>>] /\ lead' = <<>>
    BY <1>4 DEF Reset, LadderReset, FastReset, MergeReset
  <2>2. FastInv' /\ MergeInv'
    BY <2>1 DEF FastInv, MergeInv, Empty, Side
  <2> QED BY <1>1, <2>2 DEF BookInv
<1>5. CASE UNCHANGED vars
  <2>1. UNCHANGED <<lstate, clrAddr, ladValid, ladBbo, shadow, stale, fastOut, emitted, lead,
                    resting>>
    BY <1>5 DEF vars, ladderVars, fastVars, mergeVars, envVars
  <2>2. Top' = Top
    BY <2>1 DEF Top, TopOf, HeldAt
  <2>3. FastInv' /\ MergeInv'
    BY <1>1, <2>1, <2>2 DEF FastInv, MergeInv, ClrBusy
  <2> QED BY <1>1, <2>3 DEF BookInv
<1> QED BY <1>2, <1>3, <1>4, <1>5 DEF Next

(* The records bbo_merge emits are the ladder's own, value for value and   *)
(* in its order, some of them earlier (bbo_merge.sv:10): what is ahead of  *)
(* the ladder is what it publishes next.                                   *)
THEOREM EarlyStreamIsTheLadders == Spec => []StreamsAgree
<1>1. BookInv => StreamsAgree
  <2> SUFFICES ASSUME BookInv PROVE StreamsAgree
    OBVIOUS
  <2>1. ASSUME ladValid PROVE Ahead # <<>> /\ Head(Ahead) = ladBbo
    <3>1. Ahead = <<ladBbo>>
      BY <2>1, LadderPublishesAhead
    <3> QED BY <3>1
  <2>2. ASSUME LadderReady, ~ladValid PROVE lead = <<>>
    BY <2>2 DEF BookInv, MergeInv, LadderReady
  <2> QED BY <2>1, <2>2 DEF StreamsAgree
<1> QED BY <1>1, BookStart, BookNext, PTL DEF Spec

====
