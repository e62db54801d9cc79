--------------------------- MODULE Strategy_proof ---------------------------
(***************************************************************************)
(* Proofs about the strategy where it decides and where it sends: in front *)
(* of its venue and beside its golden (StrategyVenue), for every set of    *)
(* symbols, of quotes and of sweeps and every configuration; and in front  *)
(* of builder and framer (OrderPath), for all widths, records and sequence *)
(* numbers.  The bounds of the venue play no part.                         *)
(***************************************************************************)
EXTENDS StrategyVenue, OrderPath, TxReliability, SequenceTheorems, FiniteSetTheorems, TLAPS

(******************** the strategy and its venue ***************************)


(* What one step does, cut free from the quantifiers of VenueNext.         *)
StepOf(quote, sweep, ack, ready, enable) ==
    /\ quote \in Maybe(Quote) /\ sweep \in Maybe(Sweep)
    /\ ack \in BOOLEAN /\ ready \in BOOLEAN /\ enable \in BOOLEAN
    /\ VenueTick(quote, sweep, ack, ready, enable)

LEMMA NextIsStep ==
    ASSUME VenueNext
    PROVE  \E quote, sweep, ack, ready, enable : StepOf(quote, sweep, ack, ready, enable)
BY DEF VenueNext, StepOf

LEMMA MaybeFacts ==
    ASSUME NEW S, NEW r \in Maybe(S)
    PROVE  r = <<>> \/ (r # <<>> /\ Head(r) \in S /\ r = <<Head(r)>>)
BY DEF Maybe

LEMMA HoldsFacts ==
    ASSUME NEW S, NEW x \in S
    PROVE  Holds(<<x>>, S) /\ Holds(<<>>, S) /\ <<x>> # <<>> /\ Head(<<x>>) = x
BY DEF Holds

(* A quote and the orders made of it.                                      *)
LEMMA QuoteFields ==
    ASSUME NEW q \in Quote
    PROVE  /\ q \in QuoteType
           /\ q.sym \in Sym /\ q.bid \in Nat /\ q.ask \in Nat
           /\ q.bidQty \in Nat /\ q.askQty \in Nat
           /\ BuySig(q) \in BOOLEAN /\ SellSig(q) \in BOOLEAN
BY QuoteAssumption DEF QuoteType, BuySig, SellSig

LEMMA SignalsAreTwoSided ==
    ASSUME NEW q
    PROVE  (BuySig(q) => TwoSided(q)) /\ (SellSig(q) => TwoSided(q))
BY DEF BuySig, SellSig, Tight

(* Priced at, and no larger than, what a quote of its symbol shows.        *)
Priced(o) ==
    \E q \in Quote : /\ q.sym = o.sym /\ TwoSided(q)
                     /\ o.px = IF o.buy THEN q.ask ELSE q.bid
                     /\ o.qty <= IF o.buy THEN q.askQty ELSE q.bidQty

LEMMA TakeFacts ==
    ASSUME NEW q \in Quote, NEW buy \in BOOLEAN
    PROVE  /\ Take(q, buy) \in OrderType
           /\ Take(q, buy).sym = q.sym /\ Take(q, buy).buy = buy
           /\ TwoSided(q) => Priced(Take(q, buy))
<1>1. Lot(q.askQty) \in Nat /\ Lot(q.bidQty) \in Nat
      /\ Lot(q.askQty) <= q.askQty /\ Lot(q.bidQty) <= q.bidQty
  BY QuoteFields, LimitAssumption DEF Lot
<1>2. Take(q, buy) = [sym |-> q.sym, buy |-> buy,
                      qty |-> IF buy THEN Lot(q.askQty) ELSE Lot(q.bidQty),
                      px |-> IF buy THEN q.ask ELSE q.bid]
  BY DEF Take, LiftOffer, HitBid
<1>3. Take(q, buy) \in OrderType
  BY <1>1, <1>2, QuoteFields DEF OrderType
<1>4. TwoSided(q) => Priced(Take(q, buy))
  BY <1>1, <1>2 DEF Priced
<1> QED BY <1>2, <1>3, <1>4
-----------------------------------------------------------------------------
(* The books hold two-sided quotes of their own symbol, and a sweep that   *)
(* waits in stage 1 was priced at one.                                     *)
OwnBooks ==
    /\ \A s \in Sym : book[s] # <<>> => Head(book[s]).sym = s /\ TwoSided(Head(book[s]))
    /\ sweep1 # <<>> => Priced(Head(sweep1))

(* The edge memories are the conditions of the records stage 2 saw last.   *)
EdgesRemember ==
    /\ lastSeen \in [Sym -> Maybe(Quote)]
    /\ \A s \in Sym :
         /\ prevBuy[s]  = (lastSeen[s] # <<>> /\ BuySig(Head(lastSeen[s])))
         /\ prevSell[s] = (lastSeen[s] # <<>> /\ SellSig(Head(lastSeen[s])))

CountsAgree == unanswered \in Nat /\ coincided \in Nat /\ InflightBounds

Inv == StrategyTypeOK /\ PositionWithinLimit /\ OwnBooks /\ EdgesRemember
       /\ CountsAgree /\ OwnBook
-----------------------------------------------------------------------------
LEMMA InitInv == VenueInit => Inv
<1> SUFFICES ASSUME VenueInit PROVE Inv
  OBVIOUS
<1> USE DEF VenueInit, StrategyInit
<1>1. StrategyTypeOK
  BY WidthAssumption DEF StrategyTypeOK, Maybe, Holds
<1>2. PositionWithinLimit
  BY LimitAssumption DEF PositionWithinLimit
<1>3. OwnBooks /\ OwnBook
  BY DEF OwnBooks, OwnBook
<1>4. EdgesRemember
  BY DEF EdgesRemember, Maybe
<1>5. CountsAgree
  BY LimitAssumption DEF CountsAgree, InflightBounds
<1> QED BY <1>1, <1>2, <1>3, <1>4, <1>5 DEF Inv

(* Stage 1 holds nothing or a quote, and so does every book.               *)
LEMMA StageFacts ==
    ASSUME StrategyTypeOK
    PROVE  /\ stage1 # <<>> => Head(stage1) \in Quote
           /\ \A s \in Sym : book[s] # <<>> => Head(book[s]) \in Quote
           /\ sweep1 # <<>> => Head(sweep1) \in OrderType
           /\ order # <<>> => Head(order) \in OrderType /\ Len(order) = 1
BY DEF StrategyTypeOK, Maybe, Holds

(* An order the strategy wants is an order, priced at its own book.        *)
LEMMA WantedFacts ==
    ASSUME StrategyTypeOK, OwnBooks, Wanted # <<>>
    PROVE  Holds(Wanted, OrderType) /\ Head(Wanted) \in OrderType /\ Len(Wanted) = 1
           /\ Priced(Head(Wanted))
<1>1. CASE sweep1 # <<>>
  BY <1>1 DEF StrategyTypeOK, OwnBooks, Holds, Wanted
<1>2. CASE sweep1 = <<>>
  <2>1. Wanted = Imbalance /\ stage1 # <<>>
    BY <1>2 DEF Wanted, Imbalance
  <2> DEFINE q == Head(stage1)
  <2>2. q \in Quote
    BY <2>1, StageFacts
  <2>3. \E buy \in BOOLEAN : Wanted = <<Take(q, buy)>> /\ TwoSided(q)
    BY <2>1, SignalsAreTwoSided DEF Imbalance, FireBuy, FireSell, Take
  <2>4. PICK buy \in BOOLEAN : Wanted = <<Take(q, buy)>> /\ TwoSided(q)
    BY <2>3
  <2>5. Head(Wanted) = Take(q, buy) /\ Len(Wanted) = 1 /\ Wanted = <<Head(Wanted)>>
    BY <2>4
  <2> QED BY <2>2, <2>4, <2>5, TakeFacts DEF Holds
<1> QED BY <1>1, <1>2

LEMMA SweepFacts ==
    ASSUME StrategyTypeOK, OwnBooks, NEW sweep \in Maybe(Sweep)
    PROVE  LET o == PriceSweep(sweep) IN
           Holds(o, OrderType) /\ (o # <<>> => Priced(Head(o)))
<1> DEFINE o == PriceSweep(sweep)
           s == Head(sweep)
           q == Head(book[s.sym])
<1>1. CASE o = <<>>
  BY <1>1 DEF Holds
<1>2. CASE o # <<>>
  <2>1. sweep # <<>> /\ book[s.sym] # <<>> /\ o = <<Take(q, s.buy)>>
    BY <1>2 DEF PriceSweep
  <2>2. s.sym \in Sym /\ s.buy \in BOOLEAN
    BY <2>1, SweepAssumption, MaybeFacts
  <2>3. q \in Quote /\ TwoSided(q)
    BY <2>1, <2>2, StageFacts DEF OwnBooks
  <2>4. Head(o) = Take(q, s.buy) /\ Len(o) = 1
    BY <2>1
  <2> QED BY <2>2, <2>3, <2>4, TakeFacts DEF Holds
<1> QED BY <1>1, <1>2

(* An order leaves exactly when the gates let one, and it is the one       *)
(* wanted.                                                                 *)
LEMMA SendFacts ==
    ASSUME NEW quote, NEW sweep, NEW ack, NEW ready, NEW enable,
           StepOf(quote, sweep, ack, ready, enable),
           StrategyTypeOK, OwnBooks
    PROVE  \/ /\ Sends(ready, enable) /\ order' = Wanted /\ order' # <<>>
              /\ Closed(Head(Wanted), ready) = {}
           \/ ~Sends(ready, enable) /\ order' = <<>>
BY DEF StepOf, VenueTick, StrategyTick, Decide, Sends
-----------------------------------------------------------------------------
(* One step preserves each part of the invariant.                          *)
LEMMA StepType ==
    ASSUME NEW quote, NEW sweep, NEW ack, NEW ready, NEW enable,
           StepOf(quote, sweep, ack, ready, enable), Inv
    PROVE  StrategyTypeOK'
<1> USE DEF StepOf, VenueTick, StrategyTick
<1>0. StrategyTypeOK /\ OwnBooks
  BY DEF Inv
<1>1. stage1' \in Maybe(Quote) /\ book' \in [Sym -> Maybe(Quote)]
  BY <1>0 DEF Register, StrategyTypeOK
<1>2. Holds(sweep1', OrderType)
  BY <1>0, SweepFacts DEF Register
<1>3. Holds(order', OrderType)
  BY <1>0, SendFacts, WantedFacts DEF Holds
<1>4. prevBuy' \in [Sym -> BOOLEAN] /\ prevSell' \in [Sym -> BOOLEAN]
  BY <1>0, StageFacts, QuoteFields DEF AdvanceEdges, StrategyTypeOK
<1>5. position' \in [Sym -> Int]
  <2>1. \A o \in OrderType : PosNew(o) \in Int
    BY <1>0, LimitAssumption, WidthAssumption DEF PosNew, Signed, OrderType, StrategyTypeOK
  <2>2. CASE Sends(ready, enable)
    BY <1>0, <2>1, <2>2, WantedFacts DEF Decide, Sends, StrategyTypeOK
  <2>3. CASE ~Sends(ready, enable)
    BY <1>0, <2>3 DEF Decide, StrategyTypeOK
  <2> QED BY <2>2, <2>3
<1>6. inflight' \in Nat
  BY <1>0 DEF Decide, InflightNext, StrategyTypeOK
<1>7. sentCnt' \in 0..(CntMod - 1)
  BY <1>0, WidthAssumption DEF Decide, StrategyTypeOK
<1>8. blkCnt' \in [Reason -> 0..(BlkMod - 1)]
  <2>1. \A n \in 0..(BlkMod - 1) : (n + 1) % BlkMod \in 0..(BlkMod - 1)
    BY WidthAssumption
  <2>2. \A g : [blkCnt EXCEPT ![g] = (@ + 1) % BlkMod] \in [Reason -> 0..(BlkMod - 1)]
    BY <1>0, <2>1 DEF StrategyTypeOK
  <2> QED BY <1>0, <2>2 DEF Decide, StrategyTypeOK
<1> QED BY <1>1, <1>2, <1>3, <1>4, <1>5, <1>6, <1>7, <1>8 DEF StrategyTypeOK

LEMMA StepPosition ==
    ASSUME NEW quote, NEW sweep, NEW ack, NEW ready, NEW enable,
           StepOf(quote, sweep, ack, ready, enable), Inv
    PROVE  PositionWithinLimit'
<1>0. StrategyTypeOK /\ OwnBooks /\ PositionWithinLimit
  BY DEF Inv
<1>1. CASE Sends(ready, enable)
  <2> DEFINE o == Head(Wanted)
  <2>1. o \in OrderType /\ Closed(o, ready) = {}
    BY <1>0, <1>1, WantedFacts DEF Sends
  <2>2. PosOk(o)
    <3>1. Gates(o, ready)[3] = PosOk(o)
      BY DEF Gates
    <3> QED BY <2>1, <3>1 DEF Closed, Reason
  <2>3. PosNew(o) \in Int
    BY <1>0, <2>1, WidthAssumption DEF PosNew, Signed, OrderType, StrategyTypeOK
  <2>4. PosNew(o) \in -PosLimit..PosLimit
    BY <2>2, <2>3, LimitAssumption DEF PosOk
  <2>5. position' = [position EXCEPT ![o.sym] = PosNew(o)]
    BY <1>1 DEF StepOf, VenueTick, StrategyTick, Decide
  <2> QED BY <1>0, <2>4, <2>5 DEF PositionWithinLimit, StrategyTypeOK
<1>2. CASE ~Sends(ready, enable)
  BY <1>0, <1>2 DEF StepOf, VenueTick, StrategyTick, Decide, PositionWithinLimit
<1> QED BY <1>1, <1>2

LEMMA StepOwnBooks ==
    ASSUME NEW quote, NEW sweep, NEW ack, NEW ready, NEW enable,
           StepOf(quote, sweep, ack, ready, enable), Inv
    PROVE  OwnBooks' /\ OwnBook'
<1>0. StrategyTypeOK /\ OwnBooks
  BY DEF Inv
<1>1. \A s \in Sym : book'[s] # <<>> => Head(book'[s]).sym = s /\ TwoSided(Head(book'[s]))
  BY <1>0 DEF StepOf, VenueTick, StrategyTick, Register, OwnBooks, StrategyTypeOK
<1>2. sweep1' # <<>> => Priced(Head(sweep1'))
  BY <1>0, SweepFacts DEF StepOf, VenueTick, StrategyTick, Register
<1>3. order' # <<>> => Priced(Head(order'))
  BY <1>0, SendFacts, WantedFacts
<1> QED BY <1>1, <1>2, <1>3 DEF OwnBooks, OwnBook, Priced

LEMMA StepEdges ==
    ASSUME NEW quote, NEW sweep, NEW ack, NEW ready, NEW enable,
           StepOf(quote, sweep, ack, ready, enable), Inv
    PROVE  EdgesRemember'
<1>0. StrategyTypeOK /\ EdgesRemember
  BY DEF Inv
<1> USE DEF StepOf, VenueTick, StrategyTick, AdvanceEdges
<1>1. CASE stage1 = <<>>
  BY <1>0, <1>1 DEF EdgesRemember
<1>2. CASE stage1 # <<>>
  <2>1. Head(stage1) \in Quote /\ Head(stage1).sym \in Sym /\ stage1 \in Maybe(Quote)
    BY <1>0, <1>2, StageFacts, QuoteFields DEF StrategyTypeOK
  <2>2. lastSeen' \in [Sym -> Maybe(Quote)]
    BY <1>0, <1>2, <2>1 DEF EdgesRemember
  <2>3. BuySig(Head(stage1)) \in BOOLEAN /\ SellSig(Head(stage1)) \in BOOLEAN
    BY <2>1, QuoteFields
  <2>4. \A s \in Sym :
          /\ prevBuy'[s]  = (lastSeen'[s] # <<>> /\ BuySig(Head(lastSeen'[s])))
          /\ prevSell'[s] = (lastSeen'[s] # <<>> /\ SellSig(Head(lastSeen'[s])))
    BY <1>0, <1>2, <2>1, <2>3 DEF EdgesRemember, StrategyTypeOK
  <2> QED BY <2>2, <2>4 DEF EdgesRemember
<1> QED BY <1>1, <1>2

LEMMA StepCounts ==
    ASSUME NEW quote, NEW sweep, NEW ack, NEW ready, NEW enable,
           StepOf(quote, sweep, ack, ready, enable), Inv
    PROVE  CountsAgree'
<1>0. StrategyTypeOK /\ OwnBooks /\ CountsAgree /\ InflightBounds
  BY DEF Inv, CountsAgree
<1>1. /\ ack \in BOOLEAN /\ inflight \in Nat /\ unanswered \in Nat /\ coincided \in Nat
      /\ MaxInflight \in Nat /\ MetCap \in Nat
  BY <1>0, LimitAssumption, CapAssumption DEF StepOf, StrategyTypeOK, CountsAgree
<1>2. /\ inflight' = InflightNext(ack, Sends(ready, enable))
      /\ ack => unanswered > 0
      /\ unanswered' = (unanswered + Len(order')) - IF ack THEN 1 ELSE 0
      /\ coincided' = IF ack /\ order' # <<>> /\ coincided < MetCap
                      THEN coincided + 1 ELSE coincided
  BY DEF StepOf, VenueTick, StrategyTick, Decide
<1>3. CASE Sends(ready, enable)
  <2>1. order' # <<>> /\ Len(order') = 1
    BY <1>0, <1>3, SendFacts, WantedFacts DEF Sends
  <2>2. inflight < MaxInflight       \* the second gate is open
    <3>1. Gates(Head(Wanted), ready)[2] = InflightOk
      BY DEF Gates
    <3>2. Closed(Head(Wanted), ready) = {}
      BY <1>3 DEF Sends
    <3>3. InflightOk
      BY <3>1, <3>2 DEF Closed, Reason
    <3> QED BY <3>3 DEF InflightOk
  <2> QED BY <1>0, <1>1, <1>2, <1>3, <2>1, <2>2 DEF CountsAgree, InflightBounds, InflightNext
<1>4. CASE ~Sends(ready, enable)
  <2>1. order' = <<>> /\ Len(order') = 0
    BY <1>0, <1>4, SendFacts
  <2> QED BY <1>0, <1>1, <1>2, <1>4, <2>1 DEF CountsAgree, InflightBounds, InflightNext
<1> QED BY <1>3, <1>4

LEMMA StepInv == Inv /\ [VenueNext]_worldVars => Inv'
<1> SUFFICES ASSUME Inv, [VenueNext]_worldVars PROVE Inv'
  OBVIOUS
<1>1. CASE VenueNext
  <2>1. PICK quote, sweep, ack, ready, enable : StepOf(quote, sweep, ack, ready, enable)
    BY <1>1, NextIsStep
  <2> QED BY <2>1, StepType, StepPosition, StepOwnBooks, StepEdges, StepCounts DEF Inv
<1>2. CASE UNCHANGED worldVars
  BY <1>2 DEF worldVars, strategyVars, venueVars, Inv, StrategyTypeOK, PositionWithinLimit,
     OwnBooks, OwnBook, EdgesRemember, CountsAgree, InflightBounds
<1> QED BY <1>1, <1>2

THEOREM Invariance == VenueSpec => []Inv
BY InitInv, StepInv, PTL DEF VenueSpec
-----------------------------------------------------------------------------
(* Every register of the strategy keeps its width and kind of contents.    *)
THEOREM TypeCorrect == VenueSpec => []StrategyTypeOK
<1>1. Inv => StrategyTypeOK
  BY DEF Inv
<1> QED BY <1>1, Invariance, PTL

(* No symbol's optimistic position ever leaves the limit, whatever the     *)
(* books, the sweeps, the acknowledgements and the kill switch do          *)
(* (strategy.sv, pos_ok).                                                  *)
THEOREM PositionLimited == VenueSpec => []PositionWithinLimit
<1>1. Inv => PositionWithinLimit
  BY DEF Inv
<1> QED BY <1>1, Invariance, PTL

(* However acks and sends fall together, no in-flight slot leaks, and the  *)
(* count is short of the unanswered orders by at most the number of cycles *)
(* in which they did (strategy.sv, inflight).                              *)
THEOREM InflightKeepsUp == VenueSpec => []InflightBounds
<1>1. Inv => InflightBounds
  BY DEF Inv, CountsAgree
<1> QED BY <1>1, Invariance, PTL

(* Every order, a sweep's too, is priced and sized by a two-sided quote of *)
(* its own symbol (strategy.sv, stage 1).                                  *)
THEOREM PricedAtOwnBook == VenueSpec => []OwnBook
<1>1. Inv => OwnBook
  BY DEF Inv
<1> QED BY <1>1, Invariance, PTL

(* An imbalance order leaves only on a rising edge of its own symbol's     *)
(* condition (strategy.sv, prev_buy and prev_sell).                        *)
THEOREM OneOrderPerEdge == VenueSpec => RisingEdgeOnly
<1> DEFINE o == Head(order')
           Sig(q) == IF o.buy THEN BuySig(q) ELSE SellSig(q)
           Edge == order' # <<>> /\ sweep1 = <<>> =>
                     /\ stage1 # <<>> /\ o.sym = Head(stage1).sym /\ Sig(Head(stage1))
                     /\ lastSeen[o.sym] = <<>> \/ ~Sig(Head(lastSeen[o.sym]))
<1>1. Inv /\ VenueNext => Edge
  <2> SUFFICES ASSUME Inv, VenueNext, order' # <<>>, sweep1 = <<>>
               PROVE  /\ stage1 # <<>> /\ o.sym = Head(stage1).sym /\ Sig(Head(stage1))
                      /\ lastSeen[o.sym] = <<>> \/ ~Sig(Head(lastSeen[o.sym]))
    OBVIOUS
  <2> DEFINE q == Head(stage1)
  <2>1. order' = Wanted /\ Wanted # <<>>
    BY NextIsStep, SendFacts DEF Inv
  <2>2. Wanted = Imbalance /\ stage1 # <<>>
    BY <2>1 DEF Wanted, Imbalance
  <2>3. q \in Quote /\ q.sym \in Sym
    BY <2>2, StageFacts, QuoteFields DEF Inv
  <2>4. EdgesRemember
    BY DEF Inv
  <2>5. CASE FireBuy(q)
    <3>1. o = LiftOffer(q)
      BY <2>1, <2>2, <2>5 DEF Imbalance
    <3>2. o.buy /\ o.sym = q.sym
      BY <3>1 DEF LiftOffer
    <3> QED BY <2>2, <2>3, <2>4, <2>5, <3>2 DEF FireBuy, EdgesRemember
  <2>6. CASE ~FireBuy(q)
    <3>1. FireSell(q) /\ o = HitBid(q)
      BY <2>1, <2>2, <2>6 DEF Imbalance
    <3>2. ~o.buy /\ o.sym = q.sym
      BY <3>1 DEF HitBid
    <3> QED BY <2>2, <2>3, <2>4, <3>1, <3>2 DEF FireSell, EdgesRemember
  <2> QED BY <2>5, <2>6
<1>2. Inv /\ [VenueNext]_worldVars => [Edge]_worldVars
  BY <1>1
<1>3. VenueSpec => [][Edge]_worldVars
  BY <1>2, Invariance, PTL DEF VenueSpec
<1> QED BY <1>3 DEF RisingEdgeOnly
-----------------------------------------------------------------------------
(* The strategy next to its software model.                                *)

(* What is left over when the registers are read at stage 2: the book runs *)
(* ahead of what stage 2 has seen by the record in stage 1, and a sweep in *)
(* stage 1 was priced at what stage 2 holds for its symbol now.            *)
QuoteFor(s) == stage1 # <<>> /\ Head(stage1).sym = s /\ TwoSided(Head(stage1))

HeldQuotes ==
    /\ heldSeen \in [Sym -> Maybe(Quote)]
    /\ \A s \in Sym : heldSeen[s] # <<>> => Head(heldSeen[s]).sym = s

BookRunsAhead == \A s \in Sym : book[s] = IF QuoteFor(s) THEN stage1 ELSE heldSeen[s]

SweepPricedAtHeld ==
    sweep1 # <<>> =>
      \E s \in Sym, b \in BOOLEAN :
        heldSeen[s] # <<>> /\ sweep1 = <<Take(Head(heldSeen[s]), b)>>

GoldenInv == Inv /\ HeldQuotes /\ BookRunsAhead /\ SweepPricedAtHeld

GoldenStepOf(quote, sweep, ack, ready, enable) ==
    /\ StepOf(quote, sweep, ack, ready, enable)
    /\ heldSeen' = IF stage1 # <<>> /\ TwoSided(Head(stage1))
                   THEN [heldSeen EXCEPT ![Head(stage1).sym] = stage1]
                   ELSE heldSeen
    /\ undisturbed' = (enable /\ ready /\ ~ack)

LEMMA GoldenNextIsStep ==
    ASSUME GoldenNext
    PROVE  \E quote, sweep, ack, ready, enable : GoldenStepOf(quote, sweep, ack, ready, enable)
BY DEF GoldenNext, GoldenStepOf, StepOf

LEMMA GoldenInitInv == GoldenInit => GoldenInv
<1> SUFFICES ASSUME GoldenInit PROVE GoldenInv
  OBVIOUS
<1>1. Inv
  BY InitInv DEF GoldenInit
<1>2. HeldQuotes /\ BookRunsAhead /\ SweepPricedAtHeld
  BY DEF GoldenInit, VenueInit, StrategyInit, HeldQuotes, BookRunsAhead, SweepPricedAtHeld,
     QuoteFor, Maybe
<1> QED BY <1>1, <1>2 DEF GoldenInv

(* The book before a step is what stage 2 holds after it.                  *)
LEMMA BookBecomesHeld ==
    ASSUME NEW quote, NEW sweep, NEW ack, NEW ready, NEW enable,
           GoldenStepOf(quote, sweep, ack, ready, enable), GoldenInv
    PROVE  heldSeen' \in [Sym -> Maybe(Quote)] /\ \A s \in Sym : heldSeen'[s] = book[s]
<1>1. StrategyTypeOK /\ HeldQuotes /\ BookRunsAhead
  BY DEF GoldenInv, Inv
<1>2. stage1 # <<>> => Head(stage1).sym \in Sym /\ stage1 \in Maybe(Quote)
  BY <1>1, StageFacts, QuoteFields DEF StrategyTypeOK
<1> QED BY <1>1, <1>2 DEF GoldenStepOf, HeldQuotes, BookRunsAhead, QuoteFor

LEMMA GoldenStepInv == GoldenInv /\ [GoldenNext]_goldenSpecVars => GoldenInv'
<1> SUFFICES ASSUME GoldenInv, [GoldenNext]_goldenSpecVars PROVE GoldenInv'
  OBVIOUS
<1>1. CASE GoldenNext
  <2>1. PICK quote, sweep, ack, ready, enable : GoldenStepOf(quote, sweep, ack, ready, enable)
    BY <1>1, GoldenNextIsStep
  <2> DEFINE s0 == Head(sweep).sym
  <2>2. Inv'
    <3>1. VenueNext
      BY <2>1 DEF GoldenStepOf, StepOf, VenueNext
    <3> QED BY <3>1, StepInv DEF GoldenInv
  <2>3. heldSeen' \in [Sym -> Maybe(Quote)] /\ \A s \in Sym : heldSeen'[s] = book[s]
    BY <2>1, BookBecomesHeld
  <2>4. StrategyTypeOK /\ OwnBooks /\ quote \in Maybe(Quote) /\ sweep \in Maybe(Sweep)
    BY <2>1 DEF GoldenStepOf, StepOf, GoldenInv, Inv
  <2>5. /\ stage1' = quote
        /\ book' = IF quote # <<>> /\ TwoSided(Head(quote))
                   THEN [book EXCEPT ![Head(quote).sym] = quote] ELSE book
        /\ sweep1' = PriceSweep(sweep)
    BY <2>1 DEF GoldenStepOf, StepOf, VenueTick, StrategyTick, Register
  <2>6. HeldQuotes'
    BY <2>3, <2>4 DEF HeldQuotes, OwnBooks
  <2>7. BookRunsAhead'
    BY <2>3, <2>4, <2>5 DEF BookRunsAhead, QuoteFor, StrategyTypeOK
  <2>8. SweepPricedAtHeld'
    <3> SUFFICES ASSUME sweep1' # <<>>
                 PROVE  /\ s0 \in Sym /\ Head(sweep).buy \in BOOLEAN /\ heldSeen'[s0] # <<>>
                        /\ sweep1' = <<Take(Head(heldSeen'[s0]), Head(sweep).buy)>>
      BY DEF SweepPricedAtHeld
    <3>1. sweep # <<>> /\ book[s0] # <<>> /\ sweep1' = <<Take(Head(book[s0]), Head(sweep).buy)>>
      BY <2>5 DEF PriceSweep
    <3>2. s0 \in Sym /\ Head(sweep).buy \in BOOLEAN
      BY <2>4, <3>1, SweepAssumption, MaybeFacts
    <3> QED BY <2>3, <3>1, <3>2
  <2> QED BY <2>2, <2>6, <2>7, <2>8 DEF GoldenInv
<1>2. CASE UNCHANGED goldenSpecVars
  <2>1. Inv'
    BY <1>2, StepInv DEF GoldenInv, goldenSpecVars
  <2> QED BY <1>2, <2>1 DEF GoldenInv, HeldQuotes, BookRunsAhead, SweepPricedAtHeld, QuoteFor,
          goldenSpecVars, worldVars, strategyVars
<1> QED BY <1>1, <1>2

LEMMA GoldenInvariance == GoldenSpec => []GoldenInv
BY GoldenInitInv, GoldenStepInv, PTL DEF GoldenSpec
-----------------------------------------------------------------------------
(* The position word has room for the limit and for one order beyond it on *)
(* either side.  The software model's integers have no width; a limit      *)
(* within half an order of 2^31 would let a wrapped position pass.         *)
RoomBeyondLimit == 2 * PosLimit + MaxShares <= 2 * PosHalf

Wide(o) == IF o.buy THEN position[o.sym] + o.qty ELSE position[o.sym] - o.qty

LEMMA SignedFacts ==
    ASSUME NEW x \in Int, -(3 * PosHalf) <= x, x < 3 * PosHalf
    PROVE  Signed(x) = IF x < -PosHalf THEN x + 2 * PosHalf
                       ELSE IF x >= PosHalf THEN x - 2 * PosHalf ELSE x
<1> DEFINE m == 2 * PosHalf
           y == x + PosHalf
<1>1. m \in Nat \ {0} /\ PosHalf \in Nat /\ y \in Int
  BY WidthAssumption
<1>2. -m <= y /\ y < 2 * m
  BY <1>1
<1>3. y % m = IF y < 0 THEN y + m ELSE IF y >= m THEN y - m ELSE y
  <2> HIDE DEF m, y
  <2>1. CASE y < 0
    BY <1>1, <1>2, <2>1
  <2>2. CASE y >= 0 /\ y < m
    BY <1>1, <1>2, <2>2
  <2>3. CASE y >= m
    BY <1>1, <1>2, <2>3
  <2> QED BY <1>1, <2>1, <2>2, <2>3
<1>4. Signed(x) = (y % m) - PosHalf
  BY DEF Signed
<1> QED BY <1>1, <1>3, <1>4

(* The gates let exactly the orders pass that the software model lets.     *)
LEMMA SameGates ==
    ASSUME StrategyTypeOK, PositionWithinLimit, RoomBeyondLimit, NEW o \in OrderType
    PROVE  /\ Closed(o, TRUE) = {} <=>
                /\ o.qty > 0 /\ o.qty < MaxShares /\ inflight < MaxInflight
                /\ Wide(o) <= PosLimit /\ Wide(o) >= -PosLimit
           /\ Closed(o, TRUE) = {} => PosNew(o) = Wide(o)
<1>1. /\ o.sym \in Sym /\ o.qty \in Nat /\ o.buy \in BOOLEAN
      /\ position[o.sym] \in -PosLimit..PosLimit
      /\ PosLimit \in Nat /\ PosHalf \in Nat /\ PosLimit < PosHalf /\ MaxShares \in Nat
      /\ inflight \in Nat /\ MaxInflight \in Nat
  BY LimitAssumption, WidthAssumption DEF OrderType, PositionWithinLimit, StrategyTypeOK
<1>2. Closed(o, TRUE) = {} <=> QtyOk(o) /\ InflightOk /\ PosOk(o)
  <2>1. /\ Gates(o, TRUE)[1] = QtyOk(o) /\ Gates(o, TRUE)[2] = InflightOk
        /\ Gates(o, TRUE)[3] = PosOk(o) /\ Gates(o, TRUE)[4] = TRUE
    BY DEF Gates
  <2>2. Reason = {1, 2, 3, 4}
    BY DEF Reason
  <2>3. Closed(o, TRUE) = {} <=> \A g \in {1, 2, 3, 4} : Gates(o, TRUE)[g]
    BY <2>2 DEF Closed
  <2> QED BY <2>1, <2>3
<1>3. PosNew(o) = Signed(Wide(o)) /\ Wide(o) \in Int
  BY <1>1 DEF PosNew, Wide
<1>4. ASSUME o.qty < MaxShares
      PROVE  /\ PosOk(o) <=> Wide(o) <= PosLimit /\ Wide(o) >= -PosLimit
             /\ PosOk(o) => PosNew(o) = Wide(o)
  <2>1. -(PosLimit + MaxShares) < Wide(o) /\ Wide(o) < PosLimit + MaxShares
    BY <1>1, <1>4 DEF Wide
  <2>2. PosNew(o) = IF Wide(o) < -PosHalf THEN Wide(o) + 2 * PosHalf
                    ELSE IF Wide(o) >= PosHalf THEN Wide(o) - 2 * PosHalf ELSE Wide(o)
    BY <1>1, <1>3, <2>1, SignedFacts DEF RoomBeyondLimit
  <2>3. PosNew(o) \in Int /\ Wide(o) \in Int
    BY <1>1, <1>3, <2>2
  <2>4. CASE Wide(o) < -PosHalf
    <3>1. PosNew(o) > PosLimit /\ Wide(o) < -PosLimit
      BY <1>1, <2>1, <2>2, <2>3, <2>4 DEF RoomBeyondLimit
    <3> QED BY <1>1, <2>3, <3>1 DEF PosOk
  <2>5. CASE Wide(o) >= PosHalf
    <3>1. PosNew(o) < -PosLimit /\ Wide(o) > PosLimit
      BY <1>1, <2>1, <2>2, <2>3, <2>5 DEF RoomBeyondLimit
    <3> QED BY <1>1, <2>3, <3>1 DEF PosOk
  <2>6. CASE Wide(o) >= -PosHalf /\ Wide(o) < PosHalf
    BY <1>1, <2>2, <2>3, <2>6 DEF PosOk
  <2> QED BY <1>1, <2>3, <2>4, <2>5, <2>6
<1>5. CASE o.qty < MaxShares
  <2>1. QtyOk(o) <=> o.qty > 0 /\ o.qty < MaxShares
    BY <1>1, <1>5 DEF QtyOk
  <2>2. InflightOk <=> inflight < MaxInflight
    BY DEF InflightOk
  <2> QED BY <1>2, <1>4, <1>5, <2>1, <2>2, Zenon
<1>6. CASE ~(o.qty < MaxShares)
  BY <1>1, <1>2, <1>6 DEF QtyOk
<1> QED BY <1>5, <1>6

(* A wanted order of symbol s, decided with the transmit path ready and no *)
(* answer of the venue in the way.                                         *)
LEMMA DecidesWanted ==
    ASSUME NEW quote, NEW sweep, GoldenStepOf(quote, sweep, FALSE, TRUE, TRUE),
           GoldenInv, RoomBeyondLimit, NEW o \in OrderType, Wanted = <<o>>
    PROVE  Golden(o.sym)!gateAndEmit(o.buy, o.qty, o.px, inflight)
<1> DEFINE s == o.sym
<1>1. StrategyTypeOK /\ PositionWithinLimit /\ s \in Sym /\ Head(Wanted) = o /\ Wanted # <<>>
  BY DEF GoldenInv, Inv, OrderType
<1>2. /\ inflight' = InflightNext(FALSE, Sends(TRUE, TRUE))
      /\ IF Sends(TRUE, TRUE)
         THEN order' = Wanted /\ position' = [position EXCEPT ![s] = PosNew(o)]
         ELSE order' = <<>> /\ position' = position
      /\ Sends(TRUE, TRUE) <=> Closed(o, TRUE) = {}
  BY <1>1 DEF GoldenStepOf, StepOf, VenueTick, StrategyTick, Decide, Sends
<1>3. /\ Closed(o, TRUE) = {} <=>
           /\ o.qty > 0 /\ o.qty < MaxShares /\ inflight < MaxInflight
           /\ Wide(o) <= PosLimit /\ Wide(o) >= -PosLimit
      /\ Closed(o, TRUE) = {} => PosNew(o) = Wide(o)
  BY <1>1, SameGates
<1>4. CASE Closed(o, TRUE) = {}
  <2>1. order' # <<>> /\ Head(order') = o
    BY <1>1, <1>2, <1>4
  <2>2. Emitted(s)' = <<[buy |-> o.buy, qty |-> o.qty, px |-> o.px]>>
    BY <2>1 DEF Emitted
  <2>3. position'[s] = Wide(o) /\ inflight' = inflight + 1
    BY <1>1, <1>2, <1>3, <1>4 DEF StrategyTypeOK, InflightNext
  <2> QED BY <1>3, <1>4, <2>2, <2>3 DEF Golden!gateAndEmit, Wide
<1>5. CASE Closed(o, TRUE) # {}
  <2>1. Emitted(s)' = <<>> /\ position'[s] = position[s] /\ inflight' = inflight
    BY <1>2, <1>5 DEF Emitted, InflightNext
  <2> QED BY <1>3, <1>5, <2>1 DEF Golden!gateAndEmit, Wide
<1> QED BY <1>4, <1>5

(* No order wanted: the model stays quiet.                                 *)
LEMMA DecidesQuiet ==
    ASSUME NEW quote, NEW sweep, GoldenStepOf(quote, sweep, FALSE, TRUE, TRUE),
           Wanted = <<>>, NEW s \in Sym
    PROVE  Golden(s)!quiet(inflight)
<1>1. order' = <<>> /\ position' = position /\ inflight' = inflight
  BY DEF GoldenStepOf, StepOf, VenueTick, StrategyTick, Decide, Sends, InflightNext
<1>2. Emitted(s)' = <<>>
  BY <1>1 DEF Emitted
<1> QED BY <1>1, <1>2 DEF Golden!quiet

(* The two evaluate the rule alike wherever the spread does not wrap.      *)
LEMMA SameSignals ==
    ASSUME NEW q \in Quote, ~Crossed(q), NEW s
    PROVE  /\ Golden(s)!buy(q) <=> BuySig(q)
           /\ Golden(s)!sell(q) <=> SellSig(q)
           /\ Golden(s)!twoSided(q) <=> TwoSided(q)
<1>1. /\ q.bid \in Nat /\ q.ask \in Nat /\ q.bid < WordMod /\ q.ask < WordMod
      /\ WordMod \in Nat \ {0}
  BY QuoteFields, WidthAssumption
<1>2. Golden(s)!twoSided(q) <=> TwoSided(q)
  BY DEF Golden!twoSided, TwoSided
<1>3. TwoSided(q) => (q.ask - q.bid) % WordMod = q.ask - q.bid
  <2>1. TwoSided(q) => q.ask - q.bid \in 0..(WordMod - 1)
    BY <1>1 DEF Crossed
  <2> QED BY <1>1, <2>1
<1>4. Golden(s)!tight(q) <=> Tight(q)
  BY <1>2, <1>3 DEF Golden!tight, Tight
<1> QED BY <1>2, <1>4 DEF Golden!buy, Golden!sell, BuySig, SellSig

LEMMA SameLot ==
    ASSUME NEW q \in Quote, NEW s
    PROVE  Golden(s)!min(OrderQty, q.askQty) = Lot(q.askQty)
           /\ Golden(s)!min(OrderQty, q.bidQty) = Lot(q.bidQty)
BY QuoteFields, LimitAssumption DEF Golden!min, Lot

(* A sweep alone in stage 1.                                               *)
LEMMA SweepAsGolden ==
    ASSUME NEW quote, NEW sweep, GoldenStepOf(quote, sweep, FALSE, TRUE, TRUE),
           GoldenInv, RoomBeyondLimit, stage1 = <<>>, NEW s \in Sym, OwnSweep(s)
    PROVE  Golden(s)!SweepEvent(Head(sweep1).buy)
<1>1. PICK r \in Sym, b \in BOOLEAN :
         heldSeen[r] # <<>> /\ sweep1 = <<Take(Head(heldSeen[r]), b)>>
  BY DEF GoldenInv, SweepPricedAtHeld, OwnSweep
<1> DEFINE q == Head(heldSeen[r])
<1>2. q \in Quote /\ q.sym = r
  BY <1>1, MaybeFacts DEF GoldenInv, HeldQuotes
<1>3. Head(sweep1) = Take(q, b) /\ sweep1 # <<>>
  BY <1>1
<1>4. Take(q, b) \in OrderType /\ Take(q, b).sym = q.sym /\ Take(q, b).buy = b
  BY <1>2, TakeFacts
<1>5. r = s /\ Head(sweep1).buy = b
  BY <1>2, <1>3, <1>4 DEF OwnSweep
<1>6. Wanted = <<Take(q, b)>>
  BY <1>1, <1>3 DEF Wanted
<1>7. Golden(s)!gateAndEmit(b, Take(q, b).qty, Take(q, b).px, inflight)
  <2>1. PICK o : o = Take(q, b)
    OBVIOUS
  <2> QED BY <1>2, <1>4, <1>5, <1>6, <2>1, DecidesWanted
<1>8. /\ b => Take(q, b).qty = Golden(s)!min(OrderQty, q.askQty) /\ Take(q, b).px = q.ask
      /\ ~b => Take(q, b).qty = Golden(s)!min(OrderQty, q.bidQty) /\ Take(q, b).px = q.bid
  <2>1. Golden(s)!min(OrderQty, q.askQty) = Lot(q.askQty)
        /\ Golden(s)!min(OrderQty, q.bidQty) = Lot(q.bidQty)
    BY <1>2, SameLot
  <2> QED BY <2>1 DEF Take, LiftOffer, HitBid
<1>9. heldSeen'[s] = heldSeen[s] /\ prevBuy'[s] = prevBuy[s] /\ prevSell'[s] = prevSell[s]
  BY DEF GoldenStepOf, StepOf, VenueTick, StrategyTick, AdvanceEdges
<1>10. heldSeen[s] # <<>> /\ q = Head(heldSeen[s])
  BY <1>1, <1>5
<1>11. CASE b = TRUE
  <2>1. Golden(s)!gateAndEmit(TRUE, Golden(s)!min(OrderQty, q.askQty), q.ask, inflight)
    BY <1>7, <1>8, <1>11
  <2>2. Golden(s)!SweepEvent(TRUE)
    BY <1>9, <1>10, <2>1 DEF Golden!SweepEvent
  <2> QED BY <1>5, <1>11, <2>2
<1>12. CASE b = FALSE
  <2>1. Golden(s)!gateAndEmit(FALSE, Golden(s)!min(OrderQty, q.bidQty), q.bid, inflight)
    BY <1>7, <1>8, <1>12
  <2>2. Golden(s)!SweepEvent(FALSE)
    BY <1>9, <1>10, <2>1 DEF Golden!SweepEvent
  <2> QED BY <1>5, <1>12, <2>2
<1> QED BY <1>11, <1>12

(* A record alone in stage 1, its spread not wrapped.                      *)
LEMMA RecordAsGolden ==
    ASSUME NEW quote, NEW sweep, GoldenStepOf(quote, sweep, FALSE, TRUE, TRUE),
           GoldenInv, RoomBeyondLimit, sweep1 = <<>>, NEW s \in Sym, OwnRecord(s),
           ~Crossed(Head(stage1))
    PROVE  Golden(s)!BboEvent(Head(stage1), 0)
<1>1. PICK q \in Quote : stage1 = <<q>> /\ Head(stage1) = q /\ q.sym = s
  <2>1. stage1 # <<>> /\ Head(stage1).sym = s /\ stage1 \in Maybe(Quote)
    BY DEF OwnRecord, GoldenInv, Inv, StrategyTypeOK
  <2> QED BY <2>1, MaybeFacts
<1>2. /\ Golden(s)!buy(q) <=> BuySig(q)
      /\ Golden(s)!sell(q) <=> SellSig(q)
      /\ Golden(s)!twoSided(q) <=> TwoSided(q)
  BY <1>1, SameSignals
<1>3. Golden(s)!min(OrderQty, q.askQty) = Lot(q.askQty)
      /\ Golden(s)!min(OrderQty, q.bidQty) = Lot(q.bidQty)
  BY SameLot
<1>4. /\ BuySig(q) \in BOOLEAN /\ SellSig(q) \in BOOLEAN
      /\ prevBuy \in [Sym -> BOOLEAN] /\ prevSell \in [Sym -> BOOLEAN]
      /\ heldSeen \in [Sym -> Maybe(Quote)] /\ inflight \in Nat
  BY QuoteFields DEF GoldenInv, Inv, StrategyTypeOK, HeldQuotes
<1>5. /\ heldSeen'[s] = IF Golden(s)!twoSided(q) THEN <<q>> ELSE heldSeen[s]
      /\ prevBuy'[s] = BuySig(q) /\ prevSell'[s] = SellSig(q)
  BY <1>1, <1>2, <1>4 DEF GoldenStepOf, StepOf, VenueTick, StrategyTick, AdvanceEdges
<1>6. prevBuy'[s] = Golden(s)!buy(q) /\ prevSell'[s] = Golden(s)!sell(q)
  <2>1. Golden(s)!buy(q) \in BOOLEAN /\ Golden(s)!sell(q) \in BOOLEAN
    BY DEF Golden!buy, Golden!sell
  <2> QED BY <1>2, <1>4, <1>5, <2>1
<1>7. Wanted = IF FireBuy(q) THEN <<Take(q, TRUE)>>
               ELSE IF FireSell(q) THEN <<Take(q, FALSE)>> ELSE <<>>
  BY <1>1 DEF Wanted, Imbalance, Take
<1>8. ASSUME NEW b \in BOOLEAN, Wanted = <<Take(q, b)>>
      PROVE  Golden(s)!gateAndEmit(b, Take(q, b).qty, Take(q, b).px, inflight)
  <2>1. PICK o : o = Take(q, b)
    OBVIOUS
  <2>2. o \in OrderType /\ o.sym = s /\ o.buy = b
    BY <1>1, <2>1, TakeFacts
  <2> QED BY <1>8, <2>1, <2>2, DecidesWanted
<1>9. inflight - 0 = inflight
  BY <1>4
<1>10. FireBuy(q) <=> Golden(s)!buy(q) /\ ~prevBuy[s]
  BY <1>1, <1>2 DEF FireBuy
<1>11. FireSell(q) <=> Golden(s)!sell(q) /\ ~prevSell[s]
  BY <1>1, <1>2 DEF FireSell
<1>12. CASE FireBuy(q)
  <2>1. Golden(s)!gateAndEmit(TRUE, Golden(s)!min(OrderQty, q.askQty), q.ask, inflight - 0)
    BY <1>3, <1>7, <1>8, <1>9, <1>12 DEF Take, LiftOffer
  <2> QED BY <1>1, <1>5, <1>6, <1>10, <1>12, <2>1 DEF Golden!BboEvent
<1>13. CASE ~FireBuy(q) /\ FireSell(q)
  <2>1. Golden(s)!gateAndEmit(FALSE, Golden(s)!min(OrderQty, q.bidQty), q.bid, inflight - 0)
    BY <1>3, <1>7, <1>8, <1>9, <1>13 DEF Take, HitBid
  <2> QED BY <1>1, <1>5, <1>6, <1>10, <1>11, <1>13, <2>1 DEF Golden!BboEvent
<1>14. CASE ~FireBuy(q) /\ ~FireSell(q)
  <2>1. Golden(s)!quiet(inflight - 0)
    BY <1>7, <1>9, <1>14, DecidesQuiet
  <2> QED BY <1>1, <1>5, <1>6, <1>10, <1>11, <1>14, <2>1 DEF Golden!BboEvent
<1> QED BY <1>12, <1>13, <1>14

(* On every record and every sweep of every symbol the strategy does what  *)
(* the software model does from the same state, for any symbols, quotes    *)
(* and configuration whose limit leaves room in the position word          *)
(* (strategy.sv against dump_orders.py).                                   *)
THEOREM StrategyIsGolden ==
    ASSUME RoomBeyondLimit
    PROVE  GoldenSpec => DecidesAsGolden
<1> DEFINE Agree == undisturbed' /\ (stage1 = <<>> \/ sweep1 = <<>>) =>
                      \A s \in Sym :
                        /\ OwnSweep(s) => Golden(s)!SweepEvent(Head(sweep1).buy)
                        /\ OwnRecord(s) /\ ~Crossed(Head(stage1)) =>
                             Golden(s)!BboEvent(Head(stage1), 0)
<1>1. GoldenInv /\ GoldenNext => Agree
  <2> SUFFICES ASSUME GoldenInv, GoldenNext, undisturbed',
                      stage1 = <<>> \/ sweep1 = <<>>, NEW s \in Sym
               PROVE  /\ OwnSweep(s) => Golden(s)!SweepEvent(Head(sweep1).buy)
                      /\ OwnRecord(s) /\ ~Crossed(Head(stage1)) =>
                           Golden(s)!BboEvent(Head(stage1), 0)
    OBVIOUS
  <2>1. PICK quote, sweep, ack, ready, enable : GoldenStepOf(quote, sweep, ack, ready, enable)
    BY GoldenNextIsStep
  <2>2. ack = FALSE /\ ready = TRUE /\ enable = TRUE
    BY <2>1 DEF GoldenStepOf, StepOf
  <2>3. GoldenStepOf(quote, sweep, FALSE, TRUE, TRUE)
    BY <2>1, <2>2
  <2> QED BY <2>3, SweepAsGolden, RecordAsGolden DEF OwnSweep, OwnRecord
<1>2. GoldenInv /\ [GoldenNext]_goldenSpecVars => [Agree]_goldenSpecVars
  BY <1>1
<1>3. GoldenSpec => [][Agree]_goldenSpecVars
  BY <1>2, GoldenInvariance, PTL DEF GoldenSpec
<1> QED BY <1>3 DEF DecidesAsGolden

(******************* strategy, builder and framer **************************)


(* What the strategy asks for, and what the builder makes of it.           *)
Intents == {LiftOffer(q) : q \in Quote} \cup {HitBid(q) : q \in Quote}
Token   == 0..(TokenMod - 1)
Payload == [token : Token, intent : Intents]

(* No sum of a frame's words reaches the square of a word: a checksum sums *)
(* some forty 16-bit words.                                                *)
TwoFoldsSuffice ==
    /\ CsumMod >= 2 /\ IpBase + CsumMod <= CsumMod * CsumMod
    /\ \A p \in Payload, s \in 0..(SeqMod - 1) :
         /\ PayldSum(p) \in Nat
         /\ TcpBase + (s \div CsumMod) + (s % CsumMod) + PayldSum(p) < CsumMod * CsumMod

(* The registers of the chain.                                             *)
ChainInv ==
    /\ stage1 \in Maybe(Quote) /\ sweep1 = <<>> /\ order \in Maybe(Intents)
    /\ packet \in Maybe(Payload) /\ tokenSeq \in Token
    /\ seqNum \in 0..(SeqMod - 1) /\ ipId \in 0..(CsumMod - 1)
    /\ txState \in {"IDLE", "CALC", "BEAT1"}
    /\ txState = "IDLE" => txOut = <<>> \/ txOut = <<TailBeat(Head(txOut).frame)>>
    /\ txState = "CALC" => hold \in {<<p>> : p \in Payload} /\ txOut = <<>>
    /\ txState = "BEAT1" => /\ txOut = <<HeadBeat(Head(txOut).frame)>>
                            /\ tail = <<TailBeat(Head(txOut).frame)>>

(* An intent that does not follow another finds the builder empty.         *)
SpacedInv == order # <<>> /\ ~followed => packet = <<>>

(* How long the frame at the front may have waited, stage by stage.        *)
PaceInv ==
    /\ stalled \in 0..StallMax /\ waited \in Nat /\ (txState = "CALC" => stalled = 0)
    /\ txState = "IDLE" /\ txOut = <<>> => waited = 0
    /\ txState = "CALC" => waited <= 1
    /\ txState = "BEAT1" => waited <= 2 + stalled
    /\ txState = "IDLE" /\ txOut # <<>> => waited <= StallMax + 3 + stalled

(* The golden's frames: the one in the framer and the one behind it.       *)
SeqNext == IF txState = "CALC" THEN (seqNum + PayldB) % SeqMod ELSE seqNum
IdNext  == IF txState = "CALC" THEN (ipId + 1) % CsumMod ELSE ipId
Front   == IF txState = "CALC" THEN <<frame(Head(hold), seqNum, ipId)>>
           ELSE IF txOut # <<>> THEN <<Head(txOut).frame>> ELSE <<>>
Behind  == IF packet # <<>> THEN <<frame(Head(packet), SeqNext, IdNext)>> ELSE <<>>

GoldInv ==
    /\ due = Front \o Behind
    /\ gold.n = tokenSeq
    /\ gold.seq = IF packet # <<>> THEN (SeqNext + PayldB) % SeqMod ELSE SeqNext
    /\ gold.ident = IF packet # <<>> THEN (IdNext + 1) % CsumMod ELSE IdNext

(****************************** checksums **********************************)

LEMMA Quotient ==
    ASSUME NEW m \in Nat \ {0}, NEW x \in Int
    PROVE  x = m * (x \div m) + (x % m) /\ x \div m \in Int /\ x % m \in 0..(m - 1)
  OBVIOUS

LEMMA Remainder ==
    ASSUME NEW m \in Nat \ {0}, NEW q \in Int, NEW r \in 0..(m - 1)
    PROVE  (m * q + r) % m = r
  OBVIOUS

(* Adding the carry back in keeps a number positive and the same modulo    *)
(* the largest word, so the end of the loop has a closed form, and the     *)
(* loop, written as a recursive function, is one.                          *)
LEMMA CarryIn ==
    ASSUME NEW m \in Nat, m >= 2, NEW s \in Nat, s >= m
    PROVE  /\ (s % m) + (s \div m) \in Nat \ {0}
           /\ (((s % m) + (s \div m)) - 1) % (m - 1) = (s - 1) % (m - 1)
<1> DEFINE d == s \div m
           r == s % m
           w == m - 1
<1>1. s = m * d + r /\ d \in Int /\ r \in 0..(m - 1)
  BY Quotient
<1> HIDE DEF d, r
<1>2. d >= 1
  <2> SUFFICES ASSUME d <= 0 PROVE FALSE
    BY <1>1
  <2>1. m * d <= 0
    BY <1>1
  <2> QED BY <1>1, <2>1
<1>3. s - 1 = w * d + ((r + d) - 1) /\ (r + d) - 1 \in Int
  BY <1>1
<1>4. w \in Nat \ {0}
  OBVIOUS
<1> DEFINE e == ((r + d) - 1) \div w
           t == ((r + d) - 1) % w
<1>5. (r + d) - 1 = w * e + t /\ e \in Int /\ t \in 0..(w - 1)
  <2>1. \A x \in Int : x = w * (x \div w) + (x % w) /\ x \div w \in Int /\ x % w \in 0..(w - 1)
    BY <1>4, Quotient
  <2> QED BY <1>3, <2>1
<1> HIDE DEF e, t, w
<1>6. s - 1 = w * (d + e) + t /\ d + e \in Int
  BY <1>1, <1>3, <1>4, <1>5
<1>7. (w * (d + e) + t) % w = t
  BY <1>4, <1>5, <1>6, Remainder
<1>8. (s - 1) % w = t
  BY <1>6, <1>7
<1> QED BY <1>1, <1>2, <1>8 DEF t, d, r, w

LEMMA LoopEnds ==
    ASSUME CsumMod >= 2
    PROVE  \A s \in Nat : Folded[s] = IF s < CsumMod THEN s
                                      ELSE Folded[(s % CsumMod) + (s \div CsumMod)]
<1> DEFINE m == CsumMod
           Loop(f) == [s \in Nat |-> IF s < m THEN s ELSE f[(s % m) + (s \div m)]]
           g == [s \in Nat |-> IF s = 0 THEN 0 ELSE 1 + ((s - 1) % (m - 1))]
<1>1. m \in Nat /\ m >= 2
  BY CsumAssumption
<1>2. g = Loop(g)
  <2>1. ASSUME NEW s \in Nat
        PROVE  g[s] = IF s < m THEN s ELSE g[(s % m) + (s \div m)]
    <3>1. CASE s < m
      <4>1. CASE s = 0
        BY <1>1, <3>1, <4>1
      <4>2. CASE s # 0
        <5>1. s - 1 \in 0..(m - 1 - 1) /\ m - 1 \in Nat \ {0}
          BY <1>1, <3>1, <4>2
        <5>2. (s - 1) % (m - 1) = s - 1
          BY <5>1
        <5>3. g[s] = 1 + ((s - 1) % (m - 1))
          BY <4>2
        <5> QED BY <3>1, <5>2, <5>3
      <4> QED BY <4>1, <4>2
    <3>2. CASE ~(s < m)
      <4> DEFINE t == (s % m) + (s \div m)
      <4>1. t \in Nat \ {0} /\ (t - 1) % (m - 1) = (s - 1) % (m - 1)
        <5>1. m \in Nat /\ m >= 2 /\ s >= m
          BY <1>1, <3>2
        <5> HIDE DEF m
        <5> QED BY <5>1, CarryIn
      <4> HIDE DEF t
      <4>2. g[t] = 1 + ((t - 1) % (m - 1)) /\ g[s] = 1 + ((s - 1) % (m - 1))
        BY <1>1, <3>2, <4>1
      <4>3. g[s] = g[t]
        BY <4>1, <4>2
      <4> QED BY <3>2, <4>3 DEF t
    <3> QED BY <3>1, <3>2
  <2> QED BY <2>1
<1>3. Folded = CHOOSE f : f = Loop(f)
  BY DEF Folded
<1> HIDE DEF g
<1>4. Folded = Loop(Folded)
  BY <1>2, <1>3
<1> QED BY <1>4

(* Below the square of a word, folding twice is folding to the end.        *)
LEMMA TwoFolds ==
    ASSUME CsumMod >= 2, NEW s \in Nat, s < CsumMod * CsumMod
    PROVE  fold(s) = csum(s)
<1> DEFINE m == CsumMod
           once == (s % m) + (s \div m)
           twice == (once % m) + (once \div m)
<1>1. m \in Nat \ {0} /\ m >= 2
  BY CsumAssumption
<1>2. \A x \in Nat : /\ x < m => Folded[x] = x
                     /\ x >= m => Folded[x] = Folded[(x % m) + (x \div m)]
  BY <1>1, LoopEnds
<1>3. \A x \in Nat : x < m => x % m = x /\ x \div m = 0
  BY <1>1
<1>4. fold(s) = (m - 1) - (twice % m) /\ csum(s) = (m - 1) - Folded[s]
  BY DEF fold, csum
<1>5. CASE s < m
  <2>1. once = s
    BY <1>3, <1>5
  <2>2. twice % m = s
    BY <1>3, <1>5, <2>1
  <2> QED BY <1>2, <1>4, <1>5, <2>2
<1>6. CASE s >= m
  <2>1. once \in Nat /\ once <= m + m - 2
    <3>1. s = m * (s \div m) + (s % m) /\ s \div m \in Int /\ s % m \in 0..(m - 1)
      BY <1>1, Quotient
    <3>2. s \div m <= m - 1 /\ s \div m >= 0
      <4> DEFINE d == s \div m
      <4>1. d \in Int /\ m * d <= s
        BY <1>1, <3>1
      <4> HIDE DEF d
      <4>2. d >= m => m * d >= m * m
        BY <1>1, <4>1
      <4>3. d < 0 => m * d <= -m
        BY <1>1, <4>1
      <4>4. d < m
        BY <1>1, <4>1, <4>2
      <4>5. d >= 0
        BY <1>1, <3>1, <4>1, <4>3 DEF d
      <4> QED BY <1>1, <4>1, <4>4, <4>5 DEF d
    <3> QED BY <1>1, <3>1, <3>2
  <2>2. Folded[s] = Folded[once]
    BY <1>2, <1>6
  <2> HIDE DEF once
  <2>3. CASE once < m
    <3>1. twice = once
      BY <1>3, <2>1, <2>3
    <3> QED BY <1>2, <1>3, <1>4, <2>1, <2>2, <2>3, <3>1
  <2>4. CASE once >= m
    <3>1. once - m \in 0..(m - 1)
      BY <1>1, <2>1, <2>4
    <3>2. once % m = once - m /\ once \div m = 1
      BY <1>1, <2>1, <3>1
    <3>3. twice = once - m + 1 /\ twice \in Nat /\ twice < m
      BY <1>1, <2>1, <3>1, <3>2
    <3>4. Folded[once] = Folded[twice]
      BY <1>2, <2>1, <2>4
    <3> HIDE DEF twice
    <3> QED BY <1>2, <1>3, <1>4, <2>2, <3>3, <3>4
  <2> QED BY <1>1, <2>1, <2>3, <2>4
<1> QED BY <1>1, <1>5, <1>6

(****************************** the chain **********************************)

LEMMA Widths ==
    /\ SeqMod \in Nat \ {0} /\ PayldB \in Nat /\ InitSeq \in 0..(SeqMod - 1)
    /\ CsumMod \in Nat \ {0} /\ InitId \in 0..(CsumMod - 1) /\ TokenMod \in Nat \ {0}
    /\ IpBase \in Nat /\ TcpBase \in Nat /\ StallMax \in Nat
    /\ \A x \in Int : /\ (x + PayldB) % SeqMod \in 0..(SeqMod - 1)
                      /\ (x + 1) % CsumMod \in 0..(CsumMod - 1)
                      /\ (x + 1) % TokenMod \in 0..(TokenMod - 1)
<1>1. /\ SeqMod \in Nat \ {0} /\ PayldB \in Nat /\ InitSeq \in 0..(SeqMod - 1)
      /\ CsumMod \in Nat \ {0} /\ InitId \in 0..(CsumMod - 1) /\ TokenMod \in Nat \ {0}
      /\ IpBase \in Nat /\ TcpBase \in Nat /\ StallMax \in Nat
  BY SeqAssumption, CsumAssumption, TokenAssumption, StallAssumption
<1>2. \A x \in Int : x + PayldB \in Int /\ x + 1 \in Int
  BY <1>1
<1>3. \A m \in Nat \ {0} : \A x \in Int : x % m \in 0..(m - 1)
  BY Quotient
<1> QED BY <1>1, <1>2, <1>3

LEMMA BeatFields ==
    ASSUME NEW f
    PROVE  /\ <<HeadBeat(f)>> # <<>> /\ Head(<<HeadBeat(f)>>).frame = f
           /\ Head(<<HeadBeat(f)>>).last = FALSE
           /\ <<TailBeat(f)>> # <<>> /\ Head(<<TailBeat(f)>>).frame = f
           /\ Head(<<TailBeat(f)>>).last = TRUE
<1>1. /\ HeadBeat(f).frame = f /\ HeadBeat(f).last = FALSE
      /\ TailBeat(f).frame = f /\ TailBeat(f).last = TRUE
  BY DEF HeadBeat, TailBeat
<1>2. \A x : <<x>> # <<>> /\ Head(<<x>>) = x
  OBVIOUS
<1> QED BY <1>1, <1>2

(* The framer's frame is the script's.                                     *)
LEMMA FramesAgree ==
    ASSUME TwoFoldsSuffice, ChainInv, NEW p \in Payload
    PROVE  Assembled(p) = frame(p, seqNum, ipId)
<1>1. /\ seqNum \in 0..(SeqMod - 1) /\ ipId \in 0..(CsumMod - 1)
      /\ IpBase \in Nat /\ TcpBase \in Nat /\ CsumMod \in Nat \ {0} /\ CsumMod >= 2
      /\ IpBase + CsumMod <= CsumMod * CsumMod
  BY Widths DEF ChainInv, TwoFoldsSuffice
<1>2. ip_csum = csum(IpBase + ipId)
  <2>1. IpBase + ipId \in Nat /\ IpBase + ipId < CsumMod * CsumMod
    BY <1>1
  <2> QED BY <1>1, <2>1, TwoFolds DEF ip_csum
<1>3. tcp_csum(p) = csum(TcpBase + (seqNum \div CsumMod) + (seqNum % CsumMod) + PayldSum(p))
  <2> DEFINE x == TcpBase + (seqNum \div CsumMod) + (seqNum % CsumMod) + PayldSum(p)
  <2>1. PayldSum(p) \in Nat /\ x < CsumMod * CsumMod
    BY <1>1 DEF TwoFoldsSuffice
  <2>2. seqNum \div CsumMod \in Nat /\ seqNum % CsumMod \in Nat
    BY <1>1
  <2>3. x \in Nat
    BY <1>1, <2>1, <2>2
  <2>4. tcp_csum(p) = fold(x)
    BY DEF tcp_csum
  <2> HIDE DEF x
  <2>5. fold(x) = csum(x)
    BY <1>1, <2>1, <2>3, TwoFolds
  <2> QED BY <2>4, <2>5 DEF x
<1> QED BY <1>2, <1>3 DEF Assembled, frame

LEMMA InitChain == Init => ChainInv /\ SpacedInv /\ PaceInv /\ GoldInv
<1> SUFFICES ASSUME Init PROVE ChainInv /\ SpacedInv /\ PaceInv /\ GoldInv
  OBVIOUS
<1>1. /\ stage1 = <<>> /\ sweep1 = <<>> /\ order = <<>> /\ packet = <<>> /\ tokenSeq = 0
      /\ txState = "IDLE" /\ txOut = <<>> /\ seqNum = InitSeq /\ ipId = InitId
      /\ gold = [n |-> 0, seq |-> InitSeq, ident |-> InitId] /\ due = <<>>
      /\ stalled = 0 /\ waited = 0
  BY DEF Init, StrategyInit, BuilderInit, TxInit, GoldInit
<1>2. ChainInv
  BY <1>1, Widths DEF ChainInv, Maybe, Token
<1>3. PaceInv /\ SpacedInv
  BY <1>1, Widths DEF PaceInv, SpacedInv
<1>4. GoldInv
  <2>1. Front = <<>> /\ Behind = <<>> /\ SeqNext = seqNum /\ IdNext = ipId
    BY <1>1 DEF Front, Behind, SeqNext, IdNext
  <2> QED BY <1>1, <2>1 DEF GoldInv
<1> QED BY <1>2, <1>3, <1>4

(* What the strategy asks for is an order on one of the records.           *)
LEMMA OrdersAreIntents ==
    ASSUME ChainInv, NEW quote \in Maybe(Quote), NEW ack, NEW down,
           StrategyTick(quote, <<>>, ack, IntentReady(down), TRUE)
    PROVE  /\ stage1' \in Maybe(Quote) /\ sweep1' = <<>> /\ order' \in Maybe(Intents)
           /\ order' # <<>> => IntentReady(down)
<1>1. stage1' = quote /\ sweep1' = <<>>
  BY DEF StrategyTick, Register, PriceSweep
<1>2. Wanted \in Maybe(Intents)
  <2>1. Wanted = Imbalance /\ stage1 \in Maybe(Quote)
    BY DEF Wanted, ChainInv
  <2>2. CASE stage1 = <<>>
    BY <2>1, <2>2 DEF Imbalance, Maybe
  <2>3. CASE stage1 # <<>>
    <3>1. Head(stage1) \in Quote
      BY <2>1, <2>3 DEF Maybe
    <3> QED BY <2>1, <2>3, <3>1 DEF Imbalance, Maybe, Intents
  <2> QED BY <2>2, <2>3
<1>3. order' = IF Sends(IntentReady(down), TRUE) THEN Wanted ELSE <<>>
  BY DEF StrategyTick, Decide
<1>4. Sends(IntentReady(down), TRUE) => IntentReady(down)
  <2> SUFFICES ASSUME Sends(IntentReady(down), TRUE) PROVE IntentReady(down)
    OBVIOUS
  <2> DEFINE ready == IntentReady(down)
  <2>1. Closed(Head(Wanted), ready) = {}
    BY DEF Sends
  <2> HIDE DEF ready
  <2>2. 4 \in Reason /\ Gates(Head(Wanted), ready)[4] = ready
    BY DEF Reason, Gates
  <2>3. ready
    BY <2>1, <2>2 DEF Closed
  <2> QED BY <2>3 DEF ready
<1> QED BY <1>1, <1>2, <1>3, <1>4 DEF Maybe

LEMMA ChainStep ==
    ASSUME ChainInv, NEW quote \in Maybe(Quote), NEW ack, NEW down \in BOOLEAN,
           Tick(quote, ack, down)
    PROVE  ChainInv'
<1>1. /\ StrategyTick(quote, <<>>, ack, IntentReady(down), TRUE)
      /\ BuilderTick(order, TxReady(down)) /\ TxTick(packet, FALSE, down)
  BY DEF Tick, PacketTaken
<1>2. /\ stage1' \in Maybe(Quote) /\ sweep1' = <<>> /\ order' \in Maybe(Intents)
  BY <1>1, OrdersAreIntents
<1>3. /\ order \in Maybe(Intents) /\ packet \in Maybe(Payload) /\ tokenSeq \in Token
      /\ seqNum \in 0..(SeqMod - 1) /\ ipId \in 0..(CsumMod - 1)
      /\ txState \in {"IDLE", "CALC", "BEAT1"}
  BY DEF ChainInv
<1>4. packet' \in Maybe(Payload) /\ tokenSeq' \in Token
  <2>1. (tokenSeq + 1) % TokenMod \in Token
    BY <1>3, Widths DEF Token
  <2>2. order # <<>> => [token |-> tokenSeq, intent |-> Head(order)] \in Payload
    BY <1>3 DEF Maybe, Payload
  <2> QED BY <1>1, <1>3, <2>1, <2>2 DEF BuilderTick, Maybe
<1>5. seqNum' \in 0..(SeqMod - 1) /\ ipId' \in 0..(CsumMod - 1)
  <2>1. /\ seqNum' = IF txState = "CALC" THEN (seqNum + PayldB) % SeqMod ELSE seqNum
        /\ ipId' = IF txState = "CALC" THEN (ipId + 1) % CsumMod ELSE ipId
    BY <1>1 DEF TxTick, Count
  <2>2. seqNum \in Int /\ ipId \in Int
    BY <1>3, Widths
  <2> QED BY <1>3, <2>1, <2>2, Widths
<1>6. CASE txState = "IDLE"
  <2>1. /\ txOut' = Drained(down)
        /\ IF packet # <<>> /\ TxReady(down) THEN txState' = "CALC" /\ hold' = packet
           ELSE txState' = "IDLE"
    BY <1>1, <1>6 DEF TxTick, TxTake, TxCalc, TxBeat1
  <2>2. txOut = <<>> \/ txOut = <<TailBeat(Head(txOut).frame)>>
    BY <1>6 DEF ChainInv
  <2>3. CASE packet # <<>> /\ TxReady(down)
    <3>1. txOut' = <<>> /\ hold' \in {<<p>> : p \in Payload} /\ txState' = "CALC"
      BY <1>3, <2>1, <2>3 DEF TxReady, Drained, Maybe
    <3> QED BY <1>2, <1>4, <1>5, <3>1 DEF ChainInv, Maybe, Payload, Token, Intents
  <2>4. CASE ~(packet # <<>> /\ TxReady(down))
    <3>1. txState' = "IDLE" /\ (txOut' = <<>> \/ txOut' = <<TailBeat(Head(txOut').frame)>>)
      BY <2>1, <2>2, <2>4 DEF Drained
    <3> QED BY <1>2, <1>4, <1>5, <3>1 DEF ChainInv, Maybe, Payload, Token, Intents, TailBeat
  <2> QED BY <2>3, <2>4
<1>7. CASE txState = "CALC"
  <2> DEFINE f == Assembled(Head(hold))
  <2>1. txOut' = <<HeadBeat(f)>> /\ tail' = <<TailBeat(f)>> /\ txState' = "BEAT1"
    BY <1>1, <1>7 DEF TxTick, TxTake, TxCalc, TxBeat1
  <2> HIDE DEF f
  <2>2. Head(txOut').frame = f
    BY <2>1, BeatFields
  <2>3. txOut' = <<HeadBeat(Head(txOut').frame)>> /\ tail' = <<TailBeat(Head(txOut').frame)>>
    BY <2>1, <2>2
  <2> QED BY <1>2, <1>4, <1>5, <2>1, <2>3
          DEF ChainInv, Maybe, Payload, Token, Intents, HeadBeat, TailBeat
<1>8. CASE txState = "BEAT1"
  <2>1. \/ txState' = "IDLE" /\ txOut' = tail
        \/ txState' = "BEAT1" /\ txOut' = txOut /\ tail' = tail
    BY <1>1, <1>8 DEF TxTick, TxTake, TxCalc, TxBeat1
  <2>2. /\ txOut = <<HeadBeat(Head(txOut).frame)>>
        /\ tail = <<TailBeat(Head(txOut).frame)>>
    BY <1>8 DEF ChainInv
  <2>3. CASE txState' = "IDLE" /\ txOut' = tail
    <3>1. txOut' = <<TailBeat(Head(txOut').frame)>>
      BY <2>2, <2>3, BeatFields
    <3> QED BY <1>2, <1>4, <1>5, <2>3, <3>1 DEF ChainInv, Maybe, Payload, Token, Intents, TailBeat
  <2>4. CASE txState' = "BEAT1" /\ txOut' = txOut /\ tail' = tail
    BY <1>2, <1>4, <1>5, <2>2, <2>4
       DEF ChainInv, Maybe, Payload, Token, Intents, HeadBeat, TailBeat
  <2> QED BY <2>1, <2>3, <2>4
<1> QED BY <1>3, <1>6, <1>7, <1>8

LEMMA SpacedStep ==
    ASSUME ChainInv, NEW quote \in Maybe(Quote), NEW ack, NEW down \in BOOLEAN,
           Tick(quote, ack, down)
    PROVE  SpacedInv'
<1>1. order' # <<>> => IntentReady(down)
  BY OrdersAreIntents DEF Tick
<1>2. followed' <=> order # <<>>
  BY DEF Tick
<1>3. order = <<>> => packet' = IF TxReady(down) THEN <<>> ELSE packet
  BY DEF Tick, BuilderTick, PacketTaken
<1> QED BY <1>1, <1>2, <1>3 DEF SpacedInv, IntentReady, BuilderReady

LEMMA Joined ==
    ASSUME NEW x, NEW y
    PROVE  /\ <<>> \o <<>> = <<>> /\ <<x>> \o <<>> = <<x>> /\ <<>> \o <<y>> = <<y>>
           /\ <<x>> \o <<y>> = <<x, y>> /\ <<x, y>> \o <<>> = <<x, y>>
           /\ <<x>> # <<>> /\ <<x, y>> # <<>>
           /\ Head(<<x>>) = x /\ Head(<<x, y>>) = x
           /\ Tail(<<x>>) = <<>> /\ Tail(<<x, y>>) = <<y>>
<1>1. <<>> \o <<>> = <<>>
  OBVIOUS
<1>2. <<x>> \o <<>> = <<x>>
  OBVIOUS
<1>3. <<>> \o <<y>> = <<y>>
  OBVIOUS
<1>4. <<x>> \o <<y>> = <<x, y>>
  <2>1. /\ <<x>> \in Seq({x, y}) /\ <<y>> \in Seq({x, y}) /\ <<x, y>> \in Seq({x, y})
        /\ Len(<<x>>) = 1 /\ Len(<<y>>) = 1 /\ Len(<<x, y>>) = 2
        /\ <<x>>[1] = x /\ <<y>>[1] = y /\ <<x, y>>[1] = x /\ <<x, y>>[2] = y
    OBVIOUS
  <2> DEFINE s == <<x>>
             t == <<y>>
             u == <<x, y>>
  <2>2. /\ s \o t \in Seq({x, y}) /\ Len(s \o t) = 2
        /\ (s \o t)[1] = x /\ (s \o t)[2] = y
    <3> HIDE DEF s, t
    <3>1. s \in Seq({x, y}) /\ t \in Seq({x, y}) /\ Len(s) = 1 /\ Len(t) = 1
          /\ s[1] = x /\ t[1] = y
      BY <2>1 DEF s, t
    <3>2. /\ s \o t \in Seq({x, y}) /\ Len(s \o t) = Len(s) + Len(t)
          /\ \A i \in 1..(Len(s) + Len(t)) : (s \o t)[i] =
                IF i <= Len(s) THEN s[i] ELSE t[i - Len(s)]
      <4>1. s \in Seq({x, y}) /\ t \in Seq({x, y})
        BY <3>1
      <4> QED BY ZenonT(60), <4>1, ConcatProperties
    <3>3. (s \o t)[1] = x
      <4>1. 1 \in 1..(Len(s) + Len(t)) /\ 1 <= Len(s)
        BY <3>1
      <4>2. (s \o t)[1] = IF 1 <= Len(s) THEN s[1] ELSE t[1 - Len(s)]
        BY ZenonT(30), <3>2, <4>1
      <4> QED BY <3>1, <4>1, <4>2
    <3>4. (s \o t)[2] = t[2 - 1]
      BY <3>1, <3>2
    <3> QED BY <3>1, <3>2, <3>3, <3>4
  <2> HIDE DEF s, t, u
  <2>3. u \in Seq({x, y}) /\ Len(u) = 2 /\ u[1] = x /\ u[2] = y
    BY <2>1 DEF u
  <2>4. Len(s \o t) = Len(u) /\ \A i \in 1..Len(s \o t) : (s \o t)[i] = u[i]
    BY <2>2, <2>3
  <2> QED BY <2>2, <2>3, <2>4, SeqEqual DEF s, t, u
<1>5. <<x, y>> \o <<>> = <<x, y>>
  OBVIOUS
<1>6. <<x>> # <<>> /\ <<x, y>> # <<>> /\ Head(<<x>>) = x /\ Head(<<x, y>>) = x
  OBVIOUS
<1>7. Tail(<<x>>) = <<>>
  <2>1. <<x>> \in Seq({x}) /\ <<x>> # <<>> /\ Len(<<x>>) = 1
    OBVIOUS
  <2>2. Tail(<<x>>) \in Seq({x}) /\ Len(Tail(<<x>>)) = 0
    BY <2>1, HeadTailProperties
  <2> QED BY <2>2, EmptySeq
<1>8. Tail(<<x, y>>) = <<y>>
  OBVIOUS
<1> QED BY <1>1, <1>2, <1>3, <1>4, <1>5, <1>6, <1>7, <1>8

(* Where the frames of the chain are.                                      *)
LEMMA Places ==
    ASSUME ChainInv
    PROVE  /\ Leaving = IF txState = "IDLE" /\ txOut # <<>>
                        THEN <<Head(txOut).frame.payload>> ELSE <<>>
           /\ Framing = IF txState = "CALC" THEN <<Head(hold)>>
                        ELSE IF txState = "BEAT1" THEN <<Head(txOut).frame.payload>> ELSE <<>>
           /\ txState = "BEAT1" => txOut # <<>> /\ Head(tail).frame = Head(txOut).frame
                                   /\ ~Head(txOut).last
           /\ txState = "CALC" => txOut = <<>>
           /\ Pipeline = <<>> <=> txState = "IDLE" /\ txOut = <<>> /\ packet = <<>>
<1>1. CASE txState = "IDLE"
  <2>1. txOut # <<>> => Head(txOut).last
    BY <1>1, BeatFields DEF ChainInv
  <2>2. Leaving = IF txOut # <<>> THEN <<Head(txOut).frame.payload>> ELSE <<>>
    BY <2>1 DEF Leaving
  <2>3. Framing = <<>>
    BY <1>1 DEF Framing
  <2>4. packet \in Maybe(Payload)
    BY DEF ChainInv
  <2>5. \A x, y : <<>> \o <<>> = <<>> /\ <<x>> \o <<>> = <<x>> /\ <<>> \o <<y>> = <<y>>
                  /\ <<x>> \o <<y>> = <<x, y>> /\ <<x>> # <<>> /\ <<x, y>> # <<>>
    BY Joined
  <2> DEFINE x == Head(txOut).frame.payload
             y == Head(packet)
  <2>6. packet = <<>> \/ packet = <<y>>
    BY <2>4 DEF Maybe
  <2> HIDE DEF x, y
  <2>7. Leaving = IF txOut # <<>> THEN <<x>> ELSE <<>>
    BY <2>2 DEF x
  <2>8. Pipeline = (Leaving \o <<>>) \o packet
    BY <2>3 DEF Pipeline
  <2>9. Pipeline = <<>> <=> txOut = <<>> /\ packet = <<>>
    BY <2>5, <2>6, <2>7, <2>8
  <2> QED BY <1>1, <2>2, <2>3, <2>9
<1>2. CASE txState = "CALC"
  <2>1. txOut = <<>> /\ hold = <<Head(hold)>>
    BY <1>2 DEF ChainInv
  <2>2. Leaving = <<>> /\ Framing = <<Head(hold)>>
    BY <1>2, <2>1 DEF Leaving, Framing
  <2>3. packet \in Maybe(Payload)
    BY DEF ChainInv
  <2>4. Pipeline # <<>>
    BY <2>2, <2>3 DEF Pipeline, Maybe
  <2> QED BY <1>2, <2>1, <2>2, <2>4
<1>3. CASE txState = "BEAT1"
  <2> DEFINE f == Head(txOut).frame
  <2>1. txOut = <<HeadBeat(f)>> /\ tail = <<TailBeat(f)>>
    BY <1>3 DEF ChainInv
  <2>2. txOut # <<>> /\ Head(txOut).last = FALSE /\ Head(tail).frame = f
    BY <2>1, BeatFields
  <2>3. Leaving = <<>> /\ Framing = <<f.payload>>
    BY <1>3, <2>2 DEF Leaving, Framing
  <2>4. packet \in Maybe(Payload)
    BY DEF ChainInv
  <2>5. Pipeline # <<>>
    BY <2>3, <2>4 DEF Pipeline, Maybe
  <2> QED BY <1>3, <2>2, <2>3, <2>5
<1> QED BY <1>1, <1>2, <1>3 DEF ChainInv

LEMMA PaceStep ==
    ASSUME ChainInv, PaceInv, NEW quote \in Maybe(Quote), NEW ack, NEW down \in BOOLEAN,
           Tick(quote, ack, down)
    PROVE  PaceInv'
<1>1. /\ stalled \in 0..StallMax /\ waited \in Nat /\ (txState = "CALC" => stalled = 0)
      /\ txState = "IDLE" /\ txOut = <<>> => waited = 0
      /\ txState = "CALC" => waited <= 1
      /\ txState = "BEAT1" => waited <= 2 + stalled
      /\ txState = "IDLE" /\ txOut # <<>> => waited <= StallMax + 3 + stalled
      /\ StallMax \in Nat
  BY Widths DEF PaceInv
<1>2. /\ stalled' = IF txOut # <<>> /\ ~down THEN stalled + 1 ELSE 0
      /\ stalled' <= StallMax
      /\ waited' = IF Pipeline = <<>> \/ (Leaving # <<>> /\ down) THEN 0 ELSE waited + 1
      /\ TxTick(packet, FALSE, down)
  BY DEF Tick
<1>3. /\ Leaving # <<>> <=> txState = "IDLE" /\ txOut # <<>>
      /\ txState = "BEAT1" => txOut # <<>>
      /\ txState = "CALC" => txOut = <<>>
      /\ Pipeline = <<>> <=> txState = "IDLE" /\ txOut = <<>> /\ packet = <<>>
  BY Places
<1>4. stalled' \in 0..StallMax /\ waited' \in Nat
  BY <1>1, <1>2
<1>5. CASE txState = "IDLE"
  <2>1. /\ txOut' = Drained(down)
        /\ IF packet # <<>> /\ TxReady(down) THEN txState' = "CALC" ELSE txState' = "IDLE"
    BY <1>2, <1>5 DEF TxTick, TxTake, TxCalc, TxBeat1
  <2>2. CASE txOut # <<>> /\ ~down
    <3>1. txState' = "IDLE" /\ txOut' # <<>> /\ stalled' = stalled + 1 /\ waited' = waited + 1
      BY <1>2, <1>3, <1>5, <2>1, <2>2 DEF TxReady, Drained
    <3> QED BY <1>1, <1>4, <1>5, <2>2, <3>1 DEF PaceInv
  <2>3. CASE txOut = <<>> \/ down
    <3>1. txOut' = <<>> /\ stalled' = 0 /\ TxReady(down)
      BY <1>2, <1>5, <2>1, <2>3 DEF TxReady, Drained
    <3>2. CASE packet = <<>>
      <4>1. txState' = "IDLE" /\ waited' = 0
        BY <1>2, <1>3, <1>5, <2>1, <2>3, <3>2
      <4> QED BY <1>4, <3>1, <4>1 DEF PaceInv
    <3>3. CASE packet # <<>>
      <4>1. txState' = "CALC" /\ waited' <= 1
        BY <1>1, <1>2, <1>3, <1>5, <2>1, <2>3, <3>1, <3>3
      <4> QED BY <1>4, <3>1, <4>1 DEF PaceInv
    <3> QED BY <3>2, <3>3
  <2> QED BY <2>2, <2>3
<1>6. CASE txState = "CALC"
  <2>1. txState' = "BEAT1" /\ stalled' = 0 /\ waited' = waited + 1
    BY <1>2, <1>3, <1>6 DEF TxTick, TxTake, TxCalc, TxBeat1
  <2> QED BY <1>1, <1>4, <1>6, <2>1 DEF PaceInv
<1>7. CASE txState = "BEAT1"
  <2>1. waited' = waited + 1 /\ txOut # <<>>
    BY <1>2, <1>3, <1>7
  <2>2. \/ down /\ txState' = "IDLE" /\ txOut' = tail
        \/ ~down /\ txState' = "BEAT1"
    BY <1>2, <1>7, <2>1 DEF TxTick, TxTake, TxCalc, TxBeat1
  <2>3. tail # <<>>
    BY <1>7, BeatFields DEF ChainInv
  <2>4. CASE down /\ txState' = "IDLE" /\ txOut' = tail
    <3>1. stalled' = 0 /\ txOut' # <<>>
      BY <1>2, <2>3, <2>4
    <3>2. waited' <= StallMax + 3
      BY <1>1, <1>7, <2>1
    <3> QED BY <1>1, <1>4, <2>4, <3>1, <3>2 DEF PaceInv
  <2>5. CASE ~down /\ txState' = "BEAT1"
    <3>1. stalled' = stalled + 1
      BY <1>2, <2>1, <2>5
    <3> QED BY <1>1, <1>4, <1>7, <2>1, <2>5, <3>1 DEF PaceInv
  <2> QED BY <2>2, <2>4, <2>5
<1> QED BY <1>5, <1>6, <1>7 DEF ChainInv

(****************************** the golden *********************************)

LEMMA GoldStep ==
    ASSUME TwoFoldsSuffice, ChainInv, GoldInv, NEW quote \in Maybe(Quote), NEW ack,
           NEW down \in BOOLEAN, Tick(quote, ack, down)
    PROVE  GoldInv'
<1> DEFINE acc  == Accepted(down)
           line == frame(build(gold.n, Head(acc)), gold.seq, gold.ident)
           new  == IF acc = <<>> THEN <<>> ELSE <<line>>
           gone == Leaving # <<>> /\ down
           takes == txState = "IDLE" /\ packet # <<>> /\ TxReady(down)
<1>1. /\ BuilderTick(order, TxReady(down)) /\ TxTick(packet, FALSE, down)
      /\ GoldLine(acc) /\ due' = (IF gone THEN Tail(due) ELSE due) \o Lines(acc)
  BY DEF Tick, PacketTaken
<1>2. /\ order \in Maybe(Intents) /\ packet \in Maybe(Payload)
      /\ txState \in {"IDLE", "CALC", "BEAT1"}
      /\ due = Front \o Behind /\ gold.n = tokenSeq
      /\ gold.seq = IF packet # <<>> THEN (SeqNext + PayldB) % SeqMod ELSE SeqNext
      /\ gold.ident = IF packet # <<>> THEN (IdNext + 1) % CsumMod ELSE IdNext
  BY DEF ChainInv, GoldInv
<1>3. Lines(acc) = new
  <2>1. acc = <<>> \/ acc = <<Head(acc)>>
    BY <1>2 DEF Accepted, Maybe
  <2>2. CASE acc = <<>>
    BY <2>2 DEF Lines
  <2>3. CASE acc = <<Head(acc)>>
    <3> DEFINE o == Head(acc)
    <3> HIDE DEF o
    <3>1. acc = <<o>>
      BY <2>3 DEF o
    <3> HIDE DEF acc
    <3>2. DOMAIN <<o>> = {1} /\ <<o>>[1] = o
      OBVIOUS
    <3>3. Lines(acc) = [i \in {1} |-> frame(build(gold.n, o), gold.seq, gold.ident)]
      BY <3>1, <3>2 DEF Lines
    <3>4. \A f : [i \in {1} |-> f] = <<f>>
      OBVIOUS
    <3>5. Lines(acc) = <<line>> /\ acc # <<>>
      BY <3>1, <3>3, <3>4 DEF o
    <3> QED BY <3>5
  <2> QED BY <2>1, <2>2, <2>3
<1>4. seqNum' = SeqNext /\ ipId' = IdNext
  BY <1>1 DEF TxTick, Count, SeqNext, IdNext
<1>5. /\ acc # <<>> => packet' = <<build(gold.n, Head(acc))>> /\ tokenSeq' = (tokenSeq + 1) % TokenMod
      /\ acc = <<>> => packet' = (IF TxReady(down) THEN <<>> ELSE packet) /\ tokenSeq' = tokenSeq
      /\ packet # <<>> /\ ~TxReady(down) => acc = <<>>
  BY <1>1, <1>2 DEF BuilderTick, Accepted, IntentReady, BuilderReady, build
<1>6. gold' = IF acc = <<>> THEN gold
              ELSE [n |-> (gold.n + 1) % TokenMod, seq |-> (gold.seq + PayldB) % SeqMod,
                    ident |-> (gold.ident + 1) % CsumMod]
  BY <1>1 DEF GoldLine
<1>7. gold'.n = tokenSeq'
  BY <1>2, <1>5, <1>6
<1>8. /\ Leaving # <<>> <=> txState = "IDLE" /\ txOut # <<>>
      /\ txState = "BEAT1" => txOut # <<>> /\ Head(tail).frame = Head(txOut).frame
      /\ txState = "CALC" => txOut = <<>>
  BY Places
<1>9. \A x : <<x>> # <<>> /\ Head(<<x>>) = x
  OBVIOUS
<1>10. ASSUME SeqNext' = gold.seq, IdNext' = gold.ident, packet = <<>> \/ TxReady(down)
       PROVE  /\ Behind' = new
              /\ gold'.seq = IF packet' # <<>> THEN (SeqNext' + PayldB) % SeqMod ELSE SeqNext'
              /\ gold'.ident = IF packet' # <<>> THEN (IdNext' + 1) % CsumMod ELSE IdNext'
  <2>1. CASE acc = <<>>
    <3>1. packet' = <<>> /\ gold' = gold
      BY <1>5, <1>6, <1>10, <2>1
    <3> QED BY <1>10, <2>1, <3>1 DEF Behind
  <2>2. CASE acc # <<>>
    <3>1. packet' # <<>> /\ Head(packet') = build(gold.n, Head(acc))
      BY <1>5, <1>9, <2>2
    <3>2. gold'.seq = (gold.seq + PayldB) % SeqMod /\ gold'.ident = (gold.ident + 1) % CsumMod
      BY <1>6, <2>2
    <3>3. Behind' = <<frame(Head(packet'), SeqNext', IdNext')>>
      BY <3>1 DEF Behind
    <3> QED BY <1>10, <2>2, <3>1, <3>2, <3>3
  <2> QED BY <2>1, <2>2
<1>11. CASE takes
  <2>1. txState' = "CALC" /\ hold' = packet /\ txState = "IDLE"
    BY <1>1, <1>11 DEF TxTick, TxTake, TxCalc, TxBeat1
  <2>2. SeqNext' = gold.seq /\ IdNext' = gold.ident
    BY <1>2, <1>4, <1>11, <2>1 DEF SeqNext, IdNext
  <2>3. Behind' = new
        /\ gold'.seq = (IF packet' # <<>> THEN (SeqNext' + PayldB) % SeqMod ELSE SeqNext')
        /\ gold'.ident = (IF packet' # <<>> THEN (IdNext' + 1) % CsumMod ELSE IdNext')
    BY <1>10, <1>11, <2>2
  <2> DEFINE b == frame(Head(packet), SeqNext, IdNext)
  <2>4. Behind = <<b>> /\ Front' = <<b>>
    BY <1>4, <1>11, <2>1 DEF Behind, Front
  <2>5. due' = <<b>> \o new
    <3> DEFINE a == Head(txOut).frame
    <3> HIDE DEF b
    <3>1. CASE txOut = <<>>
      <4>1. Front = <<>> /\ ~gone
        BY <1>8, <2>1, <3>1 DEF Front
      <4>2. due = <<b>>
        BY <1>2, <2>4, <4>1, Joined
      <4> QED BY <1>1, <1>3, <4>1, <4>2
    <3>2. CASE txOut # <<>>
      <4>1. Front = <<a>> /\ gone
        BY <1>8, <1>11, <2>1, <3>2 DEF Front, TxReady
      <4> HIDE DEF a
      <4>2. due = <<a>> \o <<b>>
        BY <1>2, <2>4, <4>1
      <4>3. \A x, y : Tail(<<x>> \o <<y>>) = <<y>>
        <5> TAKE x, y
        <5>1. <<x>> \o <<y>> = <<x, y>> /\ Tail(<<x, y>>) = <<y>>
          BY Joined, Zenon
        <5> QED BY <5>1, Zenon
      <4>4. Tail(due) = <<b>>
        BY <4>2, <4>3, Zenon
      <4> QED BY <1>1, <1>3, <4>1, <4>4
    <3> QED BY <3>1, <3>2
  <2> QED BY <1>7, <2>3, <2>4, <2>5 DEF GoldInv
<1>12. CASE ~takes
  <2>1. /\ txState' # "CALC"
        /\ Front' = IF gone THEN <<>> ELSE Front
    <3>1. CASE txState = "IDLE"
      <4>1. txState' = "IDLE" /\ txOut' = Drained(down)
        BY <1>1, <1>12, <3>1 DEF TxTick, TxTake, TxCalc, TxBeat1
      <4>2. Front = IF txOut # <<>> THEN <<Head(txOut).frame>> ELSE <<>>
        BY <3>1 DEF Front
      <4>3. Front' = IF txOut' # <<>> THEN <<Head(txOut').frame>> ELSE <<>>
        BY <4>1 DEF Front
      <4>4. gone <=> txOut # <<>> /\ down
        BY <1>8, <3>1
      <4> QED BY <4>1, <4>2, <4>3, <4>4 DEF Drained
    <3>2. CASE txState = "CALC"
      <4> DEFINE f == Assembled(Head(hold))
      <4>1. txOut' = <<HeadBeat(f)>> /\ txState' = "BEAT1"
        BY <1>1, <3>2 DEF TxTick, TxTake, TxCalc, TxBeat1
      <4>2. f = frame(Head(hold), seqNum, ipId)
        <5>1. Head(hold) \in Payload
          BY <3>2 DEF ChainInv
        <5> QED BY <5>1, FramesAgree
      <4> HIDE DEF f
      <4>3. txOut' # <<>> /\ Head(txOut').frame = f
        BY <4>1, BeatFields
      <4>4. Front = <<f>> /\ ~gone
        BY <1>8, <3>2, <4>2 DEF Front
      <4> QED BY <4>1, <4>3, <4>4 DEF Front
    <3>3. CASE txState = "BEAT1"
      <4>1. \/ txState' = "IDLE" /\ txOut' = tail
            \/ txState' = "BEAT1" /\ txOut' = txOut
        BY <1>1, <3>3 DEF TxTick, TxTake, TxCalc, TxBeat1
      <4>2. txOut # <<>> /\ Head(tail).frame = Head(txOut).frame /\ tail # <<>> /\ ~gone
        BY <1>8, <3>3, BeatFields DEF ChainInv
      <4> QED BY <3>3, <4>1, <4>2 DEF Front
    <3> QED BY <1>2, <3>1, <3>2, <3>3
  <2>2. SeqNext' = SeqNext /\ IdNext' = IdNext
    BY <1>4, <2>1 DEF SeqNext, IdNext
  <2>3. PICK a : Front = <<>> \/ Front = <<a>>
    BY DEF Front
  <2>4. gone => Front # <<>>
    BY <1>8, <1>9 DEF Front
  <2>5. CASE packet = <<>>
    <3>1. SeqNext' = gold.seq /\ IdNext' = gold.ident
      BY <1>2, <2>2, <2>5
    <3>2. Behind' = new
          /\ gold'.seq = (IF packet' # <<>> THEN (SeqNext' + PayldB) % SeqMod ELSE SeqNext')
          /\ gold'.ident = (IF packet' # <<>> THEN (IdNext' + 1) % CsumMod ELSE IdNext')
      BY <1>10, <2>5, <3>1
    <3>3. Behind = <<>>
      BY <2>5 DEF Behind
    <3>4. due = Front
      BY <1>2, <2>3, <3>3, Joined
    <3>5. (IF gone THEN Tail(due) ELSE due) = Front'
      BY <2>1, <2>3, <2>4, <3>4, Joined
    <3>6. due' = Front' \o Behind'
      BY <1>1, <1>3, <3>2, <3>5
    <3> QED BY <1>7, <3>2, <3>6 DEF GoldInv
  <2>6. CASE packet # <<>>
    <3>1. ~TxReady(down)
      BY <1>12, <2>6 DEF TxReady
    <3>2. acc = <<>> /\ packet' = packet /\ gold' = gold /\ new = <<>>
      BY <1>5, <1>6, <2>6, <3>1
    <3>3. ~gone
      BY <1>8, <3>1 DEF TxReady
    <3>4. Behind' = Behind /\ Front' = Front
      BY <2>1, <2>2, <3>2, <3>3 DEF Behind
    <3>5. due' = due
      <4> DEFINE b == frame(Head(packet), SeqNext, IdNext)
      <4>1. Behind = <<b>>
        BY <2>6 DEF Behind
      <4> HIDE DEF b
      <4>2. due = <<b>> \/ due = <<a, b>>
        <5>1. due = <<>> \o <<b>> \/ due = <<a>> \o <<b>>
          BY <1>2, <2>3, <4>1
        <5>2. \A x, y : <<>> \o <<y>> = <<y>> /\ <<x>> \o <<y>> = <<x, y>>
          BY Joined
        <5> QED BY <5>1, <5>2, Zenon
      <4>3. due' = due \o <<>>
        BY <1>1, <1>3, <3>2, <3>3
      <4>4. \A x, y : <<x>> \o <<>> = <<x>> /\ <<x, y>> \o <<>> = <<x, y>>
        BY Joined
      <4> QED BY <4>2, <4>3, <4>4
    <3> QED BY <1>2, <1>7, <2>2, <3>2, <3>4, <3>5 DEF GoldInv
  <2> QED BY <2>5, <2>6
<1> QED BY <1>11, <1>12

LEMMA ChainKept ==
    ASSUME UNCHANGED vars
    PROVE  /\ ChainInv => ChainInv'
           /\ SpacedInv => SpacedInv'
           /\ PaceInv => PaceInv'
           /\ GoldInv => GoldInv'
<1>1. /\ UNCHANGED <<stage1, sweep1, order, packet, tokenSeq, seqNum, ipId, txState, txOut, tail>>
      /\ UNCHANGED <<hold, followed, stalled, waited, gold, due>>
  BY DEF vars, strategyVars, builderVars, txVars
<1>2. ChainInv => ChainInv'
  BY <1>1 DEF ChainInv, Maybe, Payload, Token, Intents, HeadBeat, TailBeat
<1>3. SpacedInv => SpacedInv'
  BY <1>1 DEF SpacedInv
<1>4. PaceInv => PaceInv'
  BY <1>1 DEF PaceInv
<1>5. Front' = Front /\ Behind' = Behind /\ SeqNext' = SeqNext /\ IdNext' = IdNext
  BY <1>1 DEF Front, Behind, SeqNext, IdNext
<1>6. GoldInv => GoldInv'
  BY <1>1, <1>5 DEF GoldInv
<1> QED BY <1>2, <1>3, <1>4, <1>6

LEMMA ChainInvariant == Spec => [](ChainInv /\ SpacedInv /\ PaceInv)
<1> DEFINE I == ChainInv /\ SpacedInv /\ PaceInv
<1>1. Init => I
  BY InitChain
<1>2. I /\ [Next]_vars => I'
  <2> SUFFICES ASSUME I, [Next]_vars PROVE I'
    OBVIOUS
  <2>1. CASE Next
    <3>1. PICK quote \in Maybe(Quote), ack \in BOOLEAN, down \in BOOLEAN : Tick(quote, ack, down)
      BY <2>1 DEF Next
    <3> QED BY <3>1, ChainStep, SpacedStep, PaceStep
  <2>2. CASE UNCHANGED vars
    BY <2>2, ChainKept
  <2> QED BY <2>1, <2>2
<1> QED BY <1>1, <1>2, PTL DEF Spec

LEMMA GoldInvariant == ASSUME TwoFoldsSuffice PROVE Spec => [](ChainInv /\ GoldInv)
<1> DEFINE I == ChainInv /\ GoldInv
<1>1. Init => I
  BY InitChain
<1>2. I /\ [Next]_vars => I'
  <2> SUFFICES ASSUME I, [Next]_vars PROVE I'
    OBVIOUS
  <2>1. CASE Next
    <3>1. PICK quote \in Maybe(Quote), ack \in BOOLEAN, down \in BOOLEAN : Tick(quote, ack, down)
      BY <2>1 DEF Next
    <3> QED BY <3>1, ChainStep, GoldStep
  <2>2. CASE UNCHANGED vars
    BY <2>2, ChainKept
  <2> QED BY <2>1, <2>2
<1> QED BY <1>1, <1>2, PTL DEF Spec

(* An order asked for on a cycle that does not follow another is never     *)
(* lost between strategy and builder (strategy.sv's o_ready, ouch_builder).*)
THEOREM SpacedOrdersArrive == Spec => []SpacedNeverLost
<1>1. SpacedInv => SpacedNeverLost
  BY DEF SpacedInv, SpacedNeverLost, IntentReady, BuilderReady
<1> QED BY <1>1, ChainInvariant, PTL

(* While an order waits a frame leaves within two hold-offs and three      *)
(* cycles, however long a hold-off is (tcp_tx.sv, tx_replay_buf.sv).       *)
THEOREM FramesKeepMoving == Spec => []KeepsMoving
<1>1. ChainInv /\ PaceInv => KeepsMoving
  BY Widths DEF ChainInv, PaceInv, KeepsMoving
<1> QED BY <1>1, ChainInvariant, PTL

(* What leaves is what the software would have sent, byte for byte, for    *)
(* every width whose sums two folds are enough for (tcp_tx.sv, dump_tcp).  *)
THEOREM HardwareSendsGolden == ASSUME TwoFoldsSuffice PROVE Spec => []FramesAreGolden
<1>1. ChainInv /\ GoldInv => FramesAreGolden
  <2> SUFFICES ASSUME ChainInv, GoldInv PROVE FramesAreGolden
    OBVIOUS
  <2> DEFINE b == frame(Head(packet), SeqNext, IdNext)
             p == Head(packet)
  <2>1. /\ packet = <<>> \/ packet = <<p>>
        /\ Behind = IF packet # <<>> THEN <<b>> ELSE <<>>
        /\ due = Front \o Behind /\ b.payload = p
    BY DEF ChainInv, GoldInv, Behind, Maybe, frame
  <2>2. /\ Leaving = IF txState = "IDLE" /\ txOut # <<>>
                     THEN <<Head(txOut).frame.payload>> ELSE <<>>
        /\ Framing = IF txState = "CALC" THEN <<Head(hold)>>
                     ELSE IF txState = "BEAT1" THEN <<Head(txOut).frame.payload>> ELSE <<>>
        /\ txState = "BEAT1" => txOut # <<>> /\ Head(tail).frame = Head(txOut).frame
                                /\ ~Head(txOut).last
        /\ txState = "CALC" => txOut = <<>>
    BY Places
  <2>3. txState \in {"IDLE", "CALC", "BEAT1"}
    BY DEF ChainInv
  <2>4. \E a : \/ Front = <<>> /\ Leaving \o Framing = <<>> /\ txOut = <<>> /\ txState = "IDLE"
               \/ /\ Front = <<a>> /\ Leaving \o Framing = <<a.payload>>
                  /\ txOut # <<>> => a = Head(txOut).frame
                  /\ txState = "BEAT1" => a = Head(tail).frame
    <3>1. CASE txState = "CALC"
      <4> DEFINE a == frame(Head(hold), seqNum, ipId)
      <4>1. Front = <<a>> /\ a.payload = Head(hold) /\ Leaving = <<>> /\ Framing = <<Head(hold)>>
            /\ txOut = <<>>
        BY <2>2, <3>1 DEF Front, frame
      <4> HIDE DEF a
      <4>2. Leaving \o Framing = <<a.payload>>
        BY <4>1, Joined
      <4> QED BY <3>1, <4>1, <4>2
    <3>2. CASE txState # "CALC" /\ txOut # <<>>
      <4> DEFINE a == Head(txOut).frame
      <4>1. Front = <<a>>
        BY <3>2 DEF Front
      <4>2. Leaving \o Framing = <<a.payload>>
        <5>1. CASE txState = "IDLE"
          <6>1. Leaving = <<a.payload>> /\ Framing = <<>>
            BY <2>2, <3>2, <5>1
          <6> HIDE DEF a
          <6> QED BY <6>1, Joined
        <5>2. CASE txState = "BEAT1"
          <6>1. Leaving = <<>> /\ Framing = <<a.payload>>
            BY <2>2, <5>2
          <6> HIDE DEF a
          <6> QED BY <6>1, Joined
        <5> QED BY <2>3, <3>2, <5>1, <5>2
      <4>3. txState = "BEAT1" => a = Head(tail).frame
        BY <2>2
      <4> QED BY <4>1, <4>2, <4>3
    <3>3. CASE txState = "IDLE" /\ txOut = <<>>
      <4>1. Front = <<>> /\ Leaving = <<>> /\ Framing = <<>>
        BY <2>2, <3>3 DEF Front
      <4> QED BY <3>3, <4>1, Joined
    <3> QED BY <2>2, <2>3, <3>1, <3>2, <3>3
  <2>5. PICK a : \/ Front = <<>> /\ Leaving \o Framing = <<>> /\ txOut = <<>> /\ txState = "IDLE"
                 \/ /\ Front = <<a>> /\ Leaving \o Framing = <<a.payload>>
                    /\ txOut # <<>> => a = Head(txOut).frame
                    /\ txState = "BEAT1" => a = Head(tail).frame
    BY <2>4
  <2> HIDE DEF b, p
  <2>6. Pipeline = (Leaving \o Framing) \o packet
    BY DEF Pipeline
  <2>7. \A x, y : /\ [i \in DOMAIN <<>> |-> <<>>[i].payload] = <<>>
                  /\ [i \in DOMAIN <<x>> |-> <<x>>[i].payload] = <<x.payload>>
                  /\ [i \in DOMAIN <<x, y>> |-> <<x, y>>[i].payload] = <<x.payload, y.payload>>
    OBVIOUS
  <2>8. /\ Pipeline = [i \in DOMAIN due |-> due[i].payload]
        /\ Front = <<a>> => Head(due) = a
    <3>1. CASE Front = <<>> /\ Leaving \o Framing = <<>> /\ packet = <<>>
      <4>1. due = <<>> /\ Pipeline = <<>>
        BY <2>1, <2>6, <3>1, Joined
      <4>2. Front # <<a>>
        BY <3>1
      <4> QED BY <2>7, <4>1, <4>2
    <3>2. CASE Front = <<>> /\ Leaving \o Framing = <<>> /\ packet = <<p>>
      <4>1. due = <<b>> /\ Pipeline = <<b.payload>>
        BY <2>1, <2>6, <3>2, Joined
      <4>2. Front # <<a>>
        BY <3>2
      <4> QED BY <2>7, <4>1, <4>2
    <3>3. CASE Front = <<a>> /\ Leaving \o Framing = <<a.payload>> /\ packet = <<>>
      <4>1. due = <<a>> /\ Pipeline = <<a.payload>>
        BY <2>1, <2>6, <3>3, Joined
      <4> QED BY <2>7, <4>1, Joined
    <3>4. CASE Front = <<a>> /\ Leaving \o Framing = <<a.payload>> /\ packet = <<p>>
      <4>1. due = <<a, b>> /\ Pipeline = <<a.payload, b.payload>>
        BY <2>1, <2>6, <3>4, Joined
      <4> QED BY <2>7, <4>1, Joined
    <3> QED BY <2>1, <2>5, <3>1, <3>2, <3>3, <3>4
  <2>9. txOut # <<>> => Head(txOut).frame = Head(due)
    BY <2>5, <2>8
  <2>10. txState = "BEAT1" => Head(tail).frame = Head(due) /\ (txOut # <<>> => ~Head(txOut).last)
    BY <2>2, <2>5, <2>8
  <2> QED BY <2>8, <2>9, <2>10 DEF FramesAreGolden
<1> QED BY <1>1, GoldInvariant, PTL
-----------------------------------------------------------------------------
(******************** what sends an order again ****************************)

(* Order tokens and sequence numbers are 32-bit registers both.            *)
SameWidth == TokenMod = SeqMod

NextToken(t) == (t + 1) % TokenMod

(* The frame is the order its sequence number stands for.                  *)
Good(f) == f.payload.token \in Token /\ f.seq = SeqOf(f.payload.token)

(* A beat of a good frame.                                                 *)
IsBeat(beat, last) ==
    /\ beat = <<[frame |-> Head(beat).frame, last |-> last]>>
    /\ Good(Head(beat).frame)

(* The order whose frame the framer numbers next.                          *)
FirstToken == IF txState = "CALC" THEN Head(hold).token
              ELSE IF packet # <<>> THEN Head(packet).token ELSE tokenSeq

(* Builder and framer count in step, and the framer's output is empty      *)
(* while it sums.                                                          *)
FramerInv ==
    /\ txState \in {"IDLE", "CALC", "BEAT1"}
    /\ tokenSeq \in Token /\ seqNum = SeqOf(FirstToken)
    /\ packet # <<>> => /\ packet = <<Head(packet)>> /\ Head(packet).token \in Token
                        /\ tokenSeq = NextToken(Head(packet).token)
    /\ txState = "CALC" =>
         /\ hold = <<Head(hold)>> /\ Head(hold).token \in Token /\ txOut = <<>>
         /\ packet # <<>> => NextToken(Head(hold).token) = Head(packet).token
         /\ packet = <<>> => NextToken(Head(hold).token) = tokenSeq
    /\ txState = "BEAT1" => IsBeat(txOut, FALSE) /\ tail = <<TailBeat(Head(txOut).frame)>>
    /\ txState = "IDLE" => txOut = <<>> \/ IsBeat(txOut, TRUE)

(* The ring: what a slot is said to hold is a whole frame, except the slot *)
(* that is written between the two beats of a live frame; no request is    *)
(* taken there, and none of its beats while a frame is sent again.         *)
Halfway  == txOut # <<>> /\ Head(txOut).last
WholeFrame(words) == /\ IsBeat(words[0], FALSE)
                     /\ words[1] = <<TailBeat(Head(words[0]).frame)>>
WholeSlot(s) == WholeFrame(ring[s])

IsRing(r) == r = [s \in Slot |-> [n \in BeatNum |-> r[s][n]]]

RingInv ==
    /\ IsRing(ring)
    /\ slotLen \in [Slot -> {0, 2}]
    /\ wrSlot \in Slot
    /\ wrBeat = IF Halfway THEN 1 ELSE 0
    /\ Halfway => ring[wrSlot][0] = <<HeadBeat(Head(txOut).frame)>>
    /\ \A s \in Slot : slotLen[s] = 2 /\ ~(s = wrSlot /\ Halfway) => WholeSlot(s)

ResendInv ==
    /\ rpBusy \in BOOLEAN /\ heldOff \in 0..2
    /\ rpBusy => /\ rpBeat \in 0..1 /\ rpLen = 2 /\ heldOff <= rpBeat
                 /\ rpSlot \in Slot /\ WholeSlot(rpSlot) /\ ~Halfway
    /\ midFrame = IF rpBusy THEN (IF rpBeat = 1 THEN {Head(ring[rpSlot][0]).frame} ELSE {})
                  ELSE IF Halfway THEN {Head(txOut).frame} ELSE {}

Ages == {<<>>} \cup {<<a>> : a \in 0..(Slots - 1)}

WireInv == FramerInv /\ RingInv /\ ResendInv /\ rtoReq \in Ages

(****************************** arithmetic *********************************)

LEMMA ModMultiple ==
    ASSUME NEW m \in Nat \ {0}, NEW x \in Int, NEW k \in Int
    PROVE  (x + m * k) % m = x % m
<1> DEFINE d == x \div m
           r == x % m
<1>1. x = m * d + r /\ d \in Int /\ r \in 0..(m - 1)
  BY Quotient
<1> HIDE DEF d, r
<1>2. x + m * k = m * (d + k) + r /\ d + k \in Int
  BY <1>1
<1>3. (m * (d + k) + r) % m = r
  BY <1>1, <1>2, Remainder
<1> QED BY <1>2, <1>3 DEF r

LEMMA ModSum ==
    ASSUME NEW m \in Nat \ {0}, NEW x \in Int, NEW k \in Int
    PROVE  ((x % m) + k) % m = (x + k) % m
<1> DEFINE d == x \div m
           r == x % m
<1>1. x = m * d + r /\ d \in Int /\ r \in Int
  BY Quotient
<1> HIDE DEF d, r
<1>2. x + k = (r + k) + m * d /\ r + k \in Int
  BY <1>1
<1>3. ((r + k) + m * d) % m = (r + k) % m
  BY <1>1, <1>2, ModMultiple
<1> QED BY <1>2, <1>3 DEF r

(* The next order's sequence number is the last one's, a payload on, when  *)
(* the tokens wrap as well.                                                *)
LEMMA NextSeq ==
    ASSUME SameWidth, NEW t \in Token
    PROVE  NextToken(t) \in Token /\ SeqOf(NextToken(t)) = (SeqOf(t) + PayldB) % SeqMod
<1>1. /\ SeqMod \in Nat \ {0} /\ PayldB \in Nat /\ InitSeq \in Int /\ t \in Int
      /\ t \in 0..(SeqMod - 1) /\ TokenMod = SeqMod
  BY SeqAssumption DEF SameWidth, Token
<1> DEFINE x == InitSeq + PayldB * t
<1>2. x \in Int
  BY <1>1
<1> HIDE DEF x
<1>3. ((x % SeqMod) + PayldB) % SeqMod = (x + PayldB) % SeqMod
  <2>1. \A y, k \in Int : ((y % SeqMod) + k) % SeqMod = (y + k) % SeqMod
    BY <1>1, ModSum
  <2>2. PayldB \in Int
    BY <1>1
  <2> QED BY <1>2, <2>1, <2>2, Zenon
<1>4. CASE t + 1 < SeqMod
  <2>1. (t + 1) % SeqMod = t + 1
    BY <1>1, <1>4
  <2>2. InitSeq + PayldB * (t + 1) = x + PayldB
    BY <1>1 DEF x
  <2> QED BY <1>1, <1>3, <1>4, <2>1, <2>2 DEF NextToken, SeqOf, Token, x
<1>5. CASE t + 1 = SeqMod
  <2>1. (t + 1) % SeqMod = 0
    BY <1>1, <1>5
  <2>2. x + PayldB = InitSeq + SeqMod * PayldB
    BY <1>1, <1>5 DEF x
  <2>3. (InitSeq + SeqMod * PayldB) % SeqMod = InitSeq % SeqMod
    <3>1. \A y, k \in Int : (y + SeqMod * k) % SeqMod = y % SeqMod
      BY <1>1, ModMultiple
    <3>2. InitSeq \in Int /\ PayldB \in Int
      BY <1>1
    <3> QED BY <3>1, <3>2, Zenon
  <2>4. InitSeq + PayldB * 0 = InitSeq
    BY <1>1
  <2>5. NextToken(t) = 0 /\ 0 \in Token
    BY <1>1, <2>1 DEF NextToken, Token
  <2> QED BY <1>3, <2>2, <2>3, <2>4, <2>5 DEF SeqOf, x
<1> QED BY <1>1, <1>4, <1>5

(****************************** the framer *********************************)

LEMMA HeadIsBeat ==
    ASSUME NEW f, Good(f)
    PROVE  /\ IsBeat(<<HeadBeat(f)>>, FALSE)
           /\ Head(<<HeadBeat(f)>>).frame = f /\ Head(<<HeadBeat(f)>>).last = FALSE
<1>1. Head(<<HeadBeat(f)>>) = HeadBeat(f) /\ HeadBeat(f).frame = f /\ HeadBeat(f).last = FALSE
  BY DEF HeadBeat
<1> QED BY <1>1 DEF IsBeat, HeadBeat

LEMMA TailIsBeat ==
    ASSUME NEW f, Good(f)
    PROVE  /\ IsBeat(<<TailBeat(f)>>, TRUE)
           /\ Head(<<TailBeat(f)>>).frame = f /\ Head(<<TailBeat(f)>>).last = TRUE
<1>1. Head(<<TailBeat(f)>>) = TailBeat(f) /\ TailBeat(f).frame = f /\ TailBeat(f).last = TRUE
  BY DEF TailBeat
<1> QED BY <1>1 DEF IsBeat, TailBeat

LEMMA FramerStep ==
    ASSUME SameWidth, FramerInv, NEW intent, NEW down \in BOOLEAN,
           BuilderTick(intent, TxReady(down)), TxTick(packet, FALSE, down)
    PROVE  FramerInv'
<1> DEFINE taken == txState = "IDLE" /\ packet # <<>> /\ TxReady(down)
<1>1. ASSUME NEW t \in Token PROVE NextToken(t) \in Token
  BY <1>1, NextSeq
<1>2. \/ /\ packet' = <<[token |-> tokenSeq, intent |-> Head(intent)]>>
         /\ tokenSeq' = NextToken(tokenSeq) /\ (packet = <<>> \/ TxReady(down))
      \/ packet' = (IF TxReady(down) THEN <<>> ELSE packet) /\ tokenSeq' = tokenSeq
  BY DEF BuilderTick, BuilderReady, NextToken
<1>3. seqNum' = IF txState = "CALC" THEN (seqNum + PayldB) % SeqMod ELSE seqNum
  BY DEF TxTick, Count
<1>4. CASE txState = "CALC"
  <2> DEFINE f == Assembled(Head(hold))
  <2>1. /\ txOut' = <<HeadBeat(f)>> /\ tail' = <<TailBeat(f)>> /\ txState' = "BEAT1"
    BY <1>4 DEF TxTick, TxTake, TxCalc, TxBeat1
  <2>2. f.seq = seqNum /\ f.payload = Head(hold)
    BY DEF Assembled
  <2>3. Good(f)
    BY <1>4, <2>2 DEF Good, FramerInv, FirstToken
  <2> HIDE DEF f
  <2>5. IsBeat(txOut', FALSE) /\ tail' = <<TailBeat(Head(txOut').frame)>>
    BY <2>1, <2>3, HeadIsBeat
  <2>6. ~TxReady(down) /\ Head(hold).token \in Token
    BY <1>4 DEF TxReady, FramerInv
  <2>7. /\ packet' # <<>> => /\ packet' = <<Head(packet')>> /\ Head(packet').token \in Token
                             /\ tokenSeq' = NextToken(Head(packet').token)
        /\ tokenSeq' \in Token
        /\ NextToken(Head(hold).token)
             = IF packet' # <<>> THEN Head(packet').token ELSE tokenSeq'
    BY <1>1, <1>2, <1>4, <2>6 DEF FramerInv
  <2>8. seqNum' = SeqOf(NextToken(Head(hold).token))
    BY <1>3, <1>4, <2>6, NextSeq DEF FramerInv, FirstToken
  <2> QED BY <2>1, <2>5, <2>7, <2>8 DEF FramerInv, FirstToken, IsBeat, Good, SeqOf, NextToken,
             TailBeat
<1>5. CASE txState = "BEAT1"
  <2>1. ~TxReady(down) /\ seqNum' = seqNum
    BY <1>3, <1>5 DEF TxReady
  <2>2. /\ packet' # <<>> => /\ packet' = <<Head(packet')>> /\ Head(packet').token \in Token
                             /\ tokenSeq' = NextToken(Head(packet').token)
        /\ tokenSeq' \in Token
        /\ FirstToken = IF packet' # <<>> THEN Head(packet').token ELSE tokenSeq'
    BY <1>1, <1>2, <1>5, <2>1 DEF FramerInv, FirstToken
  <2>3. /\ IsBeat(txOut, FALSE) /\ tail = <<TailBeat(Head(txOut).frame)>>
        /\ seqNum = SeqOf(FirstToken)
    BY <1>5 DEF FramerInv
  <2>4. \/ txState' = "IDLE" /\ txOut' = tail
        \/ txState' = "BEAT1" /\ txOut' = txOut /\ tail' = tail
    BY <1>5 DEF TxTick, TxTake, TxCalc, TxBeat1
  <2>5. CASE txState' = "IDLE" /\ txOut' = tail
    <3>1. IsBeat(txOut', TRUE)
      BY <2>3, <2>5, TailIsBeat DEF IsBeat
    <3> QED BY <2>1, <2>2, <2>3, <2>5, <3>1 DEF FramerInv, FirstToken, IsBeat, Good, SeqOf,
               NextToken
  <2>6. CASE txState' = "BEAT1" /\ txOut' = txOut /\ tail' = tail
    BY <2>1, <2>2, <2>3, <2>6 DEF FramerInv, FirstToken, IsBeat, Good, SeqOf, NextToken, TailBeat
  <2> QED BY <2>4, <2>5, <2>6
<1>6. CASE txState = "IDLE"
  <2>1. /\ txOut' = Drained(down)
        /\ IF packet # <<>> /\ TxReady(down) THEN txState' = "CALC" /\ hold' = packet
           ELSE txState' = "IDLE" /\ hold' = hold
    BY <1>6 DEF TxTick, TxTake, TxCalc, TxBeat1
  <2>2. seqNum' = seqNum /\ seqNum = SeqOf(FirstToken)
    BY <1>3, <1>6 DEF FramerInv
  <2>3. txOut' = <<>> \/ IsBeat(txOut', TRUE)
    BY <1>6, <2>1 DEF FramerInv, Drained
  <2>4. /\ packet' # <<>> => /\ packet' = <<Head(packet')>> /\ Head(packet').token \in Token
                             /\ tokenSeq' = NextToken(Head(packet').token)
        /\ tokenSeq' \in Token
    BY <1>1, <1>2, <1>6 DEF FramerInv
  <2>5. CASE packet # <<>> /\ TxReady(down)
    <3>1. txOut' = <<>>
      BY <2>1, <2>5 DEF TxReady, Drained
    <3>2. hold' = <<Head(hold')>> /\ Head(hold') = Head(packet) /\ Head(packet).token \in Token
      BY <2>1, <2>5 DEF FramerInv
    <3>3. FirstToken = Head(packet).token
      BY <1>6, <2>5 DEF FirstToken
    <3>4. NextToken(Head(packet).token) = IF packet' # <<>> THEN Head(packet').token ELSE tokenSeq'
      BY <1>2, <2>5 DEF FramerInv
    <3> QED BY <2>1, <2>2, <2>4, <2>5, <3>1, <3>2, <3>3, <3>4 DEF FramerInv, FirstToken, SeqOf,
               NextToken, Token
  <2>6. CASE ~(packet # <<>> /\ TxReady(down))
    <3>1. FirstToken = IF packet' # <<>> THEN Head(packet').token ELSE tokenSeq'
      BY <1>2, <1>6, <2>6 DEF FirstToken
    <3> QED BY <2>1, <2>2, <2>3, <2>4, <2>6, <3>1 DEF FramerInv, FirstToken, IsBeat, Good, SeqOf,
               NextToken, Token
  <2> QED BY <2>5, <2>6
<1> QED BY <1>4, <1>5, <1>6 DEF FramerInv

(* What the framer's output does at a clock.                               *)
LEMMA OutputMoves ==
    ASSUME FramerInv, NEW down \in BOOLEAN, TxTick(packet, FALSE, down)
    PROVE  /\ Halfway => IsBeat(txOut, TRUE) /\ txOut' = IF down THEN <<>> ELSE txOut
           /\ txOut # <<>> /\ ~Halfway =>
                /\ IsBeat(txOut, FALSE)
                /\ txOut' = IF down THEN <<TailBeat(Head(txOut).frame)>> ELSE txOut
           /\ txOut = <<>> => txOut' = <<>> \/ IsBeat(txOut', FALSE)
<1>1. ASSUME NEW last, NEW b, IsBeat(b, last)
      PROVE  b # <<>> /\ Head(b).last = last
  <2> DEFINE r == [frame |-> Head(b).frame, last |-> last]
  <2>1. b = <<r>> /\ r.last = last
    BY <1>1 DEF IsBeat
  <2> HIDE DEF r
  <2> QED BY <2>1
<1>2. CASE txState = "CALC"
  <2>1. txOut = <<>> /\ ~Halfway /\ txOut' = <<HeadBeat(Assembled(Head(hold)))>>
    BY <1>2 DEF FramerInv, Halfway, TxTick, TxTake, TxCalc, TxBeat1
  <2>2. Assembled(Head(hold)).seq = seqNum /\ Assembled(Head(hold)).payload = Head(hold)
    BY DEF Assembled
  <2>3. Good(Assembled(Head(hold)))
    BY <1>2, <2>2 DEF Good, FramerInv, FirstToken
  <2>4. IsBeat(txOut', FALSE)
    BY <2>1, <2>3, HeadIsBeat
  <2> QED BY <2>1, <2>4
<1>3. CASE txState = "BEAT1"
  <2>1. IsBeat(txOut, FALSE) /\ tail = <<TailBeat(Head(txOut).frame)>>
    BY <1>3 DEF FramerInv
  <2>2. txOut # <<>> /\ ~Halfway
    BY <1>1, <2>1 DEF Halfway
  <2>3. txOut' = IF down THEN tail ELSE txOut
    BY <1>3, <2>2 DEF TxTick, TxTake, TxCalc, TxBeat1
  <2> QED BY <2>1, <2>2, <2>3
<1>4. CASE txState = "IDLE"
  <2>1. txOut' = Drained(down)
    BY <1>4 DEF TxTick, TxTake, TxCalc, TxBeat1
  <2>2. txOut = <<>> \/ (IsBeat(txOut, TRUE) /\ Halfway)
    BY <1>1, <1>4 DEF FramerInv, Halfway
  <2> QED BY <2>1, <2>2 DEF Drained, Halfway
<1> QED BY <1>2, <1>3, <1>4 DEF FramerInv

LEMMA BeatFacts ==
    ASSUME NEW last, NEW b, IsBeat(b, last)
    PROVE  /\ b # <<>> /\ Head(b).last = last /\ Good(Head(b).frame)
           /\ b = <<[frame |-> Head(b).frame, last |-> last]>>
<1> DEFINE r == [frame |-> Head(b).frame, last |-> last]
<1>1. b = <<r>> /\ r.last = last
  BY DEF IsBeat
<1> HIDE DEF r
<1>2. b # <<>> /\ Head(b).last = last
  BY <1>1
<1> QED BY <1>2 DEF IsBeat

(************************ the ring and the replay **************************)

LEMMA RingFacts ==
    /\ Slots \in Nat \ {0} /\ BeatNum = {0, 1} /\ Beats = 2 /\ RtoSlots = Slots
    /\ HostAges \subseteq 0..(Slots - 1)
<1>1. Slots \in Nat \ {0} /\ Beats = 2 /\ RtoSlots = Slots /\ HostAges \subseteq 0..(Slots - 1)
  BY RingAssumption, WiringAssumption
<1>2. BeatNum = {0, 1}
  BY <1>1 DEF BeatNum
<1> QED BY <1>1, <1>2

LEMMA FrameCount ==
    ASSUME NEW bytes
    PROVE  FramesIn(bytes) \in 0..Slots
<1> DEFINE S == 0..(RtoSlots - 1)
           T == {k \in S : bytes > k * RtoPayldB}
<1>1. Slots \in Nat \ {0} /\ RtoSlots = Slots /\ 0 \in Int /\ RtoSlots - 1 \in Int
  BY RingFacts
<1>2. IsFiniteSet(S) /\ Cardinality(S) = Slots
  BY <1>1, FS_Interval
<1>3. T \in SUBSET S
  OBVIOUS
<1> HIDE DEF S, T
<1>4. IsFiniteSet(T) /\ Cardinality(T) <= Slots
  BY <1>2, <1>3, FS_Subset
<1>5. Cardinality(T) \in Nat
  BY <1>4, FS_CardinalityType
<1> QED BY <1>1, <1>4, <1>5 DEF FramesIn, S, T

LEMMA AgeType ==
    ASSUME NEW seq, NEW ack
    PROVE  OldestAge(seq, ack) \in 0..(Slots - 1)
<1> DEFINE n == FramesIn(Ahead(seq, ack))
<1>1. Slots \in Nat \ {0} /\ RtoSlots = Slots /\ n \in 0..Slots
  BY RingFacts, FrameCount
<1>2. OldestAge(seq, ack) = IF n = 0 THEN 0 ELSE (n - 1) % RtoSlots
  BY DEF OldestAge
<1> HIDE DEF n
<1>3. (n - 1) % RtoSlots \in 0..(RtoSlots - 1)
  BY <1>1, Quotient
<1> QED BY <1>1, <1>2, <1>3

LEMMA RequestType ==
    ASSUME rtoReq \in Ages
    PROVE  /\ RtoTick(seqNum, peerAck) => rtoReq' \in Ages
           /\ \A hostAge \in {<<>>} \cup {<<a>> : a \in HostAges} : Requests(hostAge) \in Ages
<1>1. OldestAge(seqNum, peerAck) \in 0..(Slots - 1) /\ HostAges \subseteq 0..(Slots - 1)
  BY AgeType, RingFacts
<1>2. RtoTick(seqNum, peerAck) => rtoReq' \in Ages
  BY <1>1 DEF RtoTick, RtoProgress, RtoIdle, RtoWait, RtoFire, RtoGiveUp, Quiet, Ages
<1> QED BY <1>1, <1>2 DEF Requests, Ages

(* A request is taken for a whole frame, between two frames of the wire.   *)
LEMMA AcceptFacts ==
    ASSUME RingInv, NEW request \in Ages, Accepts(request, txOut)
    PROVE  LET s == AgedSlot(Head(request)) IN
           /\ txOut = <<>> /\ ~rpBusy /\ ~Halfway
           /\ s \in Slot /\ slotLen[s] = 2 /\ WholeSlot(s)
<1> DEFINE s == AgedSlot(Head(request))
<1>1. txOut = <<>> /\ ~rpBusy /\ ~Halfway /\ request # <<>> /\ slotLen[s] # 0
  BY DEF Accepts, Stored, Halfway
<1>2. Head(request) \in 0..(Slots - 1)
  BY <1>1 DEF Ages
<1>3. s \in Slot
  <2>1. Slots \in Nat \ {0} /\ wrSlot - 1 - Head(request) \in Int
    BY <1>2, RingFacts DEF RingInv, Slot
  <2>2. (wrSlot - 1 - Head(request)) % Slots \in 0..(Slots - 1)
    BY <2>1, Quotient
  <2> QED BY <2>2 DEF AgedSlot, Slot
<1>4. slotLen[s] = 2
  BY <1>1, <1>3 DEF RingInv
<1>5. WholeSlot(s)
  BY <1>1, <1>3, <1>4 DEF RingInv
<1> QED BY <1>1, <1>3, <1>4, <1>5

(* A beat is written, and nothing else.                                    *)
Written(q, r, w, n, x) == /\ IsRing(r)
                          /\ q = [r EXCEPT ![w] = [r[w] EXCEPT ![n] = x]]

Wrote(q, r, w, n, x) == /\ IsRing(q)
                        /\ \A s \in Slot : s # w => q[s] = r[s]
                        /\ q[w][n] = x
                        /\ n = 1 => q[w][0] = r[w][0]

LEMMA RingWrite ==
    ASSUME NEW r, NEW q, NEW w \in Slot, NEW n \in {0, 1}, NEW x, Written(q, r, w, n, x)
    PROVE  Wrote(q, r, w, n, x)
<1>1. BeatNum = {0, 1}
  BY RingFacts
<1> DEFINE b == [r[w] EXCEPT ![n] = x]
<1>2. r[w] = [i \in BeatNum |-> r[w][i]] /\ \A s \in Slot : r[s] = [i \in BeatNum |-> r[s][i]]
  BY DEF Written, IsRing
<1>3. b[n] = x /\ \A i \in BeatNum : i # n => b[i] = r[w][i]
  BY <1>1, <1>2
<1>4. b = [i \in BeatNum |-> b[i]]
  BY <1>1, <1>2
<1> HIDE DEF b
<1>5. q = [s \in Slot |-> IF s = w THEN b ELSE r[s]]
  BY DEF b, Written, IsRing
<1>6. q[w] = b /\ \A s \in Slot : s # w => q[s] = r[s]
  BY <1>5
<1>7. ASSUME NEW s \in Slot PROVE q[s] = [i \in BeatNum |-> q[s][i]]
  <2>1. CASE s = w
    BY <1>4, <1>6, <2>1
  <2>2. CASE s # w
    BY <1>2, <1>6, <2>2
  <2> QED BY <2>1, <2>2
<1>8. q = [s \in Slot |-> q[s]]
  BY <1>5
<1>9. q = [s \in Slot |-> [i \in BeatNum |-> q[s][i]]]
  BY <1>7, <1>8
<1>10. n = 1 => q[w][0] = r[w][0]
  BY <1>1, <1>3, <1>6
<1> QED BY <1>1, <1>3, <1>6, <1>9, <1>10 DEF IsRing, Wrote

(* A slot that keeps its words stays whole.                                *)
LEMMA SlotKept ==
    ASSUME NEW s \in Slot, ring'[s] = ring[s]
    PROVE  WholeSlot(s)' <=> WholeSlot(s)
  BY DEF WholeSlot

LEMMA RingStep ==
    ASSUME FramerInv, RingInv, TxTick(packet, FALSE, LiveReady), rpBusy \in BOOLEAN,
           IF txOut # <<>> /\ LiveReady THEN Store(txOut) ELSE UNCHANGED storeVars
    PROVE  RingInv'
<1>1. /\ Halfway => IsBeat(txOut, TRUE) /\ txOut' = IF LiveReady THEN <<>> ELSE txOut
      /\ txOut # <<>> /\ ~Halfway =>
           /\ IsBeat(txOut, FALSE)
           /\ txOut' = IF LiveReady THEN <<TailBeat(Head(txOut).frame)>> ELSE txOut
      /\ txOut = <<>> => txOut' = <<>> \/ IsBeat(txOut', FALSE)
  BY OutputMoves DEF LiveReady
<1>2. /\ IsRing(ring)
      /\ slotLen \in [Slot -> {0, 2}] /\ wrSlot \in Slot
      /\ wrBeat = IF Halfway THEN 1 ELSE 0
      /\ Halfway => ring[wrSlot][0] = <<HeadBeat(Head(txOut).frame)>>
      /\ \A s \in Slot : slotLen[s] = 2 /\ ~(s = wrSlot /\ Halfway) => WholeSlot(s)
  BY DEF RingInv
<1>3. BeatNum = {0, 1} /\ Beats = 2 /\ Slots \in Nat \ {0}
  BY RingFacts
<1>4. CASE txOut # <<>> /\ LiveReady /\ Halfway
  <2> DEFINE f == Head(txOut).frame
             w == wrSlot
  <2>1. txOut = <<TailBeat(f)>> /\ Good(f) /\ Head(txOut).last /\ txOut' = <<>> /\ ~Halfway'
    BY <1>1, <1>4, BeatFacts DEF TailBeat, Halfway
  <2>2. /\ ring' = [ring EXCEPT ![w] = [ring[w] EXCEPT ![1] = txOut]]
        /\ slotLen' = [slotLen EXCEPT ![w] = 2]
        /\ wrBeat' = 0 /\ wrSlot' = (w + 1) % Slots
    <3>1. Store(txOut) /\ wrBeat = 1 /\ wrBeat < Beats
      BY <1>2, <1>3, <1>4
    <3> QED BY <2>1, <3>1 DEF Store
  <2>3. /\ \A s \in Slot : s # w => ring'[s] = ring[s]
        /\ ring'[w][0] = ring[w][0] /\ ring'[w][1] = txOut
        /\ IsRing(ring')
    <3>1. Written(ring', ring, w, 1, txOut) /\ w \in Slot /\ 1 \in {0, 1}
      BY <1>2, <2>2 DEF Written
    <3>2. Wrote(ring', ring, w, 1, txOut)
      BY <3>1, RingWrite
    <3> QED BY <3>2 DEF Wrote
  <2>4. wrSlot' \in Slot
    <3>1. w + 1 \in Int
      BY <1>2 DEF Slot
    <3>2. (w + 1) % Slots \in 0..(Slots - 1)
      BY <1>3, <3>1, Quotient
    <3> QED BY <2>2, <3>2 DEF Slot
  <2>5. \A s \in Slot : s = w => WholeSlot(s)'
    <3>1. ring'[w][0] = <<HeadBeat(f)>> /\ ring'[w][1] = <<TailBeat(f)>>
      BY <1>2, <1>4, <2>1, <2>3
    <3>2. IsBeat(ring'[w][0], FALSE) /\ Head(ring'[w][0]).frame = f
      BY <2>1, <3>1, HeadIsBeat
    <3>3. WholeFrame(ring'[w])
      BY <3>1, <3>2 DEF WholeFrame
    <3> QED BY <3>3 DEF WholeSlot
  <2>6. ASSUME NEW s \in Slot, slotLen'[s] = 2
        PROVE  WholeSlot(s)'
    <3>1. CASE s = w
      BY <2>5, <3>1
    <3>2. CASE s # w
      <4>1. slotLen[s] = 2
        BY <1>2, <2>2, <2>6, <3>2
      <4> QED BY <1>2, <2>3, <3>2, <4>1, SlotKept
    <3> QED BY <3>1, <3>2
  <2>7. slotLen' \in [Slot -> {0, 2}]
    BY <1>2, <2>2
  <2> QED BY <2>1, <2>2, <2>3, <2>4, <2>6, <2>7 DEF RingInv, IsRing, BeatNum, Slot
<1>5. CASE txOut # <<>> /\ LiveReady /\ ~Halfway
  <2> DEFINE f == Head(txOut).frame
             w == wrSlot
  <2>1. /\ txOut = <<HeadBeat(f)>> /\ Good(f) /\ ~Head(txOut).last
        /\ txOut' = <<TailBeat(f)>> /\ Halfway' /\ Head(txOut').frame = f
    <3>1. txOut = <<HeadBeat(f)>> /\ Good(f) /\ Head(txOut).last = FALSE
      BY <1>1, <1>5, BeatFacts DEF HeadBeat
    <3>2. txOut' = <<TailBeat(f)>>
      BY <1>1, <1>5
    <3>3. Head(txOut').frame = f /\ Head(txOut').last = TRUE
      BY <3>1, <3>2, TailIsBeat
    <3>4. txOut' # <<>>
      BY <3>2
    <3> QED BY <3>1, <3>2, <3>3, <3>4 DEF Halfway
  <2>2. /\ ring' = [ring EXCEPT ![w] = [ring[w] EXCEPT ![0] = txOut]]
        /\ slotLen' = slotLen /\ wrBeat' = 1 /\ wrSlot' = w
    <3>1. Store(txOut) /\ wrBeat = 0 /\ wrBeat < Beats
      BY <1>2, <1>3, <1>5
    <3> QED BY <2>1, <3>1 DEF Store
  <2>3. /\ \A s \in Slot : s # w => ring'[s] = ring[s]
        /\ ring'[w][0] = txOut
        /\ IsRing(ring')
    <3>1. Written(ring', ring, w, 0, txOut) /\ w \in Slot /\ 0 \in {0, 1}
      BY <1>2, <2>2 DEF Written
    <3>2. Wrote(ring', ring, w, 0, txOut)
      BY <3>1, RingWrite
    <3> QED BY <3>2 DEF Wrote
  <2>4. ASSUME NEW s \in Slot, slotLen'[s] = 2, s # w
        PROVE  WholeSlot(s)'
    <3>1. slotLen[s] = 2 /\ ring'[s] = ring[s]
      BY <2>2, <2>3, <2>4
    <3> QED BY <1>2, <2>4, <3>1, SlotKept
  <2>5. ring'[wrSlot'][0] = <<HeadBeat(Head(txOut').frame)>>
    BY <2>1, <2>2, <2>3
  <2> QED BY <1>2, <2>1, <2>2, <2>3, <2>4, <2>5 DEF RingInv, IsRing, BeatNum, Slot, HeadBeat
<1>6. CASE ~(txOut # <<>> /\ LiveReady)
  <2>1. ring' = ring /\ slotLen' = slotLen /\ wrSlot' = wrSlot /\ wrBeat' = wrBeat
    BY <1>6 DEF storeVars
  <2>2. /\ Halfway' <=> Halfway
        /\ Halfway => txOut' = txOut
    <3>1. CASE txOut = <<>>
      <4>1. ~Halfway /\ (txOut' = <<>> \/ IsBeat(txOut', FALSE))
        BY <1>1, <3>1 DEF Halfway
      <4>2. ~Halfway'
        BY <4>1, BeatFacts DEF Halfway
      <4> QED BY <4>1, <4>2
    <3>2. CASE txOut # <<>>
      <4>1. txOut' = txOut
        BY <1>1, <1>6, <3>2
      <4> QED BY <4>1 DEF Halfway
    <3> QED BY <3>1, <3>2
  <2>3. ASSUME NEW s \in Slot
        PROVE  WholeSlot(s)' <=> WholeSlot(s)
    BY <2>1, SlotKept
  <2> QED BY <1>2, <2>1, <2>2, <2>3 DEF RingInv, IsRing, BeatNum, Slot, HeadBeat
<1> QED BY <1>4, <1>5, <1>6

(* What the buffer puts on the wire while it sends a frame again.          *)
LEMMA ReplayedBeat ==
    ASSUME ResendInv, rpBusy
    PROVE  LET f == Head(ring[rpSlot][0]).frame IN
           /\ Good(f)
           /\ OnWire(txOut) = <<[frame |-> f, last |-> (rpBeat = 1)]>>
           /\ LastReplayed <=> rpBeat = 1
<1> DEFINE f == Head(ring[rpSlot][0]).frame
           b == ring[rpSlot][rpBeat]
<1>1. rpBeat \in 0..1 /\ rpLen = 2 /\ WholeSlot(rpSlot)
  BY DEF ResendInv
<1>2. LastReplayed <=> rpBeat = 1
  BY <1>1 DEF LastReplayed
<1>3. /\ IsBeat(ring[rpSlot][0], FALSE) /\ ring[rpSlot][1] = <<TailBeat(f)>>
  BY <1>1 DEF WholeSlot, WholeFrame
<1>4. Good(f) /\ ring[rpSlot][0] = <<HeadBeat(f)>>
  BY <1>3, BeatFacts DEF HeadBeat
<1>5. PICK l : b = <<[frame |-> f, last |-> l]>>
  <2>1. rpBeat = 0 => b = <<[frame |-> f, last |-> FALSE]>>
    BY <1>4 DEF HeadBeat
  <2>2. rpBeat = 1 => b = <<[frame |-> f, last |-> TRUE]>>
    BY <1>3 DEF TailBeat
  <2>3. rpBeat = 0 \/ rpBeat = 1
    BY <1>1
  <2> HIDE DEF b, f
  <2> QED BY <2>1, <2>2, <2>3, Zenon
<1> DEFINE r == [frame |-> f, last |-> l]
<1> HIDE DEF b
<1>6. Head(b) = r
  BY <1>5
<1>7. [r EXCEPT !.last = LastReplayed] = [frame |-> f, last |-> LastReplayed]
  OBVIOUS
<1>8. OnWire(txOut) = <<[Head(b) EXCEPT !.last = LastReplayed]>>
  BY DEF OnWire, b
<1>9. LastReplayed = (rpBeat = 1)
  BY <1>2 DEF LastReplayed
<1> QED BY <1>2, <1>4, <1>6, <1>7, <1>8, <1>9

WireMoves ==
    midFrame' = IF OnWire(txOut) = <<>> THEN midFrame ELSE {Head(OnWire(txOut)).frame} \ Arriving

LEMMA WireBeat ==
    ASSUME NEW f, NEW l \in BOOLEAN, OnWire(txOut) = <<[frame |-> f, last |-> l]>>
    PROVE  /\ OnWire(txOut) # <<>> /\ Head(OnWire(txOut)).frame = f
           /\ Head(OnWire(txOut)).last = l
           /\ Arriving = IF l THEN {f} ELSE {}
           /\ WireMoves => midFrame' = IF l THEN {} ELSE {f}
<1> DEFINE r == [frame |-> f, last |-> l]
<1>1. OnWire(txOut) = <<r>> /\ r.frame = f /\ r.last = l
  OBVIOUS
<1> HIDE DEF r
<1>2. OnWire(txOut) # <<>> /\ Head(OnWire(txOut)) = r
  BY <1>1
<1>3. Arriving = IF l THEN {f} ELSE {}
  BY <1>1, <1>2 DEF Arriving
<1> QED BY <1>1, <1>2, <1>3 DEF WireMoves

LEMMA ResendStep ==
    ASSUME FramerInv, RingInv, ResendInv, NEW request \in Ages,
           TxTick(packet, FALSE, LiveReady), ReplayTick(txOut, request), WireMoves,
           heldOff' = IF txOut # <<>> /\ ~LiveReady THEN heldOff + 1 ELSE 0
    PROVE  ResendInv'
<1>1. /\ Halfway => IsBeat(txOut, TRUE) /\ txOut' = IF LiveReady THEN <<>> ELSE txOut
      /\ txOut # <<>> /\ ~Halfway =>
           /\ IsBeat(txOut, FALSE)
           /\ txOut' = IF LiveReady THEN <<TailBeat(Head(txOut).frame)>> ELSE txOut
      /\ txOut = <<>> => txOut' = <<>> \/ IsBeat(txOut', FALSE)
  BY OutputMoves DEF LiveReady, ResendInv
<1>2. /\ rpBusy \in BOOLEAN /\ heldOff \in 0..2
      /\ rpBusy => /\ rpBeat \in 0..1 /\ rpLen = 2 /\ heldOff <= rpBeat
                   /\ rpSlot \in Slot /\ WholeSlot(rpSlot) /\ ~Halfway
      /\ midFrame = IF rpBusy THEN (IF rpBeat = 1 THEN {Head(ring[rpSlot][0]).frame} ELSE {})
                    ELSE IF Halfway THEN {Head(txOut).frame} ELSE {}
  BY DEF ResendInv
<1>3. LiveReady <=> ~rpBusy
  BY DEF LiveReady
<1>4. txOut = <<>> \/ ~LiveReady => ring' = ring
  BY DEF ReplayTick, storeVars
<1>5. Resend(txOut, request)
  BY DEF ReplayTick
<1>6. (txOut = <<>> \/ ~LiveReady) /\ ~Halfway => ~Halfway'
  <2>1. CASE txOut = <<>>
    BY <1>1, <2>1, BeatFacts DEF Halfway
  <2>2. CASE txOut # <<>> /\ ~LiveReady
    BY <1>1, <2>2 DEF Halfway
  <2> QED BY <2>1, <2>2
<1>7. CASE Accepts(request, txOut)
  <2> DEFINE q == AgedSlot(Head(request))
  <2>1. txOut = <<>> /\ ~rpBusy /\ ~Halfway /\ q \in Slot /\ slotLen[q] = 2 /\ WholeSlot(q)
    BY <1>7, AcceptFacts
  <2>2. rpBusy' = TRUE /\ rpBeat' = 0 /\ rpSlot' = q /\ rpLen' = 2 /\ ring' = ring
    BY <1>4, <1>5, <1>7, <2>1 DEF Resend
  <2>3. heldOff' = 0 /\ ~Halfway'
    BY <1>3, <1>6, <2>1
  <2>4. OnWire(txOut) = <<>> /\ midFrame' = {}
    BY <1>2, <2>1 DEF OnWire, WireMoves
  <2>5. WholeFrame(ring'[rpSlot'])
    BY <2>1, <2>2 DEF WholeSlot
  <2> QED BY <2>1, <2>2, <2>3, <2>4, <2>5 DEF ResendInv, WholeSlot, Slot
<1>8. CASE rpBusy /\ ~Accepts(request, txOut)
  <2> DEFINE f == Head(ring[rpSlot][0]).frame
  <2>1. /\ OnWire(txOut) = <<[frame |-> f, last |-> (rpBeat = 1)]>>
        /\ LastReplayed <=> rpBeat = 1
    BY <1>8, ReplayedBeat
  <2>2. midFrame' = IF rpBeat = 1 THEN {} ELSE {f}
    BY <2>1, WireBeat
  <2>3. /\ rpBusy' = (rpBeat # 1) /\ rpBeat' = rpBeat + 1
        /\ rpSlot' = rpSlot /\ rpLen' = rpLen /\ ring' = ring /\ ~Halfway'
    BY <1>2, <1>3, <1>4, <1>5, <1>6, <1>8, <2>1 DEF Resend
  <2>4. heldOff' <= rpBeat + 1 /\ heldOff' \in 0..2
    BY <1>2, <1>8
  <2>5. rpSlot \in Slot /\ WholeFrame(ring'[rpSlot'])
    BY <1>2, <1>8, <2>3 DEF WholeSlot
  <2>6. CASE rpBeat = 0
    <3>0. rpBeat # 1 /\ rpBeat' = 1
      BY <2>3, <2>6
    <3>1. rpBusy' = TRUE /\ rpBeat' = 1
      BY <2>3, <3>0, Zenon
    <3>2. midFrame' = {f}
      BY <2>2, <2>6
    <3>3. midFrame' = {Head(ring'[rpSlot'][0]).frame}
      BY <2>3, <3>2
    <3> QED BY <1>2, <1>8, <2>3, <2>4, <2>5, <2>6, <3>1, <3>3 DEF ResendInv, WholeSlot, Slot
  <2>7. CASE rpBeat = 1
    <3>1. midFrame' = {} /\ rpBusy' = FALSE
      BY <2>2, <2>3, <2>7
    <3> QED BY <2>3, <2>4, <3>1 DEF ResendInv
  <2> QED BY <1>2, <1>8, <2>6, <2>7
<1>9. CASE ~rpBusy /\ ~Accepts(request, txOut)
  <2>1. rpBusy' = FALSE /\ heldOff' = 0 /\ OnWire(txOut) = txOut
    BY <1>3, <1>5, <1>9 DEF Resend, OnWire
  <2>2. midFrame' = IF Halfway' THEN {Head(txOut').frame} ELSE {}
    <3> DEFINE f == Head(txOut).frame
    <3>1. CASE txOut = <<>>
      <4>1. midFrame' = {} /\ ~Halfway'
        BY <1>2, <1>6, <1>9, <2>1, <3>1 DEF WireMoves, Halfway
      <4> QED BY <4>1
    <3>2. CASE txOut # <<>> /\ ~Halfway
      <4>1. OnWire(txOut) = <<[frame |-> f, last |-> FALSE]>> /\ Good(f)
        BY <1>1, <2>1, <3>2, BeatFacts
      <4>2. midFrame' = {f}
        BY <4>1, WireBeat
      <4>3. txOut' = <<TailBeat(f)>>
        BY <1>1, <1>3, <1>9, <3>2
      <4>4. Head(txOut').frame = f /\ Head(txOut').last = TRUE /\ txOut' # <<>>
        BY <4>1, <4>3, TailIsBeat
      <4> QED BY <4>2, <4>4 DEF Halfway
    <3>3. CASE Halfway
      <4>1. OnWire(txOut) = <<[frame |-> f, last |-> TRUE]>>
        BY <1>1, <2>1, <3>3, BeatFacts
      <4>2. midFrame' = {}
        BY <4>1, WireBeat
      <4>3. ~Halfway'
        BY <1>1, <1>3, <1>9, <3>3 DEF Halfway
      <4> QED BY <4>2, <4>3
    <3> QED BY <3>1, <3>2, <3>3
  <2>3. rpBusy' \in BOOLEAN /\ ~rpBusy'
    BY <2>1, Zenon
  <2>4. heldOff' \in 0..2
    BY <2>1
  <2> QED BY <2>2, <2>3, <2>4, Zenon DEF ResendInv
<1> QED BY <1>2, <1>7, <1>8, <1>9


(*********************** sequence numbers as a window **********************)

(* The ring is a small part of the sequence numbers: at 52 bytes a frame   *)
(* and 32 bits, any ring of less than 2^26 frames is.                      *)
RingFitsWindow == PayldB >= 1 /\ PayldB * (Slots + 1) < SeqMod

(* e bytes before s, and the number of the n-th last frame.                *)
At(s, e) == (s - e) % SeqMod
Back(n)  == At(seqNum, PayldB * n)

LEMMA ModDifference ==
    ASSUME NEW m \in Nat \ {0}, NEW x \in Int, NEW y \in Int
    PROVE  ((x % m) - (y % m)) % m = (x - y) % m
<1> DEFINE d == x \div m
           r == x % m
           e == y \div m
           q == y % m
<1>1. x = m * d + r /\ d \in Int /\ r \in Int
  BY Quotient
<1>2. y = m * e + q /\ e \in Int /\ q \in Int
  BY Quotient
<1> HIDE DEF d, r, e, q
<1>3. x - y = (r - q) + m * (d - e) /\ r - q \in Int /\ d - e \in Int
  BY <1>1, <1>2
<1>4. ((r - q) + m * (d - e)) % m = (r - q) % m
  BY <1>3, ModMultiple
<1> QED BY <1>3, <1>4 DEF r, q

LEMMA AtFacts ==
    ASSUME NEW s \in Int, NEW d \in Int, NEW e \in Int
    PROVE  /\ At(s, d) \in 0..(SeqMod - 1)
           /\ (At(s, d) - At(s, e)) % SeqMod = (e - d) % SeqMod
           /\ (At(s, d) + e) % SeqMod = At(s, d - e)
           /\ At((s + e) % SeqMod, d + e) = At(s, d)
<1>1. SeqMod \in Nat \ {0} /\ s - d \in Int /\ s - e \in Int
  BY SeqAssumption
<1>2. At(s, d) \in 0..(SeqMod - 1)
  BY <1>1, Quotient DEF At
<1>3. (At(s, d) - At(s, e)) % SeqMod = (e - d) % SeqMod
  <2>1. (s - d) - (s - e) = e - d
    OBVIOUS
  <2>2. (((s - d) % SeqMod) - ((s - e) % SeqMod)) % SeqMod = ((s - d) - (s - e)) % SeqMod
    BY <1>1, ModDifference
  <2> QED BY <2>1, <2>2 DEF At
<1>4. (At(s, d) + e) % SeqMod = At(s, d - e)
  <2>1. (s - d) + e = s - (d - e)
    OBVIOUS
  <2>2. (((s - d) % SeqMod) + e) % SeqMod = ((s - d) + e) % SeqMod
    BY <1>1, ModSum
  <2> QED BY <2>1, <2>2 DEF At
<1>5. At((s + e) % SeqMod, d + e) = At(s, d)
  <2>1. s + e \in Int /\ -(d + e) \in Int
    OBVIOUS
  <2>2. (((s + e) % SeqMod) + (-(d + e))) % SeqMod = ((s + e) + (-(d + e))) % SeqMod
    BY <1>1, <2>1, ModSum
  <2>3. (s + e) + (-(d + e)) = s - d
    OBVIOUS
  <2>4. (s + e) % SeqMod \in Int
    BY <1>1, <2>1, Quotient
  <2>5. ((s + e) % SeqMod) + (-(d + e)) = ((s + e) % SeqMod) - (d + e)
    BY <2>4
  <2> QED BY <2>2, <2>3, <2>5 DEF At
<1> QED BY <1>2, <1>3, <1>4, <1>5

(* The signed distance of two numbers that are near each other.            *)
LEMMA AheadIs ==
    ASSUME NEW s \in Int, NEW d \in Int, NEW e \in Int,
           2 * (e - d) < SeqMod, 2 * (d - e) <= SeqMod
    PROVE  Ahead(At(s, d), At(s, e)) = e - d
<1> DEFINE x == (At(s, d) - At(s, e)) % SeqMod
<1>1. SeqMod \in Nat \ {0} /\ RtoSeqMod = SeqMod /\ e - d \in Int
  BY SeqAssumption, WiringAssumption
<1>2. x = (e - d) % SeqMod
  BY AtFacts
<1>3. e - d >= 0 => x = e - d
  <2>1. e - d >= 0 => 0 <= e - d /\ e - d < SeqMod
    BY <1>1
  <2>2. ASSUME 0 <= e - d, e - d < SeqMod PROVE (e - d) % SeqMod = e - d
    BY <1>1, <2>2
  <2> QED BY <1>2, <2>1, <2>2
<1>4. e - d < 0 => x = e - d + SeqMod
  <2>1. e - d < 0 => 0 <= e - d + SeqMod /\ e - d + SeqMod < SeqMod
    BY <1>1
  <2>2. ASSUME 0 <= e - d + SeqMod, e - d + SeqMod < SeqMod
        PROVE  (e - d) % SeqMod = e - d + SeqMod
    <3>1. (SeqMod * (-1) + (e - d + SeqMod)) % SeqMod = e - d + SeqMod
      BY <1>1, <2>2, Remainder
    <3>2. SeqMod * (-1) + (e - d + SeqMod) = e - d
      BY <1>1
    <3> QED BY <3>1, <3>2
  <2> QED BY <1>2, <2>1, <2>2
<1>5. Ahead(At(s, d), At(s, e)) = IF 2 * x < SeqMod THEN x ELSE x - SeqMod
  BY <1>1 DEF Ahead
<1> HIDE DEF x
<1>6. e - d \in Int /\ SeqMod \in Nat
  BY <1>1
<1>7. CASE e - d >= 0
  BY <1>3, <1>5, <1>6, <1>7
<1>8. CASE e - d < 0
  BY <1>4, <1>5, <1>6, <1>8
<1> QED BY <1>6, <1>7, <1>8

(* Frames in bytes.                                                        *)
LEMMA Bytes ==
    ASSUME RingFitsWindow, NEW i \in Int, NEW j \in Int
    PROVE  /\ PayldB * i \in Int /\ PayldB * (i + 1) = PayldB * i + PayldB
           /\ PayldB * (i - j) = PayldB * i - PayldB * j
           /\ i <= j => PayldB * i <= PayldB * j
           /\ i < j => PayldB * i < PayldB * j
           /\ PayldB * 0 = 0 /\ PayldB \in Nat \ {0}
<1>1. PayldB \in Nat \ {0}
  BY SeqAssumption DEF RingFitsWindow
<1>2. PayldB * (i - j) = PayldB * i - PayldB * j /\ PayldB * (i + 1) = PayldB * i + PayldB
  BY <1>1
<1>3. i <= j => PayldB * i <= PayldB * j
  BY <1>1
<1>4. i < j => PayldB * i < PayldB * j
  BY <1>1
<1> QED BY <1>1, <1>2, <1>3, <1>4

LEMMA WindowBound ==
    ASSUME RingFitsWindow, NEW i \in 0..(MaxUnaccepted + 1)
    PROVE  0 <= PayldB * i /\ 2 * (PayldB * i) < SeqMod /\ PayldB * i \in Int
<1>1. PayldB \in Nat \ {0} /\ MaxUnaccepted \in Nat /\ SeqMod \in Nat
      /\ 2 * PayldB * (MaxUnaccepted + 1) < SeqMod
  BY SeqAssumption, WiringAssumption, RingAssumption DEF RingFitsWindow
<1>2. i \in Int /\ MaxUnaccepted + 1 \in Int /\ 0 \in Int /\ 0 <= i /\ i <= MaxUnaccepted + 1
  BY <1>1
<1>3. PayldB * i <= PayldB * (MaxUnaccepted + 1) /\ PayldB * 0 <= PayldB * i /\ PayldB * i \in Int
  BY <1>2, Bytes
<1>4. 2 * PayldB * (MaxUnaccepted + 1) = 2 * (PayldB * (MaxUnaccepted + 1))
  BY <1>1
<1>5. PayldB * (MaxUnaccepted + 1) \in Int /\ PayldB * 0 = 0
  BY <1>1
<1> QED BY <1>1, <1>3, <1>4, <1>5

(* The distance of two of the last frames.                                 *)
LEMMA BackAhead ==
    ASSUME RingFitsWindow, seqNum \in Int,
           NEW i \in 0..(MaxUnaccepted + 1), NEW j \in 0..(MaxUnaccepted + 1)
    PROVE  Ahead(Back(i), Back(j)) = PayldB * j - PayldB * i
<1>1. /\ 0 <= PayldB * i /\ 2 * (PayldB * i) < SeqMod /\ PayldB * i \in Int
      /\ 0 <= PayldB * j /\ 2 * (PayldB * j) < SeqMod /\ PayldB * j \in Int
  BY WindowBound
<1>2. SeqMod \in Nat
  BY SeqAssumption
<1>3. 2 * (PayldB * j - PayldB * i) < SeqMod /\ 2 * (PayldB * i - PayldB * j) <= SeqMod
  BY <1>1, <1>2
<1> QED BY <1>1, <1>3, AheadIs DEF Back

LEMMA BackFacts ==
    ASSUME RingFitsWindow, seqNum \in 0..(SeqMod - 1), NEW i \in Int
    PROVE  /\ Back(i) \in 0..(SeqMod - 1) /\ Back(0) = seqNum
           /\ (Back(i) + PayldB) % SeqMod = Back(i - 1)
           /\ (Back(i) - PayldB) % SeqMod = Back(i + 1)
           /\ seqNum' = (seqNum + PayldB) % SeqMod => Back(i + 1)' = Back(i)
           /\ seqNum' = seqNum => Back(i)' = Back(i)
<1>1. /\ PayldB * i \in Int /\ PayldB * (i + 1) = PayldB * i + PayldB
      /\ PayldB * (i - 1) = PayldB * i - PayldB /\ PayldB * 0 = 0 /\ PayldB \in Int
  <2>1. 1 \in Int /\ PayldB \in Nat
    BY SeqAssumption
  <2>2. PayldB * 1 = PayldB
    BY <2>1
  <2>3. PayldB * (i - 1) = PayldB * i - PayldB * 1
    BY <2>1, Bytes
  <2> QED BY <2>1, <2>2, <2>3, Bytes
<1>2. seqNum \in Int /\ SeqMod \in Nat \ {0}
  BY SeqAssumption
<1>3. Back(i) \in 0..(SeqMod - 1)
  BY <1>1, <1>2, AtFacts DEF Back
<1>4. Back(0) = seqNum
  <2>1. seqNum - 0 = seqNum /\ seqNum % SeqMod = seqNum
    BY <1>2
  <2> QED BY <1>1, <2>1 DEF Back, At
<1>5. (Back(i) + PayldB) % SeqMod = Back(i - 1)
  <2>1. (At(seqNum, PayldB * i) + PayldB) % SeqMod = At(seqNum, PayldB * i - PayldB)
    BY <1>1, <1>2, AtFacts
  <2> QED BY <1>1, <2>1 DEF Back
<1>6. (Back(i) - PayldB) % SeqMod = Back(i + 1)
  <2>1. (At(seqNum, PayldB * i) + (-PayldB)) % SeqMod = At(seqNum, PayldB * i - (-PayldB))
    <3>1. -PayldB \in Int
      BY <1>1
    <3> QED BY <1>1, <1>2, <3>1, AtFacts
  <2>2. PayldB * i - (-PayldB) = PayldB * i + PayldB
    BY <1>1
  <2>3. Back(i) + (-PayldB) = Back(i) - PayldB
    BY <1>1, <1>3
  <2> QED BY <1>1, <2>1, <2>2, <2>3 DEF Back
<1>7. seqNum' = (seqNum + PayldB) % SeqMod => Back(i + 1)' = Back(i)
  <2>1. At((seqNum + PayldB) % SeqMod, PayldB * i + PayldB) = At(seqNum, PayldB * i)
    <3> DEFINE j == PayldB * i
    <3>1. j \in Int /\ PayldB \in Int
      BY <1>1
    <3> HIDE DEF j
    <3>2. \A q, d, e \in Int : At((q + e) % SeqMod, d + e) = At(q, d)
      BY ZenonT(30), AtFacts
    <3>3. At((seqNum + PayldB) % SeqMod, j + PayldB) = At(seqNum, j)
      BY <1>2, <3>1, <3>2
    <3> QED BY <3>3 DEF j
  <2> QED BY <1>1, <2>1 DEF Back
<1>8. seqNum' = seqNum => Back(i)' = Back(i)
  BY DEF Back, At
<1> QED BY <1>3, <1>4, <1>5, <1>6, <1>7, <1>8

(* An acknowledgement is of one of the last frames; another one is not as  *)
(* far back as the ring is long.                                           *)
LEMMA NoneIsNext ==
    ASSUME RingFitsWindow, seqNum \in 0..(SeqMod - 1), NEW i \in 1..(Slots + 1)
    PROVE  Back(i) # seqNum
<1>1. SeqMod \in Nat \ {0} /\ Slots \in Nat \ {0} /\ PayldB \in Nat \ {0} /\ seqNum \in Int
      /\ PayldB * (Slots + 1) < SeqMod
  BY SeqAssumption, RingAssumption DEF RingFitsWindow
<1>2. i \in Int /\ 0 \in Int /\ Slots + 1 \in Int /\ 0 < i /\ i <= Slots + 1
  BY <1>1
<1>3. PayldB * 0 < PayldB * i /\ PayldB * i <= PayldB * (Slots + 1) /\ PayldB * i \in Int
      /\ PayldB * (Slots + 1) \in Int /\ PayldB * 0 = 0
  BY <1>2, Bytes
<1> DEFINE d == PayldB * i
<1>4. d \in Int /\ 0 < d /\ d < SeqMod
  BY <1>1, <1>3
<1>5. (At(seqNum, 0) - At(seqNum, d)) % SeqMod = (d - 0) % SeqMod
  BY <1>1, <1>4, AtFacts
<1>6. Back(0) = seqNum /\ Back(0) = At(seqNum, 0) /\ Back(i) = At(seqNum, d)
      /\ Back(i) \in 0..(SeqMod - 1)
  BY <1>2, <1>3, BackFacts DEF Back
<1> HIDE DEF d
<1>7. (d - 0) % SeqMod = d
  BY <1>1, <1>4
<1> SUFFICES ASSUME Back(i) = seqNum PROVE FALSE
  OBVIOUS
<1>8. At(seqNum, 0) - At(seqNum, d) = 0
  <2>1. At(seqNum, 0) = seqNum /\ At(seqNum, d) = seqNum
    BY <1>6, Zenon
  <2> QED BY <1>1, <2>1
<1>9. 0 % SeqMod = 0
  BY <1>1
<1> QED BY <1>4, <1>5, <1>7, <1>8, <1>9

(* The slots by age, before and after a frame is stored.                   *)
LEMMA AgedFacts ==
    ASSUME wrSlot \in Slot, NEW b \in 0..(Slots - 1)
    PROVE  /\ AgedSlot(b) \in Slot
           /\ b < Slots - 1 => AgedSlot(b) # wrSlot
           /\ wrSlot' = (wrSlot + 1) % Slots =>
                /\ wrSlot' = IF wrSlot = Slots - 1 THEN 0 ELSE wrSlot + 1
                /\ b = 0 => AgedSlot(b)' = wrSlot
                /\ b > 0 => AgedSlot(b)' = AgedSlot(b - 1)
<1>1. Slots \in Nat \ {0} /\ wrSlot \in 0..(Slots - 1)
  BY RingFacts DEF Slot
<1>2. ASSUME NEW w \in 0..(Slots - 1), NEW a \in 0..(Slots - 1)
      PROVE  (w - 1 - a) % Slots = IF a < w THEN w - 1 - a ELSE w - 1 - a + Slots
  <2>1. a < w => (w - 1 - a) % Slots = w - 1 - a
    <3> SUFFICES ASSUME a < w PROVE (w - 1 - a) % Slots = w - 1 - a
      OBVIOUS
    <3>1. w - 1 - a \in 0..(Slots - 1)
      BY <1>1, <1>2
    <3> QED BY <1>1, <3>1
  <2>2. ~(a < w) => (w - 1 - a) % Slots = w - 1 - a + Slots
    <3> SUFFICES ASSUME ~(a < w) PROVE (w - 1 - a) % Slots = w - 1 - a + Slots
      OBVIOUS
    <3>1. w - 1 - a + Slots \in 0..(Slots - 1) /\ -1 \in Int
      BY <1>1, <1>2
    <3>2. (Slots * (-1) + (w - 1 - a + Slots)) % Slots = w - 1 - a + Slots
      BY <1>1, <3>1, Remainder
    <3>3. Slots * (-1) + (w - 1 - a + Slots) = w - 1 - a
      BY <1>1, <1>2
    <3> QED BY <3>2, <3>3
  <2> QED BY <2>1, <2>2
<1>3. AgedSlot(b) = IF b < wrSlot THEN wrSlot - 1 - b ELSE wrSlot - 1 - b + Slots
  BY <1>1, <1>2 DEF AgedSlot
<1>4. AgedSlot(b) \in Slot /\ (b < Slots - 1 => AgedSlot(b) # wrSlot)
  BY <1>1, <1>3 DEF Slot
<1>5. ASSUME wrSlot' = (wrSlot + 1) % Slots
      PROVE  /\ wrSlot' = IF wrSlot = Slots - 1 THEN 0 ELSE wrSlot + 1
             /\ b = 0 => AgedSlot(b)' = wrSlot
             /\ b > 0 => AgedSlot(b)' = AgedSlot(b - 1)
  <2>1. wrSlot' = IF wrSlot = Slots - 1 THEN 0 ELSE wrSlot + 1
    <3>1. CASE wrSlot = Slots - 1
      <4>1. wrSlot + 1 = Slots /\ Slots % Slots = 0
        BY <1>1, <3>1
      <4> QED BY <1>5, <3>1, <4>1
    <3>2. CASE wrSlot # Slots - 1
      <4>1. (wrSlot + 1) % Slots = wrSlot + 1
        BY <1>1, <3>2
      <4> QED BY <1>5, <3>2, <4>1
    <3> QED BY <3>1, <3>2
  <2>2. wrSlot' \in 0..(Slots - 1)
    BY <1>1, <2>1
  <2>3. AgedSlot(b)' = (wrSlot' - 1 - b) % Slots
    BY DEF AgedSlot
  <2>4. (wrSlot' - 1 - b) % Slots = IF b < wrSlot' THEN wrSlot' - 1 - b ELSE wrSlot' - 1 - b + Slots
    BY <1>2, <2>2
  <2>5. b = 0 => AgedSlot(b)' = wrSlot
    BY <1>1, <2>1, <2>3, <2>4
  <2>6. b > 0 => AgedSlot(b)' = AgedSlot(b - 1)
    <3> SUFFICES ASSUME b > 0 PROVE AgedSlot(b)' = AgedSlot(b - 1)
      OBVIOUS
    <3>1. b - 1 \in 0..(Slots - 1)
      BY <1>1
    <3>2. AgedSlot(b - 1) = IF b - 1 < wrSlot THEN wrSlot - 1 - (b - 1)
                            ELSE wrSlot - 1 - (b - 1) + Slots
      BY <1>1, <1>2, <3>1 DEF AgedSlot
    <3> QED BY <1>1, <2>1, <2>3, <2>4, <3>2
  <2> QED BY <2>1, <2>5, <2>6
<1> QED BY <1>4, <1>5

(*************** what is under way, by its distance from now ***************)

Summed   == IF txState = "CALC" THEN 1 ELSE 0
Pending  == Summed + IF packet # <<>> THEN 1 ELSE 0
Unstored == IF txOut # <<>> THEN 1 ELSE 0
InWindow == seqNum \in 0..(SeqMod - 1)

SeqIn(s)  == Head(ring[s][0]).frame.seq
Held(age) == (wrapped \/ age < wrSlot) /\ ~(Halfway /\ age = Slots - 1)

(* The ring holds the last frames, youngest first, and the frame that is   *)
(* sent again is one of them.                                              *)
AgeInv ==
    /\ txOut # <<>> => Head(txOut).frame.seq = Back(1)
    /\ \A age \in 0..(Slots - 1) :
         Held(age) => SeqIn(AgedSlot(age)) = Back(age + 1 + Unstored)
    /\ rpBusy => \E i \in 1..(Slots + Unstored) : SeqIn(rpSlot) = Back(i)

LEMMA SeqShift ==
    ASSUME RingFitsWindow, InWindow, NEW down \in BOOLEAN, TxTick(packet, FALSE, down),
           NEW k, k = Summed
    PROVE  InWindow' /\ \A i \in Int : Back(i + k)' = Back(i)
<1>1. seqNum' = IF txState = "CALC" THEN (seqNum + PayldB) % SeqMod ELSE seqNum
  BY DEF TxTick, Count
<1>2. seqNum \in 0..(SeqMod - 1) /\ SeqMod \in Nat \ {0} /\ PayldB \in Nat
  BY SeqAssumption DEF InWindow
<1>3. CASE txState = "CALC"
  <2>1. k = 1 /\ seqNum' = (seqNum + PayldB) % SeqMod
    BY <1>1, <1>3 DEF Summed
  <2>2. \A i \in Int : Back(i + 1)' = Back(i)
    BY <1>2, <2>1, BackFacts
  <2>3. seqNum' \in 0..(SeqMod - 1)
    BY <1>2, <2>1, Quotient
  <2> QED BY <2>1, <2>2, <2>3 DEF InWindow
<1>4. CASE txState # "CALC"
  <2>1. k = 0 /\ seqNum' = seqNum
    BY <1>1, <1>4 DEF Summed
  <2>2. \A i \in Int : Back(i)' = Back(i) /\ i + k = i
    BY <1>2, <2>1, BackFacts
  <2> QED BY <1>2, <2>1, <2>2 DEF InWindow
<1> QED BY <1>3, <1>4

LEMMA OutShift ==
    ASSUME FramerInv, NEW down \in BOOLEAN, TxTick(packet, FALSE, down), NEW k, k = Summed
    PROVE  /\ k = 1 => txOut = <<>> /\ txOut' # <<>> /\ Head(txOut').frame.seq = seqNum
           /\ k # 1 => k = 0
           /\ k = 0 /\ txOut' # <<>> => txOut # <<>> /\ Head(txOut').frame = Head(txOut).frame
           /\ k = 0 /\ txOut # <<>> /\ ~(Halfway /\ down) => txOut' # <<>>
           /\ Halfway => k = 0
           /\ Halfway /\ down => txOut' = <<>>
<1>1. CASE txState = "CALC"
  <2>1. txOut = <<>> /\ txOut' = <<HeadBeat(Assembled(Head(hold)))>> /\ k = 1
    BY <1>1 DEF FramerInv, Summed, TxTick, TxTake, TxCalc, TxBeat1
  <2>2. HeadBeat(Assembled(Head(hold))).frame.seq = seqNum
    BY DEF HeadBeat, Assembled
  <2>3. Head(txOut').frame.seq = seqNum /\ txOut' # <<>>
    BY <2>1, <2>2
  <2> QED BY <2>1, <2>3 DEF Halfway
<1>2. CASE txState # "CALC"
  <2>1. k = 0
    BY <1>2 DEF Summed
  <2>2. /\ Halfway => IsBeat(txOut, TRUE) /\ txOut' = IF down THEN <<>> ELSE txOut
        /\ txOut # <<>> /\ ~Halfway =>
             /\ IsBeat(txOut, FALSE)
             /\ txOut' = IF down THEN <<TailBeat(Head(txOut).frame)>> ELSE txOut
    BY OutputMoves
  <2>3. txOut = <<>> => txOut' = <<>>
    <3> SUFFICES ASSUME txOut = <<>> PROVE txOut' = <<>>
      OBVIOUS
    <3>1. txState = "IDLE"
      <4>1. txState = "BEAT1" => IsBeat(txOut, FALSE)
        BY DEF FramerInv
      <4>2. txState # "BEAT1"
        BY <4>1, BeatFacts
      <4> QED BY <1>2, <4>2 DEF FramerInv
    <3> QED BY <3>1 DEF TxTick, TxTake, TxCalc, TxBeat1, Drained
  <2>4. ASSUME NEW f PROVE <<TailBeat(f)>> # <<>> /\ Head(<<TailBeat(f)>>).frame = f
    <3>1. Head(<<TailBeat(f)>>) = TailBeat(f) /\ TailBeat(f).frame = f
      BY DEF TailBeat
    <3>2. \A x : <<x>> # <<>>
      OBVIOUS
    <3> QED BY <3>1, <3>2
  <2>5. Halfway => txOut # <<>>
    BY DEF Halfway
  <2>6. CASE txOut = <<>>
    BY <2>1, <2>3, <2>5, <2>6
  <2>7. CASE Halfway
    BY <2>1, <2>2, <2>5, <2>7
  <2>8. CASE txOut # <<>> /\ ~Halfway
    BY <2>1, <2>2, <2>4, <2>8
  <2> QED BY <2>6, <2>7, <2>8
<1> QED BY <1>1, <1>2

LEMMA StoreFacts ==
    ASSUME RingInv, txOut # <<>>, Store(txOut)
    PROVE  /\ \A s \in Slot : s # wrSlot => ring'[s] = ring[s]
           /\ Halfway => /\ ring'[wrSlot][0] = ring[wrSlot][0]
                         /\ wrSlot' = (wrSlot + 1) % Slots
                         /\ wrapped' = (wrapped \/ wrSlot = Slots - 1)
           /\ ~Halfway => wrSlot' = wrSlot /\ wrapped' = wrapped
<1>1. /\ IsRing(ring) /\ wrSlot \in Slot
      /\ wrBeat = IF Halfway THEN 1 ELSE 0
  BY DEF RingInv
<1>2. BeatNum = {0, 1} /\ Beats = 2 /\ wrBeat \in {0, 1} /\ wrBeat < Beats
  BY <1>1, RingFacts
<1>3. Halfway <=> Head(txOut).last
  BY DEF Halfway
<1>4. ring' = [ring EXCEPT ![wrSlot] = [ring[wrSlot] EXCEPT ![wrBeat] = txOut]]
  BY <1>2 DEF Store
<1>5. Wrote(ring', ring, wrSlot, wrBeat, txOut)
  <2>1. Written(ring', ring, wrSlot, wrBeat, txOut)
    BY <1>1, <1>4 DEF Written
  <2> QED BY <1>1, <1>2, <2>1, RingWrite
<1> QED BY <1>1, <1>3, <1>5 DEF Wrote, Store

LEMMA AgeStep ==
    ASSUME RingFitsWindow, InWindow, FramerInv, RingInv, ResendInv, AgeInv,
           NEW request \in Ages, TxTick(packet, FALSE, LiveReady), ReplayTick(txOut, request)
    PROVE  AgeInv'
<1> PICK k \in {0, 1} : k = Summed
  BY DEF Summed
<1>1. LiveReady \in BOOLEAN /\ rpBusy \in BOOLEAN /\ (LiveReady <=> ~rpBusy)
  BY DEF LiveReady, ResendInv
<1>2. \A i \in Int : Back(i + k)' = Back(i)
  BY <1>1, SeqShift
<1>3. /\ k = 1 => txOut = <<>> /\ txOut' # <<>> /\ Head(txOut').frame.seq = seqNum
      /\ k = 0 /\ txOut' # <<>> => txOut # <<>> /\ Head(txOut').frame = Head(txOut).frame
      /\ k = 0 /\ txOut # <<>> /\ ~(Halfway /\ LiveReady) => txOut' # <<>>
      /\ Halfway => k = 0
      /\ Halfway /\ LiveReady => txOut' = <<>>
  BY <1>1, OutShift
<1>4. /\ wrSlot \in Slot /\ Slots \in Nat \ {0} /\ Slot = 0..(Slots - 1)
      /\ Halfway => ring[wrSlot][0] = <<HeadBeat(Head(txOut).frame)>>
  BY RingFacts DEF RingInv, Slot
<1>5. /\ txOut # <<>> => Head(txOut).frame.seq = Back(1)
      /\ \A age \in 0..(Slots - 1) :
           Held(age) => SeqIn(AgedSlot(age)) = Back(age + 1 + Unstored)
      /\ rpBusy => \E i \in 1..(Slots + Unstored) : SeqIn(rpSlot) = Back(i)
  BY DEF AgeInv
<1>6. Halfway => txOut # <<>>
  BY DEF Halfway
<1>7. txOut' # <<>> => Head(txOut').frame.seq = Back(1)'
  <2>1. 0 \in Int /\ 1 \in Int /\ 0 + 1 = 1 /\ 1 + 0 = 1
    OBVIOUS
  <2>2. Back(0) = seqNum
    BY <2>1, BackFacts DEF InWindow
  <2>3. k = 1 => Back(1)' = Back(0)
    BY <1>2, <2>1
  <2>4. k = 0 => Back(1)' = Back(1)
    BY <1>2, <2>1
  <2> QED BY <1>3, <1>5, <2>2, <2>3, <2>4
<1>8. ~(Halfway /\ LiveReady) => Unstored' = Unstored + k
  BY <1>3, <1>6 DEF Unstored
<1>9. Unstored \in {0, 1} /\ Unstored' \in {0, 1}
  BY DEF Unstored
<1>10. CASE txOut # <<>> /\ LiveReady /\ Halfway
  <2>1. k = 0 /\ txOut' = <<>> /\ Unstored = 1 /\ Unstored' = 0 /\ ~Halfway'
    BY <1>3, <1>10 DEF Unstored, Halfway
  <2>2. /\ \A s \in Slot : s # wrSlot => ring'[s] = ring[s]
        /\ ring'[wrSlot][0] = ring[wrSlot][0]
        /\ wrSlot' = (wrSlot + 1) % Slots
        /\ wrapped' = (wrapped \/ wrSlot = Slots - 1)
    BY <1>10, StoreFacts DEF ReplayTick
  <2>3. ASSUME NEW age \in 0..(Slots - 1), Held(age)'
        PROVE  (SeqIn(AgedSlot(age)) = Back(age + 1 + Unstored))'
    <3>1. /\ AgedSlot(age) \in Slot
          /\ wrSlot' = IF wrSlot = Slots - 1 THEN 0 ELSE wrSlot + 1
          /\ age = 0 => AgedSlot(age)' = wrSlot
          /\ age > 0 => AgedSlot(age)' = AgedSlot(age - 1)
      BY <1>4, <2>2, AgedFacts
    <3>2. age + 1 \in Int /\ (age + 1 + Unstored)' = age + 1 + k
      BY <1>4, <2>1
    <3>3. Back(age + 1 + Unstored)' = Back(age + 1)
      <4>1. Back(age + 1 + k)' = Back(age + 1)
        BY <1>2, <3>2
      <4> QED BY <3>2, <4>1 DEF Back
    <3>4. CASE age = 0
      <4>1. SeqIn(AgedSlot(age))' = Head(ring'[wrSlot][0]).frame.seq
        BY <3>1, <3>4 DEF SeqIn
      <4>2. ring'[wrSlot][0] = <<HeadBeat(Head(txOut).frame)>>
        BY <1>4, <1>10, <2>2
      <4>3. HeadBeat(Head(txOut).frame).frame = Head(txOut).frame
        BY DEF HeadBeat
      <4>4. Head(ring'[wrSlot][0]).frame.seq = Head(txOut).frame.seq
        BY <4>2, <4>3
      <4>5. age + 1 = 1
        BY <3>4
      <4> QED BY <1>5, <1>10, <3>3, <4>1, <4>4, <4>5
    <3>5. CASE age > 0
      <4>1. age - 1 \in 0..(Slots - 1) /\ age - 1 < Slots - 1 /\ age - 1 # Slots - 1
        BY <1>4, <3>5
      <4>2. AgedSlot(age - 1) \in Slot /\ AgedSlot(age - 1) # wrSlot
        BY <1>4, <4>1, AgedFacts
      <4>3. SeqIn(AgedSlot(age))' = SeqIn(AgedSlot(age - 1))
        BY <2>2, <3>1, <3>5, <4>2 DEF SeqIn
      <4>4. Held(age - 1)
        <5>1. wrapped' \/ age < wrSlot'
          BY <2>3 DEF Held
        <5>2. CASE wrSlot = Slots - 1
          BY <1>4, <4>1, <5>2 DEF Held
        <5>3. CASE wrSlot # Slots - 1
          <6>1. wrapped' => wrapped
            BY <2>2, <5>3, Zenon
          <6>2. wrSlot' = wrSlot + 1
            BY <3>1, <5>3
          <6>3. wrapped \/ age - 1 < wrSlot
            BY <1>4, <5>1, <6>1, <6>2
          <6> QED BY <4>1, <6>3 DEF Held
        <5> QED BY <5>2, <5>3
      <4>5. SeqIn(AgedSlot(age - 1)) = Back(age - 1 + 1 + 1)
        BY <1>5, <2>1, <4>1, <4>4
      <4>6. age - 1 + 1 + 1 = age + 1
        BY <4>1
      <4> QED BY <3>3, <4>3, <4>5, <4>6
    <3> QED BY <3>4, <3>5
  <2>4. ~rpBusy'
    <3>1. ~rpBusy /\ Resend(txOut, request) /\ ~Accepts(request, txOut)
      BY <1>1, <1>10 DEF ReplayTick, Accepts
    <3> QED BY <3>1 DEF Resend
  <2> QED BY <1>7, <2>3, <2>4 DEF AgeInv
<1>11. CASE ~(txOut # <<>> /\ LiveReady /\ Halfway)
  <2>1. Unstored' = Unstored + k
    BY <1>6, <1>8, <1>11
  <2>2. ASSUME NEW i \in Int, NEW j \in Int, j = i + k PROVE Back(j)' = Back(i)
    BY <1>2, <2>2
  <2>3. wrSlot' = wrSlot /\ wrapped' = wrapped
    <3>1. CASE txOut # <<>> /\ LiveReady
      BY <1>11, <3>1, StoreFacts DEF ReplayTick
    <3>2. CASE ~(txOut # <<>> /\ LiveReady)
      BY <3>2 DEF ReplayTick, storeVars
    <3> QED BY <3>1, <3>2
  <2>4. ASSUME NEW age \in 0..(Slots - 1), Held(age)'
        PROVE  (SeqIn(AgedSlot(age)) = Back(age + 1 + Unstored))'
    <3>1. AgedSlot(age)' = AgedSlot(age) /\ AgedSlot(age) \in Slot
          /\ (age < Slots - 1 => AgedSlot(age) # wrSlot)
      BY <1>4, <2>3, AgedFacts DEF AgedSlot
    <3>2. Back(age + 1 + Unstored)' = Back(age + 1 + Unstored)
      <4>1. age + 1 + Unstored \in Int /\ age + 1 + Unstored' \in Int
            /\ age + 1 + Unstored' = (age + 1 + Unstored) + k
        BY <1>4, <1>9, <2>1
      <4>2. \A i, j \in Int : j = i + k => Back(j)' = Back(i)
        BY <2>2
      <4>3. \A j : j = age + 1 + Unstored' => Back(age + 1 + Unstored)' = Back(j)'
        BY DEF Back
      <4> QED BY <4>1, <4>2, <4>3
    <3>3. ring'[AgedSlot(age)] = ring[AgedSlot(age)] /\ Held(age)
      <4>1. wrapped \/ age < wrSlot
        BY <2>3, <2>4 DEF Held
      <4>2. CASE txOut # <<>> /\ LiveReady
        <5>1. txOut' # <<>> /\ k = 0
          BY <1>3, <1>11, <4>2
        <5>2. Head(txOut').last
          <6>1. ~Halfway
            BY <1>11, <4>2
          <6>2. IsBeat(txOut, FALSE) /\ txOut' = <<TailBeat(Head(txOut).frame)>>
            BY <1>1, <4>2, <6>1, OutputMoves
          <6> QED BY <6>2, BeatFacts, TailIsBeat
        <5>3. Halfway'
          BY <5>1, <5>2 DEF Halfway
        <5>4. age # Slots - 1
          BY <2>4, <5>3 DEF Held
        <5>5. age < Slots - 1
          BY <1>4, <5>4
        <5>6. ring'[AgedSlot(age)] = ring[AgedSlot(age)]
          BY <3>1, <4>2, <5>5, StoreFacts DEF ReplayTick
        <5> QED BY <4>1, <5>4, <5>6 DEF Held
      <4>3. CASE ~(txOut # <<>> /\ LiveReady)
        <5>1. ring' = ring
          BY <4>3 DEF ReplayTick, storeVars
        <5>2. Halfway => Halfway'
          <6> SUFFICES ASSUME Halfway PROVE Halfway'
            OBVIOUS
          <6>1. IsBeat(txOut, TRUE) /\ txOut' = txOut
            BY <1>1, <1>6, <4>3, OutputMoves
          <6> QED BY <6>1 DEF Halfway
        <5> QED BY <2>4, <4>1, <5>1, <5>2 DEF Held
      <4> QED BY <4>2, <4>3
    <3>4. SeqIn(AgedSlot(age))' = SeqIn(AgedSlot(age))
      BY <3>1, <3>3 DEF SeqIn
    <3> QED BY <1>5, <3>2, <3>3, <3>4
  <2>5. ASSUME rpBusy' PROVE \E i \in 1..(Slots + Unstored') : SeqIn(rpSlot)' = Back(i)'
    <3>1. CASE Accepts(request, txOut)
      <4> DEFINE age == Head(request)
      <4>1. txOut = <<>> /\ ~Halfway /\ age \in 0..(Slots - 1) /\ (wrapped \/ age < wrSlot)
        BY <3>1 DEF Accepts, Stored, Ages, Halfway
      <4>2. rpSlot' = AgedSlot(age) /\ ring' = ring
        BY <3>1, <4>1 DEF ReplayTick, Resend, storeVars
      <4>3. SeqIn(AgedSlot(age)) = Back(age + 1) /\ Unstored = 0
        <5>1. Held(age) /\ Unstored = 0
          BY <4>1 DEF Held, Unstored
        <5>2. SeqIn(AgedSlot(age)) = Back(age + 1 + Unstored)
          BY <1>5, <4>1, <5>1
        <5>3. age + 1 + 0 = age + 1
          BY <4>1
        <5> QED BY <5>1, <5>2, <5>3
      <4>4. SeqIn(rpSlot)' = Back(age + 1)
        BY <4>2, <4>3 DEF SeqIn
      <4>5. age + 1 \in Int /\ age + 1 + k \in 1..(Slots + Unstored')
        BY <1>4, <2>1, <4>1, <4>3
      <4>6. Back(age + 1 + k)' = Back(age + 1)
        <5>1. \A i \in Int : Back(i + k)' = Back(i)
          BY <1>2
        <5> QED BY <4>5, <5>1
      <4> HIDE DEF age
      <4> QED BY <4>4, <4>5, <4>6
    <3>2. CASE ~Accepts(request, txOut)
      <4>1. rpBusy /\ rpSlot' = rpSlot /\ ring' = ring
        <5>1. rpBusy /\ rpSlot' = rpSlot
          BY <2>5, <3>2 DEF ReplayTick, Resend
        <5> QED BY <1>1, <5>1 DEF ReplayTick, storeVars
      <4>2. PICK i \in 1..(Slots + Unstored) : SeqIn(rpSlot) = Back(i)
        BY <1>5, <4>1
      <4>3. i \in Int /\ i + k \in 1..(Slots + Unstored')
        BY <1>4, <1>9, <2>1, <4>2
      <4>4. Back(i + k)' = Back(i) /\ SeqIn(rpSlot)' = SeqIn(rpSlot)
        BY <1>2, <4>1, <4>3 DEF SeqIn
      <4> QED BY <4>2, <4>3, <4>4
    <3> QED BY <3>1, <3>2
  <2> QED BY <1>7, <2>4, <2>5 DEF AgeInv
<1> QED BY <1>10, <1>11

(* The acknowledgements: the venue is no further back than what was heard  *)
(* of it, nor that than the frames that may be under way; and the timer's  *)
(* request is for the frame its acknowledgement names.                     *)
Younger(x, y) == IF x < y THEN x ELSE y

AskedAfter(v) == \E a \in v..(MaxUnaccepted + 1) :
    a >= 1 /\ prevAck = Back(a) /\ rtoReq = <<Younger(a, Slots) - 1>>

AckInv == \E v, c \in 0..MaxUnaccepted :
    /\ venueNxt = Back(v) /\ confirmed = Back(c)
    /\ v <= c /\ c + Pending <= MaxUnaccepted
    /\ peerAck \in {Back(c), Back(c + 1)} \/ (peerAck = 0 /\ prevAck = 0 /\ ~armed)
    /\ rtoReq # <<>> /\ txOut = <<>> => AskedAfter(v)

LEMMA PendingStep ==
    ASSUME FramerInv, NEW intent, NEW down \in BOOLEAN, NEW k, k = Summed,
           BuilderTick(intent, TxReady(down)), TxTick(packet, FALSE, down),
           intent # <<>> => BuilderReady(TxReady(down))
    PROVE  /\ Pending \in 0..2 /\ Pending' \in 0..2
           /\ intent # <<>> => Pending' + k <= Pending + 1
           /\ intent = <<>> => Pending' + k <= Pending
<1>1. Pending \in 0..2 /\ Pending' \in 0..2
  BY DEF Pending, Summed
<1>2. \A p : <<p>> # <<>>
  OBVIOUS
<1>3. CASE txState = "CALC"
  <2>1. k = 1 /\ txState' = "BEAT1" /\ ~TxReady(down)
    BY <1>3 DEF Summed, TxTick, TxTake, TxCalc, TxBeat1, TxReady
  <2>2. packet' # <<>> => packet # <<>> \/ intent # <<>>
    BY <2>1 DEF BuilderTick
  <2>3. intent # <<>> => packet = <<>>
    BY <2>1 DEF BuilderReady
  <2> QED BY <1>3, <2>1, <2>2, <2>3 DEF Pending, Summed
<1>4. CASE txState = "BEAT1"
  <2>1. k = 0 /\ txState' # "CALC" /\ ~TxReady(down)
    BY <1>4 DEF Summed, TxTick, TxTake, TxCalc, TxBeat1, TxReady
  <2>2. packet' # <<>> => packet # <<>> \/ intent # <<>>
    BY <2>1 DEF BuilderTick
  <2> QED BY <1>4, <2>1, <2>2 DEF Pending, Summed
<1>5. CASE txState = "IDLE"
  <2>1. k = 0
    BY <1>5 DEF Summed
  <2>2. CASE packet # <<>> /\ TxReady(down)
    <3>1. packet' # <<>> => intent # <<>>
      BY <2>2 DEF BuilderTick
    <3> QED BY <1>5, <2>1, <2>2, <3>1 DEF Pending, Summed
  <2>3. CASE ~(packet # <<>> /\ TxReady(down))
    <3>1. txState' = "IDLE"
      BY <1>5, <2>3 DEF TxTick, TxTake, TxCalc, TxBeat1
    <3>2. packet' # <<>> => packet # <<>> \/ intent # <<>>
      BY DEF BuilderTick
    <3> QED BY <1>5, <2>1, <3>1, <3>2 DEF Pending, Summed
  <2> QED BY <2>2, <2>3
<1> QED BY <1>1, <1>3, <1>4, <1>5 DEF FramerInv

(* The limiter counts what is under way: when it lets an order through,    *)
(* there is room for it.                                                   *)
LEMMA RoomForOrder ==
    ASSUME SameWidth, RingFitsWindow, FramerInv, InWindow, NEW c \in 0..MaxUnaccepted,
           confirmed = Back(c), c + Pending <= MaxUnaccepted,
           Unaccepted < PayldB * MaxUnaccepted
    PROVE  c + Pending < MaxUnaccepted
<1>1. /\ SeqMod \in Nat \ {0} /\ PayldB \in Nat \ {0} /\ InitSeq \in Int
      /\ MaxUnaccepted \in Nat /\ TokenMod = SeqMod
      /\ seqNum \in 0..(SeqMod - 1) /\ tokenSeq \in Int
  BY SeqAssumption, WiringAssumption, RingAssumption
     DEF RingFitsWindow, SameWidth, InWindow, FramerInv, Token
<1>2. Pending \in 0..2
  BY DEF Pending, Summed
<1>3. SeqOf(tokenSeq) = Back(0 - Pending)
  <2>1. ASSUME NEW t \in Token, NEW i \in Int, SeqOf(t) = Back(i)
        PROVE  SeqOf(NextToken(t)) = Back(i - 1)
    <3>1. (Back(i) + PayldB) % SeqMod = Back(i - 1)
      BY <1>1, BackFacts
    <3> QED BY <2>1, <3>1, NextSeq
  <2>2. SeqOf(FirstToken) = Back(0)
    <3>1. Back(0) = seqNum
      BY <1>1, BackFacts
    <3> QED BY <3>1 DEF FramerInv
  <2>3. 0 \in Int /\ -1 \in Int /\ 0 - 1 = -1 /\ -1 - 1 = 0 - 2 /\ 0 - 0 = 0
    OBVIOUS
  <2>4. CASE txState = "CALC" /\ packet # <<>>
    <3>1. /\ Head(hold).token \in Token /\ Head(packet).token \in Token
          /\ FirstToken = Head(hold).token /\ NextToken(Head(hold).token) = Head(packet).token
          /\ tokenSeq = NextToken(Head(packet).token) /\ Pending = 2
      BY <2>4 DEF FramerInv, FirstToken, Pending, Summed
    <3>2. SeqOf(Head(packet).token) = Back(-1)
      BY <2>1, <2>2, <2>3, <3>1
    <3>3. SeqOf(tokenSeq) = Back(-1 - 1)
      BY <2>1, <2>3, <3>1, <3>2
    <3> QED BY <2>3, <3>1, <3>3
  <2>5. CASE txState = "CALC" /\ packet = <<>>
    <3>1. /\ Head(hold).token \in Token /\ FirstToken = Head(hold).token
          /\ tokenSeq = NextToken(Head(hold).token) /\ Pending = 1
      BY <2>5 DEF FramerInv, FirstToken, Pending, Summed
    <3> QED BY <2>1, <2>2, <2>3, <3>1
  <2>6. CASE txState # "CALC" /\ packet # <<>>
    <3>1. /\ Head(packet).token \in Token /\ FirstToken = Head(packet).token
          /\ tokenSeq = NextToken(Head(packet).token) /\ Pending = 1
      BY <2>6 DEF FramerInv, FirstToken, Pending, Summed
    <3> QED BY <2>1, <2>2, <2>3, <3>1
  <2>7. CASE txState # "CALC" /\ packet = <<>>
    <3>1. FirstToken = tokenSeq /\ Pending = 0
      BY <2>7 DEF FirstToken, Pending, Summed
    <3> QED BY <2>2, <2>3, <3>1
  <2> QED BY <2>4, <2>5, <2>6, <2>7
<1>4. Unaccepted = (PayldB * (c + Pending)) % SeqMod
  <2> DEFINE x == InitSeq + PayldB * tokenSeq
             b == PayldB * (0 - Pending)
             d == PayldB * c
  <2>1. x \in Int /\ b \in Int /\ d \in Int /\ d - b = PayldB * (c + Pending)
    BY <1>1, <1>2
  <2>2. At(seqNum, d) \in 0..(SeqMod - 1)
        /\ (At(seqNum, b) - At(seqNum, d)) % SeqMod = (d - b) % SeqMod
    <3>1. seqNum \in Int /\ b \in Int /\ d \in Int
      BY <1>1, <2>1
    <3>2. \A s, i, j \in Int : /\ At(s, j) \in 0..(SeqMod - 1)
                              /\ (At(s, i) - At(s, j)) % SeqMod = (j - i) % SeqMod
      BY ZenonT(30), AtFacts
    <3> HIDE DEF b, d
    <3> QED BY <3>1, <3>2
  <2>3. SeqOf(tokenSeq) = x % SeqMod /\ SeqOf(tokenSeq) = At(seqNum, b)
    BY <1>3 DEF SeqOf, Back
  <2>4. confirmed = At(seqNum, d)
    BY DEF Back
  <2>5. Unaccepted = (x - confirmed) % SeqMod
    BY DEF Unaccepted
  <2> HIDE DEF x, b, d
  <2>6. ((x % SeqMod) + (-confirmed)) % SeqMod = (x + (-confirmed)) % SeqMod
    <3>1. -confirmed \in Int
      BY <1>1, <2>2, <2>4
    <3> QED BY <1>1, <2>1, <3>1, ModSum
  <2>7. x % SeqMod \in Int /\ confirmed \in Int
    BY <1>1, <2>1, <2>2, <2>4, Quotient
  <2>8. (x % SeqMod) + (-confirmed) = (x % SeqMod) - confirmed /\ x + (-confirmed) = x - confirmed
    BY <2>1, <2>7
  <2> QED BY <2>1, <2>2, <2>3, <2>4, <2>5, <2>6, <2>8
<1>5. c + Pending \in 0..(MaxUnaccepted + 1) /\ c + Pending \in Int /\ MaxUnaccepted \in Int
  BY <1>1, <1>2
<1>6. 0 <= PayldB * (c + Pending) /\ 2 * (PayldB * (c + Pending)) < SeqMod
      /\ PayldB * (c + Pending) \in Int
  BY <1>5, WindowBound
<1>7. Unaccepted = PayldB * (c + Pending)
  <2>1. PayldB * (c + Pending) < SeqMod
    BY <1>1, <1>6
  <2>2. \A y \in Int : 0 <= y /\ y < SeqMod => y % SeqMod = y
    BY <1>1
  <2> QED BY <1>4, <1>6, <2>1, <2>2
<1>8. c + Pending = MaxUnaccepted => PayldB * (c + Pending) = PayldB * MaxUnaccepted
  OBVIOUS
<1>9. PayldB * MaxUnaccepted \in Int
  BY <1>1
<1> QED BY <1>5, <1>6, <1>7, <1>8, <1>9

(* The age the timer asks for, from the acknowledgement it watches.        *)
LEMMA AgeAsked ==
    ASSUME RingFitsWindow, InWindow, NEW a \in 1..(MaxUnaccepted + 1)
    PROVE  OldestAge(seqNum, Back(a)) = Younger(a, Slots) - 1
<1>1. /\ PayldB \in Nat \ {0} /\ Slots \in Nat \ {0} /\ RtoSlots = Slots /\ RtoPayldB = PayldB
      /\ MaxUnaccepted \in Nat /\ seqNum \in 0..(SeqMod - 1) /\ seqNum \in Int
  BY SeqAssumption, WiringAssumption, RingAssumption DEF RingFitsWindow, InWindow
<1>2. Ahead(seqNum, Back(a)) = PayldB * a
  <2>1. 0 \in 0..(MaxUnaccepted + 1) /\ a \in 0..(MaxUnaccepted + 1) /\ 0 \in Int /\ a \in Int
    BY <1>1
  <2>2. Ahead(Back(0), Back(a)) = PayldB * a - PayldB * 0
    BY <1>1, <2>1, BackAhead
  <2>3. Back(0) = seqNum /\ PayldB * 0 = 0 /\ PayldB * a \in Int
    BY <1>1, <2>1, BackFacts
  <2> QED BY <2>2, <2>3
<1> DEFINE n == Younger(a, Slots)
           bytes == PayldB * a
<1>3. n \in 1..Slots
  BY <1>1 DEF Younger
<1>4. {k \in 0..(RtoSlots - 1) : bytes > k * RtoPayldB} = 0..(n - 1)
  <2>1. ASSUME NEW k \in 0..(Slots - 1) PROVE bytes > k * PayldB <=> k \in 0..(n - 1)
    <3>1. k \in Int /\ a \in Int
      BY <1>1
    <3>2. /\ k < a => PayldB * k < PayldB * a
          /\ a <= k => PayldB * a <= PayldB * k
          /\ PayldB * k \in Int /\ PayldB * a \in Int /\ k * PayldB = PayldB * k
      BY <1>1, <3>1, Bytes
    <3>3. bytes > k * PayldB <=> k < a
      BY <3>1, <3>2
    <3>4. k < a <=> k \in 0..(n - 1)
      BY <1>1, <3>1 DEF Younger
    <3> QED BY <3>3, <3>4
  <2>2. 0..(n - 1) \subseteq 0..(Slots - 1)
    BY <1>1, <1>3
  <2> HIDE DEF n, bytes
  <2> QED BY <1>1, <2>1, <2>2
<1>5. Cardinality(0..(n - 1)) = n
  <2>1. 0 \in Int /\ n - 1 \in Int /\ 0 <= n - 1 /\ n - 1 - 0 + 1 = n
    BY <1>1, <1>3
  <2> HIDE DEF n
  <2> QED BY <2>1, FS_Interval
<1>6. FramesIn(bytes) = n
  BY <1>4, <1>5 DEF FramesIn
<1> HIDE DEF n, bytes
<1>7. (n - 1) % RtoSlots = n - 1
  BY <1>1, <1>3
<1>8. n # 0
  BY <1>3
<1>9. OldestAge(seqNum, Back(a)) = IF n = 0 THEN 0 ELSE (n - 1) % RtoSlots
  BY <1>2, <1>6 DEF OldestAge, bytes
<1> QED BY <1>7, <1>8, <1>9 DEF n

LEMMA AckStep ==
    ASSUME SameWidth, RingFitsWindow, InWindow, FramerInv, RingInv, ResendInv, AgeInv, AckInv,
           NEW intent, NEW hostAge, NEW lost,
           NEW heard \in {<<>>, <<venueNxt>>, <<(venueNxt - PayldB) % SeqMod>>},
           LinkTick(intent, hostAge, lost, heard)
    PROVE  AckInv'
<1> PICK k \in {0, 1} : k = Summed
  BY DEF Summed
<1>1. PICK v \in 0..MaxUnaccepted, c \in 0..MaxUnaccepted :
         /\ venueNxt = Back(v) /\ confirmed = Back(c)
         /\ v <= c /\ c + Pending <= MaxUnaccepted
         /\ peerAck \in {Back(c), Back(c + 1)} \/ (peerAck = 0 /\ prevAck = 0 /\ ~armed)
         /\ rtoReq # <<>> /\ txOut = <<>> => AskedAfter(v)
  BY DEF AckInv
<1>2. /\ MaxUnaccepted \in 0..Slots /\ Slots \in Nat \ {0} /\ MaxUnaccepted \in Nat
      /\ LiveReady \in BOOLEAN /\ rpBusy \in BOOLEAN
      /\ seqNum \in 0..(SeqMod - 1) /\ seqNum \in Int
  BY WiringAssumption, RingAssumption, SeqAssumption DEF LiveReady, ResendInv, InWindow
<1>3. /\ BuilderTick(intent, TxReady(LiveReady)) /\ TxTick(packet, FALSE, LiveReady)
      /\ RtoTick(seqNum, peerAck) /\ Network(lost) /\ Acknowledged(heard)
      /\ intent # <<>> => BuilderReady(TxReady(LiveReady)) /\ Unaccepted < PayldB * MaxUnaccepted
  BY DEF LinkTick
<1>4. \A i \in Int : Back(i + k)' = Back(i)
  BY <1>2, <1>3, SeqShift
<1>5. v \in Int /\ c \in Int /\ 0 <= v /\ 0 <= c
  BY <1>2
<1>6. \E u \in 0..v : venueNxt' = Back(u)
  <2>1. CASE ~lost /\ \E f \in Arriving : f.seq = venueNxt
    <3>1. venueNxt' = (Back(v) + PayldB) % SeqMod
      BY <1>1, <1>3, <2>1 DEF Network
    <3>2. \E i \in 1..(Slots + 1) : venueNxt = Back(i)
      <4>1. PICK f \in Arriving : f.seq = venueNxt
        BY <2>1
      <4>2. CASE rpBusy
        <5> DEFINE g == Head(ring[rpSlot][0]).frame
        <5>1. OnWire(txOut) = <<[frame |-> g, last |-> (rpBeat = 1)]>>
          BY <4>2, ReplayedBeat
        <5>2. Arriving = IF rpBeat = 1 THEN {g} ELSE {}
          BY <5>1, WireBeat
        <5>3. venueNxt = SeqIn(rpSlot)
          BY <4>1, <5>2 DEF SeqIn
        <5>4. \E i \in 1..(Slots + Unstored) : SeqIn(rpSlot) = Back(i)
          BY <4>2 DEF AgeInv
        <5>5. Unstored \in {0, 1}
          BY DEF Unstored
        <5>6. 1..(Slots + Unstored) \subseteq 1..(Slots + 1)
          BY <1>2, <5>5
        <5> QED BY <5>3, <5>4, <5>6
      <4>3. CASE ~rpBusy
        <5>1. OnWire(txOut) = txOut
          BY <4>3 DEF OnWire
        <5>2. txOut # <<>> /\ f = Head(txOut).frame
          BY <4>1, <5>1 DEF Arriving
        <5>3. f.seq = Back(1)
          BY <5>2 DEF AgeInv
        <5>4. 1 \in 1..(Slots + 1)
          BY <1>2
        <5> QED BY <4>1, <5>3, <5>4
      <4> QED BY <4>2, <4>3
    <3>3. v # 0
      <4>1. Back(0) = seqNum
        BY <1>2, BackFacts
      <4>2. \A i \in 1..(Slots + 1) : Back(i) # seqNum
        BY <1>2, NoneIsNext
      <4> QED BY <1>1, <3>2, <4>1, <4>2
    <3>4. venueNxt' = Back(v - 1)
      BY <1>2, <1>5, <3>1, BackFacts
    <3>5. v - 1 \in 0..v
      BY <1>5, <3>3
    <3> QED BY <3>4, <3>5
  <2>2. CASE ~(~lost /\ \E f \in Arriving : f.seq = venueNxt)
    <3>1. venueNxt' = Back(v)
      BY <1>1, <1>3, <2>2 DEF Network
    <3>2. v \in 0..v
      BY <1>5
    <3> QED BY <3>1, <3>2
  <2> QED BY <2>1, <2>2
<1>7. \E b \in v..c :
         /\ confirmed' = Back(b)
         /\ peerAck' \in {Back(b), Back(b + 1)} \/ (peerAck' = 0 /\ peerAck = 0 /\ prevAck = 0 /\ ~armed)
  <2>1. CASE heard = <<>>
    <3>1. confirmed' = Back(c) /\ peerAck' = peerAck
      BY <1>1, <1>3, <2>1 DEF Acknowledged
    <3>2. c \in v..c
      BY <1>1, <1>5
    <3> QED BY <1>1, <3>1, <3>2
  <2>2. ASSUME NEW j \in {v, v + 1}, heard = <<Back(j)>>
        PROVE  \E b \in v..c : confirmed' = Back(b) /\ peerAck' \in {Back(b), Back(b + 1)}
    <3>1. heard # <<>> /\ Head(heard) = Back(j)
      BY <2>2
    <3>2. /\ peerAck' = Back(j)
          /\ confirmed' = IF Ahead(Back(j), Back(c)) > 0 THEN Back(j) ELSE Back(c)
      BY <1>1, <1>3, <3>1 DEF Acknowledged
    <3>3. Ahead(Back(j), Back(c)) = PayldB * c - PayldB * j
      <4>1. j \in 0..(MaxUnaccepted + 1) /\ c \in 0..(MaxUnaccepted + 1)
        BY <1>2, <1>5
      <4> QED BY <1>2, <4>1, BackAhead
    <3>4. j \in Int
      BY <1>5
    <3>5. /\ PayldB * c \in Int /\ PayldB * j \in Int
          /\ j < c => PayldB * j < PayldB * c
          /\ c <= j => PayldB * c <= PayldB * j
      BY <1>5, <3>4, Bytes
    <3>6. Ahead(Back(j), Back(c)) > 0 <=> j < c
      <4> DEFINE x == PayldB * c
                 y == PayldB * j
      <4>1. x \in Int /\ y \in Int /\ (j < c => y < x) /\ (c <= j => x <= y)
        BY <3>5
      <4>2. Ahead(Back(j), Back(c)) = x - y
        BY <3>3
      <4> HIDE DEF x, y
      <4> QED BY <1>5, <3>4, <4>1, <4>2
    <3>7. CASE j < c
      <4>1. confirmed' = Back(j) /\ j \in v..c
        BY <1>5, <3>2, <3>6, <3>7
      <4> QED BY <3>2, <4>1
    <3>8. CASE ~(j < c)
      <4>1. confirmed' = Back(c) /\ c \in v..c /\ (j = c \/ j = c + 1)
        BY <1>1, <1>5, <3>2, <3>6, <3>8
      <4> QED BY <3>2, <4>1
    <3> QED BY <3>7, <3>8
  <2>3. (venueNxt - PayldB) % SeqMod = Back(v + 1)
    BY <1>1, <1>2, <1>5, BackFacts
  <2> QED BY <1>1, <2>1, <2>2, <2>3
<1>8. PICK u \in 0..v : venueNxt' = Back(u)
  BY <1>6
<1>9. PICK b \in v..c :
         /\ confirmed' = Back(b)
         /\ peerAck' \in {Back(b), Back(b + 1)} \/ (peerAck' = 0 /\ peerAck = 0 /\ prevAck = 0 /\ ~armed)
  BY <1>7
<1>10. /\ u \in Int /\ b \in Int /\ 0 <= u /\ u <= v /\ v <= b /\ b <= c
  BY <1>5
<1>11. Back(u + k)' = Back(u) /\ Back(b + k)' = Back(b) /\ Back(b + k + 1)' = Back(b + 1)
  <2>1. b + 1 \in Int /\ b + 1 + k = b + k + 1
    BY <1>10
  <2>2. Back(b + 1 + k)' = Back(b + 1)
    BY <1>4, <2>1
  <2>3. \A x, y : x = y => Back(x)' = Back(y)'
    BY DEF Back
  <2>4. Back(b + k + 1)' = Back(b + 1)
    BY <2>1, <2>2, <2>3
  <2> QED BY <1>4, <1>10, <2>4
<1>12. b + k + Pending' <= MaxUnaccepted /\ u + k <= b + k /\ u + k \in 0..MaxUnaccepted
       /\ b + k \in 0..MaxUnaccepted
  <2> DEFINE p == Pending
             q == Pending'
  <2>1. /\ p \in 0..2 /\ q \in 0..2
        /\ intent # <<>> => q + k <= p + 1
        /\ intent = <<>> => q + k <= p
    <3>1. /\ Pending \in 0..2 /\ Pending' \in 0..2
          /\ intent # <<>> => Pending' + k <= Pending + 1
          /\ intent = <<>> => Pending' + k <= Pending
      BY <1>2, <1>3, PendingStep
    <3> QED BY <3>1
  <2>2. intent # <<>> => c + p < MaxUnaccepted
    BY <1>1, <1>3, RoomForOrder
  <2>3. c + p <= MaxUnaccepted
    BY <1>1
  <2> HIDE DEF p, q
  <2>4. c + k + q <= MaxUnaccepted
    BY <1>2, <1>5, <2>1, <2>2, <2>3
  <2>5. b + k + q <= MaxUnaccepted /\ u + k <= b + k /\ u + k \in 0..MaxUnaccepted
        /\ b + k \in 0..MaxUnaccepted
    BY <1>2, <1>5, <1>10, <2>1, <2>4
  <2> QED BY <2>5 DEF q
<1>13. \/ peerAck' \in {Back(b + k)', Back(b + k + 1)'}
       \/ peerAck' = 0 /\ prevAck' = 0 /\ ~armed'
  <2>1. CASE peerAck' \in {Back(b), Back(b + 1)}
    BY <1>11, <2>1
  <2>2. CASE peerAck' = 0 /\ peerAck = 0 /\ prevAck = 0 /\ ~armed
    BY <1>3, <2>2 DEF RtoTick, RtoIdle
  <2> QED BY <1>9, <2>1, <2>2
<1>14. ASSUME rtoReq' # <<>>, txOut' = <<>>
       PROVE  AskedAfter(u + k)'
  <2>1. /\ prevAck' = peerAck /\ peerAck = prevAck /\ armed /\ Ahead(seqNum, peerAck) > 0
        /\ rtoReq' = <<OldestAge(seqNum, peerAck)>>
    BY <1>3, <1>14 DEF RtoTick, RtoProgress, RtoIdle, RtoWait, RtoFire, RtoGiveUp, Quiet
  <2>2. PICK a \in {c, c + 1} : peerAck = Back(a)
    BY <1>1, <2>1
  <2>3. k = 0
    BY <1>2, <1>3, <1>14, OutShift
  <2>4. a \in Int /\ a \in 0..(MaxUnaccepted + 1) /\ c <= a
    BY <1>2, <1>5
  <2>5. a # 0
    <3>1. 0 \in 0..(MaxUnaccepted + 1) /\ 0 \in Int
      BY <1>2
    <3>2. Ahead(Back(0), Back(0)) = PayldB * 0 - PayldB * 0
      BY <1>2, <3>1, BackAhead
    <3>3. PayldB * 0 = 0 /\ Back(0) = seqNum
      BY <1>2, <3>1, Bytes, BackFacts
    <3>4. Ahead(seqNum, Back(0)) = 0
      BY <3>2, <3>3
    <3> QED BY <2>1, <2>2, <3>4
  <2>6. a \in 1..(MaxUnaccepted + 1)
    BY <1>2, <2>4, <2>5
  <2>7. rtoReq' = <<Younger(a, Slots) - 1>>
    BY <2>1, <2>2, <2>6, AgeAsked
  <2>8. Back(a)' = Back(a)
    <3>1. a + k = a
      BY <2>3, <2>4
    <3>2. \A x, y : x = y => Back(x)' = Back(y)'
      BY DEF Back
    <3> QED BY <1>4, <2>4, <3>1, <3>2
  <2>9. a \in (u + k)..(MaxUnaccepted + 1) /\ a >= 1
    BY <1>2, <1>5, <1>10, <2>3, <2>4, <2>6
  <2> QED BY <2>1, <2>2, <2>7, <2>8, <2>9 DEF AskedAfter
<1> QED BY <1>8, <1>9, <1>11, <1>12, <1>13, <1>14 DEF AckInv

(****************************** theorems ***********************************)

LEMMA WireInit == SameWidth /\ LinkInit => WireInv
<1> SUFFICES ASSUME SameWidth, LinkInit PROVE WireInv
  OBVIOUS
<1>1. /\ SeqMod \in Nat \ {0} /\ PayldB \in Nat /\ InitSeq \in 0..(SeqMod - 1)
      /\ TokenMod \in Nat \ {0} /\ Slots \in Nat \ {0}
  BY SeqAssumption, TokenAssumption, RingAssumption
<1>2. /\ packet = <<>> /\ tokenSeq = 0 /\ txState = "IDLE" /\ txOut = <<>> /\ seqNum = InitSeq
      /\ ring = [q \in Slot |-> [n \in BeatNum |-> <<>>]] /\ slotLen = [q \in Slot |-> 0]
      /\ wrSlot = 0 /\ wrBeat = 0 /\ rpBusy = FALSE /\ rtoReq = <<>>
      /\ heldOff = 0 /\ midFrame = {}
  BY DEF LinkInit, BuilderInit, TxInit, ReplayInit, RtoInit
<1>3. SeqOf(0) = InitSeq
  <2>1. InitSeq + PayldB * 0 = InitSeq /\ InitSeq % SeqMod = InitSeq
    BY <1>1
  <2> QED BY <2>1 DEF SeqOf
<1>4. FramerInv
  BY <1>1, <1>2, <1>3 DEF FramerInv, FirstToken, Token
<1>5. ~Halfway
  BY <1>2 DEF Halfway
<1>6. IsRing(ring)
  BY <1>2 DEF IsRing
<1>7. RingInv
  BY <1>1, <1>2, <1>5, <1>6 DEF RingInv, Slot
<1>8. ResendInv
  <2>1. rpBusy \in BOOLEAN /\ ~rpBusy
    BY <1>2, Zenon
  <2>2. heldOff \in 0..2 /\ midFrame = {}
    BY <1>2
  <2> QED BY <1>5, <2>1, <2>2, Zenon DEF ResendInv
<1> QED BY <1>2, <1>4, <1>7, <1>8 DEF WireInv, Ages

LEMMA WireStep ==
    ASSUME SameWidth, WireInv, [LinkNext]_linkVars
    PROVE  WireInv'
<1>1. FramerInv /\ RingInv /\ ResendInv /\ rtoReq \in Ages
  BY DEF WireInv
<1>2. CASE LinkNext
  <2>1. PICK intent \in {<<>>} \cup {<<o>> : o \in Intent},
             hostAge \in {<<>>} \cup {<<a>> : a \in HostAges},
             lost \in BOOLEAN,
             heard \in {<<>>, <<venueNxt>>, <<(venueNxt - PayldB) % SeqMod>>} :
               LinkTick(intent, hostAge, lost, heard)
    BY <1>2 DEF LinkNext
  <2>2. LiveReady \in BOOLEAN /\ rpBusy \in BOOLEAN
    BY <1>1 DEF LiveReady, ResendInv
  <2>3. /\ BuilderTick(intent, TxReady(LiveReady)) /\ TxTick(packet, FALSE, LiveReady)
        /\ ReplayTick(txOut, Requests(hostAge)) /\ RtoTick(seqNum, peerAck) /\ WireMoves
        /\ heldOff' = IF txOut # <<>> /\ ~LiveReady THEN heldOff + 1 ELSE 0
    BY <2>1 DEF LinkTick, WireMoves
  <2>4. FramerInv'
    BY <1>1, <2>2, <2>3, FramerStep
  <2>5. RingInv'
    <3>1. IF txOut # <<>> /\ LiveReady THEN Store(txOut) ELSE UNCHANGED storeVars
      BY <2>3 DEF ReplayTick
    <3> QED BY <1>1, <2>2, <2>3, <3>1, RingStep
  <2>6. Requests(hostAge) \in Ages /\ rtoReq' \in Ages
    BY <1>1, <2>1, <2>3, RequestType
  <2>7. ResendInv'
    BY <1>1, <2>3, <2>6, ResendStep
  <2> QED BY <2>4, <2>5, <2>6, <2>7 DEF WireInv
<1>3. CASE UNCHANGED linkVars
  <2>1. /\ UNCHANGED <<packet, tokenSeq, txState, hold, txOut, tail, seqNum>>
        /\ UNCHANGED <<ring, slotLen, wrSlot, wrBeat, rpBusy, rpSlot, rpBeat, rpLen>>
        /\ UNCHANGED <<rtoReq, heldOff, midFrame>>
    BY <1>3 DEF linkVars, builderVars, txVars, replayVars, storeVars, resendVars, rtoVars, netVars
  <2>2. FramerInv'
    BY <1>1, <2>1 DEF FramerInv, FirstToken, IsBeat, Good, SeqOf, NextToken, Token, TailBeat
  <2>3. RingInv'
    BY <1>1, <2>1 DEF RingInv, IsRing, Halfway, WholeSlot, HeadBeat
  <2>4. ResendInv'
    BY <1>1, <2>1 DEF ResendInv, Halfway, WholeSlot
  <2> QED BY <1>1, <2>1, <2>2, <2>3, <2>4 DEF WireInv
<1> QED BY <1>2, <1>3

LEMMA WireInvariant == ASSUME SameWidth PROVE LinkSpec => []WireInv
<1>1. LinkInit => WireInv
  BY WireInit
<1>2. WireInv /\ [LinkNext]_linkVars => WireInv'
  BY WireStep
<1> QED BY <1>1, <1>2, PTL DEF LinkSpec

(* Live or sent again, a frame crosses the wire whole and is the order its *)
(* sequence number stands for, for every size of the ring                  *)
(* (tx_replay_buf.sv: a replay never collides with a live order).          *)
THEOREM FramesCrossWhole == ASSUME SameWidth PROVE LinkSpec => []WholeFrames
<1>1. WireInv => WholeFrames
  <2> SUFFICES ASSUME WireInv, OnWire(txOut) # <<>>
               PROVE  LET beat == Head(OnWire(txOut)) IN
                      /\ beat.frame.seq = SeqOf(beat.frame.payload.token)
                      /\ IF beat.last THEN midFrame = {beat.frame} ELSE midFrame = {}
    BY DEF WholeFrames
  <2>1. FramerInv /\ RingInv /\ ResendInv
    BY DEF WireInv
  <2>2. CASE rpBusy
    <3> DEFINE f == Head(ring[rpSlot][0]).frame
    <3>1. Good(f) /\ OnWire(txOut) = <<[frame |-> f, last |-> (rpBeat = 1)]>>
      BY <2>1, <2>2, ReplayedBeat
    <3>2. Head(OnWire(txOut)).frame = f /\ Head(OnWire(txOut)).last = (rpBeat = 1)
      BY <3>1, WireBeat
    <3>3. midFrame = IF rpBeat = 1 THEN {f} ELSE {}
      BY <2>1, <2>2 DEF ResendInv
    <3> QED BY <3>1, <3>2, <3>3 DEF Good
  <2>3. CASE ~rpBusy
    <3>1. OnWire(txOut) = txOut /\ txOut # <<>>
      BY <2>3 DEF OnWire
    <3>2. midFrame = IF Halfway THEN {Head(txOut).frame} ELSE {}
      BY <2>1, <2>3 DEF ResendInv
    <3>3. Good(Head(txOut).frame)
      <4>1. IsBeat(txOut, TRUE) \/ IsBeat(txOut, FALSE)
        BY <2>1, <3>1 DEF FramerInv
      <4> QED BY <4>1, BeatFacts
    <3>4. Halfway <=> Head(txOut).last
      BY <3>1 DEF Halfway
    <3> QED BY <3>1, <3>2, <3>3, <3>4 DEF Good
  <2> QED BY <2>2, <2>3
<1> QED BY <1>1, WireInvariant, PTL

(* A live beat waits for one replay at most (tx_replay_buf.sv).            *)
THEOREM BriefHoldOff == ASSUME SameWidth PROVE LinkSpec => []HeldOffBriefly
<1>1. WireInv => HeldOffBriefly
  BY RingFacts DEF WireInv, ResendInv, HeldOffBriefly
<1> QED BY <1>1, WireInvariant, PTL

(* The timer asks for the oldest frame the venue is missing, for every     *)
(* ring that is a small part of the sequence numbers (tx_rto.sv).          *)
THEOREM OldestIsAskedFor == ASSUME SameWidth, RingFitsWindow PROVE LinkSpec => []AsksForOldest
<1> DEFINE I == WireInv /\ InWindow /\ AgeInv /\ AckInv
<1>1. LinkInit => I
  <2> SUFFICES ASSUME LinkInit PROVE I
    OBVIOUS
  <2>1. WireInv
    BY WireInit
  <2>2. /\ packet = <<>> /\ txState = "IDLE" /\ txOut = <<>> /\ seqNum = InitSeq
        /\ wrSlot = 0 /\ wrapped = FALSE /\ rpBusy = FALSE /\ rtoReq = <<>>
        /\ prevAck = 0 /\ armed = FALSE
        /\ peerAck = 0 /\ confirmed = InitSeq /\ venueNxt = InitSeq
    BY DEF LinkInit, BuilderInit, TxInit, ReplayInit, RtoInit
  <2>3. InWindow
    BY <2>2, SeqAssumption DEF InWindow
  <2>4. AgeInv
    <3>1. \A age \in 0..(Slots - 1) : ~Held(age)
      <4>1. ~wrapped /\ wrSlot = 0 /\ Slots \in Nat
        BY <2>2, RingFacts
      <4> QED BY <4>1 DEF Held
    <3> QED BY <2>2, <3>1 DEF AgeInv
  <2>5. AckInv
    <3>1. Back(0) = InitSeq
      BY <2>2, <2>3, BackFacts DEF InWindow
    <3>2. Pending = 0
      BY <2>2 DEF Pending, Summed
    <3>3. 0 \in 0..MaxUnaccepted /\ 0 <= 0 /\ 0 + 0 <= MaxUnaccepted
      BY WiringAssumption, RingAssumption
    <3>4. ~armed
      BY <2>2
    <3> QED BY <2>2, <3>1, <3>2, <3>3, <3>4 DEF AckInv
  <2> QED BY <2>1, <2>3, <2>4, <2>5
<1>2. I /\ [LinkNext]_linkVars => I'
  <2> SUFFICES ASSUME I, [LinkNext]_linkVars PROVE I'
    OBVIOUS
  <2>1. WireInv' /\ FramerInv /\ RingInv /\ ResendInv /\ rtoReq \in Ages
    BY WireStep DEF WireInv
  <2>2. CASE LinkNext
    <3>1. PICK intent \in {<<>>} \cup {<<o>> : o \in Intent},
               hostAge \in {<<>>} \cup {<<a>> : a \in HostAges},
               lost \in BOOLEAN,
               heard \in {<<>>, <<venueNxt>>, <<(venueNxt - PayldB) % SeqMod>>} :
                 LinkTick(intent, hostAge, lost, heard)
      BY <2>2 DEF LinkNext
    <3>2. /\ TxTick(packet, FALSE, LiveReady) /\ ReplayTick(txOut, Requests(hostAge))
          /\ LiveReady \in BOOLEAN
      BY <2>1, <3>1 DEF LinkTick, LiveReady, ResendInv
    <3>3. Requests(hostAge) \in Ages
      BY <2>1, <3>1, RequestType
    <3>4. InWindow'
      <4> PICK k \in {0, 1} : k = Summed
        BY DEF Summed
      <4> QED BY <3>2, SeqShift
    <3>5. AgeInv'
      BY <2>1, <3>2, <3>3, AgeStep
    <3>6. AckInv'
      BY <2>1, <3>1, AckStep
    <3> QED BY <2>1, <3>4, <3>5, <3>6
  <2>3. CASE UNCHANGED linkVars
    <3>1. /\ UNCHANGED <<packet, txState, txOut, seqNum, ring, wrSlot, wrapped, rpBusy, rpSlot>>
          /\ UNCHANGED <<rtoReq, prevAck, armed, peerAck, confirmed, venueNxt>>
      BY <2>3 DEF linkVars, builderVars, txVars, replayVars, storeVars, resendVars, rtoVars, netVars
    <3>2. InWindow'
      BY <3>1 DEF InWindow
    <3>3. \A i : Back(i)' = Back(i) /\ AgedSlot(i)' = AgedSlot(i) /\ SeqIn(i)' = SeqIn(i)
      BY <3>1 DEF Back, AgedSlot, SeqIn
    <3>4. Unstored' = Unstored /\ Pending' = Pending /\ \A age : Held(age)' <=> Held(age)
      BY <3>1 DEF Unstored, Pending, Summed, Held, Halfway
    <3>5. AgeInv'
      BY <3>1, <3>4 DEF AgeInv, Back, AgedSlot, SeqIn
    <3>6. AckInv'
      BY <3>1, <3>4 DEF AckInv, AskedAfter, Back
    <3> QED BY <2>1, <3>2, <3>5, <3>6
  <2> QED BY <2>2, <2>3
<1>3. I => AsksForOldest
  <2> SUFFICES ASSUME I, rtoReq # <<>>, Accepts(rtoReq, txOut)
               PROVE  LET asked == Head(ring[AgedSlot(Head(rtoReq))][0]).frame IN
                      /\ Ahead(venueNxt, asked.seq) >= 0 /\ Ahead(seqNum, asked.seq) > 0
                      /\ (Ahead(seqNum, prevAck) <= PayldB * Slots => asked.seq = prevAck)
    BY DEF AsksForOldest
  <2>1. /\ txOut = <<>> /\ ~Halfway /\ Unstored = 0
        /\ wrapped \/ Head(rtoReq) < wrSlot
    BY DEF Accepts, Stored, Halfway, Unstored
  <2>2. PICK v \in 0..MaxUnaccepted, c \in 0..MaxUnaccepted :
          venueNxt = Back(v) /\ AskedAfter(v)
    BY <2>1 DEF AckInv
  <2>3. PICK a \in v..(MaxUnaccepted + 1) :
          a >= 1 /\ prevAck = Back(a) /\ rtoReq = <<Younger(a, Slots) - 1>>
    BY <2>2 DEF AskedAfter
  <2>4. /\ MaxUnaccepted \in 0..Slots /\ Slots \in Nat \ {0} /\ PayldB \in Nat \ {0}
        /\ seqNum \in 0..(SeqMod - 1) /\ seqNum \in Int /\ MaxUnaccepted \in Nat
    BY WiringAssumption, RingAssumption, SeqAssumption DEF InWindow, RingFitsWindow
  <2> DEFINE n == Younger(a, Slots)
             seq == Head(ring[AgedSlot(Head(rtoReq))][0]).frame.seq
  <2>5. /\ n \in 1..Slots /\ v <= n /\ n \in 0..(MaxUnaccepted + 1) /\ (a <= Slots => n = a)
        /\ v \in 0..(MaxUnaccepted + 1) /\ a \in 0..(MaxUnaccepted + 1) /\ 0 \in 0..(MaxUnaccepted + 1)
    BY <2>3, <2>4 DEF Younger
  <2>6. seq = Back(n)
    <3>1. Head(rtoReq) = n - 1 /\ n - 1 \in 0..(Slots - 1)
      BY <2>3, <2>4, <2>5
    <3>2. Held(n - 1)
      BY <2>1, <3>1 DEF Held
    <3>3. SeqIn(AgedSlot(n - 1)) = Back(n - 1 + 1 + Unstored)
      BY <3>1, <3>2 DEF AgeInv
    <3>4. n - 1 + 1 + Unstored = n
      BY <2>1, <2>5
    <3> QED BY <3>1, <3>3, <3>4 DEF SeqIn
  <2> HIDE DEF n, seq
  <2>7. /\ Ahead(venueNxt, seq) = PayldB * n - PayldB * v
        /\ Ahead(Back(0), seq) = PayldB * n - PayldB * 0
        /\ Ahead(Back(0), prevAck) = PayldB * a - PayldB * 0
    BY <2>2, <2>3, <2>4, <2>5, <2>6, BackAhead
  <2>8. Back(0) = seqNum
    BY <2>4, BackFacts
  <2>9. /\ n \in Int /\ v \in Int /\ a \in Int /\ 0 \in Int /\ Slots \in Int
        /\ v <= n /\ 0 < n
    BY <2>4, <2>5
  <2>10. /\ PayldB * n \in Int /\ PayldB * v \in Int /\ PayldB * a \in Int /\ PayldB * Slots \in Int
         /\ PayldB * v <= PayldB * n /\ PayldB * 0 < PayldB * n /\ PayldB * 0 = 0
         /\ (Slots < a => PayldB * Slots < PayldB * a)
    BY <2>9, Bytes
  <2>11. Ahead(venueNxt, seq) >= 0 /\ Ahead(seqNum, seq) > 0
    BY <2>7, <2>8, <2>10
  <2>12. Ahead(seqNum, prevAck) <= PayldB * Slots => seq = prevAck
    <3>1. Ahead(seqNum, prevAck) <= PayldB * Slots => a <= Slots
      BY <2>7, <2>8, <2>9, <2>10
    <3> QED BY <2>3, <2>5, <2>6, <3>1
  <2> QED BY <2>11, <2>12 DEF seq
<1> HIDE DEF I
<1> QED BY <1>1, <1>2, <1>3, PTL DEF LinkSpec
=============================================================================
