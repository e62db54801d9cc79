------------------------------ MODULE Strategy ------------------------------
(***************************************************************************)
(* The trigger and risk gate (step6-strategy/rtl/strategy.sv), one step    *)
(* per core clock.                                                         *)
(*                                                                         *)
(* A two-stage pipeline: stage 1 registers the record and prices the sweep *)
(* pulse at the last two-sided quote of its own symbol, stage 2 finds the  *)
(* rising edge and passes the order through four gates.  The configuration *)
(* does not change while the strategy is enabled ("read as a set while     *)
(* cfg_enable is low"), so stage 1 keeps the record and the rule is        *)
(* evaluated on it in stage 2.  A register with a valid bit is a sequence  *)
(* of length 0 or 1.                                                       *)
(***************************************************************************)
EXTENDS Integers, Sequences, FiniteSets, FiniteSetsExt

CONSTANTS Sym,
          Quote,       \* BBO records the book engine presents
          WordMod,     \* prices are unsigned words: 2^32
          PosHalf,     \* positions are signed words: 2^31
          CntMod,      \* sent_cnt counts modulo this (2^32)
          BlkMod,      \* the refusal counters count modulo this (2^32)
          MaxSpread, RatioShift, MinQty, OrderQty, PosLimit, MaxInflight,
          MaxShares    \* OUCH_MAX_SHARES

(* An absent side and a side priced zero are both price 0.                 *)
QuoteType == [sym : Sym, bid : Nat, bidQty : Nat, ask : Nat, askQty : Nat]

ASSUME QuoteAssumption == Quote \subseteq QuoteType
ASSUME WidthAssumption ==
    /\ WordMod \in Nat \ {0} /\ PosHalf \in Nat \ {0} /\ CntMod \in Nat \ {0} /\ BlkMod \in Nat \ {0}
    /\ \A q \in Quote : q.bid < WordMod /\ q.ask < WordMod
ASSUME LimitAssumption ==
    /\ MaxSpread \in Nat /\ RatioShift \in Nat /\ MinQty \in Nat
    /\ OrderQty \in Nat /\ MaxInflight \in Nat /\ MaxShares \in Nat
    /\ PosLimit \in Nat /\ PosLimit < PosHalf

VARIABLES
  stage1,        \* s1_valid and the record it evaluates
  sweep1,        \* s1_sweep: an order already priced
  book,          \* bbo_ok, bbo_*: the latest two-sided quote of each symbol
  prevBuy, prevSell,
  order,         \* o_valid and the order intent
  position, inflight, sentCnt,
  blkCnt         \* blk_qty_cnt, blk_inflight_cnt, blk_pos_cnt, blk_txfull_cnt

strategyVars == <<stage1, sweep1, book, prevBuy, prevSell, order, position,
                  inflight, sentCnt, blkCnt>>

(* ---- the rule, on one record ----                                       *)
TwoSided(q) == q.bid # 0 /\ q.ask # 0
Tight(q)    == TwoSided(q) /\ ((q.ask - q.bid) % WordMod) <= MaxSpread
BuySig(q)   == Tight(q) /\ q.bidQty >= q.askQty * 2 ^ RatioShift /\ q.askQty >= MinQty
SellSig(q)  == Tight(q) /\ q.askQty >= q.bidQty * 2 ^ RatioShift /\ q.bidQty >= MinQty

(* Take what rests on the other side, and no more than the order size.     *)
Lot(resting)  == IF resting < OrderQty THEN resting ELSE OrderQty
LiftOffer(q)  == [sym |-> q.sym, buy |-> TRUE,  qty |-> Lot(q.askQty), px |-> q.ask]
HitBid(q)     == [sym |-> q.sym, buy |-> FALSE, qty |-> Lot(q.bidQty), px |-> q.bid]
Take(q, buy)  == IF buy THEN LiftOffer(q) ELSE HitBid(q)

(* Wrong on purpose: a sweep priced at the book that last moved.           *)
PriceSweepAnyBook(sweep) ==
    LET s == IF stage1 = <<>> THEN Head(sweep).sym ELSE Head(stage1).sym IN
    IF sweep = <<>> \/ book[s] = <<>> THEN <<>>
    ELSE <<[Take(Head(book[s]), Head(sweep).buy) EXCEPT !.sym = Head(sweep).sym]>>

(* A sweep pulse [sym, buy] is priced at the book of its own symbol.       *)
PriceSweep(sweep) ==
    IF sweep = <<>> \/ book[Head(sweep).sym] = <<>> THEN <<>>
    ELSE <<Take(Head(book[Head(sweep).sym]), Head(sweep).buy)>>

(* ---- stage 2 ----                                                       *)
FireBuy(q)  == BuySig(q) /\ ~prevBuy[q.sym]
FireSell(q) == SellSig(q) /\ ~prevSell[q.sym]

Imbalance == IF stage1 = <<>> THEN <<>>
             ELSE LET q == Head(stage1) IN
                  IF FireBuy(q) THEN <<LiftOffer(q)>>
                  ELSE IF FireSell(q) THEN <<HitBid(q)>> ELSE <<>>

(* A sweep has priority: one order leaves per cycle.                       *)
Wanted == IF sweep1 # <<>> THEN sweep1 ELSE Imbalance

Signed(x) == ((x + PosHalf) % (2 * PosHalf)) - PosHalf
PosNew(o) == Signed(IF o.buy THEN position[o.sym] + o.qty ELSE position[o.sym] - o.qty)

(* Wrong on purpose: a limit on one side only.                             *)
PosOkLongOnly(o) == PosNew(o) <= PosLimit

QtyOk(o)   == o.qty # 0 /\ o.qty < MaxShares
PosOk(o)   == PosNew(o) <= PosLimit /\ PosNew(o) >= -PosLimit
InflightOk == inflight < MaxInflight

(* The gates in the order they are asked; the first closed one refuses.    *)
Reason == 1..4
(* Wrong on purpose: the ready gate left out.                              *)
GatesWithoutReady(o, ready) == <<QtyOk(o), InflightOk, PosOk(o), TRUE>>

Gates(o, ready) == <<QtyOk(o), InflightOk, PosOk(o), ready>>
Closed(o, ready) == {g \in Reason : ~Gates(o, ready)[g]}

Sends(ready, enable) ==
    enable /\ Wanted # <<>> /\ Closed(Head(Wanted), ready) = {}
Refuses(ready, enable) ==
    enable /\ Wanted # <<>> /\ Closed(Head(Wanted), ready) # {}

(* Wrong on purpose: the increment without its guard, so that the later    *)
(* assignment stands.                                                      *)
InflightSentLast(ack, sends) ==
    IF sends THEN inflight + 1
    ELSE IF ack /\ inflight # 0 THEN inflight - 1 ELSE inflight

(* An ack retires one order.  When it comes with a send, the decrement is  *)
(* the only assignment made: the increment is guarded by the absence of an *)
(* ack.                                                                    *)
InflightNext(ack, sends) ==
    IF ack /\ inflight # 0 THEN inflight - 1
    ELSE IF sends THEN inflight + 1 ELSE inflight

StrategyInit ==
    /\ stage1 = <<>> /\ sweep1 = <<>> /\ order = <<>>
    /\ book = [s \in Sym |-> <<>>]
    /\ prevBuy = [s \in Sym |-> FALSE] /\ prevSell = [s \in Sym |-> FALSE]
    /\ position = [s \in Sym |-> 0]
    /\ inflight = 0 /\ sentCnt = 0 /\ blkCnt = [g \in Reason |-> 0]

(* One core clock: `quote' and `sweep' are the pulses presented, `ack' is  *)
(* i_ack, `ready' is o_ready and `enable' is cfg_enable.                   *)
Register(quote, sweep) ==
    /\ stage1' = quote
    /\ book' = IF quote # <<>> /\ TwoSided(Head(quote))
               THEN [book EXCEPT ![Head(quote).sym] = quote] ELSE book
    /\ sweep1' = PriceSweep(sweep)

(* Wrong on purpose: one edge memory for all symbols.                      *)
AdvanceSharedEdges ==
    /\ prevBuy'  = IF stage1 = <<>> THEN prevBuy
                   ELSE [s \in Sym |-> BuySig(Head(stage1))]
    /\ prevSell' = IF stage1 = <<>> THEN prevSell
                   ELSE [s \in Sym |-> SellSig(Head(stage1))]

(* Wrong on purpose: a one-sided record does not end the condition.        *)
AdvanceEdgesTwoSided ==
    /\ prevBuy'  = IF stage1 = <<>> \/ ~TwoSided(Head(stage1)) THEN prevBuy
                   ELSE [prevBuy EXCEPT ![Head(stage1).sym] = BuySig(Head(stage1))]
    /\ prevSell' = IF stage1 = <<>> \/ ~TwoSided(Head(stage1)) THEN prevSell
                   ELSE [prevSell EXCEPT ![Head(stage1).sym] = SellSig(Head(stage1))]

AdvanceEdges ==
    /\ prevBuy'  = IF stage1 = <<>> THEN prevBuy
                   ELSE [prevBuy EXCEPT ![Head(stage1).sym] = BuySig(Head(stage1))]
    /\ prevSell' = IF stage1 = <<>> THEN prevSell
                   ELSE [prevSell EXCEPT ![Head(stage1).sym] = SellSig(Head(stage1))]

Decide(ack, ready, enable) ==
    /\ inflight' = InflightNext(ack, Sends(ready, enable))
    /\ IF Sends(ready, enable)
       THEN /\ order' = Wanted
            /\ position' = [position EXCEPT ![Head(Wanted).sym] = PosNew(Head(Wanted))]
            /\ sentCnt' = (sentCnt + 1) % CntMod
       ELSE order' = <<>> /\ UNCHANGED <<position, sentCnt>>
    /\ blkCnt' = IF Refuses(ready, enable)
                 THEN [blkCnt EXCEPT ![Min(Closed(Head(Wanted), ready))] = (@ + 1) % BlkMod]
                 ELSE blkCnt

StrategyTick(quote, sweep, ack, ready, enable) ==
    Register(quote, sweep) /\ AdvanceEdges /\ Decide(ack, ready, enable)
-----------------------------------------------------------------------------
OrderType == [sym : Sym, buy : BOOLEAN, qty : Nat, px : Nat]
Maybe(S)  == {<<>>} \cup {<<x>> : x \in S}
Holds(r, S) == r = <<>> \/ (Len(r) = 1 /\ Head(r) \in S)

StrategyTypeOK ==
    /\ stage1 \in Maybe(Quote) /\ book \in [Sym -> Maybe(Quote)]
    /\ Holds(sweep1, OrderType) /\ Holds(order, OrderType)
    /\ prevBuy \in [Sym -> BOOLEAN] /\ prevSell \in [Sym -> BOOLEAN]
    /\ position \in [Sym -> Int] /\ inflight \in Nat
    /\ sentCnt \in 0..(CntMod - 1) /\ blkCnt \in [Reason -> 0..(BlkMod - 1)]
=============================================================================
