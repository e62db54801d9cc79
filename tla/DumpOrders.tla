----------------------------- MODULE DumpOrders -----------------------------
(***************************************************************************)
(* The software model of the trigger and risk gate                         *)
(* (step6-strategy/scripts/dump_orders.py), one step per event of the      *)
(* merged list: a top-of-book record or a sweep of the one symbol it       *)
(* follows.  It is what the hardware is diffed against: integers have no   *)
(* width, there is no kill switch and no transmit path, and answers of the *)
(* venue land just before the record they are due at.                      *)
(***************************************************************************)
EXTENDS Integers, Sequences

CONSTANTS MaxSpread, RatioShift, MinQty, OrderQty, PosLimit, MaxInflight,
          OuchMaxShares

VARIABLES pos, inflight,
          prevBuy, prevSell,
          held,   \* bbo_ok, lbid_*, lask_*: the last two-sided record, or none
          out     \* the order this event appended, or none

twoSided(e) == e.bid # 0 /\ e.ask # 0
tight(e)    == twoSided(e) /\ e.ask - e.bid <= MaxSpread
buy(e)      == tight(e) /\ e.bidQty >= e.askQty * 2 ^ RatioShift /\ e.askQty >= MinQty
sell(e)     == tight(e) /\ e.askQty >= e.bidQty * 2 ^ RatioShift /\ e.bidQty >= MinQty

min(a, b) == IF a < b THEN a ELSE b

(* Validity, then in flight, then position; the first that fails drops the *)
(* order.  `left' is what is in flight once the answers have landed.       *)
gateAndEmit(isBuy, qty, px, left) ==
    LET newpos == IF isBuy THEN pos + qty ELSE pos - qty
        passes == /\ qty > 0 /\ qty < OuchMaxShares
                  /\ left < MaxInflight
                  /\ newpos <= PosLimit /\ newpos >= -PosLimit
    IN  IF passes
        THEN /\ out' = <<[buy |-> isBuy, qty |-> qty, px |-> px]>>
             /\ pos' = newpos
             /\ inflight' = left + 1
        ELSE out' = <<>> /\ pos' = pos /\ inflight' = left

quiet(left) == out' = <<>> /\ pos' = pos /\ inflight' = left

(* A record, with the answers that are due at it.                          *)
BboEvent(e, acks) ==
    /\ held' = IF twoSided(e) THEN <<e>> ELSE held
    /\ prevBuy' = buy(e) /\ prevSell' = sell(e)
    /\ IF buy(e) /\ ~prevBuy
       THEN gateAndEmit(TRUE, min(OrderQty, e.askQty), e.ask, inflight - acks)
       ELSE IF sell(e) /\ ~prevSell
       THEN gateAndEmit(FALSE, min(OrderQty, e.bidQty), e.bid, inflight - acks)
       ELSE quiet(inflight - acks)

(* A sweep takes the side it swept, at the last two-sided record.          *)
SweepEvent(isBuy) ==
    /\ UNCHANGED <<held, prevBuy, prevSell>>
    /\ IF held = <<>> THEN quiet(inflight)
       ELSE IF isBuy
       THEN gateAndEmit(TRUE, min(OrderQty, Head(held).askQty), Head(held).ask, inflight)
       ELSE gateAndEmit(FALSE, min(OrderQty, Head(held).bidQty), Head(held).bid, inflight)
=============================================================================
