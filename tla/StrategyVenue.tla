--------------------------- MODULE StrategyVenue ---------------------------
(***************************************************************************)
(* The strategy facing the world it reasons about: books that move, sweeps *)
(* that may coincide with them, a transmit path that is or is not ready,   *)
(* and a venue; and next to it its software model.  Venue and host are     *)
(* external: the venue fills an order or not as it arrives, answers later, *)
(* and the host passes every answer on as one order_ack pulse              *)
(* (step7-host/host/session.py).  Orders that leave the strategy all       *)
(* arrive here; what may go wrong on the way is the subject of module      *)
(* OrderPath.                                                              *)
(***************************************************************************)
EXTENDS Strategy

CONSTANTS Sweep,      \* sweep pulses: [sym : Sym, buy : BOOLEAN]
          VenueCap,   \* bound: orders unanswered at once
          MetCap      \* bound: cycles counted in which an ack met a send

ASSUME SweepAssumption == Sweep \subseteq [sym : Sym, buy : BOOLEAN]
ASSUME CapAssumption == MetCap \in Nat

VARIABLES
  unanswered,  \* orders the venue has and the host has not acknowledged
  coincided,   \* cycles in which an ack met a send, as far as MetCap
  lastSeen     \* the record of each symbol that stage 2 saw last

venueVars == <<unanswered, coincided, lastSeen>>
worldVars == <<strategyVars, venueVars>>

VenueInit ==
    /\ StrategyInit
    /\ unanswered = 0
    /\ coincided = 0 /\ lastSeen = [s \in Sym |-> <<>>]

VenueTick(quote, sweep, ack, ready, enable) ==
    /\ ack => unanswered > 0
    /\ StrategyTick(quote, sweep, ack, ready, enable)
    /\ unanswered' = (unanswered + Len(order')) - IF ack THEN 1 ELSE 0
    /\ unanswered' <= VenueCap
    /\ coincided' = IF ack /\ order' # <<>> /\ coincided < MetCap
                    THEN coincided + 1 ELSE coincided
    /\ lastSeen' = IF stage1 = <<>> THEN lastSeen
                   ELSE [lastSeen EXCEPT ![Head(stage1).sym] = stage1]

VenueNext == \E quote \in Maybe(Quote), sweep \in Maybe(Sweep),
           ack, ready, enable \in BOOLEAN :
              VenueTick(quote, sweep, ack, ready, enable)

VenueSpec == VenueInit /\ [][VenueNext]_worldVars
-----------------------------------------------------------------------------
(* The gate holds each symbol's own optimistic position inside the limit,  *)
(* whatever is interleaved (strategy.sv: "|position| after the order may   *)
(* not exceed it, PER SYMBOL").                                            *)
PositionWithinLimit == \A s \in Sym : position[s] \in -PosLimit..PosLimit

(* The gate's count never exceeds the orders the venue has yet to answer,  *)
(* so that no slot leaks and the gate does not stay closed with nothing    *)
(* under way; and it falls behind them by at most one for each cycle in    *)
(* which an ack met a send, so that no more than that many are outstanding *)
(* above the limit.  Both lines assign inflight in that cycle; strategy.sv *)
(* has it that the ack "leaves the count unchanged", and it does not.      *)
InflightBounds ==
    /\ inflight <= unanswered
    /\ inflight <= MaxInflight
    /\ coincided < MetCap => unanswered <= inflight + coincided

(* An imbalance order leaves only on a rising edge of its own symbol's     *)
(* condition, whatever the gates, the kill switch, the sweeps and the      *)
(* other symbols did meanwhile: the record before it, of that symbol, did  *)
(* not meet the condition (strategy.sv: "must send one order, not a        *)
(* thousand").                                                             *)
RisingEdgeOnly ==
    [][ order' # <<>> /\ sweep1 = <<>> =>
          LET o == Head(order')
              Sig(q) == IF o.buy THEN BuySig(q) ELSE SellSig(q)
          IN  /\ stage1 # <<>> /\ o.sym = Head(stage1).sym /\ Sig(Head(stage1))
              /\ lastSeen[o.sym] = <<>> \/ ~Sig(Head(lastSeen[o.sym])) ]_worldVars

(* Every order is priced at, and no larger than, what its own symbol's     *)
(* book showed on the side it takes (strategy.sv: a sweep "must not be     *)
(* priced at another name's inside market").                               *)
OwnBook ==
    order # <<>> =>
      LET o == Head(order) IN
      \E q \in Quote : /\ q.sym = o.sym /\ TwoSided(q)
                       /\ o.px = IF o.buy THEN q.ask ELSE q.bid
                       /\ o.qty <= IF o.buy THEN q.askQty ELSE q.bidQty

(************************** its software model *****************************)

(* What the model holds for a symbol is read off the hardware's registers, *)
(* stage by stage; `heldSeen' is the last two-sided record of each symbol  *)
(* that stage 2 has seen.                                                  *)
VARIABLES
  heldSeen,
  undisturbed  \* the last step had the strategy enabled, a ready transmit
               \* path and no answer of the venue

goldenSpecVars == <<worldVars, heldSeen, undisturbed>>

(* What the model is told of an order: it follows one symbol.              *)
Emitted(s) == IF order # <<>> /\ Head(order).sym = s
              THEN <<[buy |-> Head(order).buy, qty |-> Head(order).qty, px |-> Head(order).px]>>
              ELSE <<>>

Golden(s) == INSTANCE DumpOrders WITH
    OuchMaxShares <- MaxShares,
    pos <- position[s], prevBuy <- prevBuy[s], prevSell <- prevSell[s],
    held <- heldSeen[s], out <- Emitted(s)

GoldenInit == VenueInit /\ heldSeen = [s \in Sym |-> <<>>] /\ undisturbed = FALSE

GoldenNext ==
    \E quote \in Maybe(Quote), sweep \in Maybe(Sweep), ack, ready, enable \in BOOLEAN :
        /\ VenueTick(quote, sweep, ack, ready, enable)
        /\ heldSeen' = IF stage1 # <<>> /\ TwoSided(Head(stage1))
                       THEN [heldSeen EXCEPT ![Head(stage1).sym] = stage1]
                       ELSE heldSeen
        /\ undisturbed' = (enable /\ ready /\ ~ack)

GoldenSpec == GoldenInit /\ [][GoldenNext]_goldenSpecVars
-----------------------------------------------------------------------------
(* A crossed record: the hardware's unsigned spread wraps to a wide one,   *)
(* the model's is negative and counts as tight.                            *)
Crossed(q) == TwoSided(q) /\ q.ask < q.bid

OwnRecord(s) == stage1 # <<>> /\ Head(stage1).sym = s
OwnSweep(s)  == sweep1 # <<>> /\ Head(sweep1).sym = s

(* On every record and every sweep the strategy does what the software     *)
(* model does from the same position, count, edges and held quote: the     *)
(* same order or none, and the same state behind it, whatever the other    *)
(* symbols, the kill switch and the transmit path did before.  Left out    *)
(* are the cases in which the two part: kill switch, busy transmit path    *)
(* and an answer in the cycle of the decision, a record and a sweep in one *)
(* cycle, a crossed record (dump_orders.py: "the order sequence a BBO      *)
(* stream triggers"; strategy.sv: "the golden").                           *)
DecidesAsGolden ==
    [][ undisturbed' /\ (stage1 = <<>> \/ sweep1 = <<>>) =>
          \A s \in Sym :
            /\ OwnSweep(s) => Golden(s)!SweepEvent(Head(sweep1).buy)
            /\ OwnRecord(s) /\ ~Crossed(Head(stage1)) => Golden(s)!BboEvent(Head(stage1), 0)
      ]_goldenSpecVars

(**************** the instance that is model-checked ***********************)

(***************************************************************************)
(* Two symbols at prices of their own.  Symbol A shows a heavy bid, a      *)
(* heavy ask, a bid over an empty offer (an order for no shares) and an    *)
(* offer alone; symbol B a heavy bid.                                      *)
(***************************************************************************)
QuoteOf(s, bid, bidQty, ask, askQty) ==
    [sym |-> s, bid |-> bid, bidQty |-> bidQty, ask |-> ask, askQty |-> askQty]

MCBooks == {QuoteOf("A", 2, 2, 3, 1), QuoteOf("A", 2, 1, 3, 2),
            QuoteOf("A", 2, 1, 3, 0), QuoteOf("A", 0, 0, 3, 1),
            QuoteOf("B", 5, 2, 6, 1)}

MCSweep == {[sym |-> "A", buy |-> FALSE], [sym |-> "B", buy |-> TRUE]}
=============================================================================
