-------------------------------- MODULE Book --------------------------------
(***************************************************************************)
(* The book of one symbol: ladder, early answer and rejoin as fh_core      *)
(* wires them (step5-board/rtl/fh_core.sv, g_sym).  All three see a delta  *)
(* when the ladder accepts it.                                             *)
(*                                                                         *)
(* The deltas are what the order table says of adds, executions, cancels   *)
(* and replaces: a quantity that rests at a price leaves it, a quantity    *)
(* comes to a price, or both on one side.  Prices in the band are whole    *)
(* ticks of it, and one outside is never the best of its side ("An oob     *)
(* price is far from the BBO and never becomes best",                      *)
(* step4b-book/README.md:30).                                              *)
(***************************************************************************)
EXTENDS PriceLadder, FastBbo, FiniteSets

CONSTANTS Prices,      \* the prices that orders have
          MaxLevelQty, \* bound: shares resting at a price
          MaxResting   \* bound: shares resting in all

ASSUME BookAssumption ==
    /\ Prices \subseteq Nat /\ IsFiniteSet(Prices)
    /\ \A p \in Prices : InBand(p) => (p - Base) % Tick = 0
    /\ {MaxLevelQty, MaxResting} \subseteq Nat

VARIABLES resting,     \* shares resting per side and price, by the deltas so far
          lead         \* records emitted that the ladder has yet to publish

envVars == <<resting, lead>>
vars    == <<ladderVars, fastVars, mergeVars, envVars>>

NoOrders == [s \in Side |-> [p \in Prices |-> 0]]

(*************************** the delta stream ******************************)

Part(qs) == {<<>>} \cup {<<[px |-> p, qty |-> q]>> : p \in Prices, q \in qs}
Delta    == [side : Side, rem : Part(1..MaxLevelQty), add : Part(1..MaxLevelQty)]

QtyAt(part, p) == IF part # <<>> /\ part[1].px = p THEN part[1].qty ELSE 0
Applied(d) ==
    [resting EXCEPT ![d.side] = [p \in Prices |-> (@[p] - QtyAt(d.rem, p)) + QtyAt(d.add, p)]]

Shares(book) == MapThenSumSet(LAMBDA p : book["bid"][p] + book["ask"][p], Prices)

(* The prices where something rests on a side, and the top of a book.      *)
HeldAt(book, s) == {p \in Prices : book[s][p] > 0}
TopOf(book) ==
    [s \in Side |->
        LET held == HeldAt(book, s) IN
        IF held = {} THEN <<>>
        ELSE <<[px |-> Outermost(s, held), qty |-> book[s][Outermost(s, held)]]>>]

TopInBand(book) == \A s \in Side : HeldAt(book, s) # {} => InBand(TopOf(book)[s][1].px)

Legal(d) ==
    /\ d.rem # <<>> \/ d.add # <<>>
    /\ d.rem # <<>> => d.rem[1].qty <= resting[d.side][d.rem[1].px]
    /\ \A p \in Prices : Applied(d)[d.side][p] <= MaxLevelQty
    /\ Shares(Applied(d)) <= MaxResting
    /\ TopInBand(Applied(d))

(***************************** one core clock ******************************)

LadRecord == IF ladValid THEN <<ladBbo>> ELSE <<>>

(* What is emitted at this edge, and all that is ahead of the ladder then. *)
Emitting == IF Emits(fastOut, LadRecord) THEN Offered(fastOut, LadRecord) ELSE <<>>
Ahead    == lead \o Emitting

Clock(delta) ==
    /\ LadderTick(delta) /\ FastTick(delta, LadRecord) /\ MergeTick(fastOut, LadRecord)
    /\ resting' = IF delta # <<>> THEN Applied(Head(delta)) ELSE resting
    /\ lead' = IF ladValid /\ Ahead # <<>> THEN Tail(Ahead) ELSE Ahead

Idle  == Clock(<<>>)
Take  == LadderReady /\ \E d \in Delta : Legal(d) /\ Clock(<<d>>)

(* A soft reset: the order table forgets its orders as well.               *)
Reset == LadderReset /\ FastReset /\ MergeReset /\ resting' = NoOrders /\ lead' = <<>>

Init == LadderInit /\ FastInit /\ MergeInit /\ resting = NoOrders /\ lead = <<>>
Next == Idle \/ Take \/ Reset
Spec == Init /\ [][Next]_vars

(******************************* properties ********************************)

OrNone(set) == {s \in Seq(set) : Len(s) <= 1}
Bbo         == [Side -> OrNone([px : Nat, qty : Nat])]

Top == TopOf(resting)

(* When the ladder is at rest its record is the top of the book of all     *)
(* deltas so far: reading, subtracting, forwarding, the occupancy and its  *)
(* summary and the sweep after a reset lose nothing (price_ladder.sv).     *)
LadderIsRight == LadderReady => ladBbo = Top

(* "Record for record and value for value, the stream price_ladder would   *)
(* have produced alone" (bbo_merge.sv:10): the next record ahead of the    *)
(* ladder is the one it publishes, and none is left when it is at rest.    *)
StreamsAgree ==
    /\ ladValid => Ahead # <<>> /\ Head(Ahead) = ladBbo
    /\ LadderReady /\ ~ladValid => lead = <<>>

=============================================================================
