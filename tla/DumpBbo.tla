------------------------------- MODULE DumpBbo -------------------------------
(***************************************************************************)
(* The software model of one symbol's top of book                          *)
(* (step4b-book/scripts/dump_bbo.py), one step per message: its own map of *)
(* the symbol's orders, and next to it the quantity that rests at each     *)
(* price of each side.  A price with nothing left is not in the map.       *)
(***************************************************************************)
EXTENDS Integers, Sequences, FiniteSetsExt, Functions

CONSTANT L          \* the locate

VARIABLES orders,   \* reference -> [side, price, qty]
          ladder,   \* side -> (price -> quantity)
          lb        \* the top of book last printed

With(f, x, y)      == [z \in DOMAIN f \cup {x} |-> IF z = x THEN y ELSE f[z]]
resting(d, price) == IF price \in DOMAIN d THEN d[price] ELSE 0

(* The two changes a message makes to one side, as functions of it.        *)
add_lvl(d, price, qty) == With(d, price, resting(d, price) + qty)

rem_lvl(d, price, qty) ==
    LET left == resting(d, price) - qty IN
    IF left <= 0 THEN Restrict(d, DOMAIN d \ {price}) ELSE With(d, price, left)

at(d, p)    == <<[price |-> p, qty |-> d[p]]>>
best_bid(d) == IF DOMAIN d = {} THEN <<>> ELSE at(d, Max(DOMAIN d))
best_ask(d) == IF DOMAIN d = {} THEN <<>> ELSE at(d, Min(DOMAIN d))

Top(lad) == [bid |-> best_bid(lad["B"]), ask |-> best_ask(lad["S"])]

(* A top that moved is printed, with the time of the message.              *)
emit == lb' = Top(ladder')

Known(ref)  == ref \in DOMAIN orders
Forget(ref) == Restrict(orders, DOMAIN orders \ {ref})
Silent      == UNCHANGED <<orders, ladder, lb>>

Add(m) ==
    IF m.loc # L THEN Silent
    ELSE /\ orders' = With(orders, m.ref, [side |-> m.side, price |-> m.price, qty |-> m.shares])
         /\ ladder' = [ladder EXCEPT ![m.side] = add_lvl(@, m.price, m.shares)]
         /\ emit

Reduce(m) ==
    IF ~Known(m.ref) THEN Silent
    ELSE LET o     == orders[m.ref]
             delta == IF m.shares < o.qty THEN m.shares ELSE o.qty
         IN  /\ ladder' = [ladder EXCEPT ![o.side] = rem_lvl(@, o.price, delta)]
             /\ orders' = IF o.qty - m.shares <= 0 THEN Forget(m.ref)
                          ELSE [orders EXCEPT ![m.ref].qty = @ - m.shares]
             /\ emit

Delete(m) ==
    IF ~Known(m.ref) THEN Silent
    ELSE LET o == orders[m.ref] IN
         /\ ladder' = [ladder EXCEPT ![o.side] = rem_lvl(@, o.price, o.qty)]
         /\ orders' = Forget(m.ref)
         /\ emit

Replace(m) ==
    IF ~Known(m.ref) THEN Silent
    ELSE LET o == orders[m.ref] IN
         /\ ladder' = [ladder EXCEPT
                ![o.side] = add_lvl(rem_lvl(@, o.price, o.qty), m.price, m.shares)]
         /\ orders' = With(Forget(m.ref), m.newRef,
                           [side |-> o.side, price |-> m.price, qty |-> m.shares])
         /\ emit

Message(m) ==
    CASE m.type \in {"A", "F"}      -> Add(m)
      [] m.type \in {"E", "C", "X"} -> Reduce(m)
      [] m.type = "D"               -> Delete(m)
      [] m.type = "U"               -> Replace(m)
      [] OTHER                      -> Silent
=============================================================================
