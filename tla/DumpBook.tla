------------------------------ MODULE DumpBook ------------------------------
(***************************************************************************)
(* The software model of the order table                                   *)
(* (step4a-order-table/scripts/dump_book.py), one step per message: an     *)
(* exact map from reference to order, and the line each message prints.    *)
(* It knows nothing of sets and ways and never drops an order.             *)
(***************************************************************************)
EXTENDS Integers, Sequences, Functions

CONSTANT tracked    \* the tracked locates

VARIABLES book,     \* reference -> [loc, side, price, qty]
          out       \* the line this message printed, or none

line(t, e, rem, add) == <<[type |-> t, sym |-> e.loc, side |-> e.side, rem |-> rem, add |-> add]>>
at(price, qty)       == <<[price |-> price, qty |-> qty]>>

Known(ref)   == ref \in DOMAIN book
Forget(ref)  == Restrict(book, DOMAIN book \ {ref})
With(b, ref, e) == [r \in DOMAIN b \cup {ref} |-> IF r = ref THEN e ELSE b[r]]
Silent       == out' = <<>> /\ book' = book

Add(m) ==
    IF m.loc \notin tracked THEN Silent
    ELSE LET e == [loc |-> m.loc, side |-> m.side, price |-> m.price, qty |-> m.shares] IN
         book' = With(book, m.ref, e) /\ out' = line(m.type, e, <<>>, at(m.price, m.shares))

Reduce(m) ==
    IF ~Known(m.ref) THEN Silent
    ELSE LET e     == book[m.ref]
             delta == IF m.shares < e.qty THEN m.shares ELSE e.qty
         IN  /\ out' = line(m.type, e, at(e.price, delta), <<>>)
             /\ book' = IF e.qty - m.shares <= 0 THEN Forget(m.ref)
                        ELSE [book EXCEPT ![m.ref].qty = @ - m.shares]

Delete(m) ==
    IF ~Known(m.ref) THEN Silent
    ELSE LET e == book[m.ref] IN
         out' = line("D", e, at(e.price, e.qty), <<>>) /\ book' = Forget(m.ref)

(* The new order inherits the locate and the side of the old one.          *)
Replace(m) ==
    IF ~Known(m.ref) THEN Silent
    ELSE LET e == book[m.ref] IN
         /\ out' = line("U", e, at(e.price, e.qty), at(m.price, m.shares))
         /\ book' = With(Forget(m.ref), m.newRef,
                        [loc |-> e.loc, side |-> e.side, price |-> m.price, qty |-> m.shares])

Message(m) ==
    CASE m.type \in {"A", "F"}      -> Add(m)
      [] m.type \in {"E", "C", "X"} -> Reduce(m)
      [] m.type = "D"               -> Delete(m)
      [] m.type = "U"               -> Replace(m)
      [] OTHER                      -> Silent
=============================================================================
