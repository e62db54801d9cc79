------------------------------ MODULE SweepGrid ------------------------------
(***************************************************************************)
(* The parameter sweep over one symbol's sweeps                            *)
(* (step6-strategy/scripts/sweep_grid.py), one step per message: its       *)
(* orders, its ladder, and the run the executions so far leave open.  It   *)
(* groups all executions once per gap and filters by levels afterwards.    *)
(* The mid prices and the returns made of them are left out.               *)
(***************************************************************************)
EXTENDS Integers, Sequences, Functions

CONSTANTS L,     \* the locate
          gap

VARIABLES orders,    \* reference -> [side, price, qty]
          bid, ask,  \* price -> quantity
          run_dir, frontier, lvl, last,
          out        \* what this message appended: the run it closed, or none

runVars == <<run_dir, frontier, lvl, last>>

Known(ref)  == ref \in DOMAIN orders
Forget(ref) == Restrict(orders, DOMAIN orders \ {ref})
With(f, x, y) == [z \in DOMAIN f \cup {x} |-> IF z = x THEN y ELSE f[z]]
Less(a, b)  == IF a < b THEN a ELSE b

Resting(d, price) == IF price \in DOMAIN d THEN d[price] ELSE 0

add_lvl(d, price, qty) == With(d, price, Resting(d, price) + qty)
rem_lvl(d, price, qty) ==
    IF Resting(d, price) <= qty THEN Restrict(d, DOMAIN d \ {price})
    ELSE [d EXCEPT ![price] = @ - qty]

(* One side moves, the other stays.                                        *)
Level(side, lvls) == IF side = "B" THEN bid' = lvls /\ ask' = ask
                     ELSE ask' = lvls /\ bid' = bid
Lvls(side)        == IF side = "B" THEN bid ELSE ask

NoExec == out' = <<>> /\ UNCHANGED runVars
Silent == NoExec /\ UNCHANGED <<orders, bid, ask>>

Add(m) ==
    IF m.loc # L THEN Silent
    ELSE /\ orders' = With(orders, m.ref, [side |-> m.side, price |-> m.price, qty |-> m.shares])
         /\ Level(m.side, add_lvl(Lvls(m.side), m.price, m.shares))
         /\ NoExec

(* E, C and X: at most what is left.                                       *)
Reduced(m) ==
    LET o == orders[m.ref] IN
    /\ Level(o.side, rem_lvl(Lvls(o.side), o.price, Less(m.shares, o.qty)))
    /\ orders' = IF o.qty - m.shares <= 0 THEN Forget(m.ref)
                 ELSE [orders EXCEPT ![m.ref].qty = @ - m.shares]

(* runs_for_gap, one execution.                                            *)
Grouped(ts, d, price) ==
    LET ends   == run_dir # 0 /\ (d # run_dir \/ ts - last > gap)
        begins == ends \/ run_dir = 0
        walks  == ~begins /\ ((d > 0 /\ price > frontier) \/ (d < 0 /\ price < frontier))
    IN  /\ out' = IF ends THEN <<[ts_end |-> last, dir |-> run_dir, levels |-> lvl]>> ELSE <<>>
        /\ run_dir' = d
        /\ frontier' = IF begins \/ walks THEN price ELSE frontier
        /\ lvl' = IF begins THEN 1 ELSE IF walks THEN lvl + 1 ELSE lvl
        /\ last' = ts

Execution(m) ==
    IF ~Known(m.ref) THEN Silent
    ELSE /\ Reduced(m)
         /\ Grouped(m.ts, IF orders[m.ref].side = "S" THEN 1 ELSE -1, orders[m.ref].price)

Cancel(m) == IF ~Known(m.ref) THEN Silent ELSE Reduced(m) /\ NoExec

Delete(m) ==
    IF ~Known(m.ref) THEN Silent
    ELSE LET o == orders[m.ref] IN
         /\ Level(o.side, rem_lvl(Lvls(o.side), o.price, o.qty))
         /\ orders' = Forget(m.ref) /\ NoExec

Replace(m) ==
    IF ~Known(m.ref) THEN Silent
    ELSE LET o == orders[m.ref] IN
         /\ Level(o.side, add_lvl(rem_lvl(Lvls(o.side), o.price, o.qty), m.price, m.shares))
         /\ orders' = With(Forget(m.ref), m.newRef, [o EXCEPT !.price = m.price, !.qty = m.shares])
         /\ NoExec

Message(m) ==
    CASE m.type \in {"A", "F"} -> Add(m)
      [] m.type \in {"E", "C"} -> Execution(m)
      [] m.type = "X"          -> Cancel(m)
      [] m.type = "D"          -> Delete(m)
      [] m.type = "U"          -> Replace(m)
      [] OTHER                 -> Silent

(* main: which of the runs a setting of min_levels takes for sweeps.       *)
Kept(runs, ml) == {i \in DOMAIN runs : runs[i].levels >= ml}
=============================================================================
