------------------------------ MODULE DumpSweep ------------------------------
(***************************************************************************)
(* The software model of the sweep detector of one symbol                  *)
(* (step6-strategy/scripts/dump_sweep.py), one step per message: its own   *)
(* map of the symbol's orders, and the run its executions are in.  The mid *)
(* prices it keeps for the report are left out.                            *)
(***************************************************************************)
EXTENDS Integers, Sequences, Functions

CONSTANTS L,           \* the locate
          min_levels, gap_ns

VARIABLES orders,      \* reference -> [side, price, qty]
          run_dir,     \* 1, -1, or 0 for no run
          run_lvl_cnt, run_frontier, run_shares, run_last,
          closed       \* the sweep this message appended, or none

runVars == <<run_dir, run_lvl_cnt, run_frontier, run_shares, run_last>>

Known(ref)  == ref \in DOMAIN orders
Forget(ref) == Restrict(orders, DOMAIN orders \ {ref})
With(f, x, y) == [z \in DOMAIN f \cup {x} |-> IF z = x THEN y ELSE f[z]]
Without(m)  == IF orders[m.ref].qty - m.shares <= 0 THEN Forget(m.ref)
               ELSE [orders EXCEPT ![m.ref].qty = @ - m.shares]
NoRunMoves  == closed' = <<>> /\ UNCHANGED runVars
Silent      == NoRunMoves /\ orders' = orders

Add(m) ==
    IF m.loc # L THEN Silent
    ELSE /\ orders' = With(orders, m.ref, [side |-> m.side, price |-> m.price, qty |-> m.shares])
         /\ NoRunMoves

(* The sweep the run makes when it closes, if it walked far enough.        *)
close_run ==
    IF run_lvl_cnt >= min_levels
    THEN <<[buy |-> run_dir > 0, levels |-> run_lvl_cnt, shares |-> run_shares, ts |-> run_last]>>
    ELSE <<>>

Begin(dir, price, delta) ==
    /\ run_dir' = dir /\ run_frontier' = price /\ run_lvl_cnt' = 1 /\ run_shares' = delta

Walk(dir, price, delta) ==
    LET further == (dir > 0 /\ price > run_frontier) \/ (dir < 0 /\ price < run_frontier) IN
    /\ run_frontier' = IF further THEN price ELSE run_frontier
    /\ run_lvl_cnt' = IF further THEN run_lvl_cnt + 1 ELSE run_lvl_cnt
    /\ run_shares' = run_shares + delta
    /\ run_dir' = run_dir

(* E and C: the resting side tells the aggressor.                          *)
Execution(m) ==
    IF ~Known(m.ref) THEN Silent
    ELSE LET o     == orders[m.ref]
             delta == IF m.shares < o.qty THEN m.shares ELSE o.qty
             dir   == IF o.side = "S" THEN 1 ELSE -1
             ends  == run_dir # 0 /\ (dir # run_dir \/ m.ts - run_last > gap_ns)
         IN  /\ orders' = Without(m)
             /\ closed' = IF ends THEN close_run ELSE <<>>
             /\ IF ends \/ run_dir = 0 THEN Begin(dir, o.price, delta)
                ELSE Walk(dir, o.price, delta)
             /\ run_last' = m.ts

Cancel(m) == IF ~Known(m.ref) THEN Silent ELSE NoRunMoves /\ orders' = Without(m)
Delete(m) == IF ~Known(m.ref) THEN Silent ELSE NoRunMoves /\ orders' = Forget(m.ref)

Replace(m) ==
    IF ~Known(m.ref) THEN Silent
    ELSE /\ orders' = With(Forget(m.ref), m.newRef,
                           [orders[m.ref] EXCEPT !.price = m.price, !.qty = m.shares])
         /\ NoRunMoves

Message(m) ==
    CASE m.type \in {"A", "F"} -> Add(m)
      [] m.type \in {"E", "C"} -> Execution(m)
      [] m.type = "X"          -> Cancel(m)
      [] m.type = "D"          -> Delete(m)
      [] m.type = "U"          -> Replace(m)
      [] OTHER                 -> Silent
=============================================================================
