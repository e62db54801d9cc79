----------------------------- MODULE TableSweep -----------------------------
(***************************************************************************)
(* The order table and the sweep detectors behind it, as                   *)
(* step5-board/rtl/fh_core.sv wires them, next to their three software     *)
(* models.  The feed presents a message in a cycle or none; it starts when *)
(* the clear sweep is done, as order_table.sv asks of it, and gives every  *)
(* order a reference nobody is using.                                      *)
(*                                                                         *)
(* `levels' is what a book that follows the deltas holds at every price.   *)
(***************************************************************************)
EXTENDS OrderTable, Functions, TLC

CONSTANTS Orders,        \* Ref -> [loc, side, price, shares] of the order
          OtherLoc,      \* a locate that is not tracked
          SwMinLevels, SwGap,   \* the detectors' configuration
          Attributed,    \* orders whose add names a participant
          Executions,    \* <<shares, at a price of its own, time since the last>>
          Replaces,      \* <<order, new order>> of the replacements
          MsgTypes,      \* message types on the feed
          Shares,        \* how many shares a cancel takes from an order
          MaxTs,         \* bound on time
          MaxRunShares,  \* symbol -> bound on the shares of a run
          ReplaceFits    \* a replacing order always finds a way

VARIABLES run, fired,    \* the detectors'
          now,           \* the time of the last message
          levels         \* symbol -> side -> price -> quantity

INSTANCE SweepDetect

vars == <<tableVars, sweepVars, now, levels>>

Price == {Orders[r].price : r \in Ref}
Side  == {"B", "S"}

ASSUME FeedAssumption ==
    /\ Ref # {} /\ Shares \subseteq Nat \ {0} /\ Replaces \subseteq Ref \X Ref
    /\ \A r \in Ref : /\ Orders[r].side \in Side
                     /\ Orders[r].price \in Nat /\ Orders[r].shares \in Nat \ {0}
    /\ \A x \in Executions : x[1] \in Nat \ {0}

(* ---- the table's orders ----                                            *)
Slots   == {sw \in Sets \X Way : mem[sw[1]][sw[2]] # <<>>}
At(sw)  == Head(mem[sw[1]][sw[2]])

(* An order being replaced is out of the memory and not yet gone.          *)
Held == IF clrBusy THEN {}
        ELSE {At(sw) : sw \in Slots} \cup
             IF state \in {"U_LOOK", "U_EXEC"} THEN {old.ent} ELSE {}

HeldRefs == {e.ref : e \in Held}
EntryOf(ref) == CHOOSE e \in Held : e.ref = ref

TableBook == [r \in HeldRefs |-> LET e == EntryOf(r) IN
                [loc |-> e.sym, side |-> e.side, price |-> e.price, qty |-> e.qty]]

OrdersOf(s) == [r \in {e.ref : e \in {x \in Held : x.sym = s}} |->
                  LET e == EntryOf(r) IN [side |-> e.side, price |-> e.price, qty |-> e.qty]]

(* ---- the feed: the messages gen_itch.py makes ----                      *)
SomeRef == CHOOSE r \in Ref : TRUE
hdr(mtype, locate, dt) ==
    [type |-> mtype, loc |-> locate, ref |-> SomeRef, newRef |-> SomeRef, side |-> "-",
     price |-> 0, shares |-> 0, ts |-> now + dt]

(* Its own symbol, or one nobody tracks; with an attribution ("F") or not. *)
add(locate, r) ==
    [hdr(IF r \in Attributed THEN "F" ELSE "A", locate, 0) EXCEPT !.ref = r, !.side = Orders[r].side,
        !.price = Orders[r].price, !.shares = Orders[r].shares]

(* At the order's price ("E"), or at one of its own ("C").                 *)
execute(r, n, priced, dt) ==
    [hdr(IF priced THEN "C" ELSE "E", 0, dt) EXCEPT !.ref = r, !.shares = n]

cancel(r, n)  == [hdr("X", 0, 0) EXCEPT !.ref = r, !.shares = n]
delete(r)     == [hdr("D", 0, 0) EXCEPT !.ref = r]
replace(r, new) ==
    [hdr("U", 0, 0) EXCEPT !.ref = r, !.newRef = new,
        !.price = Orders[new].price, !.shares = Orders[new].shares]
hidden_trade  == hdr("P", 0, 0)

(* A free way for the new order, counting the one the old order leaves.    *)
Fits(r, new) == \/ \E w \in Way : mem[Hash[new]][w] = <<>>
                \/ Hash[new] = Hash[r]

(* The bound on a run: what it and the next execution would add up to.     *)
RunBounded(held, r, n) ==
    \A e \in held : e.ref = r => run[e.sym].shares + n <= MaxRunShares[e.sym]

Messages ==
    LET held   == Held
        unused == Ref \ {e.ref : e \in held}
    IN  UNION {{add(Orders[r].loc, r) : r \in unused},
               {add(OtherLoc, r) : r \in unused},
               {cancel(r, n) : r \in Ref, n \in Shares},
               {execute(x[1], x[2][1], x[2][2], x[2][3]) : x \in
                    {y \in Ref \X Executions : RunBounded(held, y[1], y[2][1])}},
               {delete(r) : r \in Ref},
               {replace(p[1], p[2]) : p \in {q \in Replaces : q[2] \in unused}},
               {hidden_trade}}

Allowed(m) == /\ m.type \in MsgTypes
              /\ m.ts <= MaxTs
              /\ m.type = "U" /\ ReplaceFits => Fits(m.ref, m.newRef)

Presented == {<<>>} \cup IF sReady THEN {<<m>> : m \in {x \in Messages : Allowed(x)}} ELSE {}

(* ---- what follows the deltas ----                                       *)
Moved(lev, d) ==
    LET gain == IF d.add = <<>> THEN <<0, 0>> ELSE <<Head(d.add).price, Head(d.add).qty>>
        loss == IF d.rem = <<>> THEN <<0, 0>> ELSE <<Head(d.rem).price, Head(d.rem).qty>>
    IN  [lev EXCEPT ![d.sym][d.side] =
            [p \in Price |-> @[p] + (IF p = gain[1] THEN gain[2] ELSE 0)
                                  - (IF p = loss[1] THEN loss[2] ELSE 0)]]

LevelsAfter == IF delta = <<>> THEN levels ELSE Moved(levels, Head(delta))

Tick(presented) ==
    /\ TableTick(presented)
    /\ DetectTick(delta)
    /\ levels' = LevelsAfter
    /\ now' = IF presented = <<>> THEN now ELSE Head(presented).ts

Init ==
    /\ TableInit /\ DetectInit
    /\ now = 0 /\ levels = [s \in Sym |-> [d \in Side |-> [p \in Price |-> 0]]]

Next == \E presented \in Presented : Tick(presented)
Spec == Init /\ [][Next]_vars
-----------------------------------------------------------------------------
(* ---- the software models, read off the hardware ----                    *)
(* A delta on its way from the table to its consumers counts as applied.   *)
Line == IF delta = <<>> THEN <<>>
        ELSE LET d == Head(delta) IN
             <<[type |-> d.type, sym |-> d.sym, side |-> d.side, rem |-> d.rem, add |-> d.add]>>

Golden == INSTANCE DumpBook WITH tracked <- Sym, book <- TableBook, out <- Line

Ladder(s) == [d \in Side |->
    [p \in {x \in Price : LevelsAfter[s][d][x] # 0} |-> LevelsAfter[s][d][p]]]

Best(side, Pick(_)) == IF DOMAIN side = {} THEN <<>>
                       ELSE LET p == Pick(DOMAIN side) IN <<[price |-> p, qty |-> side[p]]>>

Bbo(s) == INSTANCE DumpBbo WITH
    L <- s, orders <- OrdersOf(s), ladder <- Ladder(s),
    lb <- [bid |-> Best(Ladder(s)["B"], Max), ask |-> Best(Ladder(s)["S"], Min)]

ForDetector(s) == delta # <<>> /\ Head(delta).sym = s
RunSeen(s)     == IF ForDetector(s) THEN RunAfter(run[s], Head(delta)) ELSE run[s]
SweepSeen(s)   == IF ForDetector(s) /\ Fires(run[s], Head(delta))
                  THEN <<Pulse(run[s])>> ELSE <<>>

Dir(r) == CASE r.dir = "buy" -> 1 [] r.dir = "sell" -> -1 [] OTHER -> 0

Sweep(s) == INSTANCE DumpSweep WITH
    L <- s, min_levels <- SwMinLevels, gap_ns <- SwGap, orders <- OrdersOf(s),
    run_dir <- Dir(RunSeen(s)),
    run_lvl_cnt <- RunSeen(s).levels, run_frontier <- RunSeen(s).frontier,
    run_shares <- RunSeen(s).shares, run_last <- RunSeen(s).last,
    closed <- SweepSeen(s)

(* The run an execution breaks, long or short.                             *)
RunBroken(s) ==
    IF ForDetector(s) /\ is_exec(Head(delta)) /\ brk(run[s], Head(delta))
    THEN <<[ts_end |-> run[s].last, dir |-> Dir(run[s]), levels |-> run[s].levels]>>
    ELSE <<>>

Grid(s) == INSTANCE SweepGrid WITH
    L <- s, gap <- SwGap, orders <- OrdersOf(s),
    bid <- Ladder(s)["B"], ask <- Ladder(s)["S"],
    run_dir <- Dir(RunSeen(s)), frontier <- RunSeen(s).frontier,
    lvl <- RunSeen(s).levels, last <- RunSeen(s).last,
    out <- RunBroken(s)

(* The step that finishes a message, and one that finds no way for it.     *)
Finishes == state \in {"EXEC", "U_EXEC"} /\ state' = "IDLE"
Drops    == overflowCnt' # overflowCnt
-----------------------------------------------------------------------------

(* Whoever adds up the deltas holds at every price of every book exactly   *)
(* what the orders in the table rest there: nothing leaks, nothing stays   *)
(* behind of an order that is gone (order_table.sv: "insert into a full    *)
(* set (order dropped)").                                                  *)
LadderSumsOrders ==
    LET held == Held  lev == LevelsAfter IN
    \A s \in Sym, d \in Side, p \in Price :
        lev[s][d][p] =
            MapThenSumSet(LAMBDA e : e.qty, {x \in held : x.sym = s /\ x.side = d /\ x.price = p})

(* The table is dump_book.py, clock cycles taken away: the line of every   *)
(* message, none in between, and the same book behind it; an order that    *)
(* finds no way is the one exception, and leaves both as they were.        *)
DeltasAreGolden ==
    [][ IF Finishes /\ ~Drops THEN Golden!Message(msg)
        ELSE delta' = <<>> /\ Held' = Held ]_vars

(* The sum of the deltas is the ladder dump_bbo.py keeps of the symbol,    *)
(* and a message moves its top exactly as there.                           *)
TopsAreGolden ==
    [][ Finishes /\ ~Drops => \A s \in Sym : Bbo(s)!Message(msg) ]_vars

(* The detector of a symbol is dump_sweep.py run on that symbol alone: the *)
(* same run after every message and the same sweeps, whatever messages of  *)
(* other symbols come in between.  And the runs the parameter sweep groups *)
(* off line are the runs the detector holds, of which those it keeps for   *)
(* its setting of min_levels are the ones the detector fires               *)
(* (sweep_grid.py: "exactly what the RTL sweep_detect holds").             *)
RunsAreGolden ==
    [][ \A s \in Sym :
          IF Finishes /\ ~Drops
          THEN /\ Sweep(s)!Message(msg)
               /\ Grid(s)!Message(msg)
               /\ DOMAIN SweepSeen(s)' = Grid(s)!Kept(RunBroken(s)', SwMinLevels)
          ELSE RunSeen(s)' = RunSeen(s) ]_vars

(**************** the instance that is model-checked ***********************)

(* Two asks of the first symbol and a bid, and an order of the second,     *)
(* over two sets of two ways: the first set is too small for its orders.   *)
(* An order is replaced in its own set and in the other one.               *)
MCOrder(loc, side, price, shares) == [loc |-> loc, side |-> side, price |-> price, shares |-> shares]
MCOrders == 1 :> MCOrder(10, "S", 1, 2) @@ 2 :> MCOrder(10, "S", 2, 1)
         @@ 3 :> MCOrder(10, "B", 1, 1) @@ 4 :> MCOrder(20, "S", 1, 1)
MCRef    == DOMAIN MCOrders
MCHash   == [r \in MCRef |-> IF r # 2 THEN 0 ELSE 1]
MCExecutions == {<<1, FALSE, 0>>, <<1, FALSE, 2>>, <<2, TRUE, 0>>}
MCMaxRunShares == 10 :> 2 @@ 20 :> 1
MCReplaces == {<<1, 2>>, <<2, 1>>, <<1, 4>>}
MCJunk   == {[ref |-> 1, side |-> "S", price |-> 2, qty |-> 2, sym |-> 10]}
=============================================================================
