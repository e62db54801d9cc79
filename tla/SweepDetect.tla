----------------------------- MODULE SweepDetect -----------------------------
(***************************************************************************)
(* The sweep detectors on the delta stream                                 *)
(* (step6-strategy/rtl/sweep_detect.sv and the demultiplexer of            *)
(* step5-board/rtl/fh_core.sv), one step per core clock.  Each symbol has  *)
(* its own; a run is [dir, frontier, levels, shares, last] and dir "idle"  *)
(* stands for no run.  i_flush is tied low.                                *)
(***************************************************************************)
EXTENDS Integers, Sequences

CONSTANTS Sym,
          SwMinLevels,  \* cfg_sweep_min_levels
          SwGap         \* cfg_sweep_gap

VARIABLES run,       \* run_dir, run_frontier, run_levels, run_shares, run_last_ts
          fired      \* sw_fire and the record behind it, of one symbol

sweepVars == <<run, fired>>

IdleRun == [dir |-> "idle", frontier |-> 0, levels |-> 0, shares |-> 0, last |-> 0]

is_exec(d)  == d.rem # <<>> /\ d.type \in {"E", "C"}
exec_dir(d) == IF d.side = "S" THEN "buy" ELSE "sell"   \* an ask consumed: a buy

(* The opposite direction, or too long after the last one.                 *)
brk(r, d) == r.dir # "idle" /\ (exec_dir(d) # r.dir \/ d.ts - r.last > SwGap)

(* Wrong on purpose: one at the furthest price counts as a level.          *)
pushAtFrontier(r, d) == \/ r.dir = "buy" /\ Head(d.rem).price >= r.frontier
                        \/ r.dir = "sell" /\ Head(d.rem).price <= r.frontier

(* The execution walks a level further out.                                *)
push(r, d) == \/ r.dir = "buy" /\ Head(d.rem).price > r.frontier
              \/ r.dir = "sell" /\ Head(d.rem).price < r.frontier

start_run(d) == [dir |-> exec_dir(d), frontier |-> Head(d.rem).price, levels |-> 1,
                 shares |-> Head(d.rem).qty, last |-> d.ts]

extend(r, d) == [r EXCEPT !.levels   = IF push(r, d) THEN @ + 1 ELSE @,
                          !.frontier = IF push(r, d) THEN Head(d.rem).price ELSE @,
                          !.shares   = @ + Head(d.rem).qty,
                          !.last     = d.ts]

RunAfter(r, d) == IF ~is_exec(d) THEN r
                  ELSE IF r.dir = "idle" \/ brk(r, d) THEN start_run(d) ELSE extend(r, d)

(* A run that walked far enough fires when an execution breaks it.         *)
Fires(r, d) == is_exec(d) /\ brk(r, d) /\ r.levels >= SwMinLevels

Pulse(r) == [buy |-> r.dir = "buy", levels |-> r.levels, shares |-> r.shares, ts |-> r.last]

(* `delta' is what the order table puts out in this cycle, or nothing.     *)
DetectTick(delta) ==
    IF delta = <<>> THEN fired' = <<>> /\ run' = run
    ELSE LET d == Head(delta) IN
         /\ run' = [run EXCEPT ![d.sym] = RunAfter(@, d)]
         /\ fired' = IF Fires(run[d.sym], d) THEN <<[sym |-> d.sym, sweep |-> Pulse(run[d.sym])]>> ELSE <<>>

DetectInit == run = [s \in Sym |-> IdleRun] /\ fired = <<>>
=============================================================================
