---------------------------- MODULE PriceLadder ----------------------------
(***************************************************************************)
(* The price ladder of one symbol (step4b-book/rtl/price_ladder.sv): a     *)
(* quantity per level and side in memories with a registered read, which   *)
(* levels are occupied, which groups of levels hold anything, and the best *)
(* level found from these.  A delta walks ten states, one per clock, and a *)
(* record leaves when the top of the book has changed.                     *)
(*                                                                         *)
(* A delta takes a quantity from one price and adds one to another, either *)
(* of them optional: [side, rem, add].  A top of book has for each side    *)
(* nothing or a price and its quantity.                                    *)
(***************************************************************************)
EXTENDS Integers, Sequences, FiniteSetsExt

CONSTANTS Levels,     \* LEVELS
          GroupSize,  \* GRP
          Tick,       \* TICK
          Base,       \* cfg_base
          OobMod      \* oob_cnt counts modulo this (2^32)

ASSUME LadderAssumption ==
    /\ {Levels, GroupSize, Tick, OobMod} \subseteq Nat \ {0} /\ Base \in Nat
    /\ Levels % GroupSize = 0

VARIABLES
  clrAddr,           \* clr_addr of the clear sweep; clr_busy until it is Levels
  qty, rdata,        \* bidq and askq, and their read registers
  occ, gany,         \* occupied levels, and groups that hold one
  lstate,            \* state
  rec,               \* the delta in the pipeline: r_*
  remNew,            \* r_rem_new
  best, top,         \* q_has_*, q_bbi and q_bai; q_*_price and q_*_qty
  ladValid, ladBbo,  \* o_valid, and the record on the output port
  oobCnt

ladderVars == <<clrAddr, qty, rdata, occ, gany, lstate, rec, remNew, best, top,
                ladValid, ladBbo, oobCnt>>

Side  == {"bid", "ask"}
Level == 0..(Levels - 1)
Empty == [s \in Side |-> <<>>]

Group(level) == level \div GroupSize
InBand(px)   == px >= Base /\ px - Base < Levels * Tick
PriceOf(idx) == Base + idx * Tick
IndexOf(px)  == (px - Base) \div Tick

ClrBusy     == clrAddr < Levels
LadderReady == lstate = "IDLE" /\ ~ClrBusy

LadderInit ==
    /\ clrAddr = 0 /\ qty = [s \in Side |-> [l \in Level |-> 0]]
    /\ rdata = [s \in Side |-> 0]
    /\ occ = [s \in Side |-> {}] /\ gany = [s \in Side |-> {}]
    /\ lstate = "IDLE" /\ rec = <<>> /\ remNew = 0
    /\ best = Empty /\ top = Empty
    /\ ladValid = FALSE /\ ladBbo = Empty /\ oobCnt = 0

(* The two-level scan: the best group, then the best level of that group.  *)
Outermost(s, set) == IF s = "bid" THEN Max(set) ELSE Min(set)
BestOf(s) ==
    IF gany[s] = {} THEN <<>>
    ELSE <<Outermost(s, {l \in occ[s] : Group(l) = Outermost(s, gany[s])})>>

(* The group's summary after one level of it is set or cleared.            *)
Summary(s, level, holds) ==
    IF holds \/ \E l \in occ[s] \ {level} : Group(l) = Group(level)
    THEN gany[s] \cup {Group(level)} ELSE gany[s] \ {Group(level)}

Banded(part) == IF part # <<>> /\ InBand(Head(part).px) THEN part ELSE <<>>
Indexed(part) == [i \in DOMAIN part |-> [idx |-> IndexOf(part[i].px), qty |-> part[i].qty]]
OutOfBand(d) == Len(d.rem) + Len(d.add) - Len(Banded(d.rem)) - Len(Banded(d.add))

(* The address each memory reads at this edge; where nobody uses what is   *)
(* read the source's address may differ.                                   *)
Probe(s) == IF best[s] # <<>> THEN Head(best[s]) ELSE 0
ReadAddr(s) ==
    IF rec = <<>> \/ s # Head(rec).side THEN Probe(s)
    ELSE LET r == Head(rec) IN
         CASE lstate = "RD" /\ r.rem # <<>> -> r.rem[1].idx
           [] lstate = "RD" /\ r.rem = <<>> /\ r.add # <<>> -> r.add[1].idx
           [] lstate = "REMW" /\ r.add # <<>> -> r.add[1].idx
           [] OTHER -> Probe(s)

(* What the add leaves at its level: the removal's result is forwarded     *)
(* when both touch the same one.                                           *)
Sum(r) == (IF r.rem # <<>> /\ r.rem[1].idx = r.add[1].idx THEN remNew
           ELSE rdata[r.side]) + r.add[1].qty

(* What the memories hold after this edge.                                 *)
Written ==
    CASE ClrBusy -> [s \in Side |-> [qty[s] EXCEPT ![clrAddr] = 0]]
      [] ~ClrBusy /\ lstate = "REMW" /\ Head(rec).rem # <<>> ->
           [qty EXCEPT ![Head(rec).side][Head(rec).rem[1].idx] = remNew]
      [] ~ClrBusy /\ lstate = "ADD" /\ Head(rec).add # <<>> ->
           [qty EXCEPT ![Head(rec).side][Head(rec).add[1].idx] = Sum(Head(rec))]
      [] OTHER -> qty

Memories == qty' = Written /\ rdata' = [s \in Side |-> qty[s][ReadAddr(s)]]

Go(state) == lstate' = state

Accept(delta) ==
    /\ lstate = "IDLE" /\ UNCHANGED <<occ, gany, remNew, best, top, ladBbo, oobCnt>>
    /\ IF delta # <<>> THEN rec' = delta /\ Go("SUB") ELSE UNCHANGED <<rec, lstate>>

Subtract ==                                  \* band check
    /\ lstate = "SUB" /\ Go("IDX")
    /\ rec' = <<[Head(rec) EXCEPT !.rem = Banded(@), !.add = Banded(@)]>>
    /\ oobCnt' = (oobCnt + OutOfBand(Head(rec))) % OobMod
    /\ UNCHANGED <<occ, gany, remNew, best, top, ladBbo>>

Divide ==                                    \* price to level
    /\ lstate = "IDX" /\ Go("RD")
    /\ rec' = <<[Head(rec) EXCEPT !.rem = Indexed(@), !.add = Indexed(@)]>>
    /\ UNCHANGED <<occ, gany, remNew, best, top, ladBbo, oobCnt>>

Wait(from, to) ==                            \* a read is under way
    /\ lstate = from /\ Go(to)
    /\ UNCHANGED <<occ, gany, rec, remNew, best, top, ladBbo, oobCnt>>

Remove ==
    /\ lstate = "REM" /\ Go("REMW")
    /\ remNew' = LET r == Head(rec) IN
         IF r.rem # <<>> /\ rdata[r.side] > r.rem[1].qty
         THEN rdata[r.side] - r.rem[1].qty ELSE 0
    /\ UNCHANGED <<occ, gany, rec, best, top, ladBbo, oobCnt>>

Mark(s, level, holds) ==
    /\ occ' = [occ EXCEPT ![s] = IF holds THEN @ \cup {level} ELSE @ \ {level}]
    /\ gany' = [gany EXCEPT ![s] = Summary(s, level, holds)]

WriteRemoval ==
    /\ lstate = "REMW" /\ Go("ADD")
    /\ LET r == Head(rec) IN
         IF r.rem # <<>> THEN Mark(r.side, r.rem[1].idx, remNew # 0)
         ELSE UNCHANGED <<occ, gany>>
    /\ UNCHANGED <<rec, remNew, best, top, ladBbo, oobCnt>>

Add ==
    /\ lstate = "ADD" /\ Go("BQ")
    /\ LET r == Head(rec) IN
         IF r.add # <<>> THEN Mark(r.side, r.add[1].idx, TRUE)
         ELSE UNCHANGED <<occ, gany>>
    /\ UNCHANGED <<rec, remNew, best, top, ladBbo, oobCnt>>

FindBest ==
    /\ lstate = "BQ" /\ Go("RDQ")
    /\ best' = [s \in Side |-> BestOf(s)]
    /\ UNCHANGED <<occ, gany, rec, remNew, top, ladBbo, oobCnt>>

Price ==
    /\ lstate = "PX" /\ Go("OUT")
    /\ top' = [s \in Side |-> [i \in DOMAIN best[s] |->
                  [px |-> PriceOf(best[s][i]), qty |-> rdata[s]]]]
    /\ UNCHANGED <<occ, gany, rec, remNew, best, ladBbo, oobCnt>>

Publish ==
    /\ lstate = "OUT" /\ Go("IDLE") /\ ladBbo' = top
    /\ UNCHANGED <<occ, gany, rec, remNew, best, top, oobCnt>>

ClearLevel ==
    /\ clrAddr' = clrAddr + 1
    /\ UNCHANGED <<occ, gany, lstate, rec, remNew, best, top, ladBbo, oobCnt>>

LadderStep(delta) ==
    \/ Accept(delta) \/ Subtract \/ Divide \/ Wait("RD", "REM") \/ Remove
    \/ WriteRemoval \/ Add \/ FindBest \/ Wait("RDQ", "PX") \/ Price \/ Publish

(* One core clock; `delta' is what it accepts, only when LadderReady.      *)
LadderTick(delta) ==
    /\ Memories
    /\ ladValid' = (lstate = "OUT" /\ top # ladBbo)
    /\ IF ClrBusy THEN ClearLevel ELSE LadderStep(delta) /\ UNCHANGED clrAddr

(* Wrong on purpose: after a reset the sweep is not run again.             *)
SweepNeverAgain == clrAddr' = Levels

(* Reset clears flops, not the memories, and the sweep starts over.        *)
SweepOver == clrAddr' = 0
LadderReset ==
    /\ Memories /\ SweepOver
    /\ occ' = [s \in Side |-> {}] /\ gany' = [s \in Side |-> {}] /\ lstate' = "IDLE"
    /\ ladValid' = FALSE /\ ladBbo' = Empty /\ oobCnt' = 0
    /\ UNCHANGED <<rec, remNew, best, top>>
=============================================================================
