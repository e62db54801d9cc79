------------------------------ MODULE FastBbo ------------------------------
(***************************************************************************)
(* The early top of book of one symbol (step4b-book/rtl/fast_bbo.sv): from *)
(* the last top of book it knows it answers a delta at once, or says that  *)
(* only the ladder can.                                                    *)
(***************************************************************************)
EXTENDS Integers, Sequences

VARIABLES shadow,    \* has_*, *_price, *_qty
          stale,
          fastOut    \* o_valid, o_certain and the record

fastVars == <<shadow, stale, fastOut>>

FastInit == /\ shadow = [s \in {"bid", "ask"} |-> <<>>]
            /\ stale = TRUE /\ fastOut = <<>>

(* Wrong on purpose: the ladder's record is missed.                        *)
KnownUnforwarded(lad) == shadow

(* The record of the ladder, if it speaks this cycle, is the book before   *)
(* the delta of this cycle.                                                *)
Known(lad)    == IF lad # <<>> THEN Head(lad) ELSE shadow
EffStale(lad) == stale /\ lad = <<>>

Beats(side, px, than) == IF side = "bid" THEN px > than ELSE px < than

RemHitsBest(d, cur) == d.rem # <<>> /\ cur # <<>> /\ d.rem[1].px = cur[1].px
RemEmpties(d, cur)  == RemHitsBest(d, cur) /\ d.rem[1].qty >= cur[1].qty
AddImproves(d, cur) ==
    d.add # <<>> /\ (cur = <<>> \/ Beats(d.side, d.add[1].px, cur[1].px))
AddAtBest(d, cur)   == d.add # <<>> /\ cur # <<>> /\ d.add[1].px = cur[1].px

NetQty(d, cur) == cur[1].qty - (IF RemHitsBest(d, cur) THEN d.rem[1].qty ELSE 0)
                             + (IF AddAtBest(d, cur) THEN d.add[1].qty ELSE 0)

Defers(d, lad) ==
    LET cur == Known(lad)[d.side] IN
    EffStale(lad) \/ (RemEmpties(d, cur) /\ ~AddImproves(d, cur))

(* The top of book after the delta, when it can be told.                   *)
Answer(d, lad) ==
    LET cur == Known(lad)[d.side] IN
    [Known(lad) EXCEPT ![d.side] =
        IF AddImproves(d, cur) THEN d.add
        ELSE [i \in DOMAIN cur |-> [cur[i] EXCEPT !.qty = NetQty(d, cur)]]]

(* One core clock: `delta' is the delta the ladder accepts, `lad' the      *)
(* ladder's record.                                                        *)
FastTick(delta, lad) ==
    IF delta = <<>>
    THEN shadow' = Known(lad) /\ stale' = EffStale(lad) /\ fastOut' = <<>>
    ELSE LET d == Head(delta) IN
         IF Defers(d, lad)
         THEN /\ shadow' = Known(lad) /\ stale' = TRUE
              /\ fastOut' = <<[certain |-> FALSE, bbo |-> Known(lad)]>>
         ELSE /\ shadow' = Answer(d, lad) /\ stale' = EffStale(lad)
              /\ fastOut' = <<[certain |-> TRUE, bbo |-> Answer(d, lad)]>>

FastReset == /\ shadow' = [s \in {"bid", "ask"} |-> <<>>]
             /\ stale' = TRUE /\ fastOut' = <<>>
-----------------------------------------------------------------------------
(***************************************************************************)
(* The rejoin of the early answer and the ladder's into one stream of      *)
(* records (step4b-book/rtl/bbo_merge.sv).  Its output port shows emitted  *)
(* a clock later.                                                          *)
(***************************************************************************)
CONSTANT MergeMod      \* the counters count modulo this (2^32)

ASSUME MergeAssumption == MergeMod \in Nat \ {0}

VARIABLES emitted,     \* e_*: the last record emitted; o_* is the same
          pendCertain, pendEmitted,
          earlyCnt, lateCnt, mismatchCnt

mergeVars == <<emitted, pendCertain, pendEmitted, earlyCnt, lateCnt, mismatchCnt>>

MergeInit ==
    /\ emitted = [s \in {"bid", "ask"} |-> <<>>]
    /\ pendCertain = FALSE /\ pendEmitted = FALSE
    /\ earlyCnt = 0 /\ lateCnt = 0 /\ mismatchCnt = 0

FastTake(fast, lad) == fast # <<>> /\ Head(fast).certain /\ lad = <<>>

(* The record offered this cycle: the ladder's before the early one.       *)
Offered(fast, lad) == IF lad # <<>> THEN lad
                      ELSE IF FastTake(fast, lad) THEN <<Head(fast).bbo>> ELSE <<>>

(* It is emitted when it says something new.                               *)
Emits(fast, lad) == Offered(fast, lad) # <<>> /\ Offered(fast, lad) # <<emitted>>

Contradicts(fast, lad) ==
    \/ lad # <<>> /\ pendCertain /\ Emits(fast, lad)
    \/ fast # <<>> /\ lad = <<>> /\ pendCertain /\ pendEmitted

Bump(count) == (count + 1) % MergeMod

MergeTick(fast, lad) ==
    /\ emitted' = IF Emits(fast, lad) THEN Head(Offered(fast, lad)) ELSE emitted
    /\ earlyCnt' = IF Emits(fast, lad) /\ lad = <<>> THEN Bump(earlyCnt) ELSE earlyCnt
    /\ lateCnt' = IF Emits(fast, lad) /\ lad # <<>> THEN Bump(lateCnt) ELSE lateCnt
    /\ mismatchCnt' = IF Contradicts(fast, lad) THEN Bump(mismatchCnt) ELSE mismatchCnt
    /\ pendCertain' = IF fast # <<>> THEN FastTake(fast, lad)
                      ELSE pendCertain /\ lad = <<>>
    /\ pendEmitted' = IF fast # <<>> THEN FastTake(fast, lad) /\ Emits(fast, lad)
                      ELSE pendEmitted /\ lad = <<>>

MergeReset ==
    /\ emitted' = [s \in {"bid", "ask"} |-> <<>>]
    /\ pendCertain' = FALSE /\ pendEmitted' = FALSE
    /\ earlyCnt' = 0 /\ lateCnt' = 0 /\ mismatchCnt' = 0
=============================================================================
