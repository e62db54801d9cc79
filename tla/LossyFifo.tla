----------------------------- MODULE LossyFifo -----------------------------
(***************************************************************************)
(* What the elastic couplings of the pipeline promise to the stages around *)
(* them.  The producer is a wire: it cannot be told to wait.  A coupling   *)
(* may therefore refuse an item, but it must count what it refuses, hand   *)
(* over the accepted items in the order they came, never twice, never      *)
(* altered, and never hold more than its capacity.                         *)
(*                                                                         *)
(* Implemented by drop_fifo.sv (Floor = Capacity: it refuses only when it  *)
(* is really full) and by cdc_fifo.sv (Floor = 0: its view of the reader   *)
(* lags, so it may refuse while the reader has already made room).         *)
(***************************************************************************)
EXTENDS Naturals, Sequences

CONSTANTS Item,       \* what is stored: beats, messages, deltas
          Capacity,   \* the most items the coupling holds
          Floor,      \* it refuses only while it holds at least this many
          CntMod      \* counters count modulo this (2^32)

VARIABLES queue,      \* accepted and not yet handed over, oldest first
          lost,       \* how many items were refused
          given,      \* how many the producer offered
          taken       \* how many the consumer took

vars == <<queue, lost, given, taken>>

Init == queue = <<>> /\ lost = 0 /\ given = 0 /\ taken = 0

(* One edge of the producer's or of the consumer's clock, or both at once: *)
(* the oldest item leaves exactly if the consumer takes it, and an item    *)
(* that is offered is stored or refused and counted.                       *)
Step(offers, refuses, takes) ==
    LET kept == SubSeq(queue, takes + 1, Len(queue)) IN
    /\ takes <= Len(queue) /\ refuses <= offers
    /\ queue' \in IF offers > refuses THEN {Append(kept, x) : x \in Item} ELSE {kept}
    /\ Len(queue') <= Capacity
    /\ refuses = 1 => Len(queue) >= Floor
    /\ lost'  = (lost + refuses) % CntMod
    /\ given' = (given + offers) % CntMod
    /\ taken' = (taken + takes) % CntMod

Next == \E offers, refuses, takes \in 0..1 : Step(offers, refuses, takes)

Spec == Init /\ [][Next]_vars
=============================================================================
