------------------------------ MODULE BookLanes ------------------------------
(***************************************************************************)
(* The books of all symbols before their arbiter, as fh_core wires them.   *)
(* Of each book only the timing is kept that Book shows: the delta FIFO    *)
(* gives one delta a cycle to the ladder that owns it, an early record     *)
(* enters the arbiter two cycles later, a late one when the ladder, ten    *)
(* states on, has been ready again for a cycle.                            *)
(***************************************************************************)
EXTENDS Integers, Sequences, FiniteSetsExt

(***************************************************************************)
(* The tagged merge of the books' records (step4b-book/rtl/bbo_arb.sv,     *)
(* more than one symbol): a queue of Depth records per symbol, filled at   *)
(* once, and one record out per cycle, round robin.                        *)
(***************************************************************************)
CONSTANTS NSym,       \* NSYM; with one symbol bbo_arb is a wire
          Depth,      \* DEPTH; a power of two, as the slot is the pointer's low bits
          ArbDropMod  \* drops counts modulo this (2^32)

ASSUME BboArbAssumption ==
    NSym \in Nat \ {0, 1} /\ Depth \in Nat \ {0} /\ ArbDropMod \in Nat \ {0}

Symbol == 0..(NSym - 1)

VARIABLES slot,         \* q
          wptr, rptr,   \* modulo 2 * Depth
          last,
          arbOut,       \* o_valid, o_sym and o_data
          drops

arbVars == <<slot, wptr, rptr, last, arbOut, drops>>

ArbInit(blank) ==
    /\ slot = [k \in Symbol |-> [i \in 0..(Depth - 1) |-> blank]]
    /\ wptr = [k \in Symbol |-> 0] /\ rptr = [k \in Symbol |-> 0]
    /\ last = 0 /\ arbOut = <<>> /\ drops = 0

NextPtr(ptr) == (ptr + 1) % (2 * Depth)

Queued(k) == (wptr[k] - rptr[k]) % (2 * Depth)
Waiting  == {k \in Symbol : Queued(k) > 0}

(* Wrong on purpose: one record too early.                                 *)
FullTooSoon(k) == Queued(k) = Depth - 1

Full(k) == Queued(k) = Depth

(* Wrong on purpose: the lowest symbol first.                              *)
TurnsFixed(k) == k

(* How many turns after the last one served it is k's.                     *)
Turns(k) == (k - last - 1) % NSym

Pick == CHOOSE k \in Waiting : \A j \in Waiting : Turns(k) <= Turns(j)

(* Wrong on purpose: the read pointer of the symbol served before.         *)
HeadOfLast(k) == slot[k][rptr[last] % Depth]

HeadOf(k) == slot[k][rptr[k] % Depth]

(* One core clock; `offer' has for each symbol nothing or its record.      *)
ArbTick(offer) ==
    LET stores == {k \in Symbol : offer[k] # <<>> /\ ~Full(k)}
        lost   == Cardinality({k \in Symbol : offer[k] # <<>> /\ Full(k)})
    IN  /\ slot' = [k \in Symbol |-> IF k \in stores
                      THEN [slot[k] EXCEPT ![wptr[k] % Depth] = Head(offer[k])] ELSE slot[k]]
        /\ wptr' = [k \in Symbol |-> IF k \in stores THEN NextPtr(wptr[k]) ELSE wptr[k]]
        /\ drops' = (drops + lost) % ArbDropMod
        /\ IF Waiting = {} THEN arbOut' = <<>> /\ UNCHANGED <<rptr, last>>
           ELSE /\ arbOut' = <<[sym |-> Pick, data |-> HeadOf(Pick)]>>
                /\ rptr' = [rptr EXCEPT ![Pick] = NextPtr(@)]
                /\ last' = Pick
-----------------------------------------------------------------------------
CONSTANTS Walk,       \* the states of the ladder behind IDLE: 10
          RecordMod   \* records are numbered modulo this

ASSUME LanesAssumption == Walk \in Nat \ {0} /\ RecordMod \in Nat \ {0}

VARIABLES stage,      \* per symbol: 0 when its ladder is ready, else how far its delta is
          answers,    \* how the delta will be answered: a subset of Answer
          ladSpeaks,  \* lad_valid
          merged,     \* bbo_merge's output: a record's number
          number,     \* how many records a symbol has had
          expected,   \* the number of the symbol's next record out of the arbiter
          waited      \* cycles for which a symbol's queue has not been served

lanesVars == <<stage, answers, ladSpeaks, merged, number, expected, waited>>
allVars      == <<arbVars, lanesVars>>

Answer == {"early", "late"}

(* What the symbol's rejoin emits at this edge.                            *)
Emits(k) == ladSpeaks[k] \/ (stage[k] = 1 /\ "early" \in answers[k])

(* The ladders advance, and at most one of those that are ready takes the  *)
(* delta; `taker' has its symbol and `how' the answer.                     *)
LanesTick(taker, how) ==
    /\ stage' = [k \in Symbol |-> IF stage[k] = 0 THEN (IF k \in taker THEN 1 ELSE 0)
                                  ELSE (stage[k] + 1) % (Walk + 1)]
    /\ answers' = [k \in Symbol |-> IF k \in taker THEN how
                      ELSE IF stage[k] = Walk THEN {}
                      ELSE IF stage[k] = 1 THEN answers[k] \ {"early"} ELSE answers[k]]
    /\ ladSpeaks' = [k \in Symbol |-> stage[k] = Walk /\ "late" \in answers[k]]
    /\ merged' = [k \in Symbol |-> IF Emits(k) THEN <<number[k]>> ELSE <<>>]
    /\ number' = [k \in Symbol |-> IF Emits(k) THEN (number[k] + 1) % RecordMod ELSE number[k]]

Watch ==
    /\ expected' = [k \in Symbol |-> IF \E i \in DOMAIN arbOut : arbOut[i].sym = k
                                     THEN (expected[k] + 1) % RecordMod ELSE expected[k]]
    /\ waited' = [k \in Symbol |-> IF k \notin Waiting \/ k = Pick THEN 0 ELSE waited[k] + 1]

Clock(taker, how) == LanesTick(taker, how) /\ Watch /\ ArbTick(merged)

Idle == Clock({}, {})
Take == \E k \in Symbol, how \in SUBSET Answer : stage[k] = 0 /\ Clock({k}, how)

LanesInit == /\ ArbInit(0)
        /\ stage = [k \in Symbol |-> 0] /\ answers = [k \in Symbol |-> {}]
        /\ ladSpeaks = [k \in Symbol |-> FALSE] /\ merged = [k \in Symbol |-> <<>>]
        /\ number = [k \in Symbol |-> 0] /\ expected = [k \in Symbol |-> 0]
        /\ waited = [k \in Symbol |-> 0]
LanesNext == Idle \/ Take
LanesSpec == LanesInit /\ [][LanesNext]_allVars

(******************************* properties ********************************)

OrNone(set) == {<<>>} \cup {<<x>> : x \in set}

(* A queue is never asked to hold more than Depth records (bbo_arb.sv:34), *)
(* although a late record and the next delta's early one may come on       *)
(* consecutive cycles and not five apart.                                  *)
NothingDropped == drops = 0

(* Per symbol, order is preserved exactly (bbo_arb.sv:20): each record     *)
(* that leaves is its symbol's next.                                       *)
SymbolOrder == \A i \in DOMAIN arbOut : arbOut[i].data = expected[arbOut[i].sym]

(* No symbol starves (bbo_arb.sv:89): a queue with a record is served      *)
(* before any other is served twice.                                       *)
NoStarvation == \A k \in Symbol : waited[k] < NSym
=============================================================================
