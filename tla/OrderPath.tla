----------------------------- MODULE OrderPath -----------------------------
(***************************************************************************)
(* From a decision to the wire: strategy, OUCH builder and TCP framer as   *)
(* t2t_top chains them on the core clock.  Every module registers its      *)
(* outputs and every ready is a wire, so one step computes all three from  *)
(* the values before the edge.                                             *)
(*                                                                         *)
(* `down' is tcp_tx's m_tready, which the replay buffer drops while it     *)
(* re-sends a frame: it accepts no request while a live beat is waiting,   *)
(* so a beat waits for one replay at most, StallMax = BEATS cycles.  The   *)
(* connection was handed over (cfg_load) before the strategy was enabled.  *)
(*                                                                         *)
(* Next to the hardware runs the software golden it is diffed against: one *)
(* line of dump_ouch.py and one of dump_tcp.py for every intent.           *)
(***************************************************************************)
EXTENDS Strategy, TcpTx

CONSTANT StallMax      \* the most cycles a live beat is held off

ASSUME StallAssumption == StallMax \in Nat

VARIABLES
  followed,    \* the previous cycle also carried an intent
  stalled,     \* cycles the beat now in the framer's output has waited
  gold,        \* the golden's counters: seq of dump_ouch, seq and ident of dump_tcp
  due,         \* the golden's frames that have yet to leave
  waited       \* cycles since a frame left, while there is one to leave

vars == <<strategyVars, builderVars, txVars, followed, stalled, gold, due, waited>>

(* Packets accepted by the builder whose frame is not yet completely out,  *)
(* oldest first.                                                           *)
Leaving == (IF txOut # <<>> /\ Head(txOut).last
            THEN <<Head(txOut).frame.payload>> ELSE <<>>)
Framing == CASE txState = "IDLE"  -> <<>>
             [] txState = "CALC"  -> hold
             [] txState = "BEAT1" -> <<Head(tail).frame.payload>>
Pipeline == Leaving \o Framing \o packet

(* A carry is added back in until none is left.                            *)
Folded[s \in Nat] == IF s < CsumMod THEN s ELSE Folded[(s % CsumMod) + (s \div CsumMod)]
csum(s) == (CsumMod - 1) - Folded[s]

(* The order in OUCH, its token the line's number.                         *)
build(n, intent) == [token |-> n, intent |-> intent]

frame(payload, seq, ident) ==
    [seq |-> seq, ident |-> ident,
     ipCsum |-> csum(IpBase + ident),
     tcpCsum |-> csum(TcpBase + (seq \div CsumMod) + (seq % CsumMod) + PayldSum(payload)),
     payload |-> payload]

GoldInit == gold = [n |-> 0, seq |-> InitSeq, ident |-> InitId] /\ due = <<>>

(* Another order in the log is another line of both scripts.               *)
GoldLine(intent) ==
    IF intent = <<>> THEN UNCHANGED gold
    ELSE gold' = [n |-> (gold.n + 1) % TokenMod, seq |-> (gold.seq + PayldB) % SeqMod,
                  ident |-> (gold.ident + 1) % CsumMod]
Lines(intent) == [i \in DOMAIN intent |-> frame(build(gold.n, intent[i]), gold.seq, gold.ident)]

PacketTaken(down) == TxReady(down)             \* ouch_tready
IntentReady(down) == BuilderReady(TxReady(down))   \* ord_ready

Accepted(down) == IF IntentReady(down) THEN order ELSE <<>>

Tick(quote, ack, down) ==
    /\ StrategyTick(quote, <<>>, ack, IntentReady(down), TRUE)
    /\ BuilderTick(order, PacketTaken(down))
    /\ TxTick(packet, FALSE, down)
    /\ followed' = (order # <<>>)
    /\ stalled' = IF txOut # <<>> /\ ~down THEN stalled + 1 ELSE 0
    /\ stalled' <= StallMax
    /\ GoldLine(Accepted(down))
    /\ due' = (IF Leaving # <<>> /\ down THEN Tail(due) ELSE due) \o Lines(Accepted(down))
    /\ waited' = IF Pipeline = <<>> \/ (Leaving # <<>> /\ down) THEN 0 ELSE waited + 1

Init == /\ StrategyInit /\ BuilderInit /\ TxInit /\ GoldInit
        /\ followed = FALSE /\ stalled = 0 /\ waited = 0

Next == \E quote \in Maybe(Quote), ack, down \in BOOLEAN :
          Tick(quote, ack, down)

Spec == Init /\ [][Next]_vars
-----------------------------------------------------------------------------
(* What the builder accepts leaves once, in order, and byte for byte as    *)
(* the software would have sent it (dump_tcp.py): builder and framer       *)
(* advance token, sequence number and IP id in two modules at two times,   *)
(* fold each checksum twice instead of until no carry is left, and hold a  *)
(* frame back between its beats.  Nothing counts losses behind the         *)
(* builder, and a replayed frame is the same order only while token and    *)
(* sequence number agree (tx_replay_buf.sv: "a genuinely different order").*)
FramesAreGolden ==
    /\ Pipeline = [i \in DOMAIN due |-> due[i].payload]
    /\ txOut # <<>> => Head(txOut).frame = Head(due)
    /\ txState = "BEAT1" => /\ Head(tail).frame = Head(due)
                            /\ txOut # <<>> => ~Head(txOut).last

(* The strategy samples o_ready one cycle before its intent arrives, and   *)
(* the sample is stale only behind an intent of the cycle before: triggers *)
(* that are not on consecutive cycles are never lost.                      *)
SpacedNeverLost ==
    order # <<>> /\ ~followed => \A down \in BOOLEAN : IntentReady(down)

(* While an order waits, a frame leaves every so many cycles: one to take  *)
(* it, one to sum it, and two beats that may each be held off.  A replay   *)
(* cannot starve the live path (tx_replay_buf.sv: "held off for at most    *)
(* BEATS cycles").                                                         *)
KeepsMoving == waited <= 2 * StallMax + 3

(**************** the instance that is model-checked ***********************)

(* Sums that leave a carry behind the first fold.                          *)
MCPayldSum(payload) == payload.token + payload.intent.px

(***************************************************************************)
(* One symbol whose book tips from side to side: every record that tips it *)
(* is an order, so orders are wanted on any cycles, consecutive ones too.  *)
(***************************************************************************)
Book(bidQty, askQty) ==
    [sym |-> "A", bid |-> 2, bidQty |-> bidQty, ask |-> 3, askQty |-> askQty]

MCQuote == {Book(2, 1), Book(1, 2)}
=============================================================================
