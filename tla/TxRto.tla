------------------------------- MODULE TxRto -------------------------------
(***************************************************************************)
(* The retransmission timeout (step6-strategy/rtl/tx_rto.sv): watches      *)
(* tcp_tx's seq_num and tcp_rx's peer_ack, and asks the replay buffer for  *)
(* the oldest unacknowledged frame when the acknowledgement stands still.  *)
(* The timer is switched on (cfg_en).                                      *)
(***************************************************************************)
EXTENDS Integers, Sequences, FiniteSets

CONSTANTS RtoSlots,      \* SLOTS, as instantiated here
          RtoPayldB,     \* PAYLD_B, as instantiated here
          RtoSeqMod,     \* sequence numbers are modulo this (2^32)
          RtoCycles, MaxRetries,
          RtoCntMod      \* the counters count modulo this (2^32)

ASSUME RtoAssumption ==
    /\ RtoSlots \in Nat \ {0} /\ RtoPayldB \in Nat \ {0}
    /\ RtoSeqMod \in {2 * n : n \in 1..RtoSeqMod}
    /\ RtoCycles \in Nat /\ MaxRetries \in Nat /\ RtoCntMod \in Nat \ {0}

VARIABLES prevAck, armed, gaveUp, timer, retries,
          rtoReq,                \* o_resend_req and o_resend_age
          firedCnt, gaveUpCnt    \* st_fired, st_gaveup

rtoVars == <<prevAck, armed, gaveUp, timer, retries, rtoReq, firedCnt, gaveUpCnt>>

RtoInit ==
    /\ prevAck = 0 /\ armed = FALSE /\ gaveUp = FALSE
    /\ timer = 0 /\ retries = 0 /\ rtoReq = <<>>
    /\ firedCnt = 0 /\ gaveUpCnt = 0

(* The signed reading of a difference of sequence numbers.                 *)
Ahead(seq, ack) ==
    LET d == (seq - ack) % RtoSeqMod IN IF 2 * d < RtoSeqMod THEN d ELSE d - RtoSeqMod

(* How many frames that is, clamped to the ring.                           *)
FramesIn(bytes) == Cardinality({k \in 0..(RtoSlots - 1) : bytes > k * RtoPayldB})
(* Wrong on purpose: one frame too far back.                               *)
OldestAgeOffByOne(seq, ack) == FramesIn(Ahead(seq, ack)) % RtoSlots

OldestAge(seq, ack) ==
    LET n == FramesIn(Ahead(seq, ack)) IN IF n = 0 THEN 0 ELSE (n - 1) % RtoSlots

Restart == timer' = 0 /\ retries' = 0 /\ gaveUp' = FALSE
Quiet   == rtoReq' = <<>> /\ UNCHANGED firedCnt

RtoProgress ==                                     \* the ack moved
    /\ armed' = TRUE /\ Restart /\ Quiet /\ UNCHANGED gaveUpCnt

RtoIdle ==                                         \* nothing to wait for
    Restart /\ Quiet /\ UNCHANGED <<armed, gaveUpCnt>>

RtoWait ==
    /\ timer' = timer + 1
    /\ Quiet /\ UNCHANGED <<armed, retries, gaveUp, gaveUpCnt>>

RtoFire(seq, ack) ==
    /\ retries < MaxRetries
    /\ rtoReq' = <<OldestAge(seq, ack)>>
    /\ retries' = retries + 1
    /\ firedCnt' = (firedCnt + 1) % RtoCntMod
    /\ timer' = 0 /\ UNCHANGED <<armed, gaveUp, gaveUpCnt>>

RtoGiveUp ==
    /\ retries >= MaxRetries
    /\ gaveUp' = TRUE
    /\ gaveUpCnt' = IF gaveUp THEN gaveUpCnt ELSE (gaveUpCnt + 1) % RtoCntMod
    /\ timer' = 0 /\ Quiet /\ UNCHANGED <<armed, retries>>

(* One core clock, with seq_num = seq and peer_ack = ack.                  *)
RtoTick(seq, ack) ==
    /\ prevAck' = ack
    /\ \/ ack # prevAck /\ RtoProgress
       \/ /\ ack = prevAck
          /\ \/ (~armed \/ Ahead(seq, ack) <= 0) /\ RtoIdle
             \/ /\ armed /\ Ahead(seq, ack) > 0
                /\ \/ timer < RtoCycles /\ RtoWait
                   \/ timer >= RtoCycles /\ (RtoFire(seq, ack) \/ RtoGiveUp)
=============================================================================
