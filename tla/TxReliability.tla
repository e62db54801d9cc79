--------------------------- MODULE TxReliability ---------------------------
(***************************************************************************)
(* An order on its way to the venue and the machinery that sends it again: *)
(* builder, framer, replay buffer and retransmission timer as t2t_top      *)
(* wires them on the core clock, with the host's resend button.            *)
(*                                                                         *)
(* The network and the venue are external.  A frame is lost or arrives; a  *)
(* frame out of sequence is not kept.  Acknowledgements arrive late, not   *)
(* at all, or out of order: peer_ack takes whatever the segment says       *)
(* (tcp_rx.sv).  The strategy's limiter is respected: no more than         *)
(* MaxUnaccepted orders are under way, and the answer that releases one    *)
(* came in a segment that also acknowledged it.                            *)
(***************************************************************************)
EXTENDS TcpTx, ReplayBuf, TxRto

CONSTANTS MaxUnaccepted,   \* cfg_max_inflight
          HostAges,        \* cfg_resend_age values the host asks for
          LossMax          \* bound: frames lost since the venue last advanced

ASSUME WiringAssumption ==
    /\ RtoSlots = Slots /\ RtoPayldB = PayldB /\ RtoSeqMod = SeqMod /\ Beats = 2
    /\ MaxUnaccepted \in 0..Slots /\ HostAges \subseteq 0..(Slots - 1)
    /\ LossMax \in Nat /\ 2 * PayldB * (MaxUnaccepted + 1) < SeqMod

VARIABLES
  peerAck,     \* tcp_rx.peer_ack
  confirmed,   \* the furthest acknowledgement heard
  venueNxt,    \* the next sequence number the venue expects
  losses,      \* frames lost since it last advanced
  heldOff,     \* cycles the live beat has been held off
  midFrame     \* the frame whose head, but not tail, is on the wire

netVars == <<peerAck, confirmed, venueNxt, losses, heldOff, midFrame>>
linkVars == <<builderVars, txVars, replayVars, rtoVars, netVars>>

Requests(hostAge) == IF rtoReq # <<>> THEN rtoReq ELSE hostAge

(* The frame that is complete on the wire with this cycle's beat.          *)
Arriving == IF OnWire(txOut) # <<>> /\ Head(OnWire(txOut)).last
            THEN {Head(OnWire(txOut)).frame} ELSE {}

Unaccepted == ((InitSeq + PayldB * tokenSeq) - confirmed) % SeqMod

Network(lost) ==
    /\ lost => Arriving # {} /\ losses < LossMax
    /\ IF ~lost /\ \E f \in Arriving : f.seq = venueNxt
       THEN venueNxt' = (venueNxt + PayldB) % SeqMod /\ losses' = 0
       ELSE venueNxt' = venueNxt /\ losses' = losses + IF lost THEN 1 ELSE 0

(* A segment with the ACK flag: the latest, or one that it overtook.       *)
Acknowledged(heard) ==
    IF heard = <<>> THEN UNCHANGED <<peerAck, confirmed>>
    ELSE /\ peerAck' = Head(heard)
         /\ confirmed' = IF Ahead(Head(heard), confirmed) > 0 THEN Head(heard)
                         ELSE confirmed

LinkTick(intent, hostAge, lost, heard) ==
    /\ intent # <<>> => /\ BuilderReady(TxReady(LiveReady))
                        /\ Unaccepted < PayldB * MaxUnaccepted
    /\ BuilderTick(intent, TxReady(LiveReady))
    /\ TxTick(packet, FALSE, LiveReady)
    /\ ReplayTick(txOut, Requests(hostAge))
    /\ RtoTick(seqNum, peerAck)
    /\ Network(lost) /\ Acknowledged(heard)
    /\ heldOff' = IF txOut # <<>> /\ ~LiveReady THEN heldOff + 1 ELSE 0
    /\ midFrame' = IF OnWire(txOut) = <<>> THEN midFrame
                   ELSE {Head(OnWire(txOut)).frame} \ Arriving

LinkInit ==
    /\ BuilderInit /\ TxInit /\ ReplayInit /\ RtoInit
    /\ peerAck = 0 /\ confirmed = InitSeq /\ venueNxt = InitSeq /\ losses = 0
    /\ heldOff = 0 /\ midFrame = {}

Intent == {"order"}

LinkNext == \E intent \in {<<>>} \cup {<<o>> : o \in Intent},
           hostAge \in {<<>>} \cup {<<a>> : a \in HostAges},
           lost \in BOOLEAN, heard \in {<<>>, <<venueNxt>>, <<(venueNxt - PayldB) % SeqMod>>} :
             LinkTick(intent, hostAge, lost, heard)

LinkSpec == LinkInit /\ [][LinkNext]_linkVars
-----------------------------------------------------------------------------
SeqOf(token) == (InitSeq + PayldB * token) % SeqMod

(* Live or replayed, the wire carries whole frames: a head is followed by  *)
(* the tail of the same frame, and every frame is the order its sequence   *)
(* number stands for (tx_replay_buf.sv: a retransmission "that collides    *)
(* with a live order is not" recoverable).                                 *)
WholeFrames ==
    OnWire(txOut) # <<>> =>
      LET beat == Head(OnWire(txOut)) IN
      /\ beat.frame.seq = SeqOf(beat.frame.payload.token)
      /\ IF beat.last THEN midFrame = {beat.frame} ELSE midFrame = {}

(* The timer's request is for the oldest frame the venue is missing, still *)
(* so when the buffer takes it a cycle later, unless the venue heard more  *)
(* meanwhile (tx_rto.sv: "the OLDEST unacknowledged one").                 *)
AsksForOldest ==
    rtoReq # <<>> /\ Accepts(rtoReq, txOut) =>
      LET asked == Head(ring[AgedSlot(Head(rtoReq))][0]).frame IN
        Ahead(venueNxt, asked.seq) >= 0 /\ Ahead(seqNum, asked.seq) > 0
        /\ (Ahead(seqNum, prevAck) <= PayldB * Slots => asked.seq = prevAck)

(* A live beat is held off for one replay at most.                         *)
HeldOffBriefly == heldOff <= Beats

(**************** the instance that is model-checked ***********************)

TokenAlone(payload) == payload.token
=============================================================================
