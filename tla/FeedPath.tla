------------------------------ MODULE FeedPath ------------------------------
(***************************************************************************)
(* The two redundant lines of the feed, an elastic FIFO behind each, and   *)
(* the arbiter that merges them (step5-board/rtl/t2t_top.sv, "A/B line     *)
(* arbiter").                                                              *)
(*                                                                         *)
(* The exchange and the network are external: both lines carry the same    *)
(* packets in order, either may lose any packet whole, and a packet is     *)
(* settled on the second line (arrived or lost) within Skew cycles of the  *)
(* first.  A beat is the packet and part it belongs to and what the        *)
(* arbiter would read of it as a header: only the first beat of a packet   *)
(* has one, of the others it would read message bytes (BodyHeader).        *)
(***************************************************************************)
EXTENDS FeedArb, FiniteSets

CONSTANTS Feed,         \* the packets: [seq, cnt, beats], in order
          BodyHeader,   \* [seq, cnt] read out of the middle of a packet
          FifoDepth,    \* DEPTH of u_afifo and u_bfifo (256)
          FifoDropMod,  \* their drop_cnt count modulo this (2^32)
          Skew

Packet == DOMAIN Feed
Beat(n, part) ==
    LET header == IF part = 1 THEN Feed[n] ELSE BodyHeader IN
    [pkt |-> n, part |-> part, last |-> part = Feed[n].beats,
     seq |-> header.seq, cnt |-> header.cnt]
Beats == UNION {{Beat(n, part) : part \in 1..Feed[n].beats} : n \in Packet}

VARIABLES amem, awptr, arptr, ahead, adrop, amax, agiven, ataken,   \* u_afifo
          bmem, bwptr, brptr, bhead, bdrop, bmax, bgiven, btaken,   \* u_bfifo
          pos,        \* the packet and part each line carries next
          lostOn,     \* the packets each line has lost
          lag,        \* cycles each packet has waited for its second line
          sent,       \* packets that left the arbiter whole
          outBeat     \* the last beat that left it

afifo == <<amem, awptr, arptr, ahead, adrop, amax, agiven, ataken>>
bfifo == <<bmem, bwptr, brptr, bhead, bdrop, bmax, bgiven, btaken>>
envVars == <<pos, lostOn, lag, sent, outBeat>>
vars == <<arbVars, afifo, bfifo, envVars>>

A == INSTANCE DropFifo WITH Word <- Beats, Depth <- FifoDepth, DropMod <- FifoDropMod,
       mem <- amem, wptr <- awptr, rptr <- arptr, head <- ahead, dropCnt <- adrop,
       levelMax <- amax, given <- agiven, taken <- ataken
B == INSTANCE DropFifo WITH Word <- Beats, Depth <- FifoDepth, DropMod <- FifoDropMod,
       mem <- bmem, wptr <- bwptr, rptr <- brptr, head <- bhead, dropCnt <- bdrop,
       levelMax <- bmax, given <- bgiven, taken <- btaken

ASSUME FifoAssumption == A!DropConstants
ASSUME FeedAssumption ==
    /\ Feed \in Seq([seq : Nat, cnt : Nat, beats : Nat \ {0}])
    /\ \A n \in Packet \ {1} : Feed[n].seq = Feed[n - 1].seq + Feed[n - 1].cnt

Heads == [l \in Line |-> IF l = "A" THEN ahead ELSE bhead]

(* What a line does with the beat it carries next: nothing yet, loses the  *)
(* packet, or delivers the beat to its FIFO.                               *)
Carry(l, event) ==
    CASE event = "none" -> pos[l]
      [] event = "lose" -> [pkt |-> pos[l].pkt + 1, part |-> 1]
      [] event = "beat" -> IF pos[l].part = Feed[pos[l].pkt].beats
                           THEN [pkt |-> pos[l].pkt + 1, part |-> 1]
                           ELSE [pos[l] EXCEPT !.part = @ + 1]

Pushed(l, event) == IF event = "beat" THEN <<Beat(pos[l].pkt, pos[l].part)>> ELSE <<>>

Lines(event) ==
    /\ \A l \in Line : event[l] # "none" => pos[l].pkt \in Packet
    /\ \A l \in Line : event[l] = "lose" => pos[l].part = 1
    /\ pos' = [l \in Line |-> Carry(l, event[l])]
    /\ lostOn' = [l \in Line |-> lostOn[l] \cup
                    (IF event[l] = "lose" THEN {pos[l].pkt} ELSE {})]
    /\ lag' = [n \in Packet |->
                 IF pos'["A"].pkt > n /\ pos'["B"].pkt > n THEN 0
                 ELSE IF pos["A"].pkt > n \/ pos["B"].pkt > n THEN lag[n] + 1 ELSE 0]
    /\ \A n \in Packet : lag'[n] <= Skew


Tick(event) ==
    /\ Lines(event)
    /\ A!DropTick(Pushed("A", event["A"]), "A" \in Served(Heads))
    /\ B!DropTick(Pushed("B", event["B"]), "B" \in Served(Heads))
    /\ ArbTick(Heads)
    /\ sent' = sent \cup (IF Output(Heads) # <<>> /\ Head(Output(Heads)).last
                          THEN {Head(Output(Heads)).pkt} ELSE {})
    /\ outBeat' = IF Output(Heads) # <<>> THEN Output(Heads) ELSE outBeat

Init == /\ A!DropInit /\ B!DropInit /\ ArbInit
        /\ pos = [l \in Line |-> [pkt |-> 1, part |-> 1]]
        /\ lostOn = [l \in Line |-> {}] /\ lag = [n \in Packet |-> 0]
        /\ sent = {} /\ outBeat = <<>>

Next == \E event \in [Line -> {"none", "lose", "beat"}] : Tick(event)

Spec == Init /\ [][Next]_vars
-----------------------------------------------------------------------------

(* Both elastic FIFOs keep their promise under the arbiter's handshake.    *)
LinesAreLossyFifos == A!ImplementsLossyFifo /\ B!ImplementsLossyFifo

(* Neither FIFO has dropped a beat.  One that has is out of step with the  *)
(* packets: the arbiter reads message bytes as a header from then on.      *)
InStep == adrop = 0 /\ bdrop = 0

End(n) == Feed[n].seq + Feed[n].cnt

(* The merged stream is made of whole packets, none interleaved with the   *)
(* other line's, and none starts before the end of the one before it       *)
(* (feed_ab_arb.sv: "one clean, in-order, de-duplicated packet stream").   *)
MergedInOrder ==
    InStep /\ Output(Heads) # <<>> =>
      LET beat == Head(Output(Heads)) IN
      IF outBeat = <<>> THEN beat.part = 1
      ELSE LET before == Head(outBeat) IN
           IF before.last THEN beat.part = 1 /\ Feed[beat.pkt].seq >= End(before.pkt)
           ELSE beat.pkt = before.pkt /\ beat.part = before.part + 1

(* Packets of messages the merged stream has gone past and never carried.  *)
(* Those before the first one forwarded are not missed: the arbiter locks  *)
(* on to whatever it sees first.                                           *)
Data   == {n \in Packet : Feed[n].cnt > 0}
Missed == {n \in Data \ sent : End(n) <= nextSeq /\ \E m \in sent : m < n}

(* What the book never saw was lost on both lines, provided the lines are  *)
(* not further apart than the arbiter is patient (feed_ab_arb.sv: "losing  *)
(* only the packet that was lost on both lines").  Without that proviso it *)
(* is not so: one line ahead and the other merely late is taken for a gap. *)
OnlyDoubleLossesMissed == InStep => Missed \subseteq lostOn["A"] \cap lostOn["B"]

(**************** the instance that is model-checked ***********************)

(* Four packets of messages, one of them two beats long, and a heartbeat.  *)
(* Read as a header, the middle of a packet says it is far ahead.          *)
MCFeed == << [seq |-> 1, cnt |-> 2, beats |-> 1],
             [seq |-> 3, cnt |-> 1, beats |-> 2],
             [seq |-> 4, cnt |-> 1, beats |-> 1],
             [seq |-> 5, cnt |-> 2, beats |-> 1],
             [seq |-> 7, cnt |-> 0, beats |-> 1] >>
MCBodyHeader == [seq |-> 9, cnt |-> 1]
=============================================================================
