----------------------------- MODULE SessionIn -----------------------------
(***************************************************************************)
(* The inbound path of the order session, from the venue's byte stream to  *)
(* the host's decoder: tcp_rx on the core clock, the FIFO to the shell's   *)
(* clock (u_sess_cdc), the arbiter that merges its frames with the orders, *)
(* and the capture area (step8-hw/rtl/t2t_kernel.sv).                      *)
(*                                                                         *)
(* The venue's TCP and the network are external.  The stream can be cut    *)
(* anywhere in Cuts, and any piece may arrive at any time and any number   *)
(* of times: lost, late, repeated, or sent again in other pieces.  What    *)
(* the venue is told of it goes with the orders, and may not get there.    *)
(***************************************************************************)
EXTENDS TcpRx, FiniteSetsExt, Sequences, SoupBin

(***************************************************************************)
(* The venue's side of the order session and what it decodes to            *)
(* (step8-hw/scripts/gen_session.py): one Order Accepted per token, each a *)
(* sequenced packet in a frame of its own, one after the other from --seq. *)
(* The acknowledgement they carry is left to TxReliability.                *)
(***************************************************************************)
CONSTANT NReplies   \* --count

ASSUME GenAssumption == NReplies \in Nat

(* A frame to the card; nothing is FIN here.                               *)
tcp_frame(seq, payload) ==
    [dst |-> "card", conn |-> "session", seq |-> seq, payload |-> payload, fin |-> FALSE]

(* Tokens and references count up, the sides alternate.                    *)
order_accepted(i) ==
    [msg |-> "A", token |-> i, is_buy |-> (i % 2 = 0), shares |-> 100, ref |-> 20480 + i]

Replies == [i \in 1..NReplies |-> sequenced(order_accepted(i - 1))]

(* seq advances by the payload of every frame before.                      *)
SeqBefore(first, i) == first + Len(Stream(SubSeq(Replies, 1, i - 1)))

Frames(first) == [i \in 1..NReplies |-> tcp_frame(SeqBefore(first, i), pack(Replies[i]))]

Golden ==
    [i \in 1..NReplies |->
        LET m == order_accepted(i - 1) IN
        [line |-> "A", token |-> m.token, is_buy |-> m.is_buy, shares |-> m.shares,
         ref |-> m.ref]]
-----------------------------------------------------------------------------
(***************************************************************************)
(* Two frame streams onto one port (step5-board/rtl/axis_tx_arb.sv): s0    *)
(* goes first, and a frame that has been picked keeps the port to its      *)
(* last beat.  An input is <<>> or <<beat>>.                               *)
(***************************************************************************)
VARIABLES busy, sel

arbVars == <<busy, sel>>

pick_unlocked(s0) == IF s0 # <<>> THEN 0 ELSE 1
pick(s0) == IF busy THEN sel ELSE IF s0 # <<>> THEN 0 ELSE 1

Arbitrated(s0, s1) == IF pick(s0) = 0 THEN s0 ELSE s1

Granted(i, s0, s1, ready) == pick(s0) = i /\ Arbitrated(s0, s1) # <<>> /\ ready

ArbInit == busy = FALSE /\ sel = 0

Done(m, ready)      == m # <<>> /\ ready /\ Head(m).last

ArbTick(s0, s1, ready) ==
    LET m == Arbitrated(s0, s1) IN
    /\ busy' = ((busy \/ m # <<>>) /\ ~Done(m, ready))
    /\ sel' = IF ~busy /\ m # <<>> THEN pick(s0) ELSE sel
-----------------------------------------------------------------------------
CONSTANTS Cuts,        \* where the venue's segments start and end
          MaxPiece,    \* bound: the most it sends in one, retries apart
          FifoDepth,   \* the FIFO's, in beats
          MaxOrders    \* bound: orders the card sends

(* A frame fits the FIFO (64 beats) and a record (32 beats).  The reader   *)
(* takes sequence numbers as they are.                                     *)
ASSUME RoomAssumption   == FifoDepth \in Nat /\ FifoDepth >= 2 /\ RecordBeats >= 2
ASSUME StreamAssumption == Irs + 4 * NReplies <= SeqSpace

VARIABLES
  line,      \* the beat that is still to come of the frame that is arriving
  sess,      \* the FIFO
  dropped,   \* sp_drop # 0
  orders,    \* order beats offered to the arbiter
  sent       \* the order frames so far

sessionVars == <<rxVars, arbVars, captureVars, line, sess, dropped, orders, sent>>

(* ---- the venue ----                                                     *)
(* A byte on its way is its place in what the venue wrote, or 0.           *)
VenueStream == FlattenSeq([i \in 1..NReplies |-> Frames(0)[i].payload])
Fin == Len(VenueStream)     \* FIN follows the last byte
Byte ==
    [k \in 0..Fin |-> IF k = 0 THEN [pkt |-> Garbled, at |-> 0] ELSE VenueStream[k]]

Host == INSTANCE DumpSession
End  == Fin + 1

(* No two places of the stream have one number: FIN is not taken for the   *)
(* first byte.                                                             *)
ASSUME CutsAssumption == Cuts \subseteq 0..End /\ Fin < SeqSpace

SeqAt(k)  == (Irs + k) % SeqSpace
Offset(s) == SeqDelta(s, Irs)

Places(a, b) == [i \in 1..(b - a) |-> a + i]

Segment(a, b) ==
    [tcp_frame(SeqAt(a), Places(a, IF b = End THEN Fin ELSE b)) EXCEPT !.fin = (b = End)]

(* An acknowledgement, no payload: it takes no sequence number.            *)
Ack == tcp_frame(SeqAt(End), <<>>)

(* Somebody else's segment for the same address.                           *)
Stranger == [tcp_frame(SeqAt(0), <<0, 0, 0, 0>>) EXCEPT !.conn = "other"]

FrameBeats(f) ==
    <<[frame |-> f, first |-> TRUE, last |-> FALSE],
      [frame |-> f, first |-> FALSE, last |-> TRUE]>>

(* What a queue of beats offers.                                           *)
Offered(beats) == IF beats = <<>> THEN <<>> ELSE <<Head(beats)>>

(* ---- the core clock ----                                                *)
CoreTick(beat, load) ==
    LET m == Passed(beat, load) IN
    /\ RxTick(beat, load)
    /\ sess' = IF Len(sess) < FifoDepth THEN sess \o m ELSE sess
    /\ dropped' = (dropped \/ (m # <<>> /\ Len(sess) >= FifoDepth))
    /\ UNCHANGED <<arbVars, captureVars, orders, sent>>

(* Replies are microseconds apart: one starts when the FIFO has passed the *)
(* last one on, or never will, the area being full.                        *)
Starts(f) ==
    /\ line = <<>> /\ (sess = <<>> \/ full)
    /\ line' = Tail(FrameBeats(f))
    /\ CoreTick(Offered(FrameBeats(f)), FALSE)

VenueSends ==
    \/ \E a, b \in Cuts : a < b /\ b - a <= MaxPiece /\ Starts(Segment(a, b))
    \/ Starts(Ack) \/ Starts(Stranger)

(* All of it: the card has acknowledged nothing that was heard.            *)
VenueRetries == Starts(Segment(0, End))

GoesOn == line # <<>> /\ line' = <<>> /\ CoreTick(line, FALSE)

(* The connection is handed over once, and no frame starts in that cycle:  *)
(* it would be compared with the number before.                            *)
HandOver == ~configured /\ line' = <<>> /\ CoreTick(line, TRUE)

CardOrders ==
    /\ configured /\ Len(sent) < MaxOrders
    /\ LET f == [dst |-> "venue", n |-> Len(sent)] IN
         sent' = Append(sent, f) /\ orders' = orders \o FrameBeats(f)
    /\ UNCHANGED <<rxVars, arbVars, captureVars, line, sess, dropped>>

(* ---- the shell's clock ----                                             *)
Left(beats, i) ==
    IF Granted(i, Offered(orders), Offered(sess), CaptureReady) THEN Tail(beats) ELSE beats

ShellTick(answered) ==
    /\ ArbTick(Offered(orders), Offered(sess), CaptureReady)
    /\ CaptureTick(Arbitrated(Offered(orders), Offered(sess)), answered)
    /\ orders' = Left(orders, 0) /\ sess' = Left(sess, 1)
    /\ UNCHANGED <<rxVars, line, dropped, sent>>

SessionInit ==
    /\ RxInit /\ ArbInit /\ CaptureInit
    /\ line = <<>> /\ sess = <<>> /\ dropped = FALSE
    /\ orders = <<>> /\ sent = <<>>

SessionNext ==
    \/ VenueSends \/ VenueRetries \/ GoesOn \/ HandOver \/ CardOrders
    \/ \E answered \in BOOLEAN : ShellTick(answered)

(* The clocks run, memory answers, software hands the connection over, and *)
(* a venue that goes on sending again gets through.                        *)
SessionFairness ==
    /\ WF_sessionVars(GoesOn) /\ WF_sessionVars(HandOver)
    /\ WF_sessionVars(ShellTick(TRUE)) /\ SF_sessionVars(VenueRetries)

SessionSpec == SessionInit /\ [][SessionNext]_sessionVars /\ SessionFairness
-----------------------------------------------------------------------------
(* ---- what is where ----                                                 *)
Carries(f, k) == f.dst = "card" /\ f.conn = "session" /\ k \in Range(f.payload)

InMemory == {Head(records[i]).frame : i \in 1..Len(records)}
OnItsWay == {beat.frame : beat \in Range(fbuf \o q \o sess)}

Captured(k) == \E f \in InMemory : Carries(f, k)

(* What the card acknowledges is in memory or on its way there, as long as *)
(* the FIFO has dropped nothing: the venue will not send it again          *)
(* (dump_session.py: the capture is "a record of what arrived").           *)
AckedIsKept ==
    configured /\ ~dropped =>
      \A k \in 1..Fin : k <= Offset(rcvNxt) => \E f \in InMemory \cup OnItsWay : Carries(f, k)

(* The host's decoder prints the golden up to where the stream has come,   *)
(* whatever arrived out of order, twice or in other pieces; what is        *)
(* missing it reports, exactly.  The stream's first byte is there, and the *)
(* numbers do not wrap before FIN (dump_session.py: "a genuine hole is     *)
(* reported rather than papered over").                                    *)
Highest == Max({k \in 1..Fin : Captured(k)})

HolesOf(dump) ==
    UNION {(dump.holes[i][1] - Irs + 1)..(dump.holes[i][2] - Irs) :
              i \in 1..Len(dump.holes)}

DumpIsGolden ==
    ~dropped /\ Captured(1) =>
      LET dump  == Host!Dump(records)
          whole == {i \in 0..NReplies : Len(Stream(SubSeq(Replies, 1, i))) <= Highest}
      IN  /\ HolesOf(dump) = {k \in 1..Highest : ~Captured(k)}
          /\ dump.holes = <<>> =>
               /\ dump.lines = SubSeq(Golden, 1, Max(whole))
               /\ dump.ok <=> Highest = Len(Stream(SubSeq(Replies, 1, Max(whole))))

(* The orders in memory are the orders sent, in their order, and nothing   *)
(* is in a record but one whole frame, whatever came between (Makefile,    *)
(* test-session: "order frames unchanged by inbound session traffic").     *)
OrdersUnchanged ==
    /\ IsPrefix(Host!Printed(records), sent)
    /\ \A i \in 1..Len(records) : records[i] = FrameBeats(Head(records[i]).frame)

(* Everything the venue has is taken in the end, FIN too (tcp_rx.sv: "the  *)
(* connection would wedge").                                               *)
AllReceived == <>(rcvNxt = SeqAt(End) /\ seenFin)
=============================================================================
