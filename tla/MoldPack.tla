------------------------------ MODULE MoldPack ------------------------------
(***************************************************************************)
(* The MoldUDP64 streams the feed is tested with, one step per packet:     *)
(* gen_itch.py --mold, whose plan may lose, repeat and pause, and          *)
(* itch2mold.py, which wraps a recorded stream in packets of a cycled      *)
(* size.  The receivers in both files that check what was written are      *)
(* here too.                                                               *)
(*                                                                         *)
(* Message n of the stream is the number n, so a packet is [seq, count],   *)
(* its messages fill it, and the receivers' assertions on its bytes hold.  *)
(***************************************************************************)
EXTENDS Integers, Sequences

CONSTANTS NMsgs,       \* messages of the stream
          PKT_PATTERN, \* messages per packet, cycled
          HB_EVERY,
          EOS_COUNT    \* 0xFFFF: no number of messages

ASSUME PackAssumption ==
    /\ NMsgs \in Nat /\ EOS_COUNT \in Nat /\ EOS_COUNT > NMsgs
    /\ PKT_PATTERN \in Seq(Nat \ {0}) /\ PKT_PATTERN # <<>> /\ HB_EVERY \in Nat \ {0}

VARIABLES
  writer,    \* which of the two writes this stream
  seq,       \* the next sequence number; the next message is the same number
  last_data, \* the last data packet of mold_pack, or none
  pi,        \* packets flushed by itch2mold: data_pkts and the pattern index
  hbDue,     \* itch2mold has a heartbeat to write
  packets,   \* what has been written
  ended

packVars == <<writer, seq, last_data, pi, hbDue, packets, ended>>

packet(s, count) == [seq |-> s, count |-> count]
IsData(p) == p.count \notin {0, EOS_COUNT}

Write(p) == packets' = Append(packets, p)

PackInit ==
    /\ writer \in {"mold_pack", "itch2mold"}
    /\ seq = 1 /\ last_data = <<>> /\ pi = 0 /\ hbDue = FALSE
    /\ packets = <<>> /\ ended = FALSE

(* ---- mold_pack: the kinds of its plan ----                              *)
Plan == writer = "mold_pack" /\ ~ended /\ UNCHANGED <<writer, pi, hbDue>>

PlanData(n) ==
    /\ Plan /\ seq + n - 1 <= NMsgs
    /\ Write(packet(seq, n)) /\ last_data' = <<packet(seq, n)>>
    /\ seq' = seq + n
    /\ UNCHANGED ended

PlanGap(n) ==       \* messages nobody will send
    /\ Plan /\ seq + n - 1 <= NMsgs
    /\ seq' = seq + n
    /\ UNCHANGED <<last_data, packets, ended>>

PlanDup == /\ Plan /\ last_data # <<>>
           /\ Write(Head(last_data)) /\ UNCHANGED <<seq, last_data, ended>>

PlanHb  == Plan /\ Write(packet(seq, 0)) /\ UNCHANGED <<seq, last_data, ended>>

PlanEos == /\ Plan /\ seq = NMsgs + 1
           /\ Write(packet(seq, EOS_COUNT)) /\ ended' = TRUE
           /\ UNCHANGED <<seq, last_data>>

(* ---- itch2mold ----                                                     *)
Wrap == writer = "itch2mold" /\ ~ended /\ UNCHANGED <<writer, last_data>>

Want == PKT_PATTERN[1 + (pi % Len(PKT_PATTERN))]
Left == NMsgs + 1 - seq

Flush ==            \* a heartbeat follows unless the messages have run out
    /\ Wrap /\ ~hbDue /\ Left > 0
    /\ LET n == IF Want <= Left THEN Want ELSE Left IN
         /\ Write(packet(seq, n))
         /\ seq' = seq + n
         /\ pi' = pi + 1
         /\ hbDue' = (Want <= Left /\ (pi + 1) % HB_EVERY = 0)
    /\ UNCHANGED ended

WrapHb  == /\ Wrap /\ hbDue /\ hbDue' = FALSE
           /\ Write(packet(seq, 0)) /\ UNCHANGED <<seq, pi, ended>>

WrapEos == /\ Wrap /\ ~hbDue /\ Left = 0
           /\ Write(packet(seq, EOS_COUNT)) /\ ended' = TRUE
           /\ UNCHANGED <<seq, pi, hbDue>>

PackNext ==
    \/ \E n \in 1..NMsgs : PlanData(n) \/ PlanGap(n)
    \/ PlanDup \/ PlanHb \/ PlanEos
    \/ Flush \/ WrapHb \/ WrapEos
-----------------------------------------------------------------------------
(* ---- mold_selfcheck: what a receiver makes of the packets; `lost' is    *)
(* the sum of the gaps.                                                    *)
Received == [expected |-> 1, got |-> 0, gaps |-> <<>>, lost |-> 0, dups |-> 0, eos |-> FALSE]

Skips(r, p) == p.seq > r.expected

(* Wrong on purpose: a gap is as long as what follows it.                  *)
NotedTooLong(r, p) ==
    IF Skips(r, p) THEN [r EXCEPT !.expected = p.seq,
                                  !.gaps = Append(@, <<r.expected, p.seq - r.expected>>),
                                  !.lost = @ + (p.seq + p.count - r.expected)]
    ELSE r

(* A gap is noted, and the expectation moves up to the packet.             *)
Noted(r, p) ==
    IF Skips(r, p) THEN [r EXCEPT !.expected = p.seq,
                                  !.gaps = Append(@, <<r.expected, p.seq - r.expected>>),
                                  !.lost = @ + (p.seq - r.expected)]
    ELSE r

Receive(r, p) ==
    IF r.eos THEN r
    ELSE IF p.count = EOS_COUNT THEN [r EXCEPT !.eos = TRUE]
    ELSE LET s == Noted(r, p) IN
         IF p.count = 0 THEN s
         ELSE IF p.seq < s.expected THEN [s EXCEPT !.dups = @ + 1]
         ELSE [s EXCEPT !.got = @ + p.count, !.expected = p.seq + p.count]

mold_selfcheck ==
    LET after[n \in 0..Len(packets)] ==
            IF n = 0 THEN Received ELSE Receive(after[n - 1], packets[n])
    IN  after[Len(packets)]

(* The verdict, without which mold_pack's stream does not become a file:   *)
(* assert got + lost == n_total.                                           *)
Accounted == mold_selfcheck.got + mold_selfcheck.lost = NMsgs

(* ---- selfcheck of itch2mold: nothing may be missing or repeated ----    *)
Strict == [expected |-> 1, got |-> 0, ok |-> TRUE, eos |-> FALSE]

ReceiveStrictly(r, p) ==
    IF r.eos THEN r
    ELSE IF p.count = EOS_COUNT THEN [r EXCEPT !.eos = TRUE]
    ELSE IF p.count = 0 THEN [r EXCEPT !.expected = IF p.seq > @ THEN p.seq ELSE @]
    ELSE [r EXCEPT !.ok = @ /\ p.seq = r.expected, !.got = @ + p.count,
                   !.expected = p.seq + p.count]

selfcheck ==
    LET after[n \in 0..Len(packets)] ==
            IF n = 0 THEN Strict ELSE ReceiveStrictly(after[n - 1], packets[n])
    IN  after[Len(packets)]
=============================================================================
