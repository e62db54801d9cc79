------------------------------- MODULE TcpRx -------------------------------
(***************************************************************************)
(* The receive half of the order session (step5-board/rtl/tcp_rx.sv), one  *)
(* action per core clock.  Bytes and headers are abstract: a frame says    *)
(* whose it is and, if it is a segment, its sequence number, its payload   *)
(* and whether it carries FIN.  The acknowledgement it carries, peer_ack,  *)
(* is TxReliability's; the counters, the window and RST change nothing     *)
(* here and are left out.                                                  *)
(***************************************************************************)
EXTENDS Integers, Sequences

CONSTANTS SeqSpace,   \* sequence numbers wrap (2^32)
          Irs         \* cfg_irs: the peer's first sequence number

ASSUME RxAssumption == SeqSpace \in Nat \ {0} /\ Irs \in 0..(SeqSpace - 1)

VARIABLES
  configured,   \* the 4-tuple has been written
  rcvNxt,       \* rcv_nxt
  seenFin,      \* seen_fin
  inFrame,      \* past the first beat of a frame
  accept        \* this frame is ours

rxVars == <<configured, rcvNxt, seenFin, inFrame, accept>>

(* $signed of a difference.                                                *)
SeqDelta(a, b) ==
    LET d == (a - b) % SeqSpace IN IF 2 * d < SeqSpace THEN d ELSE d - SeqSpace

seg_len(f)   == Len(f.payload) + IF f.fin THEN 1 ELSE 0
in_order(f)  == SeqDelta(f.seq, rcvNxt) = 0
ahead(f)     == SeqDelta(f.seq, rcvNxt) > 0

covers_never(f) == FALSE   \* a retransmission counts by where it starts
covers_next(f) ==
    SeqDelta(f.seq, rcvNxt) < 0 /\ SeqDelta(f.seq + seg_len(f), rcvNxt) > 0

accept_any(f) == seg_len(f) # 0 /\ (in_order(f) \/ ahead(f) \/ covers_next(f))
accept_seg(f) == seg_len(f) # 0 /\ (in_order(f) \/ covers_next(f))

(* Ours is a segment of the connection software has handed over.           *)
seg_ok(f, load) == f.conn = "session" /\ (configured \/ load)

(* What is passed on: every frame of the session, taken or not.            *)
Passed(beat, load) ==
    IF beat # <<>> /\ (IF inFrame THEN accept ELSE seg_ok(Head(beat).frame, load))
    THEN beat ELSE <<>>

RxInit == configured = FALSE /\ rcvNxt = 0 /\ seenFin = FALSE
          /\ inFrame = FALSE /\ accept = FALSE

(* A clock with cfg_load or without, and the beat it brings, if any.  What *)
(* the segment says wins over what is loaded.                              *)
RxTick(beat, load) ==
    LET first == beat # <<>> /\ ~inFrame
        f     == Head(beat).frame
        ours  == first /\ seg_ok(f, load)
    IN  /\ configured' = (configured \/ load)
        /\ rcvNxt' = IF ours /\ accept_seg(f) THEN (f.seq + seg_len(f)) % SeqSpace
                     ELSE IF load THEN Irs ELSE rcvNxt
        /\ seenFin' = IF ours /\ f.fin THEN TRUE ELSE IF load THEN FALSE ELSE seenFin
        /\ inFrame' = IF beat = <<>> THEN inFrame ELSE ~Head(beat).last
        /\ accept' = IF first THEN ours ELSE accept
-----------------------------------------------------------------------------
(***************************************************************************)
(* Where the frames passed on end up: records of device memory             *)
(* (step8-hw/rtl/eth_capture.sv).  A frame is put together behind one      *)
(* register stage, then written out while nothing is taken; how long the   *)
(* memory needs is open.  The burst, beat by beat, is one step (C_ADDR to  *)
(* C_RESP), and the counters are left out.                                 *)
(***************************************************************************)
CONSTANTS CfgRecords,    \* cfg_records, the capacity of the area
          RecordBeats    \* the beats a record has room for

ASSUME CaptureAssumption == CfgRecords \in Nat /\ RecordBeats \in Nat \ {0}

VARIABLES
  cst,       \* "C_ACC" or "C_DRAIN"
  q,         \* the registered beat: <<>> or <<beat>>
  fbuf,      \* the frame so far; rec_len and nbeats are its length
  records    \* what is in memory; rec_idx is its length

captureVars == <<cst, q, fbuf, records>>

full == Len(records) >= CfgRecords

LastIn(r) == r # <<>> /\ Head(r).last

CaptureReady == cst = "C_ACC" /\ ~full /\ ~LastIn(q)

CaptureInit == cst = "C_ACC" /\ q = <<>> /\ fbuf = <<>> /\ records = <<>>

(* A frame too long for a record loses what it has and goes on.            *)
Accumulate ==
    /\ fbuf' = IF Len(fbuf \o q) = RecordBeats /\ ~LastIn(q) THEN <<>> ELSE fbuf \o q
    /\ cst' = IF LastIn(q) THEN "C_DRAIN" ELSE "C_ACC"
    /\ UNCHANGED records

Drain(answered) ==
    IF answered
    THEN /\ records' = Append(records, fbuf) /\ fbuf' = <<>> /\ cst' = "C_ACC"
    ELSE UNCHANGED <<records, fbuf, cst>>

CaptureTick(beat, answered) ==
    /\ q' = IF CaptureReady THEN beat ELSE <<>>
    /\ IF cst = "C_ACC" THEN Accumulate ELSE Drain(answered)
=============================================================================
