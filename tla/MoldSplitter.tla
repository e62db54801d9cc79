---------------------------- MODULE MoldSplitter ----------------------------
(***************************************************************************)
(* The realigning splitter (step3b-splitter/rtl/mold_splitter.sv), one     *)
(* step per core clock: a window of two beats, a header or a message taken *)
(* off its front and a beat put on its end in the same cycle.              *)
(*                                                                         *)
(* A byte is a unit that knows what it belongs to: the header of packet    *)
(* hdr, or message msg, at a place counted from 1.  Read out of step, a    *)
(* header is that of a heartbeat 0 and a length is 0.                      *)
(***************************************************************************)
EXTENDS Integers, Sequences

CONSTANTS HDR_B,    \* units of a packet header (20)
          PREFIX_B, \* units of a length prefix (2)
          BEATB,    \* units of a beat (64)
          Length,   \* units of each message, [1..NMsgs -> Nat]
          EosCount, \* EOS_COUNT (0xFFFF)
          CntMod    \* the counters count modulo this (2^32)

WINB == 2 * BEATB

(* "An incomplete front implies vcnt <= 52 (< one beat)".                  *)
ASSUME SplitterAssumption ==
    /\ {HDR_B, PREFIX_B, BEATB, CntMod} \subseteq Nat \ {0}
    /\ HDR_B <= BEATB /\ PREFIX_B <= BEATB
    /\ \A n \in DOMAIN Length : Length[n] > 0 /\ PREFIX_B + Length[n] <= BEATB

VARIABLES
  state, win, msgs_left, expected_seq,
  m_msg,                        \* the message put out, 0 one that is none, or none
  ev,                           \* ev_gap, ev_hb, ev_eos with ev_seq, ev_expected
  gap_total, dup_cnt, frame_err_cnt

splitterVars == <<state, win, msgs_left, expected_seq, m_msg, ev, gap_total, dup_cnt, frame_err_cnt>>

vcnt == Len(win)

(* ---- the front of the window ----                                       *)
HeaderUnit(p, k)  == [hdr |-> <<p>>, msg |-> 0, at |-> k]
MessageUnit(n, k) == [hdr |-> <<>>, msg |-> n, at |-> k]

Header == IF win[1].at = 1 /\ win[1].hdr # <<>> THEN Head(win[1].hdr)
          ELSE [seq |-> 0, count |-> 0]

MsgLen == IF win[1].at = 1 /\ win[1].msg # 0 THEN Length[win[1].msg] ELSE 0
mlen2  == PREFIX_B + MsgLen

hdr_ready == vcnt >= HDR_B
msg_ready == vcnt >= PREFIX_B /\ vcnt >= mlen2

consume == IF state = "HDR" THEN (IF hdr_ready THEN HDR_B ELSE 0)
           ELSE IF msg_ready THEN mlen2 ELSE 0

emit_now == state = "EMIT" /\ msg_ready

(* The body, without its prefix: a message if it is all of one.            *)
Body == SubSeq(win, PREFIX_B + 1, mlen2)
Emitted ==
    LET n == win[1].msg IN
    IF n # 0 /\ Body = [k \in 1..Length[n] |-> MessageUnit(n, PREFIX_B + k)] THEN n ELSE 0

(* Wrong on purpose: room for a byte is taken for room for a beat.         *)
RoomForByte == vcnt - consume < WINB
Room == vcnt - consume + BEATB <= WINB

(* ---- the control state machine ----                                     *)
NoEvent == [gap |-> FALSE, hb |-> FALSE, eos |-> FALSE, seq |-> 0, expected |-> 0]
HeaderEvent(gap, hb, eos) ==
    [gap |-> gap, hb |-> hb, eos |-> eos, seq |-> Header.seq, expected |-> expected_seq]

(* Wrong on purpose: a heartbeat does not move the expectation.            *)
AfterHbNothing(seq) == expected_seq
AfterHb(seq) == IF seq > expected_seq THEN seq ELSE expected_seq

IsDup(seq) == seq < expected_seq

TakesHeader ==
    LET h == Header
        gap == h.seq > expected_seq
    IN  /\ ev' = HeaderEvent(gap, h.count = 0, FALSE)
        /\ gap_total' = IF gap THEN (gap_total + h.seq - expected_seq) % CntMod ELSE gap_total
        /\ IF h.count = 0
           THEN /\ expected_seq' = AfterHb(h.seq)
                /\ UNCHANGED <<state, msgs_left, dup_cnt>>
           ELSE IF IsDup(h.seq)
           THEN /\ dup_cnt' = (dup_cnt + 1) % CntMod
                /\ msgs_left' = h.count /\ state' = "DROP"
                /\ UNCHANGED expected_seq
           ELSE /\ msgs_left' = h.count /\ state' = "EMIT"
                /\ expected_seq' = h.seq + h.count
                /\ UNCHANGED dup_cnt

StepHeader ==
    /\ state = "HDR" /\ hdr_ready
    /\ IF Header.count = EosCount
       THEN ev' = HeaderEvent(FALSE, FALSE, TRUE)
            /\ UNCHANGED <<state, msgs_left, expected_seq, gap_total, dup_cnt>>
       ELSE TakesHeader
    /\ UNCHANGED frame_err_cnt

(* A length of zero gives the packet up.                                   *)
StepMessage ==
    /\ state \in {"EMIT", "DROP"} /\ msg_ready
    /\ IF MsgLen = 0 \/ msgs_left = 1 THEN state' = "HDR" /\ UNCHANGED msgs_left
       ELSE msgs_left' = msgs_left - 1 /\ UNCHANGED state
    /\ frame_err_cnt' = IF state = "EMIT" /\ MsgLen = 0 THEN (frame_err_cnt + 1) % CntMod
                        ELSE frame_err_cnt
    /\ ev' = NoEvent
    /\ UNCHANGED <<expected_seq, gap_total, dup_cnt>>

StepNothing ==
    /\ consume = 0
    /\ ev' = NoEvent
    /\ UNCHANGED <<state, msgs_left, expected_seq, gap_total, dup_cnt, frame_err_cnt>>

(* `beat' is offered, or none is.                                          *)
accept(beat) == beat # <<>> /\ Room

SplitterTick(beat) ==
    /\ win' = SubSeq(win, consume + 1, vcnt) \o (IF accept(beat) THEN beat ELSE <<>>)
    /\ m_msg' = IF emit_now THEN <<Emitted>> ELSE <<>>
    /\ StepHeader \/ StepMessage \/ StepNothing

SplitterInit ==
    /\ state = "HDR" /\ win = <<>> /\ msgs_left = 0 /\ expected_seq = 1
    /\ m_msg = <<>> /\ ev = NoEvent
    /\ gap_total = 0 /\ dup_cnt = 0 /\ frame_err_cnt = 0
=============================================================================
