------------------------------ MODULE MoldFeed ------------------------------
(***************************************************************************)
(* A written stream, cut in beats and offered to the splitter at any pace, *)
(* beside its golden.  The stream may repeat a packet, lose messages and   *)
(* pause, and ends once.  The splitter is offered it as it is written,     *)
(* also one that mold_selfcheck would keep from becoming a file: a feed    *)
(* may well lose its last packets.                                         *)
(***************************************************************************)
EXTENDS MoldPack, MoldSplitter, SequencesExt

CONSTANT MaxPackets

ASSUME StreamAssumption ==
    /\ Length \in [1..NMsgs -> Nat \ {0}] /\ EosCount = EOS_COUNT
    /\ MaxPackets \in Nat

VARIABLES
  wire,   \* bytes written and not accepted
  log     \* the lines the testbench would have logged

moldVars == <<packVars, splitterVars, wire, log>>

Golden == INSTANCE DumpMold

(* ---- a packet's bytes: a header, and its messages ----                  *)
Block(n) == [k \in 1..(PREFIX_B + Length[n]) |-> MessageUnit(n, k)]

LastMessages(p, m) ==
    LET last[j \in 0..m] ==
            IF j = 0 THEN <<>> ELSE Block(p.seq + p.count - j) \o last[j - 1]
    IN  last[m]

Bytes(p) == [k \in 1..HDR_B |-> HeaderUnit(p, k)] \o
            (IF IsData(p) THEN LastMessages(p, p.count) ELSE <<>>)

(* The bytes the step writes.                                              *)
Written == IF Len(packets') = Len(packets) THEN <<>> ELSE Bytes(packets'[Len(packets')])

(* The next beat: full, but for the last of a packet.                      *)
NextBeat == SubSeq(wire, 1, IF Len(wire) < BEATB THEN Len(wire) ELSE BEATB)

(* What the cycle puts on the log.                                         *)
Logged ==
    (IF ev'.gap THEN <<Golden!GAP(ev'.expected, ev'.seq)>> ELSE <<>>) \o
    (IF ev'.hb THEN <<Golden!HB(ev'.seq)>> ELSE <<>>) \o
    (IF ev'.eos THEN <<Golden!EOS(ev'.seq)>> ELSE <<>>) \o
    (IF m_msg' # <<>> THEN <<Golden!MSG(Head(m_msg'))>> ELSE <<>>)

MoldInit == PackInit /\ SplitterInit /\ wire = <<>> /\ log = <<>>

Stream ==
    /\ wire = <<>> /\ Len(packets) < MaxPackets
    /\ PackNext
    /\ wire' = Written
    /\ UNCHANGED <<splitterVars, log>>

SplitterCycle(offer) ==
    /\ LET beat == IF offer THEN NextBeat ELSE <<>> IN
         /\ SplitterTick(beat)
         /\ wire' = IF accept(beat) THEN SubSeq(wire, Len(beat) + 1, Len(wire)) ELSE wire
    /\ log' = log \o Logged
    /\ UNCHANGED packVars

MoldNext == Stream \/ \E offer \in BOOLEAN : SplitterCycle(offer)

MoldSpec == MoldInit /\ [][MoldNext]_moldVars
-----------------------------------------------------------------------------
Idle == wire = <<>> /\ win = <<>> /\ consume = 0

(* Line for line the splitter logs what the golden prints, for whatever    *)
(* pace the beats come at; and when nothing is under way, all of it        *)
(* (mold_splitter.sv: "control FSM (mirrors dump_mold.py's receiver        *)
(* model)").                                                               *)
LogIsGolden ==
    LET golden == Golden!Dump(packets) IN
    IF Idle THEN log = golden ELSE IsPrefix(log, golden)

(* The window never overflows, and never holds so much of an incomplete    *)
(* front that the beat which would complete it has no room ("there is      *)
(* always room to accept a beat and make progress; occupancy never exceeds *)
(* 128 bytes").                                                            *)
AlwaysRoom == vcnt <= WINB /\ (consume = 0 => Room)

LinesOf(kind) ==
    LET golden == Golden!Dump(packets)
        of[n \in 0..Len(golden)] ==
            IF n = 0 THEN <<>>
            ELSE IF golden[n].line = kind THEN Append(of[n - 1], golden[n]) ELSE of[n - 1]
    IN  of[Len(golden)]

(* The numbers the packets run up to; those of the end of the session say  *)
(* nothing.                                                                *)
Ends == {1} \cup {p.seq + p.count : p \in {q \in Range(packets) : q.count # EOS_COUNT}}

(* The writers' own receivers agree with the golden on what was delivered  *)
(* and what is missing; gen_itch.py accepts the stream it has written      *)
(* exactly if some packet, a heartbeat at the least, runs up to its end,   *)
(* so that every loss has shown as a gap, and refuses one that loses its   *)
(* last messages unnoticed; and itch2mold's stream is complete, nothing    *)
(* missing or repeated (gen_itch.py: "assert got + lost == n_total").      *)
ReceiversAgree ==
    /\ mold_selfcheck.got = Len(LinesOf("MSG"))
    /\ mold_selfcheck.gaps =
         [i \in 1..Len(LinesOf("GAP")) |->
             <<LinesOf("GAP")[i].expected, LinesOf("GAP")[i].seq - LinesOf("GAP")[i].expected>>]
    /\ writer = "mold_pack" /\ ended => (Accounted <=> NMsgs + 1 \in Ends)
    /\ writer = "itch2mold" =>
         /\ selfcheck.ok
         /\ ended => selfcheck.got = NMsgs /\ Len(LinesOf("MSG")) = NMsgs

(**************** the instance that is model-checked ***********************)

(* Messages of one and two units behind a prefix of two; a header of three *)
(* in beats of five.                                                       *)
MCPattern == <<1, 2>>
MCLength  == [n \in 1..5 |-> 1 + (n % 2)]
=============================================================================
