---------------------------- MODULE DumpSession ----------------------------
(***************************************************************************)
(* What the host makes of the capture area: pack_eth.py's unpack and       *)
(* classify for the orders, dump_session.py for the venue's replies.  A    *)
(* record is the beats that were written to it, and a byte is a name that  *)
(* Byte tells the meaning of.                                              *)
(***************************************************************************)
EXTENDS SoupBin

CONSTANT Byte   \* what a captured byte is

(* ---- pack_eth.py ----                                                   *)
(* The frame a record holds, read by the header in its first beat; a       *)
(* record that does not start with one is nobody's.                        *)
Other == [dst |-> "nobody"]
FrameOf(record) ==
    IF Head(record).first THEN Head(record).frame ELSE Other

unpack(records) == [i \in 1..Len(records) |-> FrameOf(records[i])]

classify(frame) ==
    CASE frame.dst = "card"  -> "reply"
      [] frame.dst = "venue" -> "tcp"
      [] OTHER               -> "other"

(* main's loop, frame by frame: the orders are printed.                    *)
OrderLine(frame) == IF classify(frame) = "tcp" THEN <<frame>> ELSE <<>>

Printed(records) == FlattenSeq([i \in 1..Len(records) |-> OrderLine(unpack(records)[i])])

(* ---- dump_session.py ----                                               *)
inbound_segments(frames) ==
    SelectSeq(frames, LAMBDA f : f.dst = "card" /\ f.payload # <<>>)

BySeq(segments) == SortSeq(segments, LAMBDA a, b : a.seq < b.seq)

(* The overlap not trimmed.                                                *)
AppendedWhole(acc, s) ==
    LET end == s.seq + Len(s.payload) IN
    IF end <= acc.nxt THEN acc
    ELSE [data  |-> acc.data \o s.payload,
          holes |-> IF s.seq > acc.nxt THEN Append(acc.holes, <<acc.nxt, s.seq>>)
                    ELSE acc.holes,
          nxt   |-> end]

(* One turn of the loop over the sorted segments.                          *)
Appended(acc, s) ==
    LET end  == s.seq + Len(s.payload)
        nxt  == IF s.seq > acc.nxt THEN s.seq ELSE acc.nxt
    IN  IF end <= acc.nxt THEN acc
        ELSE [data  |-> acc.data \o SubSeq(s.payload, nxt - s.seq + 1, Len(s.payload)),
              holes |-> IF s.seq > acc.nxt THEN Append(acc.holes, <<acc.nxt, s.seq>>)
                        ELSE acc.holes,
              nxt   |-> end]

reassemble(segments) ==
    IF segments = <<>> THEN [data |-> <<>>, holes |-> <<>>, nxt |-> 0]
    ELSE LET sorted == BySeq(segments) IN
         FoldLeft(LAMBDA acc, s : Appended(acc, s),
                  [data |-> <<>>, holes |-> <<>>, nxt |-> sorted[1].seq], sorted)

(* The reader's packets, and what is left in it; it holds no more packets  *)
(* than units.                                                             *)
ReadOne(rd) ==
    IF HasPacket(rd.buf)
    THEN [buf |-> Remains(rd.buf), packets |-> Append(rd.packets, Taken(rd.buf))]
    ELSE rd

Read(data) ==
    FoldLeft(LAMBDA rd, b : ReadOne(rd),
             [buf |-> [i \in 1..Len(data) |-> Byte[data[i]]], packets |-> <<>>], data)

describe(body) ==
    CASE body.msg = "A" -> [line |-> "A", token |-> body.token, is_buy |-> body.is_buy,
                            shares |-> body.shares, ref |-> body.ref]
      [] body.msg = "E" -> [line |-> "E", token |-> body.token, shares |-> body.shares]
      [] body.msg = "J" -> [line |-> "J", token |-> body.token]
      [] OTHER          -> [line |-> "?", body |-> body]

Lines(p) ==
    CASE p.ptype = SEQUENCED_DATA   -> <<describe(Head(p.payload))>>
      [] p.ptype = SERVER_HEARTBEAT -> <<>>
      [] OTHER                      -> <<[line |-> "soup", ptype |-> p.ptype]>>

(* What main prints, what it says of the stream and whether it succeeds.   *)
Dump(records) ==
    LET stream == reassemble(inbound_segments(unpack(records)))
        rd     == Read(stream.data)
    IN  [lines    |-> FlattenSeq([i \in 1..Len(rd.packets) |-> Lines(rd.packets[i])]),
         holes    |-> stream.holes,
         leftover |-> Len(rd.buf),
         ok       |-> stream.holes = <<>> /\ rd.buf = <<>>]
=============================================================================
