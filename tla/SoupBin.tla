------------------------------ MODULE SoupBin ------------------------------
(***************************************************************************)
(* SoupBinTCP framing (step7-host/host/soupbin.py): what a packet is on    *)
(* the byte stream, and the incremental de-framer.                         *)
(*                                                                         *)
(* A packet has a type and a payload of at most one unit, <<>> or <<body>>.*)
(* On the stream it is two length bytes, its type and its payload; each is *)
(* a unit that remembers its packet and its place in it, so that a reader  *)
(* that loses its place is told from one that does not.                    *)
(***************************************************************************)
EXTENDS Integers, Sequences, SequencesExt

LOGIN_REQUEST    == "L"
UNSEQUENCED_DATA == "U"
LOGOUT_REQUEST   == "O"
CLIENT_HEARTBEAT == "R"
LOGIN_ACCEPTED   == "A"
SEQUENCED_DATA   == "S"
SERVER_HEARTBEAT == "H"
END_OF_SESSION   == "Z"

Packet(ptype, payload) == [ptype |-> ptype, payload |-> payload]

login_request       == Packet(LOGIN_REQUEST, <<"credentials">>)
login_accepted(acct) == Packet(LOGIN_ACCEPTED, <<acct>>)
unsequenced(body)   == Packet(UNSEQUENCED_DATA, <<body>>)
sequenced(body)     == Packet(SEQUENCED_DATA, <<body>>)
bare(ptype)         == Packet(ptype, <<>>)

BodyLen(p) == 1 + Len(p.payload)

(* A packet's units on the stream, and those of several in a row.          *)
pack(p)     == [i \in 1..(2 + BodyLen(p)) |-> [pkt |-> p, at |-> i]]
Stream(ps)  == FlattenSeq([i \in 1..Len(ps) |-> pack(ps[i])])

(* ---- Reader: `buf' is what has been fed and not yet been taken. ----    *)
(* Two units that are no length field read as some other number.           *)
blen(buf) == IF buf[1].at = 1 /\ buf[2].at = 2 THEN BodyLen(buf[1].pkt) ELSE 0

(* The header not counted.                                                 *)
HasPacketShort(buf) == Len(buf) >= 2 /\ Len(buf) >= 1 + blen(buf)

HasPacket(buf) == Len(buf) >= 2 /\ Len(buf) >= 2 + blen(buf)

Garbled == bare("garbled")
Taken(buf) ==
    IF blen(buf) > 0 /\ Len(buf) > 2 /\ buf[3].at = 3 THEN buf[3].pkt ELSE Garbled
Remains(buf) == SubSeq(buf, 3 + blen(buf), Len(buf))
=============================================================================
