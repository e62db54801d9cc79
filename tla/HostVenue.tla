----------------------------- MODULE HostVenue -----------------------------
(***************************************************************************)
(* The host's sessions with the venue (step7-host/host/session.py) and the *)
(* two pulses they give the card (regmap.py, Device), over byte streams    *)
(* that arrive in pieces of any size, until every session has logged out,  *)
(* or the venue stops in the middle of anything.                           *)
(*                                                                         *)
(* Each session is one HostSession object, used once, from one thread:     *)
(* connect, then any order of send_order, send_ouch_payload and poll, then *)
(* logout.  poll is cut at its recv and at each packet, where the venue    *)
(* may come between.  The counters accepted, filled and rejected are       *)
(* lengths of parts of the log, and the log is downTaken.                  *)
(***************************************************************************)
EXTENDS MockExchange, FiniteSetsExt

CONSTANTS Role,        \* [Session -> {"fpga", "host"}]
          TokenPrefix, \* token_prefix of each session; "FPGA01" unless given
          Order,       \* what an order may ask for: [is_buy, shares]
          CardOrders,  \* the bodies the card built, of which some are injected
          MaxEvents    \* orders and heartbeats of all sessions together

ASSUME HostAssumption ==
    /\ Role \in [Session -> {"fpga", "host"}]
    /\ DOMAIN TokenPrefix = Session

VARIABLES
  host,      \* the session objects
  loads,     \* dev.load_pulsed
  order_acks \* dev.order_acks

vars == <<exchangeVars, host, loads, order_acks>>

NewSession ==
    [pc |-> "new", buf |-> <<>>, session |-> "none",
     token_seq |-> 0, inflight |-> 0, position |-> 0,
     pending |-> {}]    \* intents by token

(* What the session that belongs to s receives, in some number of bytes.   *)
Recv(s, pcWith, pcWithout) ==
    \E n \in Pieces(<<s, "down">>, down[s]) :
        /\ LET buf == host[s].buf \o SubSeq(down[s], 1, n) IN
             host' = [host EXCEPT ![s].buf = buf,
                                  ![s].pc = IF HasPacket(buf) THEN pcWith ELSE pcWithout]
        /\ down' = [down EXCEPT ![s] = SubSeq(@, n + 1, Len(@))]
        /\ UNCHANGED <<up, upSent, downSent, upTaken, downTaken, backlog, conns,
                       thread, counters, stopped, loads, order_acks>>

(* ---- connect ----                                                       *)
Connect(s) ==
    /\ host[s].pc = "new" /\ ~stopped
    /\ backlog' = Append(backlog, s)
    /\ SendUp(s, login_request)
    /\ host' = [host EXCEPT ![s].pc = "login"]
    /\ UNCHANGED <<down, downSent, upTaken, downTaken, conns, thread, counters, stopped,
                   loads, order_acks>>

RecvLogin(s) == host[s].pc = "login" /\ ~HasPacket(host[s].buf) /\ Recv(s, "login", "login")

(* The first packet decides; what came with it stays in the buffer.  Only  *)
(* the card's session is handed over.                                      *)
TakeLogin(s) ==
    /\ host[s].pc = "login" /\ HasPacket(host[s].buf)
    /\ LET p == Taken(host[s].buf)
           accepted == p.ptype = LOGIN_ACCEPTED
       IN  /\ downTaken' = [downTaken EXCEPT ![s] = Append(@, p)]
           /\ host' = [host EXCEPT ![s].buf = Remains(@),
                                   ![s].session = IF accepted THEN Head(p.payload) ELSE @,
                                   ![s].pc = IF accepted THEN "ready" ELSE "failed"]
           /\ loads' = IF accepted /\ Role[s] = "fpga" THEN loads + 1 ELSE loads
    /\ UNCHANGED <<up, down, upSent, downSent, upTaken, backlog, conns, thread, counters,
                   stopped, order_acks>>

(* The venue went away before it answered.                                 *)
LoginFails(s) ==
    /\ host[s].pc = "login" /\ ~HasPacket(host[s].buf)
    /\ stopped /\ down[s] = <<>>
    /\ host' = [host EXCEPT ![s].pc = "failed"]
    /\ UNCHANGED <<exchangeVars, loads, order_acks>>

(* ---- sending; refused on the card's session ----                        *)
enter_order(token, o) == [token |-> token, is_buy |-> o.is_buy, shares |-> o.shares]

(* pending[token] = intent: a second order under the same token takes the  *)
(* place of the first.                                                     *)
RememberLast(pending, o) == {o}
Remember(pending, o) == {q \in pending : q.token # o.token} \cup {o}

SendBody(s, body) ==
    /\ host[s].pc = "ready" /\ Role[s] = "host"
    /\ SendUp(s, unsequenced(body))
    /\ UNCHANGED <<down, downSent, upTaken, downTaken, backlog, conns, thread, counters,
                   stopped, loads, order_acks>>

send_order(s) ==
    \E o \in Order :
      LET body == enter_order(<<TokenPrefix[s], host[s].token_seq>>, o) IN
        /\ SendBody(s, body)
        /\ host' = [host EXCEPT ![s].token_seq = @ + 1, ![s].inflight = @ + 1,
                                ![s].pending = Remember(@, body)]

send_ouch_payload(s) ==
    \E body \in CardOrders :
        /\ SendBody(s, body)
        /\ host' = [host EXCEPT ![s].inflight = @ + 1, ![s].pending = Remember(@, body)]

(* ---- poll ----                                                          *)
PollRecv(s) == host[s].pc = "ready" /\ Recv(s, "packets", "ready")

Less(n) == IF n = 0 THEN 0 ELSE n - 1

(* A fill moves the position the way its order says; one that is not known *)
(* counts as a sell.                                                       *)
Bought(s, token) == \E q \in host[s].pending : q.token = token /\ q.is_buy
Signed(s, m)     == IF Bought(s, m.token) THEN m.shares ELSE -m.shares

(* A fill releases the slot as well.                                       *)
AnsweredTwice(s, m) ==
    [host[s] EXCEPT !.inflight = Less(@),
                    !.position = IF m.msg = "E" THEN @ + Signed(s, m) ELSE @]

Answered(s, m) ==
    IF m.msg \in {"A", "J"}
    THEN [host[s] EXCEPT !.inflight = Less(@)]
    ELSE [host[s] EXCEPT !.position = @ + Signed(s, m)]

IsAnswer(p) == p.ptype = SEQUENCED_DATA /\ Head(p.payload).msg \in {"A", "J"}

Handle(s, p) ==
    IF p.ptype = SEQUENCED_DATA THEN Answered(s, Head(p.payload)) ELSE host[s]

(* One turn of the loop over reader.packets().                             *)
PollPacket(s) ==
    /\ host[s].pc = "packets"
    /\ LET p   == Taken(host[s].buf)
           buf == Remains(host[s].buf)
       IN  /\ downTaken' = [downTaken EXCEPT ![s] = Append(@, p)]
           /\ host' = [host EXCEPT ![s] =
                 [Handle(s, p) EXCEPT !.buf = buf,
                                       !.pc = IF HasPacket(buf) THEN "packets" ELSE "ready"]]
           /\ order_acks' = IF IsAnswer(p) THEN order_acks + 1 ELSE order_acks
           /\ IF p.ptype = SERVER_HEARTBEAT THEN SendUp(s, bare(CLIENT_HEARTBEAT))
              ELSE UNCHANGED <<up, upSent>>
    /\ UNCHANGED <<down, downSent, upTaken, backlog, conns, thread, counters, stopped, loads>>

logout(s) ==
    /\ host[s].pc = "ready"
    /\ SendUp(s, bare(LOGOUT_REQUEST))
    /\ host' = [host EXCEPT ![s].pc = "closed"]
    /\ UNCHANGED <<down, downSent, upTaken, downTaken, backlog, conns, thread, counters,
                   stopped, loads, order_acks>>
-----------------------------------------------------------------------------
Init ==
    /\ ExchangeInit
    /\ host = [s \in Session |-> NewSession]
    /\ loads = 0 /\ order_acks = 0

OrdersIn(ps) == Len(SelectSeq(ps, LAMBDA p : p.ptype = UNSEQUENCED_DATA))

Heartbeats(ps) == Len(SelectSeq(ps, LAMBDA p : p.ptype = SERVER_HEARTBEAT))

InBounds ==
    MapThenSumSet(LAMBDA s : OrdersIn(upSent[s]) + Heartbeats(downSent[s]), Session) < MaxEvents

Send(s) == InBounds /\ (send_order(s) \/ send_ouch_payload(s))

(* The card writes into the stream of the session it was handed.           *)
CardSends(s) ==
    /\ InBounds
    /\ Role[s] = "fpga" /\ host[s].pc \in {"ready", "packets"}
    /\ \E o \in Order :
         SendUp(s, unsequenced(enter_order(<<TokenPrefix[s], OrdersIn(upSent[s])>>, o)))
    /\ UNCHANGED <<down, downSent, upTaken, downTaken, backlog, conns, thread, counters,
                   stopped, host, loads, order_acks>>

Login(s) == RecvLogin(s) \/ TakeLogin(s) \/ LoginFails(s)
Poll(s)  == PollRecv(s) \/ PollPacket(s)

Venue(c) == ServeConn(c) /\ UNCHANGED <<host, loads, order_acks>>

(* The sessions belong to one thread: a call is over before the next, of   *)
(* whichever session, begins.                                              *)
Turn(s) == \A t \in Session \ {s} : host[t].pc \notin {"login", "packets"}

Next ==
    \/ \E s \in Session :
         Turn(s) /\ (Connect(s) \/ Login(s) \/ Send(s) \/ Poll(s) \/ logout(s))
    \/ \E s \in Session : CardSends(s)
    \/ \E c \in Session : Venue(c)
    \/ \E c \in Session : InBounds /\ Heartbeat(c) /\ UNCHANGED <<host, loads, order_acks>>
    \/ (Serve \/ stop) /\ UNCHANGED <<host, loads, order_acks>>

(* The venue's threads run, and the host goes on polling until it logs out.*)
Fairness ==
    /\ WF_vars(Serve /\ UNCHANGED <<host, loads, order_acks>>)
    /\ \A s \in Session : WF_vars(Venue(s))
                            /\ WF_vars(Turn(s) /\ Login(s))
                            /\ WF_vars(Turn(s) /\ Poll(s))

Spec == Init /\ [][Next]_vars /\ Fairness
-----------------------------------------------------------------------------

(* Whatever the pieces, each end is handed exactly the packets the other   *)
(* wrote, and what is under way is the rest of them to the byte: a packet  *)
(* is never cut, joined to its neighbour or skipped (soupbin.py, Reader:   *)
(* "Yield (type_byte, payload) for every complete packet buffered").       *)
Whole(sent, taken, rest) ==
    /\ IsPrefix(taken, sent)
    /\ rest = Stream(SubSeq(sent, Len(taken) + 1, Len(sent)))

StreamsWhole ==
    \A s \in Session :
        /\ Whole(upSent[s], upTaken[s], thread[s].buf \o up[s])
        /\ Whole(downSent[s], downTaken[s], host[s].buf \o down[s])

(* ---- the host's own accounts (session.py: "maintaining the true         *)
(*      position") ----                                                    *)
OwnAccount == {s \in Session : Role[s] = "host"}

Rest(sent, taken) == SubSeq(sent, Len(taken) + 1, Len(sent))

AnswersIn(ps) == Len(SelectSeq(ps, IsAnswer))
IsFill(p)     == p.ptype = SEQUENCED_DATA /\ Head(p.payload).msg = "E"

(* Each in-flight slot stands for one order that is on its way, in the     *)
(* venue's hands, or answered by a packet on its way back: none leaks and  *)
(* none is released twice, even when the venue stops half way.             *)
InflightIsUnanswered ==
    \A s \in OwnAccount :
        host[s].inflight =
            OrdersIn(Rest(upSent[s], upTaken[s]))
          + (IF thread[s].pc \in {"order", "accept"} THEN 1 ELSE 0)
          + AnswersIn(Rest(downSent[s], downTaken[s]))

(* The orders of a session, as they were written; the venue answers them   *)
(* one after the other, so the k-th answer is the k-th order's, and a fill *)
(* is that of the order answered last.                                     *)
OrdersOf(s)  == SelectSeq(upSent[s], LAMBDA p : p.ptype = UNSEQUENCED_DATA)
FilledBy(s, i) ==
    Head(OrdersOf(s)[AnswersIn(SubSeq(downTaken[s], 1, i))].payload)

Fills(s) == {i \in DOMAIN downTaken[s] : IsFill(downTaken[s][i])}
SharesOf(s, i) == Head(downTaken[s][i].payload).shares

TruePosition(s) ==
    MapThenSumSet(LAMBDA i : IF FilledBy(s, i).is_buy THEN SharesOf(s, i) ELSE -SharesOf(s, i),
                  Fills(s))

(* Another order of the session has the token of the one filled.           *)
TokenShared(s, i) ==
    Cardinality({j \in DOMAIN OrdersOf(s) :
                   Head(OrdersOf(s)[j].payload).token = FilledBy(s, i).token}) > 1

(* The position is the sum of the fills taken in, each with the side of    *)
(* the order it filled; only a fill of an order that shares its token with *)
(* another may have been booked on the other's side, which an injected     *)
(* body of the card's brings about: send_order mints under the same prefix *)
(* unless it is given another, and pending keeps one order for a token     *)
(* (session.py: "the TRUE position, from fills").                          *)
PositionIsFills ==
    \A s \in OwnAccount :
        LET doubt == MapThenSumSet(LAMBDA i : 2 * SharesOf(s, i),
                                   {i \in Fills(s) : TokenShared(s, i)})
        IN  host[s].position - TruePosition(s) \in -doubt..doubt

(* Unless the venue stops or the session logs out, every order sent comes  *)
(* to be answered and the session's in-flight count returns to zero.       *)
AllAnswered ==
    \A s \in Session :
        host[s].inflight > 0 ~> (host[s].inflight = 0 \/ stopped \/ host[s].pc = "closed")

(**************** the instance that is model-checked ***********************)

(* The card's session and the host's own.                                  *)
MCRole == [f |-> "fpga", h |-> "host"]
MCPrefix  == [f |-> "FPGA01", h |-> "FPGA01"]
MCAccount == <<"SESS01", "SESS02", "SESS03", "SESS04">>
MCOrder == {[is_buy |-> TRUE, shares |-> 1]}
MCCardOrders == {[token |-> <<"FPGA01", 0>>, is_buy |-> FALSE, shares |-> 2]}
MCSplit == {<<"h", "down">>}
=============================================================================
