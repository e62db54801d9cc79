---------------------------- MODULE MockExchange ----------------------------
(***************************************************************************)
(* The venue the host is run against (step7-host/host/mock_exchange.py):   *)
(* one accepting thread, one thread per connection, a lock around the      *)
(* counters and the list of orders received.  Each step below is one that  *)
(* other threads may come between.                                         *)
(*                                                                         *)
(* A connection is named by the session at its other end.  up[c] and       *)
(* down[c] are the two byte streams; upSent and downSent are the packets   *)
(* written to them so far, upTaken and downTaken those handed to the       *)
(* program at their other end.                                             *)
(***************************************************************************)
EXTENDS SoupBin, FiniteSets

CONSTANTS Session,
          Account,  \* _accounts, a sequence
          Fill,     \* fill: answer with an execution as well
          Split     \* streams, <<c, "up" or "down">>, that arrive in pieces; the
                    \* others arrive as far as they have been written

ASSUME ExchangeAssumption == Account # <<>> /\ Fill \in BOOLEAN /\ Split \subseteq Session \X {"up", "down"}

VARIABLES
  up, down, upSent, downSent, upTaken, downTaken,
  backlog,              \* connections made and not yet accepted
  conns,                \* n: connections accepted so far
  thread,               \* _serve_conn of each connection
  received,             \* the orders, in the order of arrival
  order_ref, match_ref,
  stopped               \* _stop

wires   == <<up, down, upSent, downSent, upTaken, downTaken>>
counters == <<received, order_ref, match_ref>>
exchangeVars == <<wires, backlog, conns, thread, counters, stopped>>

Thread(pc, account) ==
    [pc |-> pc, account |-> account, buf |-> <<>>, logged_in |-> FALSE, o |-> <<>>]
NoThread == Thread("none", "none")

(* What a peer writes.                                                     *)
SendDown(c, p) == /\ down' = [down EXCEPT ![c] = @ \o pack(p)]
                  /\ downSent' = [downSent EXCEPT ![c] = Append(@, p)]
SendUp(c, p)   == /\ up' = [up EXCEPT ![c] = @ \o pack(p)]
                  /\ upSent' = [upSent EXCEPT ![c] = Append(@, p)]

(* _serve(): accounts are handed out in the order of connection.             *)
Serve ==
    /\ ~stopped /\ backlog # <<>>
    /\ LET c == Head(backlog) IN
         thread' = [thread EXCEPT ![c] =
                       Thread("recv", Account[1 + (conns % Len(Account))])]
    /\ backlog' = Tail(backlog)
    /\ conns' = conns + 1
    /\ UNCHANGED <<wires, counters, stopped>>

(* How many bytes a recv returns.                                          *)
Pieces(end, pipe) == IF pipe = <<>> THEN {}
                   ELSE IF end \in Split THEN 1..Len(pipe) ELSE {Len(pipe)}

ServeRecv(c) ==
    /\ thread[c].pc = "recv" /\ ~stopped
    /\ \E n \in Pieces(<<c, "up">>, up[c]) :
         /\ LET buf == thread[c].buf \o SubSeq(up[c], 1, n) IN
              thread' = [thread EXCEPT ![c].buf = buf,
                                       ![c].pc = IF HasPacket(buf) THEN "packets" ELSE "recv"]
         /\ up' = [up EXCEPT ![c] = SubSeq(@, n + 1, Len(@))]
    /\ UNCHANGED <<down, upSent, downSent, upTaken, downTaken, backlog, conns, counters, stopped>>

(* One turn of the loop over reader.packets(); `next' is where the thread  *)
(* goes, unless it has more to read first.                                 *)
NextTurn(t, next) ==
    LET buf == Remains(t.buf)
    IN  [t EXCEPT !.buf = buf,
                  !.pc = IF next # "recv" THEN next
                         ELSE IF HasPacket(buf) THEN "packets" ELSE "recv"]

ServePacket(c) ==
    /\ thread[c].pc = "packets"
    /\ LET t == thread[c]
           p == Taken(t.buf)
       IN  /\ upTaken' = [upTaken EXCEPT ![c] = Append(@, p)]
           /\ \/ /\ p.ptype = LOGIN_REQUEST
                 /\ SendDown(c, login_accepted(t.account))
                 /\ thread' = [thread EXCEPT ![c] =
                                 [NextTurn(t, "recv") EXCEPT !.logged_in = TRUE]]
              \/ /\ p.ptype = LOGOUT_REQUEST
                 /\ SendDown(c, bare(END_OF_SESSION))
                 /\ thread' = [thread EXCEPT ![c] = NextTurn(t, "closed")]
              \/ /\ p.ptype = UNSEQUENCED_DATA /\ t.logged_in
                 /\ thread' = [thread EXCEPT ![c] =
                                 [NextTurn(t, "order") EXCEPT !.o = p.payload]]
                 /\ UNCHANGED <<down, downSent>>
              \/ /\ \/ p.ptype \notin {LOGIN_REQUEST, LOGOUT_REQUEST, UNSEQUENCED_DATA}
                    \/ p.ptype = UNSEQUENCED_DATA /\ ~t.logged_in
                 /\ thread' = [thread EXCEPT ![c] = NextTurn(t, "recv")]
                 /\ UNCHANGED <<down, downSent>>
    /\ UNCHANGED <<up, upSent, downTaken, backlog, conns, counters, stopped>>

(* _on_order: the order is entered under the lock ...                      *)
EnterOrder(c) ==
    /\ thread[c].pc = "order"
    /\ received' = Append(received, [o |-> Head(thread[c].o), account |-> thread[c].account])
    /\ order_ref' = order_ref + 1
    /\ thread' = [thread EXCEPT ![c].pc = "accept"]
    /\ UNCHANGED <<wires, backlog, conns, match_ref, stopped>>

ResumeToRecv(t) == [t EXCEPT !.pc = "recv", !.o = <<>>]
Resume(t) == [t EXCEPT !.pc = IF HasPacket(t.buf) THEN "packets" ELSE "recv", !.o = <<>>]

(* ... and accepted with the reference as it is by then, read without it.  *)
AcceptOrder(c) ==
    /\ thread[c].pc = "accept"
    /\ SendDown(c, sequenced([msg |-> "A", token |-> Head(thread[c].o).token, ref |-> order_ref]))
    /\ thread' = [thread EXCEPT ![c] = IF Fill THEN [@ EXCEPT !.pc = "match"] ELSE Resume(@)]
    /\ UNCHANGED <<up, upSent, upTaken, downTaken, backlog, conns, counters, stopped>>

(* A real venue may refuse the order; the stub never does.                 *)
RejectOrder(c) ==
    /\ thread[c].pc = "accept"
    /\ SendDown(c, sequenced([msg |-> "J", token |-> Head(thread[c].o).token, ref |-> 0]))
    /\ thread' = [thread EXCEPT ![c] = Resume(@)]
    /\ UNCHANGED <<up, upSent, upTaken, downTaken, backlog, conns, counters, stopped>>

MatchOrder(c) ==
    /\ thread[c].pc = "match"
    /\ match_ref' = match_ref + 1
    /\ thread' = [thread EXCEPT ![c].pc = "fill"]
    /\ UNCHANGED <<wires, backlog, conns, received, order_ref, stopped>>

FillOrder(c) ==
    /\ thread[c].pc = "fill"
    /\ SendDown(c, sequenced([msg |-> "E", token |-> Head(thread[c].o).token,
                              shares |-> Head(thread[c].o).shares, ref |-> match_ref]))
    /\ thread' = [thread EXCEPT ![c] = Resume(@)]
    /\ UNCHANGED <<up, upSent, upTaken, downTaken, backlog, conns, counters, stopped>>

(* A real venue sends heartbeats; the stub never does.                     *)
Heartbeat(c) ==
    /\ thread[c].pc \in {"recv", "packets"} /\ thread[c].logged_in
    /\ SendDown(c, bare(SERVER_HEARTBEAT))
    /\ UNCHANGED <<up, upSent, upTaken, downTaken, backlog, conns, thread, counters, stopped>>

(* stop(): no more connections, and each thread ends before its next recv. *)
stop ==
    /\ ~stopped
    /\ stopped' = TRUE
    /\ UNCHANGED <<wires, backlog, conns, thread, counters>>

ServeConn(c) == \/ ServeRecv(c) \/ ServePacket(c) \/ EnterOrder(c)
                \/ AcceptOrder(c) \/ RejectOrder(c) \/ MatchOrder(c) \/ FillOrder(c)

ExchangeInit ==
    /\ up = [c \in Session |-> <<>>] /\ down = up
    /\ upSent = up /\ downSent = up /\ upTaken = up /\ downTaken = up
    /\ backlog = <<>> /\ conns = 0 /\ thread = [c \in Session |-> NoThread]
    /\ received = <<>> /\ order_ref = 0 /\ match_ref = 0 /\ stopped = FALSE
=============================================================================
