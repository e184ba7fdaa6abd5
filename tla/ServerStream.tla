---------------------------- MODULE ServerStream ----------------------------
(***************************************************************************)
(* A server connection in stream mode: server_stream_connection and the    *)
(* functions it awaits.  Each await is a value of srv.pc; each arm of a    *)
(* select is an action.                                                    *)
(***************************************************************************)
EXTENDS ZhttpLink

CONSTANT ReqBodies     \* request body sizes; a request may also have no body

VARIABLES
  srv,     \* the connection
  browser  \* its HTTP client: body bytes not yet read, body size, gone

srvVars == <<srv, browser>>

SrvPc == {"idle", "ask", "first", "recv_body", "await", "hdr", "send_body",
          "room", "paused", "send_error", "closing", "ended"}

\* The phases before the response is started: on an error of these phases
\* the connection still answers with an error response.
Respond == {"idle", "ask", "first", "recv_body", "await"}

\* server_stream_connection: a connection before its first request.
NewServerConn ==
  [pc |-> "idle", ret |-> "idle", err |-> "none", id |-> 1, next |-> NoPacket,
   credits |-> 0, addr |-> FALSE, body |-> FALSE,
   need |-> FALSE, rbuf |-> 0, used |-> 0, cap |-> BufSize, end |-> FALSE,
   done |-> FALSE, outCredits |-> 0, written |-> 0, whole |-> FALSE,
   failed |-> FALSE]

\* What is left of a connection that returned: the buffers are dropped.
EndedServerConn(s, e) ==
  [NewServerConn EXCEPT !.pc = "ended", !.err = e, !.id = s.id, !.whole = s.whole,
                        !.written = s.written, !.failed = s.failed]

SrvInit ==
  /\ srv = NewServerConn
  /\ browser = [left |-> 0, size |-> 0, gone |-> FALSE]

\* ZhttpStreamSessionOut::try_send_msg.
TrySendMsg(s, p) ==
  toCli' = [toCli EXCEPT ![s.id] = Append(@, Stamp(p, s.id))]

\* Packets are routed to the id the connection has now (get_new_assigned_cid).
AssignCid == relay' = [relay EXCEPT !.current = srv'.id]

\* The packet's sequence number is not the expected one.
OutOfSeq(id) == <<"srv", id>> \in relay.lost

\* ZhttpStreamSessionIn::peek_msg: the session after it has read p.
PeekMsg(s, p) ==
  IF p.id # s.id THEN s
  ELSE [s EXCEPT !.addr = TRUE, !.credits = @ + p.cr, !.next = p]

\* The end of server_stream_connection_inner after an error: a cancel goes to
\* the peer, unless the peer caused the error or its address is not known.
\* It is a best effort: a full channel loses it.
FinishError(s, e) ==
  /\ srv' = EndedServerConn(s, e)
  /\ IF e \notin HandlerCaused \cup Silent /\ s.addr /\ SrvRoom(s.id)
       THEN TrySendMsg(s, Plain("cancel"))
       ELSE UNCHANGED toCli

\* server_stream_handler on an error of server_stream_respond: the error
\* response first; later errors end the connection at once.
Fail(s, e) ==
  IF (IF s.pc \in {"room", "paused"} THEN s.ret ELSE s.pc) \in Respond
  THEN /\ srv' = [s EXCEPT !.pc = "send_error", !.err = e,
                              !.failed = e # "BadMessage"]
       /\ UNCHANGED toCli
  ELSE FinishError(s, e)

\* server_stream_read_header: the next request is parsed, its first ZHTTP
\* packet made.  A body of size 0 is a Content-Length of 0.
ReadHeader ==
  /\ srv.pc = "idle" /\ ~browser.gone
  /\ \E n \in ReqBodies, has \in BOOLEAN :
       /\ has \/ n = 0
       /\ browser' = [browser EXCEPT !.left = n, !.size = n]
       /\ srv' = [srv EXCEPT !.pc = "ask", !.body = has]
  /\ UNCHANGED linkVars

\* The client went away before a request: Ok(None), the connection closes.
ReadNoRequest ==
  /\ srv.pc = "idle" /\ browser.gone
  /\ srv' = [srv EXCEPT !.pc = "closing"]
  /\ UNCHANGED <<browser, linkVars>>

\* discard_while: any packet that arrives while the connection waits for
\* something else is unexpected, whatever its id.
DiscardWhile ==
  /\ srv.pc \in {"idle", "ask", "room", "send_error", "closing"} /\ toSrv # <<>>
  /\ toSrv' = Tail(toSrv)
  /\ IF srv.pc \in {"send_error", "closing"} THEN FinishError(srv, "BadMessage")
     ELSE Fail(srv, "BadMessage")
  /\ UNCHANGED <<browser, relay>>

\* send_msg of the request, with recv_buf_size credits for the response.
SendRequest ==
  /\ srv.pc = "ask"
  /\ toCli' = [toCli EXCEPT ![srv.id] =
                 <<Stamp(Data(0, srv.body /\ browser.left > 0, BufSize), srv.id)>>]
  /\ srv' = [srv EXCEPT !.pc = "first", !.credits = 0, !.next = NoPacket]
  /\ UNCHANGED <<browser, toSrv, relay>>

\* A packet with an unexpected sequence number ends the session.
ReceiveBadSeq ==
  /\ srv.pc \in {"first", "recv_body", "await", "hdr", "send_body", "paused"}
  /\ srv.next = NoPacket /\ toSrv # <<>>
  /\ Head(toSrv).id = srv.id /\ OutOfSeq(srv.id)
  /\ toSrv' = Tail(toSrv)
  /\ Fail(srv, "BadMessage")
  /\ UNCHANGED <<browser, relay>>

\* Any packet gives the connection the address of its handler.
PeekFirst ==
  /\ srv.pc \in {"first", "paused"} /\ toSrv # <<>>
  /\ LET p == Head(toSrv)
         s == PeekMsg(srv, p)
     IN /\ p.id = srv.id => ~OutOfSeq(srv.id)
        /\ srv' = IF p.id # srv.id THEN s
                  ELSE IF s.pc = "paused" THEN [s EXCEPT !.pc = s.ret, !.ret = "idle"]
                  ELSE [s EXCEPT !.pc = IF s.body THEN "recv_body" ELSE "await"]
  /\ toSrv' = Tail(toSrv)
  /\ UNCHANGED <<browser, toCli, relay>>

\* stream_recv_body, the channel has room: what the credits allow of the body
\* goes to the handler.  The end of a body of unknown size can be seen only
\* with the next read.
StreamRecvBodySend ==
  /\ srv.pc = "recv_body" /\ srv.credits > 0 /\ ~srv.need /\ SrvRoom(srv.id)
  /\ LET n == Min(srv.rbuf, Min(TmpSize, srv.credits))
         last == browser.left = 0 /\ n = srv.rbuf
     IN IF n = 0 /\ ~last
        THEN /\ srv' = [srv EXCEPT !.need = TRUE]
             /\ UNCHANGED toCli
        ELSE \E done \in IF last THEN (IF n = 0 THEN {TRUE} ELSE BOOLEAN) ELSE {FALSE} :
               /\ TrySendMsg(srv, Data(n, ~done, 0))
               /\ srv' = [srv EXCEPT !.credits = @ - n, !.rbuf = @ - n,
                                           !.body = ~done,
                                           !.pc = IF done THEN "await" ELSE @]
  /\ UNCHANGED <<browser, toSrv, relay>>

\* stream_recv_body, add_to_buffer.
StreamRecvBodyRead ==
  /\ srv.pc = "recv_body" /\ srv.need
  /\ \/ /\ browser.left > 0 /\ srv.rbuf < BufSize
        /\ \E k \in 1 .. Min(browser.left, BufSize - srv.rbuf) :
             /\ browser' = [browser EXCEPT !.left = @ - k]
             /\ srv' = [srv EXCEPT !.rbuf = @ + k, !.need = FALSE]
        /\ UNCHANGED toCli
     \/ /\ browser.gone
        /\ Fail(srv, "Io")
        /\ UNCHANGED browser
  /\ UNCHANGED <<toSrv, relay>>

\* The next packet of the session, peeked at already or read now.
Incoming == IF srv.next # NoPacket THEN srv.next ELSE Head(toSrv)

TakeMsg(Handle(_, _)) ==
  /\ srv.next # NoPacket \/ toSrv # <<>>
  /\ LET p == Incoming
         s == IF srv.next # NoPacket THEN srv ELSE PeekMsg(srv, p)
     IN /\ p.id = srv.id => srv.next # NoPacket \/ ~OutOfSeq(srv.id)
        /\ toSrv' = IF srv.next # NoPacket THEN toSrv ELSE Tail(toSrv)
        /\ IF p.id # srv.id
           THEN UNCHANGED <<srv, toCli>>
           ELSE Handle([s EXCEPT !.next = NoPacket], p)
  /\ AssignCid
  /\ UNCHANGED browser

\* handle_other, with accept_handoff started.
Other(s, p) ==
  CASE HandleOther(p) = "ok" -> srv' = s /\ UNCHANGED toCli
    [] HandleOther(p) = "handoff" ->
         srv' = [s EXCEPT !.ret = s.pc, !.pc = "room"] /\ UNCHANGED toCli
    [] OTHER -> Fail(s, HandleOther(p))

\* stream_recv_body, a packet: the response may start before the request body
\* ends; it is left for the next phase.
StreamRecvBodyMsg ==
  /\ srv.pc = "recv_body"
  /\ TakeMsg(LAMBDA s, p :
       IF p.t = "data"
       THEN srv' = [s EXCEPT !.next = p, !.pc = "await"] /\ UNCHANGED toCli
       ELSE Other(s, p))

\* accept_handoff: proceed once there is room; no keep-alives are sent until
\* the next packet tells the new address.
AcceptHandoff ==
  /\ srv.pc = "room" /\ SrvRoom(srv.id)
  /\ SendProceed
  /\ srv' = [srv EXCEPT !.pc = "paused", !.addr = FALSE]
  /\ UNCHANGED <<browser, toSrv, toCli>>

\* server_stream_respond: the response packet.
RespondMsg ==
  /\ srv.pc = "await"
  /\ TakeMsg(LAMBDA s, p :
       IF p.t = "data"
       THEN IF p.n > BufSize THEN Fail(s, "BufferExceeded")
            ELSE /\ srv' = [s EXCEPT !.pc = "hdr", !.used = p.n, !.end = ~p.more]
                 /\ UNCHANGED toCli
       ELSE Other(s, p))

\* prepare: the body bytes that fit in the write buffer; none after the end.
Prepare(s, p) ==
  IF s.end THEN FinishError(s, "FurtherInputNotAllowed")
  ELSE IF p.n > s.cap - s.used THEN FinishError(s, "BufferExceeded")
  ELSE LET t == [s EXCEPT !.used = @ + p.n, !.end = ~p.more]
           grow == ExpandBufferIfNeeded(t.used, t.cap)
       IN /\ srv' = IF s.pc = "hdr" THEN t
                    ELSE IF p.more THEN [t EXCEPT !.cap = @ + grow,
                                                  !.outCredits = @ + grow]
                    ELSE [t EXCEPT !.done = TRUE]
          /\ UNCHANGED toCli

\* server_stream_handler while the response header is sent.
SendHeaderMsg ==
  /\ srv.pc = "hdr"
  /\ TakeMsg(LAMBDA s, p : IF p.t = "data" THEN Prepare(s, p) ELSE Other(s, p))

SendHeader ==
  /\ srv.pc = "hdr"
  /\ IF browser.gone THEN FinishError(srv, "Io")
     ELSE srv' = [srv EXCEPT !.pc = "send_body"] /\ UNCHANGED toCli
  /\ UNCHANGED <<browser, toSrv, relay>>

\* buf2 and the shared data start over; a new id is assigned.
NewRequest(s) ==
  [s EXCEPT !.id = @ + 1, !.used = 0, !.cap = BufSize, !.addr = FALSE,
            !.outCredits = 0, !.end = FALSE, !.done = FALSE, !.body = FALSE,
            !.need = FALSE, !.written = 0, !.whole = FALSE, !.next = NoPacket]

\* resp_body.send() wrote n bytes.  When that was all of the response, the
\* connection may be reused for the next request, unless the body of the last
\* one was not read to its end.
StreamSendBodyWrite(s, n, reuse) ==
  LET t == [s EXCEPT !.used = @ - n, !.written = @ + n]
  IN IF ~(t.end /\ t.used = 0) THEN [t EXCEPT !.outCredits = @ + n]
     ELSE IF reuse THEN NewRequest([t EXCEPT !.pc = "idle"])
     ELSE [t EXCEPT !.whole = TRUE, !.pc = "closing"]

MayReuse == IF srv.body \/ srv.id = SessionMax THEN {FALSE} ELSE BOOLEAN

\* The outcomes of a send() that finds the socket writable, can_send() first.
Sends(s) ==
  {StreamSendBodyWrite(s, n, reuse) :
     n \in (IF s.used = 0 THEN (IF s.end THEN {0} ELSE {}) ELSE 1 .. s.used),
     reuse \in MayReuse}

\* stream_send_body, the write side.
StreamSendBodySend ==
  /\ srv.pc = "send_body" /\ ~browser.gone
  /\ srv' \in Sends(srv)
  /\ AssignCid
  /\ UNCHANGED <<browser, toSrv, toCli>>

\* stream_send_body, credits for what was written, until all was prepared.
StreamSendBodyCredit ==
  /\ srv.pc = "send_body" /\ ~srv.done /\ srv.outCredits > 0 /\ SrvRoom(srv.id)
  /\ TrySendMsg(srv, Credit(srv.outCredits))
  /\ srv' = [srv EXCEPT !.outCredits = 0]
  /\ UNCHANGED <<browser, toSrv, relay>>

\* stream_send_body, a packet; a handoff first flushes what the socket takes.
StreamSendBodyMsg ==
  /\ srv.pc = "send_body"
  /\ TakeMsg(LAMBDA s, p :
       IF p.t = "data" THEN Prepare(s, p)
       ELSE IF p.t = "handoffStart"
       THEN /\ \E t \in {s} \cup Sends(s) :
                 srv' = IF t.pc # "send_body" THEN t
                        ELSE [t EXCEPT !.ret = t.pc, !.pc = "room"]
            /\ UNCHANGED toCli
       ELSE Other(s, p))

\* fill_recv_buffer and a failing write: the HTTP client is gone.
BrowserGone ==
  /\ srv.pc \in {"await", "send_body"} /\ browser.gone
  /\ Fail(srv, "Io")
  /\ UNCHANGED <<browser, toSrv, relay>>

\* send_error_response is over, or fails because the HTTP client is gone.
SendErrorResponse ==
  /\ srv.pc = "send_error"
  /\ FinishError(srv, IF browser.gone THEN "Io" ELSE srv.err)
  /\ UNCHANGED <<browser, toSrv, relay>>

\* stream.close() at the end of the connection.
CloseStream ==
  /\ srv.pc = "closing"
  /\ srv' = EndedServerConn(srv, srv.err)
  /\ UNCHANGED <<browser, linkVars>>

\* The other arms of the select around the handler.
SrvTimeout(e) ==
  /\ srv.pc \notin {"closing", "ended"}
  /\ e \in {"StreamTimeout", "SessionTimeout", "Stopped"}
  /\ FinishError(srv, e)
  /\ UNCHANGED <<browser, toSrv, relay>>

\* The HTTP client disconnects.
Disconnect ==
  /\ ~browser.gone /\ srv.pc # "ended"
  /\ browser' = [browser EXCEPT !.gone = TRUE]
  /\ UNCHANGED <<srv, linkVars>>

\* The steps the connection takes by itself.
SrvStep ==
  \/ ReadHeader \/ ReadNoRequest \/ DiscardWhile \/ SendRequest \/ ReceiveBadSeq
  \/ PeekFirst \/ StreamRecvBodySend \/ StreamRecvBodyRead \/ StreamRecvBodyMsg
  \/ AcceptHandoff \/ RespondMsg \/ SendHeaderMsg \/ SendHeader
  \/ StreamSendBodySend \/ StreamSendBodyCredit \/ StreamSendBodyMsg
  \/ BrowserGone \/ SendErrorResponse \/ CloseStream
=============================================================================
