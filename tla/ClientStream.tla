---------------------------- MODULE ClientStream ----------------------------
(***************************************************************************)
(* The client connections in stream mode: client_stream_connection and the *)
(* functions it awaits, one connection per ZHTTP session.                  *)
(***************************************************************************)
EXTENDS ZhttpLink

CONSTANTS
  RespBodies,    \* response body sizes
  RedirectsMax   \* REDIRECTS_MAX

VARIABLES
  cli,     \* per session, its client connection
  origin   \* per session, the HTTP server it talks to

cliVars == <<cli, origin>>

CliPc == {"none", "ack", "connect", "hdr", "initial", "send_body", "resp_hdr",
          "resp_room", "eat", "recv_body", "close", "room", "paused", "ended"}

\* The phases in which recv_msg is one arm of the select and every packet
\* goes to server_handle_other.
OnlyOther == {"connect", "hdr", "initial", "resp_hdr", "resp_room", "eat",
              "recv_body", "close"}

\* client_stream_connection: a connection before it takes its session.
NewClientConn ==
  [pc |-> "none", ret |-> "none", err |-> "none",
   credits |-> 0, addr |-> FALSE, more |-> FALSE, first |-> 0, over |-> 0,
   used |-> 0, cap |-> BufSize, end |-> FALSE, done |-> FALSE, outCredits |-> 0,
   rbuf |-> 0, need |-> FALSE, received |-> FALSE, redirects |-> 0,
   again |-> FALSE, early |-> FALSE, written |-> 0]

\* What is left of a connection that returned: the buffers are dropped.
EndedClientConn(c, e) ==
  [NewClientConn EXCEPT !.pc = "ended", !.err = e, !.early = c.early, !.received = c.received]

NewOrigin == [state |-> "reading", left |-> 0, redirect |-> FALSE, size |-> 0]

CliInit ==
  /\ cli = [i \in Sessions |-> NewClientConn]
  /\ origin = [i \in Sessions |-> NewOrigin]

\* ZhttpServerStreamSessionOut::try_send_msg.
CliTrySendMsg(i, p) ==
  toSrv' = IF i = relay.current THEN Append(toSrv, Stamp(p, i)) ELSE toSrv

Become(i, c) == cli' = [cli EXCEPT ![i] = c]

\* client_stream_connection_inner after an error: an error packet before the
\* response was passed on, a cancel after it.
CliFail(i, c, e) ==
  /\ Become(i, EndedClientConn(c, e))
  /\ IF e \notin HandlerCaused \cup Silent /\ c.addr /\ CliRoom
       THEN CliTrySendMsg(i, Plain(IF c.received THEN "cancel" ELSE "error"))
       ELSE UNCHANGED toSrv

\* A new session: client_stream_connect up to the ack.  The request may be
\* one that cannot be served (no valid URI or method).
ClientStreamConnect(i) ==
  /\ cli[i].pc = "none" /\ toCli[i] # <<>>
  /\ LET p == Head(toCli[i])
         c == [cli[i] EXCEPT !.addr = TRUE, !.credits = p.cr, !.more = p.more,
                             !.first = p.n]
     IN \/ /\ Become(i, [c EXCEPT !.pc = "ack"])
           /\ UNCHANGED toSrv
        \/ CliFail(i, c, "BadRequest")
  /\ toCli' = [toCli EXCEPT ![i] = Tail(@)]
  /\ UNCHANGED <<origin, relay>>

\* The ack gives the peer an address and lets packets be routed here.
Ack(i) ==
  /\ cli[i].pc = "ack" /\ CliRoom
  /\ CliTrySendMsg(i, Plain("keepAlive"))
  /\ Become(i, [cli[i] EXCEPT !.pc = "connect"])
  /\ UNCHANGED <<origin, toCli, relay>>

\* client_connect, and prepare_header with the body the request packet
\* brought: what exceeds the buffer is kept as overflow.
ClientConnect(i) ==
  /\ cli[i].pc = "connect"
  /\ LET n == IF cli[i].again THEN 0 ELSE cli[i].first
     IN \/ /\ Become(i, [cli[i] EXCEPT !.pc = "hdr", !.cap = BufSize, !.rbuf = 0,
                           !.used = Min(n, BufSize), !.over = n - Min(n, BufSize),
                           !.end = (cli[i].again \/ ~cli[i].more) /\ n <= BufSize,
                           !.outCredits = 0, !.done = FALSE, !.written = 0])
           /\ origin' = [origin EXCEPT ![i] = NewOrigin]
           /\ UNCHANGED toSrv
        \/ CliFail(i, cli[i], "Connect") /\ UNCHANGED origin
  /\ UNCHANGED <<toCli, relay>>

\* The request header is sent.
ClientSendHeader(i) ==
  /\ cli[i].pc = "hdr"
  /\ IF origin[i].state = "gone" THEN CliFail(i, cli[i], "Io")
     ELSE Become(i, [cli[i] EXCEPT !.pc = "initial"]) /\ UNCHANGED toSrv
  /\ UNCHANGED <<origin, toCli, relay>>

\* Mutant: the body is taken for sent when its last part is in the buffer.
ReqBodyEndsEarly(c, n) ==
  IF c.rbuf > 0
  THEN [c EXCEPT !.pc = "resp_hdr", !.used = 0, !.early = TRUE]
  ELSE LET d == [c EXCEPT !.used = @ - n, !.written = @ + n]
       IN IF d.end THEN [d EXCEPT !.pc = "resp_hdr"]
          ELSE [d EXCEPT !.outCredits = @ + n]

\* req_body.send(): bytes of a response already in the receive buffer make it
\* an early response and the rest of the request body is dropped; else n
\* bytes are written.
ReqBodySend(c, n) ==
  IF c.rbuf > 0
  THEN [c EXCEPT !.pc = "resp_hdr", !.used = 0, !.early = TRUE]
  ELSE LET d == [c EXCEPT !.used = @ - n, !.written = @ + n]
       IN IF d.end /\ d.used = 0 THEN [d EXCEPT !.pc = "resp_hdr"]
          ELSE IF d.pc = "initial"
          THEN IF d.used > 0 THEN d
               ELSE [d EXCEPT !.used = Min(d.over, d.cap), !.over = @ - Min(d.over, d.cap),
                              !.end = ~d.more /\ d.over <= d.cap]
          ELSE [d EXCEPT !.outCredits = @ + n]

\* The outcomes of a send() that finds the socket writable, can_send() first.
ReqSends(c) ==
  {ReqBodySend(c, n) :
     n \in (IF c.used = 0 THEN (IF c.end THEN {0} ELSE {}) ELSE 1 .. c.used)}

\* server_stream_send_body, both loops: the write side.
ServerStreamSendBodySend(i) ==
  /\ cli[i].pc \in {"initial", "send_body"}
  /\ IF origin[i].state = "gone" /\ cli[i].rbuf = 0
     THEN (cli[i].used > 0 \/ cli[i].end) /\ CliFail(i, cli[i], "Io")
     ELSE /\ \E c \in ReqSends(cli[i]) : Become(i, c)
          /\ UNCHANGED toSrv
  /\ UNCHANGED <<origin, toCli, relay>>

\* Mutant: no credits for the rest of the body.
InitialBodySentNoCredit(i) ==
  /\ cli[i].pc = "initial" /\ cli[i].used = 0 /\ ~cli[i].end
  /\ Become(i, [cli[i] EXCEPT !.pc = "send_body"])
  /\ UNCHANGED <<origin, linkVars>>

\* The initial body is out: credits are offered from now on.
InitialBodySent(i) ==
  /\ cli[i].pc = "initial" /\ cli[i].used = 0 /\ ~cli[i].end
  /\ Become(i, [cli[i] EXCEPT !.pc = "send_body", !.outCredits = BufSize])
  /\ UNCHANGED <<origin, linkVars>>

\* fill_recv_buffer, and the read side of send(): the origin's answer to a
\* request that is still being sent, or its end.
FillRecvBuffer(i) ==
  /\ cli[i].pc \in {"initial", "send_body"} /\ cli[i].rbuf = 0
  /\ \/ /\ origin[i].state = "responding"
        /\ Become(i, [cli[i] EXCEPT !.rbuf = 1])
        /\ UNCHANGED toSrv
     \/ /\ origin[i].state = "gone"
        /\ CliFail(i, cli[i], "Io")
  /\ UNCHANGED <<origin, toCli, relay>>

ServerStreamSendBodyCredit(i) ==
  /\ cli[i].pc = "send_body" /\ ~cli[i].done /\ cli[i].outCredits > 0 /\ CliRoom
  /\ CliTrySendMsg(i, Credit(cli[i].outCredits))
  /\ Become(i, [cli[i] EXCEPT !.outCredits = 0])
  /\ UNCHANGED <<origin, toCli, relay>>

\* ZhttpServerStreamSessionIn::peek_msg.
ServerPeekMsg(c, p) ==
  [c EXCEPT !.addr = TRUE, !.credits = @ + p.cr]

\* server_handle_other, with server_accept_handoff started.
CliOther(i, c, p) ==
  CASE ServerHandleOther(p) = "ok" -> Become(i, c) /\ UNCHANGED toSrv
    [] ServerHandleOther(p) = "handoff" ->
         Become(i, [c EXCEPT !.ret = c.pc, !.pc = "room"]) /\ UNCHANGED toSrv
    [] OTHER -> CliFail(i, c, ServerHandleOther(p))

CliTakeMsg(i, Handle(_, _)) ==
  /\ toCli[i] # <<>>
  /\ toCli' = [toCli EXCEPT ![i] = Tail(@)]
  /\ LET p == Head(toCli[i])
     IN IF <<"cli", i>> \in relay.lost THEN CliFail(i, cli[i], "BadMessage")
        ELSE Handle(ServerPeekMsg(cli[i], p), p)
  /\ UNCHANGED <<origin, relay>>

\* A packet in a phase that reads no body.
ClientOtherMsg(i) ==
  /\ cli[i].pc \in OnlyOther
  /\ CliTakeMsg(i, LAMBDA c, p : CliOther(i, c, p))

\* server_stream_send_body, a packet.
ServerStreamSendBodyMsg(i) ==
  /\ cli[i].pc = "send_body"
  /\ CliTakeMsg(i, LAMBDA c, p :
       IF p.t = "data"
       THEN IF c.end THEN CliFail(i, c, "FurtherInputNotAllowed")
            ELSE IF p.n > c.cap - c.used THEN CliFail(i, c, "BufferExceeded")
            ELSE LET d == [c EXCEPT !.used = @ + p.n, !.end = ~p.more]
                     grow == ExpandBufferIfNeeded(d.used, d.cap)
                 IN /\ Become(i, IF p.more THEN [d EXCEPT !.cap = @ + grow,
                                                          !.outCredits = @ + grow]
                                 ELSE [d EXCEPT !.done = TRUE])
                    /\ UNCHANGED toSrv
       ELSE IF p.t = "handoffStart"
       THEN /\ \E d \in {c} \cup ReqSends(c) :
                 Become(i, IF d.pc # "send_body" THEN d
                           ELSE [d EXCEPT !.ret = d.pc, !.pc = "room"])
            /\ UNCHANGED toSrv
       ELSE CliOther(i, c, p))

\* server_accept_handoff; a packet before the proceed is unexpected.
ServerAcceptHandoff(i) ==
  /\ cli[i].pc = "room"
  /\ \/ /\ CliRoom
        /\ SendProceed
        /\ Become(i, [cli[i] EXCEPT !.pc = "paused", !.addr = FALSE])
        /\ UNCHANGED <<toCli, toSrv>>
     \/ /\ toCli[i] # <<>>
        /\ toCli' = [toCli EXCEPT ![i] = Tail(@)]
        /\ CliFail(i, cli[i], "BadMessage")
        /\ UNCHANGED relay
  /\ UNCHANGED origin

\* The packet that ends the pause is handled by the phase that was paused.
ServerResume(i) ==
  /\ cli[i].pc = "paused" /\ toCli[i] # <<>>
  /\ Become(i, [cli[i] EXCEPT !.pc = cli[i].ret, !.ret = "none", !.addr = TRUE])
  /\ UNCHANGED <<origin, linkVars>>

\* recv_header.
RecvRespHeader(i) ==
  /\ cli[i].pc = "resp_hdr" /\ origin[i].state \in {"responding", "gone"}
  /\ IF origin[i].state = "gone" THEN CliFail(i, cli[i], "Io")
     ELSE Become(i, [cli[i] EXCEPT !.pc = "resp_room", !.rbuf = 0]) /\ UNCHANGED toSrv
  /\ UNCHANGED <<origin, toCli, relay>>

\* The response header goes to the handler, unless it is a redirect to follow:
\* only requests whose body came with them are sent again.
PassRespHeader(i) ==
  /\ cli[i].pc = "resp_room" /\ CliRoom
  /\ IF origin[i].redirect /\ ~cli[i].more
     THEN /\ Become(i, [cli[i] EXCEPT !.pc = "eat"])
          /\ UNCHANGED toSrv
     ELSE /\ CliTrySendMsg(i, Data(0, TRUE, 0))
          /\ Become(i, [cli[i] EXCEPT !.pc = "recv_body", !.received = TRUE])
  /\ UNCHANGED <<origin, toCli, relay>>

\* The body of the redirect is read and dropped; the connection is left in the
\* pool or closed before the next attempt.
EatResponse(i) ==
  /\ cli[i].pc = "eat"
  /\ IF origin[i].state = "gone" /\ origin[i].left > 0 THEN CliFail(i, cli[i], "Io")
     ELSE /\ \E get \in BOOLEAN :
               Become(i, [cli[i] EXCEPT !.pc = "close", !.redirects = @ + 1,
                                        !.again = @ \/ get])
          /\ UNCHANGED toSrv
  /\ UNCHANGED <<origin, toCli, relay>>

\* server_stream_recv_body, the channel has room.
ServerStreamRecvBodySend(i) ==
  /\ cli[i].pc = "recv_body" /\ cli[i].credits > 0 /\ ~cli[i].need /\ CliRoom
  /\ LET n == Min(cli[i].rbuf, Min(TmpSize, cli[i].credits))
         last == origin[i].left = 0 /\ n = cli[i].rbuf
     IN IF n = 0 /\ ~last
        THEN /\ Become(i, [cli[i] EXCEPT !.need = TRUE])
             /\ UNCHANGED toSrv
        ELSE \E done \in IF last THEN (IF n = 0 THEN {TRUE} ELSE BOOLEAN) ELSE {FALSE} :
               /\ CliTrySendMsg(i, Data(n, ~done, 0))
               /\ Become(i, [cli[i] EXCEPT !.credits = @ - n, !.rbuf = @ - n,
                                                    !.pc = IF done THEN "close" ELSE @])
  /\ UNCHANGED <<origin, toCli, relay>>

\* server_stream_recv_body, add_to_buffer.
ServerStreamRecvBodyRead(i) ==
  /\ cli[i].pc = "recv_body" /\ cli[i].need
  /\ \/ /\ origin[i].left > 0 /\ cli[i].rbuf < BufSize /\ origin[i].state # "gone"
        /\ \E k \in 1 .. Min(origin[i].left, BufSize - cli[i].rbuf) :
             /\ origin' = [origin EXCEPT ![i].left = @ - k]
             /\ Become(i, [cli[i] EXCEPT !.rbuf = @ + k, !.need = FALSE])
        /\ UNCHANGED toSrv
     \/ /\ origin[i].state = "gone"
        /\ CliFail(i, cli[i], "Io")
        /\ UNCHANGED origin
  /\ UNCHANGED <<toCli, relay>>

\* The connection to the origin is pooled or closed; a redirect starts over.
ClientDone(i) ==
  /\ cli[i].pc = "close"
  /\ IF cli[i].received
     THEN Become(i, EndedClientConn(cli[i], "none")) /\ UNCHANGED toSrv
     ELSE IF cli[i].redirects > RedirectsMax
     THEN CliFail(i, cli[i], "TooManyRedirects")
     ELSE Become(i, [cli[i] EXCEPT !.pc = "connect"]) /\ UNCHANGED toSrv
  /\ UNCHANGED <<origin, toCli, relay>>

\* The other arms of the select around the connection.
CliTimeout(i, e) ==
  /\ cli[i].pc \notin {"none", "ended"}
  /\ e \in {"StreamTimeout", "SessionTimeout", "Stopped"}
  /\ CliFail(i, cli[i], e)
  /\ UNCHANGED <<origin, toCli, relay>>

\* The origin server answers, at once or after the request body, or drops the
\* connection.
OriginRespond(i) ==
  /\ cli[i].pc \in {"initial", "send_body", "resp_hdr"} /\ origin[i].state = "reading"
  /\ \E n \in RespBodies, r \in BOOLEAN :
       origin' = [origin EXCEPT ![i] = [state |-> "responding", left |-> n,
                                        redirect |-> r, size |-> n]]
  /\ UNCHANGED <<cli, linkVars>>

OriginGone(i) ==
  /\ cli[i].pc \notin {"none", "ack", "connect", "ended"} /\ origin[i].state # "gone"
  /\ origin' = [origin EXCEPT ![i].state = "gone"]
  /\ UNCHANGED <<cli, linkVars>>

\* The steps a client connection takes by itself.
CliStep(i) ==
  \/ ClientStreamConnect(i) \/ Ack(i) \/ ClientConnect(i) \/ ClientSendHeader(i)
  \/ ServerStreamSendBodySend(i) \/ InitialBodySent(i) \/ FillRecvBuffer(i)
  \/ ServerStreamSendBodyCredit(i) \/ ClientOtherMsg(i) \/ ServerStreamSendBodyMsg(i)
  \/ ServerAcceptHandoff(i) \/ ServerResume(i) \/ RecvRespHeader(i)
  \/ PassRespHeader(i) \/ EatResponse(i) \/ ServerStreamRecvBodySend(i)
  \/ ServerStreamRecvBodyRead(i) \/ ClientDone(i)
=============================================================================
