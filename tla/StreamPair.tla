----------------------------- MODULE StreamPair -----------------------------
(***************************************************************************)
(* A server connection, the client connections that serve its requests,    *)
(* and the handler between them (external), which relays their packets,    *)
(* hands either one off to another address, and may lose a packet.         *)
(***************************************************************************)
EXTENDS ServerStream, ClientStream

vars == <<srv, browser, cli, origin, toSrv, toCli, relay>>

Init == SrvInit /\ CliInit /\ LinkInit

\* What the relay did to the connections besides passing packets on.
Faults == Cardinality(relay.lost) + relay.handoffs

\* A packet is dropped on the way (a ZeroMQ queue at its limit).
RelayLose ==
  /\ Cardinality(relay.lost) < LossMax /\ Faults < FaultMax
  /\ \/ /\ toSrv # <<>>
        /\ toSrv' = Tail(toSrv)
        /\ relay' = [relay EXCEPT !.lost = @ \cup {<<"srv", Head(toSrv).id>>}]
        /\ UNCHANGED toCli
     \/ \E i \in Sessions :
          /\ toCli[i] # <<>>
          /\ toCli' = [toCli EXCEPT ![i] = Tail(@)]
          /\ relay' = [relay EXCEPT !.lost = @ \cup {<<"cli", i>>}]
          /\ UNCHANGED toSrv
  /\ UNCHANGED <<srvVars, cliVars>>

\* A handoff of either side of an established session starts: the packets of
\* the other side wait until the side has proceeded.
RelayHandoff(i, side) ==
  /\ relay.held = "none" /\ relay.handoffs < HandoffMax /\ Faults < FaultMax
  /\ i = srv.id /\ srv.addr /\ cli[i].addr /\ srv.pc # "ended" /\ cli[i].pc # "ended"
  /\ LET p == Stamp(Plain("handoffStart"), i)
     IN IF side = "srv"
        THEN /\ Len(toSrv) < QueueMax
             /\ toSrv' = Append(toSrv, p)
             /\ UNCHANGED toCli
        ELSE /\ Len(toCli[i]) < QueueMax
             /\ toCli' = [toCli EXCEPT ![i] = Append(@, p)]
             /\ UNCHANGED toSrv
  /\ relay' = [relay EXCEPT !.held = IF side = "srv" THEN "cli" ELSE "srv", !.id = i,
                            !.handoffs = @ + 1]
  /\ UNCHANGED <<srvVars, cliVars>>

\* The proceed is for the relay.  A keep-alive from the new address ends the
\* pause, and the packets of the other side flow again.
RelayProceed ==
  LET p == Stamp(Plain("keepAlive"), relay.id)
  IN /\ relay.held # "none" /\ relay.proceed
     /\ IF relay.held = "cli"
        THEN toSrv' = Append(toSrv, p) /\ UNCHANGED toCli
        ELSE toCli' = [toCli EXCEPT ![relay.id] = Append(@, p)] /\ UNCHANGED toSrv
     /\ relay' = [relay EXCEPT !.held = "none", !.proceed = FALSE]
     /\ UNCHANGED <<srvVars, cliVars>>

SrvDone(i) == srv.id # i \/ srv.pc \in {"closing", "ended"}
CliDone(i) == cli[i].pc = "ended"

\* The side that is handed off never proceeds: it ended, a packet was lost, or
\* what it flushed before it accepts the handoff took it to its next phase,
\* and the handoff was forgotten.
RelayGiveUp ==
  /\ relay.held # "none" /\ ~relay.proceed
  /\ LET i == relay.id
         forgot(pc, queue) == /\ pc \notin {"room", "paused"}
                              /\ \A k \in DOMAIN queue : queue[k].t # "handoffStart"
     IN \/ SrvDone(i) \/ CliDone(i) \/ relay.lost # {}
        \/ relay.held = "cli" /\ srv.next.t # "handoffStart" /\ forgot(srv.pc, toSrv)
        \/ relay.held = "srv" /\ forgot(cli[i].pc, toCli[i])
  /\ relay' = [relay EXCEPT !.held = "none"]
  /\ UNCHANGED <<srvVars, cliVars, toSrv, toCli>>

\* The session timeout of a side fires when its peer is silent.  A peer that
\* lives sends keep-alives, unless a packet was lost, which the numbers of
\* the keep-alives after it would show.
SrvSessionTimeout ==
  /\ srv.pc \notin {"idle", "closing", "ended"}
  /\ CliDone(srv.id) \/ relay.lost # {}
  /\ toSrv = <<>>
  /\ SrvTimeout("SessionTimeout")
  /\ UNCHANGED cliVars

CliSessionTimeout(i) ==
  /\ SrvDone(i) \/ relay.lost # {}
  /\ toCli[i] = <<>>
  /\ CliTimeout(i, "SessionTimeout")
  /\ UNCHANGED srvVars

Server == SrvStep /\ UNCHANGED cliVars
Client(i) == CliStep(i) /\ UNCHANGED srvVars
Inactive == SrvTimeout("StreamTimeout") /\ UNCHANGED cliVars
ClientInactive(i) == CliTimeout(i, "StreamTimeout") /\ UNCHANGED srvVars
BrowserStep == Disconnect /\ UNCHANGED cliVars
Answer(i) == OriginRespond(i) /\ UNCHANGED srvVars
OriginStep(i) == OriginGone(i) /\ UNCHANGED srvVars

\* Everything is over.
Terminated ==
  /\ srv.pc = "ended" /\ \A i \in Sessions : cli[i].pc \in {"none", "ended"}
  /\ \A i \in Sessions : cli[i].pc = "none" => toCli[i] = <<>>
  /\ UNCHANGED vars

Next ==
  \/ Server \/ Inactive \/ BrowserStep \/ SrvSessionTimeout
  \/ \E i \in Sessions :
       \/ Client(i) \/ ClientInactive(i) \/ CliSessionTimeout(i)
       \/ Answer(i) \/ OriginStep(i)
       \/ \E side \in {"srv", "cli"} : RelayHandoff(i, side)
  \/ RelayLose \/ RelayProceed \/ RelayGiveUp \/ Terminated

Spec == Init /\ [][Next]_vars

\* Tasks of the executor run when they are woken; the session timers run; an
\* origin server answers in the end.
Fairness ==
  /\ WF_vars(Server) /\ WF_vars(SrvSessionTimeout)
  /\ \A i \in Sessions : WF_vars(Client(i)) /\ WF_vars(CliSessionTimeout(i)) /\ WF_vars(Answer(i))
  /\ WF_vars(RelayProceed) /\ WF_vars(RelayGiveUp)

FairSpec == Spec /\ Fairness

(***************************************************************************)
(* Properties                                                              *)
(***************************************************************************)
SrvError == {"none", "Io", "Handler", "HandlerCancel", "BadMessage", "BufferExceeded",
             "FurtherInputNotAllowed", "StreamTimeout", "SessionTimeout"}
CliError == SrvError \cup {"BadRequest", "Connect", "TooManyRedirects"}

TypeOK ==
  /\ srv.pc \in SrvPc /\ srv.ret \in SrvPc /\ srv.err \in SrvError /\ srv.id \in Sessions
  /\ srv.next = NoPacket \/ srv.next \in Packet
  /\ srv.credits \in Nat /\ srv.used \in 0 .. srv.cap /\ srv.rbuf \in 0 .. BufSize
  /\ \A i \in Sessions :
       /\ cli[i].pc \in CliPc /\ cli[i].ret \in CliPc /\ cli[i].err \in CliError
       /\ cli[i].credits \in Nat /\ cli[i].used \in 0 .. cli[i].cap
       /\ cli[i].rbuf \in 0 .. BufSize /\ toCli[i] \in Seq(Packet)
  /\ toSrv \in Seq(Packet) /\ relay \in Relay

\* Neither side ever sends more than the other one has room for, and never
\* after the end of a body: the credits each side gives (what its buffer holds
\* at first, what it wrote since, and what the buffer grew by) keep prepare()
\* and write_all from failing in the middle of a stream.
NoOverrun ==
  /\ srv.err \notin {"BufferExceeded", "FurtherInputNotAllowed"}
  /\ \A i \in Sessions : cli[i].err \notin {"BufferExceeded", "FurtherInputNotAllowed"}

\* A response that the server connection took for complete is complete: its
\* HTTP client got every byte of the origin's body, whatever packets were
\* lost, handed off or cancelled on the way.
WholeResponse == srv.whole => srv.written = origin[srv.id].size

\* The origin got the whole request body before its response is read, unless
\* it responded early.
WholeRequest ==
  \A i \in Sessions :
    /\ i = srv.id /\ cli[i].pc \in {"resp_hdr", "resp_room", "recv_body"}
    /\ cli[i].more /\ ~cli[i].early
    => cli[i].written = browser.size

\* The two implementations of the protocol agree: unless a packet was lost, a
\* connection sees a message it does not expect only when it is done with the
\* response or gives up (a server connection sends its error response), or went on to an early
\* response while the server still sent the request body (a client connection).
\* A connection that is reused for a request still meets what the client
\* connection of the one before sent when it failed after its last packet.
ExpectedMessages ==
  relay.lost = {} =>
    /\ srv.err = "BadMessage" =>
         \/ srv.failed \/ srv.whole
         \/ \E i \in Sessions : i < srv.id /\ cli[i].err # "none"
    /\ \A i \in Sessions : cli[i].err = "BadMessage" => cli[i].early

\* Every request comes to an end, and neither half of its session outlives the
\* other: the two sides never wait for each other's credits, packets or
\* proceeds, and where a cancel is lost or an error not told, the session
\* timeout is what ends the other half.
RequestsEnd ==
  \A i \in Sessions :
    srv.id = i /\ srv.pc = "first" ~> SrvDone(i) /\ cli[i].pc \in {"none", "ended"}

\* A request body arrives whole and in order, within the credits that each side
\* has given the other.
RequestArrives == NoOverrun /\ WholeRequest
=============================================================================
