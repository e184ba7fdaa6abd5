------------------------------ MODULE WsStream ------------------------------
(***************************************************************************)
(* WebSocket connections through the connection manager: stream_websocket  *)
(* of a server connection and server_stream_websocket of the client        *)
(* connection that serves it (src/src/connmgr/connection.rs), on top of    *)
(* the WebSocket protocol of src/src/connmgr/websocket.rs, each with a     *)
(* remote WebSocket peer.  The two loops are the same but for the mask and *)
(* the packet types, so the actions have a side x as their parameter.      *)
(* Payloads are byte counts; compression is off.                           *)
(***************************************************************************)
EXTENDS Integers, Sequences, FiniteSets, SequencesExt

CONSTANTS
  BufSize,      \* buffer_size of a connection
  TmpSize,      \* size of tmp_buf
  ExpandMax,    \* blocks a write buffer may grow by
  MessagesMax,  \* messages_max of the message tracker
  QueueMax,     \* packets a sender's channel holds before check_send waits
  CloseSizes,   \* payload sizes of close frames
  ControlMax,   \* CONTROL_FRAME_PAYLOAD_MAX
  Scripts       \* what happens: the messages the peer of each side sends, each a
                \* sequence of frames, and whether a handoff and the loss of a peer

Sides == {"srv", "cli"}
Peer(x) == IF x = "srv" THEN "cli" ELSE "srv"

VARIABLES
  ws,      \* per side, the connection
  link,    \* per side, ZHTTP packets on their way to it
  remote,  \* per side, its WebSocket peer
  held,    \* the side that is being handed off, or "none"
  script   \* what is left of the script of this behaviour

vars == <<ws, link, remote, held, script>>

Nothing == [left |-> -1]

\* WebSocketHandler::new and MessageTracker::new.  fut is the send in progress
\* with the arguments it was started with, frame the frame being written; slips
\* is history, of what the code is known to get wrong (see MessagesInOrder).
NewHandler ==
  [pc |-> "run", state |-> "Connected", err |-> "none", credits |-> BufSize,
   outCredits |-> 0, need |-> FALSE, part |-> "none", items |-> <<>>, partial |-> FALSE,
   msg |-> "none", frameSent |-> FALSE, endLen |-> -1, frame |-> Nothing, fut |-> Nothing,
   cap |-> BufSize, slips |-> {}]

\* sent and rcvd are the messages a peer has sent and received whole, rx the
\* one it is receiving.
NewPeer ==
  [tx |-> <<>>, sent |-> <<>>, closed |-> FALSE, rx |-> Nothing, rcvd |-> <<>>,
   rxClosed |-> FALSE, bad |-> FALSE, gone |-> FALSE]

Init ==
  /\ ws = [x \in Sides |-> NewHandler]
  /\ link = [x \in Sides |-> <<>>]
  /\ remote = [x \in Sides |-> NewPeer]
  /\ held = "none" /\ script \in Scripts

Once(what) == script[what] /\ script' = [script EXCEPT ![what] = FALSE]

\* A frame as its sender wrote it; begun, once its header has been read.
Frame(op, n, fin) == [op |-> op, n |-> n, fin |-> fin, begun |-> FALSE]

Packet(t, n, more) == [t |-> t, n |-> n, more |-> more]
Plain(t) == Packet(t, 0, FALSE)

\* check_send: the channel to the peer has room.
Room(x) == held # Peer(x) /\ Len(link[Peer(x)]) < QueueMax

Send(x, p) == link' = [link EXCEPT ![Peer(x)] = Append(@, p)]

Become(x, w) == ws' = [ws EXCEPT ![x] = w]

\* An error ends the connection: with a cancel for the peer, unless the peer
\* caused it or its address is not known.  l is the link before.
Failed(w, e) == [w EXCEPT !.pc = "ended", !.err = e]

Settle(x, w, l) ==
  /\ ws' = [ws EXCEPT ![x] = w]
  /\ link' = IF w.pc = "ended" /\ w.err \notin {"none", "HandlerCancel", "SessionTimeout"}
                /\ ws[x].pc # "paused" /\ Room(x)
             THEN [l EXCEPT ![Peer(x)] = Append(@, Plain("cancel"))] ELSE l

MaySend(w) == w.state \in {"Connected", "PeerClosed"}
MayRecv(w) == w.state \in {"Connected", "Closing"}

Used(w) == FoldLeft(LAMBDA n, item : n + item.avail, 0, w.items)

-----------------------------------------------------------------------------
(* From the WebSocket peer to the handler.                                 *)

Control(op) == op \in {"close", "ping"}

\* The errors of recv_message_content at the header of a frame: one that is no
\* continuation within a message, one that is outside of it, and a control frame
\* that is too large or in parts.
Unexpected(w, f) ==
  /\ ~f.begun
  /\ IF w.part # "none" THEN f.op # "cont"
     ELSE f.op = "cont" \/ (Control(f.op) /\ (f.n > ControlMax \/ ~f.fin))

\* What a read may find of the payload: any part of it has arrived, but of a
\* control frame all of it; a destination of max bytes takes it.
Reads(f, max) == IF f.n = 0 \/ Control(f.op) THEN {Min({f.n, max})} ELSE 1 .. Min({f.n, max})

\* There is something to read.  Of a control frame all of the payload must be in
\* the buffer, also when a part of it was taken before: then what is left waits
\* for bytes behind it.
Readable(tx) == tx # <<>> /\ (Control(Head(tx).op) /\ Head(tx).begun => Len(tx) > 1)

\* Mutant: the end of a frame is taken for the end of its message.
RecvEndsAtFrame(w, f, n) ==
  LET end == n = f.n
      op == IF w.part = "none" THEN f.op ELSE w.part
  IN [frameEnd |-> end, end |-> end, op |-> op,
      state |-> IF end /\ op = "close"
                THEN (IF w.state = "Closing" THEN "Finished" ELSE "PeerClosed") ELSE w.state]

\* Protocol::recv_message_content that reads n bytes of a frame whose payload
\* has f.n bytes left: whether the frame, the message and the connection end.
RecvMessageContent(w, f, n) ==
  LET frameEnd == n = f.n
      end == frameEnd /\ f.fin
      op == IF w.part = "none" THEN f.op ELSE w.part
  IN [frameEnd |-> frameEnd, end |-> end, op |-> op,
      state |-> IF end /\ op = "close"
                THEN (IF w.state = "Closing" THEN "Finished" ELSE "PeerClosed") ELSE w.state]

\* The channel has room: the credits that are due go first.
WsCredit(x) ==
  /\ ws[x].pc = "run" /\ ws[x].state # "Finished" /\ ws[x].outCredits > 0 /\ Room(x)
  /\ Send(x, Packet("credit", ws[x].outCredits, FALSE))
  /\ Become(x, [ws[x] EXCEPT !.outCredits = 0])
  /\ UNCHANGED <<remote, held, script>>

\* The channel has room: what the credits allow of a message goes to the
\* handler.  An empty part that does not end its message is not sent.
WsRecv(x) ==
  /\ ws[x].pc = "run" /\ MayRecv(ws[x]) /\ ws[x].outCredits = 0
  /\ ws[x].credits > 0 /\ ~ws[x].need /\ Room(x)
  /\ IF ~Readable(remote[x].tx)
     THEN /\ Become(x, [ws[x] EXCEPT !.need = TRUE])
          /\ UNCHANGED <<link, remote>>
     ELSE LET f == Head(remote[x].tx)
          IN IF Unexpected(ws[x], f)
             THEN Settle(x, Failed(ws[x], "WebSocket"), link) /\ UNCHANGED remote
             ELSE \E n \in Reads(f, Min({TmpSize, ws[x].credits})) :
                    LET r == RecvMessageContent(ws[x], f, n)
                        rest == <<[f EXCEPT !.n = @ - n, !.begun = TRUE]>>
                    IN /\ remote' = [remote EXCEPT ![x].tx =
                                       IF r.frameEnd THEN Tail(@) ELSE rest \o Tail(@)]
                       /\ Become(x, [ws[x] EXCEPT !.credits = @ - n, !.state = r.state,
                                                  !.part = IF r.end THEN "none" ELSE r.op,
                                                  !.slips = IF Control(r.op) /\ ~r.end
                                                            THEN @ \cup {"split"} ELSE @])
                       /\ IF r.op = "data" /\ n = 0 /\ ~r.end THEN UNCHANGED link
                          ELSE Send(x, Packet(r.op, n, ~r.end))
  /\ UNCHANGED <<held, script>>

\* add_to_recv_buffer.
AddToRecvBuffer(x) ==
  /\ ws[x].pc = "run" /\ ws[x].need /\ ws[x].state # "Finished"
  /\ \/ /\ Readable(remote[x].tx)
        /\ Become(x, [ws[x] EXCEPT !.need = FALSE])
        /\ UNCHANGED link
     \/ /\ ~Readable(remote[x].tx) /\ remote[x].gone
        /\ Settle(x, Failed(ws[x], "Io"), link)
  /\ UNCHANGED <<remote, held, script>>

-----------------------------------------------------------------------------
(* From the handler to the WebSocket peer.                                 *)

\* What the peer makes of a frame: messages are put together, control frames
\* may lie between their parts, and a frame that may not follow what came before
\* is an error of the protocol.
PeerReceives(p, op, n, fin) ==
  LET start == [left |-> n, op |-> op]
      whole == IF op = "cont" THEN [op |-> p.rx.op, n |-> p.rx.left + n] ELSE [op |-> op, n |-> n]
  IN IF p.rxClosed \/ (~Control(op) /\ (op = "cont") # (p.rx # Nothing)) THEN [p EXCEPT !.bad = TRUE]
     ELSE IF op = "close" THEN [p EXCEPT !.rxClosed = TRUE]
     ELSE IF op = "ping" THEN [p EXCEPT !.rcvd = Append(@, whole)]
     ELSE IF fin THEN [p EXCEPT !.rx = Nothing, !.rcvd = Append(@, whole)]
     ELSE [p EXCEPT !.rx = IF op = "cont" THEN [@ EXCEPT !.left = @ + n] ELSE start]

\* MessageTracker::current.
Current(w) ==
  [left |-> w.items[1].avail, done |-> Len(w.items) > 1 \/ ~w.partial]

\* send_message_start, when the message is not being sent yet: it asserts the
\* state, and that no message is being sent.
MessageStart(w) ==
  IF w.msg # "none" THEN w
  ELSE [w EXCEPT !.msg = w.items[1].op, !.frameSent = FALSE, !.endLen = -1]

\* Mutant: end_len is not reduced by what was written.
ContentKeepsEndLen(w, k) ==
  LET fut == IF w.fut # Nothing THEN w.fut ELSE Current(w)
      frame == IF w.frame # Nothing THEN w.frame
               ELSE [left |-> fut.left, size |-> fut.left, fin |-> fut.done,
                     op |-> IF w.frameSent THEN "cont" ELSE w.msg]
      done == fut.done /\ k = fut.left /\ k = frame.left
  IN [w EXCEPT !.fut = Nothing, !.frameSent = TRUE,
               !.frame = IF k = frame.left THEN Nothing ELSE [frame EXCEPT !.left = @ - k],
               !.endLen = IF done THEN -1 ELSE IF fut.done THEN fut.left ELSE @,
               !.msg = IF done THEN "none" ELSE @,
               !.items = IF done THEN Tail(@) ELSE [@ EXCEPT ![1].avail = @ - k]]

\* Mutant: what was written gives no credits.
ContentNoCredits(w, k) ==
  LET fut == IF w.fut # Nothing THEN w.fut ELSE Current(w)
      frame == IF w.frame # Nothing THEN w.frame
               ELSE [left |-> fut.left, size |-> fut.left, fin |-> fut.done,
                     op |-> IF w.frameSent THEN "cont" ELSE w.msg]
      done == fut.done /\ k = fut.left /\ k = frame.left
      state == IF k = frame.left /\ frame.op = "close"
               THEN (IF w.state = "PeerClosed" THEN "Finished" ELSE "Closing") ELSE w.state
  IN [w EXCEPT !.fut = Nothing, !.frameSent = TRUE, !.state = state,
               !.frame = IF k = frame.left THEN Nothing ELSE [frame EXCEPT !.left = @ - k],
               !.endLen = IF done THEN -1 ELSE IF fut.done THEN fut.left - k ELSE @,
               !.msg = IF done THEN "none" ELSE @,
               !.items = IF done THEN Tail(@) ELSE [@ EXCEPT ![1].avail = @ - k]]

\* send_message_content and send_frame: k bytes of the payload are written.
\* The frame's length and its fin bit are those of the call that began it.
MessageContent(w, k) ==
  LET fut == IF w.fut # Nothing THEN w.fut ELSE Current(w)
      frame == IF w.frame # Nothing THEN w.frame
               ELSE [left |-> fut.left, size |-> fut.left, fin |-> fut.done,
                     op |-> IF w.frameSent THEN "cont" ELSE w.msg]
      frameDone == k = frame.left
      done == fut.done /\ k = fut.left /\ frameDone
      state == IF frameDone /\ frame.op = "close"
               THEN (IF w.state = "PeerClosed" THEN "Finished" ELSE "Closing") ELSE w.state
  IN [w EXCEPT !.fut = Nothing, !.frameSent = TRUE, !.state = state,
               !.frame = IF frameDone THEN Nothing ELSE [frame EXCEPT !.left = @ - k],
               !.endLen = IF done THEN -1 ELSE IF fut.done THEN fut.left - k ELSE @,
               !.msg = IF done THEN "none" ELSE @,
               !.items = IF done THEN Tail(@) ELSE [@ EXCEPT ![1].avail = @ - k],
               !.outCredits = IF state \in {"Connected", "PeerClosed"} THEN @ + k ELSE @,
               !.slips = IF done /\ ~frame.fin THEN @ \cup {"unsent"} ELSE @]

\* The assertions of websocket.rs and of MessageTracker::consumed.
Asserts(w) ==
  LET fut == IF w.fut # Nothing THEN w.fut ELSE Current(w)
  IN /\ MaySend(w)
     /\ w.endLen # -1 => fut.done /\ fut.left = w.endLen

\* One poll of send_message_content: the socket is gone, or takes k bytes of
\* the payload (none if it takes only a part of the header), or would block
\* after the frame was begun.  A control message is whole when it is sent, so it
\* is neither too large nor in parts.
Poll(x, w) ==
  IF remote[x].gone THEN Settle(x, Failed(w, "Io"), link) /\ UNCHANGED remote
  ELSE IF ~Asserts(w)
  THEN Become(x, [w EXCEPT !.pc = "panic"]) /\ UNCHANGED <<remote, link>>
  ELSE LET v == MessageStart(w)
           fut == IF v.fut # Nothing THEN v.fut ELSE Current(v)
           frame == IF v.frame # Nothing THEN v.frame
                    ELSE [left |-> fut.left, size |-> fut.left, fin |-> fut.done,
                          op |-> IF v.frameSent THEN "cont" ELSE v.msg]
       IN /\ UNCHANGED link
          /\ \/ \E k \in (IF frame.left = 0 THEN {0}
                            ELSE (IF v.frame = Nothing THEN 0 ELSE 1) .. Min({frame.left, fut.left})) :
                  /\ Become(x, MessageContent(v, k))
                  /\ remote' = IF k < frame.left THEN remote
                               ELSE [remote EXCEPT ![x] =
                                       PeerReceives(@, frame.op, frame.size, frame.fin)]
             \/ /\ v.fut = Nothing
                /\ Become(x, [v EXCEPT !.fut = fut, !.frame = frame])
                /\ UNCHANGED remote

HasContent(w) == w.items # <<>> /\ (w.fut # Nothing \/ Current(w).left > 0 \/ Current(w).done)

\* send_content.
WsSend(x) ==
  /\ ws[x].pc = "run" /\ MaySend(ws[x]) /\ HasContent(ws[x])
  /\ Poll(x, ws[x])
  /\ UNCHANGED <<held, script>>

\* MessageTracker::start: one message at a time, and not more than fit.
TrackerStart(w, op) ==
  [w EXCEPT !.items = Append(@, [op |-> op, avail |-> 0]), !.partial = TRUE]
CanStart(w) == ~w.partial /\ Len(w.items) < MessagesMax

\* MessageTracker::extend and done.
TrackerExtend(w, n, done) ==
  [w EXCEPT !.items[Len(w.items)].avail = @ + n, !.partial = ~done]

\* A data packet: its body must fit, and so must its message.
AcceptData(w, p) ==
  IF ~MaySend(w) THEN w
  ELSE IF Used(w) + p.n > w.cap \/ (~w.partial /\ ~CanStart(w)) THEN Failed(w, "BufferExceeded")
  ELSE LET v == TrackerExtend(IF w.partial THEN w ELSE TrackerStart(w, "data"), p.n, ~p.more)
           grow == IF Used(v) = w.cap /\ w.cap < BufSize * (1 + ExpandMax) THEN BufSize ELSE 0
       IN [v EXCEPT !.cap = @ + grow, !.outCredits = @ + grow]

\* A close, ping or pong packet.  A close without a status becomes one of two
\* bytes, whatever the credits.
AcceptControl(w, p) ==
  LET n == IF p.t = "close" /\ p.n < 2 THEN 2 ELSE p.n
  IN IF ~MaySend(w) THEN w
     ELSE IF Used(w) + n > w.cap THEN Failed(w, IF p.t = "close" THEN "CloseTooLarge" ELSE "BufferExceeded")
     ELSE IF ~CanStart(w) THEN Failed(w, "BadFrame")
     ELSE TrackerExtend(TrackerStart(w, p.t), n, TRUE)

\* recv_msg.
WsMsg(x) ==
  /\ ws[x].pc = "run" /\ ws[x].state # "Finished" /\ link[x] # <<>>
  /\ LET p == Head(link[x])
         w == [ws[x] EXCEPT !.credits = IF p.t = "credit" THEN @ + p.n ELSE @]
     IN Settle(x, CASE p.t \in {"credit", "keepAlive"} -> w
                    [] p.t = "data" -> AcceptData(w, p)
                    [] p.t \in {"close", "ping"} -> AcceptControl(w, p)
                    [] p.t = "handoffStart" -> [w EXCEPT !.pc = "flush"]
                    [] p.t = "cancel" -> Failed(w, "HandlerCancel"),
               [link EXCEPT ![x] = Tail(@)])
  /\ UNCHANGED <<remote, held, script>>

\* A handoff first flushes what the socket takes, whatever the state.
WsFlush(x) ==
  /\ ws[x].pc = "flush" /\ HasContent(ws[x])
  /\ Poll(x, ws[x])
  /\ UNCHANGED <<held, script>>

\* accept_handoff, when the socket takes no more or there is nothing left to
\* send: once the channel has room it tells the handler to proceed.  The handler
\* sends nothing until then, so the wait for room is not ended by a packet
\* (discard_while); what it is told it takes at once.
WsAcceptHandoff(x) ==
  /\ ws[x].pc = "flush" /\ (HasContent(ws[x]) => ws[x].fut # Nothing)
  /\ link[x] = <<>> /\ Room(x)
  /\ Become(x, [ws[x] EXCEPT !.pc = "paused"])
  /\ UNCHANGED <<link, remote, held, script>>

\* The packet that ends the pause.
WsResume(x) ==
  /\ ws[x].pc = "paused" /\ link[x] # <<>>
  /\ Become(x, [ws[x] EXCEPT !.pc = "run"])
  /\ UNCHANGED <<link, remote, held, script>>

\* The loop ends, and the connection with it.
WsFinished(x) ==
  /\ ws[x].pc = "run" /\ ws[x].state = "Finished"
  /\ Become(x, [ws[x] EXCEPT !.pc = "ended"])
  /\ UNCHANGED <<link, remote, held, script>>

\* The session timeout, of a side whose peer is silent.
WsTimeout(x) ==
  /\ ws[x].pc \notin {"ended", "panic"} /\ ws[Peer(x)].pc \in {"ended", "panic"} /\ link[x] = <<>>
  /\ Settle(x, Failed(ws[x], "SessionTimeout"), link)
  /\ UNCHANGED <<remote, held, script>>

-----------------------------------------------------------------------------
(* The WebSocket peers and the handler (external).                         *)

\* The messages in a sequence of frames, in the order in which they end.
MessagesOf(m) ==
  LET whole(fs) == [op |-> fs[1].op, n |-> FoldLeft(LAMBDA n, f : n + f.n, 0, fs)]
      between == SelectSeq(m, LAMBDA f : Control(f.op))
      parts == SelectSeq(m, LAMBDA f : ~Control(f.op))
  IN [i \in 1..Len(between) |-> whole(<<between[i]>>)]
       \o (IF parts = <<>> THEN <<>> ELSE <<whole(parts)>>)

PeerSends(x) ==
  /\ ~remote[x].closed /\ ~remote[x].gone /\ script[x] # <<>>
  /\ script' = [script EXCEPT ![x] = Tail(@)]
  /\ LET m == Head(script[x])
     IN remote' = [remote EXCEPT ![x].tx = @ \o m, ![x].sent = @ \o MessagesOf(m)]
  /\ UNCHANGED <<ws, link, held>>

\* A peer closes, and answers a close or an error with one.
PeerCloses(x) ==
  /\ ~remote[x].closed /\ ~remote[x].gone
  /\ \E n \in CloseSizes :
       remote' = [remote EXCEPT ![x].tx = Append(@, Frame("close", n, TRUE)),
                                ![x].closed = TRUE]
  /\ UNCHANGED <<ws, link, held, script>>

\* A peer disappears; after a close of both it may at any time.
PeerGone(x) ==
  /\ ws[x].pc # "ended" /\ ~remote[x].gone
  /\ IF remote[x].closed /\ remote[x].rxClosed THEN UNCHANGED script ELSE Once("gone")
  /\ remote' = [remote EXCEPT ![x].gone = TRUE]
  /\ UNCHANGED <<ws, link, held>>

StartHandoff(x) ==
  /\ held = "none" /\ ws[x].pc = "run" /\ Len(link[x]) < QueueMax /\ Once("handoff")
  /\ link' = [link EXCEPT ![x] = Append(@, Plain("handoffStart"))]
  /\ held' = x
  /\ UNCHANGED <<ws, remote>>

EndHandoff ==
  /\ held # "none" /\ ws[held].pc \in {"paused", "ended"}
  /\ link' = [link EXCEPT ![held] = Append(@, Plain("keepAlive"))]
  /\ held' = "none"
  /\ UNCHANGED <<ws, remote, script>>

\* The select of stream_websocket and of server_stream_websocket.
Loop(x) ==
  \/ WsCredit(x) \/ WsRecv(x) \/ AddToRecvBuffer(x) \/ WsSend(x) \/ WsMsg(x)
  \/ WsFlush(x) \/ WsAcceptHandoff(x) \/ WsResume(x) \/ WsFinished(x)

StreamWebsocket == Loop("srv")
ServerStreamWebsocket == Loop("cli")

Terminated ==
  /\ \A x \in Sides : ws[x].pc \in {"ended", "panic"}
  /\ UNCHANGED vars

Next ==
  \/ StreamWebsocket \/ ServerStreamWebsocket
  \/ \E x \in Sides :
       WsTimeout(x) \/ PeerSends(x) \/ PeerCloses(x) \/ PeerGone(x) \/ StartHandoff(x)
  \/ EndHandoff \/ Terminated

\* The tasks of the connections run, session timers fire, a peer answers a
\* close or an error, and the handler ends the handoffs it starts.
Fairness ==
  /\ WF_vars(StreamWebsocket) /\ WF_vars(ServerStreamWebsocket) /\ WF_vars(EndHandoff)
  /\ WF_vars(\E x \in Sides : WsTimeout(x) \/ ((remote[x].rxClosed \/ remote[x].bad) /\ PeerCloses(x)))

Spec == Init /\ [][Next]_vars /\ Fairness

(***************************************************************************)
(* Properties                                                              *)
(***************************************************************************)
TypeOK ==
  /\ \A x \in Sides :
       /\ ws[x].pc \in {"run", "flush", "paused", "ended", "panic"}
       /\ ws[x].state \in {"Connected", "PeerClosed", "Closing", "Finished"}
       /\ ws[x].credits \in Nat /\ ws[x].outCredits \in Nat
       /\ Used(ws[x]) \in 0 .. ws[x].cap /\ Len(ws[x].items) <= MessagesMax
  /\ held \in Sides \cup {"none"}

DataOf(messages) == SelectSeq(messages, LAMBDA m : m.op = "data")

\* The messages a peer receives are the messages the other peer sent, whole,
\* in order and none twice, and the frames they come in are a legal sequence,
\* whatever was cut or put between them.  The code gets two things wrong, and
\* nothing else: an empty last part is not sent when the frame before it was
\* begun as one that is not the last (unsent: websocket.rs:1202-1320, the message
\* does not end), and a control frame with more payload than there are credits
\* goes on as several (split: connection.rs:2632-2698).
MessagesInOrder ==
  \A x \in Sides : "unsent" \notin ws[x].slips =>
    /\ ~remote[x].bad
    /\ IsPrefix(DataOf(remote[x].rcvd), DataOf(remote[Peer(x)].sent))
    /\ "split" \notin ws[Peer(x)].slips => IsPrefix(remote[x].rcvd, remote[Peer(x)].sent)

\* No assertion of websocket.rs or of the message tracker fails.
NoPanic == \A x \in Sides : ws[x].pc # "panic"

\* The credits of one side never let the other one send what does not fit:
\* only more messages than the tracker counts are too many.
NoOverrun ==
  \A x \in Sides : ws[x].err = "BufferExceeded" => Len(ws[x].items) = MessagesMax

\* When a peer closes, both connections end, unless a control frame was split:
\* then what is left of it, if it is the close itself, is never read.
CloseCompletes ==
  (\E x \in Sides : remote[x].closed) ~>
    \/ \A x \in Sides : ws[x].pc = "ended"
    \/ \E x \in Sides : "split" \in ws[x].slips

\* Neither half fails by itself: no assertion, and no more bytes or messages
\* than the credits allowed.
NoFailure == NoPanic /\ NoOverrun

-----------------------------------------------------------------------------
(* An instance for TLC: a message in three frames, the last one empty, a   *)
(* ping, and a ping between the parts of a message; two messages of one    *)
(* peer, one of each, and one message with a handoff or a peer that goes.  *)

InParts == <<Frame("data", 2, FALSE), Frame("cont", 1, FALSE), Frame("cont", 0, TRUE)>>
Ping == <<Frame("ping", 2, TRUE)>>
PingBetween == <<Frame("data", 1, FALSE), Frame("ping", 1, TRUE), Frame("cont", 1, TRUE)>>

Script(srv, cli, handoff, gone) == [srv |-> srv, cli |-> cli, handoff |-> handoff, gone |-> gone]

SomeScripts ==
  {Script(two, <<>>, FALSE, FALSE) : two \in {<<InParts, InParts>>, <<Ping, InParts>>, <<InParts, PingBetween>>}}
    \cup {Script(<<one>>, <<>>, TRUE, FALSE) : one \in {InParts, Ping}}
    \cup {Script(<<InParts>>, <<Ping>>, FALSE, FALSE), Script(<<InParts>>, <<>>, FALSE, TRUE)}
=============================================================================
