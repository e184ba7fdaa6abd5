-------------------------- MODULE WsControlSession --------------------------
(***************************************************************************)
(* The proxy's side of a WebSocket connection: the control session         *)
(* (src/proxy/wscontrolsession.cpp) and how the proxy session reacts to    *)
(* its events (wsControl_* of src/proxy/wsproxysession.cpp).               *)
(*                                                                         *)
(* A handler of the code is an operator from a record x to a record, with  *)
(*   x.p     the control session, Gone after its end                       *)
(*   x.init  the items written to the init socket, which any handler reads *)
(*   x.out   the items written to the handler that has answered            *)
(***************************************************************************)
EXTENDS WsSession

CONSTANTS
    Implicit,      \* the channels of the route's target, a sequence
    Gone           \* the control session after its end

NewControlSession ==
    [peer |-> FALSE, nextReqId |-> 0, pendingItems |-> <<>>,
     pendingRequests |-> {}, requestTimer |-> FALSE,
     pendingSendEventWrites |-> <<>>,
     outReadInProgress |-> FALSE, queuedInFrames |-> <<>>, inPendingFrames |-> <<>>,
     keepAlive |-> FALSE, detached |-> FALSE, connected |-> TRUE]

\* Mutant: items are written before it is known which handler has the session.
MutWrite(x, i) == [x EXCEPT !.out = Append(@, i)]

\* write(): an item waits until a handler has answered.
Write(x, i) ==
    IF x.p.peer THEN [x EXCEPT !.out = Append(@, i)]
                ELSE [x EXCEPT !.p.pendingItems = Append(@, i)]

FlushPending(x) == [x EXCEPT !.out = @ \o x.p.pendingItems, !.p.pendingItems = <<>>]

SetupControlTimer(p) == [p EXCEPT !.requestTimer = p.pendingRequests # {}]

\* sendGripMessage() and sendSubscribe(): a request that is to be acknowledged.
Request(x, type, arg) ==
    LET i == Item(type, x.p.nextReqId, arg)
        p == [x.p EXCEPT !.nextReqId = @ + 1, !.pendingRequests = @ \cup {i.req}]
    IN  Write([x EXCEPT !.p = SetupControlTimer(p)], i)

\* The session announces itself to any handler and asks for the implicit
\* subscriptions, which wait until it is known who has answered.  Nothing waits
\* for the answer to the announcement.
StartControl(x) ==
    LET n == Len(Implicit)
        p == [NewControlSession EXCEPT
                !.nextReqId = n + 1, !.pendingRequests = 1 .. n,
                !.pendingItems = [r \in 1 .. n |-> Item("Subscribe", r, Implicit[r])]]
    IN  [x EXCEPT !.p = SetupControlTimer(p), !.init = Append(@, Item("Here", 0, None))]

\* The proxy session is finished and the control session destroyed.
End(x) == [Write(x, Item("Gone", None, None)) EXCEPT !.p = Gone]

-----------------------------------------------------------------------------
(* Sends and frames of the origin server, both written to the client       *)

\* Without a send that waits for this an assertion ends the proxy.
SendEventWritten(x) ==
    IF x.p.pendingSendEventWrites = <<>> THEN [x EXCEPT !.p = Gone]
    ELSE LET r == Head(x.p.pendingSendEventWrites)
             y == [x EXCEPT !.p.pendingSendEventWrites = Tail(@)]
         IN  IF r # None THEN Write(y, Item("Ack", r, None)) ELSE y

\* A send is written to the client, after the message that the origin server is
\* in the middle of.  It counts as written if there is no connection to write
\* to, or it may be dropped and the client is blocked or such a message goes on.
SendEvent(x, i, blocked) ==
    LET y == [x EXCEPT !.p.pendingSendEventWrites = Append(@, i.req)]
    IN  CASE ~y.p.connected
             \/ (i.arg = "drop" /\ (blocked \/ y.p.outReadInProgress)) -> SendEventWritten(y)
          [] y.p.connected /\ i.arg = "queue" /\ y.p.outReadInProgress ->
                [y EXCEPT !.p.queuedInFrames = Append(@, i.req)]
          [] OTHER -> [y EXCEPT !.p.inPendingFrames = Append(@, i.req)]

\* The client was sent the first of the frames that came from send events.
FramesWritten(x) == SendEventWritten([x EXCEPT !.p.inPendingFrames = Tail(@)])

\* The end of tryReadOut()'s loop: between messages the queued frames are
\* written, and stay queued.
WriteQueued(x) ==
    IF x.p.outReadInProgress THEN x
    ELSE [x EXCEPT !.p.inPendingFrames = @ \o x.p.queuedInFrames]

\* A content frame of the origin server, one of more or a message's last.
ReadOutContent(x, more) == WriteQueued([x EXCEPT !.p.outReadInProgress = more])

\* A GRIP control message is a message of one frame.
ReadOutGrip(x, g) == WriteQueued(Request(x, "Grip", g))

-----------------------------------------------------------------------------
(* Events                                                                  *)

\* handle(): the handler that sends an item is the one that has the session.
HandleEvent(x, i, blocked) ==
    LET y == FlushPending([x EXCEPT !.p.peer = TRUE])
    IN  CASE i.type = "Send" -> SendEvent(y, i, blocked)
          [] i.type = "KeepAliveSetup" -> [y EXCEPT !.p.keepAlive = i.arg]
          [] i.type = "Close" -> [y EXCEPT !.p.connected = FALSE]
          [] i.type = "Detach" -> [y EXCEPT !.p.detached = TRUE]
          [] i.type = "Cancel" -> End(y)
          [] i.type = "Ack" /\ i.req \in y.p.pendingRequests ->
                [y EXCEPT !.p = SetupControlTimer([y.p EXCEPT !.pendingRequests = @ \ {i.req}])]
          [] OTHER -> y

\* Mutant: every item for a session that is gone is answered.
MutHandleUnknown(x, i) == [x EXCEPT !.out = Append(@, Item("Cancel", None, None))]

\* An item for a session that is gone.
HandleUnknown(x, i) ==
    IF i.type = "Cancel" THEN x ELSE [x EXCEPT !.out = Append(@, Item("Cancel", None, None))]
=============================================================================
