------------------------------ MODULE WsControl ------------------------------
(***************************************************************************)
(* A WebSocket connection between the proxy, which has the client, and the *)
(* handler, which has the subscriptions.  They exchange control items over *)
(* three queues in order: one that any handler reads, for the              *)
(* announcement, and one each way between the proxy and the handler that   *)
(* answered it.  Items may be lost and the handler may be restarted.       *)
(***************************************************************************)
EXTENDS WsControlSession

CONSTANTS
    Grips,         \* GRIP control messages of the origin server
    PublishActions,
    FilterResults,
    ReqMax,        \* bound on the proxy's requests
    FrameMax,      \* bound on the origin server's content frames and keep-alives
    PublishMax,    \* bound on publishes
    LossMax        \* bound on items lost and restarts

GripKinds ==
    {"subscribe", "too-many-filters", "unsubscribe", "keep-alive", "no-keep-alive",
     "send-delayed", "flush-delayed", "detach"}

\* The sessions of the two sides, and the items that each is sent.
PublishedItem == [channel : Channels, action : PublishActions]
HandlerSession ==
    [channels : SUBSET Channels, implicitChannels : SUBSET Channels, keepAliveMessage : BOOLEAN,
     nextReqId : Nat, pendingRequests : SUBSET Nat, requestTimer : BOOLEAN,
     delayedTimer : BOOLEAN,
     publishQueue : Seq(PublishedItem), filters : BOOLEAN, inProcess : BOOLEAN, closed : BOOLEAN]
InitItem == [type : {"Here"}, req : {0}, arg : {None}]
HandlerItem ==
    [type : {"Gone", "Cancel", "NeedKeepAlive", "KeepAlive"}, req : {None}, arg : {None}]
      \cup [type : {"Ack"}, req : Nat, arg : {None}]
      \cup [type : {"Subscribe"}, req : Nat, arg : Channels]
      \cup [type : {"Grip"}, req : Nat, arg : Grips]
ProxyItem ==
    [type : {"Ack"}, req : Nat, arg : {None}]
      \cup [type : {"Close", "Refresh", "Cancel", "Detach"}, req : {None}, arg : {None}]
      \cup [type : {"Send"}, req : Nat \cup {None}, arg : {"queue", "drop"}]
      \cup [type : {"KeepAliveSetup"}, req : {None}, arg : BOOLEAN]
ControlSession ==
    [peer : BOOLEAN, nextReqId : Nat, pendingItems : Seq(HandlerItem),
     pendingRequests : SUBSET Nat, requestTimer : BOOLEAN,
     pendingSendEventWrites : Seq(Nat \cup {None}),
     outReadInProgress : BOOLEAN, queuedInFrames : Seq(Nat \cup {None}),
     inPendingFrames : Seq(Nat \cup {None}),
     keepAlive : BOOLEAN, detached : BOOLEAN, connected : BOOLEAN]

ASSUME WsControlAssumption ==
    /\ Implicit \in Seq(Channels)
    /\ SubMax \in Nat /\ Debug \in BOOLEAN
    /\ PublishActions \subseteq {"send", "close", "refresh"}
    /\ FilterResults \subseteq {"send", "drop", "error", "mismatch"}
    /\ Grips \subseteq [kind : GripKinds, channel : Channels \cup {None}]
    /\ \A g \in Grips : g.kind \in {"subscribe", "unsubscribe"} => g.channel \in Channels
    /\ {ReqMax, FrameMax, PublishMax, LossMax} \subseteq Nat
    /\ None \notin Nat \cup HandlerSession \cup ControlSession
    /\ Gone \notin ControlSession \cup {None}

VARIABLES
    s,             \* the handler's session, None without one
    index,         \* channels under which the engine has the session
    limiter,       \* published items that wait in the rate limiter
    p,             \* the proxy's session: None, a record, then Gone
    toInit, toHandler, toProxy,
    published,     \* how many items have been published
    frames,        \* how many content frames and keep-alives there have been
    lost,          \* how many items were lost, and restarts
    gaveUp,        \* history: the handler gave up waiting for a request
    requests,      \* history: what the proxy's requests were about, by their id
    refused        \* history: channels last refused for their number

handlerVars == <<s, index, limiter, published, gaveUp, refused>>
proxyVars == <<p, toInit, frames, requests>>
vars == <<handlerVars, proxyVars, toHandler, toProxy, lost>>

Alive == p \notin {None, Gone}

Init ==
    /\ s = None /\ index = {} /\ limiter = <<>>
    /\ p = None
    /\ toInit = <<>> /\ toHandler = <<>> /\ toProxy = <<>>
    /\ published = 0 /\ frames = 0 /\ lost = 0
    /\ gaveUp = FALSE /\ requests = <<>> /\ refused = {}

-----------------------------------------------------------------------------
(* The proxy                                                               *)

ProxyState == [p |-> p, init |-> toInit, out |-> toHandler]

Proxy(x) == p' = x.p /\ toInit' = x.init /\ toHandler' = x.out

\* Counts and history are dropped with the session.
Keep(f, r) ==
    /\ frames' = IF p' = Gone THEN 0 ELSE f
    /\ requests' = IF p' = Gone THEN <<>> ELSE r

ProxyOnly(x) == Proxy(x) /\ UNCHANGED <<handlerVars, toProxy, lost>>

Start ==
    /\ p = None
    /\ ProxyOnly(StartControl(ProxyState))
    /\ Keep(frames, [n \in DOMAIN Implicit |-> Grip("implicit", Implicit[n])])

\* What the origin server sends is read while the client can be written to, and
\* when detached only to the end of a message.
SendGrip(g) ==
    /\ Alive /\ p.connected
    /\ ~p.detached /\ ~p.outReadInProgress
    /\ p.nextReqId < ReqMax
    /\ ProxyOnly(ReadOutGrip(ProxyState, g))
    /\ Keep(frames, Append(requests, g))

OriginFrame(more) ==
    /\ Alive /\ p.connected
    /\ p.detached => p.outReadInProgress
    /\ frames < FrameMax
    /\ ProxyOnly(ReadOutContent(ProxyState, more))
    /\ Keep(frames + 1, requests)

\* The client has been idle and is to be sent a keep-alive message.
NeedKeepAlive ==
    /\ Alive /\ p.keepAlive
    /\ frames < FrameMax
    /\ ProxyOnly(Write(ProxyState, Item("NeedKeepAlive", None, None)))
    /\ Keep(frames + 1, requests)

\* The manager's refresh_timeout() keeps the session alive at the handler.
\* Bound: it happens only while nothing is under way between the two.
Refresh ==
    /\ Alive /\ p.peer
    /\ toHandler = <<>> /\ toProxy = <<>>
    /\ ProxyOnly(Write(ProxyState, Item("KeepAlive", None, None)))
    /\ Keep(frames, requests)

ClientWritten ==
    /\ Alive /\ p.inPendingFrames # <<>>
    /\ ProxyOnly(FramesWritten(ProxyState))
    /\ Keep(frames, requests)

\* The connection to the client closes, and the session is finished.
ClientCloses ==
    /\ Alive /\ p.connected
    /\ ProxyOnly([ProxyState EXCEPT !.p.connected = FALSE])
    /\ Keep(frames, requests)

Finish == Alive /\ ProxyOnly(End(ProxyState)) /\ Keep(frames, requests)

ControlTimeout ==
    /\ Alive /\ p.requestTimer
    /\ ProxyOnly(End(ProxyState))
    /\ Keep(frames, requests)

ProxyReceive ==
    /\ toProxy # <<>>
    /\ \/ /\ Alive
          /\ \E blocked \in BOOLEAN : Proxy(HandleEvent(ProxyState, Head(toProxy), blocked))
       \/ /\ ~Alive
          /\ Proxy(HandleUnknown(ProxyState, Head(toProxy)))
    /\ toProxy' = Tail(toProxy)
    /\ Keep(frames, requests)
    /\ UNCHANGED <<handlerVars, lost>>

-----------------------------------------------------------------------------
(* The handler                                                             *)

HandlerState == [s |-> s, index |-> index, out |-> toProxy]

Handler(x) ==
    /\ s' = x.s /\ index' = x.index /\ toProxy' = x.out

\* The published items of a session that is gone are passed over when their
\* turn comes.
Leaves(x, r) ==
    /\ limiter' = IF x.s = None THEN <<>> ELSE limiter
    /\ refused' = IF x.s = None THEN {} ELSE r

\* History: what becomes of refused channels by an item.
Refusals(i) ==
    IF i.type = "Grip" /\ i.arg.kind = "subscribe" /\ s # None
    THEN IF Cardinality(s.channels) < SubMax
         THEN refused \ {i.arg.channel} ELSE refused \cup {i.arg.channel}
    ELSE refused

Idle == s # None => ~s.inProcess

ReceiveInit ==
    /\ Idle /\ toInit # <<>>
    /\ Handler(Handle(HandlerState, Head(toInit)))
    /\ toInit' = Tail(toInit)
    /\ UNCHANGED <<limiter, published, gaveUp, refused, p, frames, requests, toHandler, lost>>

Receive ==
    /\ Idle /\ toHandler # <<>>
    /\ LET x == Handle(HandlerState, Head(toHandler))
       IN  Handler(x) /\ Leaves(x, Refusals(Head(toHandler)))
    /\ toHandler' = Tail(toHandler)
    /\ UNCHANGED <<published, gaveUp, proxyVars, lost>>

\* The proxy keeps its sessions alive well within their time to live.
Expire ==
    /\ Idle /\ s # None
    /\ p = Gone \/ lost > 0
    /\ LET x == RemoveSession(HandlerState) IN Handler(x) /\ Leaves(x, refused)
    /\ UNCHANGED <<published, gaveUp, proxyVars, toHandler, lost>>

DelayedTimer ==
    /\ Idle /\ s # None /\ s.delayedTimer
    /\ Handler(DelayedTimeout(HandlerState))
    /\ UNCHANGED <<limiter, published, gaveUp, refused, proxyVars, toHandler, lost>>

RequestTimer ==
    /\ Idle /\ s # None /\ s.requestTimer
    /\ LET x == RequestTimeout(HandlerState) IN Handler(x) /\ Leaves(x, refused)
    /\ gaveUp' = TRUE
    /\ UNCHANGED <<published, proxyVars, toHandler, lost>>

\* An item is published to a channel under which the engine has the session.
ItemReady(c, action) ==
    /\ Idle /\ c \in index
    /\ published < PublishMax
    /\ published' = published + 1
    /\ limiter' = Append(limiter, Published(c, action))
    /\ UNCHANGED <<s, index, gaveUp, refused, proxyVars, toHandler, toProxy, lost>>

PublishNext ==
    /\ Idle /\ limiter # <<>>
    /\ Handler(Publish(HandlerState, Head(limiter)))
    /\ limiter' = Tail(limiter)
    /\ UNCHANGED <<published, gaveUp, refused, proxyVars, toHandler, lost>>

ProcessQueue ==
    /\ ~Idle
    /\ \/ Handler(StartFilters(HandlerState))
       \/ "mismatch" \in FilterResults /\ Handler(Mismatch(HandlerState))
    /\ UNCHANGED <<limiter, published, gaveUp, refused, proxyVars, toHandler, lost>>

FinishFilters(result) ==
    /\ Idle /\ s # None /\ s.filters
    /\ Handler(FiltersFinished(HandlerState, result))
    /\ UNCHANGED <<limiter, published, gaveUp, refused, proxyVars, toHandler, lost>>

-----------------------------------------------------------------------------
(* Failures                                                                *)

Lose ==
    /\ lost < LossMax
    /\ lost' = lost + 1
    /\ \/ /\ toInit # <<>> /\ toInit' = Tail(toInit)
          /\ UNCHANGED <<toHandler, toProxy>>
       \/ /\ toHandler # <<>> /\ toHandler' = Tail(toHandler)
          /\ UNCHANGED <<toInit, toProxy>>
       \/ /\ toProxy # <<>> /\ toProxy' = Tail(toProxy)
          /\ UNCHANGED <<toInit, toHandler>>
    /\ UNCHANGED <<handlerVars, p, frames, requests>>

Restart ==
    /\ lost < LossMax
    /\ lost' = lost + 1
    /\ s' = None /\ index' = {} /\ limiter' = <<>> /\ refused' = {}
    /\ UNCHANGED <<published, gaveUp, proxyVars, toHandler, toProxy>>

Next ==
    \/ Start \/ Finish \/ ClientCloses \/ ClientWritten \/ ControlTimeout
    \/ NeedKeepAlive \/ Refresh \/ ProxyReceive
    \/ \E g \in Grips : SendGrip(g)
    \/ \E more \in BOOLEAN : OriginFrame(more)
    \/ ReceiveInit \/ Receive \/ Expire \/ DelayedTimer \/ RequestTimer
    \/ \E c \in Channels, action \in PublishActions : ItemReady(c, action)
    \/ PublishNext \/ ProcessQueue
    \/ \E result \in FilterResults \ {"mismatch"} : FinishFilters(result)
    \/ Lose \/ Restart

Spec == Init /\ [][Next]_vars

\* Items that are not lost arrive, sessions are refreshed again and again, and
\* those that are not expire.
FairSpec ==
    /\ Spec
    /\ WF_vars(ReceiveInit) /\ WF_vars(Receive) /\ WF_vars(ProxyReceive)
    /\ WF_vars(ProcessQueue) /\ WF_vars(p = Gone /\ Expire) /\ WF_vars(Refresh)

-----------------------------------------------------------------------------
(* Properties                                                              *)

\* Types of the two sessions, and of the queues between them.
TypeOK ==
    /\ s \in {None} \cup HandlerSession
    /\ p \in {None, Gone} \cup ControlSession
    /\ index \subseteq Channels /\ refused \subseteq Channels
    /\ limiter \in Seq(PublishedItem)
    /\ toInit \in Seq(InitItem) /\ toHandler \in Seq(HandlerItem)
    /\ toProxy \in Seq(ProxyItem)
    /\ requests \in Seq(Grips \cup [kind : {"implicit"}, channel : Channels])
    /\ published \in Nat /\ frames \in Nat /\ lost \in Nat /\ gaveUp \in BOOLEAN

\* The engine's index names only a session that exists, and only channels the
\* session has: removing the session clears the index by those, so that any
\* other entry would be left pointing at a deleted session.
IndexHasSession == index \subseteq (IF s = None THEN {} ELSE s.channels)

\* A connection is cancelled only after an item was lost, the handler was
\* restarted or it gave up waiting: the announcement and the items that follow
\* it take different ways, and none may overtake it.
CancelOnlyAfterLoss ==
    Alive /\ lost = 0 /\ ~gaveUp => \A n \in DOMAIN toProxy : toProxy[n].type # "Cancel"

\* Channels whose subscription the proxy saw acknowledged and that nobody has
\* asked to leave since.  Implicit channels are not left.
Subscribed ==
    LET Acked == {r \in DOMAIN requests : r \notin p.pendingRequests}
    IN  {requests[r].channel : r \in
            {q \in Acked : requests[q].kind \in {"implicit", "subscribe"}
                           /\ (requests[q].kind = "implicit"
                               \/ \A n \in q..Len(requests) :
                                     requests[n] # Grip("unsubscribe", requests[q].channel))}}

\* A handler that has the session has every subscription that the proxy saw
\* acknowledged, lost items or not, but those it refused for their number.
AckedIsApplied == Alive /\ s # None => Subscribed \subseteq index \cup refused

\* Published items never get stuck: while some are queued filters are running
\* that will go on with the queue, for the first of them.
QueueIsServed ==
    s # None /\ Idle =>
        /\ s.filters => s.publishQueue # <<>>
        /\ s.publishQueue # <<>> => s.filters \/ s.closed

\* The assertion in sendEventWritten(), "!pendingSendEventWrites.isEmpty()": a
\* frame that came from a send event is written to the client only once, when
\* the send still waits for that. It does not hold: queuedInFrames is never
\* emptied, so a delayed message that came within another one is sent again.
WritesArePending == Alive => Len(p.inPendingFrames) <= Len(p.pendingSendEventWrites)

\* When the connection is gone the handler's session goes too, whatever was
\* lost, and the two sides stop talking about it.
OrphansEnd ==
    p = Gone ~> s = None /\ index = {} /\ toHandler = <<>> /\ toProxy = <<>>

\* A handler that has lost the session makes the proxy close the connection:
\* "Client will need to retry to repair".
LossIsNoticed == (Alive /\ p.peer /\ s = None) ~> p = Gone

\* The handler keeps what it has promised: the subscriptions it acknowledged,
\* under a session that exists, and the items it has queued.
HandlerKeeps == IndexHasSession /\ AckedIsApplied /\ QueueIsServed

\* Neither side outlives the other for ever (OrphansEnd, LossIsNoticed).
BothEnd == OrphansEnd /\ LossIsNoticed

-----------------------------------------------------------------------------
(* Values for TLC: one channel is implicit, the other is subscribed to by the *)
(* origin server.                                                             *)

TwoChannels == {"a", "b"}
ImplicitA == <<"a">>

\* Two of these follow each other.
ChannelGrips ==
    {Grip("subscribe", "b"), Grip("unsubscribe", "b"), Grip("unsubscribe", "a"),
     Grip("send-delayed", None), Grip("keep-alive", None)}

\* One of these.
AllGrips ==
    ChannelGrips \cup
    {Grip("too-many-filters", "b"), Grip("flush-delayed", None),
     Grip("no-keep-alive", None), Grip("detach", None)}
=============================================================================
