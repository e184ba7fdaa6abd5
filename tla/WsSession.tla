------------------------------ MODULE WsSession ------------------------------
(***************************************************************************)
(* The handler's side of a WebSocket connection: the session               *)
(* (src/handler/wssession.cpp) and how the engine treats the control items *)
(* that the proxy sends for it (wsControlIn_readyRead of                   *)
(* src/handler/handlerengine.cpp).                                         *)
(*                                                                         *)
(* A handler of the code is an operator from a record x to a record, with  *)
(*   x.s      the session, None if the engine has none                     *)
(*   x.index  the channels under which the engine has the session          *)
(*   x.out    the items it has sent to the proxy                           *)
(* What messages say, metadata, session ids and statistics are left out.   *)
(***************************************************************************)
EXTENDS Integers, Sequences, FiniteSets

CONSTANTS
    Channels,
    SubMax,        \* connectionSubscriptionMax
    Debug,         \* the route's debug flag
    None

\* A control item: its type, request id and what it is about.
Item(type, req, arg) == [type |-> type, req |-> req, arg |-> arg]

\* A GRIP control message, and a published item.
Grip(kind, channel) == [kind |-> kind, channel |-> channel]
Published(channel, action) == [channel |-> channel, action |-> action]

NewSession ==
    [channels |-> {}, implicitChannels |-> {}, keepAliveMessage |-> FALSE,
     nextReqId |-> 0, pendingRequests |-> {}, requestTimer |-> FALSE,
     delayedTimer |-> FALSE,
     publishQueue |-> <<>>, filters |-> FALSE, inProcess |-> FALSE, closed |-> FALSE]

Send(x, item) == [x EXCEPT !.out = Append(@, item)]

-----------------------------------------------------------------------------
(* Requests: delayed messages, which the proxy acknowledges                *)

SetupRequestTimer(s) == [s EXCEPT !.requestTimer = s.pendingRequests # {}]

DelayedTimeout(x) ==
    LET r == x.s.nextReqId
        s == [x.s EXCEPT !.nextReqId = r + 1, !.pendingRequests = @ \cup {r},
                         !.delayedTimer = FALSE]
    IN  Send([x EXCEPT !.s = SetupRequestTimer(s)], Item("Send", r, "queue"))

FlushDelayed(x) == IF x.s.delayedTimer THEN DelayedTimeout(x) ELSE x

SendDelayed(x) == [FlushDelayed(x) EXCEPT !.s.delayedTimer = TRUE]

Ack(x, r) ==
    IF r \in x.s.pendingRequests
    THEN [x EXCEPT !.s = SetupRequestTimer([x.s EXCEPT !.pendingRequests = @ \ {r}])]
    ELSE x

-----------------------------------------------------------------------------
(* Publishing                                                              *)

SendCloseError(x) == Send([x EXCEPT !.s.closed = TRUE], Item("Close", None, None))

LoopContinues(s) == ~s.closed /\ s.publishQueue # <<>> /\ ~s.filters

\* The loop of processPublishQueue() goes on, if it may.
Resume(s) == [s EXCEPT !.inProcess = LoopContinues(s)]

Publish(x, item) == [x EXCEPT !.s = Resume([x.s EXCEPT !.publishQueue = Append(@, item)])]

\* The item at the head is looked up in the session's channels, which makes an
\* entry for a channel that the session has left since.
LookUp(s) == [s EXCEPT !.channels = @ \cup {Head(s.publishQueue).channel}]

\* Its filters start.  That they may finish at once is their finishing next.
StartFilters(x) == [x EXCEPT !.s = Resume([LookUp(x.s) EXCEPT !.filters = TRUE])]

\* The item's content filters do not match those of the channel.
Mismatch(x) ==
    LET y == IF Debug THEN SendCloseError(x) ELSE x
    IN  [y EXCEPT !.s = Resume([LookUp(y.s) EXCEPT !.publishQueue = Tail(@)])]

\* afterFilters() with an item that is not dropped.
AfterFilters(x, item) ==
    CASE item.action = "send" -> Send(x, Item("Send", None, "drop"))
      [] item.action = "close" -> Send([x EXCEPT !.s.closed = TRUE], Item("Close", None, None))
      [] item.action = "refresh" -> Send(x, Item("Refresh", None, None))
      [] OTHER -> x

\* The filters of the item at the head finish with a result.
FiltersFinished(x, result) ==
    LET item == Head(x.s.publishQueue)
        y == [x EXCEPT !.s.publishQueue = Tail(@), !.s.filters = FALSE]
        z == CASE result = "error" /\ Debug -> SendCloseError(y)
               [] result = "send" -> AfterFilters(y, item)
               [] OTHER -> y
    IN  [z EXCEPT !.s = Resume(@)]

-----------------------------------------------------------------------------
(* The engine                                                              *)

\* removeWsSession(): the index is cleared of the session's channels.
RemoveSession(x) == [x EXCEPT !.s = None, !.index = @ \ x.s.channels]

AddChannel(x, c) == [x EXCEPT !.s.channels = @ \cup {c}, !.index = @ \cup {c}]

Subscribe(x, c) ==
    IF Cardinality(x.s.channels) < SubMax THEN AddChannel(x, c) ELSE x

\* Mutant: an implicit channel can be left.
MutUnsubscribe(x, c) == [x EXCEPT !.s.channels = @ \ {c}, !.index = @ \ {c}]

Unsubscribe(x, c) ==
    IF c \in x.s.implicitChannels THEN x
    ELSE [x EXCEPT !.s.channels = @ \ {c}, !.index = @ \ {c}]

\* A GRIP control message of the origin server.
HandleGrip(x, g) ==
    CASE g.kind = "subscribe" -> Subscribe(x, g.channel)
      [] g.kind = "too-many-filters" /\ Cardinality(x.s.channels) < SubMax -> SendCloseError(x)
      [] g.kind = "unsubscribe" -> Unsubscribe(x, g.channel)
      [] g.kind \in {"keep-alive", "no-keep-alive"} ->
            [x EXCEPT !.s.keepAliveMessage = g.kind = "keep-alive"]
      [] g.kind = "send-delayed" -> SendDelayed(x)
      [] g.kind = "flush-delayed" -> FlushDelayed(x)
      [] OTHER -> x

\* The items that answer an item, written together when all is done.
OutItems(x, i) ==
    LET ack == IF i.type # "Ack" /\ i.req # None THEN <<Item("Ack", i.req, None)>> ELSE <<>>
    IN  ack \o
        CASE i.type = "Here" -> <<>>
          [] i.type # "Here" /\ x.s = None -> <<Item("Cancel", None, None)>>
          [] i.type = "Grip" /\ x.s # None /\ i.arg.kind = "detach" ->
                <<Item("Detach", None, None)>>
          [] i.type = "Grip" /\ x.s # None /\ i.arg.kind \in {"keep-alive", "no-keep-alive"} ->
                <<Item("KeepAliveSetup", None, i.arg.kind = "keep-alive")>>
          [] i.type = "NeedKeepAlive" /\ x.s # None /\ x.s.keepAliveMessage ->
                <<Item("Send", None, "drop")>>
          [] OTHER -> <<>>

\* wsControlIn_readyRead() for an item.
Handle(x, i) ==
    LET y == CASE i.type = "Here" -> [x EXCEPT !.s = IF @ = None THEN NewSession ELSE @]
               [] i.type # "Here" /\ x.s = None -> x
               [] i.type \in {"Gone", "Cancel"} /\ x.s # None -> RemoveSession(x)
               [] i.type = "Grip" /\ x.s # None -> HandleGrip(x, i.arg)
               [] i.type = "Subscribe" /\ x.s # None ->
                     [AddChannel(x, i.arg) EXCEPT !.s.implicitChannels = @ \cup {i.arg}]
               [] i.type = "Ack" /\ x.s # None -> Ack(x, i.req)
               [] OTHER -> x
    IN  [y EXCEPT !.out = @ \o OutItems(x, i)]

\* requestTimer_timeout(): the connection is given up.
RequestTimeout(x) == RemoveSession(Send(x, Item("Cancel", None, None)))
=============================================================================
