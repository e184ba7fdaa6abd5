----------------------------- MODULE HttpSession -----------------------------
(***************************************************************************)
(* One held HTTP request in the handler (src/handler/httpsession.cpp).     *)
(*                                                                         *)
(* A response hold waits for one published item and answers with it.  A    *)
(* stream hold writes published items to the client as they come; when a   *)
(* channel has a prev-id, an item that does not follow it makes the session*)
(* fetch the next link, whose response brings the client up to date and    *)
(* holds again.                                                            *)
(*                                                                         *)
(* The session's fields are those of the record s, and the code's methods  *)
(* are operators from records to records, so that a handler is one step.   *)
(* The exception is processPublishQueue(): a round of its loop is a step,  *)
(* and while inProcess (inProcessPublishQueue) is set nothing else runs.   *)
(*                                                                         *)
(* Around the session: an origin, whose log of published items per channel *)
(* grows; the publishes of those items on their way to the session, some   *)
(* of which are lost; the client's side of the request, which grants       *)
(* credit, disconnects or completes; and the table of last ids.            *)
(***************************************************************************)
EXTENDS Integers, Sequences, FiniteSets

CONSTANTS
    Channels,
    Implicit,          \* adata.implicitChannels
    Null,              \* a null id
    None,              \* no item, no request
    FirstInstructs,    \* what the session may be accepted with
    NextInstructs,     \* what a next link may answer
    Actions,           \* what published items ask for: send, hint, close or
                       \* mismatch (of content filters)
    FilterResults,     \* what message filters may answer: send, drop, error
    AsyncFilters,      \* whether they may answer later
    GoneLink,          \* whether the first instruct has a gone link
    Debug,             \* adata.debug
    QueueMax,          \* PUBLISH_QUEUE_MAX
    RetryMax,          \* RETRY_MAX
    LogMax,            \* bound on the origin's logs
    BodyMax,           \* bound on the chunks of a next link's body
    CreditMax          \* bound on the client's write credit

\* An instruct, its channels' prev-ids aside: hold mode, channels, whether it
\* has a next link, a timeout (of the hold, or for keep-alives), a next link
\* timeout, prev-ids on its channels, and a body to send at once.
Instructs == [hold : {"none", "response", "stream"}, names : SUBSET Channels,
              next : BOOLEAN, timeout : BOOLEAN, poll : BOOLEAN,
              ids : BOOLEAN, body : BOOLEAN]

Ids == 0..LogMax
Items == [channel : Channels, id : Ids \cup {Null}, prevId : Ids \cup {Null},
          action : Actions]

\* The ids of some of the channels, and a request to a next or gone link.
Partials == UNION {[D -> Ids \cup {Null}] : D \in SUBSET Channels}
Requests == [dest : {"next", "gone"}, headers : BOOLEAN, ok : BOOLEAN,
             coming : Nat, body : Nat, last : Partials]

ASSUME HttpSessionAssumption ==
    /\ None \notin Requests
    /\ Implicit \subseteq Channels
    /\ FirstInstructs \subseteq Instructs
    /\ \A i \in FirstInstructs : i.hold = "none" => i.next
    /\ NextInstructs \subseteq Instructs
    /\ Actions \subseteq {"send", "hint", "close", "mismatch"}
    /\ FilterResults \subseteq {"send", "drop", "error"}
    /\ AsyncFilters \in BOOLEAN /\ GoneLink \in BOOLEAN /\ Debug \in BOOLEAN
    /\ QueueMax \in Nat \ {0} /\ RetryMax \in Nat /\ LogMax \in Nat
    /\ BodyMax \in Nat /\ CreditMax \in Nat \ {0}

VARIABLES
    s,                 \* the session
    log,               \* per channel, how many items the origin has published
    inflight           \* publishes on their way to the session

vars == <<s, log, inflight>>

States == {"NotStarted", "SendingFirstInstructResponse", "WaitingToUpdate",
           "Pausing", "Proxying", "SendingQueue", "Holding", "Closing",
           "SendingGone", "Finished", "Crashed"}

\* The prev-ids an instruct gives its channels when the origin's logs are at l.
PrevIds(i, l) == [c \in i.names |-> IF i.ids THEN l[c] ELSE Null]

\* The session as it is constructed for instruct i, with the response already
\* begun by the proxy or not, and some write credit of the client's.
NewSession(i, sent, credit) ==
    [state |-> "NotStarted", instruct |-> i, prevIds |-> PrevIds(i, [c \in Channels |-> 0]),
     nextUri |-> i.next,
     channels |-> [c \in {} |-> Null], subscribed |-> {},
     queue |-> <<>>, inProcess |-> FALSE, filtering |-> None,
     needUpdate |-> "no", pendingAction |-> FALSE,
     timer |-> FALSE, retryTimer |-> FALSE, registered |-> FALSE, active |-> {},
     outReq |-> None, sentOutReqData |-> FALSE, retries |-> 0,
     toSend |-> IF i.body THEN BodyMax ELSE 0, credit |-> credit,
     response |-> IF sent THEN "begun" ELSE "none",
     lastIds |-> [c \in Channels |-> Null],
     \* What the client has of each channel that is held, and whether the request
     \* object was misused, an assertion failed, an item was skipped or repeated,
     \* or the client's credit started a next link that was waiting for its retry.
     has |-> [c \in (IF i.hold = "none" THEN {} ELSE i.names) |->
                 PrevIds(i, [d \in Channels |-> 0])[c]],
     misuse |-> FALSE, assertion |-> FALSE, skipped |-> FALSE, early |-> FALSE]

Init ==
    /\ \E i \in FirstInstructs, sent \in BOOLEAN, credit \in 1..CreditMax :
          /\ sent => i.hold # "response" /\ ~i.body
          /\ s = NewSession(i, sent, credit)
    /\ log = [c \in Channels |-> 0]
    /\ inflight = <<>>

-----------------------------------------------------------------------------
(* The client's request object, as the session uses it                     *)

BeginResponse(x) ==
    [x EXCEPT !.response = "begun", !.misuse = @ \/ x.response # "none"]

\* A write of one chunk or item; it is written even past the credit.
WriteBody(x) ==
    [x EXCEPT !.credit = IF @ > 0 THEN @ - 1 ELSE 0,
              !.misuse = @ \/ x.response # "begun"]

EndBody(x) ==
    [x EXCEPT !.response = "ended", !.misuse = @ \/ x.response # "begun"]

\* assert(): a false condition ends the process.
Assert(x, condition) ==
    IF condition THEN x ELSE [x EXCEPT !.state = "Crashed", !.assertion = TRUE]

-----------------------------------------------------------------------------
(* Ending                                                                  *)

CleanupOutReq(x) == [x EXCEPT !.outReq = None]

CancelActivities(x) ==
    [x EXCEPT !.outReq = None, !.pendingAction = FALSE, !.queue = <<>>,
              !.timer = FALSE, !.retryTimer = FALSE, !.registered = FALSE]

PrepareToClose(x) == CancelActivities([x EXCEPT !.state = "Closing"])

Respond(x) == EndBody(WriteBody(BeginResponse(PrepareToClose(x))))

DoError(x) ==
    CASE x.instruct.hold = "response" -> Respond(x)
      [] x.instruct.hold # "response" /\ Debug -> EndBody(WriteBody(PrepareToClose(x)))
      [] OTHER -> EndBody(PrepareToClose(x))

\* prepareOutReq() and outReq->start().  A next link request tells the origin
\* the last id of each channel that has a prev-id.
OutReq(x, dest) ==
    [x EXCEPT !.sentOutReqData = FALSE,
              !.outReq = [dest |-> dest, headers |-> FALSE, ok |-> TRUE,
                          coming |-> 0, body |-> 0, last |-> x.channels]]

RequestNextLink(x) == OutReq(x, "next")

Finished(x) == [CancelActivities(x) EXCEPT !.state = "Finished"]

\* doFinish(): every channel is unsubscribed, and the gone link is told.  The
\* retry packet of a paused request is left out.
DoFinish(x) ==
    LET y == [CancelActivities(x) EXCEPT !.subscribed = {}] IN
    IF GoneLink THEN OutReq([y EXCEPT !.state = "SendingGone"], "gone")
                ELSE Finished(y)

-----------------------------------------------------------------------------
(* Updating                                                                *)

DoUpdate(x) ==
    LET y == [x EXCEPT !.pendingAction = FALSE] IN
    IF y.instruct.hold = "response"
    THEN [y EXCEPT !.state = "Pausing", !.timer = FALSE]
    ELSE RequestNextLink([y EXCEPT !.state = "Proxying"])

CancelAction(x) == [x EXCEPT !.pendingAction = FALSE]

\* update() in the Holding state.
UpdateHolding(x, priority) ==
    LET y == [x EXCEPT !.needUpdate = "no"]
        z == [y EXCEPT !.registered = FALSE]
    IN  CASE y.instruct.hold # "response" /\ ~y.nextUri -> y
          [] y.instruct.hold = "response" \/ y.nextUri ->
                IF priority = "high"
                THEN DoUpdate(z)
                ELSE [z EXCEPT !.state = "WaitingToUpdate", !.pendingAction = TRUE]

Update(x, priority) ==
    CASE x.state \in {"Proxying", "SendingQueue"} ->
            [x EXCEPT !.needUpdate = IF priority = "high" \/ @ = "high"
                                     THEN "high" ELSE "low"]
      [] x.state = "WaitingToUpdate" /\ priority = "high" ->
            UpdateHolding([CancelAction(x) EXCEPT !.state = "Holding"], priority)
      [] x.state = "Holding" -> UpdateHolding(x, priority)
      [] OTHER -> x

-----------------------------------------------------------------------------
(* Holding and the publish queue                                           *)

SetupKeepAlive(x) == [x EXCEPT !.timer = @ \/ x.instruct.timeout]

SendQueue(x) ==
    Assert([x EXCEPT !.state = "SendingQueue", !.inProcess = TRUE], ~x.inProcess)

\* Mutant: the prev-id is not looked at.
MutFollows(x, item) == item.channel \in DOMAIN x.channels

\* An item the hold lets through: of a channel of the session's, and following
\* the channel's prev-id if it has one.
Follows(x, item) ==
    /\ item.channel \in DOMAIN x.channels
    /\ x.channels[item.channel] \in {Null, item.prevId}

\* The queue without the items at its front that do not follow the hold.
DropNonMatching(x) ==
    LET follows == {n \in 1..Len(x.queue) : Follows(x, x.queue[n])}
        first == CHOOSE n \in follows : \A m \in follows : n <= m
    IN  [x EXCEPT !.queue = IF follows = {} THEN <<>>
                            ELSE SubSeq(@, first, Len(@))]

\* Channels whose prev-id is not the last id the handler knows of.
Conflicts(x) ==
    {c \in DOMAIN x.prevIds : /\ x.prevIds[c] # Null
                              /\ x.lastIds[c] # Null
                              /\ x.lastIds[c] # x.prevIds[c]}

\* Mutant: the engine is not told of the channels that are gone.
MutSetChannels(x) ==
    LET kept == (Implicit \cap DOMAIN x.channels) \cup DOMAIN x.prevIds
    IN  [x EXCEPT !.channels = [c \in kept |->
                                  IF c \in DOMAIN x.prevIds THEN x.prevIds[c]
                                                            ELSE x.channels[c]],
                  !.subscribed = @ \cup kept]

\* The session's channels are replaced by the instruct's, implicit ones aside,
\* and the engine is told.
SetChannels(x) ==
    LET kept == (Implicit \cap DOMAIN x.channels) \cup DOMAIN x.prevIds
    IN  [x EXCEPT !.channels = [c \in kept |->
                                  IF c \in DOMAIN x.prevIds THEN x.prevIds[c]
                                                            ELSE x.channels[c]],
                  !.subscribed = kept]

StreamHold(x, first) ==
    IF first /\ Conflicts(x) # {}
    THEN Update([x EXCEPT !.state = "Holding",
                          !.lastIds = [c \in Channels |->
                                IF c \in Conflicts(x) THEN Null ELSE @[c]]], "low")
    ELSE SendQueue(DropNonMatching(x))

PrepareToSendQueueOrHold(x, first) ==
    LET y == Assert(x, x.instruct.hold # "none") IN
    CASE y.instruct.hold = "stream" /\ ~y.nextUri /\ \E c \in DOMAIN y.prevIds : y.prevIds[c] # Null
            -> DoError(y)
      [] y.instruct.hold = "response"
            -> [SetChannels(y) EXCEPT !.state = "Holding",
                                      !.timer = @ \/ y.instruct.timeout]
      [] OTHER -> StreamHold(SetChannels(y), first)

FirstInstructResponseDone(x) ==
    IF x.instruct.hold = "none"
    THEN DoUpdate(Assert(x, x.nextUri))
    ELSE PrepareToSendQueueOrHold(x, TRUE)

\* Write as much of the first response as the credit allows.
TryWriteFirstInstructResponse(x) ==
    LET n == IF x.toSend <= x.credit THEN x.toSend ELSE x.credit
        y == [x EXCEPT !.credit = @ - n, !.toSend = @ - n,
                       !.misuse = @ \/ x.response # "begun"]
    IN  CASE x.credit = 0 -> x
          [] x.credit > 0 /\ y.toSend > 0 -> y
          [] x.credit > 0 /\ y.toSend = 0 -> FirstInstructResponseDone(y)

\* Mutant: the session is not registered for the next link timeout.
MutSendQueueDone(x) ==
    LET y == [x EXCEPT !.state = "Holding"]
        z == IF y.instruct.hold = "stream" THEN [SetupKeepAlive(y) EXCEPT !.active = {}] ELSE y
    IN  CASE x.state # "SendingQueue" -> x
          [] x.state = "SendingQueue" /\ z.needUpdate # "no" -> Update(z, z.needUpdate)
          [] OTHER -> z

SendQueueDone(x) ==
    LET y == [x EXCEPT !.state = "Holding"]
        z == IF y.instruct.hold = "stream"
             THEN [SetupKeepAlive(y) EXCEPT
                     !.active = {},
                     !.registered = @ \/ (y.nextUri /\ y.instruct.poll)]
             ELSE y
    IN  CASE x.state # "SendingQueue" -> x
          [] x.state = "SendingQueue" /\ z.needUpdate # "no" -> Update(z, z.needUpdate)
          [] OTHER -> z

\* The client gets an item of a channel whose ids it follows: has[c] is what it
\* has, and the item must be the next one.
ClientGets(x, item) ==
    IF item.channel \in DOMAIN x.has /\ x.has[item.channel] # Null
    THEN [x EXCEPT !.has[item.channel] = item.id,
                   !.skipped = @ \/ item.prevId # x.has[item.channel]]
    ELSE x

\* All the channels had activity: the update timeout starts again.
CountActivity(x, channel) ==
    LET active == x.active \cup {channel} IN
    IF x.nextUri /\ x.instruct.poll
    THEN IF Cardinality(active) = Cardinality(DOMAIN x.channels)
         THEN [x EXCEPT !.active = {}, !.registered = TRUE]
         ELSE [x EXCEPT !.active = active]
    ELSE x

\* A prev-id moves on to the item.
Advance(x, item) ==
    [x EXCEPT !.channels[item.channel] = IF @ # Null THEN item.id ELSE Null]

ProcessItem(x, item, sendAction) ==
    LET c == item.channel
        y == Advance(x, item)
    IN  CASE sendAction = "drop" -> ClientGets(y, item)
          [] sendAction = "send" /\ y.instruct.hold = "response" ->
                CASE item.action = "send" -> Respond(ClientGets(y, item))
                  [] item.action = "hint" -> Update(y, "high")
                  [] OTHER -> ClientGets(y, item)
          [] sendAction = "send" /\ y.instruct.hold = "stream" ->
                CASE item.action = "send" ->
                        CountActivity(SetupKeepAlive(WriteBody(ClientGets(y, item))), c)
                  [] item.action = "hint" -> Update([y EXCEPT !.queue = <<>>], "high")
                  [] item.action = "close" -> EndBody(PrepareToClose(y))
          [] OTHER -> y

\* The message filters of the queue's first item have finished.
MessageFiltersFinished(x, result) ==
    LET item == Head(x.queue)
        y == [x EXCEPT !.queue = Tail(@), !.filtering = None]
    IN  CASE result = "error" /\ Debug -> DoError(y)
          [] result = "error" /\ ~Debug -> y
          [] OTHER -> ProcessItem(y, item, result)

\* A round of the loop in processPublishQueue(); result is what the filters
\* answer, "later" if they do not answer at once.
ProcessQueueHead(x, result) ==
    LET item == Head(x.queue)
        rest == [x EXCEPT !.queue = Tail(@)]
    IN  CASE item.channel \notin DOMAIN x.channels -> rest
          [] item.channel \in DOMAIN x.channels /\ ~Follows(x, item) ->
                Update([x EXCEPT !.lastIds[item.channel] = Null, !.queue = <<>>], "low")
          [] Follows(x, item) /\ item.action = "mismatch" ->
                IF Debug THEN DoError(rest) ELSE rest
          [] OTHER -> IF result = "later" THEN [x EXCEPT !.filtering = item]
                                          ELSE MessageFiltersFinished(x, result)

LoopContinues(x) ==
    x.state = "SendingQueue" /\ x.queue # <<>> /\ x.credit > 0 /\ x.filtering = None

\* processPublishQueue() after its loop.
ProcessQueueEnd(x) ==
    LET y == [x EXCEPT !.inProcess = FALSE] IN
    CASE y.filtering # None -> y
      [] y.filtering = None /\ (y.state # "SendingQueue" \/ y.queue = <<>>) -> SendQueueDone(y)
      [] OTHER -> Assert([y EXCEPT !.timer = FALSE, !.registered = FALSE],
                         y.instruct.hold = "stream")

-----------------------------------------------------------------------------
(* The next link and the gone link                                         *)

OutReqError(x) ==
    LET y == CleanupOutReq(x) IN
    CASE x.state = "Proxying" ->
            IF ~x.sentOutReqData /\ x.retries < RetryMax
            THEN [y EXCEPT !.retries = @ + 1, !.retryTimer = TRUE]
            ELSE DoError(y)
      [] x.state = "SendingGone" -> Finished(y)
      [] OTHER -> Assert(y, FALSE)

\* The client has got all of a next link's response, the last one before a hold:
\* the origin sent what comes after the last ids it was told, up to the prev-ids
\* of the new hold.
ClientGetsResponse(x) ==
    IF x.instruct.hold # "stream" THEN x ELSE
    [x EXCEPT !.has = x.prevIds,
              !.skipped = @ \/ \E c \in DOMAIN x.prevIds \cap DOMAIN x.outReq.last
                                        \cap DOMAIN x.has :
                                  x.has[c] # Null /\ x.outReq.last[c] # x.has[c]]

\* The response is complete: its instruct takes effect.
OutReqDone(x) ==
    LET y == [CleanupOutReq(ClientGetsResponse(x)) EXCEPT
                !.retries = 0, !.nextUri = x.instruct.next,
                !.timer = @ /\ (x.instruct.hold = "stream" => x.instruct.timeout)]
    IN  IF x.instruct.hold = "stream" THEN PrepareToSendQueueOrHold(y, FALSE) ELSE y

\* Mutant: a next link without a hold is not followed.
MutNextOrClose(x) ==
    IF x.state = "Proxying" /\ x.outReq = None /\ ~x.nextUri
    THEN EndBody(PrepareToClose(x))
    ELSE x

\* The end of tryProcessOutReq(): with no hold in force, on to the next link if
\* there is one, and to the end of the response otherwise.
NextOrClose(x) ==
    CASE x.state = "Proxying" /\ x.outReq = None /\ x.nextUri ->
            IF x.credit > 0
            THEN RequestNextLink([x EXCEPT !.early = @ \/ x.retryTimer])
            ELSE x
      [] x.state = "Proxying" /\ x.outReq = None /\ ~x.nextUri -> EndBody(PrepareToClose(x))
      [] OTHER -> x

\* As much of a next link's body as the credit allows is written.
WriteOutReqBody(x) ==
    LET n == IF x.outReq.body <= x.credit THEN x.outReq.body ELSE x.credit IN
    [x EXCEPT !.timer = FALSE, !.credit = @ - n, !.outReq.body = @ - n,
              !.sentOutReqData = @ \/ n > 0,
              !.misuse = @ \/ (n > 0 /\ x.response # "begun")]

\* tryProcessOutReq() in the Proxying state, once the headers are in: write
\* what can be written, then finish if that was all.  The response's filters
\* may fail on what is written, or when they are told of its end.
ProxyBody(x, filterFails) ==
    LET y == WriteOutReqBody(x)
        z == IF x.outReq.body > 0 THEN y ELSE x
    IN  CASE x.outReq.body > 0 /\ x.credit = 0 -> [x EXCEPT !.timer = FALSE]
          [] x.outReq.body > 0 /\ x.credit > 0 /\ filterFails -> DoError(y)
          [] OTHER -> CASE z.outReq.body > 0 \/ z.outReq.coming > 0 -> z
                        [] z.outReq.body = 0 /\ z.outReq.coming = 0 ->
                              IF filterFails THEN DoError(z) ELSE NextOrClose(OutReqDone(z))

TryProcessOutReq(x, filterFails) ==
    CASE x.outReq = None -> NextOrClose(x)
      [] x.outReq # None /\ ~x.outReq.headers -> x
      [] x.outReq # None /\ x.outReq.headers /\ ~x.outReq.ok -> OutReqError(x)
      [] x.outReq # None /\ x.outReq.headers /\ x.outReq.ok ->
            CASE x.state = "Proxying" -> ProxyBody(x, filterFails)
              [] x.state = "SendingGone" ->
                    CASE x.outReq.body > 0 -> OutReqError(x)
                      [] x.outReq.body = 0 /\ x.outReq.coming = 0 ->
                            Finished(CleanupOutReq(x))
                      [] OTHER -> x
              [] OTHER -> Assert(x, FALSE)

\* outReq_readyRead() with the headers of the response: its instruct is taken
\* over at once, whatever the response's code.
AcceptInstruct(x, i) ==
    [x EXCEPT !.instruct = i, !.prevIds = PrevIds(i, log)]

-----------------------------------------------------------------------------
(* Handlers                                                                *)

Running == s.state \notin {"Finished", "Crashed"} /\ ~s.inProcess

Started == Running /\ s.state # "NotStarted"

\* start(): subscribe the implicit channels, begin the response unless the
\* hold is for a response or the proxy has done so, and send the body.
Start ==
    /\ Running
    /\ s.state = "NotStarted"
    /\ LET x == [s EXCEPT !.channels = [c \in Implicit |-> Null],
                          !.subscribed = Implicit]
           y == IF x.response = "none" THEN BeginResponse(x) ELSE x
       IN  \/ /\ s.instruct.hold = "response" \/ s.response = "begun"
              /\ s' = FirstInstructResponseDone(x)
           \/ /\ s.instruct.hold # "response" /\ s.response = "none"
              /\ IF s.toSend > 0
                 THEN \/ s' = TryWriteFirstInstructResponse(
                                  [y EXCEPT !.state = "SendingFirstInstructResponse"])
                      \/ "error" \in FilterResults /\ s' = DoError(y)
                 ELSE s' = FirstInstructResponseDone(y)
    /\ UNCHANGED <<log, inflight>>

\* publish() of an item that reaches the session.
Deliver ==
    /\ Running
    /\ inflight # <<>>
    /\ LET takes == IF s.instruct.hold = "response"
                    THEN {"SendingQueue", "Holding"}
                    ELSE {"WaitingToUpdate", "Proxying", "SendingQueue", "Holding"}
           x == [s EXCEPT !.queue = Append(@, Head(inflight))]
       IN  s' = IF s.state \in takes /\ Len(s.queue) < QueueMax
                THEN IF s.state = "Holding" THEN SendQueue(x) ELSE x
                ELSE s
    /\ inflight' = Tail(inflight)
    /\ UNCHANGED log

\* The loop of processPublishQueue().
ProcessQueue ==
    /\ s.inProcess
    /\ LoopContinues(s)
    /\ \E result \in FilterResults \cup (IF AsyncFilters THEN {"later"} ELSE {}) :
          s' = ProcessQueueHead(s, result)
    /\ UNCHANGED <<log, inflight>>

ProcessQueueStop ==
    /\ s.inProcess
    /\ ~LoopContinues(s)
    /\ s' = ProcessQueueEnd(s)
    /\ UNCHANGED <<log, inflight>>

\* messageFiltersFinished() called later: queue processing resumes.  Taking the
\* first item of an empty queue is undefined; here it ends the process.
FiltersFinished ==
    /\ Running
    /\ s.filtering # None
    /\ IF s.queue = <<>>
       THEN s' = [s EXCEPT !.state = "Crashed"]
       ELSE \E result \in FilterResults :
               LET x == MessageFiltersFinished(s, result) IN
               s' = IF result = "error" /\ Debug THEN x ELSE [x EXCEPT !.inProcess = TRUE]
    /\ UNCHANGED <<log, inflight>>

\* The limiter runs the update action the session waits in.
LimiterUpdate ==
    /\ Running
    /\ s.pendingAction
    /\ s' = DoUpdate(s)
    /\ UNCHANGED <<log, inflight>>

\* update() from outside: the update manager's timeout, or the engine after a
\* recover command or the first subscription of a channel.
PollTimeout ==
    /\ Running
    /\ s.registered
    /\ s' = Update([s EXCEPT !.registered = FALSE], "low")
    /\ UNCHANGED <<log, inflight>>

EngineUpdate ==
    /\ Started
    /\ s' = Update(s, "low")
    /\ UNCHANGED <<log, inflight>>

\* timer_timeout(): the response hold's timeout, or a keep-alive.
TimerTimeout ==
    /\ Running
    /\ s.timer
    /\ LET x == [s EXCEPT !.timer = FALSE] IN
       s' = CASE s.instruct.hold = "response" -> Respond(x)
              [] s.instruct.hold = "stream" -> SetupKeepAlive(WriteBody(x))
              [] s.instruct.hold = "none" -> x
    /\ UNCHANGED <<log, inflight>>

RetryTimeout ==
    /\ Running
    /\ s.retryTimer
    /\ s' = RequestNextLink([s EXCEPT !.retryTimer = FALSE])
    /\ UNCHANGED <<log, inflight>>

\* The answer to a next link or gone link request begins: with an instruct for
\* a next link, which may be unusable, and with some of the body.
OutReqHeaders ==
    /\ Running
    /\ s.outReq # None
    /\ ~s.outReq.headers
    /\ \E ok \in BOOLEAN, body \in 0..BodyMax, coming \in 0..BodyMax, fails \in BOOLEAN :
          LET x == [s EXCEPT !.outReq.headers = TRUE, !.outReq.ok = ok,
                             !.outReq.body = body, !.outReq.coming = coming]
          IN  /\ body + coming <= BodyMax
              /\ fails => "error" \in FilterResults
              /\ IF s.state = "Proxying"
                 THEN \/ s' = DoError(x)
                      \/ \E i \in NextInstructs :
                            s' = IF i.hold = "response" THEN DoError(x)
                                 ELSE TryProcessOutReq(AcceptInstruct(x, i), fails)
                 ELSE s' = TryProcessOutReq(x, fails)
    /\ UNCHANGED <<log, inflight>>

\* More of the body.
OutReqBody ==
    /\ Running
    /\ s.outReq # None
    /\ s.outReq.headers
    /\ s.outReq.coming > 0
    /\ \E fails \in BOOLEAN :
          /\ fails => "error" \in FilterResults
          /\ s' = TryProcessOutReq([s EXCEPT !.outReq.coming = @ - 1, !.outReq.body = @ + 1], fails)
    /\ UNCHANGED <<log, inflight>>

OutReqFails ==
    /\ Running
    /\ s.outReq # None
    /\ s' = OutReqError(s)
    /\ UNCHANGED <<log, inflight>>

-----------------------------------------------------------------------------
(* The client                                                              *)

\* req_writeBytesChanged(): the client grants credit.
ClientCredit ==
    /\ Started
    /\ s.response # "ended"
    /\ s.state \notin {"Pausing", "SendingGone"}
    /\ s.credit < CreditMax
    /\ \E fails \in BOOLEAN :
          LET x == [s EXCEPT !.credit = @ + 1] IN
          /\ fails => "error" \in FilterResults
          /\ s' = CASE x.state = "SendingFirstInstructResponse" -> TryWriteFirstInstructResponse(x)
                    [] x.state = "Proxying" -> TryProcessOutReq(x, fails)
                    [] x.state = "SendingQueue" -> [x EXCEPT !.inProcess = TRUE]
                    [] OTHER -> x
    /\ UNCHANGED <<log, inflight>>

\* req_bytesWritten(): all of the ended response has been written.
ClientDone ==
    /\ Started
    /\ s.response = "ended"
    /\ s.state # "SendingGone"
    /\ s' = DoFinish(s)
    /\ UNCHANGED <<log, inflight>>

\* req_error(): the client is gone.
ClientError ==
    /\ Started
    /\ s.state # "SendingGone"
    /\ s' = DoFinish(s)
    /\ UNCHANGED <<log, inflight>>

\* req_paused(): finish for retry.
ClientPaused ==
    /\ Started
    /\ s.state = "Pausing"
    /\ s' = DoFinish(s)
    /\ UNCHANGED <<log, inflight>>

-----------------------------------------------------------------------------
(* The origin publishes.  The handler's table of last ids follows, if any  *)
(* session is subscribed.  An item is sent to this session if it is        *)
(* subscribed, and may be lost on the way.  A hint has no id: it says that *)
(* there is something to fetch.                                            *)
Publish(c, action) ==
    /\ Running
    /\ log[c] < LogMax
    /\ log' = [log EXCEPT ![c] = @ + 1]
    /\ LET id == IF action = "hint" THEN Null ELSE log[c] + 1
           prevId == IF action = "hint" THEN Null ELSE log[c]
           item == [channel |-> c, id |-> id, prevId |-> prevId, action |-> action]
       IN  \/ /\ s' = [s EXCEPT !.lastIds[c] = id]
              /\ inflight' \in {inflight} \cup
                               (IF c \in s.subscribed THEN {Append(inflight, item)} ELSE {})
           \/ /\ c \notin s.subscribed
              /\ UNCHANGED <<s, inflight>>

Next ==
    \/ Start
    \/ Deliver
    \/ ProcessQueue
    \/ ProcessQueueStop
    \/ FiltersFinished
    \/ LimiterUpdate
    \/ PollTimeout
    \/ EngineUpdate
    \/ TimerTimeout
    \/ RetryTimeout
    \/ OutReqHeaders
    \/ OutReqBody
    \/ OutReqFails
    \/ ClientCredit
    \/ ClientDone
    \/ ClientError
    \/ ClientPaused
    \/ \E c \in Channels, action \in Actions : Publish(c, action)

Spec == Init /\ [][Next]_vars

\* What the event loop and the peers see to: loops and handlers that are due
\* run, timers fire, requests and filters are answered, and a client that keeps
\* its connection keeps reading.  Filters run while queue processing comes and
\* goes with the client's credit, hence the strong fairness.
FairSpec ==
    /\ Spec
    /\ WF_vars(Start \/ ProcessQueue \/ ProcessQueueStop)
    /\ SF_vars(FiltersFinished)
    /\ WF_vars(LimiterUpdate \/ PollTimeout)
    /\ WF_vars(OutReqHeaders \/ OutReqBody \/ RetryTimeout)
    /\ WF_vars(ClientCredit \/ ClientDone)

-----------------------------------------------------------------------------
(* Properties                                                              *)

Over == s.state \in {"Closing", "SendingGone", "Finished", "Crashed"}

\* Types of all the state; the publish queue keeps to PUBLISH_QUEUE_MAX and the
\* retries to RETRY_MAX.
TypeOK ==
    /\ s.state \in States
    /\ s.instruct \in Instructs
    /\ DOMAIN s.prevIds \subseteq Channels
    /\ DOMAIN s.channels \subseteq Channels
    /\ \A c \in DOMAIN s.channels : s.channels[c] \in Ids \cup {Null}
    /\ s.subscribed \subseteq Channels
    /\ Len(s.queue) <= QueueMax
    /\ \A n \in DOMAIN s.queue : s.queue[n] \in Items
    /\ s.filtering \in Items \cup {None}
    /\ s.needUpdate \in {"no", "low", "high"}
    /\ s.credit \in 0..CreditMax
    /\ s.retries \in 0..RetryMax
    /\ log \in [Channels -> Ids]

\* The client sees one well formed response, whatever ends the session: the
\* response is begun once, nothing is written before that or after its end,
\* and it is ended once.
ResponseWellFormed == ~s.misuse

\* A client that follows a channel's ids is sent the items in order, none left
\* out and none twice: an item is written only after its predecessor, and a
\* next link is asked to continue from exactly what the client has.
ItemsInOrder == ~s.skipped

\* A session waits in an update action of the limiter exactly while its state
\* is WaitingToUpdate: an action must never run for a session that has moved
\* on, and a waiting session must have an action that will wake it.
WaitsInAction ==
    s.state # "Crashed" => (s.state = "WaitingToUpdate" <=> s.pendingAction)

\* A session that is ending has no activity left that could touch the response
\* or restart it: no timer, no queued item, no update, and no request but the
\* one to the gone link.
EndingIsQuiet ==
    s.state \in {"Closing", "SendingGone", "Finished"} =>
        /\ ~s.timer /\ ~s.retryTimer /\ ~s.registered /\ ~s.pendingAction
        /\ s.queue = <<>>
        /\ s.outReq # None => s.state = "SendingGone" /\ s.outReq.dest = "gone"

\* The engine has the session under exactly the session's channels, and under
\* none once the session is done: "Deleting here would leak
\* subscriptions/connections".
SubscriptionsMatch ==
    CASE s.state \in {"SendingGone", "Finished"} -> s.subscribed = {}
      [] s.state = "Crashed" -> TRUE
      [] OTHER -> s.subscribed = DOMAIN s.channels

\* A session that waits can be woken: on a next link, by the answer, by the
\* retry timer or by the credit it lacks; with items queued, by the credit or
\* by the filters.
WaitIsWoken ==
    ~s.inProcess =>
        /\ s.state = "Proxying" => s.outReq # None \/ s.retryTimer \/ s.credit = 0
        /\ s.state = "SendingQueue" => s.credit = 0 \/ s.filtering # None
        /\ s.state = "SendingFirstInstructResponse" => s.credit = 0

\* "Unexpected state": requests are answered only in the states that sent them.
\* All the assertions of the session hold.
NoAssertionFails == ~s.assertion

\* They do, but for an answer to the second of two requests for one next link:
\* credit came while the first waited for its retry, and the timer was left on.
AssertionsHold == s.assertion => s.early

\* The client sees one well formed response with the items in order, none left
\* out and none twice, whatever publishes are lost, next links fail or timers
\* and filters race: of a stream, and of holds that answer once (writeBody,
\* respond, processItem, requestNextLink).
ResponsesInOrder == ResponseWellFormed /\ ItemsInOrder

\* A session that waits can be woken, by an answer, a timer, credit, filters or
\* its update action, and one that is ending has nothing left that could touch
\* the response again (tryProcessOutReq, processPublishQueue, cancelActivities).
WaitsAreWoken == WaitIsWoken /\ WaitsInAction /\ EndingIsQuiet

\* The engine has the session under exactly the session's channels, whichever
\* channels the holds change to, and the session's assertions hold, but where a
\* next link was asked for twice (prepareToSendQueueOrHold, doFinish).
SubscriptionsKept == SubscriptionsMatch /\ AssertionsHold

\* "queue processing will resume after the filters finish": the item whose
\* filters are running is still the first of the queue when they finish. It does
\* not hold with asynchronous filters: the session may end meanwhile, and clear
\* its queue.
FiltersResumeQueue == s.filtering # None => s.queue # <<>> /\ Head(s.queue) = s.filtering

\* A session with a next link timeout ends up giving its client all that was
\* published on the channels whose ids it follows, lost publishes included, if
\* it does not end.
CatchesUp ==
    \A c \in Channels, n \in 1..LogMax :
       (log[c] >= n) ~> (Over \/ c \notin DOMAIN s.has \/ s.has[c] = Null \/ s.has[c] >= n)

=============================================================================
