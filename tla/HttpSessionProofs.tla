-------------------------- MODULE HttpSessionProofs --------------------------
(***************************************************************************)
(* The proofs about HttpSession: for every set of channels, every instruct *)
(* and every bound, the client sees one well formed response with the      *)
(* items in order, a session that waits can be woken, and the engine has   *)
(* the session under exactly its channels.                                 *)
(*                                                                         *)
(* The inductive invariant is SessionInv of the session's record.  Since   *)
(* the code's methods are operators from records to records, there is one  *)
(* lemma per method, which says in which condition it takes the session    *)
(* and in which it leaves it (Steady, Between, Sending, Proxied, Closed),  *)
(* and one lemma per handler, which puts the methods' lemmas together.     *)
(***************************************************************************)
EXTENDS HttpSession, SequenceTheorems, WellFoundedInduction, TLAPS

-----------------------------------------------------------------------------
(* Types                                                                   *)

\* A hint has no id and no prev-id (Publish).
Published == {i \in Items : i.action = "hint" => i.prevId = Null}

\* The fields of a session, and their types.  (A predicate and not a set of
\* records: the provers then take a field at a time.)
HasFields(x) ==
    /\ "state" \in DOMAIN x /\ "instruct" \in DOMAIN x /\ "prevIds" \in DOMAIN x
    /\ "nextUri" \in DOMAIN x /\ "channels" \in DOMAIN x /\ "subscribed" \in DOMAIN x
    /\ "queue" \in DOMAIN x /\ "inProcess" \in DOMAIN x /\ "filtering" \in DOMAIN x
    /\ "needUpdate" \in DOMAIN x /\ "pendingAction" \in DOMAIN x /\ "timer" \in DOMAIN x
    /\ "retryTimer" \in DOMAIN x /\ "registered" \in DOMAIN x /\ "active" \in DOMAIN x
    /\ "outReq" \in DOMAIN x /\ "sentOutReqData" \in DOMAIN x /\ "retries" \in DOMAIN x
    /\ "toSend" \in DOMAIN x /\ "credit" \in DOMAIN x /\ "response" \in DOMAIN x
    /\ "lastIds" \in DOMAIN x /\ "has" \in DOMAIN x /\ "misuse" \in DOMAIN x
    /\ "assertion" \in DOMAIN x /\ "skipped" \in DOMAIN x /\ "early" \in DOMAIN x

Typed(x) ==
    /\ HasFields(x)
    /\ x.state \in States /\ x.instruct \in Instructs /\ x.prevIds \in Partials
    /\ x.nextUri \in BOOLEAN /\ x.channels \in Partials /\ x.subscribed \in SUBSET Channels
    /\ x.queue \in Seq(Published) /\ x.inProcess \in BOOLEAN
    /\ x.filtering \in Published \cup {None} /\ x.needUpdate \in {"no", "low", "high"}
    /\ x.pendingAction \in BOOLEAN /\ x.timer \in BOOLEAN /\ x.retryTimer \in BOOLEAN
    /\ x.registered \in BOOLEAN /\ x.active \in SUBSET Channels
    /\ x.outReq \in Requests \cup {None} /\ x.sentOutReqData \in BOOLEAN
    /\ x.retries \in 0..RetryMax /\ x.toSend \in Nat /\ x.credit \in 0..CreditMax
    /\ x.response \in {"none", "begun", "ended"} /\ x.lastIds \in [Channels -> Ids \cup {Null}]
    /\ x.has \in Partials /\ x.misuse \in BOOLEAN /\ x.assertion \in BOOLEAN
    /\ x.skipped \in BOOLEAN /\ x.early \in BOOLEAN

Ending == {"Closing", "SendingGone", "Finished"}
Live == {"SendingFirstInstructResponse", "WaitingToUpdate", "Pausing", "Proxying",
         "SendingQueue", "Holding"}

-----------------------------------------------------------------------------
(* The invariant, of a session x                                           *)

\* What no handler may break, at any point.
Sound(x) ==
    /\ Typed(x) /\ Len(x.queue) <= QueueMax
    /\ ~x.misuse /\ ~x.skipped

\* The response that goes with the hold: a response hold answers once, at its end.
ResponseOfHold(x) == x.response = IF x.instruct.hold = "response" THEN "none" ELSE "begun"

ResponseFits(x) ==
    /\ x.state = "NotStarted" =>
          /\ x.response \in {"none", "begun"}
          /\ x.instruct.hold = "response" => x.response = "none"
    /\ x.state \in Live => ResponseOfHold(x)
    /\ x.state = "Closing" => x.response = "ended"

\* A response hold has written nothing, so the client buffer is never full.
HoldFits(x) ==
    /\ x.state \in {"SendingFirstInstructResponse", "Proxying"} => x.instruct.hold # "response"
    /\ x.state \in {"SendingQueue", "Holding", "WaitingToUpdate"} => x.instruct.hold # "none"
    /\ x.state = "Pausing" => x.instruct.hold = "response"
    /\ x.state \in {"NotStarted", "SendingFirstInstructResponse"} /\ x.instruct.hold = "none" => x.nextUri
    /\ x.instruct.hold = "response" /\ x.state \in Live \cup {"NotStarted"} => x.credit > 0

\* A session that has not begun has nothing under way.
Fresh(x) ==
    x.state = "NotStarted" =>
        /\ ~x.timer /\ ~x.retryTimer /\ ~x.registered /\ ~x.pendingAction /\ ~x.inProcess
        /\ ~x.early /\ x.channels = [c \in {} |-> Null] /\ x.subscribed = {}

\* Requests are made while proxying and at the end, but after an early one.
RequestsFit(x) ==
    /\ x.outReq # None => x.state \in {"Proxying", "SendingGone", "Crashed"} \/ x.early
    /\ x.retryTimer => (x.state = "Proxying" /\ x.outReq = None) \/ x.early
    /\ x.state \in {"NotStarted", "SendingFirstInstructResponse"} => x.outReq = None /\ ~x.retryTimer
    /\ x.assertion => x.state = "Crashed" /\ x.early

\* The queue is processed in one state; filters run on its first item, which
\* follows what the client has, unless the session ended meanwhile.
QueueFits(x) ==
    /\ x.inProcess => x.state \in {"SendingQueue", "Closing"}
    /\ x.filtering # None =>
          \/ x.state \in Ending \cup {"Crashed"}
          \/ /\ x.state = "SendingQueue" /\ x.queue # <<>> /\ Head(x.queue) = x.filtering
             /\ Follows(x, x.filtering) /\ x.filtering.action # "mismatch"

\* The session's prev-ids are what the client has.
IdsAgree(x) ==
    \A c \in DOMAIN x.channels \cap DOMAIN x.has : x.has[c] # Null => x.channels[c] = x.has[c]

IdsFit(x) ==
    /\ x.state \in {"NotStarted", "SendingFirstInstructResponse"} =>
          x.has = IF x.instruct.hold = "none" THEN [c \in {} |-> Null] ELSE x.prevIds
    /\ x.state \in Live \ {"SendingFirstInstructResponse"} => IdsAgree(x)
    /\ x.state = "Proxying" /\ x.outReq # None => x.outReq.last = x.channels

\* The properties, of any session.
WakeFits(x) ==
    ~x.inProcess =>
        /\ x.state = "Proxying" => x.outReq # None \/ x.retryTimer \/ x.credit = 0
        /\ x.state = "SendingQueue" => x.credit = 0 \/ x.filtering # None
        /\ x.state = "SendingFirstInstructResponse" => x.credit = 0 /\ x.toSend > 0

ActionFits(x) == x.state # "Crashed" => (x.state = "WaitingToUpdate" <=> x.pendingAction)

QuietFits(x) ==
    x.state \in Ending =>
        /\ ~x.timer /\ ~x.retryTimer /\ ~x.registered /\ ~x.pendingAction
        /\ x.queue = <<>>
        /\ x.outReq # None => x.state = "SendingGone" /\ x.outReq.dest = "gone"

ChannelsFit(x) ==
    /\ x.state \in {"SendingGone", "Finished"} => x.subscribed = {}
    /\ x.state \in Live \cup {"NotStarted", "Closing"} => x.subscribed = DOMAIN x.channels

SessionInv(x) ==
    /\ Sound(x) /\ ResponseFits(x) /\ HoldFits(x) /\ Fresh(x) /\ RequestsFit(x)
    /\ QueueFits(x) /\ IdsFit(x) /\ WakeFits(x) /\ ActionFits(x) /\ QuietFits(x) /\ ChannelsFit(x)

Inv ==
    /\ SessionInv(s)
    /\ log \in [Channels -> Ids]
    /\ inflight \in Seq(Published)

-----------------------------------------------------------------------------
(* Sessions in the middle of a handler                                     *)

\* The invariant but for what wakes a session.
Core(x) ==
    /\ Sound(x) /\ ResponseFits(x) /\ HoldFits(x) /\ Fresh(x) /\ RequestsFit(x)
    /\ QueueFits(x) /\ IdsFit(x) /\ ActionFits(x) /\ QuietFits(x) /\ ChannelsFit(x)

\* A session that has begun and not ended.
Steady(x) ==
    /\ Sound(x) /\ ~x.assertion /\ ResponseOfHold(x) /\ x.subscribed = DOMAIN x.channels

\* A session between two states: nothing of the last one is left, but for the
\* second of two requests.
Between(x) ==
    /\ Steady(x) /\ ~x.inProcess /\ x.filtering = None
    /\ x.retryTimer => x.early
    /\ x.outReq # None => x.early
    /\ x.instruct.hold = "response" => x.credit > 0

LEMMA CoreInv ==
    ASSUME NEW x, Core(x), WakeFits(x)
    PROVE  SessionInv(x)
BY DEF Core, SessionInv

LEMMA InvCore ==
    ASSUME NEW x, SessionInv(x)
    PROVE  Core(x) /\ WakeFits(x)
BY DEF Core, SessionInv

LEMMA LiveIsSteady ==
    ASSUME NEW x, Core(x), x.state \in Live
    PROVE  Steady(x)
<1>1. Sound(x) /\ ResponseOfHold(x) /\ x.subscribed = DOMAIN x.channels
  BY DEF Core, ResponseFits, ChannelsFit
<1>2. ~x.assertion
  BY DEF Core, RequestsFit, Live
<1>3. QED BY <1>1, <1>2 DEF Steady

-----------------------------------------------------------------------------
(* Ending                                                                  *)

\* A session that is closing and has nothing under way.
Closed(x) ==
    /\ Sound(x) /\ x.state = "Closing" /\ ~x.assertion /\ x.queue = <<>>
    /\ ~x.timer /\ ~x.retryTimer /\ ~x.registered /\ ~x.pendingAction /\ x.outReq = None
    /\ x.subscribed = DOMAIN x.channels

LEMMA ClosedInv ==
    ASSUME NEW x, Closed(x), x.response = "ended"
    PROVE  SessionInv(x)
BY DEF Closed, SessionInv, ResponseFits, HoldFits, Fresh, RequestsFit, QueueFits, IdsFit, WakeFits,
       ActionFits, QuietFits, ChannelsFit, Live, Ending

LEMMA BeginTypes ==
    ASSUME NEW x, Typed(x)
    PROVE  Typed(BeginResponse(x))
BY DEF BeginResponse, Typed, HasFields

LEMMA WriteTypes ==
    ASSUME NEW x, Typed(x)
    PROVE  Typed(WriteBody(x))
BY HttpSessionAssumption DEF WriteBody, Typed, HasFields

LEMMA EndTypes ==
    ASSUME NEW x, Typed(x)
    PROVE  Typed(EndBody(x))
BY DEF EndBody, Typed, HasFields

LEMMA CancelTypes ==
    ASSUME NEW x, Typed(x)
    PROVE  Typed(CancelActivities(x)) /\ CancelActivities(x).queue = <<>>
BY DEF CancelActivities, Typed, HasFields

\* prepareToClose() leaves nothing under way.
LEMMA PrepareToCloseDone ==
    ASSUME NEW x, Sound(x), ~x.assertion, x.subscribed = DOMAIN x.channels,
           NEW y, y = PrepareToClose(x)
    PROVE  Closed(y) /\ y.response = x.response /\ y.inProcess = x.inProcess
<1>1. PICK w : w = [x EXCEPT !.state = "Closing"]
  OBVIOUS
<1>2. /\ Typed(w) /\ w.state = "Closing" /\ w.response = x.response /\ w.channels = x.channels
      /\ w.subscribed = x.subscribed /\ ~w.misuse /\ ~w.skipped /\ ~w.assertion
      /\ w.inProcess = x.inProcess
  BY <1>1 DEF Sound, Typed, HasFields, States
<1>3. y = CancelActivities(w)
  BY <1>1 DEF PrepareToClose
<1>4. Typed(y) /\ y.queue = <<>>
  BY <1>2, <1>3, CancelTypes
<1>5. /\ y.state = "Closing" /\ y.response = x.response /\ y.channels = x.channels
      /\ y.subscribed = x.subscribed /\ ~y.misuse /\ ~y.skipped /\ ~y.assertion
      /\ ~y.timer /\ ~y.retryTimer /\ ~y.registered /\ ~y.pendingAction /\ y.outReq = None
      /\ y.inProcess = x.inProcess
  BY <1>2, <1>3 DEF CancelActivities, Typed, HasFields
<1>6. Sound(y)
  BY <1>4, <1>5, HttpSessionAssumption DEF Sound
<1>7. QED BY <1>4, <1>5, <1>6 DEF Closed

LEMMA CloseInv ==
    ASSUME NEW x, Sound(x), ~x.assertion, x.subscribed = DOMAIN x.channels, x.response = "begun",
           NEW z, z \in {EndBody(PrepareToClose(x)), EndBody(WriteBody(PrepareToClose(x)))}
    PROVE  SessionInv(z) /\ z.state = "Closing" /\ z.inProcess = x.inProcess
<1>1. PICK y : y = PrepareToClose(x)
  OBVIOUS
<1>2. Closed(y) /\ y.response = "begun" /\ y.inProcess = x.inProcess
  BY <1>1, PrepareToCloseDone
<1>3. PICK w : w = WriteBody(y)
  OBVIOUS
<1>4. Typed(w)
  BY <1>2, <1>3, WriteTypes DEF Closed, Sound
<1>5. Closed(w) /\ w.response = "begun" /\ w.inProcess = x.inProcess
  BY <1>2, <1>3, <1>4 DEF WriteBody, Closed, Sound, Typed, HasFields
<1>6. SUFFICES ASSUME NEW v \in {y, w}, z = EndBody(v)
               PROVE  SessionInv(z) /\ z.state = "Closing" /\ z.inProcess = x.inProcess
  BY <1>1, <1>3
<1>7. Typed(z)
  BY <1>2, <1>5, <1>6, EndTypes DEF Closed, Sound
<1>8. Closed(z) /\ z.response = "ended" /\ z.inProcess = x.inProcess
  BY <1>2, <1>5, <1>6, <1>7 DEF EndBody, Closed, Sound, Typed, HasFields
<1>9. QED BY <1>8, ClosedInv DEF Closed

LEMMA RespondInv ==
    ASSUME NEW x, Sound(x), ~x.assertion, x.subscribed = DOMAIN x.channels, x.response = "none",
           NEW z, z = Respond(x)
    PROVE  SessionInv(z) /\ z.state = "Closing" /\ z.inProcess = x.inProcess
<1>1. PICK y : y = PrepareToClose(x)
  OBVIOUS
<1>2. Closed(y) /\ y.response = "none" /\ y.inProcess = x.inProcess
  BY <1>1, PrepareToCloseDone
<1>3. PICK v : v = BeginResponse(y)
  OBVIOUS
<1>4. PICK w : w = WriteBody(v)
  OBVIOUS
<1>5. z = EndBody(w)
  BY <1>1, <1>3, <1>4 DEF Respond
<1>6. Typed(v)
  BY <1>2, <1>3, BeginTypes DEF Closed, Sound
<1>7. Closed(v) /\ v.response = "begun" /\ v.inProcess = x.inProcess
  BY <1>2, <1>3, <1>6 DEF BeginResponse, Closed, Sound, Typed, HasFields
<1>8. Typed(w)
  BY <1>4, <1>6, WriteTypes
<1>9. Closed(w) /\ w.response = "begun" /\ w.inProcess = x.inProcess
  BY <1>4, <1>7, <1>8 DEF WriteBody, Closed, Sound, Typed, HasFields
<1>10. Typed(z)
  BY <1>5, <1>8, EndTypes
<1>11. Closed(z) /\ z.response = "ended" /\ z.inProcess = x.inProcess
  BY <1>5, <1>9, <1>10 DEF EndBody, Closed, Sound, Typed, HasFields
<1>12. QED BY <1>11, ClosedInv DEF Closed

LEMMA DoErrorInv ==
    ASSUME NEW x, Steady(x), NEW z, z = DoError(x)
    PROVE  SessionInv(z) /\ z.state = "Closing" /\ z.inProcess = x.inProcess
<1>1. /\ Sound(x) /\ ~x.assertion /\ x.subscribed = DOMAIN x.channels
      /\ x.response = IF x.instruct.hold = "response" THEN "none" ELSE "begun"
  BY DEF Steady, ResponseOfHold
<1>2. CASE x.instruct.hold = "response"
  BY <1>1, <1>2, RespondInv DEF DoError
<1>3. CASE x.instruct.hold # "response"
  <2>1. z \in {EndBody(PrepareToClose(x)), EndBody(WriteBody(PrepareToClose(x)))}
    BY <1>3 DEF DoError
  <2>2. QED BY <1>1, <1>3, <2>1, CloseInv
<1>4. QED BY <1>2, <1>3

\* finished() and doFinish().
LEMMA FinishedInv ==
    ASSUME NEW x, Sound(x), ~x.assertion, ~x.inProcess, x.subscribed = {},
           NEW z, z = Finished(x)
    PROVE  SessionInv(z)
<1>1. PICK y : y = CancelActivities(x)
  OBVIOUS
<1>2. Typed(y) /\ y.queue = <<>>
  BY <1>1, CancelTypes DEF Sound
<1>3. /\ ~y.misuse /\ ~y.skipped /\ ~y.assertion /\ ~y.inProcess /\ y.subscribed = {}
      /\ ~y.timer /\ ~y.retryTimer /\ ~y.registered /\ ~y.pendingAction /\ y.outReq = None
  BY <1>1 DEF CancelActivities, Sound, Typed, HasFields
<1>4. z = [y EXCEPT !.state = "Finished"]
  BY <1>1 DEF Finished
<1>5. Typed(z)
  BY <1>2, <1>4 DEF Typed, HasFields, States
<1>6. /\ z.state = "Finished" /\ z.queue = <<>>
      /\ ~z.misuse /\ ~z.skipped /\ ~z.assertion /\ ~z.inProcess /\ z.subscribed = {}
      /\ ~z.timer /\ ~z.retryTimer /\ ~z.registered /\ ~z.pendingAction /\ z.outReq = None
  BY <1>2, <1>3, <1>4 DEF Typed, HasFields
<1>7. Sound(z)
  BY <1>5, <1>6, HttpSessionAssumption DEF Sound
<1>8. QED
  BY <1>6, <1>7 DEF SessionInv, ResponseFits, HoldFits, Fresh, RequestsFit, QueueFits, IdsFit,
                    WakeFits, ActionFits, QuietFits, ChannelsFit, Live, Ending

LEMMA OutReqTypes ==
    ASSUME NEW x, Typed(x), NEW dest \in {"next", "gone"},
           NEW z, z = OutReq(x, dest)
    PROVE  /\ Typed(z) /\ z.outReq # None /\ z.outReq.dest = dest /\ z.outReq.last = x.channels
           /\ z = [x EXCEPT !.sentOutReqData = FALSE, !.outReq = z.outReq]
<1>1. PICK r : r = [dest |-> dest, headers |-> FALSE, ok |-> TRUE, coming |-> 0, body |-> 0,
                    last |-> x.channels]
  OBVIOUS
<1>2. r \in Requests
  BY <1>1 DEF Requests, Typed
<1>3. r # None
  BY <1>2, HttpSessionAssumption
<1>4. z = [x EXCEPT !.sentOutReqData = FALSE, !.outReq = r]
  BY <1>1 DEF OutReq
<1>5. z.outReq = r
  BY <1>4 DEF Typed, HasFields
<1>6. Typed(z)
  BY <1>2, <1>4 DEF Typed, HasFields
<1>7. r.dest = dest /\ r.last = x.channels
  BY <1>1
<1>8. QED BY <1>3, <1>4, <1>5, <1>6, <1>7

LEMMA DoFinishInv ==
    ASSUME NEW x, Sound(x), ~x.assertion, ~x.inProcess
    PROVE  SessionInv(DoFinish(x))
<1>1. PICK w : w = CancelActivities(x)
  OBVIOUS
<1>2. Typed(w) /\ w.queue = <<>>
  BY <1>1, CancelTypes DEF Sound
<1>3. /\ ~w.misuse /\ ~w.skipped /\ ~w.assertion /\ ~w.inProcess
      /\ ~w.timer /\ ~w.retryTimer /\ ~w.registered /\ ~w.pendingAction /\ w.outReq = None
  BY <1>1 DEF CancelActivities, Sound, Typed, HasFields
<1>4. PICK y : y = [w EXCEPT !.subscribed = {}]
  OBVIOUS
<1>5. Typed(y)
  BY <1>2, <1>4 DEF Typed, HasFields
<1>6. /\ y.queue = <<>> /\ y.subscribed = {} /\ ~y.misuse /\ ~y.skipped /\ ~y.assertion /\ ~y.inProcess
      /\ ~y.timer /\ ~y.retryTimer /\ ~y.registered /\ ~y.pendingAction /\ y.outReq = None
  BY <1>2, <1>3, <1>4 DEF Typed, HasFields
<1>7. Sound(y)
  BY <1>5, <1>6, HttpSessionAssumption DEF Sound
<1>8. CASE ~GoneLink
  <2>1. DoFinish(x) = Finished(y)
    BY <1>1, <1>4, <1>8 DEF DoFinish
  <2>2. QED BY <1>6, <1>7, <2>1, FinishedInv
<1>9. CASE GoneLink
  <2>1. PICK v : v = [y EXCEPT !.state = "SendingGone"]
    OBVIOUS
  <2>2. Typed(v)
    BY <1>5, <2>1 DEF Typed, HasFields, States
  <2>3. /\ v.state = "SendingGone" /\ v.queue = <<>> /\ v.subscribed = {}
        /\ ~v.misuse /\ ~v.skipped /\ ~v.assertion /\ ~v.inProcess
        /\ ~v.timer /\ ~v.retryTimer /\ ~v.registered /\ ~v.pendingAction
    BY <1>5, <1>6, <2>1 DEF Typed, HasFields
  <2>4. PICK z : z = OutReq(v, "gone")
    OBVIOUS
  <2>5. DoFinish(x) = z
    BY <1>1, <1>4, <1>9, <2>1, <2>4 DEF DoFinish
  <2>6. /\ Typed(z) /\ z.outReq # None /\ z.outReq.dest = "gone"
        /\ z = [v EXCEPT !.sentOutReqData = FALSE, !.outReq = z.outReq]
    BY <2>2, <2>4, OutReqTypes
  <2>7. /\ z.state = "SendingGone" /\ z.queue = <<>> /\ z.subscribed = {}
        /\ ~z.misuse /\ ~z.skipped /\ ~z.assertion /\ ~z.inProcess
        /\ ~z.timer /\ ~z.retryTimer /\ ~z.registered /\ ~z.pendingAction
    BY <2>2, <2>3, <2>6 DEF Typed, HasFields
  <2>8. Sound(z)
    BY <2>6, <2>7, HttpSessionAssumption DEF Sound
  <2>9. SessionInv(z)
    BY <2>6, <2>7, <2>8 DEF SessionInv, ResponseFits, HoldFits, Fresh, RequestsFit, QueueFits, IdsFit,
                      WakeFits, ActionFits, QuietFits, ChannelsFit, Live, Ending
  <2>10. QED BY <2>5, <2>9
<1>10. QED BY <1>8, <1>9

-----------------------------------------------------------------------------
(* Updating                                                                *)

\* requestNextLink() changes nothing but the request.
LEMMA NextLinkDone ==
    ASSUME NEW x, Typed(x), NEW z, z = RequestNextLink(x)
    PROVE  /\ Typed(z) /\ z.outReq # None /\ z.outReq.last = x.channels
           /\ z.state = x.state /\ z.queue = x.queue /\ z.subscribed = x.subscribed
           /\ z.channels = x.channels /\ z.has = x.has /\ z.instruct = x.instruct
           /\ z.credit = x.credit /\ z.response = x.response /\ z.filtering = x.filtering
           /\ z.early = x.early /\ z.retryTimer = x.retryTimer /\ z.pendingAction = x.pendingAction
           /\ z.inProcess = x.inProcess /\ z.misuse = x.misuse /\ z.skipped = x.skipped
           /\ z.assertion = x.assertion
<1>1. PICK r : r = [dest |-> "next", headers |-> FALSE, ok |-> TRUE, coming |-> 0, body |-> 0,
                    last |-> x.channels]
  OBVIOUS
<1>2. r \in Requests /\ r.last = x.channels
  BY <1>1 DEF Requests, Typed
<1>3. r # None
  BY <1>2, HttpSessionAssumption
<1>4. z = [x EXCEPT !.sentOutReqData = FALSE, !.outReq = r]
  BY <1>1 DEF RequestNextLink, OutReq
<1>5. Typed(z)
  BY <1>2, <1>4 DEF Typed, HasFields
<1>6. z.outReq = r
  BY <1>4 DEF Typed, HasFields
<1>7. /\ z.state = x.state /\ z.queue = x.queue /\ z.subscribed = x.subscribed
      /\ z.channels = x.channels /\ z.has = x.has /\ z.instruct = x.instruct
      /\ z.credit = x.credit /\ z.response = x.response /\ z.filtering = x.filtering
      /\ z.early = x.early /\ z.retryTimer = x.retryTimer /\ z.pendingAction = x.pendingAction
      /\ z.inProcess = x.inProcess /\ z.misuse = x.misuse /\ z.skipped = x.skipped
      /\ z.assertion = x.assertion
  BY <1>4 DEF Typed, HasFields
<1>8. QED BY <1>2, <1>3, <1>5, <1>6, <1>7

\* The request for a next link continues from what the client has.
LEMMA RequestInv ==
    ASSUME NEW x, Steady(x), x.state = "Proxying", ~x.inProcess, x.filtering = None,
           ~x.pendingAction, x.retryTimer => x.early, x.instruct.hold # "response", IdsAgree(x)
    PROVE  SessionInv(RequestNextLink(x))
<1>1. PICK z : z = RequestNextLink(x)
  OBVIOUS
<1>2. /\ Typed(z) /\ z.outReq # None /\ z.outReq.last = x.channels
      /\ z.state = "Proxying" /\ z.queue = x.queue /\ z.subscribed = x.subscribed
      /\ z.channels = x.channels /\ z.has = x.has /\ z.instruct = x.instruct
      /\ z.response = x.response /\ z.filtering = None /\ z.early = x.early
      /\ z.retryTimer = x.retryTimer /\ ~z.pendingAction /\ ~z.inProcess
      /\ ~z.misuse /\ ~z.skipped /\ ~z.assertion
  BY <1>1, NextLinkDone DEF Steady, Sound
<1>3. Sound(z)
  BY <1>2 DEF Steady, Sound
<1>4. ResponseFits(z) /\ HoldFits(z)
  BY <1>2 DEF Steady, ResponseOfHold, ResponseFits, HoldFits, Live
<1>5. IdsFit(z) /\ ChannelsFit(z)
  BY <1>2 DEF IdsFit, IdsAgree, Steady, ChannelsFit
<1>6. Fresh(z) /\ RequestsFit(z) /\ QueueFits(z) /\ WakeFits(z) /\ ActionFits(z) /\ QuietFits(z)
  BY <1>2 DEF Fresh, RequestsFit, QueueFits, WakeFits, ActionFits, QuietFits, Ending
<1>7. QED BY <1>1, <1>3, <1>4, <1>5, <1>6 DEF SessionInv

LEMMA DoUpdateInv ==
    ASSUME NEW x, Between(x), IdsAgree(x)
    PROVE  SessionInv(DoUpdate(x))
<1>1. /\ Sound(x) /\ ~x.assertion /\ ResponseOfHold(x) /\ x.subscribed = DOMAIN x.channels
      /\ ~x.inProcess /\ x.filtering = None
      /\ x.retryTimer => x.early
      /\ x.outReq # None => x.early
      /\ x.instruct.hold = "response" => x.credit > 0
  BY DEF Between, Steady
<1>2. CASE x.instruct.hold = "response"
  <2>1. PICK z : z = [x EXCEPT !.pendingAction = FALSE, !.state = "Pausing", !.timer = FALSE]
    OBVIOUS
  <2>2. PICK y : y = [x EXCEPT !.pendingAction = FALSE]
    OBVIOUS
  <2>3. y.instruct = x.instruct
    BY <1>1, <2>2 DEF Sound, Typed, HasFields
  <2>4. DoUpdate(x) = z
    BY <1>2, <2>1, <2>2, <2>3 DEF DoUpdate
  <2>5. Typed(z)
    BY <1>1, <2>1 DEF Sound, Typed, HasFields, States
  <2>6. /\ z.state = "Pausing" /\ z.queue = x.queue /\ z.subscribed = x.subscribed
        /\ z.channels = x.channels /\ z.has = x.has /\ z.instruct = x.instruct /\ z.credit = x.credit
        /\ z.response = x.response /\ z.filtering = None /\ z.early = x.early /\ z.outReq = x.outReq
        /\ z.retryTimer = x.retryTimer /\ ~z.pendingAction /\ ~z.inProcess
        /\ ~z.misuse /\ ~z.skipped /\ ~z.assertion
    BY <1>1, <2>1 DEF Sound, Typed, HasFields
  <2>7. Sound(z)
    BY <1>1, <2>5, <2>6 DEF Sound
  <2>8. ResponseFits(z) /\ HoldFits(z)
    BY <1>1, <1>2, <2>6 DEF ResponseOfHold, ResponseFits, HoldFits, Live
  <2>9. IdsFit(z) /\ ChannelsFit(z)
    BY <1>1, <2>6 DEF IdsFit, IdsAgree, ChannelsFit
  <2>10. Fresh(z) /\ RequestsFit(z) /\ QueueFits(z) /\ WakeFits(z) /\ ActionFits(z) /\ QuietFits(z)
    BY <1>1, <2>6 DEF Fresh, RequestsFit, QueueFits, WakeFits, ActionFits, QuietFits, Ending
  <2>11. QED BY <2>4, <2>7, <2>8, <2>9, <2>10 DEF SessionInv
<1>3. CASE x.instruct.hold # "response"
  <2>1. PICK y : y = [x EXCEPT !.pendingAction = FALSE]
    OBVIOUS
  <2>2. PICK z : z = [y EXCEPT !.state = "Proxying"]
    OBVIOUS
  <2>3. Typed(y) /\ y.instruct = x.instruct
    BY <1>1, <2>1 DEF Sound, Typed, HasFields
  <2>4. DoUpdate(x) = RequestNextLink(z)
    BY <1>3, <2>1, <2>2, <2>3 DEF DoUpdate
  <2>5. Typed(z)
    BY <2>2, <2>3 DEF Typed, HasFields, States
  <2>6. z = [x EXCEPT !.pendingAction = FALSE, !.state = "Proxying"]
    BY <2>1, <2>2
  <2>7. /\ z.state = "Proxying" /\ z.queue = x.queue /\ z.subscribed = x.subscribed
        /\ z.channels = x.channels /\ z.has = x.has /\ z.instruct = x.instruct
        /\ z.response = x.response /\ z.filtering = None /\ z.early = x.early
        /\ z.retryTimer = x.retryTimer /\ ~z.pendingAction /\ ~z.inProcess
        /\ ~z.misuse /\ ~z.skipped /\ ~z.assertion
    BY <1>1, <2>6 DEF Sound, Typed, HasFields
  <2>8. Steady(z)
    BY <1>1, <2>5, <2>7 DEF Steady, Sound, ResponseOfHold
  <2>9. IdsAgree(z)
    BY <2>7 DEF IdsAgree
  <2>10. QED BY <1>1, <1>3, <2>4, <2>7, <2>8, <2>9, RequestInv
<1>4. QED BY <1>2, <1>3

\* update() of a session that holds.
LEMMA UpdateHoldingInv ==
    ASSUME NEW x, Between(x), IdsAgree(x), x.state = "Holding", ~x.pendingAction,
           x.instruct.hold # "none", NEW priority
    PROVE  SessionInv(UpdateHolding(x, priority))
<1>1. /\ Sound(x) /\ ~x.assertion /\ ResponseOfHold(x) /\ x.subscribed = DOMAIN x.channels
      /\ ~x.inProcess /\ x.filtering = None
      /\ x.retryTimer => x.early
      /\ x.outReq # None => x.early
      /\ x.instruct.hold = "response" => x.credit > 0
  BY DEF Between, Steady
<1>2. PICK y : y = [x EXCEPT !.needUpdate = "no"]
  OBVIOUS
<1>3. Typed(y)
  BY <1>1, <1>2 DEF Sound, Typed, HasFields
<1>4. /\ y.state = "Holding" /\ y.queue = x.queue /\ y.subscribed = x.subscribed
      /\ y.channels = x.channels /\ y.has = x.has /\ y.instruct = x.instruct /\ y.credit = x.credit
      /\ y.response = x.response /\ y.filtering = None /\ y.early = x.early /\ y.outReq = x.outReq
      /\ y.retryTimer = x.retryTimer /\ ~y.pendingAction /\ ~y.inProcess
      /\ ~y.misuse /\ ~y.skipped /\ ~y.assertion
  BY <1>1, <1>2 DEF Sound, Typed, HasFields
<1>5. PICK z : z = [y EXCEPT !.registered = FALSE]
  OBVIOUS
<1>6. Typed(z)
  BY <1>3, <1>5 DEF Typed, HasFields
<1>7. /\ z.state = "Holding" /\ z.queue = x.queue /\ z.subscribed = x.subscribed
      /\ z.channels = x.channels /\ z.has = x.has /\ z.instruct = x.instruct /\ z.credit = x.credit
      /\ z.response = x.response /\ z.filtering = None /\ z.early = x.early /\ z.outReq = x.outReq
      /\ z.retryTimer = x.retryTimer /\ ~z.pendingAction /\ ~z.inProcess
      /\ ~z.misuse /\ ~z.skipped /\ ~z.assertion
  BY <1>3, <1>4, <1>5 DEF Typed, HasFields
<1>8. CASE y.instruct.hold # "response" /\ ~y.nextUri
  <2>1. UpdateHolding(x, priority) = y
    BY <1>2, <1>8 DEF UpdateHolding
  <2>2. Sound(y)
    BY <1>1, <1>3, <1>4 DEF Sound
  <2>3. ResponseFits(y) /\ HoldFits(y)
    BY <1>1, <1>4 DEF ResponseOfHold, ResponseFits, HoldFits, Live
  <2>4. IdsFit(y) /\ ChannelsFit(y)
    BY <1>1, <1>4 DEF IdsFit, IdsAgree, ChannelsFit
  <2>5. Fresh(y) /\ RequestsFit(y) /\ QueueFits(y) /\ WakeFits(y) /\ ActionFits(y) /\ QuietFits(y)
    BY <1>1, <1>4 DEF Fresh, RequestsFit, QueueFits, WakeFits, ActionFits, QuietFits, Ending
  <2>6. QED BY <2>1, <2>2, <2>3, <2>4, <2>5 DEF SessionInv
<1>9. CASE ~(y.instruct.hold # "response" /\ ~y.nextUri) /\ priority = "high"
  <2>1. UpdateHolding(x, priority) = DoUpdate(z)
    BY <1>2, <1>5, <1>9 DEF UpdateHolding
  <2>2. Between(z) /\ IdsAgree(z)
    BY <1>1, <1>6, <1>7 DEF Between, Steady, Sound, ResponseOfHold, IdsAgree
  <2>3. QED BY <2>1, <2>2, DoUpdateInv
<1>10. CASE ~(y.instruct.hold # "response" /\ ~y.nextUri) /\ priority # "high"
  <2>1. PICK w : w = [z EXCEPT !.state = "WaitingToUpdate", !.pendingAction = TRUE]
    OBVIOUS
  <2>2. UpdateHolding(x, priority) = w
    BY <1>2, <1>5, <1>10, <2>1 DEF UpdateHolding
  <2>3. Typed(w)
    BY <1>6, <2>1 DEF Typed, HasFields, States
  <2>4. /\ w.state = "WaitingToUpdate" /\ w.queue = x.queue /\ w.subscribed = x.subscribed
        /\ w.channels = x.channels /\ w.has = x.has /\ w.instruct = x.instruct /\ w.credit = x.credit
        /\ w.response = x.response /\ w.filtering = None /\ w.early = x.early /\ w.outReq = x.outReq
        /\ w.retryTimer = x.retryTimer /\ w.pendingAction /\ ~w.inProcess
        /\ ~w.misuse /\ ~w.skipped /\ ~w.assertion
    BY <1>6, <1>7, <2>1 DEF Typed, HasFields
  <2>5. Sound(w)
    BY <1>1, <2>3, <2>4 DEF Sound
  <2>6. ResponseFits(w) /\ HoldFits(w)
    BY <1>1, <2>4 DEF ResponseOfHold, ResponseFits, HoldFits, Live
  <2>7. IdsFit(w) /\ ChannelsFit(w)
    BY <1>1, <2>4 DEF IdsFit, IdsAgree, ChannelsFit
  <2>8. Fresh(w) /\ RequestsFit(w) /\ QueueFits(w) /\ WakeFits(w) /\ ActionFits(w) /\ QuietFits(w)
    BY <1>1, <2>4 DEF Fresh, RequestsFit, QueueFits, WakeFits, ActionFits, QuietFits, Ending
  <2>9. QED BY <2>2, <2>5, <2>6, <2>7, <2>8 DEF SessionInv
<1>11. QED BY <1>8, <1>9, <1>10

\* update() in the states that only note it.
LEMMA UpdateNoted ==
    ASSUME NEW x, Core(x), x.state \in {"Proxying", "SendingQueue"}, NEW priority \in {"low", "high"},
           NEW z, z = Update(x, priority)
    PROVE  /\ Core(z) /\ z.state = x.state /\ z.inProcess = x.inProcess /\ z.filtering = x.filtering
           /\ WakeFits(x) => WakeFits(z)
<1>1. PICK need \in {"no", "low", "high"} : z = [x EXCEPT !.needUpdate = need]
  <2>1. z = [x EXCEPT !.needUpdate = IF priority = "high" \/ @ = "high" THEN "high" ELSE "low"]
    BY DEF Update
  <2>2. QED BY <2>1
<1>2. Typed(x)
  BY DEF Core, Sound
<1>3. Typed(z)
  BY <1>1, <1>2 DEF Typed, HasFields
<1>4. /\ z.state = x.state /\ z.queue = x.queue /\ z.subscribed = x.subscribed
      /\ z.channels = x.channels /\ z.has = x.has /\ z.instruct = x.instruct /\ z.credit = x.credit
      /\ z.response = x.response /\ z.filtering = x.filtering /\ z.early = x.early
      /\ z.outReq = x.outReq /\ z.retryTimer = x.retryTimer /\ z.pendingAction = x.pendingAction
      /\ z.inProcess = x.inProcess /\ z.misuse = x.misuse /\ z.skipped = x.skipped
      /\ z.assertion = x.assertion /\ z.prevIds = x.prevIds /\ z.nextUri = x.nextUri
      /\ z.toSend = x.toSend
  BY <1>1, <1>2 DEF Typed, HasFields
<1>5. Sound(z) /\ ResponseFits(z) /\ HoldFits(z) /\ IdsFit(z) /\ ChannelsFit(z)
  BY <1>3, <1>4 DEF Core, Sound, ResponseFits, ResponseOfHold, HoldFits, IdsFit, IdsAgree, ChannelsFit
<1>6. Fresh(z) /\ RequestsFit(z) /\ QueueFits(z) /\ ActionFits(z) /\ QuietFits(z)
  BY <1>4 DEF Core, Fresh, RequestsFit, QueueFits, Follows, ActionFits, QuietFits, Ending
<1>7. WakeFits(x) => WakeFits(z)
  BY <1>4 DEF WakeFits
<1>8. QED BY <1>4, <1>5, <1>6, <1>7 DEF Core

\* A session that holds, or waits to update, is between two states.
LEMMA HoldingIsBetween ==
    ASSUME NEW x, Core(x), x.state \in {"Holding", "WaitingToUpdate"}
    PROVE  Between(x) /\ IdsAgree(x) /\ x.instruct.hold # "none"
<1>1. Steady(x)
  BY LiveIsSteady DEF Live
<1>2. ~x.inProcess /\ x.filtering = None
  BY DEF Core, QueueFits, Ending
<1>3. (x.retryTimer => x.early) /\ (x.outReq # None => x.early)
  BY DEF Core, RequestsFit
<1>4. (x.instruct.hold = "response" => x.credit > 0) /\ x.instruct.hold # "none"
  BY DEF Core, HoldFits, Live
<1>5. IdsAgree(x)
  BY DEF Core, IdsFit, Live
<1>6. QED BY <1>1, <1>2, <1>3, <1>4, <1>5 DEF Between

LEMMA UpdateInv ==
    ASSUME NEW x, SessionInv(x), NEW priority \in {"low", "high"}
    PROVE  SessionInv(Update(x, priority))
<1>1. Core(x) /\ WakeFits(x)
  BY InvCore
<1>2. CASE x.state \in {"Proxying", "SendingQueue"}
  BY <1>1, <1>2, UpdateNoted, CoreInv
<1>3. CASE x.state = "WaitingToUpdate" /\ priority = "high"
  <2>1. Between(x) /\ IdsAgree(x) /\ x.instruct.hold # "none"
    BY <1>1, <1>3, HoldingIsBetween
  <2>2. PICK y : y = [CancelAction(x) EXCEPT !.state = "Holding"]
    OBVIOUS
  <2>3. Typed(x)
    BY <1>1 DEF Core, Sound
  <2>4. y = [x EXCEPT !.pendingAction = FALSE, !.state = "Holding"]
    BY <2>2 DEF CancelAction
  <2>5. Typed(y)
    BY <2>3, <2>4 DEF Typed, HasFields, States
  <2>6. /\ y.state = "Holding" /\ y.queue = x.queue /\ y.subscribed = x.subscribed
        /\ y.channels = x.channels /\ y.has = x.has /\ y.instruct = x.instruct /\ y.credit = x.credit
        /\ y.response = x.response /\ y.filtering = x.filtering /\ y.early = x.early
        /\ y.outReq = x.outReq /\ y.retryTimer = x.retryTimer /\ ~y.pendingAction
        /\ y.inProcess = x.inProcess /\ y.misuse = x.misuse /\ y.skipped = x.skipped
        /\ y.assertion = x.assertion
    BY <2>3, <2>4 DEF Typed, HasFields
  <2>7. Between(y) /\ IdsAgree(y)
    BY <2>1, <2>5, <2>6 DEF Between, Steady, Sound, ResponseOfHold, IdsAgree
  <2>8. Update(x, priority) = UpdateHolding(y, priority)
    BY <1>3, <2>2 DEF Update
  <2>9. QED BY <2>1, <2>6, <2>7, <2>8, UpdateHoldingInv
<1>4. CASE x.state = "Holding"
  <2>1. Between(x) /\ IdsAgree(x) /\ x.instruct.hold # "none"
    BY <1>1, <1>4, HoldingIsBetween
  <2>2. ~x.pendingAction
    BY <1>1, <1>4 DEF Core, ActionFits
  <2>3. Update(x, priority) = UpdateHolding(x, priority)
    BY <1>4 DEF Update
  <2>4. QED BY <1>4, <2>1, <2>2, <2>3, UpdateHoldingInv
<1>5. CASE /\ x.state \notin {"Proxying", "SendingQueue", "Holding"}
           /\ ~(x.state = "WaitingToUpdate" /\ priority = "high")
  <2>1. Update(x, priority) = x
    BY <1>5 DEF Update
  <2>2. QED BY <2>1
<1>6. QED BY <1>2, <1>3, <1>4, <1>5

-----------------------------------------------------------------------------
(* Holding                                                                 *)

LEMMA PartialsIntro ==
    ASSUME NEW D \in SUBSET Channels, NEW f \in [D -> Ids \cup {Null}]
    PROVE  f \in Partials
BY DEF Partials

LEMMA PartialsElim ==
    ASSUME NEW f \in Partials
    PROVE  DOMAIN f \subseteq Channels /\ f \in [DOMAIN f -> Ids \cup {Null}]
BY DEF Partials

\* sendQueue().
LEMMA SendQueueInv ==
    ASSUME NEW x, Between(x), IdsAgree(x), x.instruct.hold # "none", ~x.pendingAction,
           NEW z, z = SendQueue(x)
    PROVE  SessionInv(z) /\ z.state = "SendingQueue"
<1>1. /\ Sound(x) /\ ~x.assertion /\ ResponseOfHold(x) /\ x.subscribed = DOMAIN x.channels
      /\ ~x.inProcess /\ x.filtering = None
      /\ x.retryTimer => x.early
      /\ x.outReq # None => x.early
      /\ x.instruct.hold = "response" => x.credit > 0
  BY DEF Between, Steady
<1>2. z = [x EXCEPT !.state = "SendingQueue", !.inProcess = TRUE]
  BY <1>1 DEF SendQueue, Assert
<1>3. Typed(z)
  BY <1>1, <1>2 DEF Sound, Typed, HasFields, States
<1>4. /\ z.state = "SendingQueue" /\ z.queue = x.queue /\ z.subscribed = x.subscribed
      /\ z.channels = x.channels /\ z.has = x.has /\ z.instruct = x.instruct /\ z.credit = x.credit
      /\ z.response = x.response /\ z.filtering = None /\ z.early = x.early /\ z.outReq = x.outReq
      /\ z.retryTimer = x.retryTimer /\ ~z.pendingAction /\ z.inProcess
      /\ ~z.misuse /\ ~z.skipped /\ ~z.assertion
  BY <1>1, <1>2 DEF Sound, Typed, HasFields
<1>5. Sound(z)
  BY <1>1, <1>3, <1>4 DEF Sound
<1>6. ResponseFits(z) /\ HoldFits(z)
  BY <1>1, <1>4 DEF ResponseOfHold, ResponseFits, HoldFits, Live
<1>7. IdsFit(z) /\ ChannelsFit(z)
  BY <1>1, <1>4 DEF IdsFit, IdsAgree, ChannelsFit
<1>8. Fresh(z) /\ RequestsFit(z) /\ QueueFits(z) /\ WakeFits(z) /\ ActionFits(z) /\ QuietFits(z)
  BY <1>1, <1>4 DEF Fresh, RequestsFit, QueueFits, WakeFits, ActionFits, QuietFits, Ending
<1>9. QED BY <1>4, <1>5, <1>6, <1>7, <1>8 DEF SessionInv

\* The session's channels become those of the instruct, with the ids that the
\* client has.
LEMMA SetChannelsDone ==
    ASSUME NEW x, Between(x), x.has = x.prevIds, NEW z, z = SetChannels(x)
    PROVE  /\ Between(z) /\ IdsAgree(z)
           /\ z.state = x.state /\ z.instruct = x.instruct /\ z.pendingAction = x.pendingAction
<1>1. PICK kept : kept = (Implicit \cap DOMAIN x.channels) \cup DOMAIN x.prevIds
  OBVIOUS
<1>2. PICK f : f = [c \in kept |-> IF c \in DOMAIN x.prevIds THEN x.prevIds[c] ELSE x.channels[c]]
  OBVIOUS
<1>3. Typed(x)
  BY DEF Between, Steady, Sound
<1>4. /\ x.channels \in Partials /\ x.prevIds \in Partials
  BY <1>3 DEF Typed
<1>5. f \in [kept -> Ids \cup {Null}] /\ kept \in SUBSET Channels
  BY <1>1, <1>2, <1>4, PartialsElim
<1>6. f \in Partials
  BY <1>5, PartialsIntro
<1>7. z = [x EXCEPT !.channels = f, !.subscribed = kept]
  BY <1>1, <1>2 DEF SetChannels
<1>8. Typed(z)
  BY <1>3, <1>5, <1>6, <1>7 DEF Typed, HasFields
<1>9. /\ z.state = x.state /\ z.queue = x.queue /\ z.subscribed = kept
      /\ z.channels = f /\ z.has = x.has /\ z.instruct = x.instruct /\ z.credit = x.credit
      /\ z.response = x.response /\ z.filtering = x.filtering /\ z.early = x.early
      /\ z.outReq = x.outReq /\ z.retryTimer = x.retryTimer /\ z.pendingAction = x.pendingAction
      /\ z.inProcess = x.inProcess /\ z.misuse = x.misuse /\ z.skipped = x.skipped
      /\ z.assertion = x.assertion
  BY <1>3, <1>7 DEF Typed, HasFields
<1>10. Between(z)
  BY <1>2, <1>8, <1>9 DEF Between, Steady, Sound, ResponseOfHold
<1>11. IdsAgree(z)
  BY <1>1, <1>2, <1>9 DEF IdsAgree
<1>12. QED BY <1>9, <1>10, <1>11

\* A non-empty set of natural numbers has a least one.
LEMMA LeastOf ==
    ASSUME NEW T \in SUBSET Nat, T # {}
    PROVE  \E n \in T : \A m \in T : n <= m
<1>1. PICK n \in T : \A m \in T : ~(<<m, n>> \in OpToRel(<, Nat))
  BY NatLessThanWellFounded, WFMin
<1>2. \A m \in T : ~(m < n)
  BY <1>1 DEF OpToRel
<1>3. QED BY <1>2

LEMMA DropNonMatchingDone ==
    ASSUME NEW x, Typed(x), NEW z, z = DropNonMatching(x)
    PROVE  \E q \in Seq(Published) : Len(q) <= Len(x.queue) /\ z = [x EXCEPT !.queue = q]
<1>1. PICK T : T = {n \in 1..Len(x.queue) : Follows(x, x.queue[n])}
  OBVIOUS
<1>2. x.queue \in Seq(Published)
  BY DEF Typed
<1>3. CASE T = {}
  <2>1. z = [x EXCEPT !.queue = <<>>]
    BY <1>1, <1>3 DEF DropNonMatching
  <2>2. PICK q : q = <<>>
    OBVIOUS
  <2>3. q \in Seq(Published) /\ Len(q) <= Len(x.queue)
    BY <1>2, <2>2
  <2>4. z = [x EXCEPT !.queue = q]
    BY <2>1, <2>2
  <2>5. QED BY <2>3, <2>4
<1>4. CASE T # {}
  <2>1. PICK first : first = CHOOSE n \in T : \A m \in T : n <= m
    OBVIOUS
  <2>2. T \in SUBSET Nat
    BY <1>1, <1>2
  <2>3. first \in T
    BY <1>4, <2>1, <2>2, LeastOf
  <2>4. first \in 1..Len(x.queue)
    BY <1>1, <2>3
  <2>5. PICK q : q = SubSeq(x.queue, first, Len(x.queue))
    OBVIOUS
  <2>6. q \in Seq(Published) /\ Len(q) <= Len(x.queue)
    BY <1>2, <2>4, <2>5
  <2>7. z = [x EXCEPT !.queue = q]
    BY <1>1, <1>4, <2>1, <2>5 DEF DropNonMatching
  <2>8. QED BY <2>6, <2>7
<1>5. QED BY <1>3, <1>4

\* The channels are set for a stream hold: an update if they conflict with the
\* last ids, or else the queue.
LEMMA StreamHoldInv ==
    ASSUME NEW x, Between(x), IdsAgree(x), ~x.pendingAction, x.instruct.hold # "none",
           NEW first \in BOOLEAN, NEW z, z = StreamHold(x, first)
    PROVE  SessionInv(z) /\ (~first => z.state = "SendingQueue")
<1>1. Typed(x)
  BY DEF Between, Steady, Sound
<1>2. CASE first /\ Conflicts(x) # {}
  <2>1. PICK ids : ids = [c \in Channels |-> IF c \in Conflicts(x) THEN Null ELSE x.lastIds[c]]
    OBVIOUS
  <2>2. ids \in [Channels -> Ids \cup {Null}]
    BY <1>1, <2>1 DEF Typed
  <2>3. PICK y : y = [x EXCEPT !.state = "Holding", !.lastIds = ids]
    OBVIOUS
  <2>4. Typed(y)
    BY <1>1, <2>2, <2>3 DEF Typed, HasFields, States
  <2>5. /\ y.state = "Holding" /\ y.queue = x.queue /\ y.subscribed = x.subscribed
        /\ y.channels = x.channels /\ y.has = x.has /\ y.instruct = x.instruct /\ y.credit = x.credit
        /\ y.response = x.response /\ y.filtering = x.filtering /\ y.early = x.early
        /\ y.outReq = x.outReq /\ y.retryTimer = x.retryTimer /\ ~y.pendingAction
        /\ y.inProcess = x.inProcess /\ y.misuse = x.misuse /\ y.skipped = x.skipped
        /\ y.assertion = x.assertion
    BY <1>1, <2>3 DEF Typed, HasFields
  <2>6. Between(y) /\ IdsAgree(y)
    BY <2>4, <2>5 DEF Between, Steady, Sound, ResponseOfHold, IdsAgree
  <2>7. z = Update(y, "low")
    BY <1>2, <2>1, <2>3 DEF StreamHold
  <2>8. z = UpdateHolding(y, "low")
    BY <2>5, <2>7 DEF Update
  <2>9. QED BY <1>2, <2>5, <2>6, <2>8, UpdateHoldingInv
<1>3. CASE ~(first /\ Conflicts(x) # {})
  <2>1. PICK y : y = DropNonMatching(x)
    OBVIOUS
  <2>2. PICK q \in Seq(Published) : Len(q) <= Len(x.queue) /\ y = [x EXCEPT !.queue = q]
    BY <1>1, <2>1, DropNonMatchingDone
  <2>3. Typed(y)
    BY <1>1, <2>2 DEF Typed, HasFields
  <2>4. /\ y.queue = q /\ y.subscribed = x.subscribed
        /\ y.channels = x.channels /\ y.has = x.has /\ y.instruct = x.instruct /\ y.credit = x.credit
        /\ y.response = x.response /\ y.filtering = x.filtering /\ y.early = x.early
        /\ y.outReq = x.outReq /\ y.retryTimer = x.retryTimer /\ ~y.pendingAction
        /\ y.inProcess = x.inProcess /\ y.misuse = x.misuse /\ y.skipped = x.skipped
        /\ y.assertion = x.assertion
    BY <1>1, <2>2 DEF Typed, HasFields
  <2>5. Len(y.queue) <= QueueMax
    <3>1. Len(x.queue) \in Nat /\ Len(q) \in Nat /\ QueueMax \in Nat /\ Len(x.queue) <= QueueMax
      BY <1>1, <2>2, HttpSessionAssumption DEF Between, Steady, Sound, Typed
    <3>2. QED BY <2>2, <2>4, <3>1
  <2>6. Between(y) /\ IdsAgree(y)
    BY <2>3, <2>4, <2>5 DEF Between, Steady, Sound, ResponseOfHold, IdsAgree
  <2>7. z = SendQueue(y)
    BY <1>3, <2>1 DEF StreamHold
  <2>8. QED BY <2>4, <2>6, <2>7, SendQueueInv
<1>4. QED BY <1>2, <1>3

LEMMA PrepareInv ==
    ASSUME NEW x, Between(x), ~x.pendingAction, x.instruct.hold # "none", x.has = x.prevIds,
           NEW first \in BOOLEAN, NEW z, z = PrepareToSendQueueOrHold(x, first)
    PROVE  SessionInv(z) /\ (~first => z.state # "Proxying")
<1>1. Assert(x, x.instruct.hold # "none") = x
  BY DEF Assert
<1>2. PICK y : y = SetChannels(x)
  OBVIOUS
<1>3. /\ Between(y) /\ IdsAgree(y) /\ y.instruct = x.instruct /\ ~y.pendingAction
  BY <1>2, SetChannelsDone
<1>4. CASE x.instruct.hold = "stream" /\ ~x.nextUri /\ \E c \in DOMAIN x.prevIds : x.prevIds[c] # Null
  <2>1. z = DoError(x)
    BY <1>1, <1>4 DEF PrepareToSendQueueOrHold
  <2>2. QED BY <2>1, DoErrorInv DEF Between
<1>5. CASE x.instruct.hold = "response"
  <2>1. PICK b \in BOOLEAN : z = [y EXCEPT !.state = "Holding", !.timer = b]
    <3>1. z = [y EXCEPT !.state = "Holding", !.timer = @ \/ x.instruct.timeout]
      BY <1>1, <1>2, <1>5 DEF PrepareToSendQueueOrHold
    <3>2. PICK b : b = (y.timer \/ x.instruct.timeout)
      OBVIOUS
    <3>3. b \in BOOLEAN
      BY <3>2, Zenon
    <3>4. z = [y EXCEPT !.state = "Holding", !.timer = b]
      BY <3>1, <3>2
    <3>5. QED BY <3>3, <3>4
  <2>2. /\ Sound(y) /\ ~y.assertion /\ ResponseOfHold(y) /\ y.subscribed = DOMAIN y.channels
        /\ ~y.inProcess /\ y.filtering = None
        /\ y.retryTimer => y.early
        /\ y.outReq # None => y.early
        /\ y.instruct.hold = "response" => y.credit > 0
    BY <1>3 DEF Between, Steady
  <2>3. Typed(z)
    BY <2>1, <2>2 DEF Sound, Typed, HasFields, States
  <2>4. /\ z.state = "Holding" /\ z.queue = y.queue /\ z.subscribed = y.subscribed
        /\ z.channels = y.channels /\ z.has = y.has /\ z.instruct = y.instruct /\ z.credit = y.credit
        /\ z.response = y.response /\ z.filtering = None /\ z.early = y.early /\ z.outReq = y.outReq
        /\ z.retryTimer = y.retryTimer /\ ~z.pendingAction /\ ~z.inProcess
        /\ ~z.misuse /\ ~z.skipped /\ ~z.assertion
    BY <1>3, <2>1, <2>2 DEF Sound, Typed, HasFields
  <2>5. Sound(z)
    BY <2>2, <2>3, <2>4 DEF Sound
  <2>6. ResponseFits(z) /\ HoldFits(z)
    BY <1>3, <1>5, <2>2, <2>4 DEF ResponseOfHold, ResponseFits, HoldFits, Live
  <2>7. IdsFit(z) /\ ChannelsFit(z)
    BY <1>3, <2>2, <2>4 DEF IdsFit, IdsAgree, ChannelsFit
  <2>8. Fresh(z) /\ RequestsFit(z) /\ QueueFits(z) /\ WakeFits(z) /\ ActionFits(z) /\ QuietFits(z)
    BY <2>2, <2>4 DEF Fresh, RequestsFit, QueueFits, WakeFits, ActionFits, QuietFits, Ending
  <2>9. QED BY <2>4, <2>5, <2>6, <2>7, <2>8 DEF SessionInv
<1>6. CASE /\ x.instruct.hold # "response"
           /\ ~(x.instruct.hold = "stream" /\ ~x.nextUri /\ \E c \in DOMAIN x.prevIds : x.prevIds[c] # Null)
  <2>1. z = StreamHold(y, first)
    BY <1>1, <1>2, <1>6 DEF PrepareToSendQueueOrHold
  <2>2. QED BY <1>3, <2>1, StreamHoldInv
<1>7. QED BY <1>4, <1>5, <1>6

\* The first response is complete.
LEMMA FirstDoneInv ==
    ASSUME NEW x, Between(x), ~x.pendingAction,
           x.instruct.hold = "none" => x.nextUri,
           x.has = IF x.instruct.hold = "none" THEN [c \in {} |-> Null] ELSE x.prevIds
    PROVE  SessionInv(FirstInstructResponseDone(x))
<1>1. CASE x.instruct.hold = "none"
  <2>1. FirstInstructResponseDone(x) = DoUpdate(x)
    BY <1>1 DEF FirstInstructResponseDone, Assert
  <2>2. IdsAgree(x)
    BY <1>1 DEF IdsAgree
  <2>3. QED BY <2>1, <2>2, DoUpdateInv
<1>2. CASE x.instruct.hold # "none"
  BY <1>2, PrepareInv DEF FirstInstructResponseDone
<1>3. QED BY <1>1, <1>2

LEMMA TryWriteInv ==
    ASSUME NEW x, Between(x), ~x.pendingAction, x.state = "SendingFirstInstructResponse",
           x.instruct.hold # "response", ~x.retryTimer, x.outReq = None, x.toSend > 0,
           x.instruct.hold = "none" => x.nextUri,
           x.has = IF x.instruct.hold = "none" THEN [c \in {} |-> Null] ELSE x.prevIds
    PROVE  SessionInv(TryWriteFirstInstructResponse(x))
<1>1. /\ Sound(x) /\ Typed(x) /\ ~x.assertion /\ ResponseOfHold(x) /\ x.subscribed = DOMAIN x.channels
      /\ ~x.inProcess /\ x.filtering = None
  BY DEF Between, Steady, Sound
<1>2. x.credit \in Nat /\ x.toSend \in Nat /\ CreditMax \in Nat /\ x.credit <= CreditMax
  BY <1>1, HttpSessionAssumption DEF Typed
<1>3. PICK n : n = IF x.toSend <= x.credit THEN x.toSend ELSE x.credit
  OBVIOUS
<1>4. PICK y : y = [x EXCEPT !.credit = x.credit - n, !.toSend = x.toSend - n, !.misuse = FALSE]
  OBVIOUS
<1>5. y = [x EXCEPT !.credit = @ - n, !.toSend = @ - n, !.misuse = @ \/ x.response # "begun"]
  <2>1. (x.misuse \/ x.response # "begun") = FALSE
    BY <1>1 DEF Sound, ResponseOfHold
  <2>2. QED BY <1>1, <1>4, <2>1 DEF Typed, HasFields
<1>6. /\ x.credit - n \in 0..CreditMax /\ x.toSend - n \in Nat
      /\ x.toSend - n > 0 => x.credit - n = 0
  BY <1>2, <1>3
<1>7. Typed(y)
  BY <1>1, <1>4, <1>6 DEF Typed, HasFields
<1>8. /\ y.state = x.state /\ y.queue = x.queue /\ y.subscribed = x.subscribed
      /\ y.channels = x.channels /\ y.has = x.has /\ y.instruct = x.instruct
      /\ y.response = x.response /\ y.filtering = None /\ y.early = x.early
      /\ y.outReq = None /\ ~y.retryTimer /\ ~y.pendingAction /\ ~y.inProcess
      /\ ~y.misuse /\ ~y.skipped /\ ~y.assertion /\ y.prevIds = x.prevIds /\ y.nextUri = x.nextUri
      /\ y.credit = x.credit - n /\ y.toSend = x.toSend - n
  BY <1>1, <1>4 DEF Sound, Typed, HasFields
<1>9. Between(y)
  BY <1>1, <1>7, <1>8 DEF Between, Steady, Sound, ResponseOfHold
<1>10. \A w : w \in {x, y} /\ w.credit = 0 /\ w.toSend > 0 => SessionInv(w)
  <2>1. SUFFICES ASSUME NEW w \in {x, y}, w.credit = 0, w.toSend > 0
                 PROVE  SessionInv(w)
    OBVIOUS
  <2>2. /\ w.state = "SendingFirstInstructResponse" /\ Between(w) /\ ~w.pendingAction
        /\ w.instruct.hold # "response" /\ ~w.retryTimer /\ w.outReq = None
        /\ w.instruct.hold = "none" => w.nextUri
        /\ w.has = IF w.instruct.hold = "none" THEN [c \in {} |-> Null] ELSE w.prevIds
    BY <1>8, <1>9
  <2>3. /\ Sound(w) /\ ~w.assertion /\ ResponseOfHold(w) /\ w.subscribed = DOMAIN w.channels
        /\ ~w.inProcess /\ w.filtering = None
    BY <2>2 DEF Between, Steady
  <2>4. ResponseFits(w) /\ HoldFits(w)
    BY <2>2, <2>3 DEF ResponseOfHold, ResponseFits, HoldFits, Live
  <2>5. IdsFit(w) /\ ChannelsFit(w)
    BY <2>2, <2>3 DEF IdsFit, ChannelsFit
  <2>6. Fresh(w) /\ RequestsFit(w) /\ QueueFits(w) /\ WakeFits(w) /\ ActionFits(w) /\ QuietFits(w)
    BY <2>1, <2>2, <2>3 DEF Fresh, RequestsFit, QueueFits, WakeFits, ActionFits, QuietFits, Ending
  <2>7. QED BY <2>3, <2>4, <2>5, <2>6 DEF SessionInv
<1>11. CASE x.credit = 0
  <2>1. TryWriteFirstInstructResponse(x) = x
    BY <1>11 DEF TryWriteFirstInstructResponse
  <2>2. QED BY <1>10, <1>11, <2>1
<1>12. CASE x.credit > 0 /\ y.toSend > 0
  <2>1. TryWriteFirstInstructResponse(x) = y
    BY <1>2, <1>3, <1>5, <1>12 DEF TryWriteFirstInstructResponse
  <2>2. QED BY <1>6, <1>8, <1>10, <1>12, <2>1
<1>13. CASE x.credit > 0 /\ y.toSend = 0
  <2>1. TryWriteFirstInstructResponse(x) = FirstInstructResponseDone(y)
    BY <1>2, <1>3, <1>5, <1>13 DEF TryWriteFirstInstructResponse
  <2>2. QED BY <1>8, <1>9, <2>1, FirstDoneInv
<1>14. QED BY <1>2, <1>6, <1>8, <1>11, <1>12, <1>13

-----------------------------------------------------------------------------
(* The publish queue                                                       *)

\* sendQueueDone(): the session holds again, or updates.
LEMMA SendQueueDoneInv ==
    ASSUME NEW x, Core(x), x.state = "SendingQueue", x.filtering = None, ~x.inProcess
    PROVE  SessionInv(SendQueueDone(x))
<1>1. /\ Sound(x) /\ Typed(x) /\ ~x.assertion /\ ResponseOfHold(x) /\ x.subscribed = DOMAIN x.channels
  BY LiveIsSteady DEF Steady, Sound, Live
<1>2. /\ x.retryTimer => x.early
      /\ x.outReq # None => x.early
  BY DEF Core, RequestsFit
<1>3. /\ x.instruct.hold # "none"
      /\ x.instruct.hold = "response" => x.credit > 0
  BY DEF Core, HoldFits, Live
<1>4. IdsAgree(x) /\ ~x.pendingAction
  BY DEF Core, IdsFit, ActionFits, Live
<1>5. PICK y : y = [x EXCEPT !.state = "Holding"]
  OBVIOUS
<1>6. Typed(y) /\ y.instruct = x.instruct
  BY <1>1, <1>5 DEF Typed, HasFields, States
<1>7. PICK z : z = IF y.instruct.hold = "stream"
                   THEN [SetupKeepAlive(y) EXCEPT
                            !.active = {},
                            !.registered = @ \/ (y.nextUri /\ y.instruct.poll)]
                   ELSE y
  OBVIOUS
<1>8. Typed(z) /\ \E t, a, r : z = [y EXCEPT !.timer = t, !.active = a, !.registered = r]
  <2>1. CASE y.instruct.hold = "stream"
    <3>1. PICK t : t = (y.timer \/ y.instruct.timeout)
      OBVIOUS
    <3>2. PICK r : r = (y.registered \/ (y.nextUri /\ y.instruct.poll))
      OBVIOUS
    <3>3. t \in BOOLEAN /\ r \in BOOLEAN
      BY <3>1, <3>2, Zenon
    <3>4. SetupKeepAlive(y) = [y EXCEPT !.timer = t]
      BY <3>1 DEF SetupKeepAlive
    <3>5. [y EXCEPT !.timer = t].registered = y.registered
      BY <1>6 DEF Typed, HasFields
    <3>6. z = [y EXCEPT !.timer = t, !.active = {}, !.registered = r]
      BY <1>7, <2>1, <3>2, <3>4, <3>5
    <3>7. Typed(z)
      BY <1>6, <3>3, <3>6 DEF Typed, HasFields
    <3>8. QED BY <3>6, <3>7
  <2>2. CASE y.instruct.hold # "stream"
    <3>1. z = y
      BY <1>7, <2>2
    <3>2. PICK t, a, r : t = y.timer /\ a = y.active /\ r = y.registered
      OBVIOUS
    <3>3. z = [y EXCEPT !.timer = t, !.active = a, !.registered = r]
      BY <1>5, <3>1, <3>2
    <3>4. QED BY <1>6, <3>1, <3>3
  <2>3. QED BY <2>1, <2>2
<1>9. /\ z.state = "Holding" /\ z.queue = x.queue /\ z.subscribed = x.subscribed
      /\ z.channels = x.channels /\ z.has = x.has /\ z.instruct = x.instruct /\ z.credit = x.credit
      /\ z.response = x.response /\ z.filtering = None /\ z.early = x.early /\ z.outReq = x.outReq
      /\ z.retryTimer = x.retryTimer /\ ~z.pendingAction /\ ~z.inProcess
      /\ ~z.misuse /\ ~z.skipped /\ ~z.assertion
  <2>1. PICK t, a, r : z = [y EXCEPT !.timer = t, !.active = a, !.registered = r]
    BY <1>8
  <2>2. /\ y.state = "Holding" /\ y.queue = x.queue /\ y.subscribed = x.subscribed
        /\ y.channels = x.channels /\ y.has = x.has /\ y.instruct = x.instruct /\ y.credit = x.credit
        /\ y.response = x.response /\ y.filtering = None /\ y.early = x.early /\ y.outReq = x.outReq
        /\ y.retryTimer = x.retryTimer /\ ~y.pendingAction /\ ~y.inProcess
        /\ ~y.misuse /\ ~y.skipped /\ ~y.assertion
    BY <1>1, <1>4, <1>5 DEF Sound, Typed, HasFields
  <2>3. QED BY <1>6, <2>1, <2>2 DEF Typed, HasFields
<1>10. Sound(z)
  BY <1>1, <1>8, <1>9 DEF Sound
<1>11. ResponseFits(z) /\ HoldFits(z)
  BY <1>1, <1>3, <1>9 DEF ResponseOfHold, ResponseFits, HoldFits, Live
<1>12. IdsFit(z) /\ ChannelsFit(z)
  BY <1>1, <1>4, <1>9 DEF IdsFit, IdsAgree, ChannelsFit
<1>13. Fresh(z) /\ RequestsFit(z) /\ QueueFits(z) /\ WakeFits(z) /\ ActionFits(z) /\ QuietFits(z)
  BY <1>2, <1>9 DEF Fresh, RequestsFit, QueueFits, WakeFits, ActionFits, QuietFits, Ending
<1>14. SessionInv(z)
  BY <1>10, <1>11, <1>12, <1>13 DEF SessionInv
<1>15. CASE z.needUpdate # "no"
  <2>1. SendQueueDone(x) = Update(z, z.needUpdate)
    BY <1>5, <1>7, <1>15 DEF SendQueueDone
  <2>2. z.needUpdate \in {"low", "high"}
    BY <1>8, <1>15 DEF Typed
  <2>3. QED BY <1>14, <2>1, <2>2, UpdateInv
<1>16. CASE z.needUpdate = "no"
  <2>1. SendQueueDone(x) = z
    BY <1>5, <1>7, <1>16 DEF SendQueueDone
  <2>2. QED BY <1>14, <2>1
<1>17. QED BY <1>15, <1>16

\* processPublishQueue() after its loop.
LEMMA ProcessQueueEndInv ==
    ASSUME NEW x, SessionInv(x), x.inProcess, ~LoopContinues(x)
    PROVE  SessionInv(ProcessQueueEnd(x))
<1>1. PICK y : y = [x EXCEPT !.inProcess = FALSE]
  OBVIOUS
<1>2. Typed(x) /\ Sound(x) /\ x.state \in {"SendingQueue", "Closing"}
  BY DEF SessionInv, Sound, QueueFits
<1>3. Typed(y)
  BY <1>1, <1>2 DEF Typed, HasFields
<1>4. /\ y.state = x.state /\ y.queue = x.queue /\ y.subscribed = x.subscribed
      /\ y.channels = x.channels /\ y.has = x.has /\ y.instruct = x.instruct /\ y.credit = x.credit
      /\ y.response = x.response /\ y.filtering = x.filtering /\ y.early = x.early
      /\ y.outReq = x.outReq /\ y.retryTimer = x.retryTimer /\ y.pendingAction = x.pendingAction
      /\ ~y.inProcess /\ y.misuse = x.misuse /\ y.skipped = x.skipped /\ y.assertion = x.assertion
      /\ y.timer = x.timer /\ y.registered = x.registered
  BY <1>1, <1>2 DEF Typed, HasFields
<1>5. Core(y)
  <2>1. Sound(y)
    BY <1>2, <1>3, <1>4 DEF Sound
  <2>2. ResponseFits(y) /\ HoldFits(y) /\ IdsFit(y) /\ ChannelsFit(y)
    BY <1>2, <1>4 DEF SessionInv, ResponseFits, ResponseOfHold, HoldFits, IdsFit, IdsAgree, ChannelsFit
  <2>3. Fresh(y) /\ RequestsFit(y) /\ QueueFits(y) /\ ActionFits(y) /\ QuietFits(y)
    BY <1>2, <1>4 DEF SessionInv, Fresh, RequestsFit, QueueFits, Follows, ActionFits, QuietFits
  <2>4. QED BY <2>1, <2>2, <2>3 DEF Core
<1>6. CASE y.filtering # None
  <2>1. ProcessQueueEnd(x) = y
    BY <1>1, <1>6 DEF ProcessQueueEnd
  <2>2. WakeFits(y)
    BY <1>2, <1>4, <1>6 DEF WakeFits
  <2>3. QED BY <1>5, <2>1, <2>2, CoreInv
<1>7. CASE y.filtering = None /\ y.state = "Closing"
  <2>1. ProcessQueueEnd(x) = SendQueueDone(y)
    BY <1>1, <1>7 DEF ProcessQueueEnd
  <2>2. SendQueueDone(y) = y
    BY <1>7 DEF SendQueueDone
  <2>3. WakeFits(y)
    BY <1>7 DEF WakeFits
  <2>4. QED BY <1>5, <2>1, <2>2, <2>3, CoreInv
<1>8. CASE y.filtering = None /\ y.state = "SendingQueue" /\ y.queue = <<>>
  <2>1. ProcessQueueEnd(x) = SendQueueDone(y)
    BY <1>1, <1>8 DEF ProcessQueueEnd
  <2>2. QED BY <1>4, <1>5, <1>8, <2>1, SendQueueDoneInv
<1>9. CASE y.filtering = None /\ y.state = "SendingQueue" /\ y.queue # <<>>
  <2>1. y.credit = 0
    <3>1. ~(x.credit > 0)
      BY <1>4, <1>9 DEF LoopContinues
    <3>2. x.credit \in Nat
      BY <1>2, HttpSessionAssumption DEF Typed
    <3>3. QED BY <1>4, <3>1, <3>2
  <2>2. y.instruct.hold = "stream"
    <3>1. y.instruct.hold # "none" /\ y.instruct.hold # "response"
      BY <1>5, <1>9, <2>1 DEF Core, HoldFits, Live
    <3>2. y.instruct.hold \in {"none", "response", "stream"}
      BY <1>3 DEF Typed, Instructs
    <3>3. QED BY <3>1, <3>2
  <2>3. PICK z : z = [y EXCEPT !.timer = FALSE, !.registered = FALSE]
    OBVIOUS
  <2>4. ProcessQueueEnd(x) = z
    BY <1>1, <1>9, <2>2, <2>3 DEF ProcessQueueEnd, Assert
  <2>5. Typed(z)
    BY <1>3, <2>3 DEF Typed, HasFields
  <2>6. /\ z.state = y.state /\ z.queue = y.queue /\ z.subscribed = y.subscribed
        /\ z.channels = y.channels /\ z.has = y.has /\ z.instruct = y.instruct /\ z.credit = y.credit
        /\ z.response = y.response /\ z.filtering = y.filtering /\ z.early = y.early
        /\ z.outReq = y.outReq /\ z.retryTimer = y.retryTimer /\ z.pendingAction = y.pendingAction
        /\ ~z.inProcess /\ z.misuse = y.misuse /\ z.skipped = y.skipped /\ z.assertion = y.assertion
    BY <1>3, <1>4, <2>3 DEF Typed, HasFields
  <2>7. Sound(z)
    BY <1>5, <2>5, <2>6 DEF Core, Sound
  <2>8. ResponseFits(z) /\ HoldFits(z) /\ IdsFit(z) /\ ChannelsFit(z)
    BY <1>5, <1>9, <2>6 DEF Core, ResponseFits, ResponseOfHold, HoldFits, IdsFit, IdsAgree, ChannelsFit
  <2>9. Fresh(z) /\ RequestsFit(z) /\ QueueFits(z) /\ ActionFits(z) /\ QuietFits(z) /\ WakeFits(z)
    BY <1>5, <1>9, <2>1, <2>6 DEF Core, Fresh, RequestsFit, QueueFits, ActionFits, QuietFits, WakeFits, Ending
  <2>10. QED BY <2>4, <2>7, <2>8, <2>9 DEF SessionInv
<1>10. QED BY <1>2, <1>4, <1>6, <1>7, <1>8, <1>9

\* A session that processes its queue and runs no filters.
Sending(x) ==
    /\ Steady(x) /\ x.state = "SendingQueue" /\ x.filtering = None /\ ~x.pendingAction
    /\ IdsAgree(x) /\ x.instruct.hold # "none"
    /\ x.retryTimer => x.early
    /\ x.outReq # None => x.early
    /\ x.instruct.hold = "response" => x.credit > 0

LEMMA SendingCore ==
    ASSUME NEW x, Sending(x)
    PROVE  Core(x)
<1>1. Sound(x)
  BY DEF Sending, Steady
<1>2. ResponseFits(x) /\ HoldFits(x) /\ IdsFit(x) /\ ChannelsFit(x)
  BY DEF Sending, Steady, ResponseFits, HoldFits, IdsFit, ChannelsFit, Live
<1>3. Fresh(x) /\ RequestsFit(x) /\ QueueFits(x) /\ ActionFits(x) /\ QuietFits(x)
  BY DEF Sending, Steady, Fresh, RequestsFit, QueueFits, ActionFits, QuietFits, Ending
<1>4. QED BY <1>1, <1>2, <1>3 DEF Core

\* The first item is taken off the queue.
LEMMA PopDone ==
    ASSUME NEW x, Core(x), x.state = "SendingQueue", x.queue # <<>>,
           NEW y, \/ y = [x EXCEPT !.queue = Tail(@), !.filtering = None]
                  \/ x.filtering = None /\ y = [x EXCEPT !.queue = Tail(@)]
    PROVE  /\ Sending(y) /\ y.inProcess = x.inProcess /\ Head(x.queue) \in Published
           /\ y.channels = x.channels /\ y.instruct = x.instruct
<1>1. /\ Steady(x) /\ Sound(x) /\ Typed(x) /\ x.queue \in Seq(Published)
  BY LiveIsSteady DEF Steady, Sound, Typed, Live
<1>2. /\ x.retryTimer => x.early
      /\ x.outReq # None => x.early
  BY DEF Core, RequestsFit
<1>3. /\ x.instruct.hold # "none"
      /\ x.instruct.hold = "response" => x.credit > 0
  BY DEF Core, HoldFits, Live
<1>4. IdsAgree(x) /\ ~x.pendingAction
  BY DEF Core, IdsFit, ActionFits, Live
<1>5. PICK q : q = Tail(x.queue)
  OBVIOUS
<1>6. q \in Seq(Published) /\ Len(q) <= Len(x.queue) /\ Head(x.queue) \in Published
  BY <1>1, <1>5
<1>7. Len(q) <= QueueMax
  <2>1. Len(x.queue) \in Nat /\ Len(q) \in Nat /\ QueueMax \in Nat /\ Len(x.queue) <= QueueMax
    BY <1>1, <1>6, HttpSessionAssumption DEF Sound
  <2>2. QED BY <1>6, <2>1
<1>8. \/ y = [x EXCEPT !.queue = q, !.filtering = None]
      \/ x.filtering = None /\ y = [x EXCEPT !.queue = q]
  BY <1>5
<1>9. Typed(y)
  BY <1>1, <1>6, <1>8 DEF Typed, HasFields
<1>10. /\ y.state = x.state /\ y.queue = q /\ y.subscribed = x.subscribed
       /\ y.channels = x.channels /\ y.has = x.has /\ y.instruct = x.instruct /\ y.credit = x.credit
       /\ y.response = x.response /\ y.filtering = None /\ y.early = x.early /\ y.outReq = x.outReq
       /\ y.retryTimer = x.retryTimer /\ y.pendingAction = x.pendingAction /\ y.inProcess = x.inProcess
       /\ y.misuse = x.misuse /\ y.skipped = x.skipped /\ y.assertion = x.assertion
  BY <1>1, <1>8 DEF Typed, HasFields
<1>11. Steady(y)
  BY <1>1, <1>7, <1>9, <1>10 DEF Steady, Sound, ResponseOfHold
<1>12. IdsAgree(y)
  BY <1>4, <1>10 DEF IdsAgree
<1>13. QED BY <1>2, <1>3, <1>4, <1>6, <1>10, <1>11, <1>12 DEF Sending

\* The session moves on to an item that follows what the client has: as far as
\* responses, requests and subscriptions go nothing changes.
LEMMA AdvanceDone ==
    ASSUME NEW x, Sending(x), NEW item \in Published, Follows(x, item),
           NEW y, y = Advance(x, item)
    PROVE  /\ Steady(y) /\ y.has = x.has /\ y.skipped = x.skipped /\ y.queue = x.queue
           /\ y.channels = [x.channels EXCEPT ![item.channel] = IF @ # Null THEN item.id ELSE Null]
           /\ y.state = "SendingQueue" /\ y.filtering = None /\ ~y.pendingAction
           /\ y.instruct = x.instruct /\ y.inProcess = x.inProcess /\ y.outReq = x.outReq
           /\ y.retryTimer = x.retryTimer /\ y.early = x.early /\ y.credit = x.credit
<1>1. PICK f : f = [x.channels EXCEPT ![item.channel] = IF @ # Null THEN item.id ELSE Null]
  OBVIOUS
<1>2. Typed(x)
  BY DEF Sending, Steady, Sound
<1>3. item.channel \in DOMAIN x.channels /\ item.id \in Ids \cup {Null}
  BY DEF Follows, Published, Items
<1>4. x.channels \in Partials
  BY <1>2 DEF Typed
<1>5. f \in [DOMAIN x.channels -> Ids \cup {Null}] /\ DOMAIN x.channels \in SUBSET Channels
  BY <1>1, <1>3, <1>4, PartialsElim
<1>6. f \in Partials
  BY <1>5, PartialsIntro
<1>7. y = [x EXCEPT !.channels = f]
  BY <1>1, <1>2 DEF Advance, Typed, HasFields
<1>8. Typed(y)
  BY <1>2, <1>6, <1>7 DEF Typed, HasFields
<1>9. /\ y.state = x.state /\ y.queue = x.queue /\ y.subscribed = x.subscribed
      /\ y.channels = f /\ y.has = x.has /\ y.instruct = x.instruct /\ y.credit = x.credit
      /\ y.response = x.response /\ y.filtering = x.filtering /\ y.early = x.early
      /\ y.outReq = x.outReq /\ y.retryTimer = x.retryTimer /\ y.pendingAction = x.pendingAction
      /\ y.inProcess = x.inProcess /\ y.misuse = x.misuse /\ y.skipped = x.skipped
      /\ y.assertion = x.assertion
  BY <1>2, <1>7 DEF Typed, HasFields
<1>10. Steady(y)
  BY <1>5, <1>8, <1>9 DEF Sending, Steady, Sound, ResponseOfHold
<1>11. QED BY <1>1, <1>9, <1>10 DEF Sending

\* The client gets the item, or the filters drop it: it comes right after what
\* the client has.
LEMMA ClientGetsDone ==
    ASSUME NEW x, Sending(x), NEW item \in Published, Follows(x, item),
           NEW y, y = Advance(x, item),
           NEW z, z = ClientGets(y, item)
    PROVE  Sending(z) /\ z.inProcess = x.inProcess /\ z.instruct = x.instruct
<1>1. /\ Steady(y) /\ y.has = x.has /\ y.skipped = x.skipped
      /\ y.channels = [x.channels EXCEPT ![item.channel] = IF @ # Null THEN item.id ELSE Null]
      /\ y.state = "SendingQueue" /\ y.filtering = None /\ ~y.pendingAction
      /\ y.instruct = x.instruct /\ y.inProcess = x.inProcess /\ y.outReq = x.outReq
      /\ y.retryTimer = x.retryTimer /\ y.early = x.early /\ y.credit = x.credit
  BY AdvanceDone
<1>2. /\ item.channel \in DOMAIN x.channels /\ item.id \in Ids \cup {Null}
      /\ x.channels[item.channel] \in {Null, item.prevId}
  BY DEF Follows, Published, Items
<1>3. Typed(y) /\ y.has \in Partials
  BY <1>1 DEF Steady, Sound, Typed
<1>4. CASE ~(item.channel \in DOMAIN y.has /\ y.has[item.channel] # Null)
  <2>1. z = y
    BY <1>4 DEF ClientGets
  <2>2. IdsAgree(y)
    BY <1>1, <1>2, <1>4 DEF Sending, IdsAgree
  <2>3. QED BY <1>1, <2>1, <2>2 DEF Sending
<1>5. CASE item.channel \in DOMAIN y.has /\ y.has[item.channel] # Null
  <2>1. x.channels[item.channel] = x.has[item.channel]
    BY <1>1, <1>2, <1>5 DEF Sending, IdsAgree
  <2>2. item.prevId = y.has[item.channel]
    BY <1>1, <1>2, <1>5, <2>1
  <2>3. PICK h : h = [y.has EXCEPT ![item.channel] = item.id]
    OBVIOUS
  <2>4. h \in [DOMAIN y.has -> Ids \cup {Null}] /\ DOMAIN y.has \in SUBSET Channels
    BY <1>2, <1>3, <1>5, <2>3, PartialsElim
  <2>5. h \in Partials
    BY <2>4, PartialsIntro
  <2>6. z = [y EXCEPT !.has = h, !.skipped = FALSE]
    <3>1. (y.skipped \/ item.prevId # y.has[item.channel]) = FALSE
      BY <1>1, <2>2 DEF Steady, Sound
    <3>2. z = [y EXCEPT !.has[item.channel] = item.id,
                        !.skipped = @ \/ item.prevId # y.has[item.channel]]
      BY <1>5 DEF ClientGets
    <3>3. QED BY <1>3, <2>3, <3>1, <3>2 DEF Typed, HasFields
  <2>7. Typed(z)
    BY <1>3, <2>5, <2>6 DEF Typed, HasFields
  <2>8. /\ z.state = y.state /\ z.queue = y.queue /\ z.subscribed = y.subscribed
        /\ z.channels = y.channels /\ z.has = h /\ z.instruct = y.instruct /\ z.credit = y.credit
        /\ z.response = y.response /\ z.filtering = y.filtering /\ z.early = y.early
        /\ z.outReq = y.outReq /\ z.retryTimer = y.retryTimer /\ z.pendingAction = y.pendingAction
        /\ z.inProcess = y.inProcess /\ z.misuse = y.misuse /\ ~z.skipped
        /\ z.assertion = y.assertion
    BY <1>3, <2>6 DEF Typed, HasFields
  <2>9. Steady(z)
    BY <1>1, <2>7, <2>8 DEF Steady, Sound, ResponseOfHold
  <2>10. y.channels[item.channel] = item.id
    BY <1>1, <1>2, <1>5, <2>1
  <2>11. IdsAgree(z)
    <3>1. SUFFICES ASSUME NEW c \in DOMAIN y.channels \cap DOMAIN h, h[c] # Null
                   PROVE  y.channels[c] = h[c]
      BY <2>8 DEF IdsAgree
    <3>2. CASE c = item.channel
      BY <1>5, <2>3, <2>10, <3>2
    <3>3. CASE c # item.channel
      BY <1>1, <2>3, <3>1, <3>3 DEF Sending, IdsAgree
    <3>4. QED BY <3>2, <3>3
  <2>12. QED BY <1>1, <2>8, <2>9, <2>11 DEF Sending
<1>6. QED BY <1>4, <1>5

\* An item is written to a stream, keep-alives and the update timeout start
\* again: the session goes on with its queue.
LEMMA WriteSending ==
    ASSUME NEW x, Sending(x), x.instruct.hold # "response", NEW z, z = WriteBody(x)
    PROVE  Sending(z) /\ z.inProcess = x.inProcess /\ z.instruct = x.instruct
<1>1. Typed(x) /\ ~x.misuse /\ x.response = "begun"
  BY DEF Sending, Steady, Sound, ResponseOfHold
<1>2. Typed(z)
  BY <1>1, WriteTypes
<1>3. /\ z.state = x.state /\ z.queue = x.queue /\ z.subscribed = x.subscribed
      /\ z.channels = x.channels /\ z.has = x.has /\ z.instruct = x.instruct
      /\ z.response = x.response /\ z.filtering = x.filtering /\ z.early = x.early
      /\ z.outReq = x.outReq /\ z.retryTimer = x.retryTimer /\ z.pendingAction = x.pendingAction
      /\ z.inProcess = x.inProcess /\ ~z.misuse /\ z.skipped = x.skipped /\ z.assertion = x.assertion
  BY <1>1 DEF WriteBody, Typed, HasFields
<1>4. Steady(z)
  BY <1>2, <1>3 DEF Sending, Steady, Sound, ResponseOfHold
<1>5. IdsAgree(z)
  BY <1>3 DEF Sending, IdsAgree
<1>6. QED BY <1>3, <1>4, <1>5 DEF Sending

\* The same fields but for those that only timers and counts use.
TimersOnly(x, z) ==
    /\ z.state = x.state /\ z.queue = x.queue /\ z.subscribed = x.subscribed
    /\ z.channels = x.channels /\ z.has = x.has /\ z.instruct = x.instruct
    /\ z.response = x.response /\ z.filtering = x.filtering /\ z.early = x.early
    /\ z.outReq = x.outReq /\ z.retryTimer = x.retryTimer /\ z.pendingAction = x.pendingAction
    /\ z.inProcess = x.inProcess /\ z.misuse = x.misuse /\ z.skipped = x.skipped
    /\ z.assertion = x.assertion /\ z.credit = x.credit /\ z.prevIds = x.prevIds
    /\ z.nextUri = x.nextUri /\ z.toSend = x.toSend

LEMMA TimersSending ==
    ASSUME NEW x, Sending(x), NEW z, Typed(z), TimersOnly(x, z)
    PROVE  Sending(z)
<1>1. Steady(z)
  BY DEF Sending, Steady, Sound, ResponseOfHold, TimersOnly
<1>2. IdsAgree(z)
  BY DEF Sending, IdsAgree, TimersOnly
<1>3. QED BY <1>1, <1>2 DEF Sending, TimersOnly

LEMMA KeepAliveDone ==
    ASSUME NEW x, Typed(x), NEW z, z = SetupKeepAlive(x)
    PROVE  Typed(z) /\ TimersOnly(x, z)
<1>1. PICK t : t = (x.timer \/ x.instruct.timeout)
  OBVIOUS
<1>2. t \in BOOLEAN
  BY <1>1, Zenon
<1>3. z = [x EXCEPT !.timer = t]
  BY <1>1 DEF SetupKeepAlive
<1>4. Typed(z)
  BY <1>2, <1>3 DEF Typed, HasFields
<1>5. TimersOnly(x, z)
  BY <1>3 DEF TimersOnly, Typed, HasFields
<1>6. QED BY <1>4, <1>5

LEMMA CountDone ==
    ASSUME NEW x, Typed(x), NEW c \in Channels, NEW z, z = CountActivity(x, c)
    PROVE  Typed(z) /\ TimersOnly(x, z)
<1>1. PICK active : active = x.active \cup {c}
  OBVIOUS
<1>2. active \in SUBSET Channels
  BY <1>1 DEF Typed
<1>3. CASE z = x
  BY <1>3 DEF TimersOnly
<1>4. CASE z = [x EXCEPT !.active = {}, !.registered = TRUE]
  <2>1. Typed(z)
    BY <1>4 DEF Typed, HasFields
  <2>2. TimersOnly(x, z)
    BY <1>4 DEF TimersOnly, Typed, HasFields
  <2>3. QED BY <2>1, <2>2
<1>5. CASE z = [x EXCEPT !.active = active]
  <2>1. Typed(z)
    BY <1>2, <1>5 DEF Typed, HasFields
  <2>2. TimersOnly(x, z)
    BY <1>5 DEF TimersOnly, Typed, HasFields
  <2>3. QED BY <2>1, <2>2
<1>6. QED BY <1>1, <1>3, <1>4, <1>5 DEF CountActivity

\* The queue is cleared.
LEMMA ClearSending ==
    ASSUME NEW x, Sending(x), NEW z, z = [x EXCEPT !.queue = <<>>]
    PROVE  Sending(z) /\ z.inProcess = x.inProcess
<1>1. Typed(x)
  BY DEF Sending, Steady, Sound
<1>2. Typed(z)
  BY <1>1 DEF Typed, HasFields
<1>3. /\ z.state = x.state /\ z.queue = <<>> /\ z.subscribed = x.subscribed
      /\ z.channels = x.channels /\ z.has = x.has /\ z.instruct = x.instruct /\ z.credit = x.credit
      /\ z.response = x.response /\ z.filtering = x.filtering /\ z.early = x.early
      /\ z.outReq = x.outReq /\ z.retryTimer = x.retryTimer /\ z.pendingAction = x.pendingAction
      /\ z.inProcess = x.inProcess /\ z.misuse = x.misuse /\ z.skipped = x.skipped
      /\ z.assertion = x.assertion
  BY <1>1 DEF Typed, HasFields
<1>4. Steady(z)
  <2>1. Len(z.queue) <= QueueMax
    BY <1>3, HttpSessionAssumption
  <2>2. QED BY <1>2, <1>3, <2>1 DEF Sending, Steady, Sound, ResponseOfHold
<1>5. IdsAgree(z)
  BY <1>3 DEF Sending, IdsAgree
<1>6. QED BY <1>3, <1>4, <1>5 DEF Sending

\* processItem() leaves the session with its queue, or closing.
LEMMA ProcessItemDone ==
    ASSUME NEW x, Sending(x), NEW item \in Published, Follows(x, item), item.action # "mismatch",
           NEW sendAction \in {"send", "drop"}, NEW z, z = ProcessItem(x, item, sendAction)
    PROVE  Core(z) /\ z.inProcess = x.inProcess /\ z.state \in {"SendingQueue", "Closing"}
<1>1. PICK y : y = Advance(x, item)
  OBVIOUS
<1>2. /\ Steady(y) /\ y.has = x.has
      /\ y.channels = [x.channels EXCEPT ![item.channel] = IF @ # Null THEN item.id ELSE Null]
      /\ y.state = "SendingQueue" /\ y.filtering = None /\ ~y.pendingAction
      /\ y.instruct = x.instruct /\ y.inProcess = x.inProcess /\ y.outReq = x.outReq
      /\ y.retryTimer = x.retryTimer /\ y.early = x.early /\ y.credit = x.credit
  BY <1>1, AdvanceDone
<1>3. /\ Sound(y) /\ ~y.assertion /\ y.subscribed = DOMAIN y.channels
      /\ y.response = IF y.instruct.hold = "response" THEN "none" ELSE "begun"
  BY <1>2 DEF Steady, ResponseOfHold
<1>4. PICK g : g = ClientGets(y, item)
  OBVIOUS
<1>5. Sending(g) /\ g.inProcess = x.inProcess /\ g.instruct = x.instruct
  BY <1>1, <1>4, ClientGetsDone
<1>6. /\ Core(g) /\ g.state = "SendingQueue"
      /\ Sound(g) /\ ~g.assertion /\ g.subscribed = DOMAIN g.channels
      /\ g.response = IF g.instruct.hold = "response" THEN "none" ELSE "begun"
  BY <1>5, SendingCore DEF Sending, Steady, ResponseOfHold
<1>7. item.action \in {"send", "hint", "close"} /\ item.channel \in Channels
  BY HttpSessionAssumption DEF Published, Items
<1>8. x.instruct.hold \in {"response", "stream"}
  BY DEF Sending, Steady, Sound, Typed, Instructs
<1>9. item.action = "hint" => Sending(y)
  <2>1. SUFFICES ASSUME item.action = "hint"
                 PROVE  Sending(y)
    OBVIOUS
  <2>2. item.prevId = Null /\ x.channels[item.channel] = Null
    BY <2>1 DEF Published, Follows
  <2>3. IdsAgree(y)
    BY <1>2, <2>2 DEF Sending, IdsAgree
  <2>4. QED BY <1>2, <2>3 DEF Sending
<1>10. CASE sendAction = "drop"
  <2>1. z = g
    BY <1>1, <1>4, <1>10 DEF ProcessItem
  <2>2. QED BY <1>5, <1>6, <2>1
<1>11. CASE sendAction = "send" /\ x.instruct.hold = "response"
  <2>1. CASE item.action = "send"
    <3>1. z = Respond(g)
      BY <1>1, <1>2, <1>4, <1>11, <2>1 DEF ProcessItem
    <3>2. QED BY <1>5, <1>6, <1>11, <3>1, RespondInv, InvCore
  <2>2. CASE item.action = "hint"
    <3>1. z = Update(y, "high") /\ "high" \in {"low", "high"}
      BY <1>1, <1>2, <1>11, <2>2 DEF ProcessItem
    <3>2. Core(y)
      BY <1>9, <2>2, SendingCore
    <3>3. QED BY <1>2, <3>1, <3>2, UpdateNoted
  <2>3. CASE item.action = "close"
    <3>1. z = g
      BY <1>1, <1>2, <1>4, <1>11, <2>3 DEF ProcessItem
    <3>2. QED BY <1>5, <1>6, <3>1
  <2>4. QED BY <1>7, <2>1, <2>2, <2>3
<1>12. CASE sendAction = "send" /\ x.instruct.hold = "stream"
  <2>1. CASE item.action = "send"
    <3>1. PICK w : w = WriteBody(g)
      OBVIOUS
    <3>2. Sending(w) /\ w.inProcess = x.inProcess
      BY <1>5, <1>12, <3>1, WriteSending
    <3>3. PICK v : v = SetupKeepAlive(w)
      OBVIOUS
    <3>4. Typed(v) /\ TimersOnly(w, v)
      BY <3>2, <3>3, KeepAliveDone DEF Sending, Steady, Sound
    <3>5. Sending(v) /\ v.inProcess = x.inProcess
      BY <3>2, <3>4, TimersSending DEF TimersOnly
    <3>6. z = CountActivity(v, item.channel)
      BY <1>1, <1>2, <1>4, <1>12, <2>1, <3>1, <3>3 DEF ProcessItem
    <3>7. Typed(z) /\ TimersOnly(v, z)
      BY <1>7, <3>4, <3>6, CountDone
    <3>8. Sending(z) /\ z.inProcess = x.inProcess
      BY <3>5, <3>7, TimersSending DEF TimersOnly
    <3>9. QED BY <3>8, SendingCore DEF Sending
  <2>2. CASE item.action = "hint"
    <3>1. PICK w : w = [y EXCEPT !.queue = <<>>]
      OBVIOUS
    <3>2. Sending(w) /\ w.inProcess = x.inProcess
      BY <1>2, <1>9, <2>2, <3>1, ClearSending
    <3>3. z = Update(w, "high") /\ "high" \in {"low", "high"}
      BY <1>1, <1>2, <1>12, <2>2, <3>1 DEF ProcessItem
    <3>4. Core(w) /\ w.state = "SendingQueue"
      BY <3>2, SendingCore DEF Sending
    <3>5. QED BY <3>2, <3>3, <3>4, UpdateNoted
  <2>3. CASE item.action = "close"
    <3>1. z \in {EndBody(PrepareToClose(y)), EndBody(WriteBody(PrepareToClose(y)))}
      BY <1>1, <1>2, <1>12, <2>3 DEF ProcessItem
    <3>2. y.response = "begun"
      BY <1>2, <1>3, <1>12
    <3>3. QED BY <1>2, <1>3, <3>1, <3>2, CloseInv, InvCore
  <2>4. QED BY <1>7, <2>1, <2>2, <2>3
<1>13. QED BY <1>8, <1>10, <1>11, <1>12

LEMMA FiltersFinishedDone ==
    ASSUME NEW x, Core(x), x.state = "SendingQueue", x.queue # <<>>,
           Follows(x, Head(x.queue)), Head(x.queue).action # "mismatch",
           NEW result \in FilterResults, NEW z, z = MessageFiltersFinished(x, result)
    PROVE  Core(z) /\ z.inProcess = x.inProcess /\ z.state \in {"SendingQueue", "Closing"}
           /\ (result = "error" /\ Debug => SessionInv(z))
<1>1. PICK y : y = [x EXCEPT !.queue = Tail(@), !.filtering = None]
  OBVIOUS
<1>2. /\ Sending(y) /\ y.inProcess = x.inProcess /\ Head(x.queue) \in Published
      /\ y.channels = x.channels /\ y.instruct = x.instruct
  BY <1>1, PopDone
<1>3. PICK item : item = Head(x.queue)
  OBVIOUS
<1>4. Follows(y, item) /\ item \in Published /\ item.action # "mismatch"
  BY <1>2, <1>3 DEF Follows
<1>5. Core(y) /\ y.state = "SendingQueue" /\ Steady(y)
  BY <1>2, SendingCore DEF Sending
<1>6. CASE result = "error" /\ Debug
  <2>1. z = DoError(y)
    BY <1>1, <1>6 DEF MessageFiltersFinished
  <2>2. QED BY <1>2, <1>5, <2>1, DoErrorInv, InvCore
<1>7. CASE result = "error" /\ ~Debug
  <2>1. z = y
    BY <1>1, <1>7 DEF MessageFiltersFinished
  <2>2. QED BY <1>2, <1>5, <1>7, <2>1
<1>8. CASE result # "error"
  <2>1. result \in {"send", "drop"}
    BY <1>8, HttpSessionAssumption
  <2>2. z = ProcessItem(y, item, result)
    BY <1>1, <1>3, <1>8 DEF MessageFiltersFinished
  <2>3. QED BY <1>2, <1>4, <1>8, <2>1, <2>2, ProcessItemDone
<1>9. QED BY <1>6, <1>7, <1>8

\* A round of the loop in processPublishQueue().
LEMMA ProcessQueueHeadInv ==
    ASSUME NEW x, SessionInv(x), x.inProcess, LoopContinues(x),
           NEW result \in FilterResults \cup {"later"}, NEW z, z = ProcessQueueHead(x, result)
    PROVE  SessionInv(z)
<1>1. Core(x) /\ x.state = "SendingQueue" /\ x.queue # <<>> /\ x.filtering = None
  BY InvCore DEF LoopContinues
<1>2. SUFFICES Core(z) /\ z.inProcess
  <2>1. z.inProcess => WakeFits(z)
    BY DEF WakeFits
  <2>2. QED BY <2>1, CoreInv
<1>3. PICK item : item = Head(x.queue)
  OBVIOUS
<1>4. PICK rest : rest = [x EXCEPT !.queue = Tail(@)]
  OBVIOUS
<1>5. /\ Sending(rest) /\ rest.inProcess = x.inProcess /\ item \in Published
      /\ rest.channels = x.channels /\ rest.instruct = x.instruct
  BY <1>1, <1>3, <1>4, PopDone
<1>6. Core(rest) /\ Steady(rest)
  BY <1>5, SendingCore DEF Sending
<1>7. Typed(x) /\ item.channel \in Channels
  BY <1>1, <1>5 DEF Core, Sound, Published, Items
<1>8. CASE item.channel \notin DOMAIN x.channels
  <2>1. z = rest
    BY <1>3, <1>4, <1>8 DEF ProcessQueueHead, Follows
  <2>2. QED BY <1>5, <1>6, <2>1
<1>9. CASE item.channel \in DOMAIN x.channels /\ ~Follows(x, item)
  <2>1. PICK w : w = [x EXCEPT !.lastIds[item.channel] = Null, !.queue = <<>>]
    OBVIOUS
  <2>2. PICK ids : ids = [x.lastIds EXCEPT ![item.channel] = Null]
    OBVIOUS
  <2>3. ids \in [Channels -> Ids \cup {Null}]
    BY <1>7, <2>2 DEF Typed
  <2>4. w = [x EXCEPT !.lastIds = ids, !.queue = <<>>]
    BY <1>7, <2>1, <2>2 DEF Typed, HasFields
  <2>5. Typed(w)
    <3>1. PICK q : q = <<>>
      OBVIOUS
    <3>2. q \in Seq(Published)
      BY <3>1
    <3>3. w = [x EXCEPT !.lastIds = ids, !.queue = q]
      BY <2>4, <3>1
    <3>4. QED BY <1>7, <2>3, <3>2, <3>3 DEF Typed, HasFields
  <2>6. /\ w.state = x.state /\ w.queue = <<>> /\ w.subscribed = x.subscribed
        /\ w.channels = x.channels /\ w.has = x.has /\ w.instruct = x.instruct /\ w.credit = x.credit
        /\ w.response = x.response /\ w.filtering = x.filtering /\ w.early = x.early
        /\ w.outReq = x.outReq /\ w.retryTimer = x.retryTimer /\ w.pendingAction = x.pendingAction
        /\ w.inProcess = x.inProcess /\ w.misuse = x.misuse /\ w.skipped = x.skipped
        /\ w.assertion = x.assertion
    BY <1>7, <2>4 DEF Typed, HasFields
  <2>7. Sound(w)
    BY <1>1, <2>5, <2>6, HttpSessionAssumption DEF Core, Sound
  <2>8. ResponseFits(w) /\ HoldFits(w) /\ IdsFit(w) /\ ChannelsFit(w)
    BY <1>1, <2>6 DEF Core, ResponseFits, ResponseOfHold, HoldFits, IdsFit, IdsAgree, ChannelsFit
  <2>9. Fresh(w) /\ RequestsFit(w) /\ QueueFits(w) /\ ActionFits(w) /\ QuietFits(w)
    BY <1>1, <2>6 DEF Core, Fresh, RequestsFit, QueueFits, ActionFits, QuietFits, Ending
  <2>10. Core(w)
    BY <2>7, <2>8, <2>9 DEF Core
  <2>11. z = Update(w, "low") /\ "low" \in {"low", "high"}
    BY <1>3, <1>9, <2>1 DEF ProcessQueueHead, Follows
  <2>12. w.state \in {"Proxying", "SendingQueue"} /\ "low" \in {"low", "high"}
    BY <1>1, <2>6
  <2>13. Core(z) /\ z.state = w.state /\ z.inProcess = w.inProcess /\ z.filtering = w.filtering
    BY <2>10, <2>11, <2>12, UpdateNoted, Zenon
  <2>14. QED BY <1>1, <2>6, <2>13
<1>10. CASE Follows(x, item) /\ item.action = "mismatch"
  <2>1. z = IF Debug THEN DoError(rest) ELSE rest
    BY <1>3, <1>4, <1>10 DEF ProcessQueueHead, Follows
  <2>2. CASE Debug
    BY <1>5, <1>6, <2>1, <2>2, DoErrorInv, InvCore
  <2>3. CASE ~Debug
    BY <1>5, <1>6, <2>1, <2>3
  <2>4. QED BY <2>2, <2>3
<1>11. CASE Follows(x, item) /\ item.action # "mismatch" /\ result = "later"
  <2>1. z = [x EXCEPT !.filtering = item]
    <3>1. item.channel \in DOMAIN x.channels
      BY <1>11 DEF Follows
    <3>2. PICK y : y = [x EXCEPT !.filtering = item]
      OBVIOUS
    <3>3. ProcessQueueHead(x, result) = y
      BY <1>3, <1>11, <3>1, <3>2, Zenon DEF ProcessQueueHead
    <3>4. QED BY <1>3, <3>2, <3>3
  <2>2. Typed(z)
    BY <1>5, <1>7, <2>1 DEF Typed, HasFields
  <2>3. /\ z.state = x.state /\ z.queue = x.queue /\ z.subscribed = x.subscribed
        /\ z.channels = x.channels /\ z.has = x.has /\ z.instruct = x.instruct /\ z.credit = x.credit
        /\ z.response = x.response /\ z.filtering = item /\ z.early = x.early
        /\ z.outReq = x.outReq /\ z.retryTimer = x.retryTimer /\ z.pendingAction = x.pendingAction
        /\ z.inProcess = x.inProcess /\ z.misuse = x.misuse /\ z.skipped = x.skipped
        /\ z.assertion = x.assertion
    BY <1>7, <2>1 DEF Typed, HasFields
  <2>4. Sound(z)
    BY <1>1, <2>2, <2>3 DEF Core, Sound
  <2>5. ResponseFits(z) /\ HoldFits(z) /\ IdsFit(z) /\ ChannelsFit(z)
    BY <1>1, <2>3 DEF Core, ResponseFits, ResponseOfHold, HoldFits, IdsFit, IdsAgree, ChannelsFit
  <2>6. QueueFits(z)
    BY <1>1, <1>3, <1>11, <2>3 DEF QueueFits, Follows
  <2>7. Fresh(z) /\ RequestsFit(z) /\ ActionFits(z) /\ QuietFits(z)
    BY <1>1, <2>3 DEF Core, Fresh, RequestsFit, ActionFits, QuietFits, Ending
  <2>8. QED BY <2>3, <2>4, <2>5, <2>6, <2>7 DEF Core
<1>12. CASE Follows(x, item) /\ item.action # "mismatch" /\ result # "later"
  <2>1. z = MessageFiltersFinished(x, result)
    BY <1>3, <1>12 DEF ProcessQueueHead, Follows
  <2>2. QED BY <1>1, <1>3, <1>12, <2>1, FiltersFinishedDone
<1>13. QED BY <1>8, <1>9, <1>10, <1>11, <1>12 DEF Follows

\* Queue processing starts again.
LEMMA ResumeInv ==
    ASSUME NEW x, Core(x), x.state \in {"SendingQueue", "Closing"},
           NEW z, z = [x EXCEPT !.inProcess = TRUE]
    PROVE  SessionInv(z)
<1>1. Typed(x)
  BY DEF Core, Sound
<1>2. Typed(z)
  BY <1>1 DEF Typed, HasFields
<1>3. /\ z.state = x.state /\ z.queue = x.queue /\ z.subscribed = x.subscribed
      /\ z.channels = x.channels /\ z.has = x.has /\ z.instruct = x.instruct /\ z.credit = x.credit
      /\ z.response = x.response /\ z.filtering = x.filtering /\ z.early = x.early
      /\ z.outReq = x.outReq /\ z.retryTimer = x.retryTimer /\ z.pendingAction = x.pendingAction
      /\ z.inProcess /\ z.misuse = x.misuse /\ z.skipped = x.skipped /\ z.assertion = x.assertion
      /\ z.timer = x.timer /\ z.registered = x.registered
  BY <1>1 DEF Typed, HasFields
<1>4. Sound(z)
  BY <1>2, <1>3 DEF Core, Sound
<1>5. ResponseFits(z) /\ HoldFits(z) /\ IdsFit(z) /\ ChannelsFit(z)
  BY <1>3 DEF Core, ResponseFits, ResponseOfHold, HoldFits, IdsFit, IdsAgree, ChannelsFit
<1>6. Fresh(z) /\ RequestsFit(z) /\ QueueFits(z) /\ ActionFits(z) /\ QuietFits(z) /\ WakeFits(z)
  BY <1>3 DEF Core, Fresh, RequestsFit, QueueFits, Follows, ActionFits, QuietFits, WakeFits, Ending
<1>7. QED BY <1>4, <1>5, <1>6 DEF SessionInv

-----------------------------------------------------------------------------
(* The next link and the gone link                                         *)

\* A session that proxies, whose request is over.
Proxied(x) ==
    /\ Steady(x) /\ x.state = "Proxying" /\ ~x.inProcess /\ x.filtering = None
    /\ ~x.pendingAction /\ x.instruct.hold # "response" /\ x.outReq = None

\* A session that proxies, whatever its request.
LEMMA ProxyingFacts ==
    ASSUME NEW x, Core(x), x.state = "Proxying"
    PROVE  /\ Steady(x) /\ Typed(x) /\ ~x.inProcess /\ x.filtering = None /\ ~x.pendingAction
           /\ x.instruct.hold # "response" /\ x.response = "begun" /\ IdsAgree(x)
           /\ x.outReq # None => x.outReq.last = x.channels /\ (x.retryTimer => x.early)
<1>1. Steady(x) /\ Typed(x)
  BY LiveIsSteady DEF Steady, Sound, Live
<1>2. ~x.inProcess /\ x.filtering = None /\ ~x.pendingAction
  BY DEF Core, QueueFits, ActionFits, Ending
<1>3. x.instruct.hold # "response"
  BY DEF Core, HoldFits
<1>4. x.response = "begun"
  BY <1>1, <1>3 DEF Steady, ResponseOfHold
<1>5. IdsAgree(x) /\ (x.outReq # None => x.outReq.last = x.channels)
  BY DEF Core, IdsFit, Live
<1>6. x.outReq # None => (x.retryTimer => x.early)
  BY DEF Core, RequestsFit
<1>7. QED BY <1>1, <1>2, <1>3, <1>4, <1>5, <1>6

\* outReq_error(): a retry, the end, or the assertion that the second of two
\* requests runs into.
LEMMA OutReqErrorInv ==
    ASSUME NEW x, SessionInv(x), x.outReq # None, x.state # "Crashed", ~x.inProcess
    PROVE  SessionInv(OutReqError(x))
<1>1. PICK y : y = CleanupOutReq(x)
  OBVIOUS
<1>2. Core(x) /\ Typed(x)
  BY InvCore DEF Core, Sound
<1>3. y = [x EXCEPT !.outReq = None]
  BY <1>1 DEF CleanupOutReq
<1>4. Typed(y)
  BY <1>2, <1>3 DEF Typed, HasFields
<1>5. /\ y.state = x.state /\ y.queue = x.queue /\ y.subscribed = x.subscribed
      /\ y.channels = x.channels /\ y.has = x.has /\ y.instruct = x.instruct /\ y.credit = x.credit
      /\ y.response = x.response /\ y.filtering = x.filtering /\ y.early = x.early
      /\ y.outReq = None /\ y.retryTimer = x.retryTimer /\ y.pendingAction = x.pendingAction
      /\ y.inProcess = x.inProcess /\ y.misuse = x.misuse /\ y.skipped = x.skipped
      /\ y.assertion = x.assertion /\ y.retries = x.retries
  BY <1>2, <1>3 DEF Typed, HasFields
<1>6. Sound(y)
  BY <1>2, <1>4, <1>5 DEF Core, Sound
<1>7. CASE x.state = "Proxying"
  <2>1. /\ Steady(x) /\ ~x.inProcess /\ x.filtering = None /\ ~x.pendingAction
        /\ x.instruct.hold # "response" /\ IdsAgree(x)
    BY <1>2, <1>7, ProxyingFacts
  <2>2. Steady(y)
    BY <1>5, <1>6, <2>1 DEF Steady, ResponseOfHold
  <2>3. CASE ~x.sentOutReqData /\ x.retries < RetryMax
    <3>1. PICK n : n = y.retries + 1
      OBVIOUS
    <3>2. n \in 0..RetryMax
      BY <1>2, <1>5, <2>3, <3>1, HttpSessionAssumption DEF Typed
    <3>3. PICK z : z = [y EXCEPT !.retries = n, !.retryTimer = TRUE]
      OBVIOUS
    <3>4. OutReqError(x) = z
      BY <1>1, <1>7, <2>3, <3>1, <3>3 DEF OutReqError
    <3>5. Typed(z)
      BY <1>4, <3>2, <3>3 DEF Typed, HasFields
    <3>6. /\ z.state = "Proxying" /\ z.queue = y.queue /\ z.subscribed = y.subscribed
          /\ z.channels = y.channels /\ z.has = y.has /\ z.instruct = y.instruct
          /\ z.response = y.response /\ z.filtering = None /\ z.early = y.early
          /\ z.outReq = None /\ z.retryTimer /\ ~z.pendingAction /\ ~z.inProcess
          /\ z.misuse = y.misuse /\ z.skipped = y.skipped /\ z.assertion = y.assertion
      BY <1>4, <1>5, <1>7, <2>1, <3>3 DEF Typed, HasFields
    <3>7. Sound(z) /\ ~z.assertion /\ ResponseOfHold(z) /\ z.subscribed = DOMAIN z.channels
      BY <2>2, <3>5, <3>6 DEF Steady, Sound, ResponseOfHold
    <3>8. ResponseFits(z) /\ HoldFits(z) /\ IdsFit(z) /\ ChannelsFit(z)
      BY <1>5, <2>1, <3>6, <3>7 DEF ResponseFits, HoldFits, IdsFit, IdsAgree, ChannelsFit, Live
    <3>9. Fresh(z) /\ RequestsFit(z) /\ QueueFits(z) /\ ActionFits(z) /\ QuietFits(z) /\ WakeFits(z)
      BY <3>6, <3>7 DEF Fresh, RequestsFit, QueueFits, ActionFits, QuietFits, WakeFits, Ending
    <3>10. QED BY <3>4, <3>7, <3>8, <3>9 DEF SessionInv
  <2>4. CASE ~(~x.sentOutReqData /\ x.retries < RetryMax)
    <3>1. OutReqError(x) = DoError(y)
      BY <1>1, <1>7, <2>4 DEF OutReqError
    <3>2. QED BY <2>2, <3>1, DoErrorInv
  <2>5. QED BY <2>3, <2>4
<1>8. CASE x.state = "SendingGone"
  <2>1. OutReqError(x) = Finished(y)
    BY <1>1, <1>8 DEF OutReqError
  <2>2. ~y.assertion /\ ~y.inProcess /\ y.subscribed = {}
    BY <1>2, <1>5, <1>8 DEF Core, RequestsFit, ChannelsFit
  <2>3. QED BY <1>6, <2>1, <2>2, FinishedInv
<1>9. CASE x.state \notin {"Proxying", "SendingGone"}
  <2>1. PICK z : z = [y EXCEPT !.state = "Crashed", !.assertion = TRUE]
    OBVIOUS
  <2>2. OutReqError(x) = z
    BY <1>1, <1>9, <2>1 DEF OutReqError, Assert
  <2>3. x.early
    BY <1>2, <1>9 DEF Core, RequestsFit
  <2>4. Typed(z)
    BY <1>4, <2>1 DEF Typed, HasFields, States
  <2>5. /\ z.state = "Crashed" /\ z.queue = y.queue /\ z.early /\ z.outReq = None
        /\ ~z.inProcess /\ z.misuse = y.misuse /\ z.skipped = y.skipped
    BY <1>4, <1>5, <2>1, <2>3 DEF Typed, HasFields
  <2>6. Sound(z)
    BY <1>6, <2>4, <2>5 DEF Sound
  <2>7. QED
    BY <2>2, <2>5, <2>6 DEF SessionInv, ResponseFits, HoldFits, Fresh, RequestsFit, QueueFits, IdsFit,
                      WakeFits, ActionFits, QuietFits, ChannelsFit, Live, Ending
<1>10. QED BY <1>7, <1>8, <1>9

\* The end of tryProcessOutReq(), with no hold in force.
LEMMA NextOrCloseInv ==
    ASSUME NEW x, Proxied(x), IdsAgree(x)
    PROVE  SessionInv(NextOrClose(x))
<1>1. /\ Steady(x) /\ x.state = "Proxying" /\ ~x.inProcess /\ x.filtering = None
      /\ ~x.pendingAction /\ x.instruct.hold # "response" /\ x.outReq = None
  BY DEF Proxied
<1>2. /\ Sound(x) /\ Typed(x) /\ ~x.assertion /\ x.subscribed = DOMAIN x.channels
      /\ x.response = "begun" /\ ResponseOfHold(x)
  BY <1>1 DEF Steady, Sound, ResponseOfHold
<1>3. CASE x.nextUri /\ x.credit > 0
  <2>1. PICK e : e = (x.early \/ x.retryTimer)
    OBVIOUS
  <2>2. e \in BOOLEAN
    BY <2>1, Zenon
  <2>3. x.retryTimer => e
    BY <2>1
  <2>4. PICK y : y = [x EXCEPT !.early = e]
    OBVIOUS
  <2>5. NextOrClose(x) = RequestNextLink(y)
    BY <1>1, <1>3, <2>1, <2>4 DEF NextOrClose
  <2>6. Typed(y)
    BY <1>2, <2>2, <2>4 DEF Typed, HasFields
  <2>7. /\ y.state = x.state /\ y.queue = x.queue /\ y.subscribed = x.subscribed
        /\ y.channels = x.channels /\ y.has = x.has /\ y.instruct = x.instruct
        /\ y.response = x.response /\ y.filtering = x.filtering /\ y.early = e
        /\ y.retryTimer = x.retryTimer /\ y.pendingAction = x.pendingAction
        /\ y.inProcess = x.inProcess /\ y.misuse = x.misuse /\ y.skipped = x.skipped
        /\ y.assertion = x.assertion
    BY <1>2, <2>4 DEF Typed, HasFields
  <2>8. Steady(y)
    BY <1>2, <2>6, <2>7 DEF Steady, Sound, ResponseOfHold
  <2>9. IdsAgree(y)
    BY <2>7 DEF IdsAgree
  <2>10. QED BY <1>1, <2>3, <2>5, <2>7, <2>8, <2>9, RequestInv
<1>4. CASE x.nextUri /\ ~(x.credit > 0)
  <2>1. NextOrClose(x) = x
    BY <1>1, <1>4 DEF NextOrClose
  <2>2. x.credit = 0
    BY <1>2, <1>4, HttpSessionAssumption DEF Typed
  <2>3. ResponseFits(x) /\ HoldFits(x) /\ IdsFit(x) /\ ChannelsFit(x)
    BY <1>1, <1>2 DEF ResponseFits, HoldFits, IdsFit, ChannelsFit, Live
  <2>4. Fresh(x) /\ RequestsFit(x) /\ QueueFits(x) /\ ActionFits(x) /\ QuietFits(x) /\ WakeFits(x)
    BY <1>1, <1>2, <2>2 DEF Fresh, RequestsFit, QueueFits, ActionFits, QuietFits, WakeFits, Ending
  <2>5. QED BY <1>2, <2>1, <2>3, <2>4 DEF SessionInv
<1>5. CASE ~x.nextUri
  <2>1. NextOrClose(x) \in {EndBody(PrepareToClose(x)), EndBody(WriteBody(PrepareToClose(x)))}
    BY <1>1, <1>5 DEF NextOrClose
  <2>2. QED BY <1>2, <2>1, CloseInv
<1>6. QED BY <1>3, <1>4, <1>5

\* A session z that goes on as x does, its request, timers and counters aside.
SameRun(x, z) ==
    /\ z.state = x.state /\ z.queue = x.queue /\ z.subscribed = x.subscribed
    /\ z.channels = x.channels /\ z.has = x.has /\ z.response = x.response
    /\ z.filtering = x.filtering /\ z.early = x.early /\ z.retryTimer = x.retryTimer
    /\ z.pendingAction = x.pendingAction /\ z.inProcess = x.inProcess
    /\ z.misuse = x.misuse /\ z.skipped = x.skipped /\ z.assertion = x.assertion

\* A request moves on, while proxying.
LEMMA ProxyingMoves ==
    ASSUME NEW x, SessionInv(x), x.state = "Proxying", x.outReq # None,
           NEW z, Typed(z), SameRun(x, z), z.outReq # None, z.outReq.last = x.outReq.last,
           z.instruct.hold # "response"
    PROVE  SessionInv(z)
<1>1. Core(x)
  BY InvCore
<1>2. /\ Steady(x) /\ ~x.inProcess /\ x.filtering = None /\ ~x.pendingAction
      /\ x.response = "begun" /\ IdsAgree(x) /\ x.outReq.last = x.channels
      /\ x.retryTimer => x.early
  BY <1>1, ProxyingFacts
<1>3. Sound(z) /\ ~z.assertion /\ z.subscribed = DOMAIN z.channels /\ ResponseOfHold(z)
  BY <1>2 DEF Steady, Sound, SameRun, ResponseOfHold
<1>4. IdsAgree(z)
  BY <1>2 DEF IdsAgree, SameRun
<1>5. ResponseFits(z) /\ HoldFits(z) /\ IdsFit(z) /\ ChannelsFit(z)
  BY <1>2, <1>3, <1>4 DEF ResponseFits, HoldFits, IdsFit, ChannelsFit, Live, SameRun
<1>6. Fresh(z) /\ RequestsFit(z) /\ QueueFits(z) /\ ActionFits(z) /\ QuietFits(z) /\ WakeFits(z)
  BY <1>2, <1>3 DEF Fresh, RequestsFit, QueueFits, ActionFits, QuietFits, WakeFits, Ending, SameRun
<1>7. QED BY <1>3, <1>5, <1>6 DEF SessionInv

\* A request moves on, in any state.
LEMMA RequestMoves ==
    ASSUME NEW x, SessionInv(x), x.outReq # None,
           NEW r \in Requests, r.dest = x.outReq.dest, r.last = x.outReq.last,
           NEW z, z = [x EXCEPT !.outReq = r]
    PROVE  SessionInv(z) /\ SameRun(x, z) /\ z.outReq = r /\ z.outReq # None
           /\ z.instruct = x.instruct
<1>1. Core(x) /\ Typed(x) /\ WakeFits(x)
  BY InvCore DEF Core, Sound
<1>2. r # None
  BY HttpSessionAssumption
<1>3. Typed(z)
  BY <1>1 DEF Typed, HasFields
<1>4. /\ SameRun(x, z) /\ z.outReq = r
      /\ z.instruct = x.instruct /\ z.credit = x.credit /\ z.timer = x.timer
      /\ z.registered = x.registered /\ z.nextUri = x.nextUri /\ z.prevIds = x.prevIds
      /\ z.toSend = x.toSend
  BY <1>1 DEF Typed, HasFields, SameRun
<1>5. Sound(z)
  BY <1>1, <1>3, <1>4 DEF Core, Sound, SameRun
<1>6. ResponseFits(z) /\ HoldFits(z)
  BY <1>1, <1>4 DEF Core, ResponseFits, ResponseOfHold, HoldFits, SameRun
<1>7. Fresh(z) /\ ActionFits(z) /\ ChannelsFit(z)
  BY <1>1, <1>4 DEF Core, Fresh, ActionFits, ChannelsFit, SameRun
<1>8. IdsFit(z)
  <2>1. IdsAgree(x) => IdsAgree(z)
    BY <1>4 DEF IdsAgree, SameRun
  <2>2. QED BY <1>1, <1>4, <2>1 DEF Core, IdsFit, SameRun
<1>9. QueueFits(z)
  BY <1>1, <1>4 DEF Core, QueueFits, Follows, SameRun
<1>10. RequestsFit(z) /\ QuietFits(z)
  BY <1>1, <1>2, <1>4 DEF Core, RequestsFit, QuietFits, Ending, SameRun
<1>11. WakeFits(z)
  BY <1>1, <1>2, <1>4 DEF WakeFits, SameRun
<1>12. QED BY <1>2, <1>4, <1>5, <1>6, <1>7, <1>8, <1>9, <1>10, <1>11 DEF SessionInv

\* The client gets the response of a next link: it continues from what the
\* client had, since the request named the session's prev-ids.
LEMMA ClientGetsResponseDone ==
    ASSUME NEW x, SessionInv(x), x.state = "Proxying", x.outReq # None, x.instruct.hold = "stream",
           NEW z, z = ClientGetsResponse(x)
    PROVE  /\ z.has = x.prevIds /\ Typed(z) /\ ~z.skipped
           /\ z = [x EXCEPT !.has = z.has, !.skipped = z.skipped]
<1>1. Core(x) /\ Typed(x) /\ ~x.skipped
  BY InvCore DEF Core, Sound
<1>2. IdsAgree(x) /\ x.outReq.last = x.channels
  BY <1>1, ProxyingFacts
<1>3. PICK b : b = (x.skipped \/ \E c \in DOMAIN x.prevIds \cap DOMAIN x.outReq.last \cap DOMAIN x.has :
                                   x.has[c] # Null /\ x.outReq.last[c] # x.has[c])
  OBVIOUS
<1>4. ~(\E c \in DOMAIN x.prevIds \cap DOMAIN x.outReq.last \cap DOMAIN x.has :
            x.has[c] # Null /\ x.outReq.last[c] # x.has[c])
  BY <1>2 DEF IdsAgree
<1>5. b = FALSE
  BY <1>1, <1>3, <1>4, Zenon DEF Typed
<1>6. z = [x EXCEPT !.has = x.prevIds, !.skipped = b]
  BY <1>3 DEF ClientGetsResponse
<1>7. z.has = x.prevIds /\ z.skipped = FALSE
  BY <1>1, <1>5, <1>6 DEF Typed, HasFields
<1>8. Typed(z)
  BY <1>1, <1>5, <1>6 DEF Typed, HasFields
<1>9. z = [x EXCEPT !.has = z.has, !.skipped = z.skipped]
  BY <1>5, <1>6, <1>7
<1>10. QED BY <1>7, <1>8, <1>9

\* The end of a next link's response: the hold it asks for begins, or the
\* session goes on to the next link or to its end.
LEMMA OutReqDoneInv ==
    ASSUME NEW x, SessionInv(x), x.state = "Proxying", x.outReq # None
    PROVE  SessionInv(NextOrClose(OutReqDone(x)))
<1>1. Core(x)
  BY InvCore
<1>2. /\ Steady(x) /\ Typed(x) /\ ~x.inProcess /\ x.filtering = None /\ ~x.pendingAction
      /\ x.instruct.hold # "response" /\ x.response = "begun" /\ IdsAgree(x)
      /\ x.retryTimer => x.early
  BY <1>1, ProxyingFacts
<1>3. PICK u : u = ClientGetsResponse(x)
  OBVIOUS
<1>4. /\ Typed(u) /\ ~u.skipped
      /\ x.instruct.hold = "stream" => u.has = x.prevIds
      /\ x.instruct.hold # "stream" => u.has = x.has
      /\ x.instruct.hold # "stream" => u = x
      /\ x.instruct.hold = "stream" => u = [x EXCEPT !.has = u.has, !.skipped = u.skipped]
  <2>1. CASE x.instruct.hold = "stream"
    BY <1>3, <2>1, ClientGetsResponseDone
  <2>2. CASE x.instruct.hold # "stream"
    BY <1>2, <1>3, <2>2 DEF ClientGetsResponse, Steady, Sound
  <2>3. QED BY <2>1, <2>2
<1>5. /\ u.state = "Proxying" /\ u.queue = x.queue /\ u.subscribed = x.subscribed
      /\ u.channels = x.channels /\ u.instruct = x.instruct /\ u.prevIds = x.prevIds
      /\ u.response = "begun" /\ u.filtering = None /\ u.early = x.early
      /\ u.retryTimer = x.retryTimer /\ ~u.pendingAction /\ ~u.inProcess
      /\ u.misuse = x.misuse /\ u.assertion = x.assertion
  <2>1. CASE x.instruct.hold = "stream"
    BY <1>2, <1>4, <2>1 DEF Typed, HasFields
  <2>2. CASE x.instruct.hold # "stream"
    BY <1>2, <1>4, <2>2
  <2>3. QED BY <2>1, <2>2
<1>6. PICK w : w = CleanupOutReq(u)
  OBVIOUS
<1>7. Typed(w)
  BY <1>4, <1>6 DEF CleanupOutReq, Typed, HasFields
<1>8. /\ w.state = "Proxying" /\ w.queue = x.queue /\ w.subscribed = x.subscribed
      /\ w.channels = x.channels /\ w.instruct = x.instruct /\ w.prevIds = x.prevIds
      /\ w.response = "begun" /\ w.filtering = None /\ w.early = x.early
      /\ w.retryTimer = x.retryTimer /\ ~w.pendingAction /\ ~w.inProcess
      /\ w.misuse = x.misuse /\ w.assertion = x.assertion
      /\ w.has = u.has /\ ~w.skipped /\ w.outReq = None
  BY <1>4, <1>5, <1>6 DEF CleanupOutReq, Typed, HasFields
<1>9. PICK t : t = (w.timer /\ (x.instruct.hold = "stream" => x.instruct.timeout))
  OBVIOUS
<1>10. t \in BOOLEAN
  BY <1>9, Zenon
<1>11. PICK y : y = [w EXCEPT !.retries = 0, !.nextUri = x.instruct.next, !.timer = t]
  OBVIOUS
<1>12. OutReqDone(x) = IF x.instruct.hold = "stream" THEN PrepareToSendQueueOrHold(y, FALSE) ELSE y
  BY <1>3, <1>6, <1>9, <1>11 DEF OutReqDone
<1>13. x.instruct.next \in BOOLEAN /\ 0 \in 0..RetryMax
  BY <1>2, HttpSessionAssumption DEF Typed, Instructs
<1>14. Typed(y)
  BY <1>7, <1>10, <1>11, <1>13 DEF Typed, HasFields
<1>15. /\ y.state = "Proxying" /\ y.queue = x.queue /\ y.subscribed = x.subscribed
       /\ y.channels = x.channels /\ y.instruct = x.instruct /\ y.prevIds = x.prevIds
       /\ y.response = "begun" /\ y.filtering = None /\ y.early = x.early
       /\ y.retryTimer = x.retryTimer /\ ~y.pendingAction /\ ~y.inProcess
       /\ y.misuse = x.misuse /\ y.assertion = x.assertion
       /\ y.has = u.has /\ ~y.skipped /\ y.outReq = None
  BY <1>7, <1>8, <1>11 DEF Typed, HasFields
<1>16. Steady(y)
  BY <1>2, <1>14, <1>15 DEF Steady, Sound, ResponseOfHold
<1>17. CASE x.instruct.hold = "stream"
  <2>1. Between(y) /\ y.has = y.prevIds /\ y.instruct.hold # "none"
    BY <1>2, <1>4, <1>15, <1>16, <1>17 DEF Between
  <2>2. PICK z : z = PrepareToSendQueueOrHold(y, FALSE)
    OBVIOUS
  <2>3. SessionInv(z) /\ z.state # "Proxying"
    BY <1>15, <2>1, <2>2, PrepareInv
  <2>4. NextOrClose(z) = z
    BY <2>3 DEF NextOrClose
  <2>5. QED BY <1>12, <1>17, <2>2, <2>3, <2>4
<1>18. CASE x.instruct.hold # "stream"
  <2>1. OutReqDone(x) = y
    BY <1>12, <1>18
  <2>2. Proxied(y)
    BY <1>2, <1>15, <1>16 DEF Proxied
  <2>3. IdsAgree(y)
    BY <1>2, <1>4, <1>15, <1>18 DEF IdsAgree
  <2>4. QED BY <2>1, <2>2, <2>3, NextOrCloseInv
<1>19. QED BY <1>17, <1>18

LEMMA ProxyBodyInv ==
    ASSUME NEW x, SessionInv(x), x.state = "Proxying", x.outReq # None, NEW fails \in BOOLEAN
    PROVE  SessionInv(ProxyBody(x, fails))
<1>1. Core(x)
  BY InvCore
<1>2. Steady(x) /\ Typed(x) /\ x.response = "begun" /\ x.instruct.hold # "response"
  BY <1>1, ProxyingFacts
<1>3. /\ x.outReq \in Requests /\ x.outReq.body \in Nat /\ x.outReq.coming \in Nat
      /\ x.credit \in 0..CreditMax
  BY <1>2 DEF Typed, Requests
<1>4. PICK n : n = IF x.outReq.body <= x.credit THEN x.outReq.body ELSE x.credit
  OBVIOUS
<1>5. x.credit - n \in 0..CreditMax /\ x.outReq.body - n \in Nat /\ n \in Nat
  BY <1>3, <1>4, HttpSessionAssumption
<1>6. PICK r : r = [x.outReq EXCEPT !.body = @ - n]
  OBVIOUS
<1>7. r \in Requests /\ r.last = x.outReq.last
  BY <1>3, <1>5, <1>6 DEF Requests
<1>8. r # None
  BY <1>7, HttpSessionAssumption
<1>9. PICK d : d = (x.sentOutReqData \/ n > 0)
  OBVIOUS
<1>10. PICK mis : mis = (x.misuse \/ (n > 0 /\ x.response # "begun"))
  OBVIOUS
<1>11. d \in BOOLEAN /\ mis \in BOOLEAN
  BY <1>9, <1>10, Zenon
<1>12. mis = FALSE
  <2>1. ~mis
    BY <1>2, <1>10 DEF Steady, Sound
  <2>2. QED BY <1>11, <2>1, Zenon
<1>13. PICK c : c = x.credit - n
  OBVIOUS
<1>14. PICK y : y = [x EXCEPT !.timer = FALSE, !.credit = c, !.outReq = r,
                              !.sentOutReqData = d, !.misuse = mis]
  OBVIOUS
<1>15. WriteOutReqBody(x) = y
  BY <1>2, <1>4, <1>6, <1>9, <1>10, <1>13, <1>14 DEF WriteOutReqBody, Typed, HasFields
<1>16. Typed(y)
  BY <1>2, <1>5, <1>7, <1>11, <1>13, <1>14 DEF Typed, HasFields
<1>17. SameRun(x, y) /\ y.outReq = r /\ y.instruct = x.instruct
  <2>1. x.misuse = FALSE
    BY <1>2 DEF Steady, Sound, Typed
  <2>2. QED BY <1>2, <1>12, <1>14, <2>1 DEF SameRun, Typed, HasFields
<1>18. SessionInv(y)
  BY <1>2, <1>7, <1>8, <1>16, <1>17, ProxyingMoves
<1>19. Steady(y)
  BY <1>17, <1>18, InvCore, ProxyingFacts DEF SameRun
<1>20. PICK z : z = IF x.outReq.body > 0 THEN y ELSE x
  OBVIOUS
<1>21. SessionInv(z) /\ z.state = "Proxying" /\ z.outReq # None
  BY <1>8, <1>17, <1>18, <1>20 DEF SameRun
<1>22. CASE x.outReq.body > 0 /\ x.credit = 0
  <2>1. PICK v : v = [x EXCEPT !.timer = FALSE]
    OBVIOUS
  <2>2. ProxyBody(x, fails) = v
    BY <1>22, <2>1 DEF ProxyBody
  <2>3. Typed(v)
    BY <1>2, <2>1 DEF Typed, HasFields
  <2>4. SameRun(x, v) /\ v.outReq = x.outReq /\ v.instruct = x.instruct
    BY <1>2, <2>1 DEF SameRun, Typed, HasFields
  <2>5. QED BY <1>2, <2>2, <2>3, <2>4, ProxyingMoves
<1>23. CASE x.outReq.body > 0 /\ x.credit > 0 /\ fails
  <2>1. ProxyBody(x, fails) = DoError(y)
    BY <1>3, <1>15, <1>23 DEF ProxyBody
  <2>2. QED BY <1>19, <2>1, DoErrorInv
<1>24. CASE ~(x.outReq.body > 0 /\ x.credit = 0) /\ ~(x.outReq.body > 0 /\ x.credit > 0 /\ fails)
  <2>1. z.outReq.body \in Nat /\ z.outReq.coming \in Nat
    BY <1>21, InvCore DEF Core, Sound, Typed, Requests
  <2>2. ProxyBody(x, fails) \in {z, DoError(z), NextOrClose(OutReqDone(z))}
    BY <1>15, <1>20, <1>24, <2>1 DEF ProxyBody
  <2>3. Steady(z)
    BY <1>21, InvCore, ProxyingFacts
  <2>4. SessionInv(DoError(z))
    BY <2>3, DoErrorInv
  <2>5. SessionInv(NextOrClose(OutReqDone(z)))
    BY <1>21, OutReqDoneInv
  <2>6. QED BY <1>21, <2>2, <2>4, <2>5
<1>25. QED BY <1>22, <1>23, <1>24

\* tryProcessOutReq().
LEMMA TryProcessOutReqInv ==
    ASSUME NEW x, Core(x), x.state \notin {"Crashed", "Finished"}, ~x.inProcess,
           x.outReq = None => x.state = "Proxying", x.outReq # None => WakeFits(x),
           NEW fails \in BOOLEAN
    PROVE  SessionInv(TryProcessOutReq(x, fails))
<1>1. Typed(x) /\ (x.outReq # None => x.outReq \in Requests /\ x.outReq.body \in Nat)
  BY DEF Core, Sound, Typed, Requests
<1>2. CASE x.outReq = None
  <2>1. Proxied(x) /\ IdsAgree(x)
    BY <1>2, ProxyingFacts DEF Proxied
  <2>2. TryProcessOutReq(x, fails) = NextOrClose(x)
    BY <1>2 DEF TryProcessOutReq
  <2>3. QED BY <2>1, <2>2, NextOrCloseInv
<1>3. CASE x.outReq # None
  <2>1. SessionInv(x)
    BY <1>3, CoreInv
  <2>2. x.outReq.headers \in BOOLEAN /\ x.outReq.ok \in BOOLEAN
    BY <1>1, <1>3 DEF Requests
  <2>3. CASE ~x.outReq.headers
    <3>1. TryProcessOutReq(x, fails) = x
      BY <1>3, <2>3 DEF TryProcessOutReq
    <3>2. QED BY <2>1, <3>1
  <2>4. CASE x.outReq.headers /\ ~x.outReq.ok
    <3>1. TryProcessOutReq(x, fails) = OutReqError(x)
      BY <1>3, <2>4 DEF TryProcessOutReq
    <3>2. QED BY <1>3, <2>1, <3>1, OutReqErrorInv
  <2>5. CASE x.outReq.headers /\ x.outReq.ok /\ x.state = "Proxying"
    <3>1. TryProcessOutReq(x, fails) = ProxyBody(x, fails)
      BY <1>3, <2>5 DEF TryProcessOutReq
    <3>2. QED BY <1>3, <2>1, <2>5, <3>1, ProxyBodyInv
  <2>6. CASE x.outReq.headers /\ x.outReq.ok /\ x.state = "SendingGone"
    <3>1. PICK y : y = CleanupOutReq(x)
      OBVIOUS
    <3>2. TryProcessOutReq(x, fails) \in {OutReqError(x), Finished(y), x}
      BY <1>1, <1>3, <2>6, <3>1 DEF TryProcessOutReq
    <3>3. Typed(y)
      BY <1>1, <3>1 DEF CleanupOutReq, Typed, HasFields
    <3>4. /\ y.queue = x.queue /\ y.misuse = x.misuse /\ y.skipped = x.skipped
          /\ y.assertion = x.assertion /\ y.inProcess = x.inProcess /\ y.subscribed = x.subscribed
      BY <1>1, <3>1 DEF CleanupOutReq, Typed, HasFields
    <3>5. Sound(y) /\ ~y.assertion /\ ~y.inProcess /\ y.subscribed = {}
      BY <2>6, <3>3, <3>4 DEF Core, Sound, RequestsFit, ChannelsFit
    <3>6. SessionInv(Finished(y))
      BY <3>5, FinishedInv
    <3>7. SessionInv(OutReqError(x))
      BY <1>3, <2>1, OutReqErrorInv
    <3>8. QED BY <2>1, <3>2, <3>6, <3>7
  <2>7. CASE x.outReq.headers /\ x.outReq.ok /\ x.state \notin {"Proxying", "SendingGone"}
    <3>1. PICK z : z = [x EXCEPT !.state = "Crashed", !.assertion = TRUE]
      OBVIOUS
    <3>2. TryProcessOutReq(x, fails) = z
      BY <1>3, <2>7, <3>1 DEF TryProcessOutReq, Assert
    <3>3. x.early
      BY <1>3, <2>7 DEF Core, RequestsFit
    <3>4. Typed(z)
      BY <1>1, <3>1 DEF Typed, HasFields, States
    <3>5. /\ z.state = "Crashed" /\ z.queue = x.queue /\ z.early
          /\ ~z.inProcess /\ z.misuse = x.misuse /\ z.skipped = x.skipped
      BY <1>1, <3>1, <3>3 DEF Typed, HasFields
    <3>6. Sound(z)
      BY <3>4, <3>5 DEF Core, Sound
    <3>7. QED
      BY <3>2, <3>5, <3>6 DEF SessionInv, ResponseFits, HoldFits, Fresh, RequestsFit, QueueFits, IdsFit,
                        WakeFits, ActionFits, QuietFits, ChannelsFit, Live, Ending
  <2>8. QED BY <2>2, <2>3, <2>4, <2>5, <2>6, <2>7
<1>4. QED BY <1>2, <1>3

-----------------------------------------------------------------------------
(* The handlers                                                            *)

\* The prev-ids of an instruct.
LEMMA PrevIdsPartial ==
    ASSUME NEW i \in Instructs, NEW l \in [Channels -> Ids]
    PROVE  PrevIds(i, l) \in Partials
<1>1. i.names \in SUBSET Channels
  BY DEF Instructs
<1>2. PrevIds(i, l) \in [i.names -> Ids \cup {Null}]
  BY <1>1 DEF PrevIds
<1>3. QED BY <1>1, <1>2, PartialsIntro

LEMMA ZeroLog == [c \in Channels |-> 0] \in [Channels -> Ids]
BY HttpSessionAssumption DEF Ids

\* The session as it is constructed.
LEMMA InitInv == Init => Inv
<1>1. SUFFICES ASSUME NEW i \in FirstInstructs, NEW sent \in BOOLEAN, NEW credit \in 1..CreditMax,
                      sent => i.hold # "response" /\ ~i.body,
                      s = NewSession(i, sent, credit)
               PROVE  SessionInv(s)
  BY ZeroLog DEF Init, Inv
<1>2. i \in Instructs /\ i.next \in BOOLEAN /\ (i.hold = "none" => i.next)
  BY HttpSessionAssumption DEF Instructs
<1>3. PICK ids : ids = PrevIds(i, [c \in Channels |-> 0])
  OBVIOUS
<1>4. ids \in Partials /\ ids = [c \in i.names |-> ids[c]]
  BY <1>2, <1>3, ZeroLog, PrevIdsPartial DEF PrevIds
<1>5. PICK none : none = [c \in {} |-> Null]
  OBVIOUS
<1>6. none \in Partials /\ DOMAIN none = {}
  <2>1. none \in [{} -> Ids \cup {Null}] /\ {} \in SUBSET Channels
    BY <1>5
  <2>2. QED BY <1>5, <2>1, PartialsIntro
<1>7. PICK has : has = IF i.hold = "none" THEN none ELSE ids
  OBVIOUS
<1>8. [c \in (IF i.hold = "none" THEN {} ELSE i.names) |-> ids[c]] = has
  BY <1>4, <1>5, <1>7
<1>9. PICK size : size = IF i.body THEN BodyMax ELSE 0
  OBVIOUS
<1>10. PICK resp : resp = IF sent THEN "begun" ELSE "none"
  OBVIOUS
<1>11. PICK last : last = [c \in Channels |-> Null]
  OBVIOUS
<1>12. /\ size \in Nat /\ resp \in {"none", "begun"} /\ (i.hold = "response" => resp = "none")
       /\ last \in [Channels -> Ids \cup {Null}] /\ credit \in 0..CreditMax /\ credit > 0
  BY <1>1, <1>9, <1>10, <1>11, HttpSessionAssumption
<1>13. s = [state |-> "NotStarted", instruct |-> i, prevIds |-> ids, nextUri |-> i.next,
            channels |-> none, subscribed |-> {}, queue |-> <<>>, inProcess |-> FALSE,
            filtering |-> None, needUpdate |-> "no", pendingAction |-> FALSE,
            timer |-> FALSE, retryTimer |-> FALSE, registered |-> FALSE, active |-> {},
            outReq |-> None, sentOutReqData |-> FALSE, retries |-> 0,
            toSend |-> size, credit |-> credit, response |-> resp, lastIds |-> last,
            has |-> has, misuse |-> FALSE, assertion |-> FALSE, skipped |-> FALSE, early |-> FALSE]
  BY <1>1, <1>3, <1>5, <1>8, <1>9, <1>10, <1>11 DEF NewSession
<1>14. has \in Partials
  BY <1>4, <1>6, <1>7
<1>15. HasFields(s)
  BY <1>13 DEF HasFields
<1>16. /\ s.state = "NotStarted" /\ s.instruct = i /\ s.prevIds = ids /\ s.nextUri = i.next
       /\ s.channels = none /\ s.subscribed = {} /\ s.queue = <<>> /\ s.inProcess = FALSE
       /\ s.filtering = None /\ s.needUpdate = "no" /\ s.pendingAction = FALSE
       /\ s.timer = FALSE /\ s.retryTimer = FALSE /\ s.registered = FALSE /\ s.active = {}
       /\ s.outReq = None /\ s.sentOutReqData = FALSE /\ s.retries = 0
       /\ s.toSend = size /\ s.credit = credit /\ s.response = resp /\ s.lastIds = last
       /\ s.has = has /\ s.misuse = FALSE /\ s.assertion = FALSE /\ s.skipped = FALSE
       /\ s.early = FALSE
  BY <1>13
<1>17. Typed(s) /\ Len(s.queue) = 0
  <2>1. PICK q : q = <<>>
    OBVIOUS
  <2>2. q \in Seq(Published) /\ Len(q) = 0 /\ 0 \in 0..RetryMax /\ "NotStarted" \in States
    BY <2>1, HttpSessionAssumption DEF States
  <2>3. s.queue = q
    BY <1>16, <2>1
  <2>4. QED BY <1>2, <1>4, <1>6, <1>12, <1>14, <1>15, <1>16, <2>2, <2>3 DEF Typed
<1>18. Sound(s)
  BY <1>16, <1>17, HttpSessionAssumption DEF Sound
<1>19. ResponseFits(s) /\ HoldFits(s) /\ Fresh(s) /\ RequestsFit(s) /\ QueueFits(s)
  BY <1>2, <1>5, <1>12, <1>16 DEF ResponseFits, HoldFits, Fresh, RequestsFit, QueueFits, Live
<1>20. IdsFit(s) /\ ChannelsFit(s)
  BY <1>5, <1>6, <1>7, <1>16 DEF IdsFit, ChannelsFit, Live
<1>21. WakeFits(s) /\ ActionFits(s) /\ QuietFits(s)
  BY <1>16 DEF WakeFits, ActionFits, QuietFits, Ending
<1>22. QED BY <1>18, <1>19, <1>20, <1>21 DEF SessionInv

\* Handlers of the session leave the origin and the publishes alone.
LEMMA OthersKept ==
    ASSUME Inv, SessionInv(s'), UNCHANGED <<log, inflight>>
    PROVE  Inv'
BY DEF Inv

LEMMA RunningFacts ==
    ASSUME Inv, Running
    PROVE  /\ SessionInv(s) /\ Core(s) /\ WakeFits(s) /\ Typed(s) /\ Sound(s)
           /\ s.state \notin {"Finished", "Crashed"} /\ ~s.inProcess /\ ~s.assertion
<1>1. SessionInv(s) /\ s.state \notin {"Finished", "Crashed"} /\ ~s.inProcess
  BY DEF Inv, Running
<1>2. Core(s) /\ WakeFits(s)
  BY <1>1, InvCore
<1>3. Typed(s) /\ Sound(s)
  BY <1>2 DEF Core, Sound
<1>4. ~s.assertion
  BY <1>1, <1>2 DEF Core, RequestsFit
<1>5. QED BY <1>1, <1>2, <1>3, <1>4

LEMMA StartInv ==
    ASSUME Inv, Start
    PROVE  Inv'
<1>1. /\ Core(s) /\ Typed(s) /\ Sound(s) /\ ~s.assertion /\ ~s.inProcess
      /\ s.state = "NotStarted"
  BY RunningFacts DEF Start
<1>2. /\ s.filtering = None /\ ~s.retryTimer /\ ~s.pendingAction /\ s.outReq = None
      /\ s.instruct.hold = "response" => s.response = "none" /\ s.credit > 0
      /\ s.instruct.hold = "none" => s.nextUri
      /\ s.has = IF s.instruct.hold = "none" THEN [c \in {} |-> Null] ELSE s.prevIds
      /\ s.response \in {"none", "begun"}
  BY <1>1 DEF Core, QueueFits, Fresh, RequestsFit, ResponseFits, HoldFits, IdsFit, Ending
<1>3. PICK new : new = [c \in Implicit |-> Null]
  OBVIOUS
<1>4. new \in Partials /\ DOMAIN new = Implicit /\ Implicit \in SUBSET Channels
  <2>1. Implicit \in SUBSET Channels /\ new \in [Implicit -> Ids \cup {Null}]
    BY <1>3, HttpSessionAssumption
  <2>2. QED BY <1>3, <2>1, PartialsIntro
<1>5. PICK x : x = [s EXCEPT !.channels = new, !.subscribed = Implicit]
  OBVIOUS
<1>6. Typed(x)
  BY <1>1, <1>4, <1>5 DEF Typed, HasFields
<1>7. /\ x.state = "NotStarted" /\ x.queue = s.queue /\ x.instruct = s.instruct /\ x.prevIds = s.prevIds
      /\ x.nextUri = s.nextUri /\ x.filtering = None /\ ~x.retryTimer /\ ~x.pendingAction
      /\ ~x.inProcess /\ x.outReq = None /\ x.has = s.has /\ x.response = s.response
      /\ x.credit = s.credit /\ x.toSend = s.toSend /\ ~x.misuse /\ ~x.skipped /\ ~x.assertion
      /\ x.subscribed = DOMAIN x.channels
  BY <1>1, <1>2, <1>4, <1>5 DEF Sound, Typed, HasFields
<1>8. PICK y : y = IF x.response = "none" THEN BeginResponse(x) ELSE x
  OBVIOUS
<1>9. Typed(y)
  BY <1>6, <1>8, BeginTypes
<1>10. /\ y.state = "NotStarted" /\ y.queue = s.queue /\ y.instruct = s.instruct /\ y.prevIds = s.prevIds
       /\ y.nextUri = s.nextUri /\ y.filtering = None /\ ~y.retryTimer /\ ~y.pendingAction
       /\ ~y.inProcess /\ y.outReq = None /\ y.has = s.has /\ y.response = "begun"
       /\ y.credit = s.credit /\ y.toSend = s.toSend /\ ~y.misuse /\ ~y.skipped /\ ~y.assertion
       /\ y.subscribed = DOMAIN y.channels
  BY <1>2, <1>6, <1>7, <1>8 DEF BeginResponse, Typed, HasFields
<1>11. CASE s.instruct.hold = "response" \/ s.response = "begun"
  <2>1. s' = FirstInstructResponseDone(x)
    BY <1>2, <1>3, <1>5, <1>11 DEF Start
  <2>2. Between(x)
    BY <1>1, <1>2, <1>6, <1>7, <1>11 DEF Between, Steady, Sound, ResponseOfHold
  <2>3. SessionInv(s')
    BY <1>2, <1>7, <2>1, <2>2, FirstDoneInv
  <2>4. QED BY <2>3, OthersKept DEF Start
<1>12. CASE s.instruct.hold # "response" /\ s.response = "none"
  <2>1. Between(y) /\ Steady(y)
    BY <1>1, <1>9, <1>10, <1>12 DEF Between, Steady, Sound, ResponseOfHold
  <2>2. PICK z : z = [y EXCEPT !.state = "SendingFirstInstructResponse"]
    OBVIOUS
  <2>3. \/ s.toSend > 0 /\ s' = TryWriteFirstInstructResponse(z)
        \/ s.toSend > 0 /\ s' = DoError(y)
        \/ s' = FirstInstructResponseDone(y)
    <3>1. \/ s.toSend > 0 /\ s' = TryWriteFirstInstructResponse(
                                  [y EXCEPT !.state = "SendingFirstInstructResponse"])
          \/ s.toSend > 0 /\ s' = DoError(y)
          \/ s' = FirstInstructResponseDone(y)
      BY <1>3, <1>5, <1>8, <1>12 DEF Start
    <3>2. QED BY <2>2, <3>1
  <2>4. CASE s.toSend > 0 /\ s' = TryWriteFirstInstructResponse(z)
    <3>1. Typed(z)
      BY <1>9, <2>2 DEF Typed, HasFields, States
    <3>2. /\ z.state = "SendingFirstInstructResponse" /\ z.queue = y.queue /\ z.instruct = y.instruct
          /\ z.prevIds = y.prevIds /\ z.nextUri = y.nextUri /\ z.filtering = None /\ ~z.retryTimer
          /\ ~z.pendingAction /\ ~z.inProcess /\ z.outReq = None /\ z.has = y.has
          /\ z.response = "begun" /\ z.toSend = y.toSend /\ ~z.misuse /\ ~z.skipped /\ ~z.assertion
          /\ z.subscribed = DOMAIN z.channels
      BY <1>9, <1>10, <2>2 DEF Typed, HasFields
    <3>3. Between(z)
      BY <1>1, <1>10, <1>12, <3>1, <3>2 DEF Between, Steady, Sound, ResponseOfHold
    <3>4. SessionInv(s')
      BY <1>2, <1>10, <1>12, <2>4, <3>2, <3>3, TryWriteInv
    <3>5. QED BY <3>4, OthersKept DEF Start
  <2>5. CASE s' = DoError(y)
    BY <2>1, <2>5, DoErrorInv, OthersKept DEF Start
  <2>6. CASE s' = FirstInstructResponseDone(y)
    <3>1. SessionInv(s')
      BY <1>2, <1>10, <2>1, <2>6, FirstDoneInv
    <3>2. QED BY <3>1, OthersKept DEF Start
  <2>7. QED BY <2>3, <2>4, <2>5, <2>6
<1>13. QED BY <1>2, <1>11, <1>12

\* Timers that stop, and a client buffer that fills up, change nothing else.
LEMMA TimersStop ==
    ASSUME NEW x, SessionInv(x), NEW z, Typed(z), SameRun(x, z), z.outReq = x.outReq,
           z.instruct = x.instruct, z.nextUri = x.nextUri, z.prevIds = x.prevIds, z.toSend = x.toSend,
           z.timer => x.timer, z.registered => x.registered,
           x.credit = 0 => z.credit = 0, x.instruct.hold = "response" => z.credit = x.credit
    PROVE  SessionInv(z)
<1>1. Core(x) /\ Typed(x) /\ WakeFits(x)
  BY InvCore DEF Core, Sound
<1>2. Sound(z)
  BY <1>1 DEF Core, Sound, SameRun
<1>3. ResponseFits(z) /\ HoldFits(z)
  BY <1>1 DEF Core, ResponseFits, ResponseOfHold, HoldFits, SameRun
<1>4. Fresh(z) /\ ActionFits(z) /\ ChannelsFit(z)
  BY <1>1 DEF Core, Fresh, ActionFits, ChannelsFit, SameRun
<1>5. IdsFit(z)
  <2>1. IdsAgree(x) => IdsAgree(z)
    BY DEF IdsAgree, SameRun
  <2>2. QED BY <1>1, <2>1 DEF Core, IdsFit, SameRun
<1>6. QueueFits(z)
  BY <1>1 DEF Core, QueueFits, Follows, SameRun
<1>7. RequestsFit(z) /\ QuietFits(z)
  BY <1>1 DEF Core, RequestsFit, QuietFits, Ending, SameRun
<1>8. WakeFits(z)
  BY <1>1 DEF WakeFits, SameRun
<1>9. QED BY <1>2, <1>3, <1>4, <1>5, <1>6, <1>7, <1>8 DEF SessionInv

\* An item more at the end of the queue.
LEMMA AppendInv ==
    ASSUME NEW x, SessionInv(x), Len(x.queue) < QueueMax, NEW item \in Published,
           x.state \in {"WaitingToUpdate", "Proxying", "SendingQueue", "Holding"},
           NEW z, z = [x EXCEPT !.queue = Append(@, item)]
    PROVE  SessionInv(z) /\ z.state = x.state
<1>1. Core(x) /\ Typed(x) /\ WakeFits(x)
  BY InvCore DEF Core, Sound
<1>2. PICK q : q = Append(x.queue, item)
  OBVIOUS
<1>3. x.queue \in Seq(Published)
  BY <1>1 DEF Typed
<1>4. q \in Seq(Published) /\ Len(q) = Len(x.queue) + 1
  BY <1>2, <1>3
<1>5. Len(q) <= QueueMax
  BY <1>3, <1>4, HttpSessionAssumption
<1>6. x.queue # <<>> => q # <<>> /\ Head(q) = Head(x.queue)
  BY <1>2, <1>3
<1>7. z = [x EXCEPT !.queue = q]
  BY <1>2
<1>8. Typed(z)
  BY <1>1, <1>4, <1>7 DEF Typed, HasFields
<1>9. /\ z.queue = q
      /\ z.state = x.state /\ z.subscribed = x.subscribed /\ z.nextUri = x.nextUri
      /\ z.channels = x.channels /\ z.has = x.has /\ z.instruct = x.instruct /\ z.credit = x.credit
      /\ z.response = x.response /\ z.filtering = x.filtering /\ z.early = x.early
      /\ z.outReq = x.outReq /\ z.retryTimer = x.retryTimer /\ z.pendingAction = x.pendingAction
      /\ z.inProcess = x.inProcess /\ z.misuse = x.misuse /\ z.skipped = x.skipped
      /\ z.assertion = x.assertion
  BY <1>1, <1>7 DEF Typed, HasFields
<1>10. Sound(z)
  BY <1>1, <1>5, <1>8, <1>9 DEF Core, Sound
<1>11. ResponseFits(z) /\ HoldFits(z) /\ ChannelsFit(z)
  BY <1>1, <1>9 DEF Core, ResponseFits, ResponseOfHold, HoldFits, ChannelsFit
<1>12. IdsFit(z)
  <2>1. IdsAgree(x) => IdsAgree(z)
    BY <1>9 DEF IdsAgree
  <2>2. QED BY <1>1, <1>9, <2>1 DEF Core, IdsFit
<1>13. QueueFits(z)
  BY <1>1, <1>6, <1>9 DEF Core, QueueFits, Follows, Ending
<1>14. Fresh(z) /\ RequestsFit(z) /\ ActionFits(z) /\ QuietFits(z) /\ WakeFits(z)
  BY <1>1, <1>9 DEF Core, Fresh, RequestsFit, ActionFits, QuietFits, WakeFits, Ending
<1>15. QED BY <1>9, <1>10, <1>11, <1>12, <1>13, <1>14 DEF SessionInv

LEMMA DeliverInv ==
    ASSUME Inv, Deliver
    PROVE  Inv'
<1>1. SessionInv(s) /\ ~s.inProcess
  BY RunningFacts DEF Deliver
<1>2. inflight # <<>> /\ inflight \in Seq(Published) /\ log \in [Channels -> Ids]
  BY DEF Deliver, Inv
<1>3. Head(inflight) \in Published /\ Tail(inflight) \in Seq(Published)
  BY <1>2
<1>4. PICK x : x = [s EXCEPT !.queue = Append(@, Head(inflight))]
  OBVIOUS
<1>5. \/ s' = s
      \/ /\ s.state \in {"WaitingToUpdate", "Proxying", "SendingQueue", "Holding"}
         /\ Len(s.queue) < QueueMax
         /\ s' = IF s.state = "Holding" THEN SendQueue(x) ELSE x
  BY <1>4 DEF Deliver
<1>6. SessionInv(s')
  <2>1. CASE s' = s
    BY <1>1, <2>1
  <2>2. CASE /\ s.state \in {"WaitingToUpdate", "Proxying", "SendingQueue", "Holding"}
             /\ Len(s.queue) < QueueMax
             /\ s' = IF s.state = "Holding" THEN SendQueue(x) ELSE x
    <3>1. SessionInv(x) /\ x.state = s.state
      BY <1>1, <1>3, <1>4, <2>2, AppendInv
    <3>2. CASE s.state = "Holding"
      <4>1. Core(x)
        BY <3>1, InvCore
      <4>2. Between(x) /\ IdsAgree(x) /\ x.instruct.hold # "none"
        BY <3>1, <3>2, <4>1, HoldingIsBetween
      <4>3. ~x.pendingAction
        BY <3>1, <3>2, <4>1 DEF Core, ActionFits
      <4>4. QED BY <2>2, <3>2, <4>2, <4>3, SendQueueInv
    <3>3. QED BY <2>2, <3>1, <3>2
  <2>3. QED BY <1>5, <2>1, <2>2
<1>7. inflight' \in Seq(Published) /\ log' \in [Channels -> Ids]
  BY <1>2, <1>3 DEF Deliver
<1>8. QED BY <1>6, <1>7 DEF Inv

LEMMA ProcessQueueInv ==
    ASSUME Inv, ProcessQueue
    PROVE  Inv'
<1>1. SessionInv(s) /\ s.inProcess /\ LoopContinues(s)
  BY DEF Inv, ProcessQueue
<1>2. PICK result \in FilterResults \cup {"later"} : s' = ProcessQueueHead(s, result)
  BY DEF ProcessQueue
<1>3. SessionInv(s')
  BY <1>1, <1>2, ProcessQueueHeadInv
<1>4. QED BY <1>3, OthersKept DEF ProcessQueue

LEMMA ProcessQueueStopInv ==
    ASSUME Inv, ProcessQueueStop
    PROVE  Inv'
<1>1. SessionInv(s) /\ s.inProcess /\ ~LoopContinues(s) /\ s' = ProcessQueueEnd(s)
  BY DEF Inv, ProcessQueueStop
<1>2. SessionInv(s')
  BY <1>1, ProcessQueueEndInv
<1>3. QED BY <1>2, OthersKept DEF ProcessQueueStop

LEMMA FiltersFinishedInv ==
    ASSUME Inv, FiltersFinished
    PROVE  Inv'
<1>1. /\ SessionInv(s) /\ Core(s) /\ Typed(s) /\ Sound(s) /\ ~s.inProcess
      /\ s.state \notin {"Finished", "Crashed"} /\ s.filtering # None /\ ~s.assertion
  BY RunningFacts DEF FiltersFinished
<1>2. CASE s.queue = <<>>
  <2>1. PICK z : z = [s EXCEPT !.state = "Crashed"]
    OBVIOUS
  <2>2. s' = z
    BY <1>2, <2>1 DEF FiltersFinished
  <2>3. Typed(z)
    BY <1>1, <2>1 DEF Typed, HasFields, States
  <2>4. /\ z.state = "Crashed" /\ z.queue = s.queue /\ z.inProcess = s.inProcess
        /\ z.misuse = s.misuse /\ z.skipped = s.skipped /\ z.assertion = s.assertion
        /\ z.retryTimer = s.retryTimer /\ z.early = s.early
    BY <1>1, <2>1 DEF Typed, HasFields
  <2>5. Sound(z)
    BY <1>1, <2>3, <2>4 DEF Sound
  <2>6. RequestsFit(z)
    <3>1. ~s.retryTimer
      BY <1>1, <1>2 DEF Core, QueueFits, QuietFits
    <3>2. QED BY <1>1, <2>4, <3>1 DEF RequestsFit
  <2>7. SessionInv(z)
    BY <1>1, <2>4, <2>5, <2>6
       DEF SessionInv, ResponseFits, HoldFits, Fresh, QueueFits, IdsFit,
           WakeFits, ActionFits, QuietFits, ChannelsFit, Live, Ending
  <2>8. QED BY <2>2, <2>7, OthersKept DEF FiltersFinished
<1>3. CASE s.queue # <<>>
  <2>1. PICK result \in FilterResults :
            s' = IF result = "error" /\ Debug THEN MessageFiltersFinished(s, result)
                 ELSE [MessageFiltersFinished(s, result) EXCEPT !.inProcess = TRUE]
    BY <1>3 DEF FiltersFinished
  <2>2. /\ s.state = "SendingQueue" /\ Follows(s, Head(s.queue))
        /\ Head(s.queue).action # "mismatch"
    BY <1>1, <1>3 DEF Core, QueueFits, QuietFits, Ending
  <2>3. PICK z : z = MessageFiltersFinished(s, result)
    OBVIOUS
  <2>4. /\ Core(z) /\ z.state \in {"SendingQueue", "Closing"}
        /\ result = "error" /\ Debug => SessionInv(z)
    BY <1>1, <1>3, <2>2, <2>3, FiltersFinishedDone
  <2>5. SessionInv([z EXCEPT !.inProcess = TRUE])
    BY <2>4, ResumeInv
  <2>6. SessionInv(s')
    BY <2>1, <2>3, <2>4, <2>5
  <2>7. QED BY <2>6, OthersKept DEF FiltersFinished
<1>4. QED BY <1>2, <1>3

LEMMA LimiterUpdateInv ==
    ASSUME Inv, LimiterUpdate
    PROVE  Inv'
<1>1. /\ Core(s) /\ s.state \notin {"Finished", "Crashed"} /\ s.pendingAction /\ s' = DoUpdate(s)
  BY RunningFacts DEF LimiterUpdate
<1>2. s.state = "WaitingToUpdate"
  BY <1>1 DEF Core, ActionFits
<1>3. SessionInv(s')
  BY <1>1, <1>2, HoldingIsBetween, DoUpdateInv
<1>4. QED BY <1>3, OthersKept DEF LimiterUpdate

LEMMA PollTimeoutInv ==
    ASSUME Inv, PollTimeout
    PROVE  Inv'
<1>1. SessionInv(s) /\ Typed(s)
  BY RunningFacts DEF PollTimeout
<1>2. PICK x : x = [s EXCEPT !.registered = FALSE]
  OBVIOUS
<1>3. Typed(x)
  BY <1>1, <1>2 DEF Typed, HasFields
<1>4. /\ SameRun(s, x) /\ x.outReq = s.outReq /\ x.instruct = s.instruct /\ x.nextUri = s.nextUri
      /\ x.prevIds = s.prevIds /\ x.toSend = s.toSend /\ x.timer = s.timer /\ ~x.registered
      /\ x.credit = s.credit
  BY <1>1, <1>2 DEF Typed, HasFields, SameRun
<1>5. SessionInv(x)
  BY <1>1, <1>3, <1>4, TimersStop
<1>6. s' = Update(x, "low") /\ "low" \in {"low", "high"}
  BY <1>2 DEF PollTimeout
<1>7. SessionInv(s')
  BY <1>5, <1>6, UpdateInv
<1>8. QED BY <1>7, OthersKept DEF PollTimeout

LEMMA EngineUpdateInv ==
    ASSUME Inv, EngineUpdate
    PROVE  Inv'
<1>1. SessionInv(s) /\ s' = Update(s, "low") /\ "low" \in {"low", "high"}
  BY DEF Inv, EngineUpdate
<1>2. SessionInv(s')
  BY <1>1, UpdateInv
<1>3. QED BY <1>2, OthersKept DEF EngineUpdate

LEMMA TimerTimeoutInv ==
    ASSUME Inv, TimerTimeout
    PROVE  Inv'
<1>1. /\ SessionInv(s) /\ Core(s) /\ Typed(s) /\ Sound(s)
      /\ s.state \notin {"Finished", "Crashed"} /\ s.timer
  BY RunningFacts DEF TimerTimeout
<1>2. s.state \in Live
  BY <1>1 DEF Core, Fresh, QuietFits, Ending, Live, Typed, States
<1>3. Steady(s)
  BY <1>1, <1>2, LiveIsSteady
<1>4. PICK x : x = [s EXCEPT !.timer = FALSE]
  OBVIOUS
<1>5. Typed(x)
  BY <1>1, <1>4 DEF Typed, HasFields
<1>6. /\ SameRun(s, x) /\ x.outReq = s.outReq /\ x.instruct = s.instruct /\ x.nextUri = s.nextUri
      /\ x.prevIds = s.prevIds /\ x.toSend = s.toSend /\ ~x.timer /\ x.registered = s.registered
      /\ x.credit = s.credit
  BY <1>1, <1>4 DEF Typed, HasFields, SameRun
<1>7. SessionInv(x)
  BY <1>1, <1>5, <1>6, TimersStop
<1>8. s.instruct.hold \in {"none", "response", "stream"}
  BY <1>1 DEF Typed, Instructs
<1>9. CASE s.instruct.hold = "response"
  <2>1. s' = Respond(x)
    BY <1>4, <1>9 DEF TimerTimeout
  <2>2. Sound(x) /\ ~x.assertion /\ x.subscribed = DOMAIN x.channels /\ x.response = "none"
    BY <1>3, <1>5, <1>6, <1>9 DEF Steady, Sound, SameRun, ResponseOfHold
  <2>3. SessionInv(s')
    BY <2>1, <2>2, RespondInv
  <2>4. QED BY <2>3, OthersKept DEF TimerTimeout
<1>10. CASE s.instruct.hold = "stream"
  <2>1. PICK w : w = WriteBody(x)
    OBVIOUS
  <2>2. PICK z : z = SetupKeepAlive(w)
    OBVIOUS
  <2>3. s' = z
    BY <1>4, <1>10, <2>1, <2>2 DEF TimerTimeout
  <2>4. Typed(w)
    BY <1>5, <2>1, WriteTypes
  <2>5. PICK mis : mis = (x.misuse \/ x.response # "begun")
    OBVIOUS
  <2>6. x.misuse = FALSE /\ x.response = "begun"
    BY <1>3, <1>5, <1>6, <1>10 DEF Steady, Sound, SameRun, ResponseOfHold, Typed
  <2>7. mis = FALSE
    BY <2>5, <2>6, Zenon
  <2>8. PICK n : n = IF x.credit > 0 THEN x.credit - 1 ELSE 0
    OBVIOUS
  <2>9. x.credit = 0 => n = 0
    BY <2>8
  <2>10. w = [x EXCEPT !.credit = n, !.misuse = mis]
    BY <2>1, <2>5, <2>8 DEF WriteBody
  <2>11. /\ SameRun(x, w) /\ w.outReq = x.outReq /\ w.instruct = x.instruct /\ w.nextUri = x.nextUri
         /\ w.prevIds = x.prevIds /\ w.toSend = x.toSend /\ w.registered = x.registered
         /\ w.credit = n
    BY <1>5, <2>6, <2>7, <2>10 DEF Typed, HasFields, SameRun
  <2>12. PICK t : t = (w.timer \/ w.instruct.timeout)
    OBVIOUS
  <2>13. z = [w EXCEPT !.timer = t]
    BY <2>2, <2>12 DEF SetupKeepAlive
  <2>14. Typed(z)
    BY <2>2, <2>4, KeepAliveDone
  <2>15. /\ SameRun(s, z) /\ z.outReq = s.outReq /\ z.instruct = s.instruct /\ z.nextUri = s.nextUri
         /\ z.prevIds = s.prevIds /\ z.toSend = s.toSend /\ z.registered = s.registered
         /\ z.credit = n
    <3>1. /\ SameRun(w, z) /\ z.outReq = w.outReq /\ z.instruct = w.instruct /\ z.nextUri = w.nextUri
          /\ z.prevIds = w.prevIds /\ z.toSend = w.toSend /\ z.registered = w.registered
          /\ z.credit = w.credit
      BY <2>4, <2>13 DEF Typed, HasFields, SameRun
    <3>2. QED BY <1>6, <2>11, <3>1 DEF SameRun
  <2>16. SessionInv(s')
    BY <1>1, <1>6, <1>10, <2>3, <2>9, <2>14, <2>15, TimersStop
  <2>17. QED BY <2>16, OthersKept DEF TimerTimeout
<1>11. CASE s.instruct.hold = "none"
  <2>1. s' = x
    BY <1>4, <1>11 DEF TimerTimeout
  <2>2. QED BY <1>7, <2>1, OthersKept DEF TimerTimeout
<1>12. QED BY <1>8, <1>9, <1>10, <1>11

\* The retry timer: the request is made, or, left on by an early one, made in a
\* state that does not expect its answer.
LEMMA RetryTimeoutInv ==
    ASSUME Inv, RetryTimeout
    PROVE  Inv'
<1>1. /\ SessionInv(s) /\ Core(s) /\ Typed(s) /\ WakeFits(s) /\ ~s.inProcess
      /\ s.state \notin {"Finished", "Crashed"} /\ s.retryTimer
  BY RunningFacts DEF RetryTimeout
<1>2. PICK x : x = [s EXCEPT !.retryTimer = FALSE]
  OBVIOUS
<1>3. Typed(x)
  BY <1>1, <1>2 DEF Typed, HasFields
<1>4. /\ x.state = s.state /\ x.queue = s.queue /\ x.subscribed = s.subscribed /\ x.nextUri = s.nextUri
      /\ x.channels = s.channels /\ x.has = s.has /\ x.instruct = s.instruct /\ x.credit = s.credit
      /\ x.response = s.response /\ x.filtering = s.filtering /\ x.early = s.early
      /\ ~x.retryTimer /\ x.pendingAction = s.pendingAction
      /\ x.inProcess = s.inProcess /\ x.misuse = s.misuse /\ x.skipped = s.skipped
      /\ x.assertion = s.assertion /\ x.timer = s.timer /\ x.registered = s.registered
  BY <1>1, <1>2 DEF Typed, HasFields
<1>5. s' = RequestNextLink(x)
  BY <1>2 DEF RetryTimeout
<1>6. s.state \in Live \ {"SendingFirstInstructResponse"}
  BY <1>1 DEF Core, Fresh, RequestsFit, QuietFits, Ending, Live, Typed, States
<1>7. Steady(s)
  BY <1>1, <1>6, LiveIsSteady
<1>8. Steady(x)
  BY <1>3, <1>4, <1>7 DEF Steady, Sound, ResponseOfHold
<1>9. CASE s.state = "Proxying"
  <2>1. /\ s.filtering = None /\ ~s.pendingAction /\ s.instruct.hold # "response" /\ IdsAgree(s)
    BY <1>1, <1>9, ProxyingFacts
  <2>2. IdsAgree(x)
    BY <1>4, <2>1 DEF IdsAgree
  <2>3. SessionInv(s')
    BY <1>1, <1>4, <1>5, <1>8, <1>9, <2>1, <2>2, RequestInv
  <2>4. QED BY <2>3, OthersKept DEF RetryTimeout
<1>10. CASE s.state # "Proxying"
  <2>1. s.early
    BY <1>1, <1>10 DEF Core, RequestsFit
  <2>2. PICK z : z = RequestNextLink(x)
    OBVIOUS
  <2>3. /\ Typed(z) /\ z.outReq # None
        /\ z.state = x.state /\ z.queue = x.queue /\ z.subscribed = x.subscribed
        /\ z.channels = x.channels /\ z.has = x.has /\ z.instruct = x.instruct
        /\ z.credit = x.credit /\ z.response = x.response /\ z.filtering = x.filtering
        /\ z.early = x.early /\ z.retryTimer = x.retryTimer /\ z.pendingAction = x.pendingAction
        /\ z.inProcess = x.inProcess /\ z.misuse = x.misuse /\ z.skipped = x.skipped
        /\ z.assertion = x.assertion
    BY <1>3, <2>2, NextLinkDone
  <2>4. Sound(z) /\ ResponseOfHold(z) /\ z.subscribed = DOMAIN z.channels /\ ~z.assertion
    BY <1>8, <2>3 DEF Steady, Sound, ResponseOfHold
  <2>5. /\ z.state = s.state /\ z.queue = s.queue /\ z.instruct = s.instruct /\ z.credit = s.credit
        /\ z.channels = s.channels /\ z.has = s.has /\ z.filtering = s.filtering /\ z.early
        /\ ~z.retryTimer /\ z.pendingAction = s.pendingAction /\ ~z.inProcess
    BY <1>1, <1>4, <2>1, <2>3
  <2>6. ResponseFits(z) /\ HoldFits(z) /\ ChannelsFit(z)
    BY <1>1, <1>6, <2>4, <2>5 DEF Core, ResponseFits, HoldFits, ChannelsFit, Live
  <2>7. IdsFit(z)
    <3>1. IdsAgree(s)
      BY <1>1, <1>6 DEF Core, IdsFit
    <3>2. IdsAgree(z)
      BY <2>5, <3>1 DEF IdsAgree
    <3>3. QED BY <1>6, <1>10, <2>5, <3>2 DEF IdsFit, Live
  <2>8. QueueFits(z)
    BY <1>1, <2>5 DEF Core, QueueFits, Follows
  <2>9. Fresh(z) /\ RequestsFit(z) /\ ActionFits(z) /\ QuietFits(z)
    BY <1>1, <1>6, <2>4, <2>5 DEF Core, Fresh, RequestsFit, ActionFits, QuietFits, Live, Ending
  <2>10. WakeFits(z)
    BY <1>1, <1>6, <1>10, <2>5 DEF WakeFits
  <2>11. SessionInv(s')
    BY <1>5, <2>2, <2>4, <2>6, <2>7, <2>8, <2>9, <2>10 DEF SessionInv
  <2>12. QED BY <2>11, OthersKept DEF RetryTimeout
<1>11. QED BY <1>9, <1>10

\* The instruct of a next link's response is taken over.
LEMMA AcceptInv ==
    ASSUME NEW x, SessionInv(x), x.state = "Proxying", x.outReq # None, log \in [Channels -> Ids],
           NEW i \in Instructs, i.hold # "response", NEW z, z = AcceptInstruct(x, i)
    PROVE  /\ SessionInv(z) /\ z.state = "Proxying" /\ z.outReq # None /\ z.inProcess = x.inProcess
<1>1. Typed(x)
  BY InvCore DEF Core, Sound
<1>2. PICK ids : ids = PrevIds(i, log)
  OBVIOUS
<1>3. ids \in Partials
  BY <1>2, PrevIdsPartial
<1>4. z = [x EXCEPT !.instruct = i, !.prevIds = ids]
  BY <1>2 DEF AcceptInstruct
<1>5. Typed(z)
  BY <1>1, <1>3, <1>4 DEF Typed, HasFields
<1>6. SameRun(x, z) /\ z.outReq = x.outReq /\ z.instruct = i
  BY <1>1, <1>4 DEF Typed, HasFields, SameRun
<1>7. SessionInv(z)
  BY <1>5, <1>6, ProxyingMoves
<1>8. QED BY <1>6, <1>7 DEF SameRun

\* A session whose request has moved on is processed.
LEMMA ProcessInv ==
    ASSUME NEW x, SessionInv(x), x.outReq # None, x.state \notin {"Crashed", "Finished"},
           ~x.inProcess, NEW fails \in BOOLEAN
    PROVE  SessionInv(TryProcessOutReq(x, fails))
BY InvCore, TryProcessOutReqInv

LEMMA OutReqHeadersInv ==
    ASSUME Inv, OutReqHeaders
    PROVE  Inv'
<1>1. /\ SessionInv(s) /\ Typed(s) /\ ~s.inProcess /\ s.state \notin {"Finished", "Crashed"}
      /\ s.outReq # None
  BY RunningFacts DEF OutReqHeaders
<1>2. log \in [Channels -> Ids]
  BY DEF Inv
<1>3. PICK ok \in BOOLEAN, body \in 0..BodyMax, coming \in 0..BodyMax, fails \in BOOLEAN :
         LET x == [s EXCEPT !.outReq.headers = TRUE, !.outReq.ok = ok,
                            !.outReq.body = body, !.outReq.coming = coming]
         IN  /\ body + coming <= BodyMax
             /\ fails => "error" \in FilterResults
             /\ IF s.state = "Proxying"
                THEN \/ s' = DoError(x)
                     \/ \E i \in NextInstructs :
                           s' = IF i.hold = "response" THEN DoError(x)
                                ELSE TryProcessOutReq(AcceptInstruct(x, i), fails)
                ELSE s' = TryProcessOutReq(x, fails)
  BY DEF OutReqHeaders
<1>4. s.outReq \in Requests
  BY <1>1 DEF Typed
<1>5. PICK r : r = [s.outReq EXCEPT !.headers = TRUE, !.ok = ok, !.body = body, !.coming = coming]
  OBVIOUS
<1>6. r \in Requests /\ r.dest = s.outReq.dest /\ r.last = s.outReq.last
  <2>1. body \in Nat /\ coming \in Nat
    BY <1>3, HttpSessionAssumption
  <2>2. QED BY <1>3, <1>4, <1>5, <2>1 DEF Requests
<1>7. PICK x : x = [s EXCEPT !.outReq = r]
  OBVIOUS
<1>8. [s EXCEPT !.outReq.headers = TRUE, !.outReq.ok = ok,
                !.outReq.body = body, !.outReq.coming = coming] = x
  BY <1>1, <1>4, <1>5, <1>7 DEF Requests, Typed, HasFields
<1>9. SessionInv(x) /\ SameRun(s, x) /\ x.outReq # None
  BY <1>1, <1>6, <1>7, RequestMoves
<1>10. x.state = s.state /\ ~x.inProcess
  BY <1>1, <1>9 DEF SameRun
<1>11. CASE s.state # "Proxying"
  <2>1. s' = TryProcessOutReq(x, fails)
    BY <1>3, <1>8, <1>11
  <2>2. SessionInv(s')
    BY <1>1, <1>9, <1>10, <2>1, ProcessInv
  <2>3. QED BY <2>2, OthersKept DEF OutReqHeaders
<1>12. CASE s.state = "Proxying"
  <2>1. \/ s' = DoError(x)
        \/ \E i \in NextInstructs : i.hold # "response" /\ s' = TryProcessOutReq(AcceptInstruct(x, i), fails)
    BY <1>3, <1>8, <1>12
  <2>2. CASE s' = DoError(x)
    <3>1. Steady(x)
      BY <1>9, <1>10, <1>12, InvCore, ProxyingFacts
    <3>2. SessionInv(s')
      BY <2>2, <3>1, DoErrorInv
    <3>3. QED BY <3>2, OthersKept DEF OutReqHeaders
  <2>3. ASSUME NEW i \in NextInstructs, i.hold # "response",
               s' = TryProcessOutReq(AcceptInstruct(x, i), fails)
        PROVE  Inv'
    <3>1. PICK z : z = AcceptInstruct(x, i)
      OBVIOUS
    <3>2. i \in Instructs
      BY HttpSessionAssumption
    <3>3. SessionInv(z) /\ z.state = "Proxying" /\ z.outReq # None /\ ~z.inProcess
      BY <1>2, <1>9, <1>10, <1>12, <2>3, <3>1, <3>2, AcceptInv
    <3>4. SessionInv(s')
      BY <2>3, <3>1, <3>3, ProcessInv
    <3>5. QED BY <3>4, OthersKept DEF OutReqHeaders
  <2>4. QED BY <2>1, <2>2, <2>3
<1>13. QED BY <1>11, <1>12

LEMMA OutReqBodyInv ==
    ASSUME Inv, OutReqBody
    PROVE  Inv'
<1>1. /\ SessionInv(s) /\ Typed(s) /\ ~s.inProcess /\ s.state \notin {"Finished", "Crashed"}
      /\ s.outReq # None /\ s.outReq.coming > 0
  BY RunningFacts DEF OutReqBody
<1>2. s.outReq \in Requests
  BY <1>1 DEF Typed
<1>3. PICK r : r = [s.outReq EXCEPT !.coming = @ - 1, !.body = @ + 1]
  OBVIOUS
<1>4. r \in Requests /\ r.dest = s.outReq.dest /\ r.last = s.outReq.last
  <2>1. s.outReq.coming - 1 \in Nat /\ s.outReq.body + 1 \in Nat
    BY <1>1, <1>2 DEF Requests
  <2>2. PICK fewer, more : fewer = s.outReq.coming - 1 /\ more = s.outReq.body + 1
    OBVIOUS
  <2>3. r = [s.outReq EXCEPT !.coming = fewer, !.body = more]
    BY <1>3, <2>2
  <2>4. QED BY <1>2, <2>1, <2>2, <2>3 DEF Requests
<1>5. PICK x : x = [s EXCEPT !.outReq = r]
  OBVIOUS
<1>6. [s EXCEPT !.outReq.coming = @ - 1, !.outReq.body = @ + 1] = x
  BY <1>1, <1>2, <1>3, <1>5 DEF Requests, Typed, HasFields
<1>7. SessionInv(x) /\ SameRun(s, x) /\ x.outReq # None
  BY <1>1, <1>4, <1>5, RequestMoves
<1>8. PICK fails \in BOOLEAN : s' = TryProcessOutReq(x, fails)
  BY <1>6 DEF OutReqBody
<1>9. x.state = s.state /\ ~x.inProcess
  BY <1>1, <1>7 DEF SameRun
<1>10. SessionInv(s')
  BY <1>1, <1>7, <1>8, <1>9, ProcessInv
<1>11. QED BY <1>10, OthersKept DEF OutReqBody

LEMMA OutReqFailsInv ==
    ASSUME Inv, OutReqFails
    PROVE  Inv'
<1>1. /\ SessionInv(s) /\ ~s.inProcess /\ s.state # "Crashed" /\ s.outReq # None
      /\ s' = OutReqError(s)
  BY RunningFacts DEF OutReqFails
<1>2. SessionInv(s')
  BY <1>1, OutReqErrorInv
<1>3. QED BY <1>2, OthersKept DEF OutReqFails

\* More credit: what waited for it goes on.
LEMMA ClientCreditInv ==
    ASSUME Inv, ClientCredit
    PROVE  Inv'
<1>1. /\ SessionInv(s) /\ Core(s) /\ Typed(s) /\ WakeFits(s) /\ ~s.inProcess
      /\ s.state \notin {"Finished", "Crashed", "NotStarted", "Pausing", "SendingGone"}
      /\ s.response # "ended" /\ s.credit < CreditMax
  BY RunningFacts DEF ClientCredit, Started
<1>2. s.state # "Closing" /\ s.state \in Live
  BY <1>1 DEF Core, ResponseFits, Live, Typed, States
<1>3. PICK n : n = s.credit + 1
  OBVIOUS
<1>4. n \in 0..CreditMax /\ n > 0
  BY <1>1, <1>3, HttpSessionAssumption DEF Typed
<1>5. PICK x : x = [s EXCEPT !.credit = n]
  OBVIOUS
<1>6. Typed(x)
  BY <1>1, <1>4, <1>5 DEF Typed, HasFields
<1>7. /\ SameRun(s, x) /\ x.outReq = s.outReq /\ x.instruct = s.instruct /\ x.nextUri = s.nextUri
      /\ x.prevIds = s.prevIds /\ x.toSend = s.toSend /\ x.timer = s.timer /\ x.registered = s.registered
      /\ x.credit = n
  BY <1>1, <1>5 DEF Typed, HasFields, SameRun
<1>8. Core(x) /\ x.state = s.state /\ ~x.inProcess
  <2>1. Sound(x)
    BY <1>1, <1>6, <1>7 DEF Core, Sound, SameRun
  <2>2. ResponseFits(x) /\ HoldFits(x) /\ ChannelsFit(x)
    BY <1>1, <1>4, <1>7 DEF Core, ResponseFits, ResponseOfHold, HoldFits, ChannelsFit, SameRun
  <2>3. IdsFit(x)
    <3>1. IdsAgree(s) => IdsAgree(x)
      BY <1>7 DEF IdsAgree, SameRun
    <3>2. QED BY <1>1, <1>7, <3>1 DEF Core, IdsFit, SameRun
  <2>4. QueueFits(x)
    BY <1>1, <1>7 DEF Core, QueueFits, Follows, SameRun
  <2>5. Fresh(x) /\ RequestsFit(x) /\ ActionFits(x) /\ QuietFits(x)
    BY <1>1, <1>7 DEF Core, Fresh, RequestsFit, ActionFits, QuietFits, Ending, SameRun
  <2>6. QED BY <1>1, <1>7, <2>1, <2>2, <2>3, <2>4, <2>5 DEF Core, SameRun
<1>9. PICK fails \in BOOLEAN :
         s' = CASE x.state = "SendingFirstInstructResponse" -> TryWriteFirstInstructResponse(x)
                [] x.state = "Proxying" -> TryProcessOutReq(x, fails)
                [] x.state = "SendingQueue" -> [x EXCEPT !.inProcess = TRUE]
                [] OTHER -> x
  BY <1>3, <1>5 DEF ClientCredit
<1>10. CASE s.state = "SendingFirstInstructResponse"
  <2>1. s' = TryWriteFirstInstructResponse(x)
    BY <1>8, <1>9, <1>10
  <2>2. /\ ~x.retryTimer /\ x.outReq = None /\ x.filtering = None /\ ~x.pendingAction
        /\ x.instruct.hold # "response" /\ (x.instruct.hold = "none" => x.nextUri)
        /\ x.has = IF x.instruct.hold = "none" THEN [c \in {} |-> Null] ELSE x.prevIds
    BY <1>8, <1>10 DEF Core, RequestsFit, QueueFits, ActionFits, HoldFits, IdsFit, Ending
  <2>3. x.toSend > 0
    BY <1>1, <1>7, <1>10 DEF WakeFits
  <2>4. Steady(x)
    BY <1>2, <1>8, LiveIsSteady
  <2>5. Between(x)
    BY <1>8, <2>2, <2>4 DEF Between
  <2>6. SessionInv(s')
    BY <1>8, <1>10, <2>1, <2>2, <2>3, <2>5, TryWriteInv
  <2>7. QED BY <2>6, OthersKept DEF ClientCredit
<1>11. CASE s.state = "Proxying"
  <2>1. s' = TryProcessOutReq(x, fails)
    BY <1>8, <1>9, <1>11
  <2>2. x.outReq # None => WakeFits(x)
    BY <1>8, <1>11 DEF WakeFits
  <2>3. SessionInv(s')
    BY <1>8, <1>11, <2>1, <2>2, TryProcessOutReqInv
  <2>4. QED BY <2>3, OthersKept DEF ClientCredit
<1>12. CASE s.state = "SendingQueue"
  <2>1. s' = [x EXCEPT !.inProcess = TRUE]
    BY <1>8, <1>9, <1>12
  <2>2. SessionInv(s')
    BY <1>8, <1>12, <2>1, ResumeInv
  <2>3. QED BY <2>2, OthersKept DEF ClientCredit
<1>13. CASE s.state \notin {"SendingFirstInstructResponse", "Proxying", "SendingQueue"}
  <2>1. s' = x
    BY <1>8, <1>9, <1>13
  <2>2. WakeFits(x)
    BY <1>8, <1>13 DEF WakeFits
  <2>3. SessionInv(s')
    BY <1>8, <2>1, <2>2, CoreInv
  <2>4. QED BY <2>3, OthersKept DEF ClientCredit
<1>14. QED BY <1>10, <1>11, <1>12, <1>13

LEMMA ClientEndsInv ==
    ASSUME Inv, ClientDone \/ ClientError \/ ClientPaused
    PROVE  Inv'
<1>1. Sound(s) /\ ~s.assertion /\ ~s.inProcess
  BY RunningFacts DEF ClientDone, ClientError, ClientPaused, Started
<1>2. s' = DoFinish(s) /\ UNCHANGED <<log, inflight>>
  BY DEF ClientDone, ClientError, ClientPaused
<1>3. SessionInv(s')
  BY <1>1, <1>2, DoFinishInv
<1>4. QED BY <1>2, <1>3, OthersKept

LEMMA PublishInv ==
    ASSUME Inv, NEW c \in Channels, NEW action \in Actions, Publish(c, action)
    PROVE  Inv'
<1>1. SessionInv(s) /\ Typed(s)
  BY RunningFacts DEF Publish
<1>2. log \in [Channels -> Ids] /\ inflight \in Seq(Published) /\ log[c] < LogMax
  BY DEF Inv, Publish
<1>3. log[c] \in Ids /\ log[c] + 1 \in Ids
  BY <1>2, HttpSessionAssumption DEF Ids
<1>4. log' \in [Channels -> Ids]
  BY <1>2, <1>3 DEF Publish
<1>5. PICK id : id = IF action = "hint" THEN Null ELSE log[c] + 1
  OBVIOUS
<1>6. PICK prev : prev = IF action = "hint" THEN Null ELSE log[c]
  OBVIOUS
<1>7. PICK item : item = [channel |-> c, id |-> id, prevId |-> prev, action |-> action]
  OBVIOUS
<1>8. item \in Published /\ id \in Ids \cup {Null}
  <2>1. id \in Ids \cup {Null} /\ prev \in Ids \cup {Null}
    BY <1>3, <1>5, <1>6
  <2>2. item \in Items
    BY <1>7, <2>1 DEF Items
  <2>3. item.action = "hint" => item.prevId = Null
    BY <1>6, <1>7
  <2>4. QED BY <2>1, <2>2, <2>3 DEF Published
<1>9. \/ s' = [s EXCEPT !.lastIds[c] = id] /\ inflight' \in {inflight, Append(inflight, item)}
      \/ s' = s /\ inflight' = inflight
  BY <1>5, <1>6, <1>7 DEF Publish
<1>10. inflight' \in Seq(Published)
  BY <1>2, <1>8, <1>9
<1>11. PICK l : l = [s.lastIds EXCEPT ![c] = id]
  OBVIOUS
<1>12. PICK x : x = [s EXCEPT !.lastIds = l]
  OBVIOUS
<1>13. [s EXCEPT !.lastIds[c] = id] = x
  BY <1>1, <1>11, <1>12 DEF Typed, HasFields
<1>14. l \in [Channels -> Ids \cup {Null}]
  BY <1>1, <1>8, <1>11 DEF Typed
<1>15. Typed(x)
  BY <1>1, <1>12, <1>14 DEF Typed, HasFields
<1>16. /\ SameRun(s, x) /\ x.outReq = s.outReq /\ x.instruct = s.instruct /\ x.nextUri = s.nextUri
       /\ x.prevIds = s.prevIds /\ x.toSend = s.toSend /\ x.timer = s.timer
       /\ x.registered = s.registered /\ x.credit = s.credit
  BY <1>1, <1>12 DEF Typed, HasFields, SameRun
<1>17. SessionInv(x)
  BY <1>1, <1>15, <1>16, TimersStop
<1>18. SessionInv(s')
  BY <1>1, <1>9, <1>13, <1>17
<1>19. QED BY <1>4, <1>10, <1>18 DEF Inv

-----------------------------------------------------------------------------
(* Theorems                                                                *)

\* The invariant is inductive.
LEMMA NextInv == Inv /\ [Next]_vars => Inv'
<1> SUFFICES ASSUME Inv, [Next]_vars PROVE Inv'
  OBVIOUS
<1>1. CASE Start
  BY <1>1, StartInv
<1>2. CASE Deliver
  BY <1>2, DeliverInv
<1>3. CASE ProcessQueue
  BY <1>3, ProcessQueueInv
<1>4. CASE ProcessQueueStop
  BY <1>4, ProcessQueueStopInv
<1>5. CASE FiltersFinished
  BY <1>5, FiltersFinishedInv
<1>6. CASE LimiterUpdate
  BY <1>6, LimiterUpdateInv
<1>7. CASE PollTimeout
  BY <1>7, PollTimeoutInv
<1>8. CASE EngineUpdate
  BY <1>8, EngineUpdateInv
<1>9. CASE TimerTimeout
  BY <1>9, TimerTimeoutInv
<1>10. CASE RetryTimeout
  BY <1>10, RetryTimeoutInv
<1>11. CASE OutReqHeaders
  BY <1>11, OutReqHeadersInv
<1>12. CASE OutReqBody
  BY <1>12, OutReqBodyInv
<1>13. CASE OutReqFails
  BY <1>13, OutReqFailsInv
<1>14. CASE ClientCredit
  BY <1>14, ClientCreditInv
<1>15. CASE ClientDone \/ ClientError \/ ClientPaused
  BY <1>15, ClientEndsInv
<1>16. CASE \E c \in Channels, action \in Actions : Publish(c, action)
  BY <1>16, PublishInv
<1>17. CASE UNCHANGED vars
  BY <1>17 DEF vars, Inv
<1>18. QED
  BY <1>1, <1>2, <1>3, <1>4, <1>5, <1>6, <1>7, <1>8, <1>9, <1>10, <1>11, <1>12, <1>13, <1>14,
     <1>15, <1>16, <1>17 DEF Next

\* The inductive invariant of the session holds whatever is published or lost
\* and however timers, filters, answers and the client interleave.
THEOREM Invariance == Spec => []Inv
<1>1. Init => Inv
  BY InitInv
<1>2. Inv /\ [Next]_vars => Inv'
  BY NextInv
<1>3. QED BY <1>1, <1>2, PTL DEF Spec

\* Types, PUBLISH_QUEUE_MAX and RETRY_MAX are kept for every queue size and every
\* number of retries (publish, outReq_error).
THEOREM TypeCorrect == Spec => []TypeOK
<1>1. Inv => TypeOK
  <2> SUFFICES ASSUME Inv PROVE TypeOK
    OBVIOUS
  <2>1. Typed(s) /\ Len(s.queue) <= QueueMax /\ log \in [Channels -> Ids]
    BY DEF Inv, SessionInv, Sound
  <2>2. s.prevIds \in Partials /\ s.channels \in Partials
    BY <2>1 DEF Typed
  <2>3. DOMAIN s.prevIds \subseteq Channels
    BY <2>2, PartialsElim
  <2>4. DOMAIN s.channels \subseteq Channels /\ s.channels \in [DOMAIN s.channels -> Ids \cup {Null}]
    BY <2>2, PartialsElim
  <2>5. \A n \in DOMAIN s.queue : s.queue[n] \in Items
    BY <2>1 DEF Typed, Published
  <2>6. s.filtering \in Items \cup {None}
    BY <2>1 DEF Typed, Published
  <2>7. QED BY <2>1, <2>3, <2>4, <2>5, <2>6 DEF TypeOK, Typed
<1>2. QED BY <1>1, Invariance, PTL

\* One well formed response, with the items in order, none left out and none
\* twice, for every set of channels and every sequence of instructs, items and
\* failures (processItem, requestNextLink, outReq_readyRead).
THEOREM ResponsesAlwaysInOrder == Spec => []ResponsesInOrder
<1>1. Inv => ResponsesInOrder
  BY DEF Inv, SessionInv, Sound, ResponsesInOrder, ResponseWellFormed, ItemsInOrder
<1>2. QED BY <1>1, Invariance, PTL

\* A waiting session can be woken, and one that is ending has nothing left under
\* way (tryProcessOutReq, processPublishQueue, cancelActivities).
THEOREM WaitsAreAlwaysWoken == Spec => []WaitsAreWoken
<1>1. Inv => WaitIsWoken
  BY DEF Inv, SessionInv, WakeFits, WaitIsWoken
<1>2. Inv => WaitsInAction /\ EndingIsQuiet
  BY DEF Inv, SessionInv, ActionFits, QuietFits, WaitsInAction, EndingIsQuiet, Ending
<1>3. QED BY <1>1, <1>2, Invariance, PTL DEF WaitsAreWoken

\* The engine has the session under exactly its channels, and an assertion fails
\* only for the second of two requests for one next link
\* (prepareToSendQueueOrHold, doFinish, tryProcessOutReq).
THEOREM SubscriptionsAlwaysKept == Spec => []SubscriptionsKept
<1>1. Inv => SubscriptionsMatch
  BY DEF Inv, SessionInv, Sound, Typed, ChannelsFit, SubscriptionsMatch, Live, States
<1>2. Inv => AssertionsHold
  BY DEF Inv, SessionInv, RequestsFit, AssertionsHold
<1>3. QED BY <1>1, <1>2, Invariance, PTL DEF SubscriptionsKept
=============================================================================
