--------------------------- MODULE WsControlProofs ---------------------------
(***************************************************************************)
(* Proofs about WsControl, for any channels, GRIP messages and bounds:     *)
(* the types of the two sessions and of what is between them, that a       *)
(* connection is cancelled only after a loss (CancelOnlyAfterLoss), and    *)
(* that the handler keeps what it has acknowledged (HandlerKeeps).         *)
(***************************************************************************)
EXTENDS WsControl, TLAPS

-----------------------------------------------------------------------------
(* The inductive invariant                                                 *)

\* A session of the handler between two steps: the loop over its queue is
\* entered when it may be, filters run for an item that is queued, and what
\* waits for an answer has a timer.
SessionOK(u) ==
    /\ u.inProcess = LoopContinues(u)
    /\ u.filters => u.publishQueue # <<>>
    /\ u.requestTimer = (u.pendingRequests # {})
    /\ \A r \in u.pendingRequests : r < u.nextReqId

\* The engine has index entries and published items for a session that exists.
HandlerOK ==
    IF s = None THEN index = {} /\ limiter = <<>>
    ELSE index \subseteq s.channels /\ SessionOK(s)

\* Before the proxy's session starts nothing is known of it.
Quiet == toInit = <<>> /\ toHandler = <<>> /\ toProxy = <<>> /\ s = None /\ requests = <<>>

\* What the proxy has for the handler: it waits in the session, then in the
\* queue, and in one of them only.
PipeOf(c, out) == IF c.peer THEN out ELSE c.pendingItems
Linked(c, out) == IF c.peer THEN c.pendingItems = <<>> ELSE out = <<>>
Pipe == PipeOf(p, toHandler)

\* The items that carry a request, and what it is about.
IsRequest(i) == i.type \in {"Subscribe", "Grip"}
About(i) == IF i.type = "Subscribe" THEN Grip("implicit", i.arg) ELSE i.arg

\* Requests that the proxy saw acknowledged, or will unless the item is lost.
Acking(r) == \E n \in DOMAIN toProxy : toProxy[n].type = "Ack" /\ toProxy[n].req = r
Settled(r) == r \notin p.pendingRequests \/ Acking(r)

\* The proxy's requests are numbered from 1, and have the timer they need.
ProxyOK ==
    /\ Linked(p, toHandler)
    /\ p.nextReqId = Len(requests) + 1
    /\ p.pendingRequests \subseteq DOMAIN requests
    /\ p.requestTimer = (p.pendingRequests # {})
    /\ \A n \in DOMAIN toProxy : toProxy[n].type = "Ack" => toProxy[n].req \in 0..Len(requests)

\* An item on its way to the handler: it does not end the session, and if it
\* carries a request that request is not settled yet.
ItemOK(i) ==
    /\ i.type \notin {"Gone", "Cancel"}
    /\ IsRequest(i) =>
         /\ i.req \in DOMAIN requests
         /\ requests[i.req] = About(i)
         /\ \A r \in DOMAIN requests : Settled(r) => r < i.req

\* Requests are delivered in the order of their numbers.
Ordered(q) ==
    \A m, n \in DOMAIN q : m < n /\ IsRequest(q[m]) /\ IsRequest(q[n]) => q[m].req < q[n].req
PipeOK == Ordered(Pipe) /\ \A n \in DOMAIN Pipe : ItemOK(Pipe[n])

\* While the announcement is under way nobody has answered.
FreshOK ==
    toInit # <<>> =>
        /\ Len(toInit) = 1
        /\ ~p.peer /\ toProxy = <<>> /\ s = None /\ p.pendingRequests = DOMAIN requests

\* No request from r on asks to leave a channel.
NotLeft(r, c) == \A n \in r..Len(requests) : requests[n] # Grip("unsubscribe", c)

\* What the handler has to have done for a request.
Done(r) ==
    /\ requests[r].kind = "implicit" =>
         requests[r].channel \in index /\ requests[r].channel \in s.implicitChannels
    /\ requests[r].kind = "subscribe" /\ NotLeft(r, requests[r].channel) =>
         requests[r].channel \in index \/ requests[r].channel \in refused

SettledDone == s # None => \A r \in DOMAIN requests : Settled(r) => Done(r)

\* Nothing lost: there is no reason to cancel, and the handler has the session
\* or is about to.
NoCancel ==
    lost = 0 /\ ~gaveUp =>
      /\ \A n \in DOMAIN toProxy : toProxy[n].type # "Cancel"
      /\ s # None \/ toInit # <<>>

Inv ==
    /\ TypeOK /\ HandlerOK
    /\ p = None => Quiet
    /\ Alive => ProxyOK /\ PipeOK /\ FreshOK /\ SettledDone /\ NoCancel

-----------------------------------------------------------------------------
(* The proxy's operators                                                   *)

\* Items of the proxy that ask for nothing.
PlainItem == {i \in HandlerItem : i.type \in {"NeedKeepAlive", "KeepAlive", "Ack"}}

ProxyRecord == [p : ControlSession, init : Seq(InitItem), out : Seq(HandlerItem)]
GoneRecord == [p : {Gone}, init : Seq(InitItem), out : Seq(HandlerItem)]

\* From x to y at most one item that asks for nothing is written.
Plain(x, y) ==
    /\ y.init = x.init
    /\ y \in ProxyRecord => /\ y.p.nextReqId = x.p.nextReqId /\ y.p.peer = x.p.peer
                            /\ y.p.pendingRequests = x.p.pendingRequests
                            /\ y.p.requestTimer = x.p.requestTimer
                            /\ Linked(y.p, y.out)
                            /\ \/ PipeOf(y.p, y.out) = PipeOf(x.p, x.out)
                               \/ \E i \in PlainItem :
                                     PipeOf(y.p, y.out) = Append(PipeOf(x.p, x.out), i)

LEMMA SeqOps ==
    ASSUME NEW S, NEW q \in Seq(S)
    PROVE  /\ \A e \in S : Append(q, e) \in Seq(S)
           /\ q # <<>> => Head(q) \in S /\ Tail(q) \in Seq(S)
  OBVIOUS

LEMMA SeqConcat ==
    ASSUME NEW S, NEW q \in Seq(S), NEW h \in Seq(S)
    PROVE  q \o h \in Seq(S) /\ q \o <<>> = q /\ <<>> \o q = q /\ <<>> \in Seq(S)
  OBVIOUS

LEMMA ItemTypes ==
    /\ \A t \in {"Gone", "Cancel"} : Item(t, None, None) \in HandlerItem
    /\ Item("Here", 0, None) \in InitItem
    /\ \A r \in Nat, c \in Channels : Item("Subscribe", r, c) \in HandlerItem
    /\ \A r \in Nat, g \in Grips : Item("Grip", r, g) \in HandlerItem
    /\ \A r \in Nat : Item("Ack", r, None) \in PlainItem
    /\ \A t \in {"NeedKeepAlive", "KeepAlive"} : Item(t, None, None) \in PlainItem
  BY DEF Item, HandlerItem, InitItem, PlainItem

LEMMA ProxyFields ==
    ASSUME NEW x \in ProxyRecord
    PROVE  /\ x.p \in ControlSession /\ x.init \in Seq(InitItem) /\ x.out \in Seq(HandlerItem)
           /\ x.p.pendingItems \in Seq(HandlerItem)
           /\ x.p.pendingSendEventWrites \in Seq(Nat \cup {None})
           /\ x.p.queuedInFrames \in Seq(Nat \cup {None})
           /\ x.p.inPendingFrames \in Seq(Nat \cup {None})
           /\ x.p.nextReqId \in Nat /\ x.p.pendingRequests \in SUBSET Nat
<1>1. x.p \in ControlSession /\ x.init \in Seq(InitItem) /\ x.out \in Seq(HandlerItem)
  BY DEF ProxyRecord
<1>2. QED BY <1>1 DEF ControlSession

LEMMA WithSession ==
    ASSUME NEW x \in ProxyRecord, NEW c \in ControlSession, NEW y, y = [x EXCEPT !.p = c]
    PROVE  y \in ProxyRecord /\ y.p = c /\ y.init = x.init /\ y.out = x.out
  BY DEF ProxyRecord

\* write() appends to what the proxy has for the handler, wherever that is.
LEMMA WriteAppends ==
    ASSUME NEW x \in ProxyRecord, Linked(x.p, x.out), NEW i \in HandlerItem
    PROVE  /\ Write(x, i) \in ProxyRecord
           /\ Linked(Write(x, i).p, Write(x, i).out)
           /\ Write(x, i).init = x.init
           /\ PipeOf(Write(x, i).p, Write(x, i).out) = Append(PipeOf(x.p, x.out), i)
           /\ Write(x, i).p.nextReqId = x.p.nextReqId
           /\ Write(x, i).p.peer = x.p.peer
           /\ Write(x, i).p.pendingRequests = x.p.pendingRequests
           /\ Write(x, i).p.requestTimer = x.p.requestTimer
<1>1. CASE x.p.peer
  <2>1. Append(x.out, i) \in Seq(HandlerItem)
    BY ProxyFields
  <2>2. PICK q \in Seq(HandlerItem) : q = Append(x.out, i)
    BY <2>1
  <2>3. Write(x, i) = [x EXCEPT !.out = q]
    BY <1>1, <2>2 DEF Write
  <2>4. /\ Write(x, i) \in ProxyRecord /\ Write(x, i).p = x.p
        /\ Write(x, i).init = x.init /\ Write(x, i).out = q
    BY <2>3 DEF ProxyRecord
  <2>5. QED BY <1>1, <2>2, <2>4 DEF Linked, PipeOf
<1>2. CASE ~x.p.peer
  <2>1. Append(x.p.pendingItems, i) \in Seq(HandlerItem)
    BY ProxyFields
  <2>2. PICK q \in Seq(HandlerItem) : q = Append(x.p.pendingItems, i)
    BY <2>1
  <2>3. PICK c : c = [x.p EXCEPT !.pendingItems = q]
    OBVIOUS
  <2>4. x.p \in ControlSession
    BY ProxyFields
  <2>5. /\ c \in ControlSession /\ c.peer = x.p.peer /\ c.pendingItems = q
        /\ c.nextReqId = x.p.nextReqId /\ c.pendingRequests = x.p.pendingRequests
        /\ c.requestTimer = x.p.requestTimer
    BY <2>3, <2>4 DEF ControlSession
  <2>6. Write(x, i) = [x EXCEPT !.p = c]
    BY <1>2, <2>2, <2>3 DEF Write
  <2>7. /\ Write(x, i) \in ProxyRecord /\ Write(x, i).p = c
        /\ Write(x, i).init = x.init /\ Write(x, i).out = x.out
    BY <2>5, <2>6, WithSession
  <2>8. QED BY <1>2, <2>2, <2>5, <2>7 DEF Linked, PipeOf
<1>3. QED BY <1>1, <1>2

LEMMA WritePlain ==
    ASSUME NEW x \in ProxyRecord, Linked(x.p, x.out), NEW i \in PlainItem
    PROVE  Write(x, i) \in ProxyRecord /\ Plain(x, Write(x, i))
  BY WriteAppends DEF PlainItem, Plain

\* cleanup(): the session is gone, and nothing else is kept of it.
LEMMA EndGone ==
    ASSUME NEW x \in ProxyRecord, Linked(x.p, x.out)
    PROVE  End(x) \in GoneRecord /\ End(x).init = x.init
<1>1. Item("Gone", None, None) \in HandlerItem
  BY ItemTypes
<1>2. PICK y : y = Write(x, Item("Gone", None, None))
  OBVIOUS
<1>3. y \in ProxyRecord /\ y.init = x.init
  BY <1>1, <1>2, WriteAppends
<1>4. End(x) = [y EXCEPT !.p = Gone]
  BY <1>2 DEF End
<1>5. QED BY <1>3, <1>4 DEF ProxyRecord, GoneRecord

\* A step that touches neither the requests nor what is for the handler.
Aside(x, y) ==
    /\ y \in ProxyRecord /\ y.init = x.init /\ y.out = x.out
    /\ y.p.peer = x.p.peer /\ y.p.pendingItems = x.p.pendingItems
    /\ y.p.nextReqId = x.p.nextReqId /\ y.p.pendingRequests = x.p.pendingRequests
    /\ y.p.requestTimer = x.p.requestTimer

LEMMA AsidePlain ==
    ASSUME NEW x \in ProxyRecord, NEW y, Linked(x.p, x.out), Aside(x, y)
    PROVE  /\ Plain(x, y) /\ Linked(y.p, y.out) /\ PipeOf(y.p, y.out) = PipeOf(x.p, x.out)
           /\ \A z : Plain(y, z) => Plain(x, z)
  BY DEF Aside, Plain, Linked, PipeOf

\* The fields that are set aside.
LEMMA AsideSame ==
    ASSUME NEW x \in ProxyRecord, NEW c \in ControlSession,
           c.peer = x.p.peer, c.pendingItems = x.p.pendingItems,
           c.nextReqId = x.p.nextReqId, c.pendingRequests = x.p.pendingRequests,
           c.requestTimer = x.p.requestTimer
    PROVE  Aside(x, [x EXCEPT !.p = c])
  BY WithSession DEF Aside

LEMMA AsideFrames ==
    ASSUME NEW x \in ProxyRecord, NEW q \in Seq(Nat \cup {None})
    PROVE  /\ Aside(x, [x EXCEPT !.p.pendingSendEventWrites = q])
           /\ Aside(x, [x EXCEPT !.p.queuedInFrames = q])
           /\ Aside(x, [x EXCEPT !.p.inPendingFrames = q])
<1>1. x.p \in ControlSession
  BY ProxyFields
<1>2. ASSUME NEW c, \/ c = [x.p EXCEPT !.pendingSendEventWrites = q]
                    \/ c = [x.p EXCEPT !.queuedInFrames = q]
                    \/ c = [x.p EXCEPT !.inPendingFrames = q]
      PROVE  Aside(x, [x EXCEPT !.p = c])
  <2>1. /\ c \in ControlSession /\ c.peer = x.p.peer /\ c.pendingItems = x.p.pendingItems
        /\ c.nextReqId = x.p.nextReqId /\ c.pendingRequests = x.p.pendingRequests
        /\ c.requestTimer = x.p.requestTimer
    BY <1>1, <1>2 DEF ControlSession
  <2>2. QED BY <2>1, AsideSame
<1>3. QED BY <1>2

LEMMA AsideFlags ==
    ASSUME NEW x \in ProxyRecord, NEW b \in BOOLEAN
    PROVE  /\ Aside(x, [x EXCEPT !.p.outReadInProgress = b])
           /\ Aside(x, [x EXCEPT !.p.connected = b])
           /\ Aside(x, [x EXCEPT !.p.detached = b])
           /\ Aside(x, [x EXCEPT !.p.keepAlive = b])
<1>1. x.p \in ControlSession
  BY ProxyFields
<1>2. ASSUME NEW c, \/ c = [x.p EXCEPT !.outReadInProgress = b]
                    \/ c = [x.p EXCEPT !.connected = b]
                    \/ c = [x.p EXCEPT !.detached = b]
                    \/ c = [x.p EXCEPT !.keepAlive = b]
      PROVE  Aside(x, [x EXCEPT !.p = c])
  <2>1. /\ c \in ControlSession /\ c.peer = x.p.peer /\ c.pendingItems = x.p.pendingItems
        /\ c.nextReqId = x.p.nextReqId /\ c.pendingRequests = x.p.pendingRequests
        /\ c.requestTimer = x.p.requestTimer
    BY <1>1, <1>2 DEF ControlSession
  <2>2. QED BY <2>1, AsideSame
<1>3. QED BY <1>2

LEMMA SendEventWrittenPlain ==
    ASSUME NEW x \in ProxyRecord, Linked(x.p, x.out)
    PROVE  /\ SendEventWritten(x) \in ProxyRecord \cup GoneRecord
           /\ Plain(x, SendEventWritten(x))
<1>0. Gone \notin ControlSession
  BY WsControlAssumption
<1>1. CASE x.p.pendingSendEventWrites = <<>>
  <2>1. SendEventWritten(x) = [x EXCEPT !.p = Gone]
    BY <1>1 DEF SendEventWritten
  <2>2. SendEventWritten(x) \in GoneRecord /\ SendEventWritten(x).init = x.init
    BY <2>1 DEF ProxyRecord, GoneRecord
  <2>3. SendEventWritten(x) \notin ProxyRecord
    BY <1>0, <2>2 DEF ProxyRecord, GoneRecord
  <2>4. QED BY <2>2, <2>3 DEF Plain
<1>2. CASE x.p.pendingSendEventWrites # <<>>
  <2>0. x.p.pendingSendEventWrites \in Seq(Nat \cup {None})
    BY ProxyFields
  <2>1. PICK r \in Nat \cup {None} : r = Head(x.p.pendingSendEventWrites)
    BY <1>2, <2>0, SeqOps
  <2>2. PICK q \in Seq(Nat \cup {None}) : q = Tail(x.p.pendingSendEventWrites)
    BY <1>2, <2>0, SeqOps
  <2>3. PICK y : y = [x EXCEPT !.p.pendingSendEventWrites = q]
    OBVIOUS
  <2>4. Aside(x, y)
    BY <2>3, AsideFrames
  <2>5. y \in ProxyRecord /\ Linked(y.p, y.out) /\ Plain(x, y) /\ \A z : Plain(y, z) => Plain(x, z)
    BY <2>4, AsidePlain DEF Aside
  <2>6. SendEventWritten(x) = IF r # None THEN Write(y, Item("Ack", r, None)) ELSE y
    BY <1>2, <2>1, <2>2, <2>3 DEF SendEventWritten
  <2>7. CASE r # None
    <3>1. Item("Ack", r, None) \in PlainItem
      BY <2>7, ItemTypes
    <3>2. QED BY <2>5, <2>6, <2>7, <3>1, WritePlain
  <2>8. CASE r = None
    BY <2>5, <2>6, <2>8
  <2>9. QED BY <2>7, <2>8
<1>3. QED BY <1>1, <1>2

LEMMA SendEventPlain ==
    ASSUME NEW x \in ProxyRecord, Linked(x.p, x.out), NEW i \in ProxyItem,
           i.type = "Send", NEW blocked \in BOOLEAN
    PROVE  /\ SendEvent(x, i, blocked) \in ProxyRecord \cup GoneRecord
           /\ Plain(x, SendEvent(x, i, blocked))
<1>1. i.req \in Nat \cup {None}
  BY DEF ProxyItem
<1>2. PICK q \in Seq(Nat \cup {None}) : q = Append(x.p.pendingSendEventWrites, i.req)
  <2>1. x.p.pendingSendEventWrites \in Seq(Nat \cup {None})
    BY ProxyFields
  <2>2. QED BY <1>1, <2>1, SeqOps
<1>3. PICK y : y = [x EXCEPT !.p.pendingSendEventWrites = q]
  OBVIOUS
<1>4. Aside(x, y)
  BY <1>3, AsideFrames
<1>5. y \in ProxyRecord /\ Linked(y.p, y.out) /\ \A z : Plain(y, z) => Plain(x, z)
  BY <1>4, AsidePlain DEF Aside
<1>6. SendEventWritten(y) \in ProxyRecord \cup GoneRecord /\ Plain(x, SendEventWritten(y))
  BY <1>5, SendEventWrittenPlain
<1>7. PICK f \in Seq(Nat \cup {None}), h \in Seq(Nat \cup {None}) :
        f = Append(y.p.queuedInFrames, i.req) /\ h = Append(y.p.inPendingFrames, i.req)
  <2>1. /\ y.p.queuedInFrames \in Seq(Nat \cup {None})
        /\ y.p.inPendingFrames \in Seq(Nat \cup {None})
    BY <1>5, ProxyFields
  <2>2. QED BY <1>1, <2>1, SeqOps
<1>8. \/ SendEvent(x, i, blocked) = SendEventWritten(y)
      \/ SendEvent(x, i, blocked) = [y EXCEPT !.p.queuedInFrames = f]
      \/ SendEvent(x, i, blocked) = [y EXCEPT !.p.inPendingFrames = h]
  BY <1>2, <1>3, <1>7 DEF SendEvent
<1>9. \A z : Aside(y, z) => z \in ProxyRecord /\ Plain(x, z)
  BY <1>5, AsidePlain DEF Aside
<1>10. Aside(y, [y EXCEPT !.p.queuedInFrames = f]) /\ Aside(y, [y EXCEPT !.p.inPendingFrames = h])
  BY <1>5, AsideFrames
<1>11. QED BY <1>6, <1>8, <1>9, <1>10

\* The handler that sends an item has the session, and is sent what waited.
LEMMA FlushKeeps ==
    ASSUME NEW x \in ProxyRecord, Linked(x.p, x.out), NEW y,
           y = FlushPending([x EXCEPT !.p.peer = TRUE])
    PROVE  /\ y \in ProxyRecord /\ y.p.peer /\ Linked(y.p, y.out) /\ y.init = x.init
           /\ PipeOf(y.p, y.out) = PipeOf(x.p, x.out)
           /\ y.p.nextReqId = x.p.nextReqId /\ y.p.pendingRequests = x.p.pendingRequests
           /\ y.p.requestTimer = x.p.requestTimer
<1>1. x.p \in ControlSession /\ x.out \in Seq(HandlerItem) /\ x.p.pendingItems \in Seq(HandlerItem)
  BY ProxyFields
<1>2. PICK c : c = [x.p EXCEPT !.peer = TRUE]
  OBVIOUS
<1>3. /\ c \in ControlSession /\ c.peer /\ c.pendingItems = x.p.pendingItems
      /\ c.nextReqId = x.p.nextReqId /\ c.pendingRequests = x.p.pendingRequests
      /\ c.requestTimer = x.p.requestTimer
  BY <1>1, <1>2 DEF ControlSession
<1>4. PICK z : z = [x EXCEPT !.p.peer = TRUE]
  OBVIOUS
<1>5. z \in ProxyRecord /\ z.p = c /\ z.init = x.init /\ z.out = x.out
  <2>1. z = [x EXCEPT !.p = c]
    BY <1>2, <1>4
  <2>2. QED BY <1>3, <2>1, WithSession
<1>6. PICK d : d = [c EXCEPT !.pendingItems = <<>>]
  OBVIOUS
<1>7. /\ d \in ControlSession /\ d.peer /\ d.pendingItems = <<>>
      /\ d.nextReqId = x.p.nextReqId /\ d.pendingRequests = x.p.pendingRequests
      /\ d.requestTimer = x.p.requestTimer
  <2>0. <<>> \in Seq(HandlerItem)
    OBVIOUS
  <2>1. PICK e \in Seq(HandlerItem) : e = <<>>
    BY <2>0
  <2>2. d = [c EXCEPT !.pendingItems = e]
    BY <1>6, <2>1
  <2>3. /\ d \in ControlSession /\ d.peer /\ d.pendingItems = e
        /\ d.nextReqId = c.nextReqId /\ d.pendingRequests = c.pendingRequests
        /\ d.requestTimer = c.requestTimer
    BY <1>3, <2>2 DEF ControlSession
  <2>4. QED BY <1>3, <2>1, <2>3
<1>8. PICK q \in Seq(HandlerItem) : q = x.out \o x.p.pendingItems
  BY <1>1, SeqConcat
<1>9. y = [[z EXCEPT !.out = q] EXCEPT !.p = d]
  <2>1. y = [z EXCEPT !.out = z.out \o z.p.pendingItems, !.p.pendingItems = <<>>]
    BY <1>4 DEF FlushPending
  <2>2. z.out \o z.p.pendingItems = q
    BY <1>3, <1>5, <1>8
  <2>3. y = [[z EXCEPT !.out = q] EXCEPT !.p.pendingItems = <<>>]
    BY <2>1, <2>2
  <2>4. [z EXCEPT !.out = q].p = c
    BY <1>5 DEF ProxyRecord
  <2>5. QED BY <1>6, <2>3, <2>4
<1>10. y \in ProxyRecord /\ y.p = d /\ y.init = x.init /\ y.out = q
  BY <1>5, <1>7, <1>9 DEF ProxyRecord
<1>11. q = PipeOf(x.p, x.out)
  <2>1. CASE x.p.peer
    BY <1>1, <1>8, <2>1, SeqConcat DEF Linked, PipeOf
  <2>2. CASE ~x.p.peer
    BY <1>1, <1>8, <2>2, SeqConcat DEF Linked, PipeOf
  <2>3. QED BY <2>1, <2>2
<1>12. QED BY <1>7, <1>10, <1>11 DEF Linked, PipeOf

\* What an item of the handler does to the proxy's session.
TimerOK(c) == c.requestTimer = (c.pendingRequests # {})
Answered(x, i, y) ==
    /\ y.init = x.init
    /\ y \in ProxyRecord =>
         /\ y.p.nextReqId = x.p.nextReqId /\ TimerOK(y.p) /\ Linked(y.p, y.out)
         /\ \/ y.p.pendingRequests = x.p.pendingRequests
            \/ i.type = "Ack" /\ y.p.pendingRequests = x.p.pendingRequests \ {i.req}
         /\ \/ PipeOf(y.p, y.out) = PipeOf(x.p, x.out)
            \/ \E j \in PlainItem : PipeOf(y.p, y.out) = Append(PipeOf(x.p, x.out), j)

LEMMA HandleEventAnswers ==
    ASSUME NEW x \in ProxyRecord, Linked(x.p, x.out), TimerOK(x.p), NEW i \in ProxyItem,
           NEW blocked \in BOOLEAN
    PROVE  /\ HandleEvent(x, i, blocked) \in ProxyRecord \cup GoneRecord
           /\ Answered(x, i, HandleEvent(x, i, blocked))
<1>1. PICK y : y = FlushPending([x EXCEPT !.p.peer = TRUE])
  OBVIOUS
<1>2. /\ y \in ProxyRecord /\ y.p.peer /\ Linked(y.p, y.out) /\ y.init = x.init
      /\ PipeOf(y.p, y.out) = PipeOf(x.p, x.out)
      /\ y.p.nextReqId = x.p.nextReqId /\ y.p.pendingRequests = x.p.pendingRequests
      /\ y.p.requestTimer = x.p.requestTimer
  BY <1>1, FlushKeeps
<1>3. \A z : Plain(y, z) => Answered(x, i, z)
  BY <1>2 DEF Plain, Answered, TimerOK
<1>4. \A z : Aside(y, z) => z \in ProxyRecord /\ Answered(x, i, z)
  BY <1>2, <1>3, AsidePlain DEF Aside
<1>5. CASE i.type = "Send"
  <2>1. HandleEvent(x, i, blocked) = SendEvent(y, i, blocked)
    BY <1>1, <1>5 DEF HandleEvent
  <2>2. QED BY <1>2, <1>3, <1>5, <2>1, SendEventPlain
<1>6. CASE i.type = "KeepAliveSetup"
  <2>1. HandleEvent(x, i, blocked) = [y EXCEPT !.p.keepAlive = i.arg]
    BY <1>1, <1>6 DEF HandleEvent
  <2>2. i.arg \in BOOLEAN
    BY <1>6 DEF ProxyItem
  <2>3. QED BY <1>2, <1>4, <2>1, <2>2, AsideFlags
<1>7. CASE i.type = "Close"
  <2>1. HandleEvent(x, i, blocked) = [y EXCEPT !.p.connected = FALSE]
    BY <1>1, <1>7 DEF HandleEvent
  <2>2. QED BY <1>2, <1>4, <2>1, AsideFlags
<1>8. CASE i.type = "Detach"
  <2>1. HandleEvent(x, i, blocked) = [y EXCEPT !.p.detached = TRUE]
    BY <1>1, <1>8 DEF HandleEvent
  <2>2. QED BY <1>2, <1>4, <2>1, AsideFlags
<1>9. CASE i.type = "Cancel"
  <2>1. HandleEvent(x, i, blocked) = End(y)
    BY <1>1, <1>9 DEF HandleEvent
  <2>2. End(y) \in GoneRecord /\ End(y).init = x.init
    BY <1>2, EndGone
  <2>3. End(y) \notin ProxyRecord
    BY <2>2, WsControlAssumption DEF ProxyRecord, GoneRecord
  <2>4. QED BY <2>1, <2>2, <2>3 DEF Answered
<1>10. CASE i.type = "Ack" /\ i.req \in y.p.pendingRequests
  <2>1. PICK w : w = y.p.pendingRequests \ {i.req}
    OBVIOUS
  <2>2. y.p \in ControlSession /\ w \in SUBSET Nat
    BY <1>2, <2>1, ProxyFields
  <2>3. PICK c : c = [[y.p EXCEPT !.pendingRequests = w] EXCEPT !.requestTimer = w # {}]
    OBVIOUS
  <2>4. /\ c \in ControlSession /\ c.peer = y.p.peer /\ c.pendingItems = y.p.pendingItems
        /\ c.nextReqId = y.p.nextReqId /\ c.pendingRequests = w /\ c.requestTimer = (w # {})
    BY <2>2, <2>3 DEF ControlSession
  <2>5. SetupControlTimer([y.p EXCEPT !.pendingRequests = w]) = c
    BY <2>2, <2>3 DEF SetupControlTimer, ControlSession
  <2>6. HandleEvent(x, i, blocked) = [y EXCEPT !.p = c]
    <3>1. HandleEvent(x, i, blocked) =
            [y EXCEPT !.p = SetupControlTimer([y.p EXCEPT !.pendingRequests = y.p.pendingRequests \ {i.req}])]
      <4>1. i.type = "Ack" /\ i.req \in FlushPending([x EXCEPT !.p.peer = TRUE]).p.pendingRequests
        BY <1>1, <1>10
      <4>2. QED BY <1>1, <4>1 DEF HandleEvent
    <3>2. QED BY <2>1, <2>5, <3>1
  <2>7. PICK z : z = [y EXCEPT !.p = c]
    OBVIOUS
  <2>8. z \in ProxyRecord /\ z.p = c /\ z.init = y.init /\ z.out = y.out
    BY <1>2, <2>4, <2>7, WithSession
  <2>9. Linked(z.p, z.out) /\ PipeOf(z.p, z.out) = PipeOf(x.p, x.out)
    BY <1>2, <2>4, <2>8 DEF Linked, PipeOf
  <2>10. QED BY <1>2, <1>10, <2>1, <2>4, <2>6, <2>7, <2>8, <2>9 DEF Answered, TimerOK
<1>11. CASE /\ i.type \notin {"Send", "KeepAliveSetup", "Close", "Detach", "Cancel"}
            /\ ~(i.type = "Ack" /\ i.req \in y.p.pendingRequests)
  <2>1. HandleEvent(x, i, blocked) = y
    BY <1>1, <1>11 DEF HandleEvent
  <2>2. Aside(y, y)
    BY <1>2 DEF Aside
  <2>3. QED BY <1>4, <2>1, <2>2
<1>12. QED BY <1>5, <1>6, <1>7, <1>8, <1>9, <1>10, <1>11

\* sendGripMessage(): the request gets the next number and is written.
LEMMA RequestWrites ==
    ASSUME NEW x \in ProxyRecord, Linked(x.p, x.out), NEW g \in Grips, NEW y,
           y = Request(x, "Grip", g)
    PROVE  /\ y \in ProxyRecord /\ Linked(y.p, y.out) /\ y.init = x.init
           /\ TimerOK(y.p) /\ y.p.peer = x.p.peer
           /\ y.p.nextReqId = x.p.nextReqId + 1
           /\ y.p.pendingRequests = x.p.pendingRequests \cup {x.p.nextReqId}
           /\ PipeOf(y.p, y.out) =
                Append(PipeOf(x.p, x.out), Item("Grip", x.p.nextReqId, g))
<1>1. x.p \in ControlSession /\ x.p.nextReqId \in Nat /\ x.p.pendingRequests \in SUBSET Nat
  BY ProxyFields
<1>2. PICK r \in Nat : r = x.p.nextReqId
  BY <1>1
<1>3. PICK w \in SUBSET Nat : w = x.p.pendingRequests \cup {r}
  BY <1>1
<1>4. PICK i \in HandlerItem : i = Item("Grip", r, g) /\ i.req = r
  BY ItemTypes DEF Item
<1>5. PICK c : c = [[[x.p EXCEPT !.nextReqId = r + 1] EXCEPT !.pendingRequests = w]
                      EXCEPT !.requestTimer = w # {}]
  OBVIOUS
<1>6. /\ c \in ControlSession /\ c.peer = x.p.peer /\ c.pendingItems = x.p.pendingItems
      /\ c.nextReqId = r + 1 /\ c.pendingRequests = w /\ c.requestTimer = (w # {})
  <2>0. r + 1 \in Nat /\ (w # {}) \in BOOLEAN
    OBVIOUS
  <2>1. PICK n \in Nat : n = r + 1
    BY <2>0
  <2>b. PICK b \in BOOLEAN : b = (w # {})
    BY <2>0
  <2>2. c = [[[x.p EXCEPT !.nextReqId = n] EXCEPT !.pendingRequests = w] EXCEPT !.requestTimer = b]
    BY <1>5, <2>1, <2>b
  <2>3. /\ c \in ControlSession /\ c.peer = x.p.peer /\ c.pendingItems = x.p.pendingItems
        /\ c.nextReqId = n /\ c.pendingRequests = w /\ c.requestTimer = b
    BY <1>1, <2>2 DEF ControlSession
  <2>4. QED BY <2>1, <2>b, <2>3
<1>7. c = SetupControlTimer([x.p EXCEPT !.nextReqId = @ + 1, !.pendingRequests = @ \cup {i.req}])
  BY <1>1, <1>2, <1>3, <1>4, <1>5 DEF SetupControlTimer, ControlSession
<1>8. PICK z : z = [x EXCEPT !.p = c]
  OBVIOUS
<1>9. z \in ProxyRecord /\ z.p = c /\ z.init = x.init /\ z.out = x.out
  BY <1>6, <1>8, WithSession
<1>10. y = Write(z, i)
  BY <1>2, <1>4, <1>7, <1>8 DEF Request
<1>11. Linked(z.p, z.out) /\ PipeOf(z.p, z.out) = PipeOf(x.p, x.out)
  BY <1>6, <1>9 DEF Linked, PipeOf
<1>12. /\ y \in ProxyRecord /\ Linked(y.p, y.out) /\ y.init = z.init
       /\ PipeOf(y.p, y.out) = Append(PipeOf(z.p, z.out), i)
       /\ y.p.nextReqId = z.p.nextReqId /\ y.p.peer = z.p.peer
       /\ y.p.pendingRequests = z.p.pendingRequests /\ y.p.requestTimer = z.p.requestTimer
  <2>1. z \in ProxyRecord /\ Linked(z.p, z.out)
    BY <1>9, <1>11
  <2>2. QED BY <1>10, <2>1, WriteAppends, SMTT(30)
<1>13. /\ y.p.peer = x.p.peer /\ y.p.nextReqId = r + 1 /\ y.p.pendingRequests = w
       /\ y.p.requestTimer = (w # {})
  BY <1>6, <1>9, <1>12, Zenon
<1>14. TimerOK(y.p)
  BY <1>13, Zenon DEF TimerOK
<1>15. PipeOf(y.p, y.out) = Append(PipeOf(x.p, x.out), Item("Grip", r, g)) /\ y.init = x.init
  BY <1>4, <1>9, <1>11, <1>12, Zenon
<1>16. QED BY <1>2, <1>3, <1>12, <1>13, <1>14, <1>15, Zenon

LEMMA WriteQueuedAside ==
    ASSUME NEW x \in ProxyRecord
    PROVE  Aside(x, WriteQueued(x))
<1>1. x.p.inPendingFrames \in Seq(Nat \cup {None}) /\ x.p.queuedInFrames \in Seq(Nat \cup {None})
  BY ProxyFields
<1>2. PICK q \in Seq(Nat \cup {None}) : q = x.p.inPendingFrames \o x.p.queuedInFrames
  BY <1>1, SeqConcat
<1>3. CASE x.p.outReadInProgress
  BY <1>3 DEF WriteQueued, Aside
<1>4. CASE ~x.p.outReadInProgress
  <2>1. WriteQueued(x) = [x EXCEPT !.p.inPendingFrames = q]
    BY <1>2, <1>4 DEF WriteQueued
  <2>2. QED BY <2>1, AsideFrames
<1>5. QED BY <1>3, <1>4

-----------------------------------------------------------------------------
(* The handler's operators                                                 *)

HandlerRecord == [s : HandlerSession, index : SUBSET Channels, out : Seq(ProxyItem)]

\* A session, except that the loop over its queue may be yet to be entered.
SessionBase(u) ==
    /\ u.filters => u.publishQueue # <<>>
    /\ u.requestTimer = (u.pendingRequests # {})
    /\ \A r \in u.pendingRequests : r < u.nextReqId

\* Items that neither acknowledge nor cancel anything, and acknowledgements of
\* the requests in R.
Says(j, R) == j \in ProxyItem /\ (j.type \notin {"Ack", "Cancel"} \/ (j.type = "Ack" /\ j.req \in R))

\* To what was sent only such items are added.
Emits(o, q, R) ==
    /\ q \in Seq(ProxyItem)
    /\ \A n \in DOMAIN q : (\E m \in DOMAIN o : q[n] = o[m]) \/ Says(q[n], R)

LEMMA EmitsAppend ==
    ASSUME NEW o \in Seq(ProxyItem), NEW R
    PROVE  /\ Emits(o, o, R)
           /\ \A q, j : Emits(o, q, R) /\ Says(j, R) => Emits(o, Append(q, j), R)
<1>1. Emits(o, o, R)
  BY DEF Emits
<1>2. ASSUME NEW q, NEW j, Emits(o, q, R), Says(j, R)
      PROVE  Emits(o, Append(q, j), R)
  <2>1. q \in Seq(ProxyItem) /\ j \in ProxyItem
    BY <1>2 DEF Emits, Says
  <2>2. /\ Append(q, j) \in Seq(ProxyItem)
        /\ \A n \in DOMAIN Append(q, j) : (n \in DOMAIN q /\ Append(q, j)[n] = q[n]) \/ Append(q, j)[n] = j
    BY <2>1
  <2>3. QED BY <1>2, <2>2 DEF Emits
<1>3. QED BY <1>1, <1>2

LEMMA EmitsMore ==
    ASSUME NEW o, NEW q, NEW R, Emits(o, q, {})
    PROVE  Emits(o, q, R)
  BY DEF Emits, Says

\* From x to y the subscriptions stay, and what is said answers no request.
Keeps(x, y) ==
    /\ y \in HandlerRecord /\ SessionBase(y.s)
    /\ y.index = x.index /\ x.s.channels \subseteq y.s.channels
    /\ y.s.implicitChannels = x.s.implicitChannels
    /\ Emits(x.out, y.out, {})

LEMMA HandlerFields ==
    ASSUME NEW x \in HandlerRecord
    PROVE  /\ x.s \in HandlerSession /\ x.index \subseteq Channels /\ x.out \in Seq(ProxyItem)
           /\ x.s.channels \subseteq Channels /\ x.s.implicitChannels \subseteq Channels
           /\ x.s.nextReqId \in Nat /\ x.s.pendingRequests \subseteq Nat
           /\ x.s.publishQueue \in Seq(PublishedItem)
<1>1. x.s \in HandlerSession /\ x.index \subseteq Channels /\ x.out \in Seq(ProxyItem)
  BY DEF HandlerRecord
<1>2. QED BY <1>1 DEF HandlerSession

LEMMA WithHandlerSession ==
    ASSUME NEW x \in HandlerRecord, NEW u \in HandlerSession, NEW y, y = [x EXCEPT !.s = u]
    PROVE  y \in HandlerRecord /\ y.s = u /\ y.index = x.index /\ y.out = x.out
  BY DEF HandlerRecord

LEMMA SendEmits ==
    ASSUME NEW x \in HandlerRecord, NEW j, Says(j, {}), NEW y, y = Send(x, j)
    PROVE  y \in HandlerRecord /\ y.s = x.s /\ y.index = x.index /\ Emits(x.out, y.out, {})
<1>1. x.out \in Seq(ProxyItem) /\ j \in ProxyItem
  BY HandlerFields DEF Says
<1>2. PICK q \in Seq(ProxyItem) : q = Append(x.out, j)
  BY <1>1, SeqOps
<1>3. y = [x EXCEPT !.out = q]
  BY <1>2 DEF Send
<1>4. y \in HandlerRecord /\ y.s = x.s /\ y.index = x.index /\ y.out = q
  BY <1>3 DEF HandlerRecord
<1>5. Emits(x.out, q, {})
  BY <1>1, <1>2, EmitsAppend
<1>6. QED BY <1>4, <1>5

LEMMA SaysItems ==
    /\ \A r \in Nat \cup {None}, a \in {"queue", "drop"} : Says(Item("Send", r, a), {})
    /\ \A t \in {"Close", "Refresh", "Detach"} : Says(Item(t, None, None), {})
    /\ \A b \in BOOLEAN : Says(Item("KeepAliveSetup", None, b), {})
    /\ \A r \in Nat : Says(Item("Ack", r, None), {r})
  BY DEF Says, Item, ProxyItem

\* A delayed message is sent, and an answer awaited.
LEMMA DelayedTimeoutKeeps ==
    ASSUME NEW x \in HandlerRecord, SessionBase(x.s), NEW y, y = DelayedTimeout(x)
    PROVE  /\ Keeps(x, y)
           /\ y.s.inProcess = x.s.inProcess /\ LoopContinues(y.s) = LoopContinues(x.s)
<1>1. /\ x.s \in HandlerSession /\ x.s.nextReqId \in Nat /\ x.s.pendingRequests \subseteq Nat
      /\ x.out \in Seq(ProxyItem)
  BY HandlerFields
<1>2. PICK r \in Nat : r = x.s.nextReqId
  BY <1>1
<1>3. PICK n \in Nat : n = r + 1
  OBVIOUS
<1>4. PICK w \in SUBSET Nat : w = x.s.pendingRequests \cup {r}
  BY <1>1
<1>5. w # {} /\ \A k \in w : k < n
  <2>1. \A k \in x.s.pendingRequests : k \in Nat /\ k < r
    BY <1>1, <1>2 DEF SessionBase
  <2>2. QED BY <1>3, <1>4, <2>1
<1>6. PICK u : u = [[[[x.s EXCEPT !.nextReqId = n] EXCEPT !.pendingRequests = w]
                        EXCEPT !.delayedTimer = FALSE] EXCEPT !.requestTimer = TRUE]
  OBVIOUS
<1>7. /\ u \in HandlerSession /\ u.channels = x.s.channels
      /\ u.implicitChannels = x.s.implicitChannels /\ u.nextReqId = n
      /\ u.pendingRequests = w /\ u.requestTimer = TRUE
      /\ u.publishQueue = x.s.publishQueue /\ u.filters = x.s.filters
      /\ u.inProcess = x.s.inProcess /\ u.closed = x.s.closed
  BY <1>1, <1>6 DEF HandlerSession
<1>8. y = Send([x EXCEPT !.s = u], Item("Send", r, "queue"))
  <2>1. PICK v : v = [x.s EXCEPT !.nextReqId = r + 1, !.pendingRequests = @ \cup {r},
                                 !.delayedTimer = FALSE]
    OBVIOUS
  <2>2. v = [[[x.s EXCEPT !.nextReqId = n] EXCEPT !.pendingRequests = w] EXCEPT !.delayedTimer = FALSE]
    BY <1>1, <1>3, <1>4, <2>1 DEF HandlerSession
  <2>3. v.pendingRequests = w
    BY <1>1, <2>2 DEF HandlerSession
  <2>4. SetupRequestTimer(v) = u
    <3>1. (v.pendingRequests # {}) = TRUE
      BY <1>5, <2>3
    <3>2. SetupRequestTimer(v) = [v EXCEPT !.requestTimer = TRUE]
      BY <3>1 DEF SetupRequestTimer
    <3>3. QED BY <1>6, <2>2, <3>2
  <2>5. QED BY <1>2, <2>1, <2>4 DEF DelayedTimeout
<1>9. PICK z : z = [x EXCEPT !.s = u]
  OBVIOUS
<1>10. z \in HandlerRecord /\ z.s = u /\ z.index = x.index /\ z.out = x.out
  BY <1>7, <1>9, WithHandlerSession
<1>11. y \in HandlerRecord /\ y.s = u /\ y.index = x.index /\ Emits(x.out, y.out, {})
  <2>1. Says(Item("Send", r, "queue"), {})
    BY SaysItems
  <2>2. y = Send(z, Item("Send", r, "queue"))
    BY <1>8, <1>9
  <2>3. QED BY <1>10, <2>1, <2>2, SendEmits
<1>12. SessionBase(u)
  BY <1>5, <1>7 DEF SessionBase
<1>13. QED BY <1>7, <1>11, <1>12 DEF Keeps, LoopContinues

LEMMA KeepsSame ==
    ASSUME NEW x \in HandlerRecord, SessionBase(x.s)
    PROVE  Keeps(x, x)
  BY HandlerFields, EmitsAppend DEF Keeps

LEMMA FlushDelayedKeeps ==
    ASSUME NEW x \in HandlerRecord, SessionBase(x.s), NEW y, y = FlushDelayed(x)
    PROVE  /\ Keeps(x, y)
           /\ y.s.inProcess = x.s.inProcess /\ LoopContinues(y.s) = LoopContinues(x.s)
<1>1. y = DelayedTimeout(x) \/ y = x
  BY DEF FlushDelayed
<1>2. QED BY <1>1, DelayedTimeoutKeeps, KeepsSame

\* A session that differs in fields that nothing is said about.
SameSession(u, v) ==
    /\ v \in HandlerSession /\ v.channels = u.channels
    /\ v.implicitChannels = u.implicitChannels /\ v.nextReqId = u.nextReqId
    /\ v.pendingRequests = u.pendingRequests /\ v.requestTimer = u.requestTimer
    /\ v.publishQueue = u.publishQueue /\ v.filters = u.filters
    /\ v.inProcess = u.inProcess

LEMMA SameSessionFields ==
    ASSUME NEW u \in HandlerSession, NEW b \in BOOLEAN
    PROVE  /\ SameSession(u, [u EXCEPT !.delayedTimer = b])
           /\ SameSession(u, [u EXCEPT !.keepAliveMessage = b])
           /\ SameSession(u, [u EXCEPT !.closed = b])
           /\ [u EXCEPT !.delayedTimer = b].closed = u.closed
           /\ [u EXCEPT !.keepAliveMessage = b].closed = u.closed
           /\ [u EXCEPT !.closed = b].closed = b
<1>1. SameSession(u, [u EXCEPT !.delayedTimer = b]) /\ [u EXCEPT !.delayedTimer = b].closed = u.closed
  BY DEF SameSession, HandlerSession
<1>2. /\ SameSession(u, [u EXCEPT !.keepAliveMessage = b])
      /\ [u EXCEPT !.keepAliveMessage = b].closed = u.closed
  BY DEF SameSession, HandlerSession
<1>3. SameSession(u, [u EXCEPT !.closed = b]) /\ [u EXCEPT !.closed = b].closed = b
  BY DEF SameSession, HandlerSession
<1>4. QED BY <1>1, <1>2, <1>3

LEMMA SameSessionKeeps ==
    ASSUME NEW x \in HandlerRecord, SessionBase(x.s), NEW u, SameSession(x.s, u),
           NEW y, y = [x EXCEPT !.s = u]
    PROVE  Keeps(x, y) /\ y.s = u /\ y.out = x.out
<1>1. y \in HandlerRecord /\ y.s = u /\ y.index = x.index /\ y.out = x.out
  BY WithHandlerSession DEF SameSession
<1>2. Emits(x.out, x.out, {})
  BY HandlerFields, EmitsAppend
<1>3. SessionBase(u)
  BY DEF SameSession, SessionBase
<1>4. QED BY <1>1, <1>2, <1>3 DEF Keeps, SameSession

LEMMA SendDelayedKeeps ==
    ASSUME NEW x \in HandlerRecord, SessionBase(x.s), NEW y, y = SendDelayed(x)
    PROVE  /\ Keeps(x, y)
           /\ y.s.inProcess = x.s.inProcess /\ LoopContinues(y.s) = LoopContinues(x.s)
<1>1. PICK z : z = FlushDelayed(x)
  OBVIOUS
<1>2. /\ Keeps(x, z)
      /\ z.s.inProcess = x.s.inProcess /\ LoopContinues(z.s) = LoopContinues(x.s)
  BY <1>1, FlushDelayedKeeps
<1>3. PICK u : u = [z.s EXCEPT !.delayedTimer = TRUE]
  OBVIOUS
<1>4. SameSession(z.s, u) /\ u.closed = z.s.closed
  BY <1>2, <1>3, HandlerFields, SameSessionFields DEF Keeps
<1>5. y = [z EXCEPT !.s = u]
  BY <1>1, <1>3 DEF SendDelayed
<1>6. Keeps(z, y) /\ y.s = u /\ y.out = z.out
  BY <1>2, <1>4, <1>5, SameSessionKeeps DEF Keeps
<1>7. QED BY <1>2, <1>4, <1>6 DEF Keeps, SameSession, LoopContinues

LEMMA CloseKeeps ==
    ASSUME NEW x \in HandlerRecord, SessionBase(x.s), NEW y, y = SendCloseError(x)
    PROVE  /\ Keeps(x, y)
           /\ y.s.inProcess = x.s.inProcess /\ y.s.publishQueue = x.s.publishQueue
           /\ y.s.filters = x.s.filters /\ y.s.closed
<1>1. PICK u : u = [x.s EXCEPT !.closed = TRUE]
  OBVIOUS
<1>2. SameSession(x.s, u) /\ u.closed
  BY <1>1, HandlerFields, SameSessionFields
<1>3. PICK z : z = [x EXCEPT !.s = u]
  OBVIOUS
<1>4. Keeps(x, z) /\ z.s = u /\ z.out = x.out
  BY <1>2, <1>3, SameSessionKeeps
<1>5. y = Send(z, Item("Close", None, None))
  BY <1>1, <1>3 DEF SendCloseError
<1>6. Says(Item("Close", None, None), {})
  BY SaysItems
<1>7. y \in HandlerRecord /\ y.s = z.s /\ y.index = z.index /\ Emits(z.out, y.out, {})
  BY <1>4, <1>5, <1>6, SendEmits DEF Keeps
<1>8. QED BY <1>2, <1>4, <1>7 DEF Keeps, SameSession

\* An answer ends the wait for it, and its timer with the last of them.
LEMMA AckKeeps ==
    ASSUME NEW x \in HandlerRecord, SessionBase(x.s), NEW r, NEW y, y = Ack(x, r)
    PROVE  /\ Keeps(x, y)
           /\ y.s.inProcess = x.s.inProcess /\ LoopContinues(y.s) = LoopContinues(x.s)
<1>1. CASE r \notin x.s.pendingRequests
  BY <1>1, KeepsSame DEF Ack
<1>2. CASE r \in x.s.pendingRequests
  <2>1. x.s \in HandlerSession /\ x.s.pendingRequests \subseteq Nat
    BY HandlerFields
  <2>2. PICK w \in SUBSET Nat : w = x.s.pendingRequests \ {r}
    BY <2>1
  <2>3. (w # {}) \in BOOLEAN
    OBVIOUS
  <2>4. PICK b \in BOOLEAN : b = (w # {})
    BY <2>3
  <2>5. PICK u : u = [[x.s EXCEPT !.pendingRequests = w] EXCEPT !.requestTimer = b]
    OBVIOUS
  <2>6. /\ u \in HandlerSession /\ u.channels = x.s.channels
        /\ u.implicitChannels = x.s.implicitChannels /\ u.nextReqId = x.s.nextReqId
        /\ u.pendingRequests = w /\ u.requestTimer = b
        /\ u.publishQueue = x.s.publishQueue /\ u.filters = x.s.filters
        /\ u.inProcess = x.s.inProcess /\ u.closed = x.s.closed
    BY <2>1, <2>5 DEF HandlerSession
  <2>7. y = [x EXCEPT !.s = u]
    <3>1. [x.s EXCEPT !.pendingRequests = w].pendingRequests = w
      BY <2>1 DEF HandlerSession
    <3>2. SetupRequestTimer([x.s EXCEPT !.pendingRequests = w]) = u
      BY <2>4, <2>5, <3>1 DEF SetupRequestTimer
    <3>3. y = [x EXCEPT !.s = SetupRequestTimer([x.s EXCEPT !.pendingRequests = x.s.pendingRequests \ {r}])]
      BY <1>2 DEF Ack
    <3>4. QED BY <2>2, <3>2, <3>3
  <2>8. y \in HandlerRecord /\ y.s = u /\ y.index = x.index /\ y.out = x.out
    BY <2>6, <2>7, WithHandlerSession
  <2>9. SessionBase(u)
    BY <2>2, <2>4, <2>6 DEF SessionBase
  <2>10. Emits(x.out, x.out, {})
    BY HandlerFields, EmitsAppend
  <2>11. QED BY <2>6, <2>8, <2>9, <2>10 DEF Keeps, LoopContinues
<1>3. QED BY <1>1, <1>2

LEMMA ResumeOK ==
    ASSUME NEW u \in HandlerSession, SessionBase(u), NEW v, v = Resume(u)
    PROVE  /\ v \in HandlerSession /\ SessionOK(v) /\ SessionBase(v)
           /\ v.channels = u.channels /\ v.implicitChannels = u.implicitChannels
<1>1. LoopContinues(u) \in BOOLEAN
  BY DEF LoopContinues
<1>2. PICK b \in BOOLEAN : b = LoopContinues(u)
  BY <1>1
<1>3. v = [u EXCEPT !.inProcess = b]
  BY <1>2 DEF Resume
<1>4. /\ v \in HandlerSession /\ v.channels = u.channels
      /\ v.implicitChannels = u.implicitChannels /\ v.nextReqId = u.nextReqId
      /\ v.pendingRequests = u.pendingRequests /\ v.requestTimer = u.requestTimer
      /\ v.publishQueue = u.publishQueue /\ v.filters = u.filters
      /\ v.inProcess = b /\ v.closed = u.closed
  BY <1>3 DEF HandlerSession
<1>5. LoopContinues(v) = LoopContinues(u)
  BY <1>4 DEF LoopContinues
<1>6. QED BY <1>2, <1>4, <1>5 DEF SessionOK, SessionBase

\* Steps of the publish queue end with the loop, and keep the subscriptions.
LEMMA ResumeKeeps ==
    ASSUME NEW x \in HandlerRecord, NEW z, Keeps(x, z), NEW u \in HandlerSession, SessionBase(u),
           x.s.channels \subseteq u.channels, u.implicitChannels = x.s.implicitChannels,
           NEW y, y = [z EXCEPT !.s = Resume(u)]
    PROVE  Keeps(x, y) /\ SessionOK(y.s)
<1>1. PICK v : v = Resume(u)
  OBVIOUS
<1>2. /\ v \in HandlerSession /\ SessionOK(v) /\ SessionBase(v)
      /\ v.channels = u.channels /\ v.implicitChannels = u.implicitChannels
  BY <1>1, ResumeOK
<1>3. y \in HandlerRecord /\ y.s = v /\ y.index = z.index /\ y.out = z.out
  BY <1>1, <1>2, WithHandlerSession DEF Keeps
<1>4. QED BY <1>2, <1>3 DEF Keeps

LEMMA PublishKeeps ==
    ASSUME NEW x \in HandlerRecord, SessionBase(x.s), NEW item \in PublishedItem,
           NEW y, y = Publish(x, item)
    PROVE  Keeps(x, y) /\ SessionOK(y.s)
<1>1. x.s \in HandlerSession /\ x.s.publishQueue \in Seq(PublishedItem)
  BY HandlerFields
<1>2. PICK q \in Seq(PublishedItem) : q = Append(x.s.publishQueue, item)
  BY <1>1, SeqOps
<1>3. q # <<>>
  BY <1>1, <1>2
<1>4. PICK u : u = [x.s EXCEPT !.publishQueue = q]
  OBVIOUS
<1>5. /\ u \in HandlerSession /\ u.channels = x.s.channels
      /\ u.implicitChannels = x.s.implicitChannels /\ u.nextReqId = x.s.nextReqId
      /\ u.pendingRequests = x.s.pendingRequests /\ u.requestTimer = x.s.requestTimer
      /\ u.publishQueue = q
  BY <1>1, <1>4 DEF HandlerSession
<1>6. SessionBase(u)
  BY <1>3, <1>5 DEF SessionBase
<1>7. y = [x EXCEPT !.s = Resume(u)]
  BY <1>2, <1>4 DEF Publish
<1>8. QED BY <1>5, <1>6, <1>7, KeepsSame, ResumeKeeps

LEMMA LookUpSession ==
    ASSUME NEW u \in HandlerSession, u.publishQueue # <<>>, NEW v, v = LookUp(u)
    PROVE  /\ v \in HandlerSession /\ u.channels \subseteq v.channels
           /\ v.implicitChannels = u.implicitChannels /\ v.nextReqId = u.nextReqId
           /\ v.pendingRequests = u.pendingRequests /\ v.requestTimer = u.requestTimer
           /\ v.publishQueue = u.publishQueue /\ v.filters = u.filters
<1>1. u.publishQueue \in Seq(PublishedItem) /\ u.channels \subseteq Channels
  BY DEF HandlerSession
<1>2. Head(u.publishQueue) \in PublishedItem
  BY <1>1, SeqOps
<1>3. Head(u.publishQueue).channel \in Channels
  BY <1>2 DEF PublishedItem
<1>4. PICK w \in SUBSET Channels : w = u.channels \cup {Head(u.publishQueue).channel}
  BY <1>1, <1>3
<1>5. v = [u EXCEPT !.channels = w]
  BY <1>4 DEF LookUp
<1>6. QED BY <1>4, <1>5 DEF HandlerSession

LEMMA StartFiltersKeeps ==
    ASSUME NEW x \in HandlerRecord, SessionBase(x.s), x.s.publishQueue # <<>>,
           NEW y, y = StartFilters(x)
    PROVE  Keeps(x, y) /\ SessionOK(y.s)
<1>1. PICK v : v = LookUp(x.s)
  OBVIOUS
<1>2. /\ v \in HandlerSession /\ x.s.channels \subseteq v.channels
      /\ v.implicitChannels = x.s.implicitChannels /\ v.nextReqId = x.s.nextReqId
      /\ v.pendingRequests = x.s.pendingRequests /\ v.requestTimer = x.s.requestTimer
      /\ v.publishQueue = x.s.publishQueue
  BY <1>1, HandlerFields, LookUpSession
<1>3. PICK u : u = [v EXCEPT !.filters = TRUE]
  OBVIOUS
<1>4. /\ u \in HandlerSession /\ u.channels = v.channels
      /\ u.implicitChannels = v.implicitChannels /\ u.nextReqId = v.nextReqId
      /\ u.pendingRequests = v.pendingRequests /\ u.requestTimer = v.requestTimer
      /\ u.publishQueue = v.publishQueue
  BY <1>2, <1>3 DEF HandlerSession
<1>5. SessionBase(u)
  BY <1>2, <1>4 DEF SessionBase
<1>6. y = [x EXCEPT !.s = Resume(u)]
  BY <1>1, <1>3 DEF StartFilters
<1>7. Keeps(x, x)
  BY KeepsSame
<1>8. /\ u \in HandlerSession /\ x.s.channels \subseteq u.channels
      /\ u.implicitChannels = x.s.implicitChannels
  BY <1>2, <1>4
<1>9. QED BY <1>5, <1>6, <1>7, <1>8, ResumeKeeps, ZenonT(30)

LEMMA MismatchKeeps ==
    ASSUME NEW x \in HandlerRecord, SessionBase(x.s), x.s.publishQueue # <<>>, ~x.s.filters,
           NEW y, y = Mismatch(x)
    PROVE  Keeps(x, y) /\ SessionOK(y.s)
<1>1. PICK z : z = IF Debug THEN SendCloseError(x) ELSE x
  OBVIOUS
<1>2. Keeps(x, z) /\ z.s.publishQueue = x.s.publishQueue /\ z.s.filters = x.s.filters
  BY <1>1, KeepsSame, CloseKeeps
<1>3. PICK v : v = LookUp(z.s)
  OBVIOUS
<1>4. z.s \in HandlerSession /\ SessionBase(z.s) /\ z.s.publishQueue \in Seq(PublishedItem)
  BY <1>2, HandlerFields DEF Keeps
<1>5. /\ v \in HandlerSession /\ z.s.channels \subseteq v.channels
      /\ v.implicitChannels = z.s.implicitChannels /\ v.nextReqId = z.s.nextReqId
      /\ v.pendingRequests = z.s.pendingRequests /\ v.requestTimer = z.s.requestTimer
      /\ v.publishQueue = z.s.publishQueue /\ v.filters = z.s.filters
  BY <1>2, <1>3, <1>4, LookUpSession
<1>6. PICK q \in Seq(PublishedItem) : q = Tail(v.publishQueue)
  BY <1>2, <1>4, <1>5, SeqOps
<1>7. PICK u : u = [v EXCEPT !.publishQueue = q]
  OBVIOUS
<1>8. /\ u \in HandlerSession /\ u.channels = v.channels
      /\ u.implicitChannels = v.implicitChannels /\ u.nextReqId = v.nextReqId
      /\ u.pendingRequests = v.pendingRequests /\ u.requestTimer = v.requestTimer
      /\ u.filters = v.filters
  BY <1>5, <1>7 DEF HandlerSession
<1>9. SessionBase(u)
  BY <1>2, <1>4, <1>5, <1>8 DEF SessionBase
<1>10. y = [z EXCEPT !.s = Resume(u)]
  BY <1>1, <1>3, <1>6, <1>7 DEF Mismatch
<1>11. x.s.channels \subseteq u.channels /\ u.implicitChannels = x.s.implicitChannels
  BY <1>2, <1>5, <1>8 DEF Keeps
<1>12. QED BY <1>2, <1>8, <1>9, <1>10, <1>11, ResumeKeeps

LEMMA AfterFiltersKeeps ==
    ASSUME NEW x \in HandlerRecord, SessionBase(x.s), NEW item, NEW y, y = AfterFilters(x, item)
    PROVE  Keeps(x, y)
<1>1. /\ Says(Item("Send", None, "drop"), {}) /\ Says(Item("Refresh", None, None), {})
  BY SaysItems
<1>2. CASE item.action = "send"
  <2>1. y = Send(x, Item("Send", None, "drop"))
    BY <1>2 DEF AfterFilters
  <2>2. QED BY <1>1, <2>1, SendEmits DEF Keeps
<1>3. CASE item.action = "close"
  <2>1. y = SendCloseError(x)
    BY <1>3 DEF AfterFilters, SendCloseError
  <2>2. QED BY <2>1, CloseKeeps
<1>4. CASE item.action = "refresh"
  <2>1. y = Send(x, Item("Refresh", None, None))
    BY <1>4 DEF AfterFilters
  <2>2. QED BY <1>1, <2>1, SendEmits DEF Keeps
<1>5. CASE item.action \notin {"send", "close", "refresh"}
  <2>1. y = x
    BY <1>5 DEF AfterFilters
  <2>2. QED BY <2>1, KeepsSame
<1>6. QED BY <1>2, <1>3, <1>4, <1>5

LEMMA KeepsTransitive ==
    ASSUME NEW x \in HandlerRecord, NEW y, NEW z, Keeps(x, y), Keeps(y, z)
    PROVE  Keeps(x, z)
<1>1. Emits(x.out, z.out, {})
  BY DEF Keeps, Emits
<1>2. QED BY <1>1 DEF Keeps

LEMMA FiltersFinishedKeeps ==
    ASSUME NEW x \in HandlerRecord, SessionBase(x.s), x.s.publishQueue # <<>>,
           NEW result, NEW y, y = FiltersFinished(x, result)
    PROVE  Keeps(x, y) /\ SessionOK(y.s)
<1>1. x.s \in HandlerSession /\ x.s.publishQueue \in Seq(PublishedItem)
  BY HandlerFields
<1>2. PICK q \in Seq(PublishedItem) : q = Tail(x.s.publishQueue)
  BY <1>1, SeqOps
<1>3. PICK u : u = [[x.s EXCEPT !.publishQueue = q] EXCEPT !.filters = FALSE]
  OBVIOUS
<1>4. /\ u \in HandlerSession /\ u.channels = x.s.channels
      /\ u.implicitChannels = x.s.implicitChannels /\ u.nextReqId = x.s.nextReqId
      /\ u.pendingRequests = x.s.pendingRequests /\ u.requestTimer = x.s.requestTimer
      /\ u.filters = FALSE
  BY <1>1, <1>3 DEF HandlerSession
<1>5. SessionBase(u)
  BY <1>4 DEF SessionBase
<1>6. PICK v : v = [x EXCEPT !.s.publishQueue = Tail(@), !.s.filters = FALSE]
  OBVIOUS
<1>7. v = [x EXCEPT !.s = u]
  <2>1. v = [[x EXCEPT !.s.publishQueue = q] EXCEPT !.s.filters = FALSE]
    BY <1>2, <1>6
  <2>2. [x EXCEPT !.s.publishQueue = q].s = [x.s EXCEPT !.publishQueue = q]
    BY DEF HandlerRecord
  <2>3. QED BY <1>3, <2>1, <2>2 DEF HandlerRecord
<1>8. v \in HandlerRecord /\ v.s = u /\ v.index = x.index /\ v.out = x.out
  BY <1>4, <1>7, WithHandlerSession
<1>9. Keeps(x, v)
  <2>1. Emits(x.out, x.out, {})
    BY HandlerFields, EmitsAppend
  <2>2. QED BY <1>4, <1>5, <1>8, <2>1 DEF Keeps
<1>10. PICK z : z = CASE result = "error" /\ Debug -> SendCloseError(v)
                      [] result = "send" -> AfterFilters(v, Head(x.s.publishQueue))
                      [] OTHER -> v
  OBVIOUS
<1>11. y = [z EXCEPT !.s = Resume(z.s)]
  BY <1>6, <1>10 DEF FiltersFinished
<1>12. Keeps(v, z)
  <2>1. v \in HandlerRecord /\ SessionBase(v.s)
    BY <1>5, <1>8
  <2>2. CASE z = SendCloseError(v)
    BY <2>1, <2>2, CloseKeeps
  <2>3. CASE z = AfterFilters(v, Head(x.s.publishQueue))
    BY <2>1, <2>3, AfterFiltersKeeps
  <2>4. CASE z = v
    BY <2>1, <2>4, KeepsSame
  <2>5. QED BY <1>10, <2>2, <2>3, <2>4
<1>13. Keeps(x, z)
  BY <1>9, <1>12, KeepsTransitive
<1>14. z.s \in HandlerSession /\ SessionBase(z.s) /\ x.s.channels \subseteq z.s.channels
       /\ z.s.implicitChannels = x.s.implicitChannels
  BY <1>13, HandlerFields DEF Keeps
<1>15. QED BY <1>11, <1>13, <1>14, ResumeKeeps

-----------------------------------------------------------------------------
(* The engine's operators                                                  *)

\* From x to y the session stays whole and its implicit channels are kept.
Moves(x, y) ==
    /\ y \in HandlerRecord /\ SessionOK(y.s) /\ y.index \subseteq y.s.channels
    /\ x.s.implicitChannels \subseteq y.s.implicitChannels
    /\ Emits(x.out, y.out, {})

LEMMA KeepsMoves ==
    ASSUME NEW x \in HandlerRecord, x.index \subseteq x.s.channels, NEW y, Keeps(x, y),
           y.s.inProcess = LoopContinues(y.s)
    PROVE  Moves(x, y) /\ y.index = x.index
  BY DEF Keeps, Moves, SessionOK, SessionBase

\* The session's channels and the index change together.
SameButChannels(u, v) ==
    /\ v \in HandlerSession /\ v.nextReqId = u.nextReqId
    /\ v.pendingRequests = u.pendingRequests /\ v.requestTimer = u.requestTimer
    /\ v.publishQueue = u.publishQueue /\ v.filters = u.filters
    /\ v.inProcess = u.inProcess /\ v.closed = u.closed

LEMMA ChannelsMove ==
    ASSUME NEW x \in HandlerRecord, SessionOK(x.s), NEW u, SameButChannels(x.s, u),
           NEW k, k \subseteq u.channels, x.s.implicitChannels \subseteq u.implicitChannels,
           NEW y, y = [s |-> u, index |-> k, out |-> x.out]
    PROVE  Moves(x, y)
<1>1. u \in HandlerSession /\ k \subseteq Channels
  BY DEF SameButChannels, HandlerSession
<1>2. y \in HandlerRecord /\ y.s = u /\ y.index = k /\ y.out = x.out
  BY <1>1, HandlerFields DEF HandlerRecord
<1>3. SessionOK(u)
  BY DEF SameButChannels, SessionOK, LoopContinues
<1>4. Emits(x.out, x.out, {})
  BY HandlerFields, EmitsAppend
<1>5. QED BY <1>2, <1>3, <1>4 DEF Moves

LEMMA ChannelFields ==
    ASSUME NEW u \in HandlerSession, NEW w \in SUBSET Channels
    PROVE  /\ SameButChannels(u, [u EXCEPT !.channels = w])
           /\ [u EXCEPT !.channels = w].channels = w
           /\ [u EXCEPT !.channels = w].implicitChannels = u.implicitChannels
           /\ SameButChannels(u, [u EXCEPT !.implicitChannels = w])
           /\ [u EXCEPT !.implicitChannels = w].implicitChannels = w
           /\ [u EXCEPT !.implicitChannels = w].channels = u.channels
<1>1. PICK v : v = [u EXCEPT !.channels = w]
  OBVIOUS
<1>2. SameButChannels(u, v) /\ v.channels = w /\ v.implicitChannels = u.implicitChannels
  BY <1>1 DEF SameButChannels, HandlerSession
<1>3. PICK z : z = [u EXCEPT !.implicitChannels = w]
  OBVIOUS
<1>4. SameButChannels(u, z) /\ z.implicitChannels = w /\ z.channels = u.channels
  BY <1>3 DEF SameButChannels, HandlerSession
<1>5. QED BY <1>1, <1>2, <1>3, <1>4

LEMMA AddChannelMoves ==
    ASSUME NEW x \in HandlerRecord, SessionOK(x.s), x.index \subseteq x.s.channels,
           NEW c \in Channels, NEW y, y = AddChannel(x, c)
    PROVE  /\ Moves(x, y) /\ y.index = x.index \cup {c}
           /\ y.s.implicitChannels = x.s.implicitChannels
<1>1. x.index \subseteq Channels /\ x.s.channels \subseteq Channels
  BY HandlerFields
<1>2. PICK w \in SUBSET Channels : w = x.s.channels \cup {c}
  BY <1>1
<1>3. PICK k : k = x.index \cup {c}
  OBVIOUS
<1>4. PICK u : u = [x.s EXCEPT !.channels = w]
  OBVIOUS
<1>5. SameButChannels(x.s, u) /\ u.channels = w /\ u.implicitChannels = x.s.implicitChannels
  BY <1>4, HandlerFields, ChannelFields
<1>6. y = [s |-> u, index |-> k, out |-> x.out]
  BY <1>2, <1>3, <1>4 DEF AddChannel, HandlerRecord
<1>7. Moves(x, y)
  <2>1. k \subseteq u.channels /\ x.s.implicitChannels \subseteq u.implicitChannels
    BY <1>2, <1>3, <1>5
  <2>2. QED BY <1>5, <1>6, <2>1, ChannelsMove
<1>8. QED BY <1>3, <1>5, <1>6, <1>7

LEMMA UnsubscribeMoves ==
    ASSUME NEW x \in HandlerRecord, SessionOK(x.s), x.index \subseteq x.s.channels,
           NEW c \in Channels, NEW y, y = Unsubscribe(x, c)
    PROVE  /\ Moves(x, y) /\ y.s.implicitChannels = x.s.implicitChannels
           /\ IF c \in x.s.implicitChannels THEN y.index = x.index ELSE y.index = x.index \ {c}
<1>1. x.index \subseteq Channels /\ x.s.channels \subseteq Channels
  BY HandlerFields
<1>2. CASE c \in x.s.implicitChannels
  <2>1. y = x
    BY <1>2 DEF Unsubscribe
  <2>2. Emits(x.out, x.out, {})
    BY HandlerFields, EmitsAppend
  <2>3. QED BY <1>2, <2>1, <2>2 DEF Moves
<1>3. CASE c \notin x.s.implicitChannels
  <2>1. PICK w \in SUBSET Channels : w = x.s.channels \ {c}
    BY <1>1
  <2>2. PICK k : k = x.index \ {c}
    OBVIOUS
  <2>3. PICK u : u = [x.s EXCEPT !.channels = w]
    OBVIOUS
  <2>4. SameButChannels(x.s, u) /\ u.channels = w /\ u.implicitChannels = x.s.implicitChannels
    BY <2>3, HandlerFields, ChannelFields
  <2>5. y = [s |-> u, index |-> k, out |-> x.out]
    BY <1>3, <2>1, <2>2, <2>3 DEF Unsubscribe, HandlerRecord
  <2>6. Moves(x, y)
    <3>1. k \subseteq u.channels /\ x.s.implicitChannels \subseteq u.implicitChannels
      BY <2>1, <2>2, <2>4
    <3>2. QED BY <2>4, <2>5, <3>1, ChannelsMove
  <2>7. QED BY <1>3, <2>2, <2>4, <2>5, <2>6
<1>4. QED BY <1>2, <1>3

\* An implicit subscription.
LEMMA ImplicitMoves ==
    ASSUME NEW x \in HandlerRecord, SessionOK(x.s), x.index \subseteq x.s.channels,
           NEW c \in Channels, NEW y,
           y = [AddChannel(x, c) EXCEPT !.s.implicitChannels = @ \cup {c}]
    PROVE  Moves(x, y) /\ y.index = x.index \cup {c} /\ c \in y.s.implicitChannels
<1>1. PICK z : z = AddChannel(x, c)
  OBVIOUS
<1>2. /\ Moves(x, z) /\ z.index = x.index \cup {c}
      /\ z.s.implicitChannels = x.s.implicitChannels
  BY <1>1, AddChannelMoves
<1>3. z \in HandlerRecord /\ SessionOK(z.s) /\ z.index \subseteq z.s.channels
  BY <1>2 DEF Moves
<1>4. z.s.implicitChannels \subseteq Channels
  BY <1>3, HandlerFields
<1>5. PICK m \in SUBSET Channels : m = z.s.implicitChannels \cup {c}
  BY <1>4
<1>6. PICK u : u = [z.s EXCEPT !.implicitChannels = m]
  OBVIOUS
<1>7. SameButChannels(z.s, u) /\ u.implicitChannels = m /\ u.channels = z.s.channels
  BY <1>3, <1>6, HandlerFields, ChannelFields
<1>8. y = [s |-> u, index |-> z.index, out |-> z.out]
  <2>1. y = [z EXCEPT !.s.implicitChannels = z.s.implicitChannels \cup {c}]
    BY <1>1
  <2>2. QED BY <1>3, <1>5, <1>6, <2>1 DEF HandlerRecord
<1>9. Moves(z, y)
  <2>1. z.index \subseteq u.channels /\ z.s.implicitChannels \subseteq u.implicitChannels
    BY <1>3, <1>5, <1>7
  <2>2. QED BY <1>3, <1>7, <1>8, <2>1, ChannelsMove
<1>10. Emits(x.out, y.out, {})
  BY <1>2, <1>9 DEF Moves, Emits
<1>11. y.index = z.index /\ y.s.implicitChannels = m
  <2>1. PICK w : w = [s |-> u, index |-> z.index, out |-> z.out]
    OBVIOUS
  <2>2. w.index = z.index /\ w.s = u
    BY <2>1, Zenon
  <2>3. y.index = w.index /\ y.s = w.s
    BY <1>8, <2>1, Zenon
  <2>4. QED BY <1>7, <2>2, <2>3, Zenon
<1>12. QED BY <1>2, <1>5, <1>9, <1>10, <1>11 DEF Moves

\* What a GRIP message does to the index: an unsubscribe takes a channel off
\* that is not implicit, a subscribe adds one while there is room.
GripApplied(x, g, y) ==
    /\ Moves(x, y)
    /\ \A c \in x.index :
          c \in y.index \/ (g = Grip("unsubscribe", c) /\ c \notin x.s.implicitChannels)
    /\ g.kind = "subscribe" /\ Cardinality(x.s.channels) < SubMax => g.channel \in y.index

LEMMA HandleGripApplies ==
    ASSUME NEW x \in HandlerRecord, SessionOK(x.s), ~x.s.inProcess,
           x.index \subseteq x.s.channels, NEW g \in Grips, NEW y, y = HandleGrip(x, g)
    PROVE  GripApplied(x, g, y)
<1>1. SessionBase(x.s) /\ LoopContinues(x.s) = FALSE /\ x.s.inProcess = FALSE
  <2>1. x.s.inProcess \in BOOLEAN
    BY HandlerFields DEF HandlerSession
  <2>2. QED BY <2>1 DEF SessionOK, SessionBase
<1>2. g \in [kind : GripKinds, channel : Channels \cup {None}]
  BY WsControlAssumption
<1>3. g.kind \in {"subscribe", "unsubscribe"} => g.channel \in Channels
  BY WsControlAssumption
<1>4. Moves(x, x)
  BY KeepsSame, KeepsMoves, <1>1 DEF SessionOK
<1>5. \A z : Keeps(x, z) /\ z.s.inProcess = LoopContinues(z.s) => Moves(x, z) /\ z.index = x.index
  BY KeepsMoves
<1>6. CASE g.kind = "subscribe"
  <2>1. y = IF Cardinality(x.s.channels) < SubMax THEN AddChannel(x, g.channel) ELSE x
    BY <1>6 DEF HandleGrip, Subscribe
  <2>2. CASE Cardinality(x.s.channels) < SubMax
    <3>1. Moves(x, y) /\ y.index = x.index \cup {g.channel}
      BY <1>3, <1>6, <2>1, <2>2, AddChannelMoves
    <3>2. QED BY <3>1 DEF GripApplied
  <2>3. CASE ~(Cardinality(x.s.channels) < SubMax)
    BY <1>4, <2>1, <2>3 DEF GripApplied
  <2>4. QED BY <2>2, <2>3
<1>7. CASE g.kind = "unsubscribe"
  <2>1. y = Unsubscribe(x, g.channel)
    BY <1>7 DEF HandleGrip
  <2>2. /\ Moves(x, y)
        /\ IF g.channel \in x.s.implicitChannels
           THEN y.index = x.index ELSE y.index = x.index \ {g.channel}
    BY <1>3, <1>7, <2>1, UnsubscribeMoves
  <2>3. g = Grip("unsubscribe", g.channel)
    BY <1>2, <1>7 DEF Grip
  <2>4. QED BY <1>7, <2>2, <2>3 DEF GripApplied
<1>8. CASE g.kind \notin {"subscribe", "unsubscribe"}
  <2>1. SUFFICES Moves(x, y) /\ y.index = x.index
    BY <1>8 DEF GripApplied
  <2>2. CASE g.kind = "too-many-filters" /\ Cardinality(x.s.channels) < SubMax
    <3>1. y = SendCloseError(x)
      BY <1>8, <2>2 DEF HandleGrip
    <3>2. Keeps(x, y) /\ y.s.inProcess = x.s.inProcess /\ y.s.closed
      BY <1>1, <3>1, CloseKeeps
    <3>3. LoopContinues(y.s) = FALSE
      BY <3>2 DEF LoopContinues
    <3>4. QED BY <1>1, <1>5, <3>2, <3>3
  <2>3. CASE g.kind \in {"keep-alive", "no-keep-alive"}
    <3>1. (g.kind = "keep-alive") \in BOOLEAN
      OBVIOUS
    <3>2. PICK b \in BOOLEAN : b = (g.kind = "keep-alive")
      BY <3>1
    <3>3. PICK u : u = [x.s EXCEPT !.keepAliveMessage = b]
      OBVIOUS
    <3>4. SameSession(x.s, u) /\ u.closed = x.s.closed
      BY <3>3, HandlerFields, SameSessionFields
    <3>5. y = [x EXCEPT !.s.keepAliveMessage = (g.kind = "keep-alive")]
      BY <2>3 DEF HandleGrip
    <3>6. y = [x EXCEPT !.s = u]
      BY <3>2, <3>3, <3>5
    <3>7. Keeps(x, y) /\ y.s = u
      BY <1>1, <3>4, <3>6, SameSessionKeeps
    <3>8. LoopContinues(u) = LoopContinues(x.s)
      BY <3>4 DEF SameSession, LoopContinues
    <3>9. QED BY <1>1, <1>5, <3>4, <3>7, <3>8 DEF SameSession
  <2>4. CASE g.kind = "send-delayed"
    <3>1. y = SendDelayed(x)
      BY <2>4 DEF HandleGrip
    <3>2. QED BY <1>1, <1>5, <3>1, SendDelayedKeeps
  <2>5. CASE g.kind = "flush-delayed"
    <3>1. y = FlushDelayed(x)
      BY <2>5 DEF HandleGrip
    <3>2. QED BY <1>1, <1>5, <3>1, FlushDelayedKeeps
  <2>6. CASE /\ g.kind \notin {"keep-alive", "no-keep-alive", "send-delayed", "flush-delayed"}
             /\ ~(g.kind = "too-many-filters" /\ Cardinality(x.s.channels) < SubMax)
    <3>1. y = x
      BY <1>8, <2>6 DEF HandleGrip
    <3>2. QED BY <1>4, <3>1
  <2>7. QED BY <2>2, <2>3, <2>4, <2>5, <2>6
<1>9. QED BY <1>6, <1>7, <1>8

-----------------------------------------------------------------------------
(* The answers to an item                                                  *)

LEMMA ShortConcat ==
    ASSUME NEW S, NEW q \in Seq(S), NEW a \in S, NEW b \in S
    PROVE  /\ q \o (<<>> \o <<>>) = q
           /\ q \o (<<a>> \o <<>>) = Append(q, a)
           /\ q \o (<<>> \o <<b>>) = Append(q, b)
           /\ q \o (<<a>> \o <<b>>) = Append(Append(q, a), b)
<1>1. q \o (<<>> \o <<>>) = q
  OBVIOUS
<1>2. q \o (<<a>> \o <<>>) = Append(q, a)
  OBVIOUS
<1>3. q \o (<<>> \o <<b>>) = Append(q, b)
  OBVIOUS
<1>4. q \o (<<a>> \o <<b>>) = Append(Append(q, a), b)
  OBVIOUS
<1>5. QED BY <1>1, <1>2, <1>3, <1>4

\* An item that does not end the session.
Ordinary(i) == i \in HandlerItem /\ i.type \notin {"Gone", "Cancel"}

\* The requests that are acknowledged when an item is handled.
Acks(i) == IF IsRequest(i) THEN {i.req} ELSE {}

LEMMA RequestHasNumber ==
    ASSUME NEW i, Ordinary(i)
    PROVE  /\ IsRequest(i) => i.req \in Nat /\ i.req # None
           /\ ~IsRequest(i) => i.type = "Ack" \/ i.req = None
           /\ i.type # "Here"
           /\ i.type = "Subscribe" => i.arg \in Channels
           /\ i.type = "Grip" => i.arg \in Grips
  BY WsControlAssumption DEF Ordinary, IsRequest, HandlerItem

LEMMA OutItemsEmits ==
    ASSUME NEW x \in HandlerRecord, NEW i, Ordinary(i), NEW o \in Seq(ProxyItem), NEW q,
           Emits(o, q, {})
    PROVE  Emits(o, q \o OutItems(x, i), Acks(i))
<1>1. x.s # None
  BY HandlerFields, WsControlAssumption
<1>2. Emits(o, q, Acks(i)) /\ q \in Seq(ProxyItem)
  BY EmitsMore DEF Emits
<1>3. PICK ack : ack = IF i.type # "Ack" /\ i.req # None THEN <<Item("Ack", i.req, None)>> ELSE <<>>
  OBVIOUS
<1>4. ack = <<>> \/ (ack = <<Item("Ack", i.req, None)>> /\ Says(Item("Ack", i.req, None), Acks(i)))
  <2>1. CASE IsRequest(i)
    <3>1. i.req \in Nat
      BY <2>1, RequestHasNumber
    <3>2. QED BY <1>3, <2>1, <3>1, SaysItems DEF Acks
  <2>2. CASE ~IsRequest(i)
    BY <1>3, <2>2, RequestHasNumber
  <2>3. QED BY <2>1, <2>2
<1>5. PICK rest : OutItems(x, i) = ack \o rest /\ (rest = <<>> \/ \E j : rest = <<j>> /\ Says(j, {}))
  <2> DEFINE r == CASE i.type = "Here" -> <<>>
          [] i.type # "Here" /\ x.s = None -> <<Item("Cancel", None, None)>>
          [] i.type = "Grip" /\ x.s # None /\ i.arg.kind = "detach" ->
                <<Item("Detach", None, None)>>
          [] i.type = "Grip" /\ x.s # None /\ i.arg.kind \in {"keep-alive", "no-keep-alive"} ->
                <<Item("KeepAliveSetup", None, i.arg.kind = "keep-alive")>>
          [] i.type = "NeedKeepAlive" /\ x.s # None /\ x.s.keepAliveMessage ->
                <<Item("Send", None, "drop")>>
          [] OTHER -> <<>>
  <2>1. OutItems(x, i) = ack \o r
    BY <1>3 DEF OutItems
  <2>2. \/ r = <<>> \/ r = <<Item("Detach", None, None)>> \/ r = <<Item("Send", None, "drop")>>
        \/ r = <<Item("KeepAliveSetup", None, i.arg.kind = "keep-alive")>>
    BY <1>1, RequestHasNumber
  <2>3. (i.arg.kind = "keep-alive") \in BOOLEAN
    OBVIOUS
  <2>4. /\ Says(Item("Detach", None, None), {}) /\ Says(Item("Send", None, "drop"), {})
        /\ Says(Item("KeepAliveSetup", None, i.arg.kind = "keep-alive"), {})
    BY <2>3, SaysItems
  <2> HIDE DEF r
  <2>5. QED BY <2>1, <2>2, <2>4
<1>6. \A j : Says(j, {}) => Says(j, Acks(i)) /\ j \in ProxyItem
  BY DEF Says
<1>7. CASE rest = <<>>
  <2>1. CASE ack = <<>>
    BY <1>2, <1>5, <1>7, <2>1
  <2>2. CASE ack # <<>>
    <3>1. PICK a \in ProxyItem : ack = <<a>> /\ Says(a, Acks(i))
      BY <1>4, <2>2 DEF Says
    <3>2. q \o OutItems(x, i) = Append(q, a)
      BY <1>2, <1>5, <1>7, <3>1
    <3>3. QED BY <1>2, <3>1, <3>2, EmitsAppend
  <2>3. QED BY <2>1, <2>2
<1>8. CASE rest # <<>>
  <2>0. PICK j \in ProxyItem : rest = <<j>> /\ Says(j, Acks(i))
    BY <1>5, <1>6, <1>8
  <2>1. CASE ack = <<>>
    <3>1. q \o OutItems(x, i) = Append(q, j)
      BY <1>2, <1>5, <2>0, <2>1
    <3>2. QED BY <1>2, <2>0, <3>1, EmitsAppend
  <2>2. CASE ack # <<>>
    <3>1. PICK a \in ProxyItem : ack = <<a>> /\ Says(a, Acks(i))
      BY <1>4, <2>2 DEF Says
    <3>2. q \o OutItems(x, i) = Append(Append(q, a), j)
      BY <1>2, <1>5, <2>0, <3>1, ShortConcat
    <3>3. Emits(o, Append(q, a), Acks(i))
      BY <1>2, <3>1, EmitsAppend
    <3>4. QED BY <2>0, <3>2, <3>3, EmitsAppend
  <2>3. QED BY <2>1, <2>2
<1>9. QED BY <1>7, <1>8

\* What an item does to a session: a subscription asked for is there when it is
\* acknowledged, and no other is touched but by the request to leave it.
Applied(x, i, y) ==
    /\ y \in HandlerRecord /\ SessionOK(y.s) /\ y.index \subseteq y.s.channels
    /\ x.s.implicitChannels \subseteq y.s.implicitChannels
    /\ Emits(x.out, y.out, Acks(i))
    /\ \A c \in x.index :
          \/ c \in y.index
          \/ i.type = "Grip" /\ i.arg = Grip("unsubscribe", c) /\ c \notin x.s.implicitChannels
    /\ i.type = "Subscribe" => i.arg \in y.index /\ i.arg \in y.s.implicitChannels
    /\ i.type = "Grip" /\ i.arg.kind = "subscribe" /\ Cardinality(x.s.channels) < SubMax =>
          i.arg.channel \in y.index

LEMMA HandleApplies ==
    ASSUME NEW x \in HandlerRecord, SessionOK(x.s), ~x.s.inProcess,
           x.index \subseteq x.s.channels, NEW i, Ordinary(i), NEW y, y = Handle(x, i)
    PROVE  Applied(x, i, y)
<1>1. x.s # None
  BY HandlerFields, WsControlAssumption
<1>2. SessionBase(x.s) /\ x.s.inProcess = LoopContinues(x.s)
  BY DEF SessionOK, SessionBase
<1>3. ASSUME NEW z, Moves(x, z), y = [z EXCEPT !.out = @ \o OutItems(x, i)]
      PROVE  /\ y \in HandlerRecord /\ y.s = z.s /\ y.index = z.index
             /\ Emits(x.out, y.out, Acks(i))
  <2>1. z \in HandlerRecord /\ Emits(x.out, z.out, {}) /\ x.out \in Seq(ProxyItem)
    BY <1>3, HandlerFields DEF Moves
  <2>2. PICK q : q = z.out \o OutItems(x, i)
    OBVIOUS
  <2>3. Emits(x.out, q, Acks(i))
    BY <2>1, <2>2, OutItemsEmits
  <2>4. q \in Seq(ProxyItem)
    BY <2>3 DEF Emits
  <2>5. y = [z EXCEPT !.out = q]
    BY <1>3, <2>2
  <2>6. y \in HandlerRecord /\ y.s = z.s /\ y.index = z.index /\ y.out = q
    BY <2>1, <2>4, <2>5 DEF HandlerRecord
  <2>7. QED BY <2>3, <2>6
<1>4. CASE i.type = "Grip"
  <2>1. PICK z : z = HandleGrip(x, i.arg)
    OBVIOUS
  <2>2. GripApplied(x, i.arg, z)
    BY <1>4, <2>1, RequestHasNumber, HandleGripApplies
  <2>3. y = [z EXCEPT !.out = @ \o OutItems(x, i)]
    BY <1>1, <1>4, <2>1 DEF Handle
  <2>4. /\ y \in HandlerRecord /\ y.s = z.s /\ y.index = z.index
        /\ Emits(x.out, y.out, Acks(i))
    BY <1>3, <2>2, <2>3 DEF GripApplied
  <2>5. QED BY <1>4, <2>2, <2>4 DEF Applied, GripApplied, Moves
<1>5. CASE i.type = "Subscribe"
  <2>1. PICK z : z = [AddChannel(x, i.arg) EXCEPT !.s.implicitChannels = @ \cup {i.arg}]
    OBVIOUS
  <2>2. i.arg \in Channels
    BY <1>5, RequestHasNumber
  <2>3. Moves(x, z) /\ z.index = x.index \cup {i.arg} /\ i.arg \in z.s.implicitChannels
    BY <2>1, <2>2, ImplicitMoves
  <2>4. y = [z EXCEPT !.out = @ \o OutItems(x, i)]
    BY <1>1, <1>5, <2>1 DEF Handle
  <2>5. /\ y \in HandlerRecord /\ y.s = z.s /\ y.index = z.index
        /\ Emits(x.out, y.out, Acks(i))
    BY <1>3, <2>3, <2>4
  <2>6. QED BY <1>5, <2>3, <2>5 DEF Applied, Moves
<1>6. CASE i.type \notin {"Grip", "Subscribe"}
  <2>1. PICK z : z = IF i.type = "Ack" THEN Ack(x, i.req) ELSE x
    OBVIOUS
  <2>2. Keeps(x, z) /\ z.s.inProcess = LoopContinues(z.s)
    <3>1. CASE i.type = "Ack"
      BY <1>2, <2>1, <3>1, AckKeeps
    <3>2. CASE i.type # "Ack"
      BY <1>2, <2>1, <3>2, KeepsSame
    <3>3. QED BY <3>1, <3>2
  <2>3. Moves(x, z) /\ z.index = x.index
    BY <2>2, KeepsMoves
  <2>4. y = [z EXCEPT !.out = @ \o OutItems(x, i)]
    BY <1>1, <1>6, <2>1, RequestHasNumber DEF Handle, Ordinary
  <2>5. /\ y \in HandlerRecord /\ y.s = z.s /\ y.index = z.index
        /\ Emits(x.out, y.out, Acks(i))
    BY <1>3, <2>3, <2>4
  <2>6. QED BY <1>6, <2>3, <2>5 DEF Applied, Moves
<1>7. QED BY <1>4, <1>5, <1>6

\* Without a session every item but the announcement is answered by a cancel.
LEMMA HandleNone ==
    ASSUME NEW x, x.s = None, x = [s |-> None, index |-> x.index, out |-> x.out],
           x.out \in Seq(ProxyItem), NEW i \in HandlerItem, NEW y, y = Handle(x, i)
    PROVE  /\ y.s = None /\ y.index = x.index /\ y.out \in Seq(ProxyItem)
           /\ \A n \in DOMAIN y.out :
                 \/ \E m \in DOMAIN x.out : y.out[n] = x.out[m]
                 \/ y.out[n].type = "Cancel"
                 \/ Says(y.out[n], Acks(i))
<1>1. i.type # "Here"
  BY DEF HandlerItem
<1>2. PICK a : a = Item("Cancel", None, None) /\ a \in ProxyItem /\ a.type = "Cancel"
  <2>1. Item("Cancel", None, None) \in ProxyItem /\ Item("Cancel", None, None).type = "Cancel"
    BY DEF Item, ProxyItem
  <2>2. QED BY <2>1
<1>3. PICK b : b = Item("Ack", i.req, None)
  OBVIOUS
<1>4. i.type # "Ack" /\ i.req # None => IsRequest(i) /\ b \in ProxyItem /\ Says(b, Acks(i))
  <2>1. i.type # "Ack" /\ i.req # None => IsRequest(i) /\ i.req \in Nat
    BY DEF HandlerItem, IsRequest
  <2>2. QED BY <1>3, <2>1, SaysItems DEF Acks, Says
<1>5. OutItems(x, i) = (IF i.type # "Ack" /\ i.req # None THEN <<b>> ELSE <<>>) \o <<a>>
  BY <1>1, <1>2, <1>3 DEF OutItems
<1>6. y = [x EXCEPT !.out = @ \o OutItems(x, i)]
  BY <1>1 DEF Handle
<1>7. y.s = None /\ y.index = x.index /\ y.out = x.out \o OutItems(x, i)
  BY <1>6
<1>8. Emits(x.out, x.out, Acks(i))
  BY EmitsAppend
<1>9. PICK q : Emits(x.out, q, Acks(i)) /\ y.out = Append(q, a)
  <2>1. CASE i.type # "Ack" /\ i.req # None
    <3>1. y.out = Append(Append(x.out, b), a)
      BY <1>2, <1>4, <1>5, <1>7, <2>1, ShortConcat
    <3>2. QED BY <1>4, <1>8, <2>1, <3>1, EmitsAppend
  <2>2. CASE ~(i.type # "Ack" /\ i.req # None)
    <3>1. y.out = Append(x.out, a)
      BY <1>2, <1>5, <1>7, <2>2, ShortConcat
    <3>2. QED BY <1>8, <3>1
  <2>3. QED BY <2>1, <2>2
<1>10. q \in Seq(ProxyItem)
  BY <1>9 DEF Emits
<1>11. /\ y.out \in Seq(ProxyItem)
       /\ \A n \in DOMAIN y.out : (n \in DOMAIN q /\ y.out[n] = q[n]) \/ y.out[n] = a
  BY <1>2, <1>9, <1>10
<1>12. QED BY <1>2, <1>7, <1>9, <1>11 DEF Emits

\* The session ends with the proxy's, and leaves no index entries.
LEMMA HandleEnds ==
    ASSUME NEW x \in HandlerRecord, x.index \subseteq x.s.channels,
           NEW i \in HandlerItem, i.type \in {"Gone", "Cancel"}, NEW y, y = Handle(x, i)
    PROVE  y.s = None /\ y.index = {} /\ y.out = x.out
<1>1. x.s # None /\ x.out \in Seq(ProxyItem)
  BY HandlerFields, WsControlAssumption
<1>2. i.req = None
  BY DEF HandlerItem
<1>3. OutItems(x, i) = <<>> \o <<>>
  BY <1>1, <1>2 DEF OutItems
<1>4. y = [RemoveSession(x) EXCEPT !.out = @ \o OutItems(x, i)]
  BY <1>1 DEF Handle
<1>5. RemoveSession(x) = [s |-> None, index |-> x.index \ x.s.channels, out |-> x.out]
  <2>1. PICK k : k = x.index \ x.s.channels
    OBVIOUS
  <2>2. RemoveSession(x) = [x EXCEPT !.s = None, !.index = k]
    BY <2>1 DEF RemoveSession
  <2>3. QED BY <2>1, <2>2 DEF HandlerRecord
<1>6. x.out \o OutItems(x, i) = x.out
  BY <1>1, <1>3
<1>7. QED BY <1>4, <1>5, <1>6

LEMMA NewSessionOK ==
    NewSession \in HandlerSession /\ SessionOK(NewSession)
<1>1. <<>> \in Seq(PublishedItem)
  OBVIOUS
<1>2. NewSession \in HandlerSession
  BY <1>1 DEF NewSession, HandlerSession
<1>3. QED BY <1>2 DEF NewSession, SessionOK, LoopContinues

\* The announcement makes a session, and is acknowledged.
LEMMA HandleHere ==
    ASSUME NEW x, NEW i \in InitItem, x = [s |-> x.s, index |-> x.index, out |-> x.out],
           x.out \in Seq(ProxyItem), NEW y, y = Handle(x, i)
    PROVE  /\ y.s = IF x.s = None THEN NewSession ELSE x.s
           /\ y.index = x.index
           /\ y.out = Append(x.out, Item("Ack", 0, None)) /\ y.out \in Seq(ProxyItem)
<1>1. i.type = "Here" /\ i.req = 0 /\ 0 # None
  BY WsControlAssumption DEF InitItem
<1>2. PICK a \in ProxyItem : a = Item("Ack", 0, None)
  BY DEF Item, ProxyItem
<1>3. OutItems(x, i) = <<a>> \o <<>>
  BY <1>1, <1>2 DEF OutItems
<1>4. x.out \o OutItems(x, i) = Append(x.out, a)
  BY <1>2, <1>3, ShortConcat
<1>5. PICK z : z = [x EXCEPT !.s = IF x.s = None THEN NewSession ELSE x.s]
  OBVIOUS
<1>6. y = [z EXCEPT !.out = @ \o OutItems(x, i)]
  BY <1>1, <1>5 DEF Handle
<1>7. /\ y.s = (IF x.s = None THEN NewSession ELSE x.s)
      /\ y.index = x.index /\ y.out = x.out \o OutItems(x, i)
  BY <1>5, <1>6
<1>8. QED BY <1>2, <1>4, <1>7, SeqOps

-----------------------------------------------------------------------------
(* Steps of the proxy                                                      *)

LEMMA AliveSession ==
    ASSUME TypeOK
    PROVE  Alive <=> p \in ControlSession
  BY WsControlAssumption DEF TypeOK, Alive

\* Order survives an item that asks for nothing, and the first item leaving.
LEMMA OrderedKept ==
    ASSUME NEW q \in Seq(HandlerItem), Ordered(q)
    PROVE  /\ \A j \in PlainItem : Ordered(Append(q, j))
           /\ q # <<>> => Ordered(Tail(q))
<1>1. ASSUME NEW j \in PlainItem PROVE Ordered(Append(q, j))
  <2>1. j \in HandlerItem /\ ~IsRequest(j)
    BY DEF PlainItem, IsRequest
  <2>2. \A n \in DOMAIN Append(q, j) :
          (n \in DOMAIN q /\ Append(q, j)[n] = q[n]) \/ Append(q, j)[n] = j
    BY <2>1
  <2>3. QED BY <2>1, <2>2 DEF Ordered
<1>2. ASSUME q # <<>> PROVE Ordered(Tail(q))
  <2>1. \A n \in DOMAIN Tail(q) : n \in Nat /\ n + 1 \in DOMAIN q /\ Tail(q)[n] = q[n + 1]
    BY <1>2
  <2>2. QED BY <2>1 DEF Ordered
<1>3. QED BY <1>1, <1>2

\* The pipe stays in order when no request is settled but by its item leaving.
LEMMA PipeKept ==
    ASSUME PipeOK, Pipe \in Seq(HandlerItem), requests' = requests,
           \A r \in DOMAIN requests : Settled(r)' => Settled(r),
           Pipe' = Pipe \/ \E j \in PlainItem : Pipe' = Append(Pipe, j)
    PROVE  PipeOK'
<1>1. PICK o \in Seq(HandlerItem) : o = Pipe
  OBVIOUS
<1>2. PICK q : q = Pipe'
  OBVIOUS
<1>3. Ordered(o) /\ \A n \in DOMAIN o : ItemOK(o[n])
  BY <1>1 DEF PipeOK
<1>4. \A i : ItemOK(i) => ItemOK(i)'
  BY DEF ItemOK
<1>5. \A j \in PlainItem : ItemOK(j)'
  BY DEF ItemOK, PlainItem, IsRequest
<1>6. CASE q = o
  BY <1>2, <1>3, <1>4, <1>6 DEF PipeOK
<1>7. CASE \E j \in PlainItem : q = Append(o, j)
  <2>1. PICK j \in PlainItem : q = Append(o, j)
    BY <1>7
  <2>2. Ordered(q)
    BY <1>3, <2>1, OrderedKept
  <2>3. \A n \in DOMAIN q : (n \in DOMAIN o /\ q[n] = o[n]) \/ q[n] = j
    BY <2>1 DEF PlainItem
  <2>4. \A n \in DOMAIN q : ItemOK(q[n])'
    BY <1>3, <1>4, <1>5, <2>3
  <2>5. QED BY <1>2, <2>2, <2>4 DEF PipeOK
<1>8. QED BY <1>1, <1>2, <1>6, <1>7

LEMMA DoneKept ==
    ASSUME SettledDone, UNCHANGED <<s, index, refused, requests>>,
           \A r \in DOMAIN requests : Settled(r)' => Settled(r)
    PROVE  SettledDone'
<1>1. \A r : Done(r) => Done(r)'
  BY DEF Done, NotLeft
<1>2. QED BY <1>1 DEF SettledDone

\* What is on its way to the proxy stays, or its first item is taken.
LEMMA ToProxyTaken ==
    ASSUME toProxy \in Seq(ProxyItem),
           toProxy' = toProxy \/ (toProxy # <<>> /\ toProxy' = Tail(toProxy))
    PROVE  /\ toProxy' \in Seq(ProxyItem)
           /\ \A n \in DOMAIN toProxy' : \E m \in DOMAIN toProxy : toProxy'[n] = toProxy[m]
           /\ toProxy = <<>> => toProxy' = <<>>
<1>1. PICK q \in Seq(ProxyItem) : q = toProxy
  OBVIOUS
<1>2. CASE toProxy' = q
  BY <1>1, <1>2
<1>3. CASE q # <<>> /\ toProxy' = Tail(q)
  <2>1. /\ Tail(q) \in Seq(ProxyItem)
        /\ \A n \in DOMAIN Tail(q) : n + 1 \in DOMAIN q /\ Tail(q)[n] = q[n + 1]
    BY <1>3
  <2>2. QED BY <1>1, <1>3, <2>1
<1>4. QED BY <1>1, <1>2, <1>3

\* A step of the proxy that makes no request.
LEMMA ProxyStep ==
    ASSUME Inv, Alive, p' \in ControlSession, UNCHANGED <<handlerVars, lost, toInit, requests>>,
           frames' \in Nat, toHandler' \in Seq(HandlerItem), Linked(p', toHandler'),
           p'.nextReqId = p.nextReqId, TimerOK(p'),
           Pipe' = Pipe \/ \E j \in PlainItem : Pipe' = Append(Pipe, j),
           toProxy' = toProxy \/ (toProxy # <<>> /\ toProxy' = Tail(toProxy)),
           \/ p'.pendingRequests = p.pendingRequests
           \/ /\ toProxy # <<>> /\ Head(toProxy).type = "Ack"
              /\ p'.pendingRequests = p.pendingRequests \ {Head(toProxy).req},
           toProxy = <<>> => p'.peer = p.peer
    PROVE  Inv'
<1>1. TypeOK /\ HandlerOK /\ ProxyOK /\ PipeOK /\ FreshOK /\ SettledDone /\ NoCancel
  BY DEF Inv
<1>2. /\ toProxy' \in Seq(ProxyItem) /\ toProxy \in Seq(ProxyItem)
      /\ \A n \in DOMAIN toProxy' : \E m \in DOMAIN toProxy : toProxy'[n] = toProxy[m]
      /\ toProxy = <<>> => toProxy' = <<>>
  BY <1>1, ToProxyTaken DEF TypeOK
<1>3. TypeOK'
  BY <1>1, <1>2 DEF TypeOK, handlerVars
<1>4. HandlerOK'
  BY <1>1 DEF HandlerOK, handlerVars
<1>5. \A r : Acking(r)' => Acking(r)
  BY <1>2 DEF Acking
<1>6. \A r : Settled(r)' => Settled(r)
  <2>1. toProxy # <<>> => 1 \in DOMAIN toProxy /\ Head(toProxy) = toProxy[1]
    BY <1>2
  <2>2. \A r : r \in p.pendingRequests /\ r \notin p'.pendingRequests => Acking(r)
    BY <2>1 DEF Acking
  <2>3. QED BY <1>5, <2>2 DEF Settled
<1>7. p'.pendingRequests \subseteq p.pendingRequests
  OBVIOUS
<1>8. ProxyOK'
  <2>1. Linked(p', toHandler') /\ p'.nextReqId = Len(requests') + 1
        /\ p'.pendingRequests \subseteq DOMAIN requests'
        /\ p'.requestTimer = (p'.pendingRequests # {})
    BY <1>1, <1>7 DEF ProxyOK, TimerOK
  <2>2. \A n \in DOMAIN toProxy' :
          toProxy'[n].type = "Ack" => toProxy'[n].req \in 0..Len(requests')
    BY <1>1, <1>2 DEF ProxyOK
  <2>3. QED BY <2>1, <2>2 DEF ProxyOK
<1>9. PipeOK'
  <2>1. p \in ControlSession
    BY <1>1, AliveSession
  <2>2. Pipe \in Seq(HandlerItem)
    BY <1>1, <2>1 DEF Pipe, PipeOf, TypeOK, ControlSession
  <2>3. QED BY <1>1, <1>6, <2>2, PipeKept
<1>10. FreshOK'
  <2>1. toInit # <<>> => /\ toProxy = <<>> /\ toProxy' = <<>> /\ p'.peer = p.peer
                         /\ p'.pendingRequests = p.pendingRequests
    BY <1>1, <1>2 DEF FreshOK
  <2>2. QED BY <1>1, <2>1 DEF FreshOK, handlerVars
<1>11. SettledDone'
  BY <1>1, <1>6, DoneKept DEF handlerVars
<1>12. NoCancel'
  <2>1. (\A n \in DOMAIN toProxy : toProxy[n].type # "Cancel") =>
          \A n \in DOMAIN toProxy' : toProxy'[n].type # "Cancel"
    BY <1>2
  <2>2. QED BY <1>1, <2>1 DEF NoCancel, handlerVars
<1>13. p' # None
  BY WsControlAssumption
<1>14. QED BY <1>3, <1>4, <1>8, <1>9, <1>10, <1>11, <1>12, <1>13 DEF Inv

\* The proxy's session ends.
LEMMA ProxyGone ==
    ASSUME Inv, p' = Gone, UNCHANGED <<handlerVars, lost, toInit>>,
           frames' \in Nat, requests' = <<>>, toHandler' \in Seq(HandlerItem),
           toProxy' = toProxy \/ (toProxy # <<>> /\ toProxy' = Tail(toProxy))
    PROVE  Inv'
<1>1. TypeOK /\ HandlerOK
  BY DEF Inv
<1>2. toProxy' \in Seq(ProxyItem)
  BY <1>1, ToProxyTaken DEF TypeOK
<1>3. TypeOK'
  BY <1>1, <1>2 DEF TypeOK, handlerVars
<1>4. HandlerOK'
  BY <1>1 DEF HandlerOK, handlerVars
<1>5. p' # None /\ ~Alive'
  BY WsControlAssumption DEF Alive
<1>6. QED BY <1>3, <1>4, <1>5 DEF Inv

LEMMA ProxyStateRecord ==
    ASSUME Inv, Alive
    PROVE  /\ ProxyState \in ProxyRecord /\ Linked(ProxyState.p, ProxyState.out)
           /\ TimerOK(ProxyState.p)
           /\ ProxyState.p = p /\ ProxyState.init = toInit /\ ProxyState.out = toHandler
<1>1. TypeOK /\ ProxyOK
  BY DEF Inv
<1>2. p \in ControlSession
  BY <1>1, AliveSession
<1>3. toInit \in Seq(InitItem) /\ toHandler \in Seq(HandlerItem)
  BY <1>1 DEF TypeOK
<1>4. QED BY <1>1, <1>2, <1>3 DEF ProxyState, ProxyRecord, ProxyOK, TimerOK

\* A step of the proxy by one of its operators.
LEMMA ProxyOperator ==
    ASSUME Inv, Alive, NEW y, y \in ProxyRecord \cup GoneRecord, Proxy(y), Plain(ProxyState, y),
           NEW f \in Nat, Keep(f, requests), UNCHANGED <<handlerVars, toProxy, lost>>
    PROVE  Inv'
<1>1. /\ ProxyState \in ProxyRecord /\ TimerOK(p)
      /\ ProxyState.p = p /\ ProxyState.init = toInit /\ ProxyState.out = toHandler
  BY ProxyStateRecord
<1>2. p' = y.p /\ toInit' = y.init /\ toHandler' = y.out
  BY DEF Proxy
<1>3. toInit' = toInit
  BY <1>1, <1>2 DEF Plain
<1>4. CASE y \in ProxyRecord
  <2>1. p' \in ControlSession /\ toHandler' \in Seq(HandlerItem)
    BY <1>2, <1>4, ProxyFields
  <2>2. p' # Gone
    BY <2>1, WsControlAssumption
  <2>3. frames' \in Nat /\ requests' = requests
    BY <2>2 DEF Keep
  <2>4. /\ p'.nextReqId = p.nextReqId /\ p'.peer = p.peer
        /\ p'.pendingRequests = p.pendingRequests /\ TimerOK(p')
        /\ Linked(p', toHandler')
    BY <1>1, <1>2, <1>4 DEF Plain, TimerOK
  <2>5. Pipe' = Pipe \/ \E j \in PlainItem : Pipe' = Append(Pipe, j)
    BY <1>1, <1>2, <1>4 DEF Plain, Pipe
  <2>6. QED BY <1>3, <2>1, <2>3, <2>4, <2>5, ProxyStep
<1>5. CASE y \in GoneRecord
  <2>1. p' = Gone /\ toHandler' \in Seq(HandlerItem)
    BY <1>2, <1>5 DEF GoneRecord
  <2>2. frames' \in Nat /\ requests' = <<>>
    BY <2>1 DEF Keep
  <2>3. QED BY <1>3, <2>1, <2>2, ProxyGone
<1>6. QED BY <1>4, <1>5

LEMMA EndStep ==
    ASSUME Inv, Finish \/ ControlTimeout
    PROVE  Inv'
<1>1. Alive /\ ProxyOnly(End(ProxyState)) /\ Keep(frames, requests)
  BY DEF Finish, ControlTimeout
<1>2. End(ProxyState) \in GoneRecord /\ End(ProxyState).init = ProxyState.init
  BY <1>1, ProxyStateRecord, EndGone
<1>3. End(ProxyState) \notin ProxyRecord
  BY <1>2, WsControlAssumption DEF ProxyRecord, GoneRecord
<1>4. Plain(ProxyState, End(ProxyState))
  BY <1>2, <1>3 DEF Plain
<1>5. frames \in Nat
  BY DEF Inv, TypeOK
<1>6. QED BY <1>1, <1>2, <1>4, <1>5, ProxyOperator DEF ProxyOnly

LEMMA ClientClosesStep ==
    ASSUME Inv, ClientCloses
    PROVE  Inv'
<1>1. PICK y : y = [ProxyState EXCEPT !.p.connected = FALSE]
  OBVIOUS
<1>2. Alive /\ ProxyOnly(y) /\ Keep(frames, requests)
  BY <1>1 DEF ClientCloses
<1>3. Aside(ProxyState, y)
  BY <1>1, <1>2, ProxyStateRecord, AsideFlags
<1>4. y \in ProxyRecord /\ Plain(ProxyState, y)
  BY <1>2, <1>3, ProxyStateRecord, AsidePlain DEF Aside
<1>5. frames \in Nat
  BY DEF Inv, TypeOK
<1>6. QED BY <1>2, <1>4, <1>5, ProxyOperator DEF ProxyOnly

LEMMA ClientWrittenStep ==
    ASSUME Inv, ClientWritten
    PROVE  Inv'
<1>1. PICK x : x = ProxyState
  OBVIOUS
<1>2. Alive /\ ProxyOnly(FramesWritten(x)) /\ Keep(frames, requests) /\ p.inPendingFrames # <<>>
  BY <1>1 DEF ClientWritten
<1>3. x \in ProxyRecord /\ Linked(x.p, x.out) /\ x.p = p
  BY <1>1, <1>2, ProxyStateRecord
<1>4. x.p.inPendingFrames \in Seq(Nat \cup {None})
  BY <1>3, ProxyFields
<1>5. PICK q \in Seq(Nat \cup {None}) : q = Tail(x.p.inPendingFrames)
  BY <1>2, <1>3, <1>4, SeqOps
<1>6. PICK z : z = [x EXCEPT !.p.inPendingFrames = q]
  OBVIOUS
<1>7. Aside(x, z)
  BY <1>3, <1>6, AsideFrames
<1>8. z \in ProxyRecord /\ Linked(z.p, z.out) /\ \A y : Plain(z, y) => Plain(x, y)
  BY <1>3, <1>7, AsidePlain DEF Aside
<1>9. FramesWritten(x) = SendEventWritten(z)
  BY <1>5, <1>6 DEF FramesWritten
<1>10. SendEventWritten(z) \in ProxyRecord \cup GoneRecord /\ Plain(x, SendEventWritten(z))
  BY <1>8, SendEventWrittenPlain
<1>11. frames \in Nat
  BY DEF Inv, TypeOK
<1>12. QED BY <1>1, <1>2, <1>9, <1>10, <1>11, ProxyOperator DEF ProxyOnly

LEMMA OriginFrameStep ==
    ASSUME Inv, NEW more \in BOOLEAN, OriginFrame(more)
    PROVE  Inv'
<1>1. PICK x : x = ProxyState
  OBVIOUS
<1>2. Alive /\ ProxyOnly(ReadOutContent(x, more)) /\ Keep(frames + 1, requests)
  BY <1>1 DEF OriginFrame
<1>3. x \in ProxyRecord /\ Linked(x.p, x.out)
  BY <1>1, <1>2, ProxyStateRecord
<1>4. PICK z : z = [x EXCEPT !.p.outReadInProgress = more]
  OBVIOUS
<1>5. Aside(x, z)
  BY <1>3, <1>4, AsideFlags
<1>6. z \in ProxyRecord /\ Linked(z.p, z.out) /\ \A y : Plain(z, y) => Plain(x, y)
  BY <1>3, <1>5, AsidePlain DEF Aside
<1>7. ReadOutContent(x, more) = WriteQueued(z)
  BY <1>4 DEF ReadOutContent
<1>8. Aside(z, WriteQueued(z))
  BY <1>6, WriteQueuedAside
<1>9. WriteQueued(z) \in ProxyRecord /\ Plain(x, WriteQueued(z))
  BY <1>6, <1>8, AsidePlain DEF Aside
<1>10. frames \in Nat /\ frames + 1 \in Nat
  BY DEF Inv, TypeOK
<1>11. QED BY <1>1, <1>2, <1>7, <1>9, <1>10, ProxyOperator DEF ProxyOnly

LEMMA KeepAliveStep ==
    ASSUME Inv, NeedKeepAlive \/ Refresh
    PROVE  Inv'
<1>1. frames \in Nat /\ frames + 1 \in Nat
  BY DEF Inv, TypeOK
<1>2. PICK i \in PlainItem, f \in Nat :
         Alive /\ ProxyOnly(Write(ProxyState, i)) /\ Keep(f, requests)
  <2>1. /\ Item("NeedKeepAlive", None, None) \in PlainItem
        /\ Item("KeepAlive", None, None) \in PlainItem
    BY ItemTypes
  <2>2. CASE NeedKeepAlive
    BY <1>1, <2>1, <2>2 DEF NeedKeepAlive
  <2>3. CASE Refresh
    BY <1>1, <2>1, <2>3 DEF Refresh
  <2>4. QED BY <2>2, <2>3
<1>3. Write(ProxyState, i) \in ProxyRecord /\ Plain(ProxyState, Write(ProxyState, i))
  BY <1>2, ProxyStateRecord, WritePlain
<1>4. QED BY <1>2, <1>3, ProxyOperator DEF ProxyOnly

LEMMA ProxyReceiveStep ==
    ASSUME Inv, ProxyReceive
    PROVE  Inv'
<1>1. /\ toProxy # <<>> /\ toProxy' = Tail(toProxy) /\ Keep(frames, requests)
      /\ UNCHANGED <<handlerVars, lost>>
  BY DEF ProxyReceive
<1>2. toProxy \in Seq(ProxyItem) /\ frames \in Nat /\ toHandler \in Seq(HandlerItem)
  BY DEF Inv, TypeOK
<1>3. PICK i \in ProxyItem : i = Head(toProxy)
  BY <1>1, <1>2, SeqOps
<1>4. CASE Alive
  <2>1. PICK blocked \in BOOLEAN : Proxy(HandleEvent(ProxyState, i, blocked))
    BY <1>3, <1>4 DEF ProxyReceive
  <2>2. PICK y : y = HandleEvent(ProxyState, i, blocked)
    OBVIOUS
  <2>3. /\ ProxyState \in ProxyRecord /\ Linked(ProxyState.p, ProxyState.out)
        /\ TimerOK(ProxyState.p)
        /\ ProxyState.p = p /\ ProxyState.init = toInit /\ ProxyState.out = toHandler
    BY <1>4, ProxyStateRecord
  <2>4. y \in ProxyRecord \cup GoneRecord /\ Answered(ProxyState, i, y)
    BY <2>2, <2>3, HandleEventAnswers
  <2>5. p' = y.p /\ toInit' = y.init /\ toHandler' = y.out
    BY <2>1, <2>2 DEF Proxy
  <2>6. toInit' = toInit
    BY <2>3, <2>4, <2>5 DEF Answered
  <2>7. CASE y \in ProxyRecord
    <3>1. p' \in ControlSession /\ toHandler' \in Seq(HandlerItem)
      BY <2>5, <2>7, ProxyFields
    <3>2. p' # Gone
      BY <3>1, WsControlAssumption
    <3>3. frames' \in Nat /\ requests' = requests
      BY <1>1, <1>2, <3>2 DEF Keep
    <3>4. p'.nextReqId = p.nextReqId /\ TimerOK(p') /\ Linked(p', toHandler')
      BY <2>3, <2>4, <2>5, <2>7 DEF Answered
    <3>5. \/ p'.pendingRequests = p.pendingRequests
          \/ i.type = "Ack" /\ p'.pendingRequests = p.pendingRequests \ {i.req}
      BY <2>3, <2>4, <2>5, <2>7 DEF Answered
    <3>6. Pipe' = Pipe \/ \E j \in PlainItem : Pipe' = Append(Pipe, j)
      BY <2>3, <2>4, <2>5, <2>7 DEF Answered, Pipe
    <3>7. QED BY <1>1, <1>3, <1>4, <2>6, <3>1, <3>3, <3>4, <3>5, <3>6, ProxyStep
  <2>8. CASE y \in GoneRecord
    <3>1. p' = Gone /\ toHandler' \in Seq(HandlerItem)
      BY <2>5, <2>8 DEF GoneRecord
    <3>2. frames' \in Nat /\ requests' = <<>>
      BY <1>1, <3>1 DEF Keep
    <3>3. QED BY <1>1, <2>6, <3>1, <3>2, ProxyGone
  <2>9. QED BY <2>4, <2>7, <2>8
<1>5. CASE ~Alive
  <2>1. p = Gone
    BY <1>1, <1>5 DEF Alive, Inv, Quiet
  <2>2. PICK y : y = HandleUnknown(ProxyState, i)
    OBVIOUS
  <2>3. Proxy(y)
    BY <1>3, <1>5, <2>2 DEF ProxyReceive
  <2>4. PICK a \in HandlerItem : a = Item("Cancel", None, None)
    BY ItemTypes
  <2>5. PICK q \in Seq(HandlerItem) : q = Append(toHandler, a)
    BY <1>2, SeqOps
  <2>6. y = ProxyState \/ y = [ProxyState EXCEPT !.out = q]
    <3>1. ProxyState.out = toHandler
      BY DEF ProxyState
    <3>2. QED BY <2>2, <2>4, <2>5, <3>1 DEF HandleUnknown
  <2>7. y.p = p /\ y.init = toInit /\ y.out \in Seq(HandlerItem)
    BY <1>2, <2>6 DEF ProxyState
  <2>8. p' = Gone /\ toInit' = toInit /\ toHandler' \in Seq(HandlerItem)
    BY <2>1, <2>3, <2>7 DEF Proxy
  <2>9. frames' \in Nat /\ requests' = <<>>
    BY <1>1, <2>8 DEF Keep
  <2>10. QED BY <1>1, <2>8, <2>9, ProxyGone
<1>6. QED BY <1>4, <1>5

\* A request has a number that no other has had, so it is last and not settled.
LEMMA SendGripStep ==
    ASSUME Inv, NEW g \in Grips, SendGrip(g)
    PROVE  Inv'
<1>1. Alive /\ TypeOK /\ HandlerOK /\ ProxyOK /\ PipeOK /\ FreshOK /\ SettledDone /\ NoCancel
  BY DEF Inv, SendGrip
<1>2. PICK x : x = ProxyState
  OBVIOUS
<1>3. PICK z : z = Request(x, "Grip", g)
  OBVIOUS
<1>4. PICK y : y = WriteQueued(z)
  OBVIOUS
<1>5. /\ x \in ProxyRecord /\ Linked(x.p, x.out)
      /\ x.p = p /\ x.init = toInit /\ x.out = toHandler
  BY <1>1, <1>2, ProxyStateRecord
<1>6. /\ z \in ProxyRecord /\ Linked(z.p, z.out) /\ z.init = x.init
      /\ TimerOK(z.p) /\ z.p.peer = x.p.peer
      /\ z.p.nextReqId = x.p.nextReqId + 1
      /\ z.p.pendingRequests = x.p.pendingRequests \cup {x.p.nextReqId}
      /\ PipeOf(z.p, z.out) = Append(PipeOf(x.p, x.out), Item("Grip", x.p.nextReqId, g))
  <2>1. Linked(x.p, x.out) /\ x \in ProxyRecord
    BY <1>5
  <2>2. QED BY <1>3, <2>1, RequestWrites, SMTT(30)
<1>7. Aside(z, y)
  BY <1>4, <1>6, WriteQueuedAside
<1>8. y \in ProxyRecord /\ Linked(y.p, y.out) /\ PipeOf(y.p, y.out) = PipeOf(z.p, z.out)
  BY <1>6, <1>7, AsidePlain DEF Aside
<1>9. p' = y.p /\ toInit' = y.init /\ toHandler' = y.out /\ UNCHANGED <<handlerVars, toProxy, lost>>
  BY <1>2, <1>3, <1>4 DEF SendGrip, ReadOutGrip, ProxyOnly, Proxy
<1>10. p' \in ControlSession /\ toHandler' \in Seq(HandlerItem)
  BY <1>8, <1>9, ProxyFields
<1>11. p' # Gone /\ p' # None
  BY <1>10, WsControlAssumption
<1>12. PICK n \in Nat : n = Len(requests) + 1 /\ n = p.nextReqId /\ n >= 1
  BY <1>1 DEF TypeOK, ProxyOK
<1>13. /\ requests \in Seq(Grips \cup [kind : {"implicit"}, channel : Channels])
       /\ requests' = Append(requests, g) /\ frames' = frames
  BY <1>1, <1>11 DEF SendGrip, Keep, TypeOK
<1>14. /\ DOMAIN requests = 1..(n - 1) /\ DOMAIN requests' = 1..n /\ Len(requests') = n
       /\ requests'[n] = g /\ \A r \in DOMAIN requests : requests'[r] = requests[r]
       /\ requests' \in Seq(Grips \cup [kind : {"implicit"}, channel : Channels])
  BY <1>12, <1>13
<1>15. /\ toInit' = toInit /\ p'.peer = p.peer /\ p'.nextReqId = n + 1
       /\ p'.pendingRequests = p.pendingRequests \cup {n}
       /\ p'.requestTimer = (p'.pendingRequests # {})
       /\ Linked(p', toHandler')
  BY <1>5, <1>6, <1>7, <1>8, <1>9, <1>12 DEF Aside, TimerOK
<1>16. PICK i : i = Item("Grip", n, g) /\ i \in HandlerItem
  BY ItemTypes
<1>17. Pipe' = Append(Pipe, i)
  BY <1>5, <1>6, <1>8, <1>9, <1>12, <1>16 DEF Pipe
<1>18. TypeOK'
  BY <1>1, <1>9, <1>10, <1>13, <1>14, <1>15 DEF TypeOK, handlerVars
<1>19. HandlerOK'
  BY <1>1, <1>9 DEF HandlerOK, handlerVars
<1>20. \A r : Acking(r)' <=> Acking(r)
  BY <1>9 DEF Acking
<1>21. ~Acking(n)
  BY <1>1, <1>12 DEF Acking, ProxyOK
<1>22. \A r \in DOMAIN requests' : Settled(r)' => r \in DOMAIN requests /\ Settled(r)
  <2>1. \A r \in 1..n : r = n \/ r \in 1..(n - 1)
    OBVIOUS
  <2>2. QED BY <1>14, <1>15, <1>20, <1>21, <2>1 DEF Settled
<1>23. ProxyOK'
  <2>1. p'.pendingRequests \subseteq DOMAIN requests'
    <3>1. \A r \in 1..(n - 1) : r \in 1..n
      OBVIOUS
    <3>2. n \in 1..n
      BY <1>12
    <3>3. QED BY <1>1, <1>14, <1>15, <3>1, <3>2 DEF ProxyOK
  <2>2. \A k \in DOMAIN toProxy' : toProxy'[k].type = "Ack" => toProxy'[k].req \in 0..Len(requests')
    <3>1. \A k \in DOMAIN toProxy : toProxy[k].type = "Ack" => toProxy[k].req \in 0..(n - 1)
      BY <1>1, <1>12 DEF ProxyOK
    <3>2. \A r \in 0..(n - 1) : r \in 0..n
      OBVIOUS
    <3>3. QED BY <1>9, <1>14, <3>1, <3>2
  <2>3. QED BY <1>14, <1>15, <2>1, <2>2 DEF ProxyOK
<1>24. PipeOK'
  <2>1. p \in ControlSession
    BY <1>1, AliveSession
  <2>2. PICK o \in Seq(HandlerItem) : o = Pipe
    BY <1>1, <2>1 DEF Pipe, PipeOf, TypeOK, ControlSession
  <2>3. PICK q : q = Append(o, i)
    OBVIOUS
  <2>4. Ordered(o) /\ \A k \in DOMAIN o : ItemOK(o[k])
    BY <1>1, <2>2 DEF PipeOK
  <2>5. \A j : ItemOK(j) => ItemOK(j)'
    <3>1. ASSUME NEW j, ItemOK(j) PROVE ItemOK(j)'
      <4>1. CASE IsRequest(j)
        <5>1. /\ j.req \in DOMAIN requests /\ requests[j.req] = About(j)
              /\ \A r \in DOMAIN requests : Settled(r) => r < j.req
          BY <3>1, <4>1 DEF ItemOK
        <5>2. j.req \in DOMAIN requests' /\ requests'[j.req] = About(j)
          BY <1>14, <5>1
        <5>3. \A r \in DOMAIN requests' : Settled(r)' => r < j.req
          BY <1>22, <5>1
        <5>4. QED BY <3>1, <5>2, <5>3 DEF ItemOK
      <4>2. CASE ~IsRequest(j)
        BY <3>1, <4>2 DEF ItemOK
      <4>3. QED BY <4>1, <4>2
    <3>2. QED BY <3>1
  <2>6. i.req = n /\ IsRequest(i) /\ About(i) = g /\ i.type = "Grip"
    BY <1>16 DEF Item, IsRequest, About
  <2>7. ItemOK(i)'
    <3>1. n \in DOMAIN requests' /\ requests'[n] = g
      BY <1>12, <1>14
    <3>2. \A r \in DOMAIN requests' : Settled(r)' => r < n
      BY <1>14, <1>22
    <3>3. QED BY <2>6, <3>1, <3>2 DEF ItemOK
  <2>8. \A k \in DOMAIN o : IsRequest(o[k]) => o[k].req \in 1..(n - 1)
    BY <1>14, <2>4 DEF ItemOK
  <2>9. /\ \A k \in DOMAIN q : (k \in DOMAIN o /\ q[k] = o[k]) \/ (k = Len(o) + 1 /\ q[k] = i)
        /\ \A k \in DOMAIN o : k \in Nat /\ k < Len(o) + 1
    BY <1>16, <2>3
  <2>10. Ordered(q)
    <3>1. ASSUME NEW k \in DOMAIN q, NEW m \in DOMAIN q, k < m, IsRequest(q[k]), IsRequest(q[m])
          PROVE  q[k].req < q[m].req
      <4>1. k \in DOMAIN o /\ q[k] = o[k]
        BY <2>9, <3>1
      <4>2. CASE m \in DOMAIN o /\ q[m] = o[m]
        BY <2>4, <3>1, <4>1, <4>2 DEF Ordered
      <4>3. CASE q[m] = i
        BY <2>6, <2>8, <3>1, <4>1, <4>3
      <4>4. QED BY <2>9, <4>2, <4>3
    <3>2. QED BY <3>1 DEF Ordered
  <2>11. \A k \in DOMAIN q : ItemOK(q[k])'
    BY <2>4, <2>5, <2>7, <2>9
  <2>12. q = Pipe'
    BY <1>17, <2>2, <2>3
  <2>13. QED BY <2>10, <2>11, <2>12 DEF PipeOK
<1>25. FreshOK'
  <2>1. p.pendingRequests = DOMAIN requests => p'.pendingRequests = DOMAIN requests'
    <3>1. (1..(n - 1)) \cup {n} = 1..n
      BY <1>12, <1>14
    <3>2. QED BY <1>14, <1>15, <3>1
  <2>2. QED BY <1>1, <1>9, <1>15, <2>1 DEF FreshOK, handlerVars
<1>26. SettledDone'
  <2>1. s' = s /\ index' = index /\ refused' = refused
    BY <1>9 DEF handlerVars
  <2>2. ASSUME NEW r \in DOMAIN requests, Done(r) PROVE Done(r)'
    <3>1. requests'[r] = requests[r]
      BY <1>14
    <3>2. \A ch : NotLeft(r, ch)' => NotLeft(r, ch)
      <4>1. \A k \in r..Len(requests) : k \in r..Len(requests') /\ k \in DOMAIN requests
        BY <1>12, <1>14
      <4>2. QED BY <1>14, <4>1 DEF NotLeft
    <3>3. QED BY <2>1, <2>2, <3>1, <3>2 DEF Done
  <2>3. QED BY <1>1, <1>22, <2>1, <2>2 DEF SettledDone
<1>27. NoCancel'
  BY <1>1, <1>9, <1>15 DEF NoCancel, handlerVars
<1>28. QED BY <1>11, <1>18, <1>19, <1>23, <1>24, <1>25, <1>26, <1>27 DEF Inv

\* The session starts: the announcement is under way, everything else waits.
LEMMA StartStep ==
    ASSUME Inv, Start
    PROVE  Inv'
<1>1. TypeOK /\ HandlerOK /\ Quiet /\ p = None
  BY DEF Inv, Start
<1>2. Implicit \in Seq(Channels)
  BY WsControlAssumption
<1>3. PICK n \in Nat : n = Len(Implicit)
  BY <1>2
<1>4. PICK q : q = [r \in 1..n |-> Item("Subscribe", r, Implicit[r])]
  OBVIOUS
<1>5. /\ q \in Seq(HandlerItem) /\ DOMAIN q = 1..n
      /\ \A r \in 1..n : q[r] = Item("Subscribe", r, Implicit[r]) /\ Implicit[r] \in Channels
  <2>1. \A r \in 1..n : r \in Nat /\ Implicit[r] \in Channels
    BY <1>2, <1>3
  <2>2. \A r \in 1..n : Item("Subscribe", r, Implicit[r]) \in HandlerItem
    BY <2>1, ItemTypes
  <2>3. QED BY <1>4, <2>1, <2>2
<1>6. PICK c : c = SetupControlTimer([NewControlSession EXCEPT
                !.nextReqId = n + 1, !.pendingRequests = 1..n, !.pendingItems = q])
  OBVIOUS
<1>7. /\ c \in ControlSession /\ ~c.peer /\ c.nextReqId = n + 1 /\ c.pendingRequests = 1..n
      /\ c.requestTimer = (c.pendingRequests # {}) /\ c.pendingItems = q
  <2>1. PICK e \in Seq(Nat \cup {None}) : e = <<>>
    <3>1. <<>> \in Seq(Nat \cup {None})
      OBVIOUS
    <3>2. QED BY <3>1
  <2>2. (1..n # {}) \in BOOLEAN
    OBVIOUS
  <2>3. PICK b \in BOOLEAN : b = (1..n # {})
    BY <2>2
  <2>4. PICK w \in SUBSET Nat : w = 1..n
    OBVIOUS
  <2>5. n + 1 \in Nat
    OBVIOUS
  <2>6. c = [peer |-> FALSE, nextReqId |-> n + 1, pendingItems |-> q,
             pendingRequests |-> w, requestTimer |-> b,
             pendingSendEventWrites |-> e,
             outReadInProgress |-> FALSE, queuedInFrames |-> e, inPendingFrames |-> e,
             keepAlive |-> FALSE, detached |-> FALSE, connected |-> TRUE]
    BY <1>6, <2>1, <2>3, <2>4 DEF SetupControlTimer, NewControlSession
  <2>7. c \in ControlSession
    BY <1>5, <2>5, <2>6 DEF ControlSession
  <2>8. QED BY <2>3, <2>4, <2>6, <2>7
<1>8. PICK h \in InitItem : h = Item("Here", 0, None)
  BY ItemTypes
<1>9. StartControl(ProxyState) = [ProxyState EXCEPT !.p = c, !.init = Append(@, h)]
  BY <1>3, <1>4, <1>6, <1>8 DEF StartControl
<1>10. /\ p' = c /\ toInit' = Append(toInit, h) /\ toHandler' = toHandler
       /\ UNCHANGED <<handlerVars, toProxy, lost>>
  BY <1>9 DEF Start, ProxyOnly, Proxy, ProxyState
<1>11. c # Gone /\ c # None
  BY <1>7, WsControlAssumption
<1>12. /\ requests' = [r \in DOMAIN Implicit |-> Grip("implicit", Implicit[r])]
       /\ frames' = frames
  BY <1>10, <1>11 DEF Start, Keep
<1>13. /\ DOMAIN requests' = 1..n /\ Len(requests') = n
       /\ \A r \in 1..n : requests'[r] = Grip("implicit", Implicit[r])
       /\ requests' \in Seq(Grips \cup [kind : {"implicit"}, channel : Channels])
  <2>1. DOMAIN Implicit = 1..n
    BY <1>2, <1>3
  <2>2. \A r \in 1..n : Grip("implicit", Implicit[r]) \in [kind : {"implicit"}, channel : Channels]
    BY <1>5 DEF Grip
  <2>3. QED BY <1>12, <2>1, <2>2
<1>14. toInit' \in Seq(InitItem) /\ Len(toInit') = 1 /\ toInit' # <<>>
  BY <1>1, <1>10 DEF Quiet
<1>15. TypeOK'
  BY <1>1, <1>7, <1>10, <1>12, <1>13, <1>14 DEF TypeOK, handlerVars
<1>16. HandlerOK'
  BY <1>1, <1>10 DEF HandlerOK, handlerVars
<1>17. toProxy' = <<>> /\ toHandler' = <<>> /\ s' = None
  BY <1>1, <1>10 DEF Quiet, handlerVars
<1>18. \A r : ~Acking(r)'
  BY <1>17 DEF Acking
<1>19. \A r \in DOMAIN requests' : ~Settled(r)'
  BY <1>7, <1>10, <1>13, <1>18 DEF Settled
<1>20. ProxyOK'
  <2>1. Linked(p', toHandler')
    BY <1>7, <1>10, <1>17 DEF Linked
  <2>2. /\ p'.nextReqId = Len(requests') + 1 /\ p'.pendingRequests = DOMAIN requests'
        /\ p'.requestTimer = (p'.pendingRequests # {})
    BY <1>7, <1>10, <1>13
  <2>3. DOMAIN toProxy' = {}
    BY <1>17
  <2>4. QED BY <2>1, <2>2, <2>3 DEF ProxyOK
<1>21. PipeOK'
  <2>1. Pipe' = q
    BY <1>7, <1>10 DEF Pipe, PipeOf
  <2>2. \A r \in 1..n : /\ q[r].type = "Subscribe" /\ q[r].req = r /\ q[r].arg = Implicit[r]
                         /\ IsRequest(q[r]) /\ About(q[r]) = Grip("implicit", Implicit[r])
    BY <1>5 DEF Item, IsRequest, About
  <2>3. Ordered(q)
    BY <1>5, <2>2 DEF Ordered
  <2>4. \A r \in DOMAIN q : ItemOK(q[r])'
    BY <1>5, <1>13, <1>19, <2>2 DEF ItemOK
  <2>5. QED BY <2>1, <2>3, <2>4 DEF PipeOK
<1>22. FreshOK'
  BY <1>7, <1>10, <1>13, <1>14, <1>17 DEF FreshOK
<1>23. SettledDone' /\ NoCancel'
  BY <1>14, <1>17 DEF SettledDone, NoCancel
<1>24. p' # None
  BY <1>10, <1>11
<1>25. QED BY <1>15, <1>16, <1>20, <1>21, <1>22, <1>23, <1>24 DEF Inv

-----------------------------------------------------------------------------
(* Steps of the handler                                                    *)

LEMMA HandlerStateRecord ==
    ASSUME Inv
    PROVE  /\ HandlerState = [s |-> s, index |-> index, out |-> toProxy]
           /\ HandlerState.s = s /\ HandlerState.index = index /\ HandlerState.out = toProxy
           /\ toProxy \in Seq(ProxyItem)
           /\ s # None => /\ HandlerState \in HandlerRecord /\ SessionOK(s) /\ SessionBase(s)
                          /\ index \subseteq s.channels /\ s \in HandlerSession
<1>1. TypeOK /\ HandlerOK
  BY DEF Inv
<1>2. /\ HandlerState = [s |-> s, index |-> index, out |-> toProxy]
      /\ HandlerState.s = s /\ HandlerState.index = index /\ HandlerState.out = toProxy
  BY DEF HandlerState
<1>3. toProxy \in Seq(ProxyItem) /\ index \in SUBSET Channels
  BY <1>1 DEF TypeOK
<1>4. s # None => s \in HandlerSession /\ index \subseteq s.channels /\ SessionOK(s)
  BY <1>1 DEF TypeOK, HandlerOK
<1>5. s # None => SessionBase(s)
  BY <1>4 DEF SessionOK, SessionBase
<1>6. s # None => HandlerState \in HandlerRecord
  BY <1>2, <1>3, <1>4 DEF HandlerRecord
<1>7. QED BY <1>2, <1>3, <1>4, <1>5, <1>6

\* A step of the handler within its session that is about no request.
LEMMA HandlerStep ==
    ASSUME Inv, s # None, NEW y, Keeps(HandlerState, y), SessionOK(y.s), Handler(y),
           limiter' \in Seq(PublishedItem), published' \in Nat,
           UNCHANGED <<gaveUp, refused, proxyVars, toHandler, lost>>
    PROVE  Inv'
<1>1. /\ HandlerState.s = s /\ HandlerState.index = index /\ HandlerState.out = toProxy
      /\ toProxy \in Seq(ProxyItem) /\ index \subseteq s.channels
  BY HandlerStateRecord
<1>2. /\ s' = y.s /\ index' = index /\ toProxy' = y.out
      /\ s'.implicitChannels = s.implicitChannels /\ s.channels \subseteq s'.channels
      /\ Emits(toProxy, toProxy', {})
  BY <1>1 DEF Handler, Keeps
<1>3. s' \in HandlerSession /\ s' # None /\ toProxy' \in Seq(ProxyItem)
  BY <1>2, HandlerFields, WsControlAssumption DEF Keeps
<1>4. p' = p /\ toInit' = toInit /\ frames' = frames /\ requests' = requests
  BY DEF proxyVars
<1>5. TypeOK'
  BY <1>2, <1>3, <1>4 DEF Inv, TypeOK
<1>6. HandlerOK'
  BY <1>1, <1>2, <1>3 DEF HandlerOK
<1>7. p # None
  BY DEF Inv, Quiet
<1>8. \A n \in DOMAIN toProxy' :
         \/ \E m \in DOMAIN toProxy : toProxy'[n] = toProxy[m]
         \/ toProxy'[n].type \notin {"Ack", "Cancel"}
  BY <1>2 DEF Emits, Says
<1>9. \A r : Acking(r)' => Acking(r)
  BY <1>8 DEF Acking
<1>10. \A r : Settled(r)' => Settled(r)
  BY <1>4, <1>9 DEF Settled
<1>11. CASE Alive
  <2>1. TypeOK /\ ProxyOK /\ PipeOK /\ FreshOK /\ SettledDone /\ NoCancel
    BY <1>11 DEF Inv
  <2>2. ProxyOK'
    BY <1>4, <1>8, <2>1 DEF ProxyOK
  <2>3. PipeOK'
    <3>1. Pipe \in Seq(HandlerItem)
      BY <1>11, <2>1, AliveSession DEF Pipe, PipeOf, TypeOK, ControlSession
    <3>2. Pipe' = Pipe
      BY <1>4 DEF Pipe
    <3>3. QED BY <1>4, <1>10, <2>1, <3>1, <3>2, PipeKept
  <2>4. FreshOK'
    BY <1>4, <2>1 DEF FreshOK
  <2>5. SettledDone'
    <3>1. \A r : Done(r) => Done(r)'
      BY <1>2, <1>4 DEF Done, NotLeft
    <3>2. QED BY <1>4, <1>10, <2>1, <3>1 DEF SettledDone
  <2>6. NoCancel'
    BY <1>3, <1>8, <2>1 DEF NoCancel
  <2>7. QED BY <1>4, <1>5, <1>6, <1>7, <2>2, <2>3, <2>4, <2>5, <2>6 DEF Inv
<1>12. CASE ~Alive
  <2>1. ~Alive'
    BY <1>4, <1>12 DEF Alive
  <2>2. QED BY <1>4, <1>5, <1>6, <1>7, <2>1 DEF Inv
<1>13. QED BY <1>11, <1>12

LEMMA DelayedTimerStep ==
    ASSUME Inv, DelayedTimer
    PROVE  Inv'
<1>1. /\ s # None /\ Handler(DelayedTimeout(HandlerState))
      /\ UNCHANGED <<limiter, published, gaveUp, refused, proxyVars, toHandler, lost>>
  BY DEF DelayedTimer
<1>2. HandlerState \in HandlerRecord /\ HandlerState.s = s /\ SessionBase(s) /\ SessionOK(s)
  BY <1>1, HandlerStateRecord
<1>3. PICK y : y = DelayedTimeout(HandlerState)
  OBVIOUS
<1>4. /\ Keeps(HandlerState, y)
      /\ y.s.inProcess = s.inProcess /\ LoopContinues(y.s) = LoopContinues(s)
  BY <1>2, <1>3, DelayedTimeoutKeeps
<1>5. SessionOK(y.s)
  BY <1>2, <1>4 DEF Keeps, SessionOK, SessionBase
<1>6. limiter' \in Seq(PublishedItem) /\ published' \in Nat
  BY <1>1 DEF Inv, TypeOK
<1>7. QED BY <1>1, <1>3, <1>4, <1>5, <1>6, HandlerStep

LEMMA ItemReadyStep ==
    ASSUME Inv, NEW c \in Channels, NEW action \in PublishActions, ItemReady(c, action)
    PROVE  Inv'
<1>1. /\ c \in index /\ published' = published + 1
      /\ limiter' = Append(limiter, Published(c, action))
      /\ UNCHANGED <<s, index, gaveUp, refused, proxyVars, toHandler, toProxy, lost>>
  BY DEF ItemReady
<1>2. s # None
  BY <1>1 DEF Inv, HandlerOK
<1>3. HandlerState \in HandlerRecord /\ HandlerState.s = s /\ SessionBase(s) /\ SessionOK(s)
  BY <1>2, HandlerStateRecord
<1>4. Keeps(HandlerState, HandlerState) /\ Handler(HandlerState)
  BY <1>1, <1>3, KeepsSame, HandlerStateRecord DEF Handler
<1>5. Published(c, action) \in PublishedItem
  BY DEF Published, PublishedItem
<1>6. limiter' \in Seq(PublishedItem) /\ published' \in Nat
  BY <1>1, <1>5, SeqOps DEF Inv, TypeOK
<1>7. QED BY <1>1, <1>2, <1>3, <1>4, <1>6, HandlerStep

LEMMA PublishNextStep ==
    ASSUME Inv, PublishNext
    PROVE  Inv'
<1>1. /\ limiter # <<>> /\ Handler(Publish(HandlerState, Head(limiter)))
      /\ limiter' = Tail(limiter)
      /\ UNCHANGED <<published, gaveUp, refused, proxyVars, toHandler, lost>>
  BY DEF PublishNext
<1>2. s # None
  BY <1>1 DEF Inv, HandlerOK
<1>3. limiter \in Seq(PublishedItem)
  BY DEF Inv, TypeOK
<1>4. PICK item \in PublishedItem : item = Head(limiter)
  BY <1>1, <1>3, SeqOps
<1>5. limiter' \in Seq(PublishedItem) /\ published' \in Nat
  BY <1>1, <1>3, SeqOps DEF Inv, TypeOK
<1>6. HandlerState \in HandlerRecord /\ HandlerState.s = s /\ SessionBase(s)
  BY <1>2, HandlerStateRecord
<1>7. PICK y : y = Publish(HandlerState, item)
  OBVIOUS
<1>8. Keeps(HandlerState, y) /\ SessionOK(y.s)
  BY <1>6, <1>7, PublishKeeps
<1>9. QED BY <1>1, <1>2, <1>4, <1>5, <1>7, <1>8, HandlerStep

LEMMA ProcessQueueStep ==
    ASSUME Inv, ProcessQueue
    PROVE  Inv'
<1>1. /\ s # None /\ s.inProcess
      /\ Handler(StartFilters(HandlerState)) \/ Handler(Mismatch(HandlerState))
      /\ UNCHANGED <<limiter, published, gaveUp, refused, proxyVars, toHandler, lost>>
  BY DEF ProcessQueue, Idle
<1>2. HandlerState \in HandlerRecord /\ HandlerState.s = s /\ SessionBase(s) /\ SessionOK(s)
  BY <1>1, HandlerStateRecord
<1>3. s.publishQueue # <<>> /\ ~s.filters
  BY <1>1, <1>2 DEF SessionOK, LoopContinues
<1>4. PICK y : (y = StartFilters(HandlerState) \/ y = Mismatch(HandlerState)) /\ Handler(y)
  BY <1>1
<1>5. Keeps(HandlerState, y) /\ SessionOK(y.s)
  BY <1>2, <1>3, <1>4, StartFiltersKeeps, MismatchKeeps
<1>6. limiter' \in Seq(PublishedItem) /\ published' \in Nat
  BY <1>1 DEF Inv, TypeOK
<1>7. QED BY <1>1, <1>4, <1>5, <1>6, HandlerStep

LEMMA FinishFiltersStep ==
    ASSUME Inv, NEW result \in FilterResults, FinishFilters(result)
    PROVE  Inv'
<1>1. /\ s # None /\ s.filters /\ Handler(FiltersFinished(HandlerState, result))
      /\ UNCHANGED <<limiter, published, gaveUp, refused, proxyVars, toHandler, lost>>
  BY DEF FinishFilters
<1>2. HandlerState \in HandlerRecord /\ HandlerState.s = s /\ SessionBase(s)
  BY <1>1, HandlerStateRecord
<1>3. s.publishQueue # <<>>
  BY <1>1, <1>2 DEF SessionBase
<1>4. PICK y : y = FiltersFinished(HandlerState, result)
  OBVIOUS
<1>5. Keeps(HandlerState, y) /\ SessionOK(y.s)
  BY <1>2, <1>3, <1>4, FiltersFinishedKeeps
<1>6. limiter' \in Seq(PublishedItem) /\ published' \in Nat
  BY <1>1 DEF Inv, TypeOK
<1>7. QED BY <1>1, <1>4, <1>5, <1>6, HandlerStep

\* The handler is without its session.
LEMMA SessionLeaves ==
    ASSUME Inv, s' = None, index' = {}, limiter' = <<>>, refused' = {}, published' = published,
           gaveUp' \in BOOLEAN, lost' \in Nat, UNCHANGED <<proxyVars, toHandler>>,
           Alive => lost' # 0 \/ gaveUp',
           toProxy' = toProxy \/ (s # None /\ toProxy' = Append(toProxy, Item("Cancel", None, None)))
    PROVE  Inv'
<1>1. TypeOK /\ HandlerOK
  BY DEF Inv
<1>2. p' = p /\ toInit' = toInit /\ frames' = frames /\ requests' = requests
  BY DEF proxyVars
<1>3. PICK a : a = Item("Cancel", None, None) /\ a \in ProxyItem /\ a.type = "Cancel"
  <2>1. Item("Cancel", None, None) \in ProxyItem /\ Item("Cancel", None, None).type = "Cancel"
    BY DEF Item, ProxyItem
  <2>2. QED BY <2>1
<1>4. toProxy \in Seq(ProxyItem)
  BY <1>1 DEF TypeOK
<1>5. /\ toProxy' \in Seq(ProxyItem)
      /\ \A n \in DOMAIN toProxy' : (n \in DOMAIN toProxy /\ toProxy'[n] = toProxy[n]) \/ toProxy'[n] = a
  <2>1. CASE toProxy' = toProxy
    BY <1>4, <2>1
  <2>2. CASE toProxy' = Append(toProxy, a)
    BY <1>3, <1>4, <2>2
  <2>3. QED BY <1>3, <2>1, <2>2
<1>6. <<>> \in Seq(PublishedItem)
  OBVIOUS
<1>7. TypeOK'
  BY <1>1, <1>2, <1>5, <1>6 DEF TypeOK
<1>8. HandlerOK'
  BY DEF HandlerOK
<1>9. p = None => Quiet'
  BY <1>2 DEF Inv, Quiet
<1>10. \A r : Settled(r)' => Settled(r)
  <2>1. \A r : Acking(r)' => Acking(r)
    BY <1>3, <1>5 DEF Acking
  <2>2. QED BY <1>2, <2>1 DEF Settled
<1>11. CASE Alive
  <2>1. ProxyOK /\ PipeOK /\ FreshOK
    BY <1>11 DEF Inv
  <2>2. ProxyOK'
    BY <1>2, <1>3, <1>5, <2>1 DEF ProxyOK
  <2>3. PipeOK'
    <3>1. Pipe \in Seq(HandlerItem)
      BY <1>1, <1>11, AliveSession DEF Pipe, PipeOf, TypeOK, ControlSession
    <3>2. Pipe' = Pipe
      BY <1>2 DEF Pipe
    <3>3. QED BY <1>2, <1>10, <2>1, <3>1, <3>2, PipeKept
  <2>4. FreshOK'
    BY <1>2, <2>1 DEF FreshOK
  <2>5. SettledDone' /\ NoCancel'
    BY <1>11 DEF SettledDone, NoCancel
  <2>6. QED BY <1>2, <1>7, <1>8, <1>9, <2>2, <2>3, <2>4, <2>5 DEF Inv
<1>12. CASE ~Alive
  <2>1. ~Alive'
    BY <1>2, <1>12 DEF Alive
  <2>2. QED BY <1>2, <1>7, <1>8, <1>9, <2>1 DEF Inv
<1>13. QED BY <1>11, <1>12

LEMMA RemoveSessionFields ==
    ASSUME NEW x \in HandlerRecord, x.index \subseteq x.s.channels, NEW y, y = RemoveSession(x)
    PROVE  y.s = None /\ y.index = {} /\ y.out = x.out
<1>1. PICK k : k = x.index \ x.s.channels
  OBVIOUS
<1>2. y = [x EXCEPT !.s = None, !.index = k]
  BY <1>1 DEF RemoveSession
<1>3. y = [s |-> None, index |-> k, out |-> x.out]
  BY <1>2 DEF HandlerRecord
<1>4. k = {}
  BY <1>1
<1>5. QED BY <1>3, <1>4

LEMMA ExpireStep ==
    ASSUME Inv, Expire
    PROVE  Inv'
<1>1. PICK x : x = RemoveSession(HandlerState)
  OBVIOUS
<1>2. /\ s # None /\ (p = Gone \/ lost > 0) /\ Handler(x) /\ Leaves(x, refused)
      /\ UNCHANGED <<published, gaveUp, proxyVars, toHandler, lost>>
  BY <1>1 DEF Expire
<1>3. HandlerState \in HandlerRecord /\ HandlerState.s = s /\ HandlerState.out = toProxy
      /\ HandlerState.index \subseteq HandlerState.s.channels
  BY <1>2, HandlerStateRecord
<1>4. x.s = None /\ x.index = {} /\ x.out = toProxy
  BY <1>1, <1>3, RemoveSessionFields
<1>5. s' = None /\ index' = {} /\ toProxy' = toProxy /\ limiter' = <<>> /\ refused' = {}
  BY <1>2, <1>4 DEF Handler, Leaves
<1>6. gaveUp' \in BOOLEAN /\ lost' \in Nat /\ lost \in Nat
  BY <1>2 DEF Inv, TypeOK
<1>7. Alive => lost' # 0
  BY <1>2, <1>6 DEF Alive
<1>8. QED BY <1>2, <1>5, <1>6, <1>7, SessionLeaves

LEMMA RequestTimerStep ==
    ASSUME Inv, RequestTimer
    PROVE  Inv'
<1>1. PICK x : x = RequestTimeout(HandlerState)
  OBVIOUS
<1>2. /\ s # None /\ Handler(x) /\ Leaves(x, refused) /\ gaveUp' = TRUE
      /\ UNCHANGED <<published, proxyVars, toHandler, lost>>
  BY <1>1 DEF RequestTimer
<1>3. HandlerState \in HandlerRecord /\ HandlerState.s = s /\ HandlerState.out = toProxy
      /\ HandlerState.index \subseteq HandlerState.s.channels /\ toProxy \in Seq(ProxyItem)
  BY <1>2, HandlerStateRecord
<1>4. PICK a \in ProxyItem : a = Item("Cancel", None, None)
  BY DEF Item, ProxyItem
<1>5. PICK q \in Seq(ProxyItem) : q = Append(toProxy, a)
  BY <1>3, SeqOps
<1>6. PICK z : z = Send(HandlerState, a)
  OBVIOUS
<1>7. z \in HandlerRecord /\ z.s = HandlerState.s /\ z.index = HandlerState.index /\ z.out = q
  <2>1. z = [HandlerState EXCEPT !.out = q]
    BY <1>3, <1>5, <1>6 DEF Send
  <2>2. QED BY <1>3, <2>1 DEF HandlerRecord
<1>8. x = RemoveSession(z)
  BY <1>1, <1>4, <1>6 DEF RequestTimeout
<1>9. x.s = None /\ x.index = {} /\ x.out = q
  BY <1>3, <1>7, <1>8, RemoveSessionFields
<1>10. s' = None /\ index' = {} /\ toProxy' = q /\ limiter' = <<>> /\ refused' = {}
  BY <1>2, <1>9 DEF Handler, Leaves
<1>11. lost' \in Nat
  BY <1>2 DEF Inv, TypeOK
<1>12. QED BY <1>2, <1>4, <1>5, <1>10, <1>11, SessionLeaves

LEMMA RestartStep ==
    ASSUME Inv, Restart
    PROVE  Inv'
<1>1. /\ s' = None /\ index' = {} /\ limiter' = <<>> /\ refused' = {} /\ lost' = lost + 1
      /\ UNCHANGED <<published, gaveUp, proxyVars, toHandler, toProxy>>
  BY DEF Restart
<1>2. lost' \in Nat /\ lost' # 0 /\ gaveUp' \in BOOLEAN
  BY <1>1 DEF Inv, TypeOK
<1>3. QED BY <1>1, <1>2, SessionLeaves

\* The announcement makes the session of a connection that has none settled.
LEMMA ReceiveInitStep ==
    ASSUME Inv, ReceiveInit
    PROVE  Inv'
<1>1. /\ toInit # <<>> /\ Handler(Handle(HandlerState, Head(toInit))) /\ toInit' = Tail(toInit)
      /\ UNCHANGED <<limiter, published, gaveUp, refused, p, frames, requests, toHandler, lost>>
  BY DEF ReceiveInit
<1>2. TypeOK /\ HandlerOK /\ toInit \in Seq(InitItem)
  BY DEF Inv, TypeOK
<1>3. PICK i \in InitItem : i = Head(toInit)
  BY <1>1, <1>2, SeqOps
<1>4. PICK y : y = Handle(HandlerState, i)
  OBVIOUS
<1>5. /\ HandlerState = [s |-> s, index |-> index, out |-> toProxy]
      /\ HandlerState.s = s /\ HandlerState.index = index /\ HandlerState.out = toProxy
      /\ toProxy \in Seq(ProxyItem)
  BY HandlerStateRecord
<1>6. /\ y.s = (IF s = None THEN NewSession ELSE s) /\ y.index = index
      /\ y.out = Append(toProxy, Item("Ack", 0, None)) /\ y.out \in Seq(ProxyItem)
  BY <1>4, <1>5, HandleHere
<1>7. /\ s' = (IF s = None THEN NewSession ELSE s) /\ index' = index
      /\ toProxy' = Append(toProxy, Item("Ack", 0, None)) /\ toProxy' \in Seq(ProxyItem)
  BY <1>1, <1>3, <1>4, <1>6 DEF Handler
<1>8. s' \in HandlerSession /\ s' # None
  BY <1>2, <1>7, NewSessionOK, WsControlAssumption DEF TypeOK
<1>9. toInit' \in Seq(InitItem)
  BY <1>1, <1>2, SeqOps
<1>10. TypeOK'
  BY <1>1, <1>2, <1>7, <1>8, <1>9 DEF TypeOK
<1>11. HandlerOK'
  <2>1. CASE s = None
    BY <1>2, <1>7, <1>8, <2>1, NewSessionOK DEF HandlerOK
  <2>2. CASE s # None
    BY <1>2, <1>7, <1>8, <2>2 DEF HandlerOK
  <2>3. QED BY <2>1, <2>2
<1>12. p # None
  BY <1>1 DEF Inv, Quiet
<1>13. CASE Alive
  <2>1. ProxyOK /\ PipeOK /\ FreshOK /\ SettledDone /\ NoCancel
    BY <1>13 DEF Inv
  <2>2. /\ Len(toInit) = 1 /\ ~p.peer /\ toProxy = <<>> /\ s = None
        /\ p.pendingRequests = DOMAIN requests
    BY <1>1, <2>1 DEF FreshOK
  <2>3. toInit' = <<>>
    BY <1>1, <1>2, <2>2
  <2>4. PICK a : a = Item("Ack", 0, None) /\ a.type = "Ack" /\ a.req = 0
    <3>1. Item("Ack", 0, None).type = "Ack" /\ Item("Ack", 0, None).req = 0
      BY DEF Item
    <3>2. QED BY <3>1
  <2>5. \A n \in DOMAIN toProxy' : toProxy'[n] = a
    BY <1>7, <2>2, <2>4
  <2>6. \A r : Acking(r)' => r = 0
    BY <2>4, <2>5 DEF Acking
  <2>7. requests \in Seq(Grips \cup [kind : {"implicit"}, channel : Channels])
    BY <1>2 DEF TypeOK
  <2>8. \A r \in DOMAIN requests : ~Settled(r)'
    BY <1>1, <2>2, <2>6, <2>7 DEF Settled
  <2>9. ProxyOK'
    BY <1>1, <2>1, <2>4, <2>5, <2>7 DEF ProxyOK
  <2>10. PipeOK'
    <3>1. Pipe \in Seq(HandlerItem)
      BY <1>2, <1>13, AliveSession DEF Pipe, PipeOf, TypeOK, ControlSession
    <3>2. Pipe' = Pipe
      BY <1>1 DEF Pipe
    <3>3. QED BY <1>1, <2>1, <2>8, <3>1, <3>2, PipeKept
  <2>11. FreshOK'
    BY <2>3 DEF FreshOK
  <2>12. SettledDone'
    BY <1>1, <2>8 DEF SettledDone
  <2>13. NoCancel'
    BY <1>8, <2>4, <2>5 DEF NoCancel
  <2>14. QED BY <1>1, <1>10, <1>11, <1>12, <2>9, <2>10, <2>11, <2>12, <2>13 DEF Inv
<1>14. CASE ~Alive
  <2>1. ~Alive'
    BY <1>1, <1>14 DEF Alive
  <2>2. QED BY <1>1, <1>10, <1>11, <1>12, <2>1 DEF Inv
<1>15. QED BY <1>13, <1>14

\* The first item leaves the pipe, and settles its own request at most.
LEMMA PipeShrinks ==
    ASSUME PipeOK, Pipe \in Seq(HandlerItem), Pipe # <<>>, Pipe' = Tail(Pipe),
           requests' = requests, requests \in Seq(Grips \cup [kind : {"implicit"}, channel : Channels]),
           \A r \in DOMAIN requests :
              Settled(r)' => Settled(r) \/ (IsRequest(Head(Pipe)) /\ r = Head(Pipe).req)
    PROVE  PipeOK'
<1>1. PICK o \in Seq(HandlerItem) : o = Pipe /\ o # <<>>
  OBVIOUS
<1>2. PICK q : q = Pipe' /\ q = Tail(o)
  BY <1>1
<1>3. Ordered(o) /\ \A n \in DOMAIN o : ItemOK(o[n])
  BY <1>1 DEF PipeOK
<1>4. /\ 1 \in DOMAIN o /\ Head(o) = o[1]
      /\ \A n \in DOMAIN q : n \in Nat /\ n + 1 \in DOMAIN o /\ q[n] = o[n + 1] /\ 1 < n + 1
  BY <1>1, <1>2
<1>5. Ordered(q)
  BY <1>1, <1>2, <1>3, OrderedKept
<1>6. PICK i : i = Head(o) /\ i = o[1]
  BY <1>4
<1>7. ASSUME NEW n \in DOMAIN q PROVE ItemOK(q[n])'
  <2>1. PICK j : j = q[n] /\ ItemOK(j)
    BY <1>3, <1>4
  <2>2. IsRequest(j) /\ IsRequest(i) => i.req < j.req
    BY <1>3, <1>4, <1>6, <2>1 DEF Ordered
  <2>3. \A r \in DOMAIN requests : Settled(r)' => Settled(r) \/ (IsRequest(i) /\ r = i.req)
    BY <1>1, <1>6
  <2>4. ItemOK(j)'
    BY <2>1, <2>2, <2>3 DEF ItemOK
  <2>5. QED BY <2>1, <2>4
<1>8. QED BY <1>2, <1>5, <1>7 DEF PipeOK

\* What was done for the requests settled before stays done, and the request
\* of the item that is handled is done when it is acknowledged.
LEMMA ReceiveDone ==
    ASSUME SettledDone, s # None, NEW i \in HandlerItem, ItemOK(i), NEW y,
           Applied(HandlerState, i, y), s' = y.s, index' = y.index,
           refused' = Refusals(i), requests' = requests,
           requests \in Seq(Grips \cup [kind : {"implicit"}, channel : Channels]),
           \A r \in DOMAIN requests : Settled(r)' => Settled(r) \/ (IsRequest(i) /\ r = i.req)
    PROVE  SettledDone'
<1>1. HandlerState.s = s /\ HandlerState.index = index
  BY DEF HandlerState
<1>2. Ordinary(i)
  BY DEF Ordinary, ItemOK
<1>3. /\ s.implicitChannels \subseteq s'.implicitChannels
      /\ \A c \in index :
            \/ c \in index'
            \/ i.type = "Grip" /\ i.arg = Grip("unsubscribe", c) /\ c \notin s.implicitChannels
      /\ i.type = "Subscribe" => i.arg \in index' /\ i.arg \in s'.implicitChannels
      /\ i.type = "Grip" /\ i.arg.kind = "subscribe" /\ Cardinality(s.channels) < SubMax =>
            i.arg.channel \in index'
  BY <1>1 DEF Applied
<1>4. IsRequest(i) => i.req \in DOMAIN requests /\ requests[i.req] = About(i)
                      /\ \A r \in DOMAIN requests : Settled(r) => r < i.req
  BY DEF ItemOK
<1>5. ASSUME NEW r \in DOMAIN requests, Settled(r) PROVE Done(r)'
  <2>1. Done(r)
    BY <1>5 DEF SettledDone
  <2>2. PICK c : c = requests[r].channel
    OBVIOUS
  <2>3. requests[r].kind = "implicit" => c \in index' /\ c \in s'.implicitChannels
    BY <1>3, <2>1, <2>2 DEF Done
  <2>4. ASSUME requests[r].kind = "subscribe", NotLeft(r, c) PROVE c \in index' \/ c \in refused'
    <3>1. c \in index \/ c \in refused
      BY <2>1, <2>2, <2>4 DEF Done
    <3>2. c \in refused => c \in refused' \/ c \in index'
      BY <1>3 DEF Refusals
    <3>3. i.type = "Grip" => i.req \in r..Len(requests) /\ requests[i.req] = i.arg
      BY <1>4, <1>5 DEF IsRequest, About
    <3>4. ~(i.type = "Grip" /\ i.arg = Grip("unsubscribe", c))
      BY <2>4, <3>3 DEF NotLeft
    <3>5. QED BY <1>3, <3>1, <3>2, <3>4
  <2>5. QED BY <2>2, <2>3, <2>4 DEF Done, NotLeft
<1>6. ASSUME IsRequest(i) PROVE Done(i.req)'
  <2>1. CASE i.type = "Subscribe"
    <3>1. requests[i.req] = Grip("implicit", i.arg)
      BY <1>4, <1>6, <2>1 DEF About
    <3>2. requests[i.req].kind = "implicit" /\ requests[i.req].channel = i.arg
      BY <3>1 DEF Grip
    <3>3. QED BY <1>3, <2>1, <3>2 DEF Done
  <2>2. CASE i.type = "Grip"
    <3>1. requests[i.req] = i.arg
      BY <1>4, <1>6, <2>2 DEF About
    <3>2. i.arg.kind # "implicit"
      BY <1>2, <2>2, RequestHasNumber, WsControlAssumption DEF GripKinds
    <3>3. i.arg.kind = "subscribe" => i.arg.channel \in index' \/ i.arg.channel \in refused'
      BY <1>3, <2>2 DEF Refusals
    <3>4. QED BY <3>1, <3>2, <3>3 DEF Done
  <2>3. QED BY <1>6, <2>1, <2>2 DEF IsRequest
<1>7. QED BY <1>5, <1>6 DEF SettledDone

\* The handler has the session and is sent an item that does not end it.
LEMMA ReceiveAppliesStep ==
    ASSUME Inv, s # None, toHandler # <<>>, NEW i \in HandlerItem, i = Head(toHandler),
           Alive => ItemOK(i) /\ toInit = <<>> /\ Pipe = toHandler /\ Pipe' = Tail(Pipe),
           NEW y, Applied(HandlerState, i, y), Handler(y), Leaves(y, Refusals(i)),
           toHandler' = Tail(toHandler), UNCHANGED <<published, gaveUp, proxyVars, lost>>,
           Alive => p.peer
    PROVE  Inv'
<1>1. /\ HandlerState.s = s /\ HandlerState.index = index /\ HandlerState.out = toProxy
      /\ toProxy \in Seq(ProxyItem)
  BY HandlerStateRecord
<1>2. TypeOK /\ HandlerOK
  BY DEF Inv
<1>3. /\ s' = y.s /\ index' = y.index /\ toProxy' = y.out
  BY DEF Handler
<1>4. s' \in HandlerSession /\ index' \subseteq Channels /\ s' # None
  BY <1>3, HandlerFields, WsControlAssumption DEF Applied, HandlerRecord
<1>5. SessionOK(s') /\ index' \subseteq s'.channels /\ Emits(toProxy, toProxy', Acks(i))
  BY <1>1, <1>3 DEF Applied
<1>6. /\ toProxy' \in Seq(ProxyItem)
      /\ \A n \in DOMAIN toProxy' :
            \/ \E m \in DOMAIN toProxy : toProxy'[n] = toProxy[m]
            \/ /\ toProxy'[n].type # "Cancel"
               /\ toProxy'[n].type = "Ack" => toProxy'[n].req \in Acks(i)
  BY <1>5 DEF Emits, Says
<1>7. limiter' = limiter /\ refused' = Refusals(i)
  BY <1>3, <1>4 DEF Leaves
<1>8. refused' \subseteq Channels
  <2>1. i.type = "Grip" => i.arg \in Grips
    BY DEF HandlerItem
  <2>2. i.type = "Grip" /\ i.arg.kind = "subscribe" => i.arg.channel \in Channels
    BY <2>1, WsControlAssumption
  <2>3. QED BY <1>2, <1>7, <2>2 DEF Refusals, TypeOK
<1>9. p' = p /\ toInit' = toInit /\ frames' = frames /\ requests' = requests
  BY DEF proxyVars
<1>10. toHandler' \in Seq(HandlerItem)
  BY <1>2, SeqOps DEF TypeOK
<1>11. TypeOK'
  BY <1>2, <1>4, <1>6, <1>7, <1>8, <1>9, <1>10 DEF TypeOK
<1>12. HandlerOK'
  BY <1>4, <1>5 DEF HandlerOK
<1>13. p # None
  BY DEF Inv, Quiet
<1>14. CASE Alive
  <2>1. ProxyOK /\ PipeOK /\ FreshOK /\ SettledDone /\ NoCancel
    BY <1>14 DEF Inv
  <2>2. requests \in Seq(Grips \cup [kind : {"implicit"}, channel : Channels])
    BY <1>2 DEF TypeOK
  <2>3. \A r : Settled(r)' => Settled(r) \/ (IsRequest(i) /\ r = i.req)
    <3>1. \A r : Acking(r)' => Acking(r) \/ r \in Acks(i)
      BY <1>6 DEF Acking
    <3>2. QED BY <1>9, <3>1 DEF Settled, Acks
  <2>4. ProxyOK'
    <3>1. \A r \in Acks(i) : r \in 0..Len(requests)
      BY <1>14, <2>2 DEF Acks, ItemOK
    <3>2. Linked(p', toHandler')
      BY <1>9, <1>14, <2>1 DEF ProxyOK, Linked
    <3>3. \A n \in DOMAIN toProxy' :
             toProxy'[n].type = "Ack" => toProxy'[n].req \in 0..Len(requests)
      BY <1>6, <2>1, <3>1 DEF ProxyOK
    <3>4. QED BY <1>9, <2>1, <3>2, <3>3 DEF ProxyOK
  <2>5. PipeOK'
    <3>1. Pipe \in Seq(HandlerItem) /\ Pipe # <<>> /\ i = Head(Pipe)
      BY <1>2, <1>14 DEF TypeOK
    <3>2. QED BY <1>9, <1>14, <2>1, <2>2, <2>3, <3>1, PipeShrinks
  <2>6. FreshOK'
    BY <1>9, <1>14 DEF FreshOK
  <2>7. SettledDone'
    BY <1>3, <1>7, <1>9, <1>14, <2>1, <2>2, <2>3, ReceiveDone
  <2>8. NoCancel'
    BY <1>4, <1>6, <2>1 DEF NoCancel
  <2>9. QED BY <1>9, <1>11, <1>12, <1>13, <2>4, <2>5, <2>6, <2>7, <2>8 DEF Inv
<1>15. CASE ~Alive
  <2>1. ~Alive'
    BY <1>9, <1>15 DEF Alive
  <2>2. QED BY <1>9, <1>11, <1>12, <1>13, <2>1 DEF Inv
<1>16. QED BY <1>14, <1>15

\* The handler is sent an item for a session that it has not, or no longer.
LEMMA ReceiveNoneStep ==
    ASSUME Inv, s' = None, index' = {}, limiter' = <<>>, refused' = {}, toHandler # <<>>,
           NEW i \in HandlerItem, i = Head(toHandler),
           Alive => s = None /\ ItemOK(i) /\ toInit = <<>> /\ Pipe = toHandler /\ Pipe' = Tail(Pipe),
           toProxy' \in Seq(ProxyItem),
           Alive => \A n \in DOMAIN toProxy' :
                       \/ \E m \in DOMAIN toProxy : toProxy'[n] = toProxy[m]
                       \/ toProxy'[n].type = "Cancel"
                       \/ Says(toProxy'[n], Acks(i)),
           toHandler' = Tail(toHandler), UNCHANGED <<published, gaveUp, proxyVars, lost>>,
           Alive => p.peer
    PROVE  Inv'
<1>1. TypeOK
  BY DEF Inv
<1>2. p' = p /\ toInit' = toInit /\ frames' = frames /\ requests' = requests
  BY DEF proxyVars
<1>3. toHandler' \in Seq(HandlerItem) /\ <<>> \in Seq(PublishedItem)
  BY <1>1, SeqOps DEF TypeOK
<1>4. TypeOK'
  BY <1>1, <1>2, <1>3 DEF TypeOK
<1>5. HandlerOK'
  BY DEF HandlerOK
<1>6. p # None
  BY DEF Inv, Quiet
<1>7. CASE Alive
  <2>1. ProxyOK /\ PipeOK /\ FreshOK /\ NoCancel
    BY <1>7 DEF Inv
  <2>2. requests \in Seq(Grips \cup [kind : {"implicit"}, channel : Channels])
    BY <1>1 DEF TypeOK
  <2>3. \A n \in DOMAIN toProxy' :
           \/ \E m \in DOMAIN toProxy : toProxy'[n] = toProxy[m]
           \/ toProxy'[n].type = "Ack" => toProxy'[n].req \in Acks(i)
    BY <1>7 DEF Says
  <2>4. \A r : Settled(r)' => Settled(r) \/ (IsRequest(i) /\ r = i.req)
    <3>1. \A r : Acking(r)' => Acking(r) \/ r \in Acks(i)
      BY <2>3 DEF Acking
    <3>2. QED BY <1>2, <3>1 DEF Settled, Acks
  <2>5. ProxyOK'
    <3>1. \A r \in Acks(i) : r \in 0..Len(requests)
      BY <1>7, <2>2 DEF Acks, ItemOK
    <3>2. Linked(p', toHandler')
      BY <1>2, <1>7, <2>1 DEF ProxyOK, Linked
    <3>3. \A n \in DOMAIN toProxy' :
             toProxy'[n].type = "Ack" => toProxy'[n].req \in 0..Len(requests)
      BY <2>1, <2>3, <3>1 DEF ProxyOK
    <3>4. QED BY <1>2, <2>1, <3>2, <3>3 DEF ProxyOK
  <2>6. PipeOK'
    <3>1. Pipe \in Seq(HandlerItem) /\ Pipe # <<>> /\ i = Head(Pipe)
      BY <1>1, <1>7 DEF TypeOK
    <3>2. QED BY <1>2, <1>7, <2>1, <2>2, <2>4, <3>1, PipeShrinks
  <2>7. FreshOK'
    BY <1>2, <1>7 DEF FreshOK
  <2>8. SettledDone'
    BY DEF SettledDone
  <2>9. NoCancel'
    BY <1>7, <2>1 DEF NoCancel
  <2>10. QED BY <1>2, <1>4, <1>5, <1>6, <2>5, <2>6, <2>7, <2>8, <2>9 DEF Inv
<1>8. CASE ~Alive
  <2>1. ~Alive'
    BY <1>2, <1>8 DEF Alive
  <2>2. QED BY <1>2, <1>4, <1>5, <1>6, <2>1 DEF Inv
<1>9. QED BY <1>7, <1>8

LEMMA ReceiveStep ==
    ASSUME Inv, Receive
    PROVE  Inv'
<1>1. TypeOK /\ HandlerOK
  BY DEF Inv
<1>2. toHandler # <<>> /\ toHandler \in Seq(HandlerItem)
  BY <1>1 DEF Receive, TypeOK
<1>3. PICK i \in HandlerItem : i = Head(toHandler)
  BY <1>2, SeqOps
<1>4. PICK y : y = Handle(HandlerState, i)
  OBVIOUS
<1>5. /\ Idle /\ Handler(y) /\ Leaves(y, Refusals(i)) /\ toHandler' = Tail(toHandler)
      /\ UNCHANGED <<published, gaveUp, proxyVars, lost>>
  BY <1>3, <1>4 DEF Receive
<1>6. s' = y.s /\ index' = y.index /\ toProxy' = y.out
  BY <1>5 DEF Handler
<1>7. /\ HandlerState = [s |-> s, index |-> index, out |-> toProxy]
      /\ HandlerState.s = s /\ HandlerState.index = index /\ HandlerState.out = toProxy
      /\ toProxy \in Seq(ProxyItem)
      /\ s # None => HandlerState \in HandlerRecord /\ SessionOK(s) /\ index \subseteq s.channels
  BY HandlerStateRecord
<1>8. Alive => ItemOK(i) /\ p.peer /\ toInit = <<>> /\ Pipe = toHandler /\ Pipe' = Tail(Pipe)
  <2>1. SUFFICES ASSUME Alive
                 PROVE  ItemOK(i) /\ p.peer /\ toInit = <<>> /\ Pipe = toHandler
                        /\ Pipe' = Tail(Pipe)
    OBVIOUS
  <2>2. ProxyOK /\ PipeOK /\ FreshOK
    BY <2>1 DEF Inv
  <2>3. p.peer /\ Pipe = toHandler
    BY <1>2, <2>2 DEF ProxyOK, Linked, Pipe, PipeOf
  <2>4. p' = p
    BY <1>5 DEF proxyVars
  <2>5. Pipe' = toHandler'
    BY <2>3, <2>4 DEF Pipe, PipeOf
  <2>6. 1 \in DOMAIN toHandler /\ Head(toHandler) = toHandler[1]
    BY <1>2
  <2>7. ItemOK(i)
    BY <1>3, <2>2, <2>3, <2>6 DEF PipeOK
  <2>8. QED BY <1>5, <2>2, <2>3, <2>5, <2>7 DEF FreshOK
<1>9. CASE s = None
  <2>1. HandlerState = [s |-> None, index |-> HandlerState.index, out |-> HandlerState.out]
    BY <1>7, <1>9
  <2>2. /\ y.s = None /\ y.index = index /\ y.out \in Seq(ProxyItem)
        /\ \A n \in DOMAIN y.out :
              \/ \E m \in DOMAIN toProxy : y.out[n] = toProxy[m]
              \/ y.out[n].type = "Cancel"
              \/ Says(y.out[n], Acks(i))
    BY <1>4, <1>7, <1>9, <2>1, HandleNone
  <2>3. index = {}
    BY <1>1, <1>9 DEF HandlerOK
  <2>4. limiter' = <<>> /\ refused' = {}
    BY <1>5, <2>2 DEF Leaves
  <2>5. s' = None /\ index' = {}
    BY <1>6, <2>2, <2>3
  <2>6. QED BY <1>2, <1>3, <1>5, <1>6, <1>8, <1>9, <2>2, <2>4, <2>5, ReceiveNoneStep
<1>10. CASE s # None /\ i.type \in {"Gone", "Cancel"}
  <2>1. y.s = None /\ y.index = {} /\ y.out = toProxy
    BY <1>4, <1>7, <1>10, HandleEnds
  <2>2. ~Alive
    BY <1>8, <1>10 DEF ItemOK
  <2>3. limiter' = <<>> /\ refused' = {}
    BY <1>5, <2>1 DEF Leaves
  <2>4. QED BY <1>2, <1>3, <1>5, <1>6, <1>7, <2>1, <2>2, <2>3, ReceiveNoneStep
<1>11. CASE s # None /\ i.type \notin {"Gone", "Cancel"}
  <2>1. Ordinary(i)
    BY <1>11 DEF Ordinary
  <2>2. ~s.inProcess
    BY <1>5, <1>11 DEF Idle
  <2>3. Applied(HandlerState, i, y)
    BY <1>4, <1>7, <1>11, <2>1, <2>2, HandleApplies
  <2>4. QED BY <1>2, <1>3, <1>5, <1>8, <1>11, <2>3, ReceiveAppliesStep
<1>12. QED BY <1>9, <1>10, <1>11

-----------------------------------------------------------------------------
(* Losses                                                                  *)

\* An item leaves one of the queues.
LEMMA LoseStep ==
    ASSUME Inv, Lose
    PROVE  Inv'
<1>1. /\ lost' = lost + 1 /\ UNCHANGED <<handlerVars, p, frames, requests>>
      /\ \/ toInit # <<>> /\ toInit' = Tail(toInit) /\ UNCHANGED <<toHandler, toProxy>>
         \/ toHandler # <<>> /\ toHandler' = Tail(toHandler) /\ UNCHANGED <<toInit, toProxy>>
         \/ toProxy # <<>> /\ toProxy' = Tail(toProxy) /\ UNCHANGED <<toInit, toHandler>>
  BY DEF Lose
<1>2. TypeOK /\ HandlerOK
  BY DEF Inv
<1>3. /\ toInit \in Seq(InitItem) /\ toHandler \in Seq(HandlerItem)
      /\ toProxy \in Seq(ProxyItem) /\ lost \in Nat
      /\ requests \in Seq(Grips \cup [kind : {"implicit"}, channel : Channels])
  BY <1>2 DEF TypeOK
<1>4. s' = s /\ index' = index /\ limiter' = limiter /\ published' = published
      /\ gaveUp' = gaveUp /\ refused' = refused /\ p' = p /\ frames' = frames
      /\ requests' = requests
  BY <1>1 DEF handlerVars
<1>5. toInit' \in Seq(InitItem)
  BY <1>1, <1>3, SeqOps
<1>6. toHandler' \in Seq(HandlerItem)
  BY <1>1, <1>3, SeqOps
<1>7. /\ toProxy' \in Seq(ProxyItem)
      /\ \A n \in DOMAIN toProxy' : \E m \in DOMAIN toProxy : toProxy'[n] = toProxy[m]
      /\ toProxy = <<>> => toProxy' = <<>>
  <2>1. toProxy' = toProxy \/ (toProxy # <<>> /\ toProxy' = Tail(toProxy))
    BY <1>1
  <2>2. QED BY <1>3, <2>1, ToProxyTaken
<1>8. lost' \in Nat /\ lost' # 0
  BY <1>1, <1>3
<1>9. TypeOK'
  BY <1>2, <1>4, <1>5, <1>6, <1>7, <1>8 DEF TypeOK
<1>10. HandlerOK'
  BY <1>2, <1>4 DEF HandlerOK
<1>11. p # None
  BY <1>1 DEF Inv, Quiet
<1>12. CASE Alive
  <2>1. ProxyOK /\ PipeOK /\ FreshOK /\ SettledDone
    BY <1>12 DEF Inv
  <2>2. \A r : Settled(r)' => Settled(r)
    <3>1. \A r : Acking(r)' => Acking(r)
      BY <1>7 DEF Acking
    <3>2. QED BY <1>4, <3>1 DEF Settled
  <2>3. toHandler' # toHandler =>
           /\ toHandler # <<>> /\ toHandler' = Tail(toHandler) /\ p.peer
           /\ Pipe = toHandler /\ Pipe' = Tail(Pipe)
    <3>1. toHandler' # toHandler => toHandler # <<>> /\ toHandler' = Tail(toHandler)
      BY <1>1
    <3>2. toHandler # <<>> => p.peer
      BY <2>1 DEF ProxyOK, Linked
    <3>3. p.peer => Pipe = toHandler /\ Pipe' = toHandler'
      BY <1>4 DEF Pipe, PipeOf
    <3>4. QED BY <3>1, <3>2, <3>3
  <2>4. ProxyOK'
    <3>1. Linked(p', toHandler')
      BY <1>4, <2>1, <2>3 DEF ProxyOK, Linked
    <3>2. \A n \in DOMAIN toProxy' :
             toProxy'[n].type = "Ack" => toProxy'[n].req \in 0..Len(requests)
      BY <1>7, <2>1 DEF ProxyOK
    <3>3. QED BY <1>4, <2>1, <3>1, <3>2 DEF ProxyOK
  <2>5. PipeOK'
    <3>1. Pipe \in Seq(HandlerItem)
      BY <1>2, <1>12, AliveSession DEF Pipe, PipeOf, TypeOK, ControlSession
    <3>2. CASE toHandler' = toHandler
      <4>1. Pipe' = Pipe
        BY <1>4, <3>2 DEF Pipe
      <4>2. QED BY <1>4, <2>1, <2>2, <3>1, <4>1, PipeKept
    <3>3. CASE toHandler' # toHandler
      BY <1>3, <1>4, <2>1, <2>2, <2>3, <3>1, <3>3, PipeShrinks
    <3>4. QED BY <3>2, <3>3
  <2>6. FreshOK'
    <3>1. toInit' # <<>> => toInit' = toInit
      BY <1>1, <1>3, <2>1 DEF FreshOK
    <3>2. QED BY <1>4, <1>7, <2>1, <3>1 DEF FreshOK
  <2>7. SettledDone'
    BY <1>4, <2>1, <2>2, DoneKept
  <2>8. NoCancel'
    BY <1>8 DEF NoCancel
  <2>9. QED BY <1>4, <1>9, <1>10, <1>11, <2>4, <2>5, <2>6, <2>7, <2>8 DEF Inv
<1>13. CASE ~Alive
  <2>1. ~Alive'
    BY <1>4, <1>13 DEF Alive
  <2>2. QED BY <1>4, <1>9, <1>10, <1>11, <2>1 DEF Inv
<1>14. QED BY <1>12, <1>13

-----------------------------------------------------------------------------
(* The theorems                                                            *)

LEMMA InitInv ==
    ASSUME Init
    PROVE  Inv
<1>1. TypeOK
  <2>1. /\ <<>> \in Seq(PublishedItem) /\ <<>> \in Seq(InitItem) /\ <<>> \in Seq(HandlerItem)
        /\ <<>> \in Seq(ProxyItem)
        /\ <<>> \in Seq(Grips \cup [kind : {"implicit"}, channel : Channels])
    OBVIOUS
  <2>2. QED BY <2>1 DEF Init, TypeOK
<1>2. HandlerOK /\ Quiet /\ ~Alive
  BY DEF Init, HandlerOK, Quiet, Alive
<1>3. QED BY <1>1, <1>2 DEF Inv

LEMMA StutterInv ==
    ASSUME Inv, UNCHANGED vars
    PROVE  Inv'
<1>1. /\ s' = s /\ index' = index /\ limiter' = limiter /\ published' = published
      /\ gaveUp' = gaveUp /\ refused' = refused /\ p' = p /\ toInit' = toInit
      /\ frames' = frames /\ requests' = requests /\ toHandler' = toHandler
      /\ toProxy' = toProxy /\ lost' = lost
  BY DEF vars, handlerVars, proxyVars
<1>2. TypeOK' /\ HandlerOK' /\ (p' = None => Quiet')
  BY <1>1 DEF Inv, TypeOK, HandlerOK, Quiet
<1>3. \A r : Settled(r)' => Settled(r)
  BY <1>1 DEF Settled, Acking
<1>4. Alive' => ProxyOK' /\ FreshOK' /\ NoCancel'
  BY <1>1 DEF Inv, Alive, ProxyOK, FreshOK, NoCancel
<1>5. Alive' => PipeOK'
  <2>1. Alive' = Alive /\ Pipe' = Pipe
    BY <1>1 DEF Alive, Pipe
  <2>2. Alive => Pipe \in Seq(HandlerItem)
    BY AliveSession DEF Inv, Pipe, PipeOf, TypeOK, ControlSession
  <2>3. QED BY <1>1, <1>3, <2>1, <2>2, PipeKept DEF Inv
<1>6. Alive' => SettledDone'
  BY <1>1, <1>3, DoneKept DEF Inv, Alive
<1>7. QED BY <1>2, <1>4, <1>5, <1>6 DEF Inv

LEMMA NextInv ==
    ASSUME Inv, [Next]_vars
    PROVE  Inv'
<1>1. CASE Start
  BY <1>1, StartStep
<1>2. CASE Finish \/ ControlTimeout
  BY <1>2, EndStep
<1>3. CASE ClientCloses
  BY <1>3, ClientClosesStep
<1>4. CASE ClientWritten
  BY <1>4, ClientWrittenStep
<1>5. CASE NeedKeepAlive \/ Refresh
  BY <1>5, KeepAliveStep
<1>6. CASE ProxyReceive
  BY <1>6, ProxyReceiveStep
<1>7. CASE \E g \in Grips : SendGrip(g)
  BY <1>7, SendGripStep
<1>8. CASE \E more \in BOOLEAN : OriginFrame(more)
  BY <1>8, OriginFrameStep
<1>9. CASE ReceiveInit
  BY <1>9, ReceiveInitStep
<1>10. CASE Receive
  BY <1>10, ReceiveStep
<1>11. CASE Expire
  BY <1>11, ExpireStep
<1>12. CASE DelayedTimer
  BY <1>12, DelayedTimerStep
<1>13. CASE RequestTimer
  BY <1>13, RequestTimerStep
<1>14. CASE \E c \in Channels, action \in PublishActions : ItemReady(c, action)
  BY <1>14, ItemReadyStep
<1>15. CASE PublishNext
  BY <1>15, PublishNextStep
<1>16. CASE ProcessQueue
  BY <1>16, ProcessQueueStep
<1>17. CASE \E result \in FilterResults \ {"mismatch"} : FinishFilters(result)
  BY <1>17, FinishFiltersStep
<1>18. CASE Lose
  BY <1>18, LoseStep
<1>19. CASE Restart
  BY <1>19, RestartStep
<1>20. CASE UNCHANGED vars
  BY <1>20, StutterInv
<1>21. QED
  BY <1>1, <1>2, <1>3, <1>4, <1>5, <1>6, <1>7, <1>8, <1>9, <1>10, <1>11, <1>12, <1>13, <1>14,
     <1>15, <1>16, <1>17, <1>18, <1>19, <1>20 DEF Next

\* Every step of the proxy, the handler and the queues between them keeps the
\* inductive invariant.
THEOREM Invariance == Spec => []Inv
  BY InitInv, NextInv, PTL DEF Spec

\* The two sessions, the engine's index and limiter and the items on their way
\* always have their types: nothing but control items of the right direction
\* ever gets into a queue.
THEOREM TypeCorrect == Spec => []TypeOK
<1>1. Inv => TypeOK
  BY DEF Inv
<1>2. QED BY <1>1, Invariance, PTL

\* While the proxy has its connection the handler cancels it only if an item
\* was lost, the handler was restarted or it gave up waiting for an answer: no
\* item of the connection can reach the handler before the announcement.
THEOREM CancelsAreJustified == Spec => []CancelOnlyAfterLoss
<1>1. Inv => CancelOnlyAfterLoss
  BY DEF Inv, CancelOnlyAfterLoss, NoCancel
<1>2. QED BY <1>1, Invariance, PTL

\* What the handler has acknowledged it has done: whatever is lost, as long as
\* it has the session every acknowledged subscription that was not left is in
\* the index, unless refused for the number of channels; the index never names
\* a removed session, and published items that are queued are being filtered.
THEOREM HandlerAlwaysKeeps == Spec => []HandlerKeeps
<1>1. Inv => IndexHasSession
  BY DEF Inv, HandlerOK, IndexHasSession
<1>2. ASSUME Inv PROVE AckedIsApplied
  <2>1. SUFFICES ASSUME Alive, s # None PROVE Subscribed \subseteq index \cup refused
    BY DEF AckedIsApplied
  <2>2. SUFFICES ASSUME NEW c \in Subscribed PROVE c \in index \cup refused
    OBVIOUS
  <2>3. PICK r \in DOMAIN requests :
           /\ r \notin p.pendingRequests /\ c = requests[r].channel
           /\ \/ requests[r].kind = "implicit"
              \/ requests[r].kind = "subscribe" /\ NotLeft(r, c)
    BY <2>2 DEF Subscribed, NotLeft
  <2>4. Settled(r)
    BY <2>3 DEF Settled
  <2>5. Done(r)
    BY <1>2, <2>1, <2>4 DEF Inv, SettledDone
  <2>6. QED BY <2>3, <2>5 DEF Done
<1>3. ASSUME Inv PROVE QueueIsServed
  <2>1. s # None => SessionOK(s)
    BY <1>3 DEF Inv, HandlerOK
  <2>2. QED BY <2>1 DEF QueueIsServed, SessionOK, LoopContinues, Idle
<1>4. Inv => HandlerKeeps
  BY <1>1, <1>2, <1>3 DEF HandlerKeeps
<1>5. QED BY <1>4, Invariance, PTL
=============================================================================
