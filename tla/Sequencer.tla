------------------------------ MODULE Sequencer ------------------------------
(***************************************************************************)
(* The handler's publish sequencer (src/handler/sequencer.cpp) with the    *)
(* table of last ids it shares with the rest of the handler, and the parts *)
(* of the engine that drive both: publishing, subscribing, unsubscribing   *)
(* and the recover command (src/handler/handlerengine.cpp).                *)
(*                                                                         *)
(* An item carries an id and the id of the item before it.  An item whose  *)
(* predecessor is not the last one sent on its channel waits, keyed by the *)
(* id it waits for, until that id is sent or until WaitMax has passed.     *)
(*                                                                         *)
(* sendItem() and expireTimer_timeout() are loops that signal one item per *)
(* round.  A round is a step here, with the control point in sending and   *)
(* expiring; nothing else of the single-threaded handler can run until the *)
(* loop has ended (every other action requires Idle).                      *)
(***************************************************************************)
EXTENDS Naturals, FiniteSets

CONSTANTS
    LastIdsMax,        \* maxCapacity_ of the table of last ids
    NullId,            \* QString().isNull(): no id
    Channels,
    Ids,               \* published ids
    NoItem,            \* no item was signalled
    Published,         \* the items publishers may send
    PendingMax,        \* CHANNEL_PENDING_MAX
    WaitMax,           \* pendingExpireMSecs
    IdCacheTtl,        \* idCacheTtl; 0 when the cache is off
    MaxTime            \* bound on the clock

Items == [channel : Channels, id : Ids \cup {NullId}, prevId : Ids \cup {NullId}]

ASSUME LastIdsMaxAssumption == LastIdsMax \in Nat \ {0}

ASSUME SequencerAssumption ==
    /\ NullId \notin Ids
    /\ NoItem \notin Items
    /\ NoItem \notin Channels
    /\ Published \subseteq Items
    /\ PendingMax \in Nat \ {0}
    /\ WaitMax \in Nat
    /\ IdCacheTtl \in Nat
    /\ MaxTime \in Nat

-----------------------------------------------------------------------------
(* PublishLastIds (src/handler/publishlastids.cpp): the last published id  *)
(* per channel.  The code keeps a hash by channel and a map by (time,      *)
(* channel) that gives the eviction order; both always hold the same       *)
(* items, so the model keeps one function from the channels present to     *)
(* [id, time].  Two channels used in the same millisecond are evicted in   *)
(* the order of their names.  Names are model values here, so Oldest       *)
(* leaves that tie open: Set yields the set of tables the code may end     *)
(* with.                                                                   *)

EmptyTable == [c \in {} |-> NullId]

\* PublishLastIds::value
Value(table, channel) ==
    IF channel \in DOMAIN table THEN table[channel].id ELSE NullId

\* PublishLastIds::remove
Remove(table, channel) == [c \in DOMAIN table \ {channel} |-> table[c]]

\* The entries whose eviction the loop in set() may choose: the oldest ones.
Oldest(table) ==
    {c \in DOMAIN table : \A d \in DOMAIN table : table[c].time <= table[d].time}

\* The table with an entry for channel, which is not otherwise touched.
Put(table, channel, id, now) ==
    [c \in DOMAIN table \cup {channel} |->
        IF c = channel THEN [id |-> id, time |-> now] ELSE table[c]]

\* PublishLastIds::set.  The table never holds more than LastIdsMax entries,
\* so the eviction loop runs at most once.
Set(table, channel, id, now) ==
    IF channel \notin DOMAIN table /\ Cardinality(DOMAIN table) >= LastIdsMax
    THEN {Put(Remove(table, old), channel, id, now) : old \in Oldest(table)}
    ELSE {Put(table, channel, id, now)}

\* A PendingItem: the item and when it was put aside.  The two indexes hold
\* pointers to the same objects; here they hold the same records.
PendingItems == [time : Nat, item : Items]

VARIABLES
    now,               \* DateTime::currentMSecsSinceEpoch()
    subs,              \* cs.subs: channels with a Subscription
    lastIds,           \* cs.publishLastIds
    pendingByChannel,  \* pendingItemsByChannel[channel].itemsByPrevId
    pendingByTime,     \* pendingItemsByTime
    expireTimer,       \* expireTimer->isActive()
    idCache,           \* idCacheById: (channel, id) -> expireTime
    sending,           \* the channel and id sendItem()'s loop is at
    expiring,          \* inside expireTimer_timeout()'s loop
    ready              \* the item itemReady() signals in this step, or NoItem

pendingVars == <<pendingByChannel, pendingByTime>>
vars == <<now, subs, lastIds, pendingVars, expireTimer, idCache, sending,
          expiring, ready>>

NotSending == [channel |-> NoItem, id |-> NullId]

Init ==
    /\ now = 0
    /\ subs = {}
    /\ lastIds = EmptyTable
    /\ pendingByChannel = [c \in Channels |-> {}]
    /\ pendingByTime = {}
    /\ expireTimer = FALSE
    /\ idCache = [k \in {} |-> 0]
    /\ sending = NotSending
    /\ expiring = FALSE
    /\ ready = NoItem

\* No handler is running.
Idle == sending = NotSending /\ ~expiring

\* itemsByPrevId.value(id): the items of the channel that wait for this id.
WaitingFor(channel, id) == {i \in pendingByChannel[channel] : i.item.prevId = id}

\* pendingItemsByChannel.isEmpty() after this step.
NonePending == \A c \in Channels : pendingByChannel'[c] = {}

\* Take a pending item out of both indexes.
Unpend(i) ==
    /\ pendingByChannel' = [pendingByChannel EXCEPT ![i.item.channel] =
                               @ \ WaitingFor(i.item.channel, i.item.prevId)]
    /\ pendingByTime' = pendingByTime \ {i}

-----------------------------------------------------------------------------
(* sendItem()                                                              *)

\* Record the id, lastIds->set(), or remove() for an item without an id, and
\* signal the item.
Signal(item) ==
    /\ IF item.id # NullId
       THEN lastIds' \in Set(lastIds, item.channel, item.id, now)
       ELSE lastIds' = Remove(lastIds, item.channel)
    /\ ready' = item

\* The head of sendItem(): signal the item, enter the loop if the channel has
\* pending items.
SendItem(item) ==
    /\ Signal(item)
    /\ sending' = IF pendingByChannel'[item.channel] # {}
                  THEN [channel |-> item.channel, id |-> item.id]
                  ELSE NotSending

\* A round of the loop: the item that waited for the one just sent is taken
\* out and signalled.
SendChained ==
    /\ sending # NotSending
    /\ sending.id # NullId
    /\ \E i \in WaitingFor(sending.channel, sending.id) :
          /\ Unpend(i)
          /\ Signal(i.item)
          /\ sending' = [sending EXCEPT !.id = i.item.id]
    /\ UNCHANGED <<now, subs, expireTimer, idCache, expiring>>

\* The loop ends; the timer stops if nothing is pending any more.
SendDone ==
    /\ sending # NotSending
    /\ sending.id = NullId \/ WaitingFor(sending.channel, sending.id) = {}
    /\ sending' = NotSending
    /\ ready' = NoItem
    /\ UNCHANGED <<now, subs, lastIds, pendingVars, idCache, expiring>>
    /\ expireTimer' = (expireTimer /\ ~NonePending)

-----------------------------------------------------------------------------
(* addItem()                                                               *)

\* The id cache once the expired entries have been purged.
PurgedCache == [k \in {k \in DOMAIN idCache : idCache[k] > now} |-> idCache[k]]

\* We've seen this id recently.
SeenRecently(item) ==
    /\ item.id # NullId
    /\ IdCacheTtl > 0
    /\ <<item.channel, item.id>> \in DOMAIN PurgedCache

\* The cache after an item that was not dropped for its id.
CacheWith(item) ==
    LET key == {<<item.channel, item.id>>} IN
    IF item.id # NullId /\ IdCacheTtl > 0
    THEN [k \in DOMAIN PurgedCache \cup key |->
             IF k \in key THEN now + IdCacheTtl ELSE PurgedCache[k]]
    ELSE PurgedCache

\* The item's predecessor is not the last item sent on its channel.
Gap(item) ==
    /\ Value(lastIds, item.channel) # NullId
    /\ item.prevId # NullId
    /\ Value(lastIds, item.channel) # item.prevId

\* The item would have to wait but its place is taken or the channel is full.
CannotPend(item) ==
    \/ WaitingFor(item.channel, item.prevId) # {}
    \/ Cardinality(pendingByChannel[item.channel]) >= PendingMax

\* Mutant: the timer is not started.
MutPend(item) ==
    LET i == [time |-> now, item |-> item] IN
    /\ pendingByChannel' = [pendingByChannel EXCEPT ![item.channel] = @ \cup {i}]
    /\ pendingByTime' = pendingByTime \cup {i}
    /\ ready' = NoItem
    /\ UNCHANGED <<lastIds, sending, expireTimer>>

\* Put the item in both indexes and see that the timer runs.
Pend(item) ==
    LET i == [time |-> now, item |-> item] IN
    /\ pendingByChannel' = [pendingByChannel EXCEPT ![item.channel] = @ \cup {i}]
    /\ pendingByTime' = pendingByTime \cup {i}
    /\ expireTimer' = TRUE
    /\ ready' = NoItem
    /\ UNCHANGED <<lastIds, sending>>

\* addItem() returns early: the item is dropped for its id.
AddItemSeen(item) ==
    /\ Idle
    /\ SeenRecently(item)
    /\ idCache' = PurgedCache
    /\ ready' = NoItem
    /\ UNCHANGED <<now, subs, lastIds, pendingVars, expireTimer, sending, expiring>>

\* addItem() for an item that is not sequenced: it is signalled as it comes.
\* handlePublishItem() only asks for sequencing if someone is listening.
AddItemUnsequenced(item, noSeq) ==
    /\ Idle
    /\ ~SeenRecently(item)
    /\ noSeq \/ item.channel \notin subs
    /\ idCache' = CacheWith(item)
    /\ ready' = item
    /\ UNCHANGED <<now, subs, lastIds, pendingVars, expireTimer, sending, expiring>>

\* addItem() for a sequenced item: drop it, put it aside or send it.
AddItemSequenced(item) ==
    /\ Idle
    /\ ~SeenRecently(item)
    /\ item.channel \in subs
    /\ idCache' = CacheWith(item)
    /\ \/ /\ Gap(item) /\ CannotPend(item)
          /\ ready' = NoItem
          /\ UNCHANGED <<lastIds, pendingVars, expireTimer, sending>>
       \/ /\ Gap(item) /\ ~CannotPend(item)
          /\ Pend(item)
       \/ /\ ~Gap(item)
          /\ UNCHANGED <<pendingVars, expireTimer>>
          /\ SendItem(item)
    /\ UNCHANGED <<now, subs, expiring>>

-----------------------------------------------------------------------------
(* expireTimer_timeout()                                                   *)

\* What the time index may give as its first item: an oldest one.  Items of
\* the same millisecond are ordered by their address, left open here.
FirstByTime == {i \in pendingByTime : \A j \in pendingByTime : i.time <= j.time}

\* Mutant: the clock is not compared with the time to wait.
MutExpired(i) == i.time <= now

Expired(i) == i.time + WaitMax <= now

\* The timer fires.  Its period is left out: it may fire whenever it is active.
ExpireTimeout ==
    /\ Idle
    /\ expireTimer
    /\ expiring' = TRUE
    /\ ready' = NoItem
    /\ UNCHANGED <<now, subs, lastIds, pendingVars, expireTimer, idCache, sending>>

\* A round of the loop: the oldest item has waited long enough, leaves both
\* indexes, stops the timer if it was the last one, and is sent.
ExpireItem ==
    /\ expiring
    /\ sending = NotSending
    /\ \E i \in FirstByTime :
          /\ Expired(i)
          /\ Unpend(i)
          /\ SendItem(i.item)
    /\ expireTimer' = (expireTimer /\ ~NonePending)
    /\ UNCHANGED <<now, subs, idCache, expiring>>

\* The loop ends: nothing is pending, or the oldest has not waited enough.
ExpireDone ==
    /\ expiring
    /\ sending = NotSending
    /\ \A i \in FirstByTime : ~Expired(i)
    /\ expiring' = FALSE
    /\ ready' = NoItem
    /\ UNCHANGED <<now, subs, lastIds, pendingVars, expireTimer, idCache, sending>>

-----------------------------------------------------------------------------
(* The engine around the sequencer                                         *)

\* addSub(): the first session of any kind subscribes to the channel.
AddSub(channel) ==
    /\ Idle
    /\ channel \notin subs
    /\ subs' = subs \cup {channel}
    /\ ready' = NoItem
    /\ UNCHANGED <<now, lastIds, pendingVars, expireTimer, idCache, sending, expiring>>

\* clearPendingForChannel().  The timer is left running.
ClearPending(channel) ==
    /\ pendingByTime' = pendingByTime \ pendingByChannel[channel]
    /\ pendingByChannel' = [pendingByChannel EXCEPT ![channel] = {}]

\* removeSub(): the channel's last subscription ended.
RemoveSub(channel) ==
    /\ Idle
    /\ channel \in subs
    /\ subs' = subs \ {channel}
    /\ ClearPending(channel)
    /\ lastIds' = Remove(lastIds, channel)
    /\ ready' = NoItem
    /\ UNCHANGED <<now, expireTimer, idCache, sending, expiring>>

\* Mutant: recovery also forgets what is pending.
MutRecover ==
    /\ Idle
    /\ lastIds' = EmptyTable
    /\ pendingByChannel' = [c \in Channels |-> {}]
    /\ pendingByTime' = {}
    /\ ready' = NoItem
    /\ UNCHANGED <<now, subs, expireTimer, idCache, sending, expiring>>

\* recoverCommand(): every last id is forgotten.  (That it also updates the
\* sessions is not the sequencer's concern.)
Recover ==
    /\ Idle
    /\ lastIds' = EmptyTable
    /\ ready' = NoItem
    /\ UNCHANGED <<now, subs, pendingVars, expireTimer, idCache, sending, expiring>>

\* A session found its prev-id in conflict with the last id and has the last
\* id forgotten.
ForgetLastId(channel) ==
    /\ Idle
    /\ channel \in DOMAIN lastIds
    /\ lastIds' = Remove(lastIds, channel)
    /\ ready' = NoItem
    /\ UNCHANGED <<now, subs, pendingVars, expireTimer, idCache, sending, expiring>>

\* Time passes between handlers; a handler takes no time.
Tick ==
    /\ Idle
    /\ now < MaxTime
    /\ now' = now + 1
    /\ ready' = NoItem
    /\ UNCHANGED <<subs, lastIds, pendingVars, expireTimer, idCache, sending, expiring>>

Next ==
    \/ SendChained
    \/ SendDone
    \/ \E item \in Published : AddItemSeen(item)
    \/ \E item \in Published, noSeq \in BOOLEAN : AddItemUnsequenced(item, noSeq)
    \/ \E item \in Published : AddItemSequenced(item)
    \/ ExpireTimeout
    \/ ExpireItem
    \/ ExpireDone
    \/ \E channel \in Channels : AddSub(channel)
    \/ \E channel \in Channels : RemoveSub(channel)
    \/ Recover
    \/ \E channel \in Channels : ForgetLastId(channel)
    \/ Tick

Spec == Init /\ [][Next]_vars

\* A started loop runs to its end, an active timer fires again and again, and
\* the clock moves.
FairSpec ==
    /\ Spec
    /\ WF_vars(SendChained) /\ WF_vars(SendDone)
    /\ WF_vars(ExpireItem) /\ WF_vars(ExpireDone)
    /\ SF_vars(ExpireTimeout)
    /\ SF_vars(Tick)

-----------------------------------------------------------------------------
(* Properties                                                              *)

\* Types of all the state.  Every pending item waits for some id, is filed
\* under its own channel and was put aside in the past.
TypeOK ==
    /\ now \in Nat
    /\ subs \subseteq Channels
    /\ DOMAIN lastIds \subseteq Channels
    /\ \A c \in DOMAIN lastIds : lastIds[c] \in [id : Ids, time : Nat]
    /\ pendingByChannel \in [Channels -> SUBSET PendingItems]
    /\ pendingByTime \subseteq PendingItems
    /\ expireTimer \in BOOLEAN
    /\ DOMAIN idCache \subseteq Channels \X Ids
    /\ \A k \in DOMAIN idCache : idCache[k] \in Nat
    /\ sending \in [channel : Channels, id : Ids \cup {NullId}] \cup {NotSending}
    /\ expiring \in BOOLEAN
    /\ ready \in Items \cup {NoItem}

\* The two indexes of pending items agree: an item found by its prev-id is
\* found by the timer and the reverse, at most one item of a channel waits for
\* an id, and no channel holds more than CHANNEL_PENDING_MAX of them.
IndexesAgree ==
    /\ pendingByTime = UNION {pendingByChannel[c] : c \in Channels}
    /\ \A c \in Channels :
          /\ \A i, j \in pendingByChannel[c] :
                i.item.prevId = j.item.prevId => i = j
          /\ \A i \in pendingByChannel[c] :
                i.item.channel = c /\ i.item.prevId # NullId
          /\ Cardinality(pendingByChannel[c]) <= PendingMax

\* While any item is pending the expire timer runs, whichever of addItem,
\* sendItem, clear and the timer itself last touched it: a stopped timer would
\* leave the item until its channel's next publish, if any.
PendingHasTimer == pendingByTime # {} => expireTimer

\* When no handler is running, no item waits for an id that has already been
\* sent: sendItem() follows the whole chain, and nothing else can set a last id.
NothingWaitsForLastId ==
    Idle => \A i \in pendingByTime :
               Value(lastIds, i.item.channel) # i.item.prevId

\* "Only sequence if someone is listening, because we clear lastId on
\* unsubscribe and don't want it to be set again until after a subscription
\* returns" (handlePublishItem): no last id and no pending item outlives its
\* channel's subscription.
OnlySubscribedAreSequenced ==
    /\ DOMAIN lastIds \subseteq subs
    /\ \A i \in pendingByTime : i.item.channel \in subs

\* An item that was put aside is not lost: it leaves the pending items only
\* when it is signalled, or with its channel's subscription.
PendingIsSignalledOrCleared ==
    [][\A i \in pendingByTime \ pendingByTime' :
          ready' = i.item \/ i.item.channel \in subs \ subs']_vars

\* Sequenced items leave in order, or late: an item whose predecessor is not
\* the last id sent on its channel is signalled only out of the pending items,
\* after having waited there for WaitMax.
GapOnlyAfterWait ==
    [][\A item \in Items :
          ready' = item /\ Gap(item) /\ lastIds' # lastIds
             => \E i \in pendingByTime : i.item = item /\ i.time + WaitMax <= now]_vars

\* Every item that is put aside (early enough for WaitMax to pass before the
\* model's clock stops) is eventually signalled or cleared.
PendingLeaves ==
    \A c \in Channels, p \in Ids :
       LET Waiting == \E i \in WaitingFor(c, p) : i.time + WaitMax <= MaxTime
       IN  Waiting ~> ~Waiting

-----------------------------------------------------------------------------
(* An instance for TLC, with the channels "a" and "b" and the ids 1 to 3    *)

SomeItem(c, id, prevId) == [channel |-> c, id |-> id, prevId |-> prevId]

\* On channel a a chain of three items and a rival without an id for the place
\* of the third; on b an item that takes the place of the last id of a.
SomePublished ==
    {SomeItem("a", 1, NullId), SomeItem("a", 2, 1), SomeItem("a", 3, 2), SomeItem("a", NullId, 2),
     SomeItem("b", 1, NullId)}
=============================================================================
