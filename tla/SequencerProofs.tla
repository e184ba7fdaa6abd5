--------------------------- MODULE SequencerProofs ---------------------------
(***************************************************************************)
(* Proofs about Sequencer for any channels, ids and bounds.                *)
(*                                                                         *)
(* The safety invariants hold between handlers; inside sendItem()'s loop   *)
(* they hold except for the channel the loop is at.  Inv states that, and  *)
(* that the loop continues from the id that was recorded last.             *)
(***************************************************************************)
EXTENDS Sequencer, FiniteSetTheorems, TLAPS

TableOK(table) ==
    /\ DOMAIN table \subseteq Channels
    /\ \A c \in DOMAIN table : table[c] \in [id : Ids, time : Nat]

\* Between the rounds of sendItem()'s loop, an item can only be waiting for a
\* recorded id on the loop's own channel, whose recorded id is the loop's.
ChainInv ==
    /\ sending # NotSending =>
          /\ sending.channel \in subs
          /\ Value(lastIds, sending.channel) = sending.id
    /\ \A i \in pendingByTime :
          i.item.channel # sending.channel
             => Value(lastIds, i.item.channel) # i.item.prevId

PendingFinite == \A c \in Channels : IsFiniteSet(pendingByChannel[c])

Inv ==
    /\ TypeOK
    /\ PendingFinite
    /\ IndexesAgree
    /\ PendingHasTimer
    /\ OnlySubscribedAreSequenced
    /\ ChainInv

-----------------------------------------------------------------------------
(* Lemmas about the table of last ids                                      *)

\* Forgetting a channel's id leaves the other ids as they are.
LEMMA RemoveFacts ==
    ASSUME NEW table, TableOK(table), NEW channel
    PROVE  /\ TableOK(Remove(table, channel))
           /\ DOMAIN Remove(table, channel) = DOMAIN table \ {channel}
           /\ Value(Remove(table, channel), channel) = NullId
           /\ \A d : d # channel =>
                 Value(Remove(table, channel), d) = Value(table, d)
  BY DEF TableOK, Remove, Value

\* Recording an id sets it, and either keeps or evicts each other channel's.
LEMMA SetFacts ==
    ASSUME NEW table, TableOK(table),
           NEW channel \in Channels, NEW id \in Ids, NEW t \in Nat,
           NEW new \in Set(table, channel, id, t)
    PROVE  /\ TableOK(new)
           /\ DOMAIN new \subseteq DOMAIN table \cup {channel}
           /\ Value(new, channel) = id
           /\ \A d : d # channel => Value(new, d) \in {Value(table, d), NullId}
<1>1. ASSUME NEW old, TableOK(old), new = Put(old, channel, id, t)
      PROVE  /\ TableOK(new)
             /\ DOMAIN new = DOMAIN old \cup {channel}
             /\ Value(new, channel) = id
             /\ \A d : d # channel => Value(new, d) = Value(old, d)
  BY <1>1 DEF TableOK, Put, Value
<1>2. CASE new = Put(table, channel, id, t)
  BY <1>1, <1>2
<1>3. CASE \E old \in Oldest(table) : new = Put(Remove(table, old), channel, id, t)
  <2>1. PICK old : new = Put(Remove(table, old), channel, id, t)
    BY <1>3
  <2>2. /\ TableOK(Remove(table, old))
        /\ DOMAIN Remove(table, old) = DOMAIN table \ {old}
        /\ Value(Remove(table, old), old) = NullId
        /\ \A d : d # old => Value(Remove(table, old), d) = Value(table, d)
    BY RemoveFacts
  <2>3. /\ TableOK(new)
        /\ DOMAIN new = DOMAIN Remove(table, old) \cup {channel}
        /\ Value(new, channel) = id
        /\ \A d : d # channel => Value(new, d) = Value(Remove(table, old), d)
    BY <1>1, <2>1, <2>2
  <2> QED
    BY <2>2, <2>3
<1> QED
  BY <1>2, <1>3 DEF Set

\* What sendItem() does to the table: the item's channel gets the item's id
\* (none, if the item has none) and no other channel gets a new id.
LEMMA SignalFacts ==
    ASSUME TypeOK, NEW item \in Items, Signal(item)
    PROVE  /\ TableOK(lastIds')
           /\ DOMAIN lastIds' \subseteq DOMAIN lastIds \cup {item.channel}
           /\ Value(lastIds', item.channel) = item.id
           /\ \A d : d # item.channel
                 => Value(lastIds', d) \in {Value(lastIds, d), NullId}
           /\ ready' = item
<1>1. TableOK(lastIds) /\ now \in Nat
  BY DEF TypeOK, TableOK
<1>2. item.channel \in Channels /\ item.id \in Ids \cup {NullId}
  BY DEF Items
<1>3. CASE item.id # NullId
  <2>1. lastIds' \in Set(lastIds, item.channel, item.id, now)
    BY <1>3 DEF Signal
  <2> QED
    BY <1>1, <1>2, <1>3, <2>1, SetFacts DEF Signal
<1>4. CASE item.id = NullId
  <2>1. lastIds' = Remove(lastIds, item.channel) /\ ready' = item
    BY <1>4 DEF Signal
  <2>2. /\ TableOK(Remove(lastIds, item.channel))
        /\ DOMAIN Remove(lastIds, item.channel) = DOMAIN lastIds \ {item.channel}
        /\ Value(Remove(lastIds, item.channel), item.channel) = NullId
        /\ \A d : d # item.channel =>
              Value(Remove(lastIds, item.channel), d) = Value(lastIds, d)
    BY <1>1, RemoveFacts
  <2> QED
    BY <1>4, <2>1, <2>2
<1> QED
  BY <1>3, <1>4

-----------------------------------------------------------------------------
(* Lemmas about the pending items                                          *)

PendingTypes ==
    /\ pendingByChannel \in [Channels -> SUBSET PendingItems]
    /\ pendingByTime \subseteq PendingItems

\* A pending item is in the index of its own channel.
LEMMA PendingChannel ==
    ASSUME PendingTypes, IndexesAgree, NEW i \in pendingByTime
    PROVE  /\ i \in PendingItems
           /\ i.item \in Items
           /\ i.item.channel \in Channels
           /\ i \in pendingByChannel[i.item.channel]
<1>1. PICK c \in Channels : i \in pendingByChannel[c]
  BY DEF IndexesAgree
<1>2. i.item.channel = c
  BY <1>1 DEF IndexesAgree
<1>3. i \in PendingItems
  BY DEF PendingTypes
<1> QED
  BY <1>1, <1>2, <1>3 DEF PendingItems, Items

\* Taking out an item removes exactly that item, from both indexes.
LEMMA UnpendFacts ==
    ASSUME PendingTypes, IndexesAgree, PendingFinite,
           NEW i \in pendingByTime, Unpend(i)
    PROVE  /\ PendingTypes' /\ IndexesAgree' /\ PendingFinite'
           /\ pendingByTime' = pendingByTime \ {i}
<1> DEFINE c == i.item.channel
<1>1. c \in Channels /\ i \in pendingByChannel[c]
  BY PendingChannel
<1>2. WaitingFor(c, i.item.prevId) = {i}
  BY <1>1 DEF WaitingFor, IndexesAgree
<1>3. /\ pendingByChannel' = [pendingByChannel EXCEPT ![c] = @ \ {i}]
      /\ pendingByTime' = pendingByTime \ {i}
  BY <1>2 DEF Unpend
<1>4. PendingTypes'
  BY <1>3 DEF PendingTypes
<1>5. pendingByChannel'[c] = pendingByChannel[c] \ {i}
  BY <1>1, <1>3 DEF PendingTypes
<1>6. \A d \in Channels : d # c => pendingByChannel'[d] = pendingByChannel[d]
  BY <1>1, <1>3 DEF PendingTypes
<1>7. /\ IsFiniteSet(pendingByChannel'[c])
      /\ Cardinality(pendingByChannel'[c]) <= PendingMax
  <2>1. /\ IsFiniteSet(pendingByChannel[c])
        /\ Cardinality(pendingByChannel[c]) <= PendingMax
    BY <1>1 DEF IndexesAgree, PendingFinite
  <2>2. /\ IsFiniteSet(pendingByChannel[c] \ {i})
        /\ Cardinality(pendingByChannel[c] \ {i}) = Cardinality(pendingByChannel[c]) - 1
    BY <1>1, <2>1, FS_RemoveElement
  <2>3. Cardinality(pendingByChannel[c]) \in Nat /\ PendingMax \in Nat
    BY <2>1, FS_CardinalityType, SequencerAssumption
  <2> QED
    BY <1>5, <2>1, <2>2, <2>3
<1>8. PendingFinite'
  BY <1>6, <1>7 DEF PendingFinite
<1>9. \A d \in Channels : i \in pendingByChannel[d] => d = c
  BY DEF IndexesAgree
<1>10. pendingByTime' = UNION {pendingByChannel'[d] : d \in Channels}
  BY <1>1, <1>3, <1>5, <1>6, <1>9 DEF IndexesAgree
<1>11. \A d \in Channels : pendingByChannel'[d] \subseteq pendingByChannel[d]
  BY <1>5, <1>6
<1>12. \A d \in Channels : Cardinality(pendingByChannel'[d]) <= PendingMax
  BY <1>6, <1>7 DEF IndexesAgree
<1> QED
  BY <1>3, <1>4, <1>8, <1>10, <1>11, <1>12 DEF IndexesAgree

\* Putting an item aside keeps the indexes in agreement.
LEMMA PendFacts ==
    ASSUME PendingTypes, IndexesAgree, PendingFinite, now \in Nat,
           NEW item \in Items, item.prevId # NullId, ~CannotPend(item), Pend(item)
    PROVE  /\ PendingTypes' /\ IndexesAgree' /\ PendingFinite'
           /\ pendingByTime' = pendingByTime \cup {[time |-> now, item |-> item]}
<1> DEFINE c == item.channel
           i == [time |-> now, item |-> item]
<1>1. c \in Channels /\ i \in PendingItems
  BY DEF Items, PendingItems
<1>2. /\ pendingByChannel' = [pendingByChannel EXCEPT ![c] = @ \cup {i}]
      /\ pendingByTime' = pendingByTime \cup {i}
  BY DEF Pend
<1>3. PendingTypes'
  BY <1>1, <1>2 DEF PendingTypes
<1>4. pendingByChannel'[c] = pendingByChannel[c] \cup {i}
  BY <1>1, <1>2 DEF PendingTypes
<1>5. \A d \in Channels : d # c => pendingByChannel'[d] = pendingByChannel[d]
  BY <1>1, <1>2 DEF PendingTypes
<1>6. /\ IsFiniteSet(pendingByChannel'[c])
      /\ Cardinality(pendingByChannel'[c]) <= PendingMax
  <2>1. /\ IsFiniteSet(pendingByChannel[c])
        /\ ~(Cardinality(pendingByChannel[c]) >= PendingMax)
    BY <1>1 DEF PendingFinite, CannotPend
  <2>2. /\ IsFiniteSet(pendingByChannel[c] \cup {i})
        /\ \/ Cardinality(pendingByChannel[c] \cup {i}) = Cardinality(pendingByChannel[c])
           \/ Cardinality(pendingByChannel[c] \cup {i}) = Cardinality(pendingByChannel[c]) + 1
    BY <2>1, FS_AddElement
  <2>3. Cardinality(pendingByChannel[c]) \in Nat /\ PendingMax \in Nat
    BY <2>1, FS_CardinalityType, SequencerAssumption
  <2> QED
    BY <1>4, <2>1, <2>2, <2>3
<1>7. PendingFinite'
  BY <1>5, <1>6 DEF PendingFinite
<1>8. pendingByTime' = UNION {pendingByChannel'[d] : d \in Channels}
  BY <1>1, <1>2, <1>4, <1>5 DEF IndexesAgree
<1>9. \A j \in pendingByChannel[c] : j.item.prevId # item.prevId
  BY DEF CannotPend, WaitingFor
<1>10. \A j, k \in pendingByChannel'[c] : j.item.prevId = k.item.prevId => j = k
  BY <1>1, <1>4, <1>9 DEF IndexesAgree
<1>11. \A j \in pendingByChannel'[c] : j.item.channel = c /\ j.item.prevId # NullId
  BY <1>1, <1>4 DEF IndexesAgree
<1>12. \A d \in Channels : d # c =>
          /\ \A j, k \in pendingByChannel'[d] : j.item.prevId = k.item.prevId => j = k
          /\ \A j \in pendingByChannel'[d] : j.item.channel = d /\ j.item.prevId # NullId
          /\ Cardinality(pendingByChannel'[d]) <= PendingMax
  BY <1>5 DEF IndexesAgree
<1> QED
  BY <1>2, <1>3, <1>6, <1>7, <1>8, <1>10, <1>11, <1>12 DEF IndexesAgree

\* Clearing a channel takes out its items, from both indexes.
LEMMA ClearFacts ==
    ASSUME PendingTypes, IndexesAgree, PendingFinite,
           NEW c \in Channels, ClearPending(c)
    PROVE  /\ PendingTypes' /\ IndexesAgree' /\ PendingFinite'
           /\ pendingByTime' = {i \in pendingByTime : i.item.channel # c}
<1>1. /\ pendingByChannel' = [pendingByChannel EXCEPT ![c] = {}]
      /\ pendingByTime' = pendingByTime \ pendingByChannel[c]
  BY DEF ClearPending
<1>2. PendingTypes'
  BY <1>1 DEF PendingTypes
<1>3. pendingByChannel'[c] = {}
  BY <1>1 DEF PendingTypes
<1>4. \A d \in Channels : d # c => pendingByChannel'[d] = pendingByChannel[d]
  BY <1>1 DEF PendingTypes
<1>5. \A i \in pendingByTime : i \in pendingByChannel[c] <=> i.item.channel = c
  BY PendingChannel DEF IndexesAgree
<1>6. pendingByTime' = {i \in pendingByTime : i.item.channel # c}
  BY <1>1, <1>5
<1>7. pendingByTime' = UNION {pendingByChannel'[d] : d \in Channels}
  BY <1>3, <1>4, <1>6 DEF IndexesAgree
<1>8. IsFiniteSet({}) /\ Cardinality({}) = 0 /\ 0 <= PendingMax
  BY FS_EmptySet, SequencerAssumption
<1>9. PendingFinite'
  BY <1>3, <1>4, <1>8 DEF PendingFinite
<1>10. \A d \in Channels :
          /\ pendingByChannel'[d] \subseteq pendingByChannel[d]
          /\ Cardinality(pendingByChannel'[d]) <= PendingMax
  BY <1>3, <1>4, <1>8 DEF IndexesAgree
<1> QED
  BY <1>2, <1>6, <1>7, <1>9, <1>10 DEF IndexesAgree

\* The timer is stopped only when neither index has an item left.
LEMMA TimerMayStop ==
    ASSUME IndexesAgree', pendingByTime' # {}
    PROVE  ~NonePending
<1>1. pendingByTime' = UNION {pendingByChannel'[c] : c \in Channels}
  BY DEF IndexesAgree
<1> QED
  BY <1>1 DEF NonePending

-----------------------------------------------------------------------------
(* The inductive invariant                                                 *)

\* The parts of Inv that no action changes by itself, when it leaves the
\* pending items, the table, the subscriptions and the control point alone.
LEMMA Quiet ==
    ASSUME Inv, UNCHANGED <<subs, lastIds, pendingVars, sending>>,
           now' \in Nat, expiring' \in BOOLEAN, ready' \in Items \cup {NoItem},
           DOMAIN idCache' \subseteq Channels \X Ids,
           \A k \in DOMAIN idCache' : idCache'[k] \in Nat,
           expireTimer' = expireTimer
    PROVE  Inv'
<1> USE DEF Inv, pendingVars
<1>1. TypeOK'
  BY DEF TypeOK
<1>2. PendingFinite' /\ IndexesAgree' /\ PendingHasTimer'
  BY DEF PendingFinite, IndexesAgree, PendingHasTimer
<1>3. OnlySubscribedAreSequenced' /\ ChainInv'
  BY DEF OnlySubscribedAreSequenced, ChainInv, Value
<1> QED
  BY <1>1, <1>2, <1>3

\* The id cache stays well typed.
LEMMA CacheFacts ==
    ASSUME TypeOK, NEW item \in Items
    PROVE  /\ DOMAIN PurgedCache \subseteq Channels \X Ids
           /\ \A k \in DOMAIN PurgedCache : PurgedCache[k] \in Nat
           /\ DOMAIN CacheWith(item) \subseteq Channels \X Ids
           /\ \A k \in DOMAIN CacheWith(item) : CacheWith(item)[k] \in Nat
<1>1. /\ DOMAIN PurgedCache \subseteq Channels \X Ids
      /\ \A k \in DOMAIN PurgedCache : PurgedCache[k] \in Nat
  BY DEF PurgedCache, TypeOK
<1>2. now \in Nat /\ IdCacheTtl \in Nat
  BY SequencerAssumption DEF TypeOK
<1>3. CASE item.id # NullId /\ IdCacheTtl > 0
  <2>1. <<item.channel, item.id>> \in Channels \X Ids
    BY <1>3 DEF Items
  <2> QED
    BY <1>1, <1>2, <1>3, <2>1 DEF CacheWith
<1>4. CASE ~(item.id # NullId /\ IdCacheTtl > 0)
  BY <1>1, <1>4 DEF CacheWith
<1> QED
  BY <1>1, <1>3, <1>4

\* Signalling an item, then looking for those that wait for it, keeps the
\* invariant: only the item's own channel can be left with a waiting item.
LEMMA SendItemInv ==
    ASSUME Inv, NEW item \in Items, item.channel \in subs,
           PendingTypes', PendingFinite', IndexesAgree', PendingHasTimer',
           pendingByTime' \subseteq pendingByTime,
           UNCHANGED <<now, subs, expiring>>,
           DOMAIN idCache' \subseteq Channels \X Ids,
           \A k \in DOMAIN idCache' : idCache'[k] \in Nat,
           expireTimer' \in BOOLEAN,
           Signal(item),
           \/ sending' = [channel |-> item.channel, id |-> item.id]
           \/ sending' = NotSending /\ pendingByChannel'[item.channel] = {},
           sending = NotSending \/ sending.channel = item.channel
    PROVE  Inv'
<1> DEFINE c == item.channel
<1>1. /\ TableOK(lastIds')
      /\ DOMAIN lastIds' \subseteq DOMAIN lastIds \cup {c}
      /\ Value(lastIds', c) = item.id
      /\ \A d : d # c => Value(lastIds', d) \in {Value(lastIds, d), NullId}
      /\ ready' = item
  BY SignalFacts DEF Inv
<1>2. c \in Channels /\ item.id \in Ids \cup {NullId} /\ NotSending.channel \notin Channels
  BY SequencerAssumption DEF Items, NotSending
<1>3. TypeOK'
  <2>1. sending' \in [channel : Channels, id : Ids \cup {NullId}] \cup {NotSending}
    BY <1>2
  <2> QED
    BY <1>1, <2>1 DEF TypeOK, TableOK, PendingTypes, Inv
<1>4. OnlySubscribedAreSequenced'
  BY <1>1 DEF OnlySubscribedAreSequenced, Inv
<1>5. \A i \in pendingByTime' : /\ i \in pendingByChannel'[i.item.channel]
                               /\ i.item.channel \in Channels
                               /\ i.item.prevId # NullId
  BY PendingChannel DEF Inv, IndexesAgree, TypeOK, PendingTypes
<1>6. \A i \in pendingByTime' : i.item.channel # c
         => Value(lastIds', i.item.channel) # i.item.prevId
  <2> SUFFICES ASSUME NEW i \in pendingByTime', i.item.channel # c
               PROVE  Value(lastIds', i.item.channel) # i.item.prevId
    OBVIOUS
  <2>1. i \in pendingByTime /\ i.item.channel # sending.channel
    BY <1>2, <1>5 DEF NotSending
  <2>2. Value(lastIds, i.item.channel) # i.item.prevId
    BY <2>1 DEF Inv, ChainInv
  <2> QED
    BY <1>1, <1>5, <2>2
<1>7. ChainInv'
  <2>1. CASE sending' = [channel |-> c, id |-> item.id]
    BY <1>1, <1>6, <2>1 DEF ChainInv, Value
  <2>2. CASE sending' = NotSending /\ pendingByChannel'[c] = {}
    <3>1. \A i \in pendingByTime' : i.item.channel # c
      BY <1>5, <2>2
    <3> QED
      BY <1>6, <2>2, <3>1 DEF ChainInv, Value
  <2> QED
    BY <2>1, <2>2
<1> QED
  BY <1>3, <1>4, <1>7 DEF Inv

\* The invariant holds initially and every step keeps it.
LEMMA InitInv == Init => Inv
<1> SUFFICES ASSUME Init PROVE Inv
  OBVIOUS
<1> USE DEF Init
<1>1. TypeOK
  BY DEF TypeOK, EmptyTable
<1>2. PendingFinite /\ IndexesAgree
  BY FS_EmptySet, SequencerAssumption DEF PendingFinite, IndexesAgree
<1>3. PendingHasTimer /\ OnlySubscribedAreSequenced /\ ChainInv
  BY DEF PendingHasTimer, OnlySubscribedAreSequenced, ChainInv, EmptyTable
<1> QED
  BY <1>1, <1>2, <1>3 DEF Inv

LEMMA NextInv == Inv /\ [Next]_vars => Inv'
<1> SUFFICES ASSUME Inv, [Next]_vars PROVE Inv'
  OBVIOUS
<1>t. /\ TypeOK /\ PendingTypes /\ PendingFinite /\ IndexesAgree
      /\ NoItem \notin Channels /\ Published \subseteq Items
  BY SequencerAssumption DEF Inv, TypeOK, PendingTypes
<1>1. CASE SendChained
  <2>1. PICK i \in WaitingFor(sending.channel, sending.id) :
          /\ Unpend(i)
          /\ Signal(i.item)
          /\ sending' = [sending EXCEPT !.id = i.item.id]
    BY <1>1 DEF SendChained
  <2>2. /\ sending \in [channel : Channels, id : Ids \cup {NullId}]
        /\ sending.channel \in subs
    BY <1>1, <1>t DEF SendChained, TypeOK, Inv, ChainInv
  <2>3. i \in pendingByTime /\ i.item.channel = sending.channel
    BY <1>t, <2>2 DEF WaitingFor, IndexesAgree
  <2>4. i.item \in Items
    BY <1>t, <2>3, PendingChannel
  <2>5. /\ PendingTypes' /\ IndexesAgree' /\ PendingFinite'
        /\ pendingByTime' = pendingByTime \ {i}
    BY <1>t, <2>1, <2>3, UnpendFacts
  <2>6. PendingHasTimer'
    BY <1>1, <2>5 DEF SendChained, Inv, PendingHasTimer
  <2>7. sending' = [channel |-> i.item.channel, id |-> i.item.id]
    BY <2>1, <2>2, <2>3
  <2> QED
    BY <1>1, <1>t, <2>1, <2>2, <2>3, <2>4, <2>5, <2>6, <2>7, SendItemInv
    DEF SendChained, TypeOK
<1>2. CASE SendDone
  <2> USE <1>2 DEF SendDone, pendingVars
  <2>1. TypeOK'
    BY <1>t DEF TypeOK
  <2>2. PendingFinite' /\ IndexesAgree'
    BY <1>t DEF PendingFinite, IndexesAgree
  <2>3. PendingHasTimer'
    <3>1. pendingByTime' # {} => ~NonePending
      BY <2>2, TimerMayStop
    <3> QED
      BY <3>1, Zenon DEF PendingHasTimer, Inv
  <2>4. OnlySubscribedAreSequenced'
    BY DEF OnlySubscribedAreSequenced, Inv
  <2>5. ChainInv'
    <3> SUFFICES ASSUME NEW i \in pendingByTime
                 PROVE  Value(lastIds, i.item.channel) # i.item.prevId
      BY DEF ChainInv, Value
    <3>1. /\ i.item.channel \in Channels /\ i.item.prevId # NullId
          /\ i \in pendingByChannel[i.item.channel]
      BY <1>t, PendingChannel DEF IndexesAgree
    <3>2. Value(lastIds, sending.channel) = sending.id
      BY DEF Inv, ChainInv
    <3>3. CASE i.item.channel = sending.channel
      BY <3>1, <3>2, <3>3 DEF WaitingFor
    <3>4. CASE i.item.channel # sending.channel
      BY <3>4 DEF Inv, ChainInv
    <3> QED
      BY <3>3, <3>4
  <2> QED
    BY <2>1, <2>2, <2>3, <2>4, <2>5 DEF Inv
<1>3. ASSUME NEW item \in Published, AddItemSeen(item)
      PROVE  Inv'
  BY <1>3, <1>t, CacheFacts, Quiet DEF AddItemSeen, TypeOK
<1>4. ASSUME NEW item \in Published, NEW noSeq \in BOOLEAN,
             AddItemUnsequenced(item, noSeq)
      PROVE  Inv'
  BY <1>4, <1>t, CacheFacts, Quiet DEF AddItemUnsequenced, TypeOK
<1>5. ASSUME NEW item \in Published, AddItemSequenced(item)
      PROVE  Inv'
  <2>1. /\ item \in Items /\ item.channel \in subs /\ sending = NotSending
        /\ DOMAIN idCache' \subseteq Channels \X Ids
        /\ \A k \in DOMAIN idCache' : idCache'[k] \in Nat
        /\ UNCHANGED <<now, subs, expiring>>
    BY <1>5, <1>t, CacheFacts DEF AddItemSequenced, Idle
  <2>2. CASE /\ ready' = NoItem
             /\ UNCHANGED <<lastIds, pendingVars, expireTimer, sending>>
    BY <1>t, <2>1, <2>2, Quiet DEF TypeOK
  <2>3. CASE Gap(item) /\ ~CannotPend(item) /\ Pend(item)
    <3>1. item.prevId # NullId /\ now \in Nat
      BY <1>t, <2>3 DEF Gap, TypeOK
    <3>2. /\ PendingTypes' /\ IndexesAgree' /\ PendingFinite'
          /\ pendingByTime' = pendingByTime \cup {[time |-> now, item |-> item]}
      BY <1>t, <2>1, <2>3, <3>1, PendFacts
    <3>3. expireTimer' = TRUE /\ ready' = NoItem /\ UNCHANGED <<lastIds, sending>>
      BY <2>3 DEF Pend
    <3>4. TypeOK'
      BY <1>t, <2>1, <3>2, <3>3 DEF TypeOK, PendingTypes
    <3>5. PendingHasTimer' /\ OnlySubscribedAreSequenced'
      BY <2>1, <3>2, <3>3 DEF Inv, PendingHasTimer, OnlySubscribedAreSequenced
    <3>6. ChainInv'
      BY <2>1, <2>3, <3>2, <3>3 DEF Inv, ChainInv, Gap, Value
    <3> QED
      BY <3>2, <3>4, <3>5, <3>6 DEF Inv
  <2>4. CASE UNCHANGED <<pendingVars, expireTimer>> /\ SendItem(item)
    <3>1. PendingTypes' /\ PendingFinite' /\ IndexesAgree' /\ PendingHasTimer'
      BY <1>t, <2>4 DEF pendingVars, PendingTypes, PendingFinite, IndexesAgree,
                        PendingHasTimer, Inv
    <3>2. /\ pendingByTime' \subseteq pendingByTime
          /\ expireTimer' \in BOOLEAN
      BY <1>t, <2>4 DEF pendingVars, TypeOK
    <3> QED
      BY <2>1, <2>4, <3>1, <3>2, SendItemInv DEF SendItem
  <2> QED
    BY <1>5, <2>2, <2>3, <2>4 DEF AddItemSequenced
<1>6. CASE ExpireTimeout
  BY <1>6, <1>t, Quiet DEF ExpireTimeout, TypeOK
<1>7. CASE ExpireItem
  <2>1. PICK i \in FirstByTime : Unpend(i) /\ SendItem(i.item)
    BY <1>7 DEF ExpireItem
  <2>2. /\ i \in pendingByTime
        /\ i.item \in Items
        /\ i.item.channel \in subs
    BY <1>t, PendingChannel DEF FirstByTime, Inv, OnlySubscribedAreSequenced
  <2>3. /\ PendingTypes' /\ IndexesAgree' /\ PendingFinite'
        /\ pendingByTime' = pendingByTime \ {i}
    BY <1>t, <2>1, <2>2, UnpendFacts
  <2>4. PendingHasTimer' /\ expireTimer' \in BOOLEAN
    <3>1. pendingByTime' # {} => ~NonePending
      BY <2>3, TimerMayStop
    <3>2. expireTimer' = (expireTimer /\ ~NonePending)
      BY <1>7 DEF ExpireItem
    <3>3. pendingByTime # {} => expireTimer
      BY DEF Inv, PendingHasTimer
    <3> QED
      BY <2>2, <3>1, <3>2, <3>3, Zenon DEF PendingHasTimer
  <2> QED
    BY <1>7, <1>t, <2>1, <2>2, <2>3, <2>4, SendItemInv DEF ExpireItem, SendItem, TypeOK
<1>8. CASE ExpireDone
  BY <1>8, <1>t, Quiet DEF ExpireDone, TypeOK
<1>9. ASSUME NEW c \in Channels, AddSub(c)
      PROVE  Inv'
  <2> USE <1>9 DEF AddSub, pendingVars
  <2>1. TypeOK' /\ PendingFinite' /\ IndexesAgree' /\ PendingHasTimer'
    BY <1>t DEF TypeOK, PendingFinite, IndexesAgree, PendingHasTimer, Inv
  <2>2. OnlySubscribedAreSequenced' /\ ChainInv'
    BY DEF OnlySubscribedAreSequenced, ChainInv, Value, Inv
  <2> QED
    BY <2>1, <2>2 DEF Inv
<1>10. ASSUME NEW c \in Channels, RemoveSub(c)
       PROVE  Inv'
  <2> USE <1>10 DEF RemoveSub, Idle
  <2>1. /\ PendingTypes' /\ IndexesAgree' /\ PendingFinite'
        /\ pendingByTime' = {i \in pendingByTime : i.item.channel # c}
    BY <1>t, ClearFacts
  <2>2. /\ TableOK(lastIds') /\ DOMAIN lastIds' = DOMAIN lastIds \ {c}
        /\ \A d : d # c => Value(lastIds', d) = Value(lastIds, d)
    BY <1>t, RemoveFacts DEF TypeOK, TableOK
  <2>3. TypeOK'
    BY <1>t, <2>1, <2>2 DEF TypeOK, PendingTypes, TableOK
  <2>4. PendingHasTimer' /\ OnlySubscribedAreSequenced'
    BY <2>1, <2>2 DEF PendingHasTimer, OnlySubscribedAreSequenced, Inv
  <2>5. ChainInv'
    BY <2>1, <2>2 DEF ChainInv, Value, Inv
  <2> QED
    BY <2>1, <2>3, <2>4, <2>5 DEF Inv
<1>11. ASSUME lastIds' = EmptyTable \/ \E c \in Channels : lastIds' = Remove(lastIds, c),
              ready' = NoItem, sending = NotSending,
              UNCHANGED <<now, subs, pendingVars, expireTimer, idCache, sending, expiring>>
       PROVE  Inv'
  <2> USE <1>11 DEF pendingVars
  <2>1. /\ TableOK(lastIds') /\ DOMAIN lastIds' \subseteq DOMAIN lastIds
        /\ \A d : Value(lastIds', d) \in {Value(lastIds, d), NullId}
    <3>1. CASE lastIds' = EmptyTable
      BY <3>1 DEF EmptyTable, TableOK, Value
    <3>2. CASE \E c \in Channels : lastIds' = Remove(lastIds, c)
      <4>1. PICK c : lastIds' = Remove(lastIds, c)
        BY <3>2
      <4>2. /\ TableOK(Remove(lastIds, c))
            /\ DOMAIN Remove(lastIds, c) = DOMAIN lastIds \ {c}
            /\ Value(Remove(lastIds, c), c) = NullId
            /\ \A d : d # c => Value(Remove(lastIds, c), d) = Value(lastIds, d)
        BY <1>t, RemoveFacts DEF TypeOK, TableOK
      <4> QED
        BY <4>1, <4>2
    <3> QED
      BY <3>1, <3>2
  <2>2. TypeOK' /\ PendingFinite' /\ IndexesAgree' /\ PendingHasTimer'
    BY <1>t, <2>1 DEF TypeOK, TableOK, PendingFinite, IndexesAgree, PendingHasTimer, Inv
  <2>3. OnlySubscribedAreSequenced'
    BY <2>1 DEF OnlySubscribedAreSequenced, Inv
  <2>4. ChainInv'
    <3>1. \A i \in pendingByTime : i.item.prevId # NullId
      BY <1>t, PendingChannel DEF IndexesAgree
    <3> QED
      BY <2>1, <3>1 DEF ChainInv, Value, Inv
  <2> QED
    BY <2>2, <2>3, <2>4 DEF Inv
<1>12. CASE Recover
  BY <1>11, <1>12 DEF Recover, Idle
<1>13. ASSUME NEW c \in Channels, ForgetLastId(c)
       PROVE  Inv'
  BY <1>11, <1>13 DEF ForgetLastId, Idle
<1>14. CASE Tick
  BY <1>14, <1>t, Quiet DEF Tick, TypeOK
<1>15. CASE UNCHANGED vars
  BY <1>15, <1>t, Quiet DEF vars, TypeOK
<1> QED
  BY <1>1, <1>2, <1>3, <1>4, <1>5, <1>6, <1>7, <1>8, <1>9, <1>10, <1>12, <1>13,
     <1>14, <1>15 DEF Next

\* The inductive invariant holds of every behaviour.
THEOREM Invariance == Spec => []Inv
<1> QED
  BY InitInv, NextInv, PTL DEF Spec

-----------------------------------------------------------------------------
(* The properties                                                          *)

\* The types of the sequencer's state, for any channels, items and bounds.
THEOREM TypeCorrect == Spec => []TypeOK
<1>1. Inv => TypeOK
  BY DEF Inv
<1> QED
  BY <1>1, Invariance, PTL

\* The index by prev-id and the index by time hold the same pending items.
THEOREM IndexesAlwaysAgree == Spec => []IndexesAgree
<1>1. Inv => IndexesAgree
  BY DEF Inv
<1> QED
  BY <1>1, Invariance, PTL

\* No item is pending without the timer that would expire it.
THEOREM PendingAlwaysHasTimer == Spec => []PendingHasTimer
<1>1. Inv => PendingHasTimer
  BY DEF Inv
<1> QED
  BY <1>1, Invariance, PTL

\* Between handlers no item waits for an id that was already sent: the loop of
\* sendItem() ends only when the chain does.
THEOREM ChainsAreFollowed == Spec => []NothingWaitsForLastId
<1>1. Inv => NothingWaitsForLastId
  <2> SUFFICES ASSUME Inv, Idle, NEW i \in pendingByTime
               PROVE  Value(lastIds, i.item.channel) # i.item.prevId
    BY DEF NothingWaitsForLastId
  <2>1. i.item.channel \in Channels
    BY PendingChannel DEF Inv, TypeOK, PendingTypes
  <2>2. i.item.channel # sending.channel
    BY <2>1, SequencerAssumption DEF Idle, NotSending
  <2> QED
    BY <2>2 DEF Inv, ChainInv
<1> QED
  BY <1>1, Invariance, PTL

\* Last ids and pending items exist only for channels that are subscribed.
THEOREM OnlySubscribed == Spec => []OnlySubscribedAreSequenced
<1>1. Inv => OnlySubscribedAreSequenced
  BY DEF Inv
<1> QED
  BY <1>1, Invariance, PTL

\* An item that was put aside is signalled, unless its channel's subscription
\* ends first; no step loses it.
THEOREM PendingIsNeverLost == Spec => PendingIsSignalledOrCleared
<1> DEFINE Kept == \A i \in pendingByTime \ pendingByTime' :
                      ready' = i.item \/ i.item.channel \in subs \ subs'
<1>1. Inv /\ [Next]_vars => [Kept]_vars
  <2> SUFFICES ASSUME Inv, Next, NEW i \in pendingByTime \ pendingByTime'
               PROVE  ready' = i.item \/ i.item.channel \in subs \ subs'
    OBVIOUS
  <2>t. PendingTypes /\ PendingFinite /\ IndexesAgree
    BY DEF Inv, TypeOK, PendingTypes
  <2>1. CASE SendChained
    <3>1. PICK j \in WaitingFor(sending.channel, sending.id) : Unpend(j) /\ Signal(j.item)
      BY <2>1 DEF SendChained
    <3> QED
      BY <3>1 DEF Unpend, Signal
  <2>2. CASE ExpireItem
    <3>1. PICK j \in FirstByTime : Unpend(j) /\ SendItem(j.item)
      BY <2>2 DEF ExpireItem
    <3> QED
      BY <3>1 DEF Unpend, SendItem, Signal
  <2>3. ASSUME NEW c \in Channels, RemoveSub(c)
        PROVE  i.item.channel \in subs \ subs'
    <3>1. i \in pendingByChannel[c]
      BY <2>3 DEF RemoveSub, ClearPending
    <3> QED
      BY <2>3, <2>t, <3>1 DEF RemoveSub, IndexesAgree
  <2>4. ASSUME NEW item \in Published, AddItemSequenced(item)
        PROVE  FALSE
    BY <2>4 DEF AddItemSequenced, Pend, pendingVars
  <2>5. ASSUME UNCHANGED pendingVars
        PROVE  FALSE
    BY <2>5 DEF pendingVars
  <2> QED
    BY <2>1, <2>2, <2>3, <2>4, <2>5
    DEF Next, SendDone, AddItemSeen, AddItemUnsequenced, ExpireTimeout, ExpireDone,
        AddSub, Recover, ForgetLastId, Tick
<1> QED
  BY <1>1, Invariance, PTL DEF Spec, PendingIsSignalledOrCleared

\* A sequenced item is signalled past a gap only when it has waited for WaitMax
\* among the pending items: neither a fresh item nor one sent by sendItem()'s
\* loop ever is.
THEOREM GapsAreWaitedFor == Spec => GapOnlyAfterWait
<1> DEFINE Waited == \A item \in Items :
              ready' = item /\ Gap(item) /\ lastIds' # lastIds
                 => \E i \in pendingByTime : i.item = item /\ i.time + WaitMax <= now
<1>1. Inv /\ [Next]_vars => [Waited]_vars
  <2> SUFFICES ASSUME Inv, Next, NEW item \in Items,
                      ready' = item, Gap(item), lastIds' # lastIds
               PROVE  \E i \in pendingByTime : i.item = item /\ i.time + WaitMax <= now
    OBVIOUS
  <2>t. item # NoItem
    BY SequencerAssumption
  <2>1. ASSUME SendChained PROVE FALSE
    <3>1. PICK j \in WaitingFor(sending.channel, sending.id) : Signal(j.item)
      BY <2>1 DEF SendChained
    <3>2. j.item = item /\ item.prevId = sending.id
      BY <3>1 DEF Signal, WaitingFor
    <3>3. sending.channel \in Channels
      BY <2>1 DEF SendChained, Inv, TypeOK
    <3>4. item.channel = sending.channel
      BY <3>1, <3>2, <3>3 DEF WaitingFor, Inv, IndexesAgree
    <3>5. Value(lastIds, sending.channel) = sending.id
      BY <2>1 DEF SendChained, Inv, ChainInv
    <3> QED
      BY <3>2, <3>4, <3>5 DEF Gap
  <2>2. ASSUME NEW new \in Published, AddItemSequenced(new)
        PROVE  FALSE
    BY <2>2, <2>t DEF AddItemSequenced, Pend, SendItem, Signal
  <2>3. CASE ExpireItem
    <3>1. PICK j \in FirstByTime : Expired(j) /\ SendItem(j.item)
      BY <2>3 DEF ExpireItem
    <3>2. j.item = item /\ j \in pendingByTime
      BY <3>1 DEF SendItem, Signal, FirstByTime
    <3> QED
      BY <3>1, <3>2 DEF Expired
  <2>4. ASSUME ready' = NoItem \/ lastIds' = lastIds PROVE FALSE
    BY <2>4, <2>t
  <2> QED
    BY <2>1, <2>2, <2>3, <2>4
    DEF Next, SendDone, AddItemSeen, AddItemUnsequenced, ExpireTimeout, ExpireDone,
        AddSub, RemoveSub, Recover, ForgetLastId, Tick
<1> QED
  BY <1>1, Invariance, PTL DEF Spec, GapOnlyAfterWait
=============================================================================
