---------------------------- MODULE ServerWorker ----------------------------
(***************************************************************************)
(* A worker of the connection manager's server                             *)
(* (src/src/connmgr/server.rs): the registry its connections share, the    *)
(* task that accepts connections, the tasks that exchange messages with    *)
(* the ClientSocketManager (src/src/connmgr/zhttpsocket.rs), the task that *)
(* sends keep-alives in batches (src/src/connmgr/batch.rs), and the        *)
(* shutdown.  A connection is what its worker sees of it; what it does     *)
(* with the messages is in ServerStream.  Sequence numbers count modulo    *)
(* SeqLimit.                                                                 *)
(***************************************************************************)
EXTENDS Integers, Sequences, FiniteSets, SequencesExt

CONSTANTS
  ReqMax,       \* req_maxconn
  StreamMax,    \* stream_maxconn
  Batches,      \* KEEP_ALIVE_BATCHES
  IdsMax,       \* IDS_MAX
  HandleBound,  \* handle_bound
  Addrs,        \* addresses of ZHTTP handlers
  SeqLimit,
  AcceptMax,    \* bound: connections accepted
  IdMax,        \* bound: ids assigned
  SendMax,      \* bound: packets connections send
  ReplyMax,     \* bound: packets the handlers send
  StopMax,      \* bound: how often the worker is told to stop, 0 or 1
  ReplyTypes    \* packets the handlers send

ASSUME ServerWorkerAssumption ==
  /\ ReqMax \in Nat /\ StreamMax \in Nat /\ Batches \in Nat \ {0} /\ IdsMax \in Nat \ {0}
  /\ HandleBound \in Nat /\ SeqLimit \in Nat \ {0} /\ IdMax \in Nat /\ StopMax \in Nat

Modes == {"req", "stream"}
Cap == ReqMax + StreamMax
Keys == 0 .. Cap - 1
MaxOf(m) == IF m = "req" THEN ReqMax ELSE StreamMax
NoAddr == "no addr"

VARIABLES
  nodes,    \* ConnectionItems.nodes: key -> connection, or Free
  vacant,   \* the vacant keys, the next one first
  chan,     \* zreceiver channels, bound RESP_SENDER_BOUND
  pool,     \* ChannelPool
  nextCid,
  batch,    \* Batch
  q,        \* the queues between the tasks
  task,     \* the tasks of the worker
  peer,     \* the sessions, by the number of their id, as the handlers see them
  bad,      \* a packet came to a handler out of sequence
  bound     \* what has been used of the bounds

vars == <<nodes, vacant, chan, pool, nextCid, batch, q, task, peer, bad, bound>>

Free == [phase |-> "free"]

\* A session that no handler has (yet), that was cancelled at shutdown, or
\* whose packets do not count any more: it ended, or one of them was lost.
Unknown == [st |-> "unknown"]
Gone == [st |-> "gone"]
Stopped == [st |-> "stopped"]

Init ==
  /\ nodes = [k \in Keys |-> Free]
  /\ vacant = [i \in 1 .. Cap |-> i - 1]
  /\ chan = [c \in 1 .. Cap |-> <<>>] /\ pool = [i \in 1 .. Cap |-> i]
  /\ nextCid = 0
  /\ batch = [addrs |-> <<>>, index |-> 1]
  /\ q = [out |-> <<>>, mgrIn |-> <<>>, pipeIn |-> [m \in Modes |-> <<>>],
          done |-> [m \in Modes |-> <<>>]]
  /\ task = [run |-> "run", accept |-> "run", handle |-> [m \in Modes |-> "run"],
             ka |-> "wait", kaIndex |-> 0, kaCount |-> 0, cancelIndex |-> 0, timedOut |-> FALSE]
  /\ peer = [n \in 0 .. IdMax - 1 |-> Unknown]
  /\ bad = FALSE
  /\ bound = [accepted |-> 0, sent |-> 0, replies |-> 0]

Items(m) == {k \in Keys : nodes[k] # Free /\ nodes[k].mode = m}
Running(k) == nodes[k] # Free /\ nodes[k].phase # "ended"
Inc(n) == (n + 1) % SeqLimit
OutRoom == Len(q.out) < HandleBound

-----------------------------------------------------------------------------
(* The batch.                                                              *)

\* The places of the keys in the lists of their addresses.
BatchNodes(b) == UNION {{i} \X DOMAIN b.addrs[i].keys : i \in DOMAIN b.addrs}
BatchLen(b) == Cardinality(BatchNodes(b))
BatchIsEmpty(b) == \A i \in DOMAIN b.addrs : b.addrs[i].keys = <<>>
BatchCapacity == (StreamMax + Batches - 1) \div Batches

\* Batch::add: the position, or 0 if the key is not added.
BatchAdd(b, addr, k) ==
  LET c == IF BatchIsEmpty(b) THEN [addrs |-> <<>>, index |-> 1] ELSE b
      found == {i \in DOMAIN c.addrs : c.addrs[i].addr = addr}
      pos == IF found = {} THEN Len(c.addrs) + 1 ELSE CHOOSE i \in found : TRUE
  IN IF BatchLen(b) = BatchCapacity \/ pos < c.index \/ pos > BatchCapacity
     THEN [batch |-> b, pos |-> 0]
     ELSE [pos |-> pos,
           batch |-> [index |-> c.index,
                      addrs |-> IF found = {} THEN Append(c.addrs, [addr |-> addr, keys |-> <<k>>])
                                ELSE [c.addrs EXCEPT ![pos].keys = Append(@, k)]]]

\* Batch::remove.
BatchRemove(b, pos, k) ==
  IF pos = 0 THEN b ELSE [b EXCEPT !.addrs[pos].keys = RemoveFirst(@, k)]

\* Batch::take_group: keys leave from the front until there is a group of ids
\* of one address.  A key that is not included leaves as well.
TakeGroup(b, included) ==
  LET has(i) == i >= b.index /\ ToSet(b.addrs[i].keys) \cap included # {}
      groups == {i \in DOMAIN b.addrs : has(i)}
      pos == IF groups = {} THEN Len(b.addrs) + 1 ELSE Min(groups)
      keys == IF groups = {} THEN <<>> ELSE b.addrs[pos].keys
      ids(n) == ToSet(SubSeq(keys, 1, n)) \cap included
      cut == Min({Len(keys)} \cup {n \in DOMAIN keys : Cardinality(ids(n)) = IdsMax})
  IN [addr |-> IF groups = {} THEN NoAddr ELSE b.addrs[pos].addr,
      ids |-> ids(cut),
      removed |-> (UNION {ToSet(b.addrs[i].keys) : i \in b.index .. pos - 1})
                    \cup ToSet(SubSeq(keys, 1, cut)),
      batch |-> [index |-> pos,
                 addrs |-> [i \in DOMAIN b.addrs |->
                   IF i < pos THEN [b.addrs[i] EXCEPT !.keys = <<>>]
                   ELSE IF i = pos THEN [b.addrs[i] EXCEPT !.keys = SubSeq(@, cut + 1, Len(@))]
                   ELSE b.addrs[i]]]]

\* Connections::batch_add, of a stream connection with a known address.
ConnectionsBatchAdd(s, k) ==
  IF s.nodes[k] = Free \/ s.nodes[k].mode # "stream" \/ s.nodes[k].addr = NoAddr THEN s
  ELSE LET r == BatchAdd(s.batch, s.nodes[k].addr, k)
       IN IF r.pos = 0 THEN s
          ELSE [batch |-> r.batch, nodes |-> [s.nodes EXCEPT ![k].bkey = r.pos]]

\* The keys from first on, up to the one before next, in order.
AddKeys(first, next) ==
  FoldLeft(ConnectionsBatchAdd, [nodes |-> nodes, batch |-> batch],
           [i \in 1 .. next - first |-> first + i - 1])

\* Mutant: the sequence numbers are not used up.
NextBatchKeepsSeq(t) ==
  LET g == TakeGroup(batch, {k \in Keys : nodes[k] # Free /\ nodes[k].addr # NoAddr})
  IN [batch |-> g.batch,
      nodes |-> [k \in Keys |-> IF k \in g.removed THEN [nodes[k] EXCEPT !.bkey = 0] ELSE nodes[k]],
      packet |-> [t |-> t, to |-> g.addr,
                  ids |-> {[id |-> nodes[k].id, seq |-> nodes[k].seq] : k \in g.ids}]]

\* Connections::next_batch_message: the packet, with no ids if there is none,
\* what becomes of the batch keys, and the sequence numbers it uses.
NextBatchMessage(t) ==
  LET g == TakeGroup(batch, {k \in Keys : nodes[k] # Free /\ nodes[k].addr # NoAddr})
  IN [batch |-> g.batch,
      nodes |-> [k \in Keys |->
        IF k \notin g.removed THEN nodes[k]
        ELSE [nodes[k] EXCEPT !.bkey = 0, !.seq = IF k \in g.ids THEN Inc(@) ELSE @]],
      packet |-> [t |-> t, to |-> g.addr,
                  ids |-> {[id |-> nodes[k].id, seq |-> nodes[k].seq] : k \in g.ids}]]

-----------------------------------------------------------------------------
(* accept_task, for the connections of mode m.                             *)

\* gen_id: an id tells its connection's key.
GenId(k) == [key |-> k, n |-> nextCid]

\* Connections::add, with the channel it is given.
NewItem(m, k, c) ==
  [phase |-> "idle", mode |-> m, id |-> GenId(k), first |-> nextCid, ch |-> c, addr |-> NoAddr, seq |-> 0,
   bkey |-> 0, stop |-> FALSE]

Accept(m) ==
  /\ task.accept = "run" /\ bound.accepted < AcceptMax /\ nextCid < IdMax
  /\ Cardinality(Items(m)) < MaxOf(m)
  /\ nodes' = [nodes EXCEPT ![Head(vacant)] = NewItem(m, Head(vacant), Last(pool))]
  /\ pool' = Front(pool)
  /\ vacant' = Tail(vacant) /\ nextCid' = nextCid + 1
  /\ bound' = [bound EXCEPT !.accepted = @ + 1]
  /\ UNCHANGED <<chan, batch, q, task, peer, bad>>

\* Mutant: the channel is not cleared.
RemoveKeepsMessages(k) ==
  /\ nodes' = [nodes EXCEPT ![k] = Free]
  /\ vacant' = <<k>> \o vacant
  /\ batch' = BatchRemove(batch, nodes[k].bkey, k)
  /\ pool' = Append(pool, nodes[k].ch)
  /\ UNCHANGED chan

\* Connections::remove, and the channel goes back to the pool, empty.
ConnectionsRemove(k) ==
  /\ nodes' = [nodes EXCEPT ![k] = Free]
  /\ vacant' = <<k>> \o vacant
  /\ batch' = BatchRemove(batch, nodes[k].bkey, k)
  /\ chan' = [chan EXCEPT ![nodes[k].ch] = <<>>] /\ pool' = Append(pool, nodes[k].ch)

AcceptDone(m) ==
  /\ task.accept = "run" /\ q.done[m] # <<>>
  /\ ConnectionsRemove(Head(q.done[m]))
  /\ q' = [q EXCEPT !.done[m] = Tail(@)]
  /\ UNCHANGED <<nextCid, task, peer, bad, bound>>

\* The tasks are told to stop: stop_all.  What is left for them is to wait until
\* the other ends of their channels go away; nothing is removed any more.
AcceptStop ==
  /\ task.accept = "run" /\ task.run = "accept"
  /\ task' = [task EXCEPT !.accept = "drain"]
  /\ nodes' = [k \in Keys |-> IF nodes[k] # Free THEN [nodes[k] EXCEPT !.stop = TRUE] ELSE Free]
  /\ UNCHANGED <<vacant, chan, pool, nextCid, batch, q, peer, bad, bound>>

-----------------------------------------------------------------------------
(* The connection with key k.                                              *)

\* A request: its first packet goes to any handler.
ConnRequest(k) ==
  /\ Running(k) /\ nodes[k].phase = "idle"
  /\ nodes' = [nodes EXCEPT ![k].phase = "wait", ![k].seq = Inc(@)]
  /\ peer' = [peer EXCEPT ![nodes[k].id.n] =
                 [st |-> "has", id |-> nodes[k].id, mode |-> nodes[k].mode, addr |-> NoAddr, seq |-> Inc(0)]]
  /\ UNCHANGED <<vacant, chan, pool, nextCid, batch, q, task, bad, bound>>

Packet(k, t) ==
  [t |-> t, to |-> nodes[k].addr, ids |-> {[id |-> nodes[k].id, seq |-> nodes[k].seq]}]

\* ZhttpStreamSessionOut::try_send_msg, after check_send.
ConnSend(k) ==
  /\ Running(k) /\ nodes[k].phase = "active" /\ bound.sent < SendMax /\ OutRoom
  /\ q' = [q EXCEPT !.out = Append(@, Packet(k, "data"))]
  /\ nodes' = [nodes EXCEPT ![k].seq = Inc(@)]
  /\ bound' = [bound EXCEPT !.sent = @ + 1]
  /\ UNCHANGED <<vacant, chan, pool, nextCid, batch, task, peer, bad>>

\* Connections::regen_id, after StreamSharedData::reset.
RegenId(k) ==
  /\ nodes' = [nodes EXCEPT ![k] = [@ EXCEPT !.phase = "idle", !.id = GenId(k),
                                             !.addr = NoAddr, !.seq = 0, !.bkey = 0]]
  /\ batch' = BatchRemove(batch, nodes[k].bkey, k)
  /\ nextCid' = nextCid + 1

\* The task of the connection ends; done has room for every connection.
Ended(k) == [nodes[k] EXCEPT !.phase = "ended"]
Done(k, queues) == [queues EXCEPT !.done[nodes[k].mode] = Append(@, k)]

\* A message.  Where none is expected (discard_while) any message ends the
\* connection; elsewhere one for an id the connection had before is skipped.
ConnMsg(k) ==
  /\ Running(k) /\ chan[nodes[k].ch] # <<>>
  /\ LET p == Head(chan[nodes[k].ch])
         conn(c) == [nodes EXCEPT ![k] = c]
         from == [nodes[k] EXCEPT !.addr = p.from]
     IN IF nodes[k].phase \in {"idle", "flush"}
        THEN nodes' = conn(Ended(k)) /\ q' = Done(k, q)
        ELSE IF p.id # nodes[k].id THEN UNCHANGED <<nodes, q>>
        ELSE IF p.t = "cancel" THEN nodes' = conn(Ended(k)) /\ q' = Done(k, q)
        ELSE /\ nodes' = conn([from EXCEPT !.phase =
                            CASE p.t = "end" -> "finish" [] p.t = "handoffStart" -> "flush"
                              [] OTHER -> IF @ = "finish" THEN @ ELSE "active"])
             /\ UNCHANGED q
  /\ chan' = [chan EXCEPT ![nodes[k].ch] = Tail(@)]
  /\ UNCHANGED <<vacant, pool, nextCid, batch, task, peer, bad, bound>>

\* The response is written: the connection is reused or ends.
ConnFinish(k) ==
  /\ Running(k) /\ nodes[k].phase = "finish"
  /\ \/ nextCid < IdMax /\ RegenId(k) /\ UNCHANGED q
     \/ nodes' = [nodes EXCEPT ![k] = Ended(k)] /\ q' = Done(k, q) /\ UNCHANGED <<batch, nextCid>>
  /\ UNCHANGED <<vacant, chan, pool, task, peer, bad, bound>>

\* accept_handoff.
ConnProceed(k) ==
  /\ Running(k) /\ nodes[k].phase = "flush" /\ OutRoom
  /\ q' = [q EXCEPT !.out = Append(@, Packet(k, "handoffProceed"))]
  /\ nodes' = [nodes EXCEPT ![k].seq = Inc(@), ![k].addr = NoAddr, ![k].phase = "paused"]
  /\ UNCHANGED <<vacant, chan, pool, nextCid, batch, task, peer, bad, bound>>

\* It ends because of its client: a cancel if a handler is known, best effort.
ConnClosed(k) ==
  /\ Running(k)
  /\ LET cancel == nodes[k].addr # NoAddr
     IN /\ nodes' = [nodes EXCEPT ![k] = [Ended(k) EXCEPT !.seq = IF cancel THEN Inc(@) ELSE @]]
        /\ q' = Done(k, IF cancel /\ OutRoom THEN [q EXCEPT !.out = Append(@, Packet(k, "cancel"))]
                        ELSE q)
        /\ peer' = IF cancel /\ ~OutRoom THEN [peer EXCEPT ![nodes[k].id.n] = Gone] ELSE peer
  /\ UNCHANGED <<vacant, chan, pool, nextCid, batch, task, bad, bound>>

\* Mutant: a connection that waits for the proceed does not see it.
ConnStopUnlessPaused(k) ==
  /\ Running(k) /\ nodes[k].stop /\ nodes[k].phase # "paused"
  /\ nodes' = [nodes EXCEPT ![k] = Ended(k)]
  /\ q' = Done(k, q)
  /\ UNCHANGED <<vacant, chan, pool, nextCid, batch, task, peer, bad, bound>>

\* Its token is cancelled.
ConnStop(k) ==
  /\ Running(k) /\ nodes[k].stop
  /\ nodes' = [nodes EXCEPT ![k] = Ended(k)]
  /\ q' = Done(k, q)
  /\ UNCHANGED <<vacant, chan, pool, nextCid, batch, task, peer, bad, bound>>

-----------------------------------------------------------------------------
(* req_handle_task and stream_handle_task.                                 *)

\* yield_to_local_events: every connection has taken its message.
Yielded == \A k \in Keys : Running(k) => chan[nodes[k].ch] = <<>>

\* get_key and Connections::check_id.
CheckId(id) == nodes[id.key] # Free /\ nodes[id.key].id = id

\* Connections::try_send: a channel that is full does not take a message, nor
\* does that of a connection that has ended.
TrySend(c, id, p) ==
  IF Running(id.key) /\ nodes[id.key].ch = c /\ chan[c] = <<>>
  THEN <<[t |-> p.t, from |-> p.from, id |-> id]>> ELSE chan[c]

\* A message goes to the connections whose ids it has.
HandleRecv(m) ==
  /\ task.handle[m] = "run" /\ q.pipeIn[m] # <<>> /\ Yielded
  /\ LET p == Head(q.pipeIn[m])
         mine(c) == {id \in p.ids : CheckId(id) /\ nodes[id.key].ch = c}
     IN chan' = [c \in DOMAIN chan |->
          IF mine(c) = {} THEN chan[c] ELSE TrySend(c, CHOOSE id \in mine(c) : TRUE, p)]
  /\ q' = [q EXCEPT !.pipeIn[m] = Tail(@)]
  /\ UNCHANGED <<nodes, vacant, pool, nextCid, batch, task, peer, bad, bound>>

Sessions(p) == {x.id.n : x \in p.ids}

\* The channel of the connections that are done has no sender any more.  The
\* packets of connections that the manager did not take yet are dropped.
HandleEnd(m) ==
  /\ task.handle[m] = "run" /\ task.accept = "drain" /\ \A k \in Items(m) : ~Running(k)
  /\ task' = [task EXCEPT !.handle[m] = "ended"]
  /\ \E n \in IF m = "req" \/ q.mgrIn = <<>> THEN {Len(q.out)} ELSE 0 .. Len(q.out) :
       /\ q' = [q EXCEPT !.out = SubSeq(@, 1, n)]
       /\ peer' = [x \in DOMAIN peer |->
            IF \E i \in n + 1 .. Len(q.out) : x \in Sessions(q.out[i]) THEN Gone ELSE peer[x]]
  /\ UNCHANGED <<nodes, vacant, chan, pool, nextCid, batch, bad, bound>>

-----------------------------------------------------------------------------
(* keep_alives_task.                                                       *)

\* The keys of one interval end before KaEnd.
KaEnd == Min({task.kaIndex + BatchCapacity, Cap})

KaWrap == task.kaCount + 1 >= Batches

\* Mutant: the keys never start again.
KaRunsOut == KaEnd

\* next_keep_alive_index.
KaNextIndex == IF KaWrap THEN 0 ELSE KaEnd

\* An interval: the keys that are due are added, and after Batches intervals
\* the keys start again.
KeepAliveInterval ==
  /\ task.ka = "wait" /\ task.run = "run"
  /\ \E s \in {AddKeys(task.kaIndex, KaEnd)} :
        /\ nodes' = s.nodes /\ batch' = s.batch
        /\ task' = [task EXCEPT !.ka = IF BatchIsEmpty(s.batch) THEN "wait" ELSE "send",
                                !.kaIndex = KaNextIndex,
                                !.kaCount = IF KaWrap THEN 0 ELSE @ + 1]
  /\ UNCHANGED <<vacant, chan, pool, nextCid, q, peer, bad, bound>>

\* There is room for a packet, which may turn out not to be needed.
KeepAliveSend ==
  /\ task.ka = "send" /\ task.run = "run" /\ OutRoom
  /\ LET r == NextBatchMessage("keepAlive")
     IN /\ batch' = r.batch /\ nodes' = r.nodes
        /\ q' = IF r.packet.ids = {} THEN q ELSE [q EXCEPT !.out = Append(@, r.packet)]
        /\ task' = [task EXCEPT !.ka = IF BatchIsEmpty(r.batch) THEN "wait" ELSE "send"]
  /\ UNCHANGED <<vacant, chan, pool, nextCid, peer, bad, bound>>

\* The batch was emptied by connections that went away.
KeepAliveNothing ==
  /\ task.ka = "send" /\ BatchIsEmpty(batch)
  /\ task' = [task EXCEPT !.ka = "wait"]
  /\ UNCHANGED <<nodes, vacant, chan, pool, nextCid, batch, q, peer, bad, bound>>

KeepAliveStop ==
  /\ task.ka # "ended" /\ task.run = "ka"
  /\ task' = [task EXCEPT !.ka = "ended"]
  /\ UNCHANGED <<nodes, vacant, chan, pool, nextCid, batch, q, peer, bad, bound>>

-----------------------------------------------------------------------------
(* Worker::run, from the moment it is told to stop.                        *)

RunStop ==
  /\ \/ StopMax > 0 /\ task.run = "run" /\ task' = [task EXCEPT !.run = "ka"]
     \/ /\ task.run = "ka" /\ task.ka = "ended"
        /\ task' = [task EXCEPT !.run = "accept"]
  /\ UNCHANGED <<nodes, vacant, chan, pool, nextCid, batch, q, peer, bad, bound>>

\* The tasks are done: batch_clear, and the cancels follow.
RunTasksDone ==
  /\ task.run = "accept" /\ \A m \in Modes : task.handle[m] = "ended"
  /\ task' = [task EXCEPT !.run = "cancel"]
  /\ batch' = [addrs |-> <<>>, index |-> 1]
  /\ UNCHANGED <<nodes, vacant, chan, pool, nextCid, q, peer, bad, bound>>

\* Mutant: only the connections that are not done yet.
CancelFillRunning ==
  /\ task.run = "cancel" /\ task.cancelIndex < Cap
  /\ task' = [task EXCEPT !.cancelIndex = Cap, !.run = "drain"]
  /\ UNCHANGED <<nodes, vacant, chan, pool, nextCid, batch, q, peer, bad, bound>>

\* The batch is filled with the keys that follow, until it is full or there are
\* none; then its messages go out.
RunCancelFill ==
  /\ task.run = "cancel" /\ task.cancelIndex < Cap
  /\ LET full(n) == BatchLen(AddKeys(task.cancelIndex, n).batch) = BatchCapacity
     IN \E next \in {Min({Cap} \cup {n \in task.cancelIndex .. Cap : full(n)})} :
        \E s \in {AddKeys(task.cancelIndex, next)} :
        /\ nodes' = s.nodes /\ batch' = s.batch
        /\ task' = [task EXCEPT !.cancelIndex = next, !.run = "drain"]
  /\ UNCHANGED <<vacant, chan, pool, nextCid, q, peer, bad, bound>>

\* A cancel; the loop ends with the first call that has no message.
RunCancelSend ==
  /\ task.run = "drain" /\ ~BatchIsEmpty(batch) /\ OutRoom
  /\ LET r == NextBatchMessage("cancel")
     IN /\ batch' = r.batch /\ nodes' = r.nodes
        /\ q' = IF r.packet.ids = {} THEN q ELSE [q EXCEPT !.out = Append(@, r.packet)]
  /\ UNCHANGED <<vacant, chan, pool, nextCid, task, peer, bad, bound>>

RunCancelMore ==
  /\ task.run = "drain" /\ BatchIsEmpty(batch)
  /\ task' = [task EXCEPT !.run = "cancel"]
  /\ UNCHANGED <<nodes, vacant, chan, pool, nextCid, batch, q, peer, bad, bound>>

RunEnd ==
  /\ task.run = "cancel" /\ task.cancelIndex = Cap
  /\ task' = [task EXCEPT !.run = "ended"]
  /\ UNCHANGED <<nodes, vacant, chan, pool, nextCid, batch, q, peer, bad, bound>>

\* SHUTDOWN_TIMEOUT, while a cancel waits for room.
RunTimeout ==
  /\ task.run = "drain" /\ ~BatchIsEmpty(batch) /\ ~OutRoom
  /\ task' = [task EXCEPT !.run = "ended", !.timedOut = TRUE]
  /\ UNCHANGED <<nodes, vacant, chan, pool, nextCid, batch, q, peer, bad, bound>>

-----------------------------------------------------------------------------
(* ClientSocketManager::run.                                               *)

\* The handle of mode m was dropped.
Dropped(m) == IF m = "req" THEN task.handle[m] = "ended" ELSE task.run = "ended"

\* What becomes of a session with a packet of type t.
Taken(x, t) ==
  CASE t = "cancel" -> IF task.handle["stream"] = "ended" THEN Stopped ELSE Gone
    [] t = "handoffProceed" -> [x EXCEPT !.seq = Inc(@), !.st = "has", !.addr = NoAddr]
    [] OTHER -> [x EXCEPT !.seq = Inc(@)]

\* A packet leaves.  A send that waits for a handle is a blocking one, so
\* nothing else happens while it waits.
MgrSendAddr ==
  /\ q.mgrIn = <<>> /\ q.out # <<>>
  /\ LET p == Head(q.out)
         seq(n) == (CHOOSE x \in p.ids : x.id.n = n).seq
         takes(n) == n \in Sessions(p) /\ peer[n].st \in {"has", "leaving"}
     IN /\ peer' = [n \in DOMAIN peer |-> IF takes(n) THEN Taken(peer[n], p.t) ELSE peer[n]]
        /\ bad' = (bad \/ \E n \in DOMAIN peer : takes(n) /\ seq(n) # peer[n].seq)
  /\ q' = [q EXCEPT !.out = Tail(@)]
  /\ UNCHANGED <<nodes, vacant, chan, pool, nextCid, batch, task, bound>>

\* handle_req_message and handle_stream_message: to the handle of the worker.
MgrHandleMessage ==
  /\ q.mgrIn # <<>>
  /\ LET p == Head(q.mgrIn)
     IN \/ /\ ~Dropped(p.mode) /\ Len(q.pipeIn[p.mode]) < HandleBound
           /\ q' = [q EXCEPT !.mgrIn = <<>>, !.pipeIn[p.mode] = Append(@, p)]
        \/ /\ Dropped(p.mode)
           /\ q' = [q EXCEPT !.mgrIn = <<>>]
  /\ UNCHANGED <<nodes, vacant, chan, pool, nextCid, batch, task, peer, bad, bound>>

-----------------------------------------------------------------------------
(* The ZHTTP handlers (external).                                          *)

\* A packet for some of the sessions of one mode, from the handler that has
\* them.  A handler that starts a handoff sends nothing more; another one goes
\* on after the proceed.
Reply(m, a, ns, t) ==
  /\ q.mgrIn = <<>> /\ bound.replies < ReplyMax /\ ns # {}
  /\ m = "req" => t = "end"
  /\ \A n \in ns : peer[n].st = "has" /\ peer[n].mode = m /\ peer[n].addr \in {NoAddr, a}
  /\ q' = [q EXCEPT !.mgrIn = <<[mode |-> m, t |-> t, from |-> a, ids |-> {peer[n].id : n \in ns}]>>]
  /\ peer' = [n \in DOMAIN peer |->
       IF n \notin ns THEN peer[n]
       ELSE IF t \in {"end", "cancel"} THEN Gone
       ELSE [peer[n] EXCEPT !.addr = a, !.st = IF t = "handoffStart" THEN "leaving" ELSE "has"]]
  /\ bound' = [bound EXCEPT !.replies = @ + 1]
  /\ UNCHANGED <<nodes, vacant, chan, pool, nextCid, batch, task, bad>>

HandlersNext ==
  \E m \in Modes, a \in Addrs, t \in ReplyTypes, ns \in SUBSET (DOMAIN peer) : Reply(m, a, ns, t)

ConnNext(k) ==
  ConnRequest(k) \/ ConnSend(k) \/ ConnMsg(k) \/ ConnFinish(k) \/ ConnProceed(k)
    \/ ConnClosed(k) \/ ConnStop(k)

\* The worker has stopped, and the manager is done with what it left.
Finished == task.run = "ended" /\ q.mgrIn = <<>> /\ q.out = <<>>

\* The steps of the tasks.
AcceptTask == AcceptStop \/ \E m \in Modes : AcceptDone(m)
HandleTask(m) == HandleRecv(m) \/ HandleEnd(m)
KeepAlivesTask == KeepAliveInterval \/ KeepAliveSend \/ KeepAliveNothing \/ KeepAliveStop
RunStopping == RunTasksDone \/ RunCancelFill \/ RunCancelSend \/ RunCancelMore \/ RunEnd \/ RunTimeout
Manager == MgrSendAddr \/ MgrHandleMessage

Next ==
  \/ \E m \in Modes : Accept(m) \/ HandleTask(m)
  \/ \E k \in Keys : ConnNext(k)
  \/ AcceptTask \/ KeepAlivesTask \/ RunStop \/ RunStopping \/ Manager \/ HandlersNext
  \/ Finished /\ UNCHANGED vars

\* The executor polls every task that can go on, a connection whose token is
\* cancelled sees it, and timers expire.  Nobody has to stop the worker, and
\* neither clients nor handlers are fair.
Fairness ==
  /\ WF_vars(AcceptTask) /\ WF_vars(KeepAlivesTask) /\ WF_vars(Manager)
  /\ WF_vars(RunStopping \/ (task.run # "run" /\ RunStop))
  /\ \A m \in Modes : WF_vars(HandleTask(m))
  /\ \A k \in Keys : WF_vars(ConnMsg(k) \/ ConnStop(k))

Spec == Init /\ [][Next]_vars /\ Fairness

-----------------------------------------------------------------------------
(* Properties.                                                             *)

\* A channel that goes back to the pool and out again brings no message of its
\* former owner: what waits for a connection was sent to an id it has or had
\* since it was accepted, never to the connection that had its key before.
ChannelIsOwn ==
  \A k \in Keys : Running(k) =>
    \A i \in DOMAIN chan[nodes[k].ch] :
      LET id == chan[nodes[k].ch][i].id IN id.key = k /\ id.n >= nodes[k].first

\* While the worker runs, a key is in the batch exactly if its connection
\* knows where, and only there, so neither take_group nor remove meets a
\* connection that is gone.
BatchOwned ==
  task.run \in {"run", "ka", "accept"} =>
    \A k \in Keys, i \in DOMAIN batch.addrs :
      LET at == {j \in DOMAIN batch.addrs[i].keys : batch.addrs[i].keys[j] = k}
      IN Cardinality(at) = IF nodes[k] # Free /\ nodes[k].bkey = i THEN 1 ELSE 0

\* Whenever another connection may be accepted there is a key and a channel
\* for it (accept_task unwraps both).
AcceptHasRoom ==
  \A m \in Modes :
    (task.accept = "run" /\ Cardinality(Items(m)) < MaxOf(m)) => vacant # <<>> /\ pool # <<>>

\* The packets of a session, the batched ones of the keep-alives task and of
\* the shutdown included, reach the handlers with consecutive sequence
\* numbers, as long as no cancel of a connection found its channel full.
SeqInOrder == ~bad

\* A worker that stopped within its timeout has cancelled every session whose
\* handler it knew.
CancelsSent ==
  (Finished /\ ~task.timedOut) =>
    \A k \in Items("stream") :
      nodes[k].addr # NoAddr => peer[nodes[k].id.n] \in {Stopped, Gone}

\* A worker told to stop does, even if the manager and the worker wait for
\* room in each other's queues.
StopCompletes == (task.run = "ka") ~> (task.run = "ended")

\* The keys that the keep-alives task comes to before it starts again.  The
\* batch is sized by the stream connections alone, the keys are shared with req
\* connections, so there may be keys beyond.
Scanned == {k \in Keys : k < Batches * BatchCapacity}

\* The handler of session n is known, and the key of its connection is one of
\* those the scan comes to.
KeepAliveDue(n) ==
  \E k \in Items("stream") \cap Scanned : nodes[k].phase = "active" /\ nodes[k].id.n = n

\* Session n got its keep-alive, or it has ended or was handed off, or the worker
\* stops.
KeepAliveDone(n) ==
  \/ \E i \in DOMAIN q.out : q.out[i].t = "keepAlive" /\ n \in Sessions(q.out[i])
  \/ ~KeepAliveDue(n) \/ task.run # "run"

\* Keys, channels and places in the batch have one owner at a time, whatever
\* connections end and are accepted between the steps of the other tasks.
OwnResources == ChannelIsOwn /\ BatchOwned /\ AcceptHasRoom
=============================================================================
