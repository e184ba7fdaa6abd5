---------------------------- MODULE ClientWorker ----------------------------
(***************************************************************************)
(* The workers of the connection manager's client                          *)
(* (src/src/connmgr/client.rs) and the ServerSocketManager that shares the *)
(* requests among them (src/src/connmgr/zhttpsocket.rs): the session table *)
(* that routes the later packets of a session to the worker that has it,   *)
(* each worker's registry of connections, and the shutdown of a worker.    *)
(* What a connection does with its packets is in ClientStream; batching is *)
(* in ServerWorker.                                                        *)
(***************************************************************************)
EXTENDS Integers, Sequences, FiniteSets, SequencesExt

CONSTANTS
  Workers,      \* 1 .. the number of workers, in the order of their handles
  ReqMax,       \* req_maxconn of a worker
  StreamMax,    \* stream_maxconn of a worker
  HandleBound,  \* handle_bound
  ReqIds,       \* ids the peers use for requests of each mode
  StreamIds,
  RequestMax,   \* bound: requests of the peers
  DirectMax,    \* bound: later packets of the peers
  StopMax,      \* bound: workers that are stopped
  None          \* the absent value

Modes == {"req", "stream"}
Ids == ReqIds \cup StreamIds
Keys == 0 .. ReqMax + StreamMax - 1
ModeOf(i) == IF i \in ReqIds THEN "req" ELSE "stream"
MaxOf(m) == IF m = "req" THEN ReqMax ELSE StreamMax

ASSUME ClientWorkerAssumption ==
  /\ IsFiniteSet(Workers) /\ Workers = 1 .. Cardinality(Workers)
  /\ {ReqMax, StreamMax, HandleBound, RequestMax, DirectMax, StopMax} \subseteq Nat
  /\ ReqIds \cap StreamIds = {}
  /\ None \notin Workers /\ None \notin [id : Ids, gen : Nat]

VARIABLES
  node,      \* worker -> key -> connection, or Free
  byId,      \* worker -> nodes_by_id, id -> key or None
  any,       \* worker -> mode -> requests in the handle's pipe, oldest first
  direct,    \* worker -> packets in the handle's pipe
  out,       \* worker -> packets of the worker for the manager
  done,      \* worker -> keys of connections that are done
  pc,        \* worker -> "run", "stopping", "cancels", "ended"
  mgr,       \* the manager's loop
  sessions,  \* SessionTable: stream id -> worker, or None
  peer,      \* id -> the session as its peer sees it
  sent,      \* packets of the peers that the manager has not read
  bound      \* what has been used of the bounds

vars == <<node, byId, any, direct, out, done, pc, mgr, sessions, peer, sent, bound>>

Free == [phase |-> "free"]
NoSession == [st |-> "idle", gen |-> 0]

Init ==
  /\ node = [w \in Workers |-> [k \in Keys |-> Free]]
  /\ byId = [w \in Workers |-> [i \in Ids |-> None]]
  /\ any = [w \in Workers |-> [m \in Modes |-> <<>>]]
  /\ direct = [w \in Workers |-> <<>>] /\ out = [w \in Workers |-> <<>>]
  /\ done = [w \in Workers |-> <<>>] /\ pc = [w \in Workers |-> "run"]
  /\ mgr = [in |-> [m \in Modes |-> None], index |-> [m \in Modes |-> 0], blocked |-> None,
            valid |-> [m \in Modes |-> Workers], lost |-> FALSE]
  /\ sessions = [i \in StreamIds |-> None]
  /\ peer = [i \in Ids |-> NoSession]
  /\ sent = [any |-> [m \in Modes |-> <<>>], direct |-> <<>>]
  /\ bound = [requests |-> 0, directs |-> 0, stops |-> 0]

Items(w, m) == {k \in Keys : node[w][k] # Free /\ node[w][k].mode = m}
Running(w, k) == node[w][k] # Free /\ node[w][k].phase # "ended"
OutRoom(w) == Len(out[w]) < HandleBound
SessionCount == Cardinality({i \in StreamIds : sessions[i] # None})

-----------------------------------------------------------------------------
(* ServerSocketManager::run.                                               *)

Idle == mgr.blocked = None

\* A request from a socket, if the last one has been passed on.
MgrRecv(m) ==
  /\ Idle /\ mgr.in[m] = None /\ sent.any[m] # <<>>
  /\ mgr' = [mgr EXCEPT !.in[m] = Head(sent.any[m])]
  /\ sent' = [sent EXCEPT !.any[m] = Tail(@)]
  /\ UNCHANGED <<node, byId, any, direct, out, done, pc, sessions, peer, bound>>

\* The handle of a worker: the req handle goes with its task, the stream
\* handle with the worker.
Dropped(w, m) == IF m = "req" THEN pc[w] \in {"cancels", "ended"} ELSE pc[w] = "ended"

\* check_send and check_send_any: some handle is valid and likely writable.
Writable(w, m) == w \in mgr.valid[m] /\ (Len(any[w][m]) < HandleBound \/ Dropped(w, m))

\* ServerReqHandles::send and ServerStreamHandles::send_any: the latest ready
\* handle up to the one whose turn it is, else the first ready one after it.
Select(m, skip) ==
  LET ready == {w \in Workers : Writable(w, m)}
      upto == {w \in ready : Cardinality({v \in mgr.valid[m] : v < w}) <= skip}
  IN IF ready = {} THEN None ELSE IF upto # {} THEN Max(upto) ELSE Min(ready)

\* The capacity of the session table.
SessionsMax == StreamMax * Cardinality(Workers) + Cardinality(Workers) * HandleBound + 1

\* handle_req_message and handle_stream_message_any.  The session is made
\* before the handle is tried, and goes away if that fails.
MgrSend(m) ==
  /\ Idle /\ mgr.in[m] # None /\ \E w \in Workers : Writable(w, m)
  /\ LET i == mgr.in[m]   \* the request
         w == Select(m, mgr.index[m])
         next == [mgr EXCEPT !.index[m] = (@ + 1) % Cardinality(mgr.valid[m])]
     IN IF w = None THEN mgr' = next /\ UNCHANGED <<any, sessions>>
        ELSE IF m = "stream" /\ (SessionCount = SessionsMax \/ sessions[i.id] # None)
        THEN /\ mgr' = [next EXCEPT !.in[m] = None]
             /\ UNCHANGED <<any, sessions>>
        ELSE IF Dropped(w, m)
        THEN /\ mgr' = [next EXCEPT !.valid[m] = @ \ {w}]
             /\ UNCHANGED <<any, sessions>>
        ELSE /\ mgr' = [next EXCEPT !.in[m] = None]
             /\ any' = [any EXCEPT ![w][m] = Append(@, i)]
             /\ sessions' = IF m = "stream" THEN [sessions EXCEPT ![i.id] = w] ELSE sessions
  /\ UNCHANGED <<node, byId, direct, out, done, pc, peer, sent, bound>>

\* handle_stream_message_direct: to the worker of the session, if there is one.
MgrRecvDirect ==
  /\ Idle /\ sent.direct # <<>>
  /\ sent' = [sent EXCEPT !.direct = Tail(@)]
  /\ LET p == Head(sent.direct)
         w == sessions[p.id]
     IN mgr' = IF w = None \/ w \notin mgr.valid["stream"] THEN mgr
               ELSE [mgr EXCEPT !.blocked = [w |-> w, p |-> p]]
  /\ UNCHANGED <<node, byId, any, direct, out, done, pc, sessions, peer, bound>>

\* Mutant: the send does not notice that the handle is gone.
SendDirectWaits ==
  /\ ~Idle /\ pc[mgr.blocked.w] # "ended" /\ Len(direct[mgr.blocked.w]) < HandleBound
  /\ direct' = [direct EXCEPT ![mgr.blocked.w] = Append(@, mgr.blocked.p)]
  /\ mgr' = [mgr EXCEPT !.blocked = None]
  /\ UNCHANGED <<node, byId, any, out, done, pc, sessions, peer, sent, bound>>

\* send_direct is a blocking send: nothing else happens until the handle has
\* room or is gone.
MgrSendDirect ==
  /\ ~Idle
  /\ LET w == mgr.blocked.w
     IN \/ /\ pc[w] # "ended" /\ Len(direct[w]) < HandleBound
           /\ direct' = [direct EXCEPT ![w] = Append(@, mgr.blocked.p)]
           /\ mgr' = [mgr EXCEPT !.blocked = None]
        \/ /\ pc[w] = "ended"
           /\ mgr' = [mgr EXCEPT !.blocked = None, !.valid["stream"] = @ \ {w}]
           /\ UNCHANGED direct
  /\ UNCHANGED <<node, byId, any, out, done, pc, sessions, peer, sent, bound>>

\* A packet of a worker reaches the peer, which tells a session from an
\* earlier one of the same id.
MgrRecvHandle(w) ==
  /\ Idle /\ out[w] # <<>>
  /\ LET p == Head(out[w])
     IN peer' = [i \in Ids |->
          IF [id |-> i, gen |-> peer[i].gen] \notin p.ids THEN peer[i]
          ELSE IF p.t # "ack" THEN NoSession
          ELSE IF peer[i].st = "asked" THEN [peer[i] EXCEPT !.st = "acked"] ELSE peer[i]]
  /\ out' = [out EXCEPT ![w] = Tail(@)]
  /\ UNCHANGED <<node, byId, any, direct, done, pc, mgr, sessions, sent, bound>>

\* A handle is gone and empty: cleanup.
MgrCleanup(w, m) ==
  /\ Idle /\ Dropped(w, m) /\ w \in mgr.valid[m] /\ out[w] = <<>>
  /\ mgr' = [mgr EXCEPT !.valid[m] = @ \ {w}]
  /\ UNCHANGED <<node, byId, any, direct, out, done, pc, sessions, peer, sent, bound>>

Manager ==
  \/ \E m \in Modes : MgrRecv(m) \/ MgrSend(m)
  \/ MgrRecvDirect \/ MgrSendDirect
  \/ \E w \in Workers : MgrRecvHandle(w) \/ \E m \in Modes : MgrCleanup(w, m)

-----------------------------------------------------------------------------
(* The connection with key k of worker w.                                  *)

\* Connections::set_id.
SetId(w, k, i) == byId' = [byId EXCEPT ![w][i] = k]

Session(n) == [id |-> n.id, gen |-> n.gen]

Packet(t, n) == [t |-> t, ids |-> {Session(n)}]

\* The end of stream_connection_task: the session is dropped, then done.
End(w, k) ==
  /\ node' = [node EXCEPT ![w][k].phase = "ended"]
  /\ done' = [done EXCEPT ![w] = Append(@, k)]
  /\ sessions' = IF node[w][k].mode = "stream" THEN [sessions EXCEPT ![node[w][k].id] = None]
                 ELSE sessions

\* client_stream_connect: the ack, and routing is enabled.
ConnAck(w, k) ==
  /\ Running(w, k) /\ node[w][k].mode = "stream" /\ node[w][k].phase = "start" /\ OutRoom(w)
  /\ out' = [out EXCEPT ![w] = Append(@, Packet("ack", node[w][k]))]
  /\ node' = [node EXCEPT ![w][k].phase = "run", ![w][k].routed = TRUE]
  /\ SetId(w, k, node[w][k].id)
  /\ UNCHANGED <<any, direct, done, pc, mgr, sessions, peer, sent, bound>>

\* A packet: a cancel ends the connection.
ConnMsg(w, k) ==
  /\ Running(w, k) /\ node[w][k].msg # None
  /\ IF node[w][k].msg = "cancel" THEN End(w, k)
     ELSE node' = [node EXCEPT ![w][k].msg = None] /\ UNCHANGED <<done, sessions>>
  /\ UNCHANGED <<byId, any, direct, out, pc, mgr, peer, sent, bound>>

\* The response is complete.
ConnFinish(w, k) ==
  /\ Running(w, k) /\ (node[w][k].mode = "stream" => node[w][k].phase = "run") /\ OutRoom(w)
  /\ out' = [out EXCEPT ![w] = Append(@, Packet("end", node[w][k]))]
  /\ End(w, k)
  /\ UNCHANGED <<byId, any, direct, pc, mgr, peer, sent, bound>>

\* An error; what the peer is told of it is best effort.
ConnFail(w, k) ==
  /\ Running(w, k) /\ node[w][k].mode = "stream" /\ ~OutRoom(w)
  /\ End(w, k)
  /\ UNCHANGED <<byId, any, direct, out, pc, mgr, peer, sent, bound>>

\* Its token is cancelled.
ConnStop(w, k) ==
  /\ Running(w, k) /\ node[w][k].stop
  /\ End(w, k)
  /\ UNCHANGED <<byId, any, direct, out, pc, mgr, peer, sent, bound>>

ConnNext(w, k) ==
  ConnAck(w, k) \/ ConnMsg(w, k) \/ ConnFinish(w, k) \/ ConnFail(w, k) \/ ConnStop(w, k)

-----------------------------------------------------------------------------
(* req_handle_task and stream_handle_task.                                 *)

\* yield_to_local_events: the connections have taken their packets.
Yielded(w) == \A k \in Keys : Running(w, k) => node[w][k].msg = None

\* Mutant: the connections that are done come after the requests.
DonesLast(w, m) == TRUE

\* The select looks at the connections that are done before the requests.
NoneDone(w, m) == \A j \in DOMAIN done[w] : node[w][done[w][j]].mode # m

\* A request: Connections::add.  In req mode the id is set at once.
HandleAny(w, m) ==
  /\ pc[w] = "run" /\ any[w][m] # <<>> /\ Yielded(w) /\ NoneDone(w, m)
  /\ Cardinality(Items(w, m)) < MaxOf(m)
  /\ LET k == Min({j \in Keys : node[w][j] = Free})
         i == Head(any[w][m])
     IN /\ node' = [node EXCEPT ![w][k] = [phase |-> "start", mode |-> m, id |-> i.id, gen |-> i.gen,
                                           msg |-> None, routed |-> m = "req", stop |-> FALSE]]
        /\ IF m = "req" THEN SetId(w, k, i.id) ELSE UNCHANGED byId
  /\ any' = [any EXCEPT ![w][m] = Tail(@)]
  /\ UNCHANGED <<direct, out, done, pc, mgr, sessions, peer, sent, bound>>

\* Connections::find_key, then try_send.
HandleDirect(w) ==
  /\ pc[w] = "run" /\ direct[w] # <<>> /\ Yielded(w) /\ NoneDone(w, "stream")
  /\ any[w]["stream"] = <<>> \/ Cardinality(Items(w, "stream")) = StreamMax
  /\ LET p == Head(direct[w])
         k == byId[w][p.id]
         live == {j \in Keys : Running(w, j) /\ node[w][j].id = p.id /\ node[w][j].gen = p.gen}
     IN /\ node' = IF k # None /\ Running(w, k) THEN [node EXCEPT ![w][k].msg = p.t] ELSE node
        /\ mgr' = [mgr EXCEPT !.lost = @ \/ (live # {} /\ k \notin live)]
  /\ direct' = [direct EXCEPT ![w] = Tail(@)]
  /\ UNCHANGED <<byId, any, out, done, pc, sessions, peer, sent, bound>>

\* Connections::remove.
ConnectionsRemove(w, k) ==
  /\ node' = [node EXCEPT ![w][k] = Free]
  /\ byId' = IF node[w][k].routed THEN [byId EXCEPT ![w][node[w][k].id] = None] ELSE byId

\* A connection is done.
HandleDone(w) ==
  /\ pc[w] = "run" /\ done[w] # <<>>
  /\ ConnectionsRemove(w, Head(done[w]))
  /\ done' = [done EXCEPT ![w] = Tail(@)]
  /\ UNCHANGED <<any, direct, out, pc, mgr, sessions, peer, sent, bound>>

HandleTask(w) == HandleDirect(w) \/ HandleDone(w) \/ \E m \in Modes : HandleAny(w, m)

-----------------------------------------------------------------------------
(* The shutdown of worker w.                                               *)

\* The handle tasks stop at once: stop_all; packets that did not reach the
\* handle's pipe yet are dropped.
RunStop(w) ==
  /\ pc[w] = "run" /\ bound.stops < StopMax
  /\ pc' = [pc EXCEPT ![w] = "stopping"]
  /\ node' = [node EXCEPT ![w] = [k \in Keys |->
                 IF @[k] = Free THEN Free ELSE [@[k] EXCEPT !.stop = TRUE]]]
  /\ \E n \in 0 .. Len(out[w]) : out' = [out EXCEPT ![w] = SubSeq(@, 1, n)]
  /\ bound' = [bound EXCEPT !.stops = @ + 1]
  /\ UNCHANGED <<byId, any, direct, done, mgr, sessions, peer, sent>>

\* The connections are done, and nothing is removed any more; the req handle
\* is dropped.
RunTasksDone(w) ==
  /\ pc[w] = "stopping" /\ \A k \in Keys : ~Running(w, k)
  /\ pc' = [pc EXCEPT ![w] = "cancels"]
  /\ any' = [any EXCEPT ![w]["req"] = <<>>]
  /\ UNCHANGED <<node, byId, direct, out, done, mgr, sessions, peer, sent, bound>>

\* The worker is gone, its stream handle, and the requests in it with their
\* sessions.
DropHandle(w) ==
  /\ pc' = [pc EXCEPT ![w] = "ended"]
  /\ any' = [any EXCEPT ![w]["stream"] = <<>>] /\ direct' = [direct EXCEPT ![w] = <<>>]
  /\ sessions' = [i \in StreamIds |-> IF \E j \in DOMAIN any[w]["stream"] : any[w]["stream"][j].id = i
                                      THEN None ELSE sessions[i]]

\* The cancels of its sessions, by next_batch_message.
RunCancel(w) ==
  /\ pc[w] = "cancels" /\ OutRoom(w)
  /\ LET ids == {Session(node[w][k]) : k \in {j \in Items(w, "stream") : node[w][j].routed}}
     IN out' = IF ids = {} THEN out ELSE [out EXCEPT ![w] = Append(@, [t |-> "cancel", ids |-> ids])]
  /\ DropHandle(w)
  /\ UNCHANGED <<node, byId, done, mgr, peer, sent, bound>>

\* SHUTDOWN_TIMEOUT, while a cancel waits for room.
RunTimeout(w) ==
  /\ pc[w] = "cancels" /\ ~OutRoom(w)
  /\ DropHandle(w)
  /\ UNCHANGED <<node, byId, out, done, mgr, peer, sent, bound>>

RunStopping(w) == RunTasksDone(w) \/ RunCancel(w) \/ RunTimeout(w)

-----------------------------------------------------------------------------
(* The peers (external).                                                   *)

\* A request, with an id its peer does not use.
Request(i) ==
  /\ peer[i].st = "idle" /\ bound.requests < RequestMax
  /\ peer' = [peer EXCEPT ![i] = [st |-> "asked", gen |-> bound.requests + 1]]
  /\ sent' = [sent EXCEPT !.any[ModeOf(i)] = Append(@, [id |-> i, gen |-> bound.requests + 1])]
  /\ bound' = [bound EXCEPT !.requests = @ + 1]
  /\ UNCHANGED <<node, byId, any, direct, out, done, pc, mgr, sessions>>

\* A later packet, once the ack told where the session is.
SendDirect(i, t) ==
  /\ peer[i].st = "acked" /\ i \in StreamIds /\ bound.directs < DirectMax
  /\ sent' = [sent EXCEPT !.direct = Append(@, [id |-> i, gen |-> peer[i].gen, t |-> t])]
  /\ peer' = IF t = "cancel" THEN [peer EXCEPT ![i].st = "given up"] ELSE peer
  /\ bound' = [bound EXCEPT !.directs = @ + 1]
  /\ UNCHANGED <<node, byId, any, direct, out, done, pc, mgr, sessions>>

Peers == \E i \in Ids : Request(i) \/ \E t \in {"data", "cancel"} : SendDirect(i, t)

-----------------------------------------------------------------------------

Next ==
  \/ Manager \/ Peers
  \/ \E w \in Workers : \/ HandleTask(w) \/ RunStop(w) \/ RunStopping(w)
                         \/ \E k \in Keys : ConnNext(w, k)

\* Every task and thread goes on, and a connection does not last for ever.
Fairness ==
  /\ WF_vars(Manager)
  /\ \A w \in Workers : /\ WF_vars(HandleTask(w)) /\ WF_vars(RunStopping(w))
                         /\ \A k \in Keys : WF_vars(ConnNext(w, k))

Spec == Init /\ [][Next]_vars /\ Fairness

-----------------------------------------------------------------------------
(* Properties.                                                             *)

\* A connection that enabled routing is the one that its id finds, even if the
\* peer uses the id again as soon as the last session is over.
SessionReachable ==
  \A w \in Workers, k \in Keys :
    (pc[w] = "run" /\ Running(w, k) /\ node[w][k].routed) => byId[w][node[w][k].id] = k

\* A session is with one worker only: the one the table names.
OneSession ==
  \A w \in Workers, i \in StreamIds :
    LET conns == {k \in Keys : Running(w, k) /\ node[w][k].id = i}
        queued == {j \in DOMAIN any[w]["stream"] : any[w]["stream"][j].id = i}
    IN Cardinality(conns) + Cardinality(queued) = IF sessions[i] = w THEN 1 ELSE 0

\* No packet that a peer sends after the ack of its session is lost in the
\* worker while the session's connection lives.
NoDirectLost == ~mgr.lost

\* As long as a worker runs, a request does not wait in the manager for ever.
RequestsServed ==
  \A m \in Modes :
    (mgr.in[m] # None) ~> (mgr.in[m] = None \/ \A w \in Workers : pc[w] # "run")

\* A worker told to stop does, also if the manager waits for it meanwhile.
StopCompletes == \A w \in Workers : (pc[w] = "stopping") ~> (pc[w] = "ended")

\* A session is with one worker and one connection, the ones that the tables of
\* the manager and of the worker lead to, also when its id is used again, and
\* no packet for it is lost on the way.
SessionsFound == SessionReachable /\ OneSession /\ NoDirectLost

\* Neither a request nor a stop waits for ever, whoever waits for whom.
WorkersProgress == RequestsServed /\ StopCompletes
=============================================================================
