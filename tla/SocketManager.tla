--------------------------- MODULE SocketManager ----------------------------
(***************************************************************************)
(* ClientSocketManager of src/connmgr/zhttpsocket.rs: the thread that owns *)
(* the ZeroMQ sockets of the server side and the handles through which the *)
(* workers use them.  A worker asks for a handle over the control channel  *)
(* and then talks to the manager through its channels; the manager passes  *)
(* each packet from the network to every handle whose prefix begins one of *)
(* the packet's ids, waiting for room in a handle's channel, and drops a   *)
(* handle when it notices that the worker's end is gone.                   *)
(***************************************************************************)
EXTENDS Naturals, Sequences

CONSTANTS Handles,       \* the handles workers may ask for
          Kind,          \* [Handles -> {"req", "stream"}]
          Filter,        \* [Handles -> prefixes]
          Arrivals,      \* packets that arrive: kind and the prefixes of the ids
          HANDLES_MAX,
          Bound,         \* capacity of a handle's channels
          PacketMax,     \* bound on the packets that arrive
          SendMax        \* bound on the messages the workers send

VARIABLES
    control,   \* the request in the control channel, if any
    owner,     \* the workers' ends: none, asked, open, dropped
    lists,     \* ReqHandles and StreamHandles: handles in order
    valid,     \* Cell<bool> of a pipe
    need_cleanup,
    toHandle,  \* packets in the channel to each worker, by number
    fromHandle,  \* messages in the channels from each worker
    pending,   \* the sends in progress to the sockets
    pc,        \* loop, send, stopped
    todo,      \* handles the send in progress has yet to look at
    packets,   \* the packets that arrived
    since,     \* packets that had arrived when a handle was added
    delivered, \* packets put into the channel to a handle
    sent

owners == <<owner, sent>>
pipes == <<toHandle, fromHandle>>
vars == <<control, owners, lists, valid, need_cleanup, pipes, pending, pc, todo, packets,
          since, delivered>>

Kinds == {"req", "stream"}
Nobody == 0

\* The channels a worker sends through: ClientReqHandle::send,
\* ClientStreamHandle::send_to_any and send_to_addr.
Channels(k) == IF k = "req" THEN {"req"} ELSE {"any", "addr"}
AllChannels == {"req", "any", "addr"}

TypeOK ==
    /\ control \in Seq(Handles \cup {Nobody}) /\ Len(control) <= 1
    /\ owner \in [Handles -> {"none", "asked", "open", "dropped"}]
    /\ \A k \in Kinds : \A i \in DOMAIN lists[k] : Kind[lists[k][i]] = k
    /\ valid \in [Handles -> BOOLEAN] /\ need_cleanup \in [Kinds -> BOOLEAN]
    /\ \A h \in Handles : Len(toHandle[h]) <= Bound
    /\ pending \subseteq AllChannels /\ pc \in {"loop", "send", "stopped"}

Init ==
    /\ control = <<>> /\ owner = [h \in Handles |-> "none"]
    /\ lists = [k \in Kinds |-> <<>>] /\ valid = [h \in Handles |-> TRUE]
    /\ need_cleanup = [k \in Kinds |-> FALSE]
    /\ toHandle = [h \in Handles |-> <<>>]
    /\ fromHandle = [h \in Handles |-> [c \in AllChannels |-> 0]]
    /\ pending = {} /\ pc = "loop" /\ todo = <<>>
    /\ packets = <<>> /\ since = [h \in Handles |-> 0] /\ delivered = [h \in Handles |-> <<>>]
    /\ sent = 0

-----------------------------------------------------------------------------
(* The workers                                                             *)

\* client_req_handle and client_stream_handle; control_send waits for room.
AskHandle(h) ==
    /\ owner[h] = "none" /\ control = <<>> /\ pc # "stopped"
    /\ control' = <<h>> /\ owner' = [owner EXCEPT ![h] = "asked"]
    /\ UNCHANGED <<lists, valid, need_cleanup, pipes, pending, pc, todo, packets, since,
                   delivered, sent>>

HasEnd(h) == owner[h] \in {"asked", "open"}

WorkerSend(h, c) ==
    /\ HasEnd(h) /\ c \in Channels(Kind[h])
    /\ sent < SendMax /\ fromHandle[h][c] < Bound
    /\ fromHandle' = [fromHandle EXCEPT ![h][c] = @ + 1]
    /\ sent' = sent + 1
    /\ UNCHANGED <<control, owner, lists, valid, need_cleanup, toHandle, pending, pc, todo,
                   packets, since, delivered>>

WorkerRecv(h) ==
    /\ HasEnd(h) /\ toHandle[h] # <<>>
    /\ toHandle' = [toHandle EXCEPT ![h] = Tail(@)]
    /\ UNCHANGED <<control, owners, lists, valid, need_cleanup, fromHandle, pending, pc, todo,
                   packets, since, delivered>>

\* The worker ends, or it finds that its handle was refused.
WorkerDrop(h) ==
    /\ HasEnd(h)
    /\ owner' = [owner EXCEPT ![h] = "dropped"]
    /\ toHandle' = [toHandle EXCEPT ![h] = <<>>]
    /\ UNCHANGED <<control, lists, valid, need_cleanup, fromHandle, pending, pc, todo, packets,
                   since, delivered, sent>>

\* ClientSocketManager::drop: the workers hold the manager, so it is dropped
\* after their handles.
Stop ==
    /\ \A h \in Handles : owner[h] \in {"none", "dropped"}
    /\ \E h \in Handles : owner[h] = "dropped"
    /\ control = <<>> /\ pc # "stopped"
    /\ control' = <<Nobody>>
    /\ owner' = [h \in Handles |-> "dropped"]
    /\ UNCHANGED <<lists, valid, need_cleanup, pipes, pending, pc, todo, packets, since,
                   delivered, sent>>

-----------------------------------------------------------------------------
(* The manager                                                             *)

\* Mutant: the handles behind an invalid one leave too.
cleanup_first(list, v) ==
    IF \E i \in DOMAIN list : ~v[list[i]]
    THEN LET i == CHOOSE j \in DOMAIN list : ~v[list[j]] IN SubSeq(list, 1, i - 1)
    ELSE list

\* cleanup: the handles that are no longer valid leave the list.
cleanup(list, v) ==
    LET kept[i \in 0..Len(list)] ==
            IF i = 0 THEN <<>>
            ELSE IF v[list[i]] THEN Append(kept[i - 1], list[i]) ELSE kept[i - 1]
    IN  kept[Len(list)]

\* The end of each turn of the loop, for the lists and validity it leaves.
EndTurn(ls, v, need) ==
    /\ lists' = [k \in Kinds |-> IF need[k] THEN cleanup(ls[k], v) ELSE ls[k]]
    /\ valid' = v
    /\ need_cleanup' = [k \in Kinds |-> FALSE]

Count == Len(lists["req"]) + Len(lists["stream"])

\* AddClientReqHandle and AddClientStreamHandle: one handle too many is
\* refused, which closes its channels.
AddHandle ==
    /\ pc = "loop" /\ control # <<>> /\ control[1] # Nobody
    /\ LET h == control[1]
           k == Kind[h]
       IN  IF Count < HANDLES_MAX
           THEN /\ EndTurn([lists EXCEPT ![k] = Append(@, h)], valid, need_cleanup)
                /\ owner' = [owner EXCEPT ![h] = IF @ = "asked" THEN "open" ELSE @]
                /\ since' = [since EXCEPT ![h] = Len(packets)]
                /\ UNCHANGED fromHandle
           ELSE /\ EndTurn(lists, valid, need_cleanup)
                /\ fromHandle' = [fromHandle EXCEPT ![h] = [c \in AllChannels |-> 0]]
                /\ owner' = [owner EXCEPT ![h] = "dropped"]
                /\ UNCHANGED since
    /\ control' = <<>>
    /\ UNCHANGED <<toHandle, pending, pc, todo, packets, delivered, sent>>

\* The loop ends; a control request that was being waited for is taken last.
TakeStop ==
    /\ pc = "loop" /\ control = <<Nobody>>
    /\ control' = <<>> /\ pc' = "stopped"
    /\ lists' = [k \in Kinds |-> <<>>] /\ pending' = {}
    /\ UNCHANGED <<owners, valid, need_cleanup, pipes, todo, packets, since, delivered>>

Listed(k) == {lists[k][i] : i \in DOMAIN lists[k]}

\* recv, recv_any and recv_addr: a message of some valid handle, while the
\* socket it goes to has no send in progress.
RecvHandle(h, c) ==
    /\ pc = "loop" /\ c \in Channels(Kind[h]) /\ c \notin pending
    /\ h \in Listed(Kind[h]) /\ valid[h] /\ fromHandle[h][c] > 0
    /\ fromHandle' = [fromHandle EXCEPT ![h][c] = @ - 1]
    /\ pending' = pending \cup {c}
    /\ EndTurn(lists, valid, need_cleanup)
    /\ UNCHANGED <<control, owners, toHandle, pc, todo, packets, since, delivered>>

\* The same futures find a channel closed and empty: the handle is not valid
\* any more, and the select goes on waiting.
RecvClosed(h, c) ==
    /\ pc = "loop" /\ c \in Channels(Kind[h]) /\ c \notin pending
    /\ h \in Listed(Kind[h]) /\ valid[h] /\ fromHandle[h][c] = 0 /\ ~HasEnd(h)
    /\ valid' = [valid EXCEPT ![h] = FALSE]
    /\ need_cleanup' = [need_cleanup EXCEPT ![Kind[h]] = TRUE]
    /\ UNCHANGED <<control, owners, lists, pipes, pending, pc, todo, packets, since, delivered>>

\* req_send, stream_out_send or stream_out_stream_send completes.
SocketSent(c) ==
    /\ pc = "loop" /\ c \in pending
    /\ pending' = pending \ {c}
    /\ EndTurn(lists, valid, need_cleanup)
    /\ UNCHANGED <<control, owners, pipes, pc, todo, packets, since, delivered>>

\* handle_req_message and handle_stream_message begin a send.
RecvPacket(p) ==
    /\ pc = "loop" /\ Len(packets) < PacketMax
    /\ packets' = Append(packets, p)
    /\ pc' = "send" /\ todo' = lists[p.kind]
    /\ UNCHANGED <<control, owners, lists, valid, need_cleanup, pipes, pending, since, delivered>>

Matches(h, p) == Kind[h] = p.kind /\ Filter[h] \in p.ids

\* ReqHandles::send and StreamHandles::send, one handle at a time: the
\* handle is skipped, gets the packet once there is room, or is found closed.
SendTo ==
    /\ pc = "send" /\ todo # <<>>
    /\ LET h == Head(todo)
           n == Len(packets)
       IN  \/ /\ ~(valid[h] /\ Matches(h, packets[n]))
              /\ UNCHANGED <<valid, need_cleanup, toHandle, delivered>>
           \/ /\ valid[h] /\ Matches(h, packets[n])
              /\ HasEnd(h) /\ Len(toHandle[h]) < Bound
              /\ toHandle' = [toHandle EXCEPT ![h] = Append(@, n)]
              /\ delivered' = [delivered EXCEPT ![h] = Append(@, n)]
              /\ UNCHANGED <<valid, need_cleanup>>
           \/ /\ valid[h] /\ Matches(h, packets[n]) /\ ~HasEnd(h)
              /\ valid' = [valid EXCEPT ![h] = FALSE]
              /\ need_cleanup' = [need_cleanup EXCEPT ![Kind[h]] = TRUE]
              /\ UNCHANGED <<toHandle, delivered>>
    /\ todo' = Tail(todo)
    /\ UNCHANGED <<control, owners, lists, fromHandle, pending, pc, packets, since>>

SendEnd ==
    /\ pc = "send" /\ todo = <<>>
    /\ pc' = "loop"
    /\ EndTurn(lists, valid, need_cleanup)
    /\ UNCHANGED <<control, owners, pipes, pending, todo, packets, since, delivered>>

Workers ==
    \E h \in Handles :
        \/ AskHandle(h) \/ WorkerRecv(h) \/ WorkerDrop(h)
        \/ \E c \in AllChannels : WorkerSend(h, c)

Manager ==
    \/ AddHandle \/ TakeStop \/ SendTo \/ SendEnd
    \/ \E h \in Handles, c \in AllChannels : RecvHandle(h, c) \/ RecvClosed(h, c)
    \/ \E c \in AllChannels : SocketSent(c)

Next == Workers \/ Stop \/ Manager \/ \E p \in Arrivals : RecvPacket(p)

Spec == Init /\ [][Next]_vars
FairSpec == Spec /\ WF_vars(Manager)

-----------------------------------------------------------------------------
(* Properties                                                              *)

\* Between packets, every worker that still reads its handle has been given
\* exactly the packets for its prefix that came since its handle was added,
\* each once and in order, whichever other handles came, went or were full
\* meanwhile (ReqHandles and StreamHandles: add, recv, send, cleanup).
HandlesServed ==
    pc = "loop" =>
        \A h \in Handles :
            owner[h] = "open" =>
                /\ valid[h] /\ h \in Listed(Kind[h])
                /\ \A i \in 1..(Len(delivered[h]) - 1) : delivered[h][i] < delivered[h][i + 1]
                /\ {delivered[h][i] : i \in DOMAIN delivered[h]} =
                      {n \in (since[h] + 1)..Len(packets) : Matches(h, packets[n])}

\* The lists never hold more handles than the slabs have room for.
HandlesFit == Count <= HANDLES_MAX

=============================================================================
