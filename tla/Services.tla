------------------------------ MODULE Services ------------------------------
(***************************************************************************)
(* The services that the connection manager's workers rely on and that     *)
(* keep their own state: the listener, the ZHTTP socket manager, the cache *)
(* of certificates, the resolver, the two kinds of channel, the event loop *)
(* and the ZeroMQ socket.  A behaviour is one of the service named by the  *)
(* variable part; ServicesProofs proves what the properties at the end say *)
(* of each, for all values of the constants.                               *)
(*                                                                         *)
(* Services whose modules have a variable of the same name share it, since *)
(* no behaviour is of two of them.                                         *)
(***************************************************************************)
EXTENDS Integers, Sequences, FiniteSets

CONSTANTS
    Sockets, WorkerCount, ConnMax, ArriveMax,              \* Listener
    Handles, Kind, Filter, Arrivals, HANDLES_MAX,          \* SocketManager
    HandleBound, PacketMax, MessageMax,
    Names, Candidates, Readers, Versions, WriteMax, LookupMax,  \* IdentityCache
    Threads, Clients, Hosts, TooLong, QueriesMax, QueryMax,     \* Resolver
    QueueBound, ValueMax,                                  \* SyncChannel
    Senders, Bound, SendMax, Drops, Selects,               \* LocalChannel
    Slots, RegMax,                                         \* EventLoop
    InMax, OutMax, Hwm,                                    \* ZmqSocket
    None

VARIABLES part,  \* the part this behaviour is of
          total, slot, conn, tries, listeners_pos, senders_pos, lost, passed,
          control, owner, lists, valid, need_cleanup, toHandle, fromHandle,
          pending, todo, packets, since, delivered,
          files, now, data, lock, touched,
          stop, nodes, next, registrations, invalidated, tpc, tkey, thost,
          query,
          rendezvous, spc, sready, sevent, rpc,
          waiting, notified, fut, woken, created, recv, rwoken,
          mode, reg, kind, callback, activated, flag, running, calls,
          exit_code, task,
          router, recvFirst, inbound, outbound, peer, inAct, outAct, commands,
          edge, events, timer, polled, result, sending, late,
          arrived, cts, event, ready, worker, pc, sent, made, queue, rready,
          revent, got, waker

shared == <<arrived, cts, event, ready, worker, pc, sent, made, queue, rready,
            revent, got, waker>>
listenerOwn == <<total, slot, conn, tries, listeners_pos, senders_pos, lost,
            passed>>
managerOwn == <<control, owner, lists, valid, need_cleanup, toHandle,
            fromHandle, pending, todo, packets, since, delivered>>
certsOwn == <<files, now, data, lock, touched>>
resolverOwn == <<stop, nodes, next, registrations, invalidated, tpc, tkey,
            thost, query>>
syncOwn == <<rendezvous, spc, sready, sevent, rpc>>
localOwn == <<waiting, notified, fut, woken, created, recv, rwoken>>
loopOwn == <<mode, reg, kind, callback, activated, flag, running, calls,
            exit_code, task>>
zmqOwn == <<router, recvFirst, inbound, outbound, peer, inAct, outAct,
            commands, edge, events, timer, polled, result, sending, late>>
vars == <<part, shared, listenerOwn, managerOwn, certsOwn, resolverOwn,
         syncOwn, localOwn, loopOwn, zmqOwn>>

LI == INSTANCE Listener
SM == INSTANCE SocketManager WITH Bound <- HandleBound, SendMax <- MessageMax
IC == INSTANCE IdentityCache WITH Workers <- Readers
RS == INSTANCE Resolver
SY == INSTANCE SyncChannel WITH Bound <- QueueBound, SendMax <- ValueMax
LC == INSTANCE LocalChannel
EL == INSTANCE EventLoop
ZS == INSTANCE ZmqSocket WITH SendMax <- OutMax, Malformed <- FALSE

-----------------------------------------------------------------------------
(* What the services are configured with.                                  *)

ListenerSizes ==
    /\ Sockets \in Nat \ {0} /\ WorkerCount \in Nat \ {0} /\ ConnMax \in Nat

ManagerSizes ==
    /\ SM!Nobody \notin Handles /\ Kind \in [Handles -> SM!Kinds]
    /\ \A p \in Arrivals : p.kind \in SM!Kinds
    /\ HANDLES_MAX \in Nat

\* The contents of files, and an identity with its time.
Contents == Versions \cup {1}
Loaded == [v : Contents, t : Nat]

CacheSizes == /\ Candidates \in Seq(Names) /\ Candidates # <<>>
              /\ None \notin Loaded

\* What a query is answered, and a slot of the resolver.
Answers == Hosts \cup {None, RS!Failed}
Slot == [host : Hosts \cup {None}, result : Answers, flag : Threads \cup {None}]

ResolverSizes == /\ QueriesMax \in Nat /\ Threads # {}
                 /\ None \notin Hosts /\ None \notin Threads /\ None # RS!Failed /\ None \notin Slot

SyncSizes == QueueBound \in Nat /\ ValueMax \in Nat

LocalSizes == IsFiniteSet(Senders) /\ Bound \in Nat

\* The slot 0 stands for none.
LoopSizes == 0 \notin Slots /\ RegMax \in Nat

SocketSizes == Hwm \in Nat \ {0}

ASSUME ServicesAssumption ==
    /\ ListenerSizes /\ ManagerSizes /\ CacheSizes /\ ResolverSizes
    /\ SyncSizes /\ LocalSizes /\ LoopSizes /\ SocketSizes

-----------------------------------------------------------------------------
\* What a part does not use has no value.
NoListener == total = None /\ slot = None /\ conn = None /\ tries = None
              /\ listeners_pos = None /\ senders_pos = None /\ lost = None
              /\ passed = None
NoManager == control = None /\ owner = None /\ lists = None /\ valid = None
             /\ need_cleanup = None /\ toHandle = None /\ fromHandle = None
             /\ pending = None /\ todo = None /\ packets = None /\ since = None
             /\ delivered = None
NoCerts == files = None /\ now = None /\ data = None /\ lock = None
           /\ touched = None
NoResolver == stop = None /\ nodes = None /\ next = None
              /\ registrations = None /\ invalidated = None /\ tpc = None
              /\ tkey = None /\ thost = None /\ query = None
NoSync == rendezvous = None /\ spc = None /\ sready = None /\ sevent = None
          /\ rpc = None
NoLocal == waiting = None /\ notified = None /\ fut = None /\ woken = None
           /\ created = None /\ recv = None /\ rwoken = None
NoLoop == mode = None /\ reg = None /\ kind = None /\ callback = None
          /\ activated = None /\ flag = None /\ running = None /\ calls = None
          /\ exit_code = None /\ task = None
NoZmq == router = None /\ recvFirst = None /\ inbound = None /\ outbound = None
         /\ peer = None /\ inAct = None /\ outAct = None /\ commands = None
         /\ edge = None /\ events = None /\ timer = None /\ polled = None
         /\ result = None /\ sending = None /\ late = None

Init ==
    \/ /\ part = "listener" /\ LI!Init
       /\ NoManager /\ NoCerts /\ NoResolver /\ NoSync /\ NoLocal /\ NoLoop
          /\ NoZmq /\ sent = None /\ made = None /\ queue = None
          /\ rready = None /\ revent = None /\ got = None /\ waker = None
    \/ /\ part = "manager" /\ SM!Init
       /\ NoListener /\ NoCerts /\ NoResolver /\ NoSync /\ NoLocal /\ NoLoop
          /\ NoZmq /\ arrived = None /\ cts = None /\ event = None
          /\ ready = None /\ worker = None /\ made = None /\ queue = None
          /\ rready = None /\ revent = None /\ got = None /\ waker = None
    \/ /\ part = "certs" /\ IC!Init
       /\ NoListener /\ NoManager /\ NoResolver /\ NoSync /\ NoLocal /\ NoLoop
          /\ NoZmq /\ arrived = None /\ cts = None /\ event = None
          /\ ready = None /\ pc = None /\ sent = None /\ made = None
          /\ queue = None /\ rready = None /\ revent = None /\ got = None
          /\ waker = None
    \/ /\ part = "resolver" /\ RS!Init
       /\ NoListener /\ NoManager /\ NoCerts /\ NoSync /\ NoLocal /\ NoLoop
          /\ NoZmq /\ arrived = None /\ cts = None /\ event = None
          /\ ready = None /\ worker = None /\ pc = None /\ sent = None
          /\ queue = None /\ rready = None /\ revent = None /\ got = None
          /\ waker = None
    \/ /\ part = "sync" /\ SY!Init
       /\ NoListener /\ NoManager /\ NoCerts /\ NoResolver /\ NoLocal /\ NoLoop
          /\ NoZmq /\ arrived = None /\ event = None /\ ready = None
          /\ worker = None /\ pc = None /\ made = None /\ waker = None
    \/ /\ part = "local" /\ LC!Init
       /\ NoListener /\ NoManager /\ NoCerts /\ NoResolver /\ NoSync /\ NoLoop
          /\ NoZmq /\ arrived = None /\ cts = None /\ worker = None
          /\ pc = None /\ sent = None /\ made = None /\ got = None
          /\ waker = None
    \/ /\ part = "loop" /\ EL!Init
       /\ NoListener /\ NoManager /\ NoCerts /\ NoResolver /\ NoSync /\ NoLocal
          /\ NoZmq /\ arrived = None /\ cts = None /\ event = None
          /\ worker = None /\ sent = None /\ queue = None /\ rready = None
          /\ revent = None /\ got = None
    \/ /\ part = "zmq" /\ ZS!Init
       /\ NoListener /\ NoManager /\ NoCerts /\ NoResolver /\ NoSync /\ NoLocal
          /\ NoLoop /\ cts = None /\ event = None /\ worker = None
          /\ made = None /\ queue = None /\ rready = None /\ revent = None

Next ==
    \/ /\ part = "listener" /\ LI!Next
       /\ UNCHANGED <<part, managerOwn, certsOwn, resolverOwn, syncOwn,
                       localOwn, loopOwn, zmqOwn, sent, made, queue, rready,
                       revent, got, waker>>
    \/ /\ part = "manager" /\ SM!Next
       /\ UNCHANGED <<part, listenerOwn, certsOwn, resolverOwn, syncOwn,
                       localOwn, loopOwn, zmqOwn, arrived, cts, event, ready,
                       worker, made, queue, rready, revent, got, waker>>
    \/ /\ part = "certs" /\ IC!Next
       /\ UNCHANGED <<part, listenerOwn, managerOwn, resolverOwn, syncOwn,
                       localOwn, loopOwn, zmqOwn, arrived, cts, event, ready,
                       pc, sent, made, queue, rready, revent, got, waker>>
    \/ /\ part = "resolver" /\ RS!Next
       /\ UNCHANGED <<part, listenerOwn, managerOwn, certsOwn, syncOwn,
                       localOwn, loopOwn, zmqOwn, arrived, cts, event, ready,
                       worker, pc, sent, queue, rready, revent, got, waker>>
    \/ /\ part = "sync" /\ SY!Next
       /\ UNCHANGED <<part, listenerOwn, managerOwn, certsOwn, resolverOwn,
                       localOwn, loopOwn, zmqOwn, arrived, event, ready,
                       worker, pc, made, waker>>
    \/ /\ part = "local" /\ LC!Next
       /\ UNCHANGED <<part, listenerOwn, managerOwn, certsOwn, resolverOwn,
                       syncOwn, loopOwn, zmqOwn, arrived, cts, worker, pc,
                       sent, made, got, waker>>
    \/ /\ part = "loop" /\ EL!Next
       /\ UNCHANGED <<part, listenerOwn, managerOwn, certsOwn, resolverOwn,
                       syncOwn, localOwn, zmqOwn, arrived, cts, event, worker,
                       sent, queue, rready, revent, got>>
    \/ /\ part = "zmq" /\ ZS!Next
       /\ UNCHANGED <<part, listenerOwn, managerOwn, certsOwn, resolverOwn,
                       syncOwn, localOwn, loopOwn, cts, event, worker, made,
                       queue, rready, revent>>

Spec == Init /\ [][Next]_vars

-----------------------------------------------------------------------------
\* Every worker is given exactly the packets for its prefix, once and in order,
\* whichever other handles come, go or are full (zhttpsocket.rs), and the
\* connections that were accepted, each by a worker with room for it, in turn
\* and with the socket it came from (listener.rs).
HandlesServed ==
    /\ part = "manager" => SM!HandlesServed /\ SM!HandlesFit
    /\ part = "listener" => LI!ConnectionsPlaced /\ LI!TurnsTaken

\* What is looked up is what was asked for.  A query to the resolver gets the
\* addresses of its own host, whichever slot, registration and thread it took
\* over; none is forgotten, and the threads find the slots and flags they rely
\* on (resolver.rs).  A handshake is served with the certificate that is in the
\* files, whatever was cached and however they are being replaced (tls.rs).
QueriesAnswered ==
    /\ part = "resolver" => RS!QueriesAnswered
    /\ part = "certs" => IC!ServedIsCurrent

\* A signal that was given is not lost.  The local channel: a sender while there
\* is room and nobody carries the notice of it, or a receiver with a value, is
\* woken, and nobody is in the list twice or after its end (channel.rs,
\* notify_one_sender, cancel).  The channel between threads: a sender or
\* receiver that the other side has served is (try_send, try_recv).  The event
\* loop: readiness that was delivered leads to a call, of the callback of its own
\* registration and never of one that had the slot before (eventloop.rs).
\* ZeroMQ: a message to receive, or room to send, is heard of (zmq.rs,
\* update_events).
SignalsKept ==
    /\ part = "local" => LC!SignalsKept
    /\ part = "sync" => SY!SignalsKept
    /\ part = "loop" => EL!SignalsKept
    /\ part = "zmq" => ZS!NoLostSignal

-----------------------------------------------------------------------------
(* Values for TLC.                                                         *)

\* A worker in req mode and two in stream mode, one with another prefix; a
\* packet for both prefixes, and one for the worker in req mode.
KindOf == [h \in {1, 2, 3} |-> IF h = 3 THEN "req" ELSE "stream"]
PrefixOf == [h \in {1, 2, 3} |-> IF h = 2 THEN "b" ELSE "a"]
SomePackets ==
    {[kind |-> "stream", ids |-> {"a", "b"}], [kind |-> "req", ids |-> {"a"}]}
TwoNames == <<"a", "d">>
=============================================================================
