----------------------------- MODULE ZmqSocket ------------------------------
(***************************************************************************)
(* ZmqSocket and AsyncZmqSocket of src/core/zmq.rs, as the ZHTTP socket    *)
(* managers use them: one task that always wants to receive and sometimes  *)
(* has a message to send, both through one socket and one registration.    *)
(*                                                                         *)
(* A ZeroMQ socket signals its file descriptor once for the commands its   *)
(* peers queue and goes quiet when the commands are taken, whichever call  *)
(* takes them.  The code keeps the events it last saw and asks for them    *)
(* again after each call and each time the descriptor was signalled.  The  *)
(* peers act between any two calls.                                        *)
(***************************************************************************)
EXTENDS Naturals, Sequences

CONSTANTS InMax,        \* bound on the messages that arrive
          SendMax,      \* bound on the messages sent
          Hwm,          \* messages the destination's pipe holds
          Malformed     \* a message may have nothing after its separator

VARIABLES
    router,   \* ROUTER with a retry timeout and another, writable, peer; else DEALER
    recvFirst,  \* the select polls the receive before the send
    inbound,  \* messages in the inbound pipe: TRUE is well formed
    outbound, \* messages in the pipe to the destination
    peer,     \* the destination is connected
    inAct, outAct,  \* the socket considers the pipe readable, writable
    commands, \* commands queued for the socket: the descriptor is readable
    edge,     \* the descriptor was signalled and the reactor has not seen it
    events,   \* ZmqSocket.events
    ready, waker,   \* readiness and waker of the registration
    timer,    \* ZmqSendToFuture.timer_evented: none, set, fired
    pc,       \* where the task is
    polled,   \* futures this poll of the select has tried
    result,   \* what the call in progress returned
    sending,  \* a send future is pending
    late,     \* a peer acted between a call that found nothing and the events after it
    arrived, sent, got

kind == <<router, recvFirst>>
socket == <<inbound, outbound, peer, inAct, outAct, commands, edge>>
counts == <<arrived, sent, got>>
vars == <<kind, socket, events, ready, waker, timer, pc, polled, result, sending, late, counts>>

Kinds == {"in", "out"}

TypeOK ==
    /\ router \in BOOLEAN /\ recvFirst \in BOOLEAN /\ late \in BOOLEAN
    /\ peer \in BOOLEAN /\ inAct \in BOOLEAN /\ outAct \in BOOLEAN
    /\ inbound \in UNION {[1..n -> BOOLEAN] : n \in 0..InMax} /\ outbound \in 0..Hwm
    /\ commands \subseteq Kinds /\ events \subseteq Kinds /\ edge \in BOOLEAN
    /\ ready \in BOOLEAN /\ waker \in BOOLEAN /\ sending \in BOOLEAN
    /\ timer \in {"none", "set", "fired"}
    /\ pc \in {"poll", "recv", "recvUpdate", "send", "sendUpdate", "sleep"}
    /\ polled \subseteq {"recv", "send"} /\ result \in {"none", "ok", "again", "invalid"}
    /\ arrived \in 0..InMax /\ sent \in 0..SendMax /\ got \in 0..InMax

\* ZmqSocket::new and AsyncZmqSocket::new, before the first select.
\* The DEALER's send and the ROUTER's send of ClientSocketManager are polled
\* before the receive, the ROUTER's of ServerSocketManager after it.
Init ==
    /\ router \in BOOLEAN /\ recvFirst \in BOOLEAN /\ (recvFirst => router)
    /\ late = FALSE
    /\ inbound = <<>> /\ outbound = 0 /\ peer = TRUE
    /\ inAct = FALSE /\ outAct = TRUE /\ commands = {} /\ edge = FALSE
    /\ events = {"out"} /\ ready = FALSE /\ waker = FALSE /\ timer = "none"
    /\ pc = "poll" /\ polled = {} /\ result = "none" /\ sending = FALSE
    /\ arrived = 0 /\ sent = 0 /\ got = 0

-----------------------------------------------------------------------------
(* libzmq, seen through the calls the code makes                           *)

\* A peer queues a command; only the first one signals.
Queue(c) ==
    /\ commands' = commands \cup {c}
    /\ edge' = (edge \/ commands = {})

\* The pipes' state once the queued commands are taken.
Readable == inAct \/ "in" \in commands
Writable == outAct \/ "out" \in commands
Room == peer /\ outbound < Hwm

\* What get_events returns once it has taken the commands.
Seen ==
    {k \in Kinds : \/ k = "in" /\ Readable /\ inbound # <<>>
                   \/ k = "out" /\ (router \/ (Writable /\ Room))}

\* Every call takes the commands, which makes the descriptor quiet, and marks
\* a pipe that it finds empty or full so that the peer signals again.
TakeCommands ==
    /\ commands' = {} /\ edge' = FALSE
    /\ inAct' = (Readable /\ inbound # <<>>)
    /\ outAct' = (Writable /\ Room)

PeerSends(wellFormed) ==
    /\ arrived < InMax /\ (wellFormed \/ Malformed)
    /\ inbound' = Append(inbound, wellFormed) /\ arrived' = arrived + 1
    /\ IF Readable THEN UNCHANGED <<commands, edge>> ELSE Queue("in")
    /\ late' = (late \/ (pc = "recvUpdate" /\ result = "again"))
    /\ UNCHANGED <<kind, outbound, peer, inAct, outAct, events, ready, waker, timer, pc,
                   polled, result, sending, sent, got>>

PeerReads ==
    /\ peer /\ outbound > 0
    /\ outbound' = outbound - 1
    /\ IF Writable THEN UNCHANGED <<commands, edge>> ELSE Queue("out")
    /\ UNCHANGED <<kind, inbound, peer, inAct, outAct, events, ready, waker, timer, pc,
                   polled, result, sending, late, counts>>

\* The pipe goes with the peer, and a new peer brings a new pipe.
PeerLeaves ==
    /\ ~router /\ peer
    /\ peer' = FALSE /\ outbound' = 0 /\ outAct' = FALSE /\ commands' = commands \ {"out"}
    /\ UNCHANGED <<kind, inbound, inAct, edge, events, ready, waker, timer, pc, polled,
                   result, sending, late, counts>>

PeerJoins ==
    /\ ~peer /\ peer' = TRUE
    /\ Queue("out")
    /\ late' = (late \/ (pc = "sendUpdate" /\ result = "again"))
    /\ UNCHANGED <<kind, inbound, outbound, inAct, outAct, events, ready, waker, timer, pc,
                   polled, result, sending, counts>>

-----------------------------------------------------------------------------
(* The task                                                                *)

\* The manager takes a message from a handle; the select starts over.
SendBegin ==
    /\ pc = "sleep" /\ ~sending /\ sent < SendMax
    /\ sending' = TRUE /\ pc' = "poll" /\ polled' = {} /\ late' = FALSE
    /\ UNCHANGED <<kind, socket, events, ready, waker, timer, result, counts>>

Done(f) == f \in polled
Turn(f) ==
    /\ pc = "poll" /\ ~Done(f)
    /\ f = "send" => sending /\ (recvFirst => Done("recv"))
    /\ f = "recv" => (recvFirst \/ ~sending \/ Done("send"))

\* The registration's readiness tells the future to ask for the events.
update_if_ready ==
    IF ready
    THEN /\ events' = Seen /\ TakeCommands /\ ready' = FALSE
    ELSE UNCHANGED <<events, commands, edge, inAct, outAct, ready>>

\* ZmqRecvFuture::poll and ZmqRecvRoutedFuture::poll, up to the call.
PollRecv ==
    /\ Turn("recv")
    /\ waker' = TRUE /\ update_if_ready
    /\ polled' = polled \cup {"recv"}
    /\ pc' = IF "in" \in events' THEN "recv" ELSE "poll"
    /\ UNCHANGED <<kind, inbound, outbound, peer, timer, result, sending, late, counts>>

\* recv_msg, for each part of the message.
Recv ==
    /\ pc = "recv"
    /\ IF inbound = <<>>
       THEN result' = "again" /\ UNCHANGED <<inbound, got>>
       ELSE /\ inbound' = Tail(inbound) /\ got' = got + 1
            /\ result' = IF Head(inbound) THEN "ok" ELSE "invalid"
    /\ TakeCommands
    /\ pc' = "recvUpdate"
    /\ UNCHANGED <<kind, outbound, peer, events, ready, waker, timer, polled,
                   sending, late, arrived, sent>>

\* The events after the call, except when the content is missing; the select
\* ends unless the call would have blocked, and drops the receive future.
RecvUpdate ==
    /\ pc = "recvUpdate"
    /\ IF result = "invalid"
       THEN UNCHANGED <<events, commands, edge, inAct, outAct>>
       ELSE events' = Seen /\ TakeCommands
    /\ waker' = (result = "again" /\ waker)
    /\ polled' = IF result = "again" THEN polled ELSE {}
    /\ pc' = "poll" /\ result' = "none"
    /\ UNCHANGED <<kind, inbound, outbound, peer, ready, timer, sending, late, counts>>

\* ZmqSendFuture::poll and ZmqSendToFuture::poll, up to the call: nothing is
\* tried while the retry timer runs.
PollSend ==
    /\ Turn("send")
    /\ polled' = polled \cup {"send"}
    /\ \/ /\ timer = "set"
          /\ pc' = "poll"
          /\ UNCHANGED <<events, commands, edge, inAct, outAct, ready, waker, timer>>
       \/ /\ timer # "set"
          /\ timer' = "none" /\ waker' = TRUE /\ update_if_ready
          /\ pc' = IF "out" \in events' THEN "send" ELSE "poll"
    /\ UNCHANGED <<kind, inbound, outbound, peer, result, sending, late, counts>>

\* zmq_send: the first part decides for the whole message.
Send ==
    /\ pc = "send"
    /\ IF Writable /\ Room
       THEN result' = "ok" /\ outbound' = outbound + 1 /\ sent' = sent + 1
       ELSE result' = "again" /\ UNCHANGED <<outbound, sent>>
    /\ TakeCommands
    /\ pc' = "sendUpdate"
    /\ UNCHANGED <<kind, inbound, peer, events, ready, waker, timer, polled,
                   sending, late, arrived, got>>

\* A send that would have blocked waits for the descriptor or, where a retry
\* timeout is set, for the timer alone.
SendUpdate ==
    /\ pc = "sendUpdate"
    /\ events' = Seen /\ TakeCommands
    /\ \/ /\ result = "ok"
          /\ sending' = FALSE /\ polled' = {} /\ waker' = FALSE
          /\ UNCHANGED timer
       \/ /\ result = "again"
          /\ timer' = IF router THEN "set" ELSE timer
          /\ waker' = ~router
          /\ UNCHANGED <<sending, polled>>
    /\ pc' = "poll" /\ result' = "none"
    /\ UNCHANGED <<kind, late, inbound, outbound, peer, ready, counts>>

\* Every future of the select is pending.
Sleep ==
    /\ pc = "poll" /\ Done("recv") /\ (sending => Done("send"))
    /\ pc' = "sleep" /\ polled' = {}
    /\ UNCHANGED <<kind, socket, events, ready, waker, timer, result, sending, late, counts>>

\* Reactor::poll: the signal of the descriptor, and the timer.
ReactorEdge ==
    /\ pc = "sleep" /\ edge
    /\ edge' = FALSE /\ ready' = TRUE /\ waker' = FALSE
    /\ pc' = IF waker THEN "poll" ELSE "sleep"
    /\ late' = (late /\ ~waker)
    /\ UNCHANGED <<kind, inbound, outbound, peer, inAct, outAct, commands, events, timer,
                   polled, result, sending, counts>>

ReactorTimer ==
    /\ pc = "sleep" /\ timer = "set"
    /\ timer' = "fired" /\ pc' = "poll" /\ late' = FALSE
    /\ UNCHANGED <<kind, socket, events, ready, waker, polled, result, sending, counts>>

Next ==
    \/ \E w \in BOOLEAN : PeerSends(w)
    \/ PeerReads \/ PeerLeaves \/ PeerJoins
    \/ SendBegin \/ PollRecv \/ Recv \/ RecvUpdate
    \/ PollSend \/ Send \/ SendUpdate
    \/ Sleep \/ ReactorEdge \/ ReactorTimer

Spec == Init /\ [][Next]_vars

-----------------------------------------------------------------------------
(* Properties                                                              *)

\* A task that sleeps with nothing to wake it is one with nothing to do: no
\* message waits to be received, and a message to send has no room
\* (AsyncZmqSocket's futures against the edge-triggered descriptor).  The one
\* exception is a peer that acts after a call found nothing and before the
\* events are asked for: the events then say so, and the future still waits.
NoLostSignal ==
    pc = "sleep" /\ timer = "none" /\ ~(edge /\ waker) /\ ~late =>
        /\ inbound = <<>>
        /\ ~(sending /\ Room)
=============================================================================
