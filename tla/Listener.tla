------------------------------ MODULE Listener ------------------------------
(***************************************************************************)
(* Listener (src/connmgr/listener.rs): one thread accepts the connections  *)
(* of several sockets and gives each to a worker, over rendezvous channels *)
(* (src/core/channel.rs).  A worker that asks for a connection sets the    *)
(* clear-to-send flag of its channel and then raises an event, which the   *)
(* listener's reactor may process much later.                              *)
(***************************************************************************)
EXTENDS Naturals, Sequences

CONSTANTS Sockets,    \* number of listening sockets
          WorkerCount,
          ConnMax,    \* connections a worker may have
          ArriveMax,  \* bound of the connections that arrive
          None

Workers == 0..(WorkerCount - 1)
Socks == 0..(Sockets - 1)

VARIABLES arrived,        \* connections waiting at each socket
          total,          \* connections that arrived
          cts, slot,      \* of each channel: the flag, and the value in it
          event, ready,   \* its event, and the readiness the reactor made of it
          worker,         \* running or not, its connections, between flag and event or not
          pc, conn, tries,                \* of the listener: where it is, and with what
          listeners_pos, senders_pos,
          lost,           \* a connection was dropped that a worker could have had
          passed          \* times others were preferred to a worker that was writable

vars == <<arrived, total, cts, slot, event, ready, worker, pc, conn, tries,
          listeners_pos, senders_pos, lost, passed>>

Init ==
    /\ arrived = [l \in Socks |-> 0] /\ total = 0
    /\ cts = [w \in Workers |-> FALSE] /\ slot = [w \in Workers |-> None]
    /\ event = [w \in Workers |-> FALSE] /\ ready = [w \in Workers |-> FALSE]
    /\ worker = [w \in Workers |-> [alive |-> TRUE, held |-> 0, asking |-> FALSE]]
    /\ pc = "wait" /\ conn = None /\ tries = 0
    /\ listeners_pos = 0 /\ senders_pos = 0
    /\ lost = FALSE /\ passed = [w \in Workers |-> 0]

listenerVars == <<pc, conn, tries, listeners_pos, senders_pos, lost, passed>>

-----------------------------------------------------------------------------
(* The sockets and the workers                                             *)

Arrive(l) ==
    /\ total < ArriveMax /\ total' = total + 1
    /\ arrived' = [arrived EXCEPT ![l] = @ + 1]
    /\ UNCHANGED <<cts, slot, event, ready, worker, listenerVars>>

\* accept_task of a worker with room polls acceptor.recv(): it takes what there
\* is, or says that it is waiting.
WorkerRecv(w) ==
    /\ worker[w].alive /\ ~worker[w].asking /\ worker[w].held < ConnMax
    /\ IF slot[w] # None
       THEN /\ slot' = [slot EXCEPT ![w] = None]
            /\ worker' = [worker EXCEPT ![w].held = @ + 1]
            /\ UNCHANGED cts
       ELSE /\ ~cts[w] /\ cts' = [cts EXCEPT ![w] = TRUE]
            /\ worker' = [worker EXCEPT ![w].asking = TRUE]
            /\ UNCHANGED slot
    /\ UNCHANGED <<arrived, total, event, ready, listenerVars>>

WorkerRaise(w) ==
    /\ worker[w].asking
    /\ event' = [event EXCEPT ![w] = TRUE]
    /\ worker' = [worker EXCEPT ![w].asking = FALSE]
    /\ UNCHANGED <<arrived, total, cts, slot, ready, listenerVars>>

WorkerDone(w) ==
    /\ worker[w].alive /\ ~worker[w].asking /\ worker[w].held > 0
    /\ worker' = [worker EXCEPT ![w].held = @ - 1]
    /\ UNCHANGED <<arrived, total, cts, slot, event, ready, listenerVars>>

\* The worker stops; what was in its channel goes with it.
WorkerStop(w) ==
    /\ worker[w].alive /\ ~worker[w].asking
    /\ worker' = [worker EXCEPT ![w].alive = FALSE]
    /\ slot' = [slot EXCEPT ![w] = None]
    /\ UNCHANGED <<arrived, total, cts, event, ready, listenerVars>>

-----------------------------------------------------------------------------
(* The listener                                                            *)

\* The reactor polls while the listener awaits.
React(w) ==
    /\ pc \in {"wait", "accept"} /\ event[w]
    /\ event' = [event EXCEPT ![w] = FALSE] /\ ready' = [ready EXCEPT ![w] = TRUE]
    /\ UNCHANGED <<arrived, total, cts, slot, worker, listenerVars>>

Writable(w) == cts[w] /\ ready[w]

\* wait_writable of the senders in a set: what cannot be written is not ready.
Polled(S) == [w \in Workers |-> ready[w] /\ (w \in S => cts[w])]

\* Wait for a sender to become writable; select_slice polls in any order, until
\* one is.
WaitWritable ==
    /\ pc = "wait"
    /\ \/ \E w \in Workers, S \in SUBSET {v \in Workers : ~Writable(v)} :
             /\ Writable(w) /\ ready' = Polled(S) /\ pc' = "accept"
       \/ /\ \A w \in Workers : ~Writable(w)
          /\ ready' = Polled(Workers) /\ UNCHANGED pc
    /\ UNCHANGED <<arrived, total, cts, slot, event, worker, conn, tries,
                   listeners_pos, senders_pos, lost, passed>>

\* Accept from the k-th of the sockets that start at listeners_pos.
Accept(k) ==
    LET rotated == SubSeq([l \in 1..Sockets |-> l - 1], listeners_pos + 1, Sockets)
                   \o SubSeq([l \in 1..Sockets |-> l - 1], 1, listeners_pos)
        from == rotated[k + 1]
        pos == (listeners_pos + k) % Sockets
    IN  /\ pc = "accept" /\ arrived[from] > 0
        /\ arrived' = [arrived EXCEPT ![from] = @ - 1]
        /\ conn' = [from |-> from, pos |-> pos]
        /\ listeners_pos' = (pos + 1) % Sockets
        /\ pc' = "send" /\ tries' = 0
        /\ UNCHANGED <<total, cts, slot, event, ready, worker, senders_pos, lost, passed>>

NextSender == senders_pos' = (senders_pos + 1) % WorkerCount

\* The flag is taken, and the value put into the channel if there still is a
\* receiver.
TrySend(s) ==
    /\ cts' = [cts EXCEPT ![s] = FALSE]
    /\ slot' = IF worker[s].alive THEN [slot EXCEPT ![s] = conn] ELSE slot
    /\ passed' = [w \in Workers |-> IF w # s /\ Writable(w) THEN passed[w] + 1 ELSE 0]
    /\ conn' = None
    /\ IF worker[s].alive THEN pc' = "sent" /\ UNCHANGED senders_pos
       ELSE pc' = "wait" /\ NextSender

\* One turn of the loop over the senders; the connection is dropped after the
\* last one.
Send ==
    /\ pc = "send"
    /\ IF tries = WorkerCount
       THEN /\ lost' = TRUE /\ conn' = None /\ pc' = "wait"
            /\ UNCHANGED <<cts, slot, ready, tries, senders_pos, passed>>
       ELSE /\ tries' = tries + 1
            /\ IF Writable(senders_pos)
               THEN TrySend(senders_pos) /\ UNCHANGED <<ready, lost>>
               ELSE /\ ready' = [ready EXCEPT ![senders_pos] = FALSE]
                    /\ NextSender
                    /\ UNCHANGED <<cts, slot, conn, pc, lost, passed>>
    /\ UNCHANGED <<arrived, total, event, worker, listeners_pos>>

\* After a send: the sender is ready no more, unless its worker asked again.
Sent ==
    /\ pc = "sent" /\ pc' = "wait"
    /\ ready' = Polled({senders_pos}) /\ NextSender
    /\ UNCHANGED <<arrived, total, cts, slot, event, worker, conn, tries,
                   listeners_pos, lost, passed>>

\* Listener::drop, noticed in either of the two awaits.
Stop ==
    /\ pc \in {"wait", "accept"} /\ pc' = "stopped"
    /\ UNCHANGED <<arrived, total, cts, slot, event, ready, worker, conn, tries,
                   listeners_pos, senders_pos, lost, passed>>

Next ==
    \/ \E l \in Socks : Arrive(l) \/ Accept(l)
    \/ \E w \in Workers : \/ WorkerRecv(w) \/ WorkerRaise(w) \/ WorkerDone(w)
                          \/ WorkerStop(w) \/ React(w)
    \/ WaitWritable \/ Send \/ Sent \/ Stop

Spec == Init /\ [][Next]_vars

-----------------------------------------------------------------------------
(* Properties                                                              *)

TypeOK ==
    /\ pc \in {"wait", "accept", "send", "sent", "stopped"}
    /\ listeners_pos \in Socks /\ senders_pos \in Workers /\ tries \in 0..WorkerCount
    /\ \A w \in Workers : worker[w].held \in 0..ConnMax

\* A connection that was accepted reaches a worker that has room for it, with
\* the socket it came from (the worker's choice of TLS depends on it); none is
\* dropped because the workers seemed writable and were not.
ConnectionsPlaced ==
    /\ ~lost
    /\ conn # None => conn.pos = conn.from
    /\ \A w \in Workers :
          slot[w] # None => slot[w].pos = slot[w].from /\ worker[w].held < ConnMax

\* A worker that waits gets a connection after at most one for each of the
\* others.
TurnsTaken == \A w \in Workers : passed[w] < WorkerCount
=============================================================================
