----------------------------- MODULE SyncChannel -----------------------------
(***************************************************************************)
(* The channel between threads of src/core/channel.rs (Sender, Receiver)   *)
(* used through AsyncSender and AsyncReceiver: a standard library queue,   *)
(* an event each way, and, when the bound is zero, a clear-to-send flag    *)
(* that the receiver raises when it finds the queue empty and the sender   *)
(* takes down before it sends.  The two threads interleave between any two *)
(* of the atomic operations; each thread's reactor delivers the events to  *)
(* the registration of its own side.                                       *)
(***************************************************************************)
EXTENDS Naturals

CONSTANTS Bound,     \* capacity of a channel that is not a rendezvous
          SendMax    \* bound on the values sent

VARIABLES
    rendezvous,  \* channel(0)
    queue,       \* values in the standard library's queue
    cts,         \* clear to send
    spc, sready, sevent,   \* sender task, its readiness, event for its reactor
    rpc, rready, revent,   \* the same for the receiver
    sent, got    \* values handed in and out

vars == <<rendezvous, queue, cts, spc, sready, sevent, rpc, rready, revent, sent, got>>
sender == <<spc, sready, sent>>
receiver == <<rpc, rready, got>>

Capacity == IF rendezvous THEN 1 ELSE Bound

TypeOK ==
    /\ rendezvous \in BOOLEAN /\ cts \in BOOLEAN
    /\ queue \in 0..Capacity
    /\ spc \in {"idle", "wait", "poll", "push", "raise", "settle", "unready", "parked",
                "parkedWait", "drop", "gone"}
    /\ rpc \in {"poll", "pop", "clear", "raiseValue", "raiseEmpty", "unready", "parked", "gone"}
    /\ sready \in BOOLEAN /\ sevent \in BOOLEAN /\ rready \in BOOLEAN /\ revent \in BOOLEAN
    /\ sent \in 0..SendMax /\ got \in 0..SendMax

\* channel(bound), AsyncSender::new and AsyncReceiver::new.
Init ==
    /\ rendezvous \in BOOLEAN
    /\ queue = 0 /\ cts = FALSE
    /\ spc = "idle" /\ sready = ~rendezvous /\ sevent = ~rendezvous
    /\ rpc = "poll" /\ rready = TRUE /\ revent = FALSE
    /\ sent = 0 /\ got = 0

can_send == rendezvous => cts

-----------------------------------------------------------------------------
(* Sender                                                                  *)

SendBegin ==
    /\ spc = "idle" /\ sent < SendMax
    /\ spc' \in {"wait", "poll"}
    /\ UNCHANGED <<rendezvous, queue, cts, sready, sevent, sent, receiver, revent>>

\* WaitWritableFuture::poll.
WaitWritable ==
    /\ spc = "wait"
    /\ sready' = (sready /\ can_send)
    /\ spc' = IF sready' THEN "poll" ELSE "parkedWait"
    /\ UNCHANGED <<rendezvous, queue, cts, sevent, sent, receiver, revent>>

\* SendFuture::poll up to the flag: the task parks unless the registration is
\* ready, and a rendezvous send stops here unless it takes the flag down.
PollSend ==
    /\ spc = "poll"
    /\ IF ~sready THEN spc' = "parked" /\ UNCHANGED cts
       ELSE IF rendezvous /\ ~cts THEN spc' = "unready" /\ UNCHANGED cts
       ELSE spc' = "push" /\ cts' = FALSE
    /\ UNCHANGED <<rendezvous, queue, sready, sevent, sent, receiver, revent>>

\* SyncSender::try_send.
Push ==
    /\ spc = "push"
    /\ IF rpc = "gone"
       THEN spc' = "drop" /\ UNCHANGED <<queue, sent>>
       ELSE IF queue < Capacity
       THEN spc' = "raise" /\ queue' = queue + 1 /\ sent' = sent + 1
       ELSE spc' = "unready" /\ UNCHANGED <<queue, sent>>
    /\ UNCHANGED <<rendezvous, cts, sready, sevent, receiver, revent>>

Raise ==
    /\ spc = "raise"
    /\ revent' = TRUE
    /\ spc' = "settle"
    /\ UNCHANGED <<rendezvous, queue, cts, sready, sevent, sent, receiver>>

\* AsyncSender::try_send after a success.
Settle ==
    /\ spc = "settle"
    /\ sready' = (sready /\ can_send)
    /\ spc' = "idle"
    /\ UNCHANGED <<rendezvous, queue, cts, sevent, sent, receiver, revent>>

\* Mutant: the events that arrived meanwhile are thrown away too.
Unready_clears ==
    /\ spc = "unready"
    /\ sready' = FALSE
    /\ sevent' = FALSE
    /\ spc' = "parked"
    /\ UNCHANGED <<rendezvous, queue, cts, sent, receiver, revent>>

\* AsyncSender::try_send after Full: not ready until the next event.
Unready ==
    /\ spc = "unready"
    /\ sready' = FALSE
    /\ spc' = "parked"
    /\ UNCHANGED <<rendezvous, queue, cts, sevent, sent, receiver, revent>>

\* Sender::drop: the queue's end is dropped before the receiver is told.
DropSender ==
    \/ /\ spc = "idle"
       /\ spc' = "drop"
       /\ UNCHANGED <<rendezvous, queue, cts, sready, sevent, sent, receiver, revent>>
    \/ /\ spc = "drop"
       /\ spc' = "gone"
       /\ revent' = TRUE
       /\ UNCHANGED <<rendezvous, queue, cts, sready, sevent, sent, receiver>>

\* The sender's reactor delivers a writable event.
DeliverWritable ==
    /\ sevent
    /\ spc \in {"idle", "parked", "parkedWait"}
    /\ sevent' = FALSE
    /\ sready' = TRUE
    /\ spc' = CASE spc = "parked" -> "poll" [] spc = "parkedWait" -> "wait" [] OTHER -> spc
    /\ UNCHANGED <<rendezvous, queue, cts, sent, receiver, revent>>

-----------------------------------------------------------------------------
(* Receiver                                                                *)

\* RecvFuture::poll.
PollRecv ==
    /\ rpc = "poll"
    /\ rpc' = IF rready THEN "pop" ELSE "parked"
    /\ UNCHANGED <<rendezvous, queue, cts, sender, sevent, rready, revent, got>>

\* mpsc::Receiver::try_recv.
Pop ==
    /\ rpc = "pop"
    /\ IF queue > 0
       THEN /\ queue' = queue - 1 /\ got' = got + 1
            /\ rpc' = IF rendezvous THEN "poll" ELSE "raiseValue"
       ELSE /\ rpc' = IF spc \in {"drop", "gone"} THEN "gone"
                      ELSE IF rendezvous THEN "clear" ELSE "unready"
            /\ UNCHANGED <<queue, got>>
    /\ UNCHANGED <<rendezvous, cts, sender, sevent, rready, revent>>

\* The compare_exchange of Receiver::try_recv.
Clear ==
    /\ rpc = "clear"
    /\ cts' = TRUE
    /\ rpc' = IF cts THEN "unready" ELSE "raiseEmpty"
    /\ UNCHANGED <<rendezvous, queue, sender, sevent, rready, revent, got>>

RaiseWritable ==
    /\ rpc \in {"raiseValue", "raiseEmpty"}
    /\ sevent' = TRUE
    /\ rpc' = IF rpc = "raiseValue" THEN "poll" ELSE "unready"
    /\ UNCHANGED <<rendezvous, queue, cts, sender, rready, revent, got>>

RecvUnready ==
    /\ rpc = "unready"
    /\ rready' = FALSE
    /\ rpc' = "parked"
    /\ UNCHANGED <<rendezvous, queue, cts, sender, sevent, revent, got>>

DeliverReadable ==
    /\ revent /\ rpc = "parked"
    /\ revent' = FALSE
    /\ rready' = TRUE
    /\ rpc' = "poll"
    /\ UNCHANGED <<rendezvous, queue, cts, sender, sevent, got>>

\* Receiver has no Drop of its own: the sender hears of it when it next sends.
DropReceiver ==
    /\ rpc \in {"poll", "parked"}
    /\ rpc' = "gone"
    /\ UNCHANGED <<rendezvous, queue, cts, sender, sevent, rready, revent, got>>

SenderNext == SendBegin \/ WaitWritable \/ PollSend \/ Push \/ Raise \/ Settle \/ Unready
              \/ DropSender \/ DeliverWritable
ReceiverNext == PollRecv \/ Pop \/ Clear \/ RaiseWritable \/ RecvUnready \/ DeliverReadable
                \/ DropReceiver

Next == SenderNext \/ ReceiverNext

Spec == Init /\ [][Next]_vars

-----------------------------------------------------------------------------
(* Properties                                                              *)

\* Neither side sleeps on what the other one did: a parked sender that could
\* send has an event coming, and so has a parked receiver with a value, or
\* the end of the channel, before it.
NoLostEvent ==
    /\ (spc \in {"parked", "parkedWait"} /\ can_send /\ queue < Capacity)
           => sevent \/ rpc \in {"raiseValue", "raiseEmpty"}
    /\ (rpc = "parked" /\ (queue > 0 \/ spc \in {"drop", "gone"}))
           => revent \/ spc \in {"raise", "drop"}

\* What the comment in Sender::try_send relies on: once a rendezvous sender
\* has taken the flag, the queue has room for its value.
FlagMeansRoom == (rendezvous /\ spc = "push") => queue = 0

\* The channel between threads as a whole.
SignalsKept == NoLostEvent /\ FlagMeansRoom
=============================================================================
