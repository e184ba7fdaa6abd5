---------------------------- MODULE LocalChannel ----------------------------
(***************************************************************************)
(* The single-threaded bounded channel of src/core/channel.rs and the      *)
(* futures that use it: several senders, one receiver, and a list of the   *)
(* senders that found the queue full.  A sender that takes a place hears   *)
(* of it through its registration: a local event that the reactor turns    *)
(* into readiness and a wake of the task.  One action is one poll of a     *)
(* task (nothing else of the thread runs meanwhile), one drop or one event *)
(* delivered by the reactor.                                               *)
(*                                                                         *)
(* Drops says that futures may be dropped before they complete, Selects    *)
(* that a task awaits other things too, so that it polls its send future   *)
(* although the channel did not wake it.                                   *)
(***************************************************************************)
EXTENDS Naturals, Sequences, SequencesExt, FiniteSets

CONSTANTS Senders,      \* keys of the senders' slab
          Bound,        \* capacity of the queue
          SendMax,      \* bound on the futures each sender creates
          Drops, Selects

VARIABLES
    queue,     \* number of values queued
    waiting,   \* senders.waiting, the list of keys
    notified,  \* LocalSenderData.notified of each sender
    event,     \* senders with a writable event not yet delivered
    ready,     \* senders whose registration is ready
    fut,       \* what each sender's task awaits: "none", "send", "check",
               \* "wait", "gone"
    woken,     \* senders whose task is to be polled
    created,   \* futures created by each sender
    recv,      \* the receiver: "recv" (awaits), "gone"
    revent, rready, rwoken   \* the same for the receiver

vars == <<queue, waiting, notified, event, ready, fut, woken, created,
          recv, revent, rready, rwoken>>

Alive == {s \in Senders : fut[s] # "gone"}

TypeOK ==
    /\ queue \in 0..Bound
    /\ waiting \in Seq(Senders) /\ Len(waiting) <= Cardinality(Senders)
    /\ notified \in [Senders -> BOOLEAN]
    /\ event \subseteq Senders /\ ready \subseteq Senders /\ woken \subseteq Senders
    /\ fut \in [Senders -> {"none", "send", "check", "wait", "gone"}]
    /\ created \in [Senders -> 0..SendMax]
    /\ recv \in {"recv", "gone"}
    /\ revent \in BOOLEAN /\ rready \in BOOLEAN /\ rwoken \in BOOLEAN

Init ==
    /\ queue = 0 /\ waiting = <<>>
    /\ notified = [s \in Senders |-> FALSE]
    /\ event = {} /\ ready = Senders /\ woken = {}
    /\ fut = [s \in Senders |-> "none"]
    /\ created = [s \in Senders |-> 0]
    /\ recv = "recv" /\ revent = FALSE /\ rready = TRUE /\ rwoken = TRUE

InList(s) == \E i \in DOMAIN waiting : waiting[i] = s

\* set_sender_waiting: appended unless it is already there.
set_sender_waiting(s) == IF InList(s) THEN waiting ELSE Append(waiting, s)

\* notify_one_sender: the head of the list is taken off it, marked and sent a
\* writable event.
notify_one_sender(list, marks) ==
    IF list = <<>>
    THEN /\ waiting' = list /\ notified' = marks /\ event' = event
    ELSE /\ waiting' = Tail(list)
         /\ notified' = [marks EXCEPT ![Head(list)] = TRUE]
         /\ event' = event \cup {Head(list)}

\* cancel: a notification not acted on goes to the next in line.
cancel(s) ==
    IF notified[s]
    THEN notify_one_sender(waiting, [notified EXCEPT ![s] = FALSE])
    ELSE UNCHANGED <<waiting, notified, event>>

receiver == <<recv, revent, rready, rwoken>>

-----------------------------------------------------------------------------
(* Senders                                                                 *)

Create(s) ==
    /\ fut[s] = "none" /\ created[s] < SendMax
    /\ \E f \in {"send", "check", "wait"} : fut' = [fut EXCEPT ![s] = f]
    /\ created' = [created EXCEPT ![s] = @ + 1]
    /\ woken' = woken \cup {s}
    /\ UNCHANGED <<queue, waiting, notified, event, ready, receiver>>

\* LocalSender::try_send where the receiver lives and there is room.
Pushed(s) ==
    /\ queue' = queue + 1
    /\ revent' = TRUE
    /\ notified' = [notified EXCEPT ![s] = FALSE]
    /\ UNCHANGED <<recv, rready, rwoken, event>>

\* LocalSendFuture::poll.  The future is dropped when it completes, which
\* cancels; try_send has cleared the mark by then.
PollSend(s) ==
    /\ fut[s] = "send" /\ s \in woken
    /\ woken' = woken \ {s}
    /\ \/ /\ s \notin ready
          /\ UNCHANGED <<queue, waiting, notified, event, ready, fut, receiver>>
       \/ /\ s \in ready /\ recv = "gone"
          /\ notified' = [notified EXCEPT ![s] = FALSE]
          /\ fut' = [fut EXCEPT ![s] = "none"]
          /\ UNCHANGED <<queue, waiting, event, ready, receiver>>
       \/ /\ s \in ready /\ recv # "gone" /\ queue < Bound
          /\ Pushed(s)
          /\ fut' = [fut EXCEPT ![s] = "none"]
          /\ UNCHANGED <<waiting, ready>>
       \/ /\ s \in ready /\ recv # "gone" /\ queue = Bound
          /\ notified' = [notified EXCEPT ![s] = FALSE]
          /\ waiting' = set_sender_waiting(s)
          /\ ready' = ready \ {s}
          /\ UNCHANGED <<queue, event, fut, receiver>>
    /\ UNCHANGED created

\* CheckSendFuture::poll and WaitSendableFuture::poll: neither looks at the
\* registration's readiness.
PollCheckFull(s) ==
    /\ fut[s] \in {"check", "wait"} /\ s \in woken
    /\ queue = Bound
    /\ waiting' = set_sender_waiting(s)
    /\ ready' = ready \ {s}
    /\ woken' = woken \ {s}
    /\ UNCHANGED <<queue, notified, event, fut, created, receiver>>

\* With room the future completes and the task sends in the same poll
\* (SendOnce::try_send, AsyncLocalSender::try_send).
PollCheckSend(s) ==
    /\ fut[s] \in {"check", "wait"} /\ s \in woken
    /\ queue < Bound
    /\ fut' = [fut EXCEPT ![s] = "none"]
    /\ woken' = woken \ {s}
    /\ IF recv = "gone"
       THEN /\ notified' = [notified EXCEPT ![s] = FALSE]
            /\ UNCHANGED <<queue, event, receiver>>
       ELSE Pushed(s)
    /\ UNCHANGED <<waiting, ready, created>>

\* The Drop of LocalSendFuture, WaitSendableFuture and SendOnce, and of a
\* CheckSendFuture followed by the cancel() its comment asks for.
DropFuture(s) ==
    /\ Drops
    /\ fut[s] \in {"send", "check", "wait"}
    /\ cancel(s)
    /\ fut' = [fut EXCEPT ![s] = "none"]
    /\ woken' = woken \ {s}
    /\ UNCHANGED <<queue, ready, created, receiver>>

\* LocalSender::drop, cancel() and remove_sender.
DropSender(s) ==
    /\ fut[s] = "none"
    /\ LET list == RemoveFirst(waiting, s) IN
       IF notified[s]
       THEN notify_one_sender(list, [notified EXCEPT ![s] = FALSE])
       ELSE waiting' = list /\ UNCHANGED <<notified, event>>
    /\ fut' = [fut EXCEPT ![s] = "gone"]
    /\ woken' = woken \ {s}
    /\ ready' = ready \ {s}
    /\ revent' = (revent \/ (recv = "recv" /\ Alive = {s}))
    /\ UNCHANGED <<queue, created, recv, rready, rwoken>>

\* The reactor delivers a writable event: the registration becomes ready and
\* the task that awaits is woken.
DeliverWritable(s) ==
    /\ s \in event
    /\ event' = event \ {s}
    /\ ready' = IF fut[s] = "gone" THEN ready ELSE ready \cup {s}
    /\ woken' = IF fut[s] \in {"send", "check", "wait"} THEN woken \cup {s} ELSE woken
    /\ UNCHANGED <<queue, waiting, notified, fut, created, receiver>>

\* Another branch of a select wakes the task, which polls every branch.
OtherWake(s) ==
    /\ Selects /\ fut[s] \in {"send", "check", "wait"}
    /\ woken' = woken \cup {s}
    /\ UNCHANGED <<queue, waiting, notified, event, ready, fut, created, receiver>>

-----------------------------------------------------------------------------
(* Receiver                                                                *)

\* LocalRecvFuture::poll, awaited again after each value.
PollRecv ==
    /\ recv = "recv" /\ rwoken
    /\ IF ~rready
       THEN /\ rwoken' = FALSE
            /\ UNCHANGED <<queue, waiting, notified, event, recv, rready>>
       ELSE IF queue > 0
       THEN /\ queue' = queue - 1
            /\ notify_one_sender(waiting, notified)
            /\ UNCHANGED <<recv, rready, rwoken>>
       ELSE IF Alive = {}
       THEN /\ recv' = "gone" /\ rwoken' = FALSE
            /\ UNCHANGED <<queue, waiting, notified, event, rready>>
       ELSE /\ rready' = FALSE /\ rwoken' = FALSE
            /\ UNCHANGED <<queue, waiting, notified, event, recv>>
    /\ UNCHANGED <<ready, fut, woken, created, revent>>

DeliverReadable ==
    /\ revent
    /\ revent' = FALSE
    /\ rready' = TRUE
    /\ rwoken' = (recv = "recv")
    /\ UNCHANGED <<queue, waiting, notified, event, ready, fut, woken, created, recv>>

\* LocalReceiver::drop: one sender is told.
DropReceiver ==
    /\ recv = "recv" /\ Drops
    /\ recv' = "gone" /\ rwoken' = FALSE
    /\ notify_one_sender(waiting, notified)
    /\ UNCHANGED <<queue, ready, fut, woken, created, revent, rready>>

SenderStep(s) == Create(s) \/ PollSend(s) \/ PollCheckFull(s) \/ PollCheckSend(s)
                 \/ DropFuture(s) \/ DropSender(s) \/ DeliverWritable(s) \/ OtherWake(s)

Next == \/ \E s \in Senders : SenderStep(s)
        \/ PollRecv \/ DeliverReadable \/ DropReceiver

Spec == Init /\ [][Next]_vars

-----------------------------------------------------------------------------
(* Properties                                                              *)

\* A sender that awaits with nothing under way that would poll it.
Stuck(s) == fut[s] \in {"send", "check", "wait"} /\ s \notin woken \cup event

\* While there is room, a sender waiting in vain has another one that was
\* told of the room and has yet to act: the wake-ups of
\* LocalChannel::notify_one_sender are never used up by a sender that does
\* not send. It does not hold: one that was told may await something else first.
NoStarvation ==
    (recv = "recv" /\ queue < Bound /\ \E s \in Senders : Stuck(s))
        => \E s \in Senders : notified[s] /\ s \in event \cup woken

\* The weaker promise that holds however the futures are used: the room is
\* never forgotten, some sender still carries the notification and gives it
\* up only by sending, or to the next in line by cancel() or its drop.
NoticeKept ==
    (recv = "recv" /\ queue < Bound /\ \E s \in Senders : Stuck(s))
        => \E s \in Senders : notified[s]

\* A value queued is never left with a receiver that nothing will wake.
ReceiverWakes ==
    (recv = "recv" /\ (queue > 0 \/ Alive = {})) => rwoken \/ revent

\* No sender is twice in the list, or in it after it was dropped.
ListSound ==
    /\ \A i, j \in DOMAIN waiting : waiting[i] = waiting[j] => i = j
    /\ \A i \in DOMAIN waiting : fut[waiting[i]] # "gone"

\* The local channel as a whole.
SignalsKept == NoticeKept /\ ReceiverWakes /\ ListSound
=============================================================================
