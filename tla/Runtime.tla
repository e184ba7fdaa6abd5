------------------------------ MODULE Runtime ------------------------------
(***************************************************************************)
(* The Rust runtime of a thread: the executor and its task queues          *)
(* (src/src/core/executor.rs), the reactor with its registrations, wakers  *)
(* and timers (src/src/core/reactor.rs), the poller's local and sync event *)
(* sources (src/src/core/event.rs) and the futures built on them           *)
(* (src/src/core/task.rs, time.rs, net.rs, channel.rs).  Another thread    *)
(* sends on a channel, the kernel reports a socket, and time passes.       *)
(*                                                                         *)
(* A task awaits sets of futures: "read" and "write" of the socket, "recv" *)
(* of the channel, "cancelled" of a token and "elapsed" of a timeout.      *)
(***************************************************************************)
EXTENDS Integers, Sequences, FiniteSets, SequencesExt

CONSTANTS
  Tasks,         \* the tasks, all spawned before the executor runs
  Waits,         \* task -> the sets of futures it may select on
  Budget,        \* reactor budget of one poll of a task
  LocalBudget,   \* LOCAL_BUDGET
  EventsMax,     \* EVENTS_MAX
  SocketMax,     \* bound: changes of the socket
  SendMax,       \* bound: sends of the other thread
  TimeMax,       \* bound: ticks of the clock
  StepMax,       \* bound: what the tasks do besides waiting
  None

VARIABLES
  ex,      \* Tasks of the executor: the tasks, the queues and where run() is
  reg,     \* registration -> readiness and waker
  ev,      \* Poller: the queues of ready sources, the last events
  world,   \* the socket, the channel, the token and the clock
  budget,  \* what is left of the reactor's budget
  bound,   \* what has been used of the bounds
  yields,  \* history: task that yields to local events -> tasks to be polled before
  dropped  \* history: tasks whose waker was dropped, which have not been polled since

vars == <<ex, reg, ev, world, budget, bound, yields, dropped>>

Regs == {"socket", "chan", "token", "timer"}
Order == <<"cancelled", "elapsed", "recv", "read", "write">>
RegOf == [read |-> "socket", write |-> "socket", recv |-> "chan", cancelled |-> "token", elapsed |-> "timer"]
Dirs == {"r", "w"}
DirOf(f) == IF f = "write" THEN "w" ELSE "r"

NoWaker == [k |-> "none"]
Single(t, i) == [k |-> "single", t |-> t, i |-> i]
Separate(r, w) == [k |-> "separate", r |-> r, w |-> w]

\* The tasks are queued; the socket is ready until it is known not to be, and
\* so is the channel.
Init ==
  /\ ex = [task |-> [t \in Tasks |-> [live |-> TRUE, wakeable |-> FALSE, low |-> FALSE, fut |-> "run", on |-> {}]],
           next |-> SetToSeq(Tasks), low |-> <<>>, list |-> <<>>, cur |-> None, pc |-> "loop"]
  /\ reg = [r \in Regs |-> [ready |-> CASE r = "socket" -> Dirs [] r = "chan" -> {"r"} [] OTHER -> {},
                            waker |-> NoWaker]]
  /\ ev = [local |-> <<>>, sync |-> <<>>, wake |-> FALSE, localOnly |-> FALSE, localBudget |-> LocalBudget,
           socket |-> {}, left |-> 0, block |-> FALSE]
  /\ world = [io |-> {}, edge |-> FALSE, q |-> 0, sender |-> "idle", cancelled |-> FALSE,
              clock |-> 0, now |-> 0, expires |-> None, wheel |-> FALSE]
  /\ budget = Budget
  /\ bound = [socket |-> 0, send |-> 0, step |-> 0]
  /\ yields = [t \in Tasks |-> {}]
  /\ dropped = {}

-----------------------------------------------------------------------------
(* Executor.                                                               *)

InList(e, t) == \E l \in {e.next, e.low, e.list} : \E j \in DOMAIN l : l[j] = t

\* Tasks::wake.
Wake(e, t, resume) ==
  LET low == e.cur = t \/ resume
      e1 == [e EXCEPT !.task[t].wakeable = FALSE, !.task[t].low = low]
  IN IF ~e.task[t].wakeable /\ ~resume THEN e
     ELSE IF low THEN [e1 EXCEPT !.low = Append(@, t)] ELSE [e1 EXCEPT !.next = Append(@, t)]

\* Tasks::ignore_wakes, of the current task.
IgnoreWakes(e, t) ==
  [e EXCEPT !.task[t].wakeable = FALSE,
            !.next = SelectSeq(@, LAMBDA u : u # t), !.low = SelectSeq(@, LAMBDA u : u # t)]

\* Tasks::take_task, and pre_poll, which sets the budget.
TakeTask ==
  /\ ex.pc \in {"first", "second", "low"} /\ ex.cur = None /\ ex.list # <<>>
  /\ ex' = [ex EXCEPT !.list = Tail(@), !.cur = Head(ex.list), !.task[Head(ex.list)].wakeable = TRUE]
  /\ budget' = Budget
  /\ yields' = [t \in Tasks |-> yields[t] \ {Head(ex.list)}]
  /\ dropped' = dropped \ {Head(ex.list)}
  /\ UNCHANGED <<reg, ev, world, bound>>

\* Executor::run: normal tasks, park, normal tasks, low tasks.
RunLoop ==
  /\ ex.cur = None /\ ex.list = <<>>
  /\ \/ /\ ex.pc = "loop"
        /\ ex' = [ex EXCEPT !.pc = "first", !.list = ex.next, !.next = <<>>]
     \/ /\ ex.pc = "first"
        /\ ex' = [ex EXCEPT !.pc = IF \E t \in Tasks : ex.task[t].live THEN "park" ELSE "ended"]
     \/ /\ ex.pc = "second"
        /\ ex' = [ex EXCEPT !.pc = "low", !.list = ex.low, !.low = <<>>]
     \/ /\ ex.pc = "low"
        /\ ex' = [ex EXCEPT !.pc = "loop"]
  /\ UNCHANGED <<reg, ev, world, budget, bound, yields, dropped>>

-----------------------------------------------------------------------------
(* WakerInterest.                                                          *)

Interest(wi) == IF wi.k = "single" THEN wi.i ELSE IF wi.k = "separate" THEN Dirs ELSE {}

\* change, or a new waker: set_waker.  Here an interest is one direction.
SetWaker(wi, t, i) ==
  CASE wi.k = "none" -> Single(t, i)
    [] wi.k = "single" -> IF wi.i = i THEN Single(t, i)
                          ELSE IF i = {"r"} THEN Separate(t, wi.t) ELSE Separate(wi.t, t)
    [] wi.k = "separate" -> IF i = {"r"} THEN Separate(t, wi.w) ELSE Separate(wi.r, t)

\* clear_interest.
ClearInterest(wi, i) ==
  CASE wi.k = "none" -> NoWaker
    [] wi.k = "single" -> IF wi.i \subseteq i THEN NoWaker ELSE Single(wi.t, wi.i \ i)
    [] wi.k = "separate" -> IF i = Dirs THEN NoWaker
                            ELSE IF i = {"r"} THEN Single(wi.w, {"w"}) ELSE Single(wi.r, {"r"})

\* wake: who is woken, and what remains.
WokenBy(wi, i) ==
  IF wi.k = "single" THEN IF wi.i \cap i # {} THEN <<wi.t>> ELSE <<>>
  ELSE (IF "r" \in i THEN <<wi.r>> ELSE <<>>) \o (IF "w" \in i THEN <<wi.w>> ELSE <<>>)

Remaining(wi, i) ==
  IF wi.k = "single" THEN IF wi.i \cap i # {} THEN NoWaker ELSE wi ELSE ClearInterest(wi, i)

WakeAll(e, s) == FoldLeft(LAMBDA acc, t : Wake(acc, t, FALSE), e, s)

-----------------------------------------------------------------------------
(* The poller and the reactor's turn.                                      *)

\* Mutant: the poll is not woken.
SyncReady_quiet(p, s) ==
  IF \E j \in DOMAIN p.sync : p.sync[j] = s THEN p ELSE [p EXCEPT !.sync = Append(@, s)]

\* SyncSources::set_readiness: the poll is woken if no source was ready.
SyncReady(p, s) ==
  IF \E j \in DOMAIN p.sync : p.sync[j] = s THEN p
  ELSE [p EXCEPT !.sync = Append(@, s), !.wake = @ \/ p.sync = <<>>]

\* LocalSources::set_readiness.
LocalReady(p, s) ==
  IF \E j \in DOMAIN p.local : p.local[j] = s THEN p ELSE [p EXCEPT !.local = Append(@, s)]

\* Poller::poll up to the system call: local events only, while the budget for
\* that lasts, else no wait if there are events or tasks.
PollerPoll ==
  /\ ex.pc = "park"
  /\ IF ev.local # <<>> /\ ev.localBudget > 0
     THEN /\ ev' = [ev EXCEPT !.localBudget = @ - 1, !.localOnly = TRUE, !.socket = {}, !.left = EventsMax]
          /\ ex' = [ex EXCEPT !.pc = "events"]
          /\ world' = [world EXCEPT !.now = world.clock]
     ELSE /\ ev' = [ev EXCEPT !.localBudget = LocalBudget, !.localOnly = FALSE,
                              !.block = ev.local = <<>> /\ ev.sync = <<>> /\ ex.next = <<>> /\ ex.low = <<>>]
          /\ ex' = [ex EXCEPT !.pc = "wait"]
          /\ UNCHANGED world
  /\ UNCHANGED <<reg, budget, bound, yields, dropped>>

\* next_timeout: the wait ends when the timer is due.
TimerDue == world.wheel /\ world.expires <= world.clock
MioReady == world.edge \/ ev.wake \/ TimerDue

\* The system call returns; the time is taken.
MioPoll ==
  /\ ex.pc = "wait" /\ (ev.block => MioReady)
  /\ ev' = [ev EXCEPT !.socket = IF world.edge THEN world.io ELSE {}, !.wake = FALSE, !.left = EventsMax]
  /\ world' = [world EXCEPT !.edge = FALSE, !.now = world.clock]
  /\ ex' = [ex EXCEPT !.pc = "events"]
  /\ UNCHANGED <<reg, budget, bound, yields, dropped>>

\* An event for registration r: its readiness, and the waker if it became
\* ready.  A waker that has no interest in what became ready is dropped.
Notify(r, i) ==
  LET became == i \ reg[r].ready
      wi == reg[r].waker
  IN /\ reg' = [reg EXCEPT ![r].ready = @ \cup i,
                           ![r].waker = IF became = {} THEN @
                                        ELSE IF became \cap Interest(wi) = {} THEN NoWaker
                                        ELSE Remaining(wi, i)]
     /\ ex' = IF became \cap Interest(wi) = {} THEN ex ELSE WakeAll(ex, WokenBy(wi, i))
     /\ dropped' = IF became # {} /\ wi.k = "single" /\ became \cap wi.i = {}
                   THEN dropped \cup {wi.t} ELSE dropped

\* EventsIterator: the socket's event, then local sources, then sync ones.
ProcessEvents ==
  /\ ex.pc = "events"
  /\ \/ /\ ev.socket # {}
        /\ Notify("socket", ev.socket)
        /\ ev' = [ev EXCEPT !.socket = {}]
     \/ /\ ev.socket = {} /\ ev.left > 0 /\ ev.local # <<>>
        /\ IF Head(ev.local) = "token" THEN Notify("token", {"r"})
           ELSE ex' = Wake(ex, Head(ev.local), TRUE) /\ UNCHANGED <<reg, dropped>>
        /\ ev' = [ev EXCEPT !.local = Tail(@), !.left = @ - 1]
     \/ /\ ev.socket = {} /\ ev.left > 0 /\ ev.local = <<>> /\ ev.sync # <<>> /\ ~ev.localOnly
        /\ Notify(Head(ev.sync), {"r"})
        /\ ev' = [ev EXCEPT !.sync = Tail(@), !.left = @ - 1]
  /\ UNCHANGED <<world, budget, bound, yields>>

\* The timers, and back to the executor, which takes the woken tasks.
ProcessTimers ==
  /\ ex.pc = "events" /\ ev.socket = {}
  /\ ev.left = 0 \/ (ev.local = <<>> /\ (ev.sync = <<>> \/ ev.localOnly))
  /\ LET fires == world.wheel /\ world.expires <= world.now
         wi == reg["timer"].waker
         e1 == IF fires /\ wi # NoWaker THEN WakeAll(ex, WokenBy(wi, {"r"})) ELSE ex
     IN /\ world' = IF fires THEN [world EXCEPT !.wheel = FALSE] ELSE world
        /\ reg' = IF fires THEN [reg EXCEPT !["timer"] = [ready |-> {"r"}, waker |-> NoWaker]] ELSE reg
        /\ ex' = [e1 EXCEPT !.pc = "second", !.list = e1.next, !.next = <<>>]
  /\ UNCHANGED <<ev, budget, bound, yields, dropped>>

-----------------------------------------------------------------------------
(* The poll of the current task.                                           *)

\* pull_from_budget: without budget, the registration's waker is woken.
NoBudget(a, r) ==
  [a EXCEPT !.ex = WakeAll(@, WokenBy(a.reg[r].waker, Dirs)), !.reg[r].waker = NoWaker]

\* One future of the select.
PollFuture(a, f, t) ==
  LET r == RegOf[f]
      d == DirOf(f)
      armed == [a EXCEPT !.reg[r].waker = SetWaker(@, t, {d})]
      able == IF f = "recv" THEN world.q > 0 ELSE d \in world.io
  IN CASE f = "cancelled" -> IF a.reg[r].ready # {} THEN [a EXCEPT !.done = f] ELSE armed
       [] f = "elapsed" -> IF world.now >= world.expires THEN [a EXCEPT !.done = f] ELSE armed
       [] OTHER -> IF d \notin a.reg[r].ready THEN armed
                   ELSE IF a.budget = 0 THEN NoBudget(armed, r)
                   ELSE IF able THEN [armed EXCEPT !.budget = @ - 1, !.done = f]
                   ELSE [armed EXCEPT !.budget = @ - 1, !.reg[r].ready = @ \ {d}]

PollFutures(t) ==
  FoldLeft(LAMBDA a, f : IF a.done # None THEN a ELSE PollFuture(a, f, t),
           [ex |-> ex, reg |-> reg, budget |-> budget, done |-> None],
           SelectSeq(Order, LAMBDA f : f \in ex.task[t].on))

\* The futures are dropped: cancel() of a stream, clear_waker() otherwise.
DropFutures(rg, fs) ==
  [r \in Regs |->
     LET dirs == {DirOf(f) : f \in {g \in fs : RegOf[g] = r}}
     IN [rg[r] EXCEPT !.waker = IF dirs = {} THEN @ ELSE ClearInterest(@, dirs)]]

\* Some future is ready: the task goes on; the socket may have no more, and
\* the message is taken.
PollReady ==
  /\ ex.cur # None /\ ex.task[ex.cur].fut = "wait"
  /\ LET a == PollFutures(ex.cur)
     IN /\ a.done # None
        /\ ex' = [a.ex EXCEPT !.task[ex.cur].fut = "run", !.task[ex.cur].on = {}]
        /\ reg' = DropFutures(a.reg, ex.task[ex.cur].on)
        /\ budget' = a.budget
        /\ world' = CASE a.done \in {"read", "write"} -> [world EXCEPT !.io = @ \ {DirOf(a.done)}]
                      [] a.done = "recv" -> [world EXCEPT !.q = @ - 1]
                      [] OTHER -> world
  /\ UNCHANGED <<ev, bound, yields, dropped>>

PollPending ==
  /\ ex.cur # None /\ ex.task[ex.cur].fut = "wait"
  /\ LET a == PollFutures(ex.cur)
     IN /\ a.done = None
        /\ ex' = [a.ex EXCEPT !.cur = None]
        /\ reg' = a.reg
        /\ budget' = a.budget
  /\ UNCHANGED <<ev, world, bound, yields, dropped>>

Running(t) == ex.cur = t /\ ex.task[t].fut = "run"

\* It awaits futures; a timeout gets a new deadline first.
Await(t, fs) ==
  /\ Running(t)
  /\ ex' = [ex EXCEPT !.task[t].fut = "wait", !.task[t].on = fs]
  /\ IF "elapsed" \in fs
     THEN /\ world' = [world EXCEPT !.expires = world.now + 1, !.wheel = TRUE]
          /\ reg' = [reg EXCEPT !["timer"].ready = {}]
     ELSE UNCHANGED <<world, reg>>
  /\ UNCHANGED <<ev, budget, bound, yields, dropped>>

Step == bound.step < StepMax /\ bound' = [bound EXCEPT !.step = @ + 1]

\* yield_task.
YieldTask(t) ==
  /\ Running(t) /\ Step
  /\ ex' = [Wake(ex, t, FALSE) EXCEPT !.cur = None]
  /\ UNCHANGED <<reg, ev, world, budget, yields, dropped>>

\* The tasks that the local events queued so far are for.
LocalWaiters ==
  {u \in Tasks : \/ \E j \in DOMAIN ev.local : ev.local[j] = u
                 \/ /\ \E j \in DOMAIN ev.local : ev.local[j] = "token"
                    /\ ex.task[u].fut = "wait" /\ "cancelled" \in ex.task[u].on}

\* yield_to_local_events: wakes are ignored until its own local event.
YieldLocal(t) ==
  /\ Running(t) /\ Step
  /\ ex' = [IgnoreWakes(ex, t) EXCEPT !.task[t].fut = "local", !.cur = None]
  /\ ev' = LocalReady(ev, t)
  /\ yields' = [yields EXCEPT ![t] = LocalWaiters \ {t}]
  /\ UNCHANGED <<reg, world, budget, dropped>>

\* Its registration is ready when it is polled again.
YieldDone(t) ==
  /\ ex.cur = t /\ ex.task[t].fut = "local"
  /\ ex' = [ex EXCEPT !.task[t].fut = "run"]
  /\ UNCHANGED <<reg, ev, world, budget, bound, yields, dropped>>

\* A CancellationSender is dropped.
Cancel(t) ==
  /\ Running(t) /\ Step /\ ~world.cancelled
  /\ world' = [world EXCEPT !.cancelled = TRUE]
  /\ ev' = LocalReady(ev, "token")
  /\ UNCHANGED <<ex, reg, budget, yields, dropped>>

\* The task is done: Tasks::remove.
Finish(t) ==
  /\ Running(t) /\ Step
  /\ ex' = [ex EXCEPT !.task[t].live = FALSE, !.task[t].fut = "done", !.cur = None,
                      !.next = SelectSeq(@, LAMBDA u : u # t), !.low = SelectSeq(@, LAMBDA u : u # t)]
  /\ UNCHANGED <<reg, ev, world, budget, yields, dropped>>

PollTask ==
  \/ PollReady \/ PollPending
  \/ \E t \in Tasks : \/ YieldTask(t) \/ YieldLocal(t) \/ YieldDone(t) \/ Cancel(t) \/ Finish(t)
                      \/ \E fs \in Waits[t] : Await(t, fs)

-----------------------------------------------------------------------------
(* What happens outside the thread.                                        *)

\* The socket becomes readable or writable; the kernel reports an edge.
SocketReady(d) ==
  /\ bound.socket < SocketMax /\ d \notin world.io
  /\ world' = [world EXCEPT !.io = @ \cup {d}, !.edge = TRUE]
  /\ bound' = [bound EXCEPT !.socket = @ + 1]
  /\ UNCHANGED <<ex, reg, ev, budget, yields, dropped>>

\* Sender::try_send of another thread: the message, then the readiness.
Send ==
  /\ world.sender = "idle" /\ bound.send < SendMax
  /\ world' = [world EXCEPT !.q = @ + 1, !.sender = "sent"]
  /\ bound' = [bound EXCEPT !.send = @ + 1]
  /\ UNCHANGED <<ex, reg, ev, budget, yields, dropped>>

SendReadiness ==
  /\ world.sender = "sent"
  /\ world' = [world EXCEPT !.sender = "idle"]
  /\ ev' = SyncReady(ev, "chan")
  /\ UNCHANGED <<ex, reg, budget, bound, yields, dropped>>

Tick ==
  /\ world.clock < TimeMax
  /\ world' = [world EXCEPT !.clock = @ + 1]
  /\ UNCHANGED <<ex, reg, ev, budget, bound, yields, dropped>>

Outside == (\E d \in Dirs : SocketReady(d)) \/ Send \/ SendReadiness \/ Tick

-----------------------------------------------------------------------------

Reactor == PollerPoll \/ MioPoll \/ ProcessEvents \/ ProcessTimers

Next == TakeTask \/ RunLoop \/ Reactor \/ PollTask \/ Outside

Spec == Init /\ [][Next]_vars

-----------------------------------------------------------------------------
(* Properties.                                                             *)

\* The thread sleeps: nothing that has happened so far will end its wait.
Asleep == ex.pc = "wait" /\ ev.block /\ ~MioReady

\* What future f waits for has happened.
Happened(f) ==
  CASE f = "recv" -> world.q > 0 /\ world.sender = "idle"
    [] f = "cancelled" -> world.cancelled
    [] f = "elapsed" -> world.expires <= world.clock
    [] OTHER -> DirOf(f) \in world.io

\* The one way the reactor loses a wakeup: the waker of a task that awaits one
\* direction of the socket alone is taken by readiness in the other one.
LosesWaker(t, f) ==
  /\ t \in dropped /\ f \in {"read", "write"}
  /\ ~({"read", "write"} \subseteq ex.task[t].on)

\* No wakeup is lost in any other way: the thread never sleeps while a future of
\* one of its tasks could make progress.
NoLostWakeup ==
  Asleep => \A t \in Tasks : ex.task[t].fut = "wait" =>
              \A f \in ex.task[t].on : Happened(f) => LosesWaker(t, f)

\* A task that has yielded, of its own accord or to local events, is always
\* resumed: the thread never sleeps on it.
YieldsResume == Asleep => \A t \in Tasks : ex.task[t].fut \in {"wait", "done"}

\* A task is in one run queue at most, and once.
QueuedOnce ==
  LET all == ex.next \o ex.low \o ex.list
  IN \A i, j \in DOMAIN all : all[i] = all[j] => i = j

\* yield_to_local_events completes only after the tasks of all local events
\* queued before it have been polled.
LocalEventsFirst == \A t \in Tasks : (ex.cur = t /\ ex.task[t].fut = "local") => yields[t] = {}
=============================================================================
