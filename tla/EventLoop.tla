------------------------------ MODULE EventLoop ------------------------------
(***************************************************************************)
(* The callback event loop of src/core/eventloop.rs, which the C++ side    *)
(* runs on.  Registrations live in a slab; the waker a registration leaves *)
(* with the reactor knows only the slot (Activator.reg_id).  Callbacks run *)
(* with the slab unlocked and may register, deregister themselves or       *)
(* others, and reuse slots, while their own callback is out of its slot.   *)
(*                                                                         *)
(* mode is how the loop is driven: exec() polls the reactor itself, the    *)
(* Exec future relies on the task's waker.                                 *)
(***************************************************************************)
EXTENDS Naturals, Sequences, SequencesExt, FiniteSets

CONSTANTS Slots,       \* keys of the slab
          RegMax       \* bound on the registrations made

VARIABLES
    mode,        \* "exec" or "async"
    reg,         \* registration in each slot, 0 when vacant
    kind,        \* "fd", "timer" or "custom", of each registration
    callback,    \* whose callback each slot holds, 0 when it is taken out
    activated,   \* the list of activated slots
    flag,        \* Registration.activated of each slot
    ready,       \* registrations whose readiness the reactor has to deliver
    pc,          \* "out", "dispatch" or "call"
    running,     \* [reg, slot]: the callback that runs and the slot to put it back in
    calls,       \* registrations delivered whose callback has not yet run
    exit_code,   \* exit() was called
    waker,       \* Registrations.waker is set
    task,        \* the Exec task: "run" (woken), "parked" or "done"
    made         \* registrations made so far

vars == <<mode, reg, kind, callback, activated, flag, ready, pc, running, calls,
          exit_code, waker, task, made>>
Regs == 1..RegMax
control == <<mode, pc, running, exit_code>>

TypeOK ==
    /\ mode \in {"exec", "async"}
    /\ reg \in [Slots -> 0..RegMax] /\ callback \in [Slots -> 0..RegMax]
    /\ kind \in [Regs -> {"fd", "timer", "custom"}]
    /\ activated \in Seq(Slots) /\ flag \in [Slots -> BOOLEAN]
    /\ ready \subseteq Regs /\ calls \subseteq Regs
    /\ pc \in {"out", "dispatch", "call"}
    /\ running \in [reg : 0..RegMax, slot : Slots \cup {0}]
    /\ exit_code \in BOOLEAN /\ waker \in BOOLEAN
    /\ task \in {"run", "parked", "done"} /\ made \in 0..RegMax

Init ==
    /\ mode \in {"exec", "async"}
    /\ reg = [s \in Slots |-> 0] /\ callback = [s \in Slots |-> 0]
    /\ kind \in [Regs -> {"fd", "timer", "custom"}]
    /\ activated = <<>> /\ flag = [s \in Slots |-> FALSE]
    /\ ready = {} /\ calls = {}
    /\ pc = "out" /\ running = [reg |-> 0, slot |-> 0]
    /\ exit_code = FALSE /\ waker = FALSE /\ task = "run" /\ made = 0

Registered == {reg[s] : s \in Slots} \ {0}

\* Registrations::add: a vacant slot takes the registration r.
add(s, r) ==
    /\ reg[s] = 0
    /\ reg' = [reg EXCEPT ![s] = r]
    /\ callback' = [callback EXCEPT ![s] = r]
    /\ flag' = [flag EXCEPT ![s] = FALSE]

\* register_fd, register_timer and register_custom, from a callback or before
\* the loop runs.
register(s) ==
    /\ pc \in {"out", "call"} /\ task # "done"
    /\ made < RegMax
    /\ made' = made + 1
    /\ add(s, made + 1)
    /\ UNCHANGED <<control, kind, activated, ready, calls, waker, task>>

\* Registrations::remove; dropping the evented takes it from the reactor, and
\* with it what the reactor would still have delivered.
deregister(s) ==
    /\ pc \in {"out", "call"} /\ task # "done"
    /\ reg[s] # 0
    /\ activated' = RemoveFirst(activated, s)
    /\ reg' = [reg EXCEPT ![s] = 0]
    /\ callback' = [callback EXCEPT ![s] = 0]
    /\ ready' = ready \ {reg[s]} /\ calls' = calls \ {reg[s]}
    /\ UNCHANGED <<control, kind, flag, waker, task, made>>

\* A descriptor, timer or SetReadiness becomes ready.
BecomeReady(r) ==
    /\ r \in Registered /\ r \notin ready /\ task # "done"
    /\ kind[r] = "timer" => r \notin calls
    /\ ready' = ready \cup {r}
    /\ UNCHANGED <<control, reg, kind, callback, activated, flag, calls, waker, task, made>>

\* The reactor wakes the registration's persistent waker: Activator::wake and
\* Registrations::activate.
activate(s) ==
    /\ pc = "out" /\ reg[s] \in ready
    /\ ready' = ready \ {reg[s]}
    /\ calls' = calls \cup {reg[s]}
    /\ IF flag[s] THEN UNCHANGED <<activated, flag, waker, task>>
       ELSE /\ flag' = [flag EXCEPT ![s] = TRUE]
            /\ activated' = Append(activated, s)
            /\ waker' = FALSE
            /\ task' = IF waker THEN "run" ELSE task
    /\ UNCHANGED <<control, reg, kind, callback, made>>

\* exec() returns from the reactor's poll, or the task of Exec is polled.
BeginDispatch ==
    /\ pc = "out" /\ task # "done"
    /\ mode = "async" => task = "run"
    /\ pc' = "dispatch"
    /\ UNCHANGED <<mode, reg, kind, callback, activated, flag, ready, running, calls,
                   exit_code, waker, task, made>>

\* dispatch_activated up to the call: the callback is taken out of the slot,
\* a timer's registration is removed, another's flag and readiness cleared.
Dispatch ==
    /\ pc = "dispatch" /\ activated # <<>>
    /\ LET s == Head(activated) IN
       /\ activated' = Tail(activated)
       /\ pc' = "call"
       /\ calls' = calls \ {callback[s]}
       /\ callback' = [callback EXCEPT ![s] = 0]
       /\ running' = [reg |-> callback[s],
                      slot |-> IF kind[reg[s]] = "timer" THEN 0 ELSE s]
       /\ IF kind[reg[s]] = "timer"
          THEN reg' = [reg EXCEPT ![s] = 0] /\ UNCHANGED flag
          ELSE flag' = [flag EXCEPT ![s] = FALSE] /\ UNCHANGED reg
       /\ ready' = ready \ {r \in Regs : kind[r] = "timer" /\ r = reg[s]}
    /\ UNCHANGED <<mode, kind, exit_code, waker, task, made>>

\* The callback returns: it is put back if its registration is still there
\* and not another one in its slot.
Return ==
    /\ pc = "call"
    /\ pc' = "dispatch"
    /\ LET s == running.slot IN
       callback' = IF s # 0 /\ reg[s] # 0 /\ callback[s] = 0
                   THEN [callback EXCEPT ![s] = running.reg] ELSE callback
    /\ running' = [reg |-> 0, slot |-> 0]
    /\ UNCHANGED <<mode, reg, kind, activated, flag, ready, calls, exit_code, waker, task, made>>

exit ==
    /\ pc \in {"out", "call"} /\ ~exit_code
    /\ exit_code' = TRUE
    /\ UNCHANGED <<mode, reg, kind, callback, activated, flag, ready, pc, running, calls,
                   waker, task, made>>

\* The end of poll_and_dispatch and of Exec::poll.
EndDispatch ==
    /\ pc = "dispatch" /\ activated = <<>>
    /\ pc' = "out"
    /\ task' = IF exit_code THEN "done" ELSE IF mode = "async" THEN "parked" ELSE task
    /\ waker' = (waker \/ (mode = "async" /\ ~exit_code))
    /\ UNCHANGED <<mode, reg, kind, callback, activated, flag, ready, running, calls, exit_code, made>>

Next ==
    \/ \E s \in Slots : register(s) \/ deregister(s) \/ activate(s)
    \/ \E r \in Regs : BecomeReady(r)
    \/ BeginDispatch \/ Dispatch \/ Return \/ exit \/ EndDispatch

Spec == Init /\ [][Next]_vars

-----------------------------------------------------------------------------
(* Properties                                                              *)

\* A slot holds the callback of the registration in it, or none while that
\* very callback runs: events never reach the callback of an earlier tenant
\* of the slot, and the expect() in dispatch_activated holds.
CallbackIsOwn ==
    /\ \A s \in Slots : callback[s] = reg[s]
                        \/ (callback[s] = 0 /\ pc = "call" /\ running = [reg |-> reg[s], slot |-> s])
    /\ \A i \in DOMAIN activated : reg[activated[i]] # 0

\* Every readiness delivered leads to a call: the slot is in the list, once,
\* and the loop will run, or is running, to serve it.
NoCallLost ==
    /\ \A s \in Slots : reg[s] \in calls =>
          Cardinality({i \in DOMAIN activated : activated[i] = s}) = 1
    /\ (activated # <<>> /\ pc = "out" /\ mode = "async") => task \in {"run", "done"}

\* The event loop as a whole.
SignalsKept == CallbackIsOwn /\ NoCallLost
=============================================================================
