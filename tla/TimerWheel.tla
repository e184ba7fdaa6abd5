------------------------------ MODULE TimerWheel ------------------------------
(***************************************************************************)
(* The hierarchical timer wheel of src/core/timer.rs.  A timer lies in one *)
(* slot of one wheel, chosen by how far away it is (the wheel) and by when *)
(* it expires (the slot), or in the list of expired timers.  update() moves *)
(* the timers out of the slots the time has passed and schedules them anew, *)
(* possibly in a lower wheel.  Slots hold sets of timers, and the bit masks *)
(* of the code are sets of slots.                                          *)
(***************************************************************************)
EXTENDS Integers, FiniteSets

CONSTANTS WHEEL_BITS, WHEEL_NUM,
          Keys,        \* keys of the slab
          TimeMax      \* bound on the times

WHEEL_LEN == 2 ^ WHEEL_BITS
WHEEL_MAX == WHEEL_LEN - 1
TIMEOUT_MAX == 2 ^ (WHEEL_BITS * WHEEL_NUM) - 1
Wheels == 0..(WHEEL_NUM - 1)
Slots == 0..WHEEL_MAX

VARIABLES
    curtime,
    expires,   \* expiry of each timer added, -1 for a free key
    place,     \* [timer -> <<wheel, slot>>], <<>> for the expired list
    pending    \* [wheel -> set of slots]

vars == <<curtime, expires, place, pending>>

Timers == {k \in Keys : expires[k] # -1}
In(w, s) == {k \in Timers : place[k] = <<w, s>>}
Expired == {k \in Timers : place[k] = <<>>}

TypeOK ==
    /\ curtime \in 0..TimeMax
    /\ expires \in [Keys -> -1..TimeMax]
    /\ place \in [Keys -> {<<>>} \cup (Wheels \X Slots)]
    /\ pending \in [Wheels -> SUBSET Slots]

Init ==
    /\ curtime = 0
    /\ expires = [k \in Keys |-> -1]
    /\ place = [k \in Keys |-> <<>>]
    /\ pending = [w \in Wheels |-> {}]

\* t >> (wheel * WHEEL_BITS)
Shifted(t, w) == t \div (WHEEL_LEN ^ w)

Least(S) == CHOOSE x \in S : \A y \in S : x <= y
MinOf(a, b) == IF a < b THEN a ELSE b
MaxOf(a, b) == IF a > b THEN a ELSE b

\* ((1 << d) - 1).rotate_left(from)
Ones(d, from) == {(from + i) % WHEEL_LEN : i \in 0..(d - 1)}

\* The mask of one wheel in need_resched, given what has elapsed.
NeedSlots(cur, new, elapsed, w) ==
    LET old == Shifted(cur, w) % WHEEL_LEN
        nxt == Shifted(new, w) % WHEEL_LEN
        d == IF nxt > old THEN nxt - old ELSE WHEEL_LEN - old + nxt
    IN IF Shifted(elapsed, w) > WHEEL_MAX \/ d >= WHEEL_LEN THEN Slots
       ELSE Ones(d, IF w > 0 THEN old ELSE old + 1)

FinishedSlot(w) == IF w > 0 THEN WHEEL_MAX ELSE 0

\* need_resched: the wheels are looked at until one has not turned over; each
\* that has makes the next one's elapsed time at least one of its slots.
need_resched(cur, new) ==
    LET elapsed[w \in Wheels] ==
            IF w = 0 THEN new - cur
            ELSE MaxOf(elapsed[w - 1], WHEEL_LEN ^ w)
        turned[w \in Wheels] ==
            \/ w = 0
            \/ /\ turned[w - 1]
               /\ FinishedSlot(w - 1) \in NeedSlots(cur, new, elapsed[w - 1], w - 1)
    IN [w \in Wheels |->
          IF turned[w] THEN NeedSlots(cur, new, elapsed[w], w) ELSE {}]

\* Mutant: the higher wheels are not scheduled one slot early.
sched_late(exp, now) ==
    IF exp <= now THEN <<>>
    ELSE LET t == MinOf(exp - now, TIMEOUT_MAX)
             w == CHOOSE x \in Wheels : Shifted(t, x) \in 1..WHEEL_MAX
         IN <<w, Shifted(exp, w) % WHEEL_LEN>>

\* sched: where a timer goes at time now.
sched(exp, now) ==
    IF exp <= now THEN <<>>
    ELSE LET t == MinOf(exp - now, TIMEOUT_MAX)
             w == CHOOSE x \in Wheels : Shifted(t, x) \in 1..WHEEL_MAX
         IN <<w, (Shifted(exp, w) - (IF w > 0 THEN 1 ELSE 0)) % WHEEL_LEN>>

\* The slots marked once the timers at these places are in.
Marked(marks, places) == [w \in Wheels |-> marks[w] \cup {p[2] : p \in {q \in places \ {<<>>} : q[1] = w}}]

add(k, exp) ==
    /\ expires[k] = -1
    /\ expires' = [expires EXCEPT ![k] = exp]
    /\ place' = [place EXCEPT ![k] = sched(exp, curtime)]
    /\ pending' = Marked(pending, {place'[k]})
    /\ UNCHANGED curtime

remove(k) ==
    /\ k \in Timers
    /\ expires' = [expires EXCEPT ![k] = -1]
    /\ place' = [place EXCEPT ![k] = <<>>]
    /\ pending' = IF place[k] # <<>> /\ In(place[k][1], place[k][2]) = {k}
                  THEN [pending EXCEPT ![place[k][1]] = @ \ {place[k][2]}]
                  ELSE pending
    /\ UNCHANGED curtime

\* timeout: 0 with expired timers, else the nearest of the wheels' nearest
\* marked slots, -1 without any.
timeout ==
    IF Expired # {} THEN 0
    ELSE LET marked == {w \in Wheels : pending[w] # {}}
             T(w) == LET slot == Shifted(curtime, w) % WHEEL_LEN
                         ahead == Least({(s - slot) % WHEEL_LEN : s \in pending[w]})
                     IN (ahead + (IF w > 0 THEN 1 ELSE 0)) * WHEEL_LEN ^ w
                          - (curtime % (WHEEL_LEN ^ w))
         IN IF marked = {} THEN -1 ELSE Least({T(w) : w \in marked})

update(now) ==
    /\ now > curtime
    /\ curtime' = now
    /\ LET need == need_resched(curtime, now)
           out == {k \in Timers \ Expired : place[k][2] \in need[place[k][1]]}
       IN /\ place' = [k \in Keys |-> IF k \in out THEN sched(expires[k], now) ELSE place[k]]
          /\ pending' = Marked([w \in Wheels |-> pending[w] \ need[w]],
                               {place'[k] : k \in out})
    /\ UNCHANGED expires

take_expired(k) ==
    /\ k \in Expired
    /\ expires' = [expires EXCEPT ![k] = -1]
    /\ UNCHANGED <<curtime, place, pending>>

Next ==
    \/ \E k \in Keys, exp \in 0..TimeMax : add(k, exp)
    \/ \E k \in Keys : remove(k)
    \/ \E k \in Keys : take_expired(k)
    \/ \E now \in 0..TimeMax : update(now)

Spec == Init /\ [][Next]_vars

-----------------------------------------------------------------------------
(* Properties                                                              *)

\* After every update the expired list holds exactly the timers whose time
\* has come: none is late because its slot was not visited, none early.
ExpiresOnTime == \A k \in Timers : k \in Expired <=> expires[k] <= curtime

\* The reactor may sleep for timeout(): it never passes the first expiry,
\* does not spin (it is 0 only with expired timers) and is there whenever a
\* timer is.
TimeoutSound ==
    /\ timeout = -1 <=> Timers = {}
    /\ timeout = 0 <=> Expired # {}
    /\ \A k \in Timers \ Expired : curtime + timeout <= expires[k]
=============================================================================
