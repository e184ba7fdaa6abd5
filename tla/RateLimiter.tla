----------------------------- MODULE RateLimiter -----------------------------
(***************************************************************************)
(* The rate limiter of publishes, updates and filter requests              *)
(* (src/handler/ratelimiter.cpp), with the timer it runs on                *)
(* (src/core/timer.cpp).                                                   *)
(*                                                                         *)
(* Actions wait in one bucket per key.  Every firing of the timer is a     *)
(* pass over the buckets, round robin, of at most batchSize actions by     *)
(* weight; a heavier action leaves its bucket in debt.  A round of the     *)
(* loop of processBatch() is a step, and nothing else runs between rounds. *)
(***************************************************************************)
EXTENDS Integers, Sequences, FiniteSetsExt

CONSTANTS
    Keys,          \* bucket keys, numbers for their order in the map
    Rate,          \* actions per second, 0 or less for no limit
    Hwm,           \* high water mark of a bucket's weight, 0 or less for none
    BatchWait,     \* batchWaitEnabled
    Weights,       \* weights of actions
    AddMax,        \* bound on the number of actions added
    None

MIN_BATCH_INTERVAL == 25

ASSUME RateLimiterAssumption ==
    /\ Keys \subseteq Nat /\ IsFiniteSet(Keys) /\ None \notin Keys
    /\ Rate \in Int /\ Hwm \in Int
    /\ BatchWait \in BOOLEAN
    /\ Weights \subseteq Nat /\ IsFiniteSet(Weights)
    /\ AddMax \in Nat

ASSUME NoneAssumption == None \notin [at : Keys \cup {None}, processed : Nat, executed : Nat]

\* setRate(): how often a pass comes, in milliseconds, and how much it may do;
\* -1 for no limit.
BatchInterval ==
    CASE Rate <= 0 -> -1
      [] Rate >= 1000 \div MIN_BATCH_INTERVAL -> MIN_BATCH_INTERVAL
      [] OTHER -> 1000 \div Rate

BatchSize ==
    CASE Rate <= 0 -> -1
      [] Rate >= 1000 \div MIN_BATCH_INTERVAL -> (Rate * BatchInterval + 999) \div 1000
      [] OTHER -> 1

VARIABLES
    buckets,       \* by key: actions waiting, as weights; their weight; debt
    lastKey,       \* where the next pass begins
    timer,         \* the timer, with firstPass and lastBatchEmpty
    batch,         \* the pass that is running: iterator and processed
    added,         \* how many actions have been added
    lead,          \* what has been executed above batchSize per pass
    since,         \* milliseconds since the last pass began
    empty          \* whether an action was taken from an empty bucket

vars == <<buckets, lastKey, timer, batch, added, lead, since, empty>>

-----------------------------------------------------------------------------
(* Timer                                                                   *)

TimerStart(t, msec) == [t EXCEPT !.active = TRUE, !.interval = msec, !.due = msec]

\* setInterval() counts from the next start on.
TimerSetInterval(t, msec) == [t EXCEPT !.interval = msec]

TimerStop(t) == [t EXCEPT !.active = FALSE, !.due = 0]

\* timerReady(): a repeating timer starts again before it signals.
TimerReady(t) == TimerStart(t, t.interval)

-----------------------------------------------------------------------------
(* Setting the timer up                                                    *)

SetupLimited(b, t) ==
    IF DOMAIN b # {} \/ ~t.lastBatchEmpty
    THEN CASE t.active /\ t.firstPass -> t
           [] t.active /\ ~t.firstPass -> TimerSetInterval(t, BatchInterval)
           [] OTHER -> TimerStart([t EXCEPT !.firstPass = TRUE],
                                  IF BatchWait THEN BatchInterval ELSE 0)
    ELSE TimerStop([t EXCEPT !.lastBatchEmpty = FALSE])

SetupUnlimited(b, t) ==
    CASE DOMAIN b = {} -> TimerStop(t)
      [] DOMAIN b # {} /\ t.active -> TimerSetInterval(t, 0)
      [] OTHER -> TimerStart([t EXCEPT !.firstPass = TRUE], 0)

Setup(b, t) == IF Rate > 0 THEN SetupLimited(b, t) ELSE SetupUnlimited(b, t)

NewTimer == [active |-> FALSE, interval |-> 0, due |-> 0,
             firstPass |-> FALSE, lastBatchEmpty |-> FALSE]

NoBuckets == [k \in {} |-> None]

\* The engine's start(): setRate(), with no bucket yet.  Batch wait is enabled
\* after it, so that the timer is started at once whatever BatchWait is.
Init ==
    /\ buckets = NoBuckets
    /\ lastKey = None
    /\ timer = IF Rate > 0 THEN TimerStart([NewTimer EXCEPT !.firstPass = TRUE], 0)
                           ELSE NewTimer
    /\ batch = None
    /\ added = 0 /\ lead = 0 /\ since = 0 /\ empty = FALSE

-----------------------------------------------------------------------------
(* Adding actions                                                          *)

Bucket(k) == IF k \in DOMAIN buckets THEN buckets[k]
             ELSE [actions |-> <<>>, weight |-> 0, debt |-> 0]

\* buckets with k's bucket being b.
WithBucket(k, b) == [j \in DOMAIN buckets \cup {k} |-> IF j = k THEN b ELSE buckets[j]]

Exceeds(k, w) == Hwm > 0 /\ Bucket(k).weight + w > Hwm

\* Mutant: the timer is not set up.
MutAddAction(k, w) ==
    /\ batch = None
    /\ added < AddMax
    /\ added' = added + 1
    /\ buckets' = WithBucket(k, [Bucket(k) EXCEPT !.actions = Append(@, w), !.weight = @ + w])
    /\ UNCHANGED <<lastKey, timer, batch, lead, since, empty>>

\* addAction(): looking the bucket up makes it, even for an action that is
\* then refused.
AddAction(k, w) ==
    /\ batch = None
    /\ added < AddMax
    /\ added' = added + 1
    /\ IF Exceeds(k, w)
       THEN /\ buckets' = WithBucket(k, Bucket(k))
            /\ UNCHANGED timer
       ELSE /\ buckets' = WithBucket(k, [Bucket(k) EXCEPT !.actions = Append(@, w),
                                                          !.weight = @ + w])
            /\ timer' = Setup(buckets', timer)
    /\ UNCHANGED <<lastKey, batch, lead, since, empty>>

-----------------------------------------------------------------------------
(* Passes                                                                  *)

First(b) == IF DOMAIN b = {} THEN None ELSE Min(DOMAIN b)

\* The key after k in the map, None at its end.
After(b, k) ==
    LET later == {j \in DOMAIN b : j > k} IN IF later = {} THEN None ELSE Min(later)

\* The end of timeout(), after processBatch().
PassDone(b, t) == Setup(b, [t EXCEPT !.firstPass = FALSE])

\* The timer fires and a pass begins, at the last key if it still has a bucket.
Timeout ==
    /\ batch = None
    /\ timer.active /\ timer.due = 0
    /\ IF DOMAIN buckets = {}
       THEN /\ timer' = PassDone(buckets, [TimerReady(timer) EXCEPT !.lastBatchEmpty = TRUE])
            /\ batch' = None
       ELSE /\ timer' = [TimerReady(timer) EXCEPT !.lastBatchEmpty = FALSE]
            /\ batch' = [at |-> IF lastKey \in DOMAIN buckets THEN lastKey ELSE First(buckets),
                         processed |-> 0, executed |-> 0]
    /\ since' = 0
    /\ UNCHANGED <<buckets, lastKey, added, lead, empty>>

Running == batch # None /\ (BatchSize < 1 \/ batch.processed < BatchSize) /\ batch.at # None

\* Mutant: a bucket goes with its debt.
MutMoveOnForgives(k, b, processed, executed) ==
    LET with == WithBucket(k, b)
        gone == b.actions = <<>>
        left == [j \in DOMAIN with \ {k} |-> with[j]]
        next == After(with, k)
    IN  /\ buckets' = IF gone THEN left ELSE with
        /\ lastKey' = IF gone THEN k ELSE lastKey
        /\ batch' = [at |-> IF next = None /\ ~gone THEN First(with) ELSE next,
                     processed |-> processed, executed |-> executed]

\* After a round at key k, whose bucket is now b: an idle bucket goes, and the
\* iterator moves on, from the last key to the first unless a bucket went.
MoveOn(k, b, processed, executed) ==
    LET with == WithBucket(k, b)
        gone == b.actions = <<>> /\ b.debt <= 0
        left == [j \in DOMAIN with \ {k} |-> with[j]]
        next == After(with, k)
    IN  /\ buckets' = IF gone THEN left ELSE with
        /\ lastKey' = IF gone THEN k ELSE lastKey
        /\ batch' = [at |-> IF next = None /\ ~gone THEN First(with) ELSE next,
                     processed |-> processed, executed |-> executed]

\* A round for a bucket without debt: its first action is executed, which
\* counts if there was anything to do (the session is still there).  Taking
\* the first action of an empty bucket is undefined; here it takes none.
Execute ==
    /\ Running
    /\ buckets[batch.at].debt <= 0
    /\ LET k == batch.at
           b == buckets[k]
           w == Head(b.actions)
           cost == IF w > 1 THEN w ELSE 1
           taken == [b EXCEPT !.actions = Tail(@), !.weight = @ - w]
           total == batch.processed + cost
           over == IF BatchSize >= 1 /\ total > BatchSize THEN total - BatchSize ELSE 0
       IN  IF b.actions = <<>>
           THEN /\ empty' = TRUE
                /\ MoveOn(k, b, batch.processed, batch.executed)
           ELSE /\ UNCHANGED empty
                /\ \/ MoveOn(k, [taken EXCEPT !.debt = @ + over], total, batch.executed + cost)
                   \/ MoveOn(k, taken, batch.processed, batch.executed)
    /\ UNCHANGED <<timer, added, lead, since>>

\* A round for a bucket in debt.
PayDebt ==
    /\ Running
    /\ buckets[batch.at].debt > 0
    /\ LET b == buckets[batch.at]
       IN  MoveOn(batch.at, [b EXCEPT !.debt = @ - 1], batch.processed + 1, batch.executed)
    /\ UNCHANGED <<timer, added, lead, since, empty>>

EndPass ==
    /\ batch # None
    /\ ~Running
    /\ lastKey' = IF batch.at # None THEN batch.at ELSE lastKey
    /\ timer' = PassDone(buckets, timer)
    /\ lead' = IF BatchSize < 1 THEN 0
               ELSE LET n == lead + batch.executed - BatchSize IN IF n > 0 THEN n ELSE 0
    /\ batch' = None
    /\ UNCHANGED <<buckets, added, since, empty>>

\* Time passes until the timer is due.
Tick ==
    /\ batch = None
    /\ timer.active /\ timer.due > 0
    /\ since' = IF since + timer.due > BatchInterval THEN BatchInterval ELSE since + timer.due
    /\ timer' = [timer EXCEPT !.due = 0]
    /\ UNCHANGED <<buckets, lastKey, batch, added, lead, empty>>

Next ==
    \/ \E k \in Keys, w \in Weights : AddAction(k, w)
    \/ Timeout
    \/ Execute
    \/ PayDebt
    \/ EndPass
    \/ Tick

Spec == Init /\ [][Next]_vars

\* The event loop fires timers that are due, and a pass runs to its end.
FairSpec == Spec /\ WF_vars(Timeout \/ Execute \/ PayDebt \/ EndPass \/ Tick)

-----------------------------------------------------------------------------
(* Properties                                                              *)

Buckets == [actions : Seq(Weights), weight : Int, debt : Nat]

\* Types of all the state.
TypeOK ==
    /\ DOMAIN buckets \subseteq Keys
    /\ \A k \in DOMAIN buckets : buckets[k] \in Buckets
    /\ lastKey \in Keys \cup {None}
    /\ timer \in [active : BOOLEAN, interval : Nat, due : Nat,
                  firstPass : BOOLEAN, lastBatchEmpty : BOOLEAN]
    /\ batch # None => batch \in [at : Keys \cup {None}, processed : Nat, executed : Nat]
    /\ added \in 0..AddMax
    /\ lead \in Nat /\ since \in Int /\ empty \in BOOLEAN

\* Work is never forgotten: whenever an action waits and no pass is running,
\* the timer is active.
WorkHasTimer ==
    batch = None /\ (\E k \in DOMAIN buckets : buckets[k].actions # <<>>) => timer.active

\* Every bucket has an action or debt, so that a pass always has something to
\* take from the bucket it is at; and a pass is at a bucket that exists.
BucketsHaveWork ==
    /\ \A k \in DOMAIN buckets : buckets[k].actions # <<>> \/ buckets[k].debt > 0
    /\ batch # None => batch.at \in DOMAIN buckets \cup {None}

Sum(d) == MapThenSumSet(LAMBDA k : d[k], Keys)

\* What the buckets owe; a key without a bucket owes nothing.
Debts == [k \in Keys |-> Bucket(k).debt]

\* Whatever the weights, batchSize per pass is kept in the long run: what has
\* been executed above it is owed by the buckets as debt.
RateIsKept == Rate > 0 /\ batch = None => lead <= Sum(Debts)

\* "After the first pass, switch to batch interval": a pass that is not the
\* first since the timer was started comes a batch interval after the one
\* before. It does not hold: the new interval takes effect one
\* pass late, since the repeating timer has been restarted by then.
PassesAreSpaced ==
    [][Timeout /\ ~timer.firstPass => since >= BatchInterval]_vars

\* No action is ever taken from a bucket that has none.
NothingTakenFromEmpty == ~empty

\* Every action that was added is executed in the end, if no more are added.
WorkGetsDone ==
    \A k \in Keys : (k \in DOMAIN buckets) ~> (k \notin DOMAIN buckets)
=============================================================================
