---------------------------- MODULE UpdateManager ----------------------------
(***************************************************************************)
(* The next link timeouts of stream sessions                               *)
(* (src/handler/httpsessionupdatemanager.cpp).  Sessions with the same     *)
(* timeout and the same next link, its query aside, share a bucket and its *)
(* timer; a session with activity is deferred: it stays when its bucket's  *)
(* timer fires, while the others are polled.                               *)
(***************************************************************************)
EXTENDS Integers

CONSTANTS
    Sessions,
    Keys,              \* pairs of a timeout and a link
    TimeoutOf,         \* the timeout of each key, in ticks
    None

ASSUME UpdateManagerAssumption == TimeoutOf \in [Keys -> Nat]

VARIABLES
    buckets,           \* by key: sessions, deferred sessions, time to timeout
    bucketsBySession,  \* the key of each registered session's bucket
    polled,            \* sessions whose update() the last step called
    quiet,             \* ticks since a session registered or was deferred
    deferredAgain      \* sessions whose last call deferred them

vars == <<buckets, bucketsBySession, polled, quiet, deferredAgain>>

Registered == DOMAIN bucketsBySession

Init ==
    /\ buckets = [k \in {} |-> None]
    /\ bucketsBySession = [hs \in {} |-> None]
    /\ polled = {}
    /\ quiet = [hs \in Sessions |-> 0]
    /\ deferredAgain = {}

-----------------------------------------------------------------------------
\* The function f without the elements S of its domain, and with x at y.
Without(f, S) == [x \in DOMAIN f \ S |-> f[x]]
With(f, x, y) == [z \in DOMAIN f \cup {x} |-> IF z = x THEN y ELSE f[z]]

\* unregisterSession(): the buckets without session hs; an empty one goes.
Unregistered(hs) ==
    IF hs \notin Registered THEN buckets ELSE
    LET k == bucketsBySession[hs]
        b == buckets[k]
    IN  IF b.sessions = {hs}
        THEN Without(buckets, {k})
        ELSE [buckets EXCEPT ![k] = [b EXCEPT !.sessions = @ \ {hs}, !.deferred = @ \ {hs}]]

\* A new bucket for session hs, and one that it joins.
NewBucket(hs, k) == [sessions |-> {hs}, deferred |-> {}, due |-> TimeoutOf[k]]
Joined(b, hs) == [b EXCEPT !.sessions = @ \cup {hs}]

InBucket(hs, k) == k \in DOMAIN buckets /\ hs \in buckets[k].sessions

\* registerSession() of a session that is not in the bucket of key k yet.
RegisterSession(hs, k) ==
    /\ ~InBucket(hs, k)
    /\ buckets' = With(Unregistered(hs), k,
                       IF k \in DOMAIN buckets THEN Joined(buckets[k], hs) ELSE NewBucket(hs, k))
    /\ bucketsBySession' = With(bucketsBySession, hs, k)
    /\ polled' = {}
    /\ quiet' = [quiet EXCEPT ![hs] = 0]
    /\ deferredAgain' = deferredAgain \ {hs}

\* Mutant: the session is not flagged for later processing.
MutResetTimeout(hs, k) ==
    /\ InBucket(hs, k)
    /\ polled' = {}
    /\ quiet' = [quiet EXCEPT ![hs] = 0]
    /\ deferredAgain' = deferredAgain \cup {hs}
    /\ UNCHANGED <<buckets, bucketsBySession>>

\* registerSession() of one that is, with resetTimeout; without, nothing is done.
ResetTimeout(hs, k) ==
    /\ InBucket(hs, k)
    /\ buckets' = [buckets EXCEPT ![k].deferred = @ \cup {hs}]
    /\ polled' = {}
    /\ quiet' = [quiet EXCEPT ![hs] = 0]
    /\ deferredAgain' = deferredAgain \cup {hs}
    /\ UNCHANGED bucketsBySession

UnregisterSession(hs) ==
    /\ hs \in Registered
    /\ buckets' = Unregistered(hs)
    /\ bucketsBySession' = Without(bucketsBySession, {hs})
    /\ polled' = {}
    /\ quiet' = [quiet EXCEPT ![hs] = 0]
    /\ deferredAgain' = deferredAgain \ {hs}

\* Mutant: the deferred sessions are not cleared.
MutTimedOut(k) ==
    LET b == buckets[k] IN
    IF b.deferred # {}
    THEN [buckets EXCEPT ![k] = [sessions |-> b.deferred, deferred |-> b.deferred,
                                 due |-> TimeoutOf[k]]]
    ELSE Without(buckets, {k})

\* timer_timeout(): what stays of the bucket with key k.
TimedOut(k) ==
    LET b == buckets[k] IN
    IF b.deferred # {}
    THEN [buckets EXCEPT ![k] = [sessions |-> b.deferred, deferred |-> {}, due |-> TimeoutOf[k]]]
    ELSE Without(buckets, {k})

\* Mutant: the deferred sessions are polled too.
MutTimeout(k) ==
    /\ k \in DOMAIN buckets
    /\ buckets[k].due = 0
    /\ buckets' = TimedOut(k)
    /\ polled' = buckets[k].sessions
    /\ bucketsBySession' = Without(bucketsBySession, buckets[k].sessions \ buckets[k].deferred)
    /\ quiet' = [hs \in Sessions |-> IF hs \in polled' THEN 0 ELSE quiet[hs]]
    /\ deferredAgain' = deferredAgain \ polled'

Timeout(k) ==
    /\ k \in DOMAIN buckets
    /\ buckets[k].due = 0
    /\ buckets' = TimedOut(k)
    /\ polled' = buckets[k].sessions \ buckets[k].deferred
    /\ bucketsBySession' = Without(bucketsBySession, polled')
    /\ quiet' = [hs \in Sessions |-> IF hs \in polled' THEN 0 ELSE quiet[hs]]
    /\ deferredAgain' = deferredAgain \ polled'

\* Time passes; timers fire on time.
Tick ==
    /\ \A k \in DOMAIN buckets : buckets[k].due > 0
    /\ buckets' = [k \in DOMAIN buckets |-> [buckets[k] EXCEPT !.due = @ - 1]]
    /\ quiet' = [hs \in Sessions |-> IF hs \in Registered THEN quiet[hs] + 1 ELSE 0]
    /\ polled' = {}
    /\ UNCHANGED <<bucketsBySession, deferredAgain>>

Next ==
    \/ \E hs \in Sessions :
          \/ \E k \in Keys : RegisterSession(hs, k) \/ ResetTimeout(hs, k)
          \/ UnregisterSession(hs)
    \/ \E k \in Keys : Timeout(k)
    \/ Tick

Spec == Init /\ [][Next]_vars

-----------------------------------------------------------------------------
(* Properties                                                              *)

\* Types of all the state.
TypeOK ==
    /\ DOMAIN buckets \subseteq Keys
    /\ \A k \in DOMAIN buckets :
          /\ buckets[k] \in [sessions : SUBSET Sessions, deferred : SUBSET Sessions, due : Nat]
          /\ buckets[k].due <= TimeoutOf[k]
    /\ Registered \subseteq Sessions
    /\ \A hs \in Registered : bucketsBySession[hs] \in Keys
    /\ polled \subseteq Sessions
    /\ quiet \in [Sessions -> Nat]
    /\ deferredAgain \subseteq Sessions

\* The index by session and the buckets agree: a session is in the bucket the
\* index names and in no other, no bucket is empty, and only sessions of a
\* bucket are deferred in it.  A stale entry would poll a deleted session.
IndexesAgree ==
    /\ \A hs \in Registered :
          /\ bucketsBySession[hs] \in DOMAIN buckets
          /\ hs \in buckets[bucketsBySession[hs]].sessions
    /\ \A k \in DOMAIN buckets :
          /\ buckets[k].sessions # {}
          /\ buckets[k].deferred \subseteq buckets[k].sessions
          /\ \A hs \in buckets[k].sessions :
                hs \in Registered /\ bucketsBySession[hs] = k

\* A session that has had no activity is polled in time: it is never left
\* registered for more than twice its timeout, however often the other
\* sessions of its bucket keep the bucket alive.
QuietIsPolled ==
    \A hs \in Registered : quiet[hs] <= 2 * TimeoutOf[bucketsBySession[hs]]

\* A session whose timeout was reset is polled no sooner than a whole timeout
\* after that, although it shares the timer with others.
ResetIsHonoured ==
    [][\A hs \in polled' \cap deferredAgain : quiet[hs] >= TimeoutOf[bucketsBySession[hs]]]_vars

\* Sessions are polled only while registered, as HttpSession relies on.
Polls == INSTANCE UpdatePolls WITH registered <- Registered
ImplementsPolls == Polls!Spec

\* Why sessions are polled in time: time spent and time left add up to at most
\* two timeouts, and to at most one for a session deferred in this period; and
\* one that was deferred has a whole timeout from then on.
TimesAddUp ==
    \A hs \in Registered :
       LET k == bucketsBySession[hs]
           b == buckets[k]
       IN  /\ b.due <= TimeoutOf[k]
           /\ quiet[hs] + b.due <= 2 * TimeoutOf[k]
           /\ hs \in b.deferred => quiet[hs] + b.due <= TimeoutOf[k]
           /\ hs \in deferredAgain =>
                 hs \in b.deferred \/ quiet[hs] + b.due >= TimeoutOf[k]

-----------------------------------------------------------------------------
\* An instance for TLC: two keys with timeouts of different length.
TwoKeys == {1, 2}
Timeouts == [k \in TwoKeys |-> k + 1]

=============================================================================
