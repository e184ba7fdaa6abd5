------------------------- MODULE UpdateManagerProofs -------------------------
(***************************************************************************)
(* Proofs about UpdateManager, for any sessions, keys and timeouts.        *)
(*                                                                         *)
(* The invariant is types, agreement of the two indexes, and TimesAddUp,   *)
(* which bounds the time a session has spent by the time its bucket's      *)
(* timer has left.                                                         *)
(***************************************************************************)
EXTENDS UpdateManager, TLAPS

IInv == TypeOK /\ IndexesAgree /\ TimesAddUp

BucketSet == [sessions : SUBSET Sessions, deferred : SUBSET Sessions, due : Nat]

-----------------------------------------------------------------------------
(* What the helpers return                                                 *)

\* The buckets without a session: its old bucket lost only that session, or
\* went with it; all the others are as they were.
LEMMA UnregisteredFacts ==
    ASSUME IInv, NEW hs \in Sessions
    PROVE  /\ DOMAIN Unregistered(hs) \subseteq DOMAIN buckets
           /\ \A k \in DOMAIN Unregistered(hs) :
                 /\ Unregistered(hs)[k] \in BucketSet
                 /\ Unregistered(hs)[k].sessions = buckets[k].sessions \ {hs}
                 /\ Unregistered(hs)[k].sessions # {}
                 /\ Unregistered(hs)[k].deferred = buckets[k].deferred \ {hs}
                 /\ Unregistered(hs)[k].due = buckets[k].due
           /\ \A k \in DOMAIN buckets : buckets[k].sessions # {hs} => k \in DOMAIN Unregistered(hs)
<1> USE DEF IInv, TypeOK, IndexesAgree, Registered, BucketSet
<1>1. CASE hs \notin Registered
  <2>1. Unregistered(hs) = buckets
    BY <1>1 DEF Unregistered
  <2>2. \A k \in DOMAIN buckets : hs \notin buckets[k].sessions /\ hs \notin buckets[k].deferred
    BY <1>1
  <2> QED
    BY <2>1, <2>2
<1>2. CASE hs \in Registered /\ buckets[bucketsBySession[hs]].sessions = {hs}
  <2> DEFINE k0 == bucketsBySession[hs]
  <2>1. Unregistered(hs) = [k \in DOMAIN buckets \ {k0} |-> buckets[k]]
    BY <1>2 DEF Unregistered, Without
  <2>2. \A k \in DOMAIN buckets \ {k0} : hs \notin buckets[k].sessions /\ hs \notin buckets[k].deferred
    BY <1>2
  <2> QED
    BY <2>1, <2>2, <1>2
<1>3. CASE hs \in Registered /\ buckets[bucketsBySession[hs]].sessions # {hs}
  <2> DEFINE k0 == bucketsBySession[hs]
             b0 == [buckets[k0] EXCEPT !.sessions = @ \ {hs}, !.deferred = @ \ {hs}]
  <2>0. k0 \in DOMAIN buckets /\ hs \in buckets[k0].sessions
    BY <1>3
  <2>1. Unregistered(hs) = [k \in DOMAIN buckets |-> IF k = k0 THEN b0 ELSE buckets[k]]
    BY <1>3, <2>0 DEF Unregistered
  <2>2. \A k \in DOMAIN buckets \ {k0} : hs \notin buckets[k].sessions /\ hs \notin buckets[k].deferred
    BY <1>3
  <2>3. /\ b0 \in BucketSet
        /\ b0.sessions = buckets[k0].sessions \ {hs}
        /\ b0.deferred = buckets[k0].deferred \ {hs}
        /\ b0.due = buckets[k0].due
        /\ b0.sessions # {}
    <3>1. buckets[k0] \in BucketSet
      BY <2>0
    <3>2. buckets[k0].sessions \ {hs} # {}
      BY <2>0, <1>3
    <3> QED
      BY <3>1, <3>2 DEF BucketSet
  <2> HIDE DEF b0
  <2> QED
    BY <2>0, <2>1, <2>2, <2>3
<1> QED
  BY <1>1, <1>2, <1>3

-----------------------------------------------------------------------------
(* The invariant is inductive                                              *)

LEMMA InitIInv == Init => IInv
BY DEF Init, IInv, TypeOK, IndexesAgree, TimesAddUp, Registered

LEMMA RegisterIInv ==
    ASSUME IInv, NEW hs \in Sessions, NEW k \in Keys, RegisterSession(hs, k)
    PROVE  IInv'
<1> USE UpdateManagerAssumption
<1> DEFINE u == Unregistered(hs)
           b == IF k \in DOMAIN buckets THEN Joined(buckets[k], hs) ELSE NewBucket(hs, k)
<1>1. /\ DOMAIN buckets' = DOMAIN u \cup {k}
      /\ buckets'[k] = b
      /\ \A j \in DOMAIN u : j # k => buckets'[j] = u[j]
  BY DEF RegisterSession, With
<1>2. /\ b \in BucketSet
      /\ hs \in b.sessions
      /\ b.due <= TimeoutOf[k]
      /\ k \in DOMAIN buckets => /\ b.sessions = buckets[k].sessions \cup {hs}
                                 /\ b.deferred = buckets[k].deferred
                                 /\ b.due = buckets[k].due
      /\ k \notin DOMAIN buckets => b.sessions = {hs} /\ b.deferred = {}
  <2>1. CASE k \in DOMAIN buckets
    <3>1. /\ buckets[k] \in BucketSet
          /\ \E s \in Registered : bucketsBySession[s] = k
      BY <2>1 DEF IInv, TypeOK, IndexesAgree, BucketSet
    <3>2. buckets[k].due <= TimeoutOf[k]
      BY <3>1 DEF IInv, TimesAddUp
    <3> QED
      BY <2>1, <3>1, <3>2 DEF Joined, BucketSet
  <2>2. CASE k \notin DOMAIN buckets
    BY <2>2 DEF NewBucket, BucketSet
  <2> QED
    BY <2>1, <2>2
<1>3. /\ Registered' = Registered \cup {hs}
      /\ bucketsBySession'[hs] = k
      /\ \A s \in Registered : s # hs => bucketsBySession'[s] = bucketsBySession[s]
  BY DEF RegisterSession, With, Registered
<1>4. /\ quiet' = [quiet EXCEPT ![hs] = 0]
      /\ deferredAgain' = deferredAgain \ {hs}
      /\ polled' = {}
      /\ ~InBucket(hs, k)
  BY DEF RegisterSession
<1>5. /\ DOMAIN u \subseteq DOMAIN buckets
      /\ \A j \in DOMAIN u :
            /\ u[j] \in BucketSet
            /\ u[j].sessions = buckets[j].sessions \ {hs}
            /\ u[j].sessions # {}
            /\ u[j].deferred = buckets[j].deferred \ {hs}
            /\ u[j].due = buckets[j].due
      /\ \A j \in DOMAIN buckets : buckets[j].sessions # {hs} => j \in DOMAIN u
  BY UnregisteredFacts
<1> HIDE DEF u, b
<1>6. TypeOK'
  BY <1>1, <1>2, <1>3, <1>4, <1>5 DEF IInv, TypeOK, BucketSet
<1>7. IndexesAgree'
  <2>1. \A s \in Registered' :
           /\ bucketsBySession'[s] \in DOMAIN buckets'
           /\ s \in buckets'[bucketsBySession'[s]].sessions
    BY <1>1, <1>2, <1>3, <1>5 DEF IInv, IndexesAgree
  <2>2. \A j \in DOMAIN buckets' :
           /\ buckets'[j].sessions # {}
           /\ buckets'[j].deferred \subseteq buckets'[j].sessions
    BY <1>1, <1>2, <1>5 DEF IInv, IndexesAgree
  <2>3. \A j \in DOMAIN buckets' : \A s \in buckets'[j].sessions :
           s \in Registered' /\ bucketsBySession'[s] = j
    BY <1>1, <1>2, <1>3, <1>5 DEF IInv, IndexesAgree
  <2> QED
    BY <2>1, <2>2, <2>3 DEF IndexesAgree
<1>8. TimesAddUp'
  <2> SUFFICES ASSUME NEW s \in Registered'
               PROVE  LET j == bucketsBySession'[s]
                          c == buckets'[j]
                      IN  /\ c.due <= TimeoutOf[j]
                          /\ quiet'[s] + c.due <= 2 * TimeoutOf[j]
                          /\ s \in c.deferred => quiet'[s] + c.due <= TimeoutOf[j]
                          /\ s \in deferredAgain' =>
                                s \in c.deferred \/ quiet'[s] + c.due >= TimeoutOf[j]
    BY DEF TimesAddUp
  <2>1. CASE s = hs
    BY <2>1, <1>1, <1>2, <1>3, <1>4 DEF IInv, TypeOK, BucketSet
  <2>2. CASE s # hs
    <3> DEFINE j == bucketsBySession[s]
    <3>1. s \in Registered /\ bucketsBySession'[s] = j /\ quiet'[s] = quiet[s] /\ s \in Sessions
      BY <2>2, <1>3, <1>4 DEF IInv, TypeOK
    <3>2. j \in DOMAIN buckets /\ s \in buckets[j].sessions
      BY <3>1 DEF IInv, IndexesAgree
    <3>3. buckets'[j].due = buckets[j].due /\ buckets'[j].deferred \ {hs} = buckets[j].deferred \ {hs}
      BY <3>2, <2>2, <1>1, <1>2, <1>5
    <3> QED
      BY <2>2, <3>1, <3>2, <3>3, <1>4 DEF IInv, TimesAddUp
  <2> QED
    BY <2>1, <2>2
<1> QED
  BY <1>6, <1>7, <1>8 DEF IInv

LEMMA ResetIInv ==
    ASSUME IInv, NEW hs \in Sessions, NEW k \in Keys, ResetTimeout(hs, k)
    PROVE  IInv'
<1> DEFINE b == [buckets[k] EXCEPT !.deferred = @ \cup {hs}]
<1>1. k \in DOMAIN buckets /\ hs \in buckets[k].sessions
  BY DEF ResetTimeout, InBucket
<1>2. /\ DOMAIN buckets' = DOMAIN buckets
      /\ buckets'[k] = b
      /\ \A j \in DOMAIN buckets : j # k => buckets'[j] = buckets[j]
  BY <1>1 DEF ResetTimeout
<1>3. buckets[k] \in BucketSet
  BY <1>1 DEF IInv, TypeOK, BucketSet
<1>4. /\ b \in BucketSet
      /\ b.sessions = buckets[k].sessions
      /\ b.deferred = buckets[k].deferred \cup {hs}
      /\ b.due = buckets[k].due
  BY <1>3 DEF BucketSet
<1>5. /\ quiet' = [quiet EXCEPT ![hs] = 0]
      /\ deferredAgain' = deferredAgain \cup {hs}
      /\ polled' = {}
      /\ bucketsBySession' = bucketsBySession
      /\ Registered' = Registered
  BY DEF ResetTimeout, Registered
<1> HIDE DEF b
<1>6. TypeOK'
  BY <1>2, <1>4, <1>5 DEF IInv, TypeOK, BucketSet
<1>7. IndexesAgree'
  BY <1>1, <1>2, <1>4, <1>5 DEF IInv, IndexesAgree
<1>8. TimesAddUp'
  <2>1. hs \in Registered /\ bucketsBySession[hs] = k
    BY <1>1 DEF IInv, IndexesAgree
  <2>2. b.due <= TimeoutOf[k] /\ b.due \in Nat /\ TimeoutOf[k] \in Nat
    BY <2>1, <1>4, UpdateManagerAssumption DEF IInv, TimesAddUp, BucketSet
  <2>3. ASSUME NEW s \in Registered, s # hs
        PROVE  LET j == bucketsBySession[s] IN
               /\ quiet'[s] = quiet[s]
               /\ buckets'[j].due = buckets[j].due
               /\ buckets'[j].deferred \ {hs} = buckets[j].deferred \ {hs}
    BY <2>3, <1>1, <1>2, <1>4, <1>5 DEF IInv, TypeOK, IndexesAgree
  <2>4. quiet'[hs] = 0
    BY <1>5 DEF IInv, TypeOK
  <2> QED
    BY <2>1, <2>2, <2>3, <2>4, <1>2, <1>4, <1>5 DEF IInv, TimesAddUp
<1> QED
  BY <1>6, <1>7, <1>8 DEF IInv

LEMMA UnregisterIInv ==
    ASSUME IInv, NEW hs \in Sessions, UnregisterSession(hs)
    PROVE  IInv'
<1> DEFINE u == Unregistered(hs)
<1>1. /\ buckets' = u
      /\ Registered' = Registered \ {hs}
      /\ \A s \in Registered' : bucketsBySession'[s] = bucketsBySession[s]
      /\ quiet' = [quiet EXCEPT ![hs] = 0]
      /\ deferredAgain' = deferredAgain \ {hs}
      /\ polled' = {}
  BY DEF UnregisterSession, Without, Registered
<1>2. /\ DOMAIN u \subseteq DOMAIN buckets
      /\ \A j \in DOMAIN u :
            /\ u[j] \in BucketSet
            /\ u[j].sessions = buckets[j].sessions \ {hs}
            /\ u[j].sessions # {}
            /\ u[j].deferred = buckets[j].deferred \ {hs}
            /\ u[j].due = buckets[j].due
      /\ \A j \in DOMAIN buckets : buckets[j].sessions # {hs} => j \in DOMAIN u
  BY UnregisteredFacts
<1> HIDE DEF u
<1>3. TypeOK'
  BY <1>1, <1>2 DEF IInv, TypeOK, BucketSet
<1>4. IndexesAgree'
  BY <1>1, <1>2 DEF IInv, IndexesAgree
<1>5. TimesAddUp'
  <2>1. ASSUME NEW s \in Registered'
        PROVE  LET j == bucketsBySession[s] IN
               /\ s \in Registered /\ s # hs
               /\ bucketsBySession'[s] = j
               /\ quiet'[s] = quiet[s]
               /\ buckets'[j].due = buckets[j].due
               /\ buckets'[j].deferred = buckets[j].deferred \ {hs}
    BY <1>1, <1>2 DEF IInv, TypeOK, IndexesAgree
  <2> QED
    BY <2>1, <1>1 DEF IInv, TimesAddUp
<1> QED
  BY <1>3, <1>4, <1>5 DEF IInv

LEMMA TimeoutIInv ==
    ASSUME IInv, NEW k \in Keys, Timeout(k)
    PROVE  IInv'
<1> DEFINE d == buckets[k].deferred
           p == buckets[k].sessions \ d
<1>1. k \in DOMAIN buckets /\ buckets[k].due = 0 /\ buckets[k] \in BucketSet
  BY DEF Timeout, IInv, TypeOK, BucketSet
<1>2. /\ polled' = p
      /\ Registered' = Registered \ p
      /\ \A s \in Registered' : bucketsBySession'[s] = bucketsBySession[s]
      /\ quiet' = [s \in Sessions |-> IF s \in p THEN 0 ELSE quiet[s]]
      /\ deferredAgain' = deferredAgain \ p
  BY DEF Timeout, Without, Registered
<1>3. /\ d \subseteq buckets[k].sessions
      /\ p \subseteq Registered
      /\ \A s \in Registered \ p : bucketsBySession[s] = k => s \in d
      /\ \A s \in p : bucketsBySession[s] = k
      /\ \A s \in d : s \in Registered /\ bucketsBySession[s] = k
  BY <1>1 DEF IInv, IndexesAgree
<1>4. /\ \A j \in DOMAIN buckets' : j \in DOMAIN buckets
      /\ \A j \in DOMAIN buckets : j # k => j \in DOMAIN buckets' /\ buckets'[j] = buckets[j]
      /\ k \in DOMAIN buckets' <=> d # {}
      /\ d # {} => buckets'[k] = [sessions |-> d, deferred |-> {}, due |-> TimeoutOf[k]]
  BY <1>1 DEF Timeout, TimedOut, Without
<1>5. TypeOK'
  <2>1. /\ DOMAIN buckets' \subseteq Keys
        /\ \A j \in DOMAIN buckets' : buckets'[j] \in BucketSet
    BY <1>1, <1>4, UpdateManagerAssumption DEF IInv, TypeOK, BucketSet
  <2>2. /\ Registered' \subseteq Sessions
        /\ \A s \in Registered' : bucketsBySession'[s] \in Keys
        /\ polled' \subseteq Sessions
        /\ quiet' \in [Sessions -> Nat]
        /\ deferredAgain' \subseteq Sessions
    BY <1>2, <1>3 DEF IInv, TypeOK
  <2>3. ASSUME NEW j \in DOMAIN buckets'
        PROVE  buckets'[j].due <= TimeoutOf[j]
    <3>1. TimeoutOf[j] \in Nat
      BY <1>4, UpdateManagerAssumption DEF IInv, TypeOK
    <3>2. CASE j = k
      BY <3>1, <3>2, <1>4
    <3>3. CASE j # k
      BY <3>3, <1>4 DEF IInv, TypeOK
    <3> QED
      BY <3>2, <3>3
  <2> QED
    BY <2>1, <2>2, <2>3 DEF TypeOK, BucketSet
<1>6. IndexesAgree'
  <2>1. \A s \in Registered' :
           /\ bucketsBySession'[s] \in DOMAIN buckets'
           /\ s \in buckets'[bucketsBySession'[s]].sessions
    BY <1>2, <1>3, <1>4 DEF IInv, IndexesAgree
  <2>2. \A j \in DOMAIN buckets' :
           /\ buckets'[j].sessions # {}
           /\ buckets'[j].deferred \subseteq buckets'[j].sessions
           /\ \A s \in buckets'[j].sessions : s \in Registered' /\ bucketsBySession'[s] = j
    BY <1>2, <1>3, <1>4 DEF IInv, IndexesAgree
  <2> QED
    BY <2>1, <2>2 DEF IndexesAgree
<1>7. TimesAddUp'
  <2> SUFFICES ASSUME NEW s \in Registered'
               PROVE  LET j == bucketsBySession'[s]
                          c == buckets'[j]
                      IN  /\ c.due <= TimeoutOf[j]
                          /\ quiet'[s] + c.due <= 2 * TimeoutOf[j]
                          /\ s \in c.deferred => quiet'[s] + c.due <= TimeoutOf[j]
                          /\ s \in deferredAgain' =>
                                s \in c.deferred \/ quiet'[s] + c.due >= TimeoutOf[j]
    BY DEF TimesAddUp
  <2>0. s \in Registered /\ s \in Sessions /\ s \notin p /\ quiet'[s] = quiet[s] /\ quiet[s] \in Nat
    BY <1>2 DEF IInv, TypeOK
  <2>1. CASE bucketsBySession[s] = k
    <3>1. s \in d
      BY <2>0, <2>1, <1>3
    <3>2. /\ bucketsBySession'[s] = k
          /\ buckets'[k].due = TimeoutOf[k]
          /\ buckets'[k].deferred = {}
      BY <2>0, <2>1, <3>1, <1>2, <1>4
    <3>3. quiet[s] + 0 <= TimeoutOf[k]
      BY <2>0, <2>1, <3>1, <1>1 DEF IInv, TimesAddUp
    <3> QED
      BY <2>0, <3>2, <3>3, UpdateManagerAssumption
  <2>2. CASE bucketsBySession[s] # k
    <3>1. /\ bucketsBySession[s] \in DOMAIN buckets
          /\ bucketsBySession'[s] = bucketsBySession[s]
          /\ buckets'[bucketsBySession[s]] = buckets[bucketsBySession[s]]
      BY <2>0, <2>2, <1>2, <1>4 DEF IInv, IndexesAgree
    <3> QED
      BY <2>0, <3>1, <1>2 DEF IInv, TimesAddUp
  <2> QED
    BY <2>1, <2>2
<1> QED
  BY <1>5, <1>6, <1>7 DEF IInv

LEMMA TickIInv ==
    ASSUME IInv, Tick
    PROVE  IInv'
<1>1. /\ DOMAIN buckets' = DOMAIN buckets
      /\ Registered' = Registered
      /\ bucketsBySession' = bucketsBySession
      /\ deferredAgain' = deferredAgain
      /\ polled' = {}
  BY DEF Tick, Registered
<1>2. ASSUME NEW j \in DOMAIN buckets
      PROVE  /\ buckets'[j] \in BucketSet
             /\ buckets'[j].sessions = buckets[j].sessions
             /\ buckets'[j].deferred = buckets[j].deferred
             /\ buckets'[j].due = buckets[j].due - 1
             /\ buckets[j].due \in Nat
  <2>1. buckets[j] \in BucketSet /\ buckets[j].due > 0
    BY DEF Tick, IInv, TypeOK, BucketSet
  <2>2. buckets'[j] = [buckets[j] EXCEPT !.due = @ - 1]
    BY DEF Tick
  <2> QED
    BY <2>1, <2>2 DEF BucketSet
<1>3. \A s \in Registered : s \in Sessions /\ quiet[s] \in Nat /\ quiet'[s] = quiet[s] + 1
  BY DEF Tick, IInv, TypeOK
<1>4. TypeOK'
  <2>1. quiet' \in [Sessions -> Nat]
    BY DEF Tick, IInv, TypeOK
  <2>2. ASSUME NEW j \in DOMAIN buckets
        PROVE  buckets'[j].due <= TimeoutOf[j]
    <3>1. TimeoutOf[j] \in Nat /\ buckets[j].due <= TimeoutOf[j]
      BY UpdateManagerAssumption DEF IInv, TypeOK
    <3> QED
      BY <3>1, <1>2
  <2> QED
    BY <2>1, <2>2, <1>1, <1>2 DEF IInv, TypeOK, BucketSet
<1>5. IndexesAgree'
  BY <1>1, <1>2 DEF IInv, IndexesAgree
<1>6. TimesAddUp'
  <2>1. \A s \in Registered : bucketsBySession[s] \in DOMAIN buckets /\ TimeoutOf[bucketsBySession[s]] \in Nat
    BY UpdateManagerAssumption DEF IInv, TypeOK, IndexesAgree
  <2> QED
    BY <2>1, <1>1, <1>2, <1>3 DEF IInv, TimesAddUp
<1> QED
  BY <1>4, <1>5, <1>6 DEF IInv

LEMMA StutterIInv == IInv /\ UNCHANGED vars => IInv'
BY DEF IInv, TypeOK, IndexesAgree, TimesAddUp, Registered, vars

LEMMA NextIInv == IInv /\ [Next]_vars => IInv'
BY RegisterIInv, ResetIInv, UnregisterIInv, TimeoutIInv, TickIInv, StutterIInv DEF Next

\* The invariant holds in every behaviour.
THEOREM Invariance == Spec => []IInv
<1>1. Init => IInv
  BY InitIInv
<1>2. IInv /\ [Next]_vars => IInv'
  BY NextIInv
<1> QED
  BY <1>1, <1>2, PTL DEF Spec

-----------------------------------------------------------------------------
(* What follows from it                                                    *)

\* The state has its types.
THEOREM TypeCorrect == Spec => []TypeOK
<1>1. IInv => TypeOK
  BY DEF IInv
<1> QED
  BY <1>1, Invariance, PTL

\* The index by session and the buckets never disagree.
THEOREM IndexesAlwaysAgree == Spec => []IndexesAgree
<1>1. IInv => IndexesAgree
  BY DEF IInv
<1> QED
  BY <1>1, Invariance, PTL

\* No session stays registered for more than twice its timeout without being
\* polled or having activity.
THEOREM QuietIsAlwaysPolled == Spec => []QuietIsPolled
<1>1. IInv => QuietIsPolled
  <2> SUFFICES ASSUME IInv, NEW hs \in Registered
               PROVE  quiet[hs] <= 2 * TimeoutOf[bucketsBySession[hs]]
    BY DEF QuietIsPolled
  <2> DEFINE k == bucketsBySession[hs]
  <2>1. quiet[hs] \in Nat /\ k \in DOMAIN buckets
    BY DEF IInv, TypeOK, IndexesAgree
  <2>2. buckets[k].due \in Nat /\ TimeoutOf[k] \in Nat
    BY <2>1, UpdateManagerAssumption DEF IInv, TypeOK
  <2> QED
    BY <2>1, <2>2 DEF IInv, TimesAddUp
<1> QED
  BY <1>1, Invariance, PTL

\* A session whose timeout was reset has a whole timeout before it is polled.
THEOREM ResetIsAlwaysHonoured == Spec => ResetIsHonoured
<1> DEFINE Honoured == \A hs \in polled' \cap deferredAgain :
                          quiet[hs] >= TimeoutOf[bucketsBySession[hs]]
<1>1. IInv /\ Next => Honoured
  <2> SUFFICES ASSUME IInv, Next, NEW hs \in polled' \cap deferredAgain
               PROVE  quiet[hs] >= TimeoutOf[bucketsBySession[hs]]
    OBVIOUS
  <2>1. \E k \in Keys : Timeout(k)
    BY DEF Next, RegisterSession, ResetTimeout, UnregisterSession, Tick
  <2>2. PICK k \in Keys : Timeout(k)
    BY <2>1
  <2>3. /\ k \in DOMAIN buckets
        /\ buckets[k].due = 0
        /\ hs \in buckets[k].sessions
        /\ hs \notin buckets[k].deferred
    BY <2>2 DEF Timeout
  <2>4. hs \in Registered /\ bucketsBySession[hs] = k
    BY <2>3 DEF IInv, IndexesAgree
  <2>5. quiet[hs] \in Nat /\ TimeoutOf[k] \in Nat
    BY <2>4, UpdateManagerAssumption DEF IInv, TypeOK
  <2> QED
    BY <2>3, <2>4, <2>5 DEF IInv, TimesAddUp
<1>2. IInv /\ [Next]_vars => [Honoured]_vars
  BY <1>1
<1> QED
  BY <1>2, Invariance, PTL DEF Spec, ResetIsHonoured

\* The manager implements what sessions rely on: only registered sessions are
\* polled, and a poll ends the registration.
THEOREM PollsAreImplemented == Spec => ImplementsPolls
<1>1. Init => Polls!Init
  BY DEF Init, Polls!Init, Registered
<1>2. IInv /\ [Next]_vars => [Polls!Next]_(Polls!pollVars)
  <2> SUFFICES ASSUME IInv, [Next]_vars
               PROVE  Polls!Next \/ UNCHANGED Polls!pollVars
    OBVIOUS
  <2>1. ASSUME NEW hs \in Sessions, NEW k \in Keys, RegisterSession(hs, k)
        PROVE  Polls!Register(hs)
    BY <2>1 DEF RegisterSession, Polls!Register, Registered, With
  <2>2. ASSUME NEW hs \in Sessions, NEW k \in Keys, ResetTimeout(hs, k)
        PROVE  Polls!Register(hs)
    <3>1. hs \in Registered
      BY <2>2 DEF ResetTimeout, InBucket, IInv, IndexesAgree
    <3> QED
      BY <2>2, <3>1 DEF ResetTimeout, Polls!Register, Registered
  <2>3. ASSUME NEW hs \in Sessions, UnregisterSession(hs)
        PROVE  Polls!Unregister(hs)
    BY <2>3 DEF UnregisterSession, Polls!Unregister, Registered, Without
  <2>4. ASSUME NEW k \in Keys, Timeout(k)
        PROVE  Polls!Poll
    <3>1. polled' \subseteq Registered
      BY <2>4 DEF Timeout, IInv, IndexesAgree
    <3> QED
      BY <2>4, <3>1 DEF Timeout, Polls!Poll, Registered, Without
  <2>5. ASSUME Tick
        PROVE  Polls!Poll
    BY <2>5 DEF Tick, Polls!Poll, Registered
  <2>6. ASSUME UNCHANGED vars
        PROVE  UNCHANGED Polls!pollVars
    BY <2>6 DEF vars, Polls!pollVars, Registered
  <2> QED
    BY <2>1, <2>2, <2>3, <2>4, <2>5, <2>6 DEF Next, Polls!Next
<1> QED
  BY <1>1, <1>2, Invariance, PTL DEF Spec, ImplementsPolls, Polls!Spec
=============================================================================
