-------------------------- MODULE RateLimiterProofs --------------------------
(***************************************************************************)
(* Proofs about RateLimiter, for any keys, rate, high water mark and       *)
(* weights: no work is left without a timer; what is executed above the    *)
(* rate is owed as debt; and, when no single action exceeds the high water *)
(* mark, a pass always finds an action in the bucket it takes one from.    *)
(***************************************************************************)
EXTENDS RateLimiter, FiniteSetTheorems, WellFoundedInduction, TLAPS

\* No action exceeds the high water mark on its own.
Fits == Hwm > 0 => \A w \in Weights : w <= Hwm

\* A pass runs only on an active timer.
PassHasTimer == batch # None => timer.active

TimerSet == [active : BOOLEAN, interval : Nat, due : Nat,
             firstPass : BOOLEAN, lastBatchEmpty : BOOLEAN]
BatchSet == [at : Keys \cup {None}, processed : Nat, executed : Nat]

IInv == TypeOK /\ WorkHasTimer /\ PassHasTimer

-----------------------------------------------------------------------------
(* Constants and helpers                                                   *)

\* Every set of numbers has a least one.
LEMMA LeastNumber ==
    ASSUME NEW S \in SUBSET Nat, S # {}
    PROVE  \E m \in S : \A k \in S : m <= k
<1>1. IsWellFoundedOn(OpToRel(<, Nat), Nat)
  BY NatLessThanWellFounded
<1>2. \E x \in S : \A y \in S : ~ (<<y, x>> \in OpToRel(<, Nat))
  BY <1>1, WFMin
<1>3. PICK x \in S : \A y \in S : ~ (<<y, x>> \in OpToRel(<, Nat))
  BY <1>2
<1>4. \A y \in S : x <= y
  <2> TAKE y \in S
  <2>1. <<y, x>> \in OpToRel(<, Nat) <=> y < x
    BY DEF OpToRel
  <2>2. ~(y < x)
    BY <1>3, <2>1, Zenon
  <2>3. x \in Nat /\ y \in Nat
    OBVIOUS
  <2> QED
    BY <2>2, <2>3
<1> QED
  BY <1>4

\* The least key of a set of keys is one of them.
LEMMA MinIsMember ==
    ASSUME NEW S \in SUBSET Nat, S # {}
    PROVE  Min(S) \in S
BY LeastNumber DEF Min

\* The batch interval and the batch size are numbers of a limited rate.
LEMMA BatchNumbers ==
    /\ BatchSize \in Int
    /\ BatchInterval \in Int
    /\ Rate > 0 => BatchInterval \in Nat /\ BatchSize >= 1
<1>1. CASE Rate <= 0
  <2>1. ~(Rate >= 1000 \div MIN_BATCH_INTERVAL)
    BY <1>1, RateLimiterAssumption DEF MIN_BATCH_INTERVAL
  <2>2. BatchInterval = -1 /\ BatchSize = -1
    BY <1>1, <2>1 DEF BatchInterval, BatchSize
  <2> QED
    BY <2>2, <1>1, RateLimiterAssumption
<1>2. CASE Rate > 0 /\ Rate >= 1000 \div MIN_BATCH_INTERVAL
  <2>1. BatchInterval = 25
    BY <1>2, RateLimiterAssumption DEF BatchInterval, MIN_BATCH_INTERVAL
  <2>2. BatchSize = (Rate * 25 + 999) \div 1000
    BY <1>2, <2>1, RateLimiterAssumption DEF BatchSize
  <2> QED
    BY <2>1, <2>2, RateLimiterAssumption
<1>3. CASE Rate > 0 /\ ~(Rate >= 1000 \div MIN_BATCH_INTERVAL)
  <2>1. BatchInterval = 1000 \div Rate /\ BatchSize = 1
    BY <1>3, RateLimiterAssumption DEF BatchInterval, BatchSize
  <2>2. 1000 \div Rate \in Nat
    BY <1>3, RateLimiterAssumption
  <2> QED
    BY <2>1, <2>2
<1> QED
  BY <1>1, <1>2, <1>3, RateLimiterAssumption

\* setup() returns a timer, and an active one if there are buckets.
LEMMA SetupFacts ==
    ASSUME NEW b, NEW t \in TimerSet
    PROVE  /\ Setup(b, t) \in TimerSet
           /\ DOMAIN b # {} => Setup(b, t).active
<1>1. CASE Rate > 0
  <2>1. Setup(b, t) = SetupLimited(b, t) /\ BatchInterval \in Nat
    BY <1>1, BatchNumbers DEF Setup
  <2>2. /\ SetupLimited(b, t) \in TimerSet
        /\ DOMAIN b # {} => SetupLimited(b, t).active
    BY <2>1 DEF SetupLimited, TimerStart, TimerStop, TimerSetInterval, TimerSet
  <2> QED
    BY <2>1, <2>2
<1>2. CASE ~(Rate > 0)
  BY <1>2 DEF Setup, SetupUnlimited, TimerStart, TimerStop, TimerSetInterval, TimerSet
<1> QED
  BY <1>1, <1>2

\* The end of a pass does the same.
LEMMA PassDoneFacts ==
    ASSUME NEW b, NEW t \in TimerSet
    PROVE  /\ PassDone(b, t) \in TimerSet
           /\ DOMAIN b # {} => PassDone(b, t).active
<1>1. [t EXCEPT !.firstPass = FALSE] \in TimerSet
  BY DEF TimerSet
<1> QED
  BY <1>1, SetupFacts DEF PassDone

\* What a round leaves: buckets and a pass of the right types, the bucket of
\* the round replaced or gone, and the iterator at a bucket or at the end.
LEMMA MoveOnFacts ==
    ASSUME TypeOK, NEW k \in DOMAIN buckets, NEW b \in Buckets,
           NEW p \in Nat, NEW e \in Nat, MoveOn(k, b, p, e)
    PROVE  /\ DOMAIN buckets' \subseteq DOMAIN buckets
           /\ \A j \in DOMAIN buckets' : buckets'[j] = IF j = k THEN b ELSE buckets[j]
           /\ k \in DOMAIN buckets' => b.actions # <<>> \/ b.debt > 0
           /\ lastKey' \in Keys \cup {None}
           /\ batch' \in BatchSet
           /\ batch'.at \in DOMAIN buckets' \cup {None}
<1> DEFINE with == WithBucket(k, b)
           gone == b.actions = <<>> /\ b.debt <= 0
           next == After(with, k)
           at == IF next = None /\ ~gone THEN First(with) ELSE next
<1>1. /\ DOMAIN with = DOMAIN buckets
      /\ \A j \in DOMAIN with : with[j] = IF j = k THEN b ELSE buckets[j]
      /\ DOMAIN with \subseteq Keys
      /\ Keys \subseteq Nat
  BY RateLimiterAssumption DEF WithBucket, TypeOK
<1>2. /\ buckets' = IF gone THEN [j \in DOMAIN with \ {k} |-> with[j]] ELSE with
      /\ lastKey' = IF gone THEN k ELSE lastKey
      /\ batch' = [at |-> at, processed |-> p, executed |-> e]
  BY DEF MoveOn
<1>3. next \in (DOMAIN with \ {k}) \cup {None}
  <2> DEFINE later == {j \in DOMAIN with : j > k}
  <2>1. CASE later = {}
    BY <2>1 DEF After
  <2>2. CASE later # {}
    <3>1. later \in SUBSET Nat
      BY <1>1
    <3>2. Min(later) \in later
      BY <2>2, <3>1, MinIsMember
    <3>3. next = Min(later)
      BY <2>2 DEF After
    <3>4. Min(later) \in DOMAIN with /\ Min(later) > k
      BY <3>2
    <3>5. k \in Nat /\ DOMAIN with \subseteq Nat
      BY <1>1
    <3> QED
      BY <3>3, <3>4, <3>5
  <2> QED
    BY <2>1, <2>2
<1>4. First(with) \in DOMAIN with
  <2>1. DOMAIN with # {} /\ DOMAIN with \in SUBSET Nat
    BY <1>1
  <2> QED
    BY <2>1, MinIsMember DEF First
<1>5. at \in DOMAIN buckets' \cup {None}
  BY <1>2, <1>3, <1>4
<1>6. b.debt \in Nat
  BY DEF Buckets
<1> HIDE DEF with, next
<1>7. batch' \in BatchSet /\ batch'.at = at
  BY <1>1, <1>2, <1>3, <1>4 DEF BatchSet
<1> QED
  BY <1>1, <1>2, <1>5, <1>6, <1>7 DEF TypeOK

-----------------------------------------------------------------------------
(* The invariant is inductive                                              *)

LEMMA InitIInv == Init => IInv
<1> SUFFICES ASSUME Init PROVE IInv
  OBVIOUS
<1>1. timer \in TimerSet
  BY DEF Init, NewTimer, TimerStart, TimerSet
<1>2. DOMAIN buckets = {}
  BY DEF Init, NoBuckets
<1>3. /\ lastKey = None /\ batch = None
      /\ added \in 0..AddMax /\ lead \in Nat /\ since \in Int
  BY RateLimiterAssumption DEF Init
<1>4. empty \in BOOLEAN
  BY DEF Init
<1> QED
  BY <1>1, <1>2, <1>3, <1>4 DEF IInv, TypeOK, WorkHasTimer, PassHasTimer, TimerSet

LEMMA AddIInv ==
    ASSUME IInv, NEW k \in Keys, NEW w \in Weights, AddAction(k, w)
    PROVE  IInv'
<1> DEFINE b == Bucket(k)
           c == [b EXCEPT !.actions = Append(@, w), !.weight = @ + w]
<1>0. w \in Int /\ timer \in TimerSet
  BY RateLimiterAssumption DEF IInv, TypeOK, TimerSet
<1>1. b \in Buckets
  <2>1. CASE k \in DOMAIN buckets
    BY <2>1 DEF Bucket, IInv, TypeOK
  <2>2. CASE k \notin DOMAIN buckets
    BY <2>2 DEF Bucket, Buckets
  <2> QED
    BY <2>1, <2>2
<1>2. c \in Buckets
  <2>1. b.actions \in Seq(Weights) /\ b.weight \in Int
    BY <1>1 DEF Buckets
  <2>2. Append(b.actions, w) \in Seq(Weights) /\ b.weight + w \in Int
    BY <1>0, <2>1
  <2> HIDE DEF b
  <2> QED
    BY <1>1, <2>2 DEF Buckets
<1>3. /\ added' \in 0..AddMax
      /\ batch = None /\ batch' = batch
      /\ UNCHANGED <<lastKey, lead, since, empty>>
  BY RateLimiterAssumption DEF AddAction, IInv, TypeOK
<1>4. CASE Exceeds(k, w)
  <2>1. buckets' = WithBucket(k, b) /\ timer' = timer
    BY <1>4 DEF AddAction
  <2>2. /\ DOMAIN buckets' = DOMAIN buckets \cup {k}
        /\ \A j \in DOMAIN buckets' : buckets'[j] = IF j = k THEN b ELSE buckets[j]
    BY <2>1 DEF WithBucket
  <2>3. TypeOK'
    BY <1>0, <1>1, <1>3, <2>1, <2>2 DEF IInv, TypeOK, TimerSet
  <2>4. WorkHasTimer'
    <3>1. ASSUME NEW j \in DOMAIN buckets', buckets'[j].actions # <<>>
          PROVE  j \in DOMAIN buckets /\ buckets[j].actions # <<>>
      BY <2>2, <3>1 DEF Bucket
    <3> QED
      BY <3>1, <2>1, <1>3 DEF IInv, WorkHasTimer
  <2> QED
    BY <2>3, <2>4, <1>3 DEF IInv, PassHasTimer
<1>5. CASE ~Exceeds(k, w)
  <2>1. buckets' = WithBucket(k, c) /\ timer' = Setup(buckets', timer)
    BY <1>5 DEF AddAction
  <2>2. /\ DOMAIN buckets' = DOMAIN buckets \cup {k}
        /\ \A j \in DOMAIN buckets' : buckets'[j] = IF j = k THEN c ELSE buckets[j]
    BY <2>1 DEF WithBucket
  <2>3. timer' \in TimerSet /\ timer'.active
    BY <2>1, <2>2, <1>0, SetupFacts
  <2> HIDE DEF c
  <2>4. TypeOK'
    BY <1>2, <1>3, <2>2, <2>3 DEF IInv, TypeOK, TimerSet
  <2> QED
    BY <2>3, <2>4, <1>3 DEF IInv, WorkHasTimer, PassHasTimer
<1> QED
  BY <1>4, <1>5

LEMMA TimeoutIInv ==
    ASSUME IInv, Timeout
    PROVE  IInv' /\ buckets' = buckets /\ empty' = empty
           /\ (batch' # None => batch'.at \in DOMAIN buckets)
<1> DEFINE r(on) == [TimerReady(timer) EXCEPT !.lastBatchEmpty = on]
<1>1. \A on \in BOOLEAN : r(on) \in TimerSet /\ r(on).active
  BY DEF TimerReady, TimerStart, TimerSet, IInv, TypeOK
<1>2. buckets' = buckets /\ since' = 0 /\ UNCHANGED <<lastKey, added, lead, empty>>
  BY DEF Timeout
<1>3. CASE DOMAIN buckets = {}
  <2>1. timer' = PassDone(buckets, r(TRUE)) /\ batch' = None
    BY <1>3 DEF Timeout
  <2>2. timer' \in TimerSet
    BY <2>1, <1>1, PassDoneFacts
  <2> QED
    BY <2>1, <2>2, <1>2, <1>3 DEF IInv, TypeOK, WorkHasTimer, PassHasTimer, TimerSet
<1>4. CASE DOMAIN buckets # {}
  <2> DEFINE at == IF lastKey \in DOMAIN buckets THEN lastKey ELSE First(buckets)
  <2>1. timer' = r(FALSE) /\ batch' = [at |-> at, processed |-> 0, executed |-> 0]
    BY <1>4 DEF Timeout
  <2>2. timer' \in TimerSet /\ timer'.active
    BY <2>1, <1>1
  <2>3. DOMAIN buckets \in SUBSET Nat /\ DOMAIN buckets \subseteq Keys
    BY RateLimiterAssumption DEF IInv, TypeOK
  <2>4. First(buckets) \in DOMAIN buckets
    BY <1>4, <2>3, MinIsMember DEF First
  <2>5. at \in DOMAIN buckets
    BY <2>4
  <2> HIDE DEF at
  <2>6. batch' \in BatchSet /\ batch'.at \in DOMAIN buckets
    BY <2>1, <2>3, <2>5 DEF BatchSet
  <2>7. TypeOK'
    BY <1>2, <2>2, <2>6 DEF IInv, TypeOK, TimerSet, BatchSet
  <2> QED
    BY <2>2, <2>6, <2>7, <1>2 DEF IInv, WorkHasTimer, PassHasTimer
<1> QED
  BY <1>3, <1>4

LEMMA ExecuteIInv ==
    ASSUME IInv, Execute, batch.at \in DOMAIN buckets
    PROVE  /\ IInv'
           /\ \A j \in DOMAIN buckets' :
                 \/ j \in DOMAIN buckets /\ buckets'[j] = buckets[j]
                 \/ buckets'[j].actions # <<>> \/ buckets'[j].debt > 0
           /\ batch'.at \in DOMAIN buckets' \cup {None}
           /\ buckets[batch.at].actions # <<>> => empty' = empty
<1> DEFINE k == batch.at
           b == buckets[k]
           w == Head(b.actions)
           cost == IF w > 1 THEN w ELSE 1
           taken == [b EXCEPT !.actions = Tail(@), !.weight = @ - w]
           total == batch.processed + cost
           over == IF BatchSize >= 1 /\ total > BatchSize THEN total - BatchSize ELSE 0
<1>1. /\ b \in Buckets
      /\ b.actions \in Seq(Weights) /\ b.weight \in Int /\ b.debt \in Nat
      /\ batch \in BatchSet /\ batch # None
      /\ batch.processed \in Nat /\ batch.executed \in Nat
  BY DEF Execute, Running, IInv, TypeOK, Buckets, BatchSet
<1>2. /\ timer' = timer
      /\ UNCHANGED <<added, lead, since>>
      /\ timer.active
      /\ empty' \in BOOLEAN
  BY <1>1 DEF Execute, IInv, TypeOK, PassHasTimer
<1>3. ASSUME NEW c \in Buckets, NEW p \in Nat, NEW e \in Nat, MoveOn(k, c, p, e)
      PROVE  /\ IInv'
             /\ \A j \in DOMAIN buckets' :
                   \/ j \in DOMAIN buckets /\ buckets'[j] = buckets[j]
                   \/ buckets'[j].actions # <<>> \/ buckets'[j].debt > 0
             /\ batch'.at \in DOMAIN buckets' \cup {None}
  <2>1. /\ DOMAIN buckets' \subseteq DOMAIN buckets
        /\ \A j \in DOMAIN buckets' : buckets'[j] = IF j = k THEN c ELSE buckets[j]
        /\ k \in DOMAIN buckets' => c.actions # <<>> \/ c.debt > 0
        /\ lastKey' \in Keys \cup {None}
        /\ batch' \in BatchSet
        /\ batch'.at \in DOMAIN buckets' \cup {None}
    BY <1>3, MoveOnFacts DEF IInv
  <2>2. TypeOK'
    BY <2>1, <1>2 DEF IInv, TypeOK, BatchSet
  <2>3. WorkHasTimer' /\ PassHasTimer'
    BY <1>2 DEF WorkHasTimer, PassHasTimer
  <2> QED
    BY <2>1, <2>2, <2>3 DEF IInv
<1>4. CASE b.actions = <<>>
  <2>1. MoveOn(k, b, batch.processed, batch.executed)
    BY <1>4 DEF Execute
  <2> QED
    BY <1>1, <1>3, <1>4, <2>1
<1>5. CASE b.actions # <<>>
  <2>1. w \in Weights /\ w \in Nat /\ Tail(b.actions) \in Seq(Weights)
    <3>1. ASSUME NEW a \in Seq(Weights), a # <<>>
          PROVE  Head(a) \in Weights /\ Tail(a) \in Seq(Weights)
      BY <3>1
    <3> QED
      BY <1>1, <1>5, <3>1, RateLimiterAssumption
  <2>2. cost \in Nat /\ total \in Nat /\ over \in Nat
    BY <1>1, <2>1, BatchNumbers
  <2>3. taken \in Buckets
    <3>1. b.weight - w \in Int
      BY <1>1, <2>1
    <3> HIDE DEF b, w
    <3> QED
      BY <1>1, <2>1, <3>1 DEF Buckets
  <2>4. [taken EXCEPT !.debt = @ + over] \in Buckets
    <3> HIDE DEF taken, over
    <3> QED
      BY <2>2, <2>3 DEF Buckets
  <2>5. /\ empty' = empty
        /\ \/ MoveOn(k, [taken EXCEPT !.debt = @ + over], total, batch.executed + cost)
           \/ MoveOn(k, taken, batch.processed, batch.executed)
    BY <1>5 DEF Execute
  <2>6. batch.executed + cost \in Nat
    BY <1>1, <2>2
  <2> HIDE DEF k, b, taken, over, total, cost
  <2>7. CASE MoveOn(k, [taken EXCEPT !.debt = @ + over], total, batch.executed + cost)
    BY <2>7, <2>2, <2>4, <2>5, <2>6, <1>3
  <2>8. CASE MoveOn(k, taken, batch.processed, batch.executed)
    BY <2>8, <2>3, <2>5, <1>1, <1>3
  <2> QED
    BY <2>5, <2>7, <2>8
<1> QED
  BY <1>4, <1>5

LEMMA PayDebtIInv ==
    ASSUME IInv, PayDebt, batch.at \in DOMAIN buckets
    PROVE  /\ IInv'
           /\ \A j \in DOMAIN buckets' :
                 \/ j \in DOMAIN buckets /\ buckets'[j] = buckets[j]
                 \/ buckets'[j].actions # <<>> \/ buckets'[j].debt > 0
           /\ batch'.at \in DOMAIN buckets' \cup {None}
           /\ empty' = empty
<1> DEFINE k == batch.at
           b == buckets[k]
           c == [b EXCEPT !.debt = @ - 1]
<1>1. /\ b \in Buckets /\ b.debt > 0 /\ b.debt \in Nat
      /\ batch # None
      /\ batch.processed + 1 \in Nat /\ batch.executed \in Nat
  BY DEF PayDebt, Running, IInv, TypeOK, Buckets, BatchSet
<1>2. timer' = timer /\ timer.active /\ UNCHANGED <<added, lead, since, empty>>
  BY <1>1 DEF PayDebt, IInv, PassHasTimer
<1>3. c \in Buckets
  <2>1. b.debt - 1 \in Nat
    BY <1>1
  <2> HIDE DEF b
  <2> QED
    BY <1>1, <2>1 DEF Buckets
<1>4. MoveOn(k, c, batch.processed + 1, batch.executed)
  BY DEF PayDebt
<1>5. /\ DOMAIN buckets' \subseteq DOMAIN buckets
      /\ \A j \in DOMAIN buckets' : buckets'[j] = IF j = k THEN c ELSE buckets[j]
      /\ k \in DOMAIN buckets' => c.actions # <<>> \/ c.debt > 0
      /\ lastKey' \in Keys \cup {None}
      /\ batch' \in BatchSet
      /\ batch'.at \in DOMAIN buckets' \cup {None}
  <2> HIDE DEF c
  <2> QED
    BY <1>1, <1>3, <1>4, MoveOnFacts DEF IInv
<1> HIDE DEF c, k
<1>6. TypeOK'
  BY <1>2, <1>3, <1>5 DEF IInv, TypeOK, BatchSet
<1>7. WorkHasTimer' /\ PassHasTimer'
  BY <1>2 DEF WorkHasTimer, PassHasTimer
<1> QED
  BY <1>2, <1>5, <1>6, <1>7 DEF IInv

LEMMA EndPassIInv ==
    ASSUME IInv, EndPass
    PROVE  IInv' /\ buckets' = buckets /\ batch' = None /\ empty' = empty
<1>1. /\ buckets' = buckets /\ batch' = None
      /\ UNCHANGED <<added, since, empty>>
      /\ timer' = PassDone(buckets, timer)
      /\ batch # None
  BY DEF EndPass
<1>2. timer' \in TimerSet /\ (DOMAIN buckets # {} => timer'.active)
  <2>1. timer \in TimerSet
    BY DEF IInv, TypeOK, TimerSet
  <2> QED
    BY <1>1, <2>1, PassDoneFacts
<1>3. lastKey' \in Keys \cup {None}
  BY <1>1 DEF EndPass, IInv, TypeOK
<1>4. lead' \in Nat
  <2>1. lead \in Nat /\ batch.executed \in Nat
    BY <1>1 DEF IInv, TypeOK
  <2> QED
    BY <2>1, BatchNumbers DEF EndPass
<1>5. TypeOK'
  BY <1>1, <1>2, <1>3, <1>4 DEF IInv, TypeOK, TimerSet
<1>6. WorkHasTimer' /\ PassHasTimer'
  BY <1>1, <1>2 DEF WorkHasTimer, PassHasTimer
<1> QED
  BY <1>1, <1>5, <1>6 DEF IInv

LEMMA TickIInv ==
    ASSUME IInv, Tick
    PROVE  IInv' /\ buckets' = buckets /\ batch' = batch /\ empty' = empty
<1>1. /\ timer' = [timer EXCEPT !.due = 0]
      /\ timer \in TimerSet
      /\ UNCHANGED <<buckets, lastKey, batch, added, lead, empty>>
  BY DEF Tick, IInv, TypeOK, TimerSet
<1>2. timer' \in TimerSet /\ timer'.active = timer.active
  BY <1>1 DEF TimerSet
<1>3. since' \in Int
  <2>1. since \in Int /\ timer.due \in Nat
    BY DEF IInv, TypeOK
  <2> QED
    BY <2>1, BatchNumbers DEF Tick
<1>4. TypeOK'
  BY <1>1, <1>2, <1>3 DEF IInv, TypeOK, TimerSet
<1>5. WorkHasTimer' /\ PassHasTimer'
  BY <1>1, <1>2 DEF IInv, WorkHasTimer, PassHasTimer
<1> QED
  BY <1>1, <1>4, <1>5 DEF IInv

\* The whole invariant: the pass is at a bucket that exists.
AtBucket == batch # None => batch.at \in DOMAIN buckets \cup {None}

Inv == IInv /\ AtBucket

LEMMA NextInv == Inv /\ [Next]_vars => Inv'
<1> SUFFICES ASSUME Inv, [Next]_vars PROVE Inv'
  OBVIOUS
<1>1. ASSUME NEW k \in Keys, NEW w \in Weights, AddAction(k, w)
      PROVE  Inv'
  <2>1. batch' = None
    BY <1>1 DEF AddAction
  <2> QED
    BY <1>1, <2>1, AddIInv DEF Inv, AtBucket
<1>2. CASE Timeout
  BY <1>2, TimeoutIInv DEF Inv, AtBucket
<1>3. CASE Execute
  <2>1. batch.at \in DOMAIN buckets
    BY <1>3 DEF Execute, Running, Inv, AtBucket
  <2> QED
    BY <1>3, <2>1, ExecuteIInv DEF Inv, AtBucket
<1>4. CASE PayDebt
  <2>1. batch.at \in DOMAIN buckets
    BY <1>4 DEF PayDebt, Running, Inv, AtBucket
  <2> QED
    BY <1>4, <2>1, PayDebtIInv DEF Inv, AtBucket
<1>5. CASE EndPass
  BY <1>5, EndPassIInv DEF Inv, AtBucket
<1>6. CASE Tick
  BY <1>6, TickIInv DEF Inv, AtBucket
<1>7. CASE UNCHANGED vars
  BY <1>7 DEF vars, Inv, IInv, AtBucket, TypeOK, WorkHasTimer, PassHasTimer
<1> QED
  BY <1>1, <1>2, <1>3, <1>4, <1>5, <1>6, <1>7 DEF Next

\* The invariant holds in every behaviour.
THEOREM Invariance == Spec => []Inv
<1>1. Init => Inv
  BY InitIInv DEF Init, Inv, AtBucket
<1>2. Inv /\ [Next]_vars => Inv'
  BY NextInv
<1> QED
  BY <1>1, <1>2, PTL DEF Spec

\* The state has its types.
THEOREM TypeCorrect == Spec => []TypeOK
<1>1. Inv => TypeOK
  BY DEF Inv, IInv
<1> QED
  BY <1>1, Invariance, PTL

\* No action is ever left waiting without an active timer.
THEOREM WorkAlwaysHasTimer == Spec => []WorkHasTimer
<1>1. Inv => WorkHasTimer
  BY DEF Inv, IInv
<1> QED
  BY <1>1, Invariance, PTL

-----------------------------------------------------------------------------
(* Buckets always have work, if every action fits below the mark           *)

\* addAction() leaves no bucket without work: an action is refused only for a
\* bucket that has some.
LEMMA AddKeepsWork ==
    ASSUME Fits, IInv, BucketsHaveWork, NEW k \in Keys, NEW w \in Weights, AddAction(k, w)
    PROVE  BucketsHaveWork' /\ empty' = empty
<1>1. batch' = None /\ empty' = empty
  BY DEF AddAction
<1>2. CASE Exceeds(k, w)
  <2>1. k \in DOMAIN buckets
    <3>1. SUFFICES ASSUME k \notin DOMAIN buckets PROVE FALSE
      OBVIOUS
    <3>2. Hwm > 0 /\ 0 + w > Hwm
      BY <1>2, <3>1 DEF Exceeds, Bucket
    <3> QED
      BY <3>2, RateLimiterAssumption DEF Fits
  <2>2. buckets' = WithBucket(k, Bucket(k))
    BY <1>2 DEF AddAction
  <2>3. DOMAIN buckets' = DOMAIN buckets /\ \A j \in DOMAIN buckets : buckets'[j] = buckets[j]
    BY <2>1, <2>2 DEF WithBucket, Bucket
  <2> QED
    BY <2>3, <1>1 DEF BucketsHaveWork
<1>3. CASE ~Exceeds(k, w)
  <2> DEFINE b == Bucket(k)
             c == [b EXCEPT !.actions = Append(@, w), !.weight = @ + w]
  <2>1. buckets' = WithBucket(k, c)
    BY <1>3 DEF AddAction
  <2>2. c.actions # <<>>
    <3>1. b \in Buckets
      BY DEF Bucket, Buckets, IInv, TypeOK
    <3>2. b.actions \in Seq(Weights)
      BY <3>1 DEF Buckets
    <3>3. Append(b.actions, w) # <<>>
      BY <3>2
    <3>4. c.actions = Append(b.actions, w)
      <4> HIDE DEF b
      <4> QED
        BY <3>1 DEF Buckets
    <3> QED
      BY <3>3, <3>4
  <2> HIDE DEF c
  <2>3. \A j \in DOMAIN buckets' :
           buckets'[j] = IF j = k THEN c ELSE buckets[j]
    BY <2>1 DEF WithBucket
  <2>4. \A j \in DOMAIN buckets' : j = k \/ j \in DOMAIN buckets
    BY <2>1 DEF WithBucket
  <2> QED
    BY <2>2, <2>3, <2>4, <1>1 DEF BucketsHaveWork
<1> QED
  BY <1>2, <1>3

\* A pass always has something to take from the bucket it is at, and no action
\* is taken from an empty bucket, if every action fits.
THEOREM BucketsAlwaysHaveWork ==
    ASSUME Fits
    PROVE  Spec => [](BucketsHaveWork /\ NothingTakenFromEmpty)
<1>1. Init => BucketsHaveWork /\ NothingTakenFromEmpty
  BY DEF Init, NoBuckets, BucketsHaveWork, NothingTakenFromEmpty
<1>2. Inv /\ BucketsHaveWork /\ NothingTakenFromEmpty /\ [Next]_vars
         => (BucketsHaveWork /\ NothingTakenFromEmpty)'
  <2> SUFFICES ASSUME Inv, BucketsHaveWork, NothingTakenFromEmpty, [Next]_vars
               PROVE  BucketsHaveWork' /\ NothingTakenFromEmpty'
    OBVIOUS
  <2>1. ASSUME NEW k \in Keys, NEW w \in Weights, AddAction(k, w)
        PROVE  BucketsHaveWork' /\ NothingTakenFromEmpty'
    BY <2>1, AddKeepsWork, Fits DEF Inv, NothingTakenFromEmpty
  <2>2. CASE Timeout
    BY <2>2, TimeoutIInv DEF Inv, BucketsHaveWork, NothingTakenFromEmpty
  <2>3. CASE Execute
    <3>1. batch.at \in DOMAIN buckets
      BY <2>3 DEF Execute, Running, Inv, AtBucket
    <3>2. buckets[batch.at].actions # <<>>
      <4>1. buckets[batch.at].debt <= 0 /\ buckets[batch.at].debt \in Nat
        BY <2>3, <3>1 DEF Execute, Inv, IInv, TypeOK, Buckets
      <4> QED
        BY <3>1, <4>1 DEF BucketsHaveWork
    <3> QED
      BY <2>3, <3>1, <3>2, ExecuteIInv DEF Inv, BucketsHaveWork, NothingTakenFromEmpty
  <2>4. CASE PayDebt
    <3>1. batch.at \in DOMAIN buckets
      BY <2>4 DEF PayDebt, Running, Inv, AtBucket
    <3> QED
      BY <2>4, <3>1, PayDebtIInv DEF Inv, BucketsHaveWork, NothingTakenFromEmpty
  <2>5. CASE EndPass
    BY <2>5, EndPassIInv DEF Inv, BucketsHaveWork, NothingTakenFromEmpty
  <2>6. CASE Tick
    BY <2>6, TickIInv DEF Inv, BucketsHaveWork, NothingTakenFromEmpty
  <2>7. CASE UNCHANGED vars
    BY <2>7 DEF vars, BucketsHaveWork, NothingTakenFromEmpty
  <2> QED
    BY <2>1, <2>2, <2>3, <2>4, <2>5, <2>6, <2>7 DEF Next
<1> QED
  BY <1>1, <1>2, Invariance, PTL DEF Spec

-----------------------------------------------------------------------------
(* The rate is kept                                                        *)

\* The sum of the debts, as MapThenSumSet computes it: g gives it for the sets
\* of D, which are taken apart one key after the other.
Pick(s) == CHOOSE x \in s : TRUE
IsSum(g, d, D) == g = [s \in D |-> IF s = {} THEN 0 ELSE d[Pick(s)] + g[s \ {Pick(s)}]]

\* The sets of at most n keys.
Small(n) == {s \in SUBSET Keys : Cardinality(s) <= n}

\* What holds for 0 and for n + 1 whenever for n, holds for every number.
LEMMA Induction ==
    ASSUME NEW S, 0 \in S, \A n \in Nat : n \in S => n + 1 \in S
    PROVE  Nat \subseteq S
<1>1. SUFFICES ASSUME Nat \ S # {} PROVE FALSE
    OBVIOUS
<1>2. PICK m \in Nat \ S : \A k \in Nat \ S : m <= k
    BY <1>1, LeastNumber
<1>3. m # 0 /\ m - 1 \in Nat /\ m - 1 \in S
    BY <1>2
<1> QED BY <1>2, <1>3

\* A set of keys is finite, and smaller without one of them.
LEMMA SubsetFacts ==
    ASSUME NEW s \in SUBSET Keys
    PROVE  /\ IsFiniteSet(s) /\ Cardinality(s) \in Nat
           /\ s # {} => Pick(s) \in s /\ Cardinality(s \ {Pick(s)}) = Cardinality(s) - 1
           /\ Cardinality(s) = 0 <=> s = {}
<1>1. IsFiniteSet(s)
  BY RateLimiterAssumption, FS_Subset
<1>2. s # {} => Pick(s) \in s
  BY DEF Pick
<1> QED
  BY <1>1, <1>2, FS_CardinalityType, FS_EmptySet, FS_RemoveElement

\* What an induction over the size of sets of keys needs.
\* What an induction over the size of sets of keys needs.
LEMMA SmallFacts ==
    /\ Small(0) = {{}}
    /\ \A n \in Nat : \A s \in Small(n) : s \in Small(n + 1)
    /\ \A n \in Nat : {} \in Small(n)
    /\ \A n \in Nat : \A s \in Small(n + 1) :
          s # {} => Pick(s) \in s /\ Pick(s) \in Keys /\ s \ {Pick(s)} \in Small(n)
    /\ Cardinality(Keys) \in Nat /\ Small(Cardinality(Keys)) = SUBSET Keys
<1>1. \A s \in SUBSET Keys :
         /\ IsFiniteSet(s) /\ Cardinality(s) \in Nat
         /\ s # {} => Pick(s) \in s /\ Cardinality(s \ {Pick(s)}) = Cardinality(s) - 1
         /\ Cardinality(s) = 0 <=> s = {}
  BY SubsetFacts
<1>2. \A n : \A s : s \in Small(n) <=> s \in SUBSET Keys /\ Cardinality(s) <= n
  BY DEF Small
<1>3. {} \in SUBSET Keys /\ Cardinality({}) = 0
  BY FS_EmptySet
<1>4. Small(0) = {{}}
  <2>1. ASSUME NEW s \in Small(0) PROVE s = {}
    <3>1. s \in SUBSET Keys /\ Cardinality(s) <= 0
      BY <2>1, <1>2
    <3>2. Cardinality(s) \in Nat /\ (Cardinality(s) = 0 <=> s = {})
      BY <3>1, <1>1
    <3> QED
      BY <3>1, <3>2
  <2> QED
    BY <2>1, <1>2, <1>3
<1>5. ASSUME NEW n \in Nat, NEW s \in Small(n) PROVE s \in Small(n + 1)
  <2>1. s \in SUBSET Keys /\ Cardinality(s) <= n /\ Cardinality(s) \in Nat
    BY <1>1, <1>2
  <2>2. Cardinality(s) <= n + 1
    BY <2>1
  <2> QED
    BY <2>1, <2>2, <1>2
<1>6. ASSUME NEW n \in Nat, NEW s \in Small(n + 1), s # {}
      PROVE  Pick(s) \in s /\ Pick(s) \in Keys /\ s \ {Pick(s)} \in Small(n)
  <2>1. /\ s \in SUBSET Keys /\ Cardinality(s) <= n + 1 /\ Cardinality(s) \in Nat
        /\ Pick(s) \in s /\ Cardinality(s \ {Pick(s)}) = Cardinality(s) - 1
    BY <1>1, <1>2, <1>6
  <2>2. Cardinality(s \ {Pick(s)}) <= n
    BY <2>1
  <2> QED
    BY <2>1, <2>2, <1>2
<1>7. \A n \in Nat : {} \in Small(n)
  BY <1>2, <1>3
<1>8. Cardinality(Keys) \in Nat /\ Small(Cardinality(Keys)) = SUBSET Keys
  BY RateLimiterAssumption, FS_Subset, FS_CardinalityType DEF Small
<1> QED
  BY <1>4, <1>5, <1>6, <1>7, <1>8

\* The recursion of MapThenSumSet defines a function.
\* The recursion of MapThenSumSet defines a function.
LEMMA SumExists ==
    ASSUME NEW d
    PROVE  \E g : IsSum(g, d, SUBSET Keys)
<1> DEFINE P == {n \in Nat : \E g : IsSum(g, d, Small(n))}
<1>1. 0 \in P
  <2>1. Small(0) = {{}}
    BY SmallFacts
  <2>2. IsSum([s \in {{}} |-> 0], d, Small(0))
    BY <2>1 DEF IsSum
  <2> QED
    BY <2>2
<1>2. ASSUME NEW n \in Nat, n \in P PROVE n + 1 \in P
  <2>1. PICK g : IsSum(g, d, Small(n))
    BY <1>2
  <2> DEFINE h == [s \in Small(n + 1) |-> IF s = {} THEN 0 ELSE d[Pick(s)] + g[s \ {Pick(s)}]]
  <2>2. ASSUME NEW s \in Small(n) PROVE h[s] = g[s]
    <3>1. s \in Small(n + 1)
      BY SmallFacts
    <3> QED
      BY <2>1, <3>1 DEF IsSum
  <2>3. ASSUME NEW s \in Small(n + 1), s # {} PROVE s \ {Pick(s)} \in Small(n)
    BY <2>3, SmallFacts
  <2>4. \A s \in Small(n + 1) : h[s] = IF s = {} THEN 0 ELSE d[Pick(s)] + h[s \ {Pick(s)}]
    BY <2>2, <2>3
  <2>5. IsSum(h, d, Small(n + 1))
    BY <2>4 DEF IsSum
  <2> QED
    BY <2>5
<1>3. Nat \subseteq P
  <2> HIDE DEF P
  <2> QED
    BY <1>1, <1>2, Induction
<1>4. Cardinality(Keys) \in Nat /\ Small(Cardinality(Keys)) = SUBSET Keys
  BY SmallFacts
<1>5. Cardinality(Keys) \in P
  BY <1>3, <1>4
<1> QED
  BY <1>4, <1>5

\* Sum is what this function gives for all keys.
\* Sum is what this function gives for all keys.
LEMMA SumIs ==
    ASSUME NEW d
    PROVE  \E g : IsSum(g, d, SUBSET Keys) /\ Sum(d) = g[Keys]
<1> DEFINE g == CHOOSE g : IsSum(g, d, SUBSET Keys)
<1>1. Sum(d) = g[Keys]
  BY Zenon DEF Sum, MapThenSumSet, MapThenFoldSet, IsSum, Pick
<1>2. IsSum(g, d, SUBSET Keys)
  BY SumExists
<1> QED
  BY <1>1, <1>2

\* The sum of numbers is a number.
\* The sum of numbers is a number.
LEMMA SumType ==
    ASSUME NEW d \in [Keys -> Nat]
    PROVE  Sum(d) \in Nat
<1>1. PICK g : IsSum(g, d, SUBSET Keys) /\ Sum(d) = g[Keys]
  BY SumIs
<1> DEFINE P == {n \in Nat : \A s \in Small(n) : g[s] \in Nat}
<1>2. 0 \in P
  BY <1>1, SmallFacts DEF IsSum
<1>3. ASSUME NEW n \in Nat, n \in P PROVE n + 1 \in P
  <2>1. ASSUME NEW s \in Small(n + 1), s # {} PROVE g[s] \in Nat
    <3>1. s \ {Pick(s)} \in Small(n) /\ Pick(s) \in Keys
      BY <2>1, SmallFacts
    <3>2. g[s] = d[Pick(s)] + g[s \ {Pick(s)}]
      BY <1>1, <2>1 DEF IsSum, Small
    <3> QED
      BY <3>1, <3>2, <1>3
  <2>2. g[{}] \in Nat
    BY <1>1 DEF IsSum
  <2>3. \A s \in Small(n + 1) : g[s] \in Nat
    BY <2>1, <2>2, Zenon
  <2> QED
    BY <2>3
<1>4. Nat \subseteq P
  <2> HIDE DEF P
  <2> QED
    BY <1>2, <1>3, Induction
<1>5. Cardinality(Keys) \in Nat /\ Keys \in Small(Cardinality(Keys))
  BY SmallFacts
<1> QED
  BY <1>1, <1>4, <1>5

\* One number that changes changes the sum by as much.
\* One number that changes changes the sum by as much.
LEMMA SumChange ==
    ASSUME NEW d \in [Keys -> Int], NEW e \in [Keys -> Int], NEW k \in Keys,
           \A j \in Keys \ {k} : e[j] = d[j]
    PROVE  Sum(e) = Sum(d) + e[k] - d[k]
<1>1. PICK g : IsSum(g, d, SUBSET Keys) /\ Sum(d) = g[Keys]
  BY SumIs
<1>2. PICK h : IsSum(h, e, SUBSET Keys) /\ Sum(e) = h[Keys]
  BY SumIs
<1> DEFINE Differ(s) == g[s] \in Int /\ h[s] = g[s] + IF k \in s THEN e[k] - d[k] ELSE 0
           P == {n \in Nat : \A s \in Small(n) : Differ(s)}
<1>3. Differ({})
  BY <1>1, <1>2 DEF IsSum
<1>4. 0 \in P
  BY <1>3, SmallFacts
<1>5. ASSUME NEW n \in Nat, n \in P PROVE n + 1 \in P
  <2>1. ASSUME NEW s \in Small(n + 1), s # {} PROVE Differ(s)
    <3> DEFINE x == Pick(s)
               r == s \ {x}
    <3>1. r \in Small(n) /\ x \in Keys /\ x \in s
      BY <2>1, SmallFacts
    <3>2. g[s] = d[x] + g[r] /\ h[s] = e[x] + h[r]
      BY <1>1, <1>2, <2>1 DEF IsSum, Small
    <3>3. Differ(r)
      BY <1>5, <3>1
    <3>4. k \in r <=> k \in s /\ k # x
      OBVIOUS
    <3> HIDE DEF x, r
    <3>5. CASE x = k
      BY <3>1, <3>2, <3>3, <3>4, <3>5
    <3>6. CASE x # k
      BY <3>1, <3>2, <3>3, <3>4, <3>6
    <3> QED
      BY <3>5, <3>6
  <2> HIDE DEF Differ
  <2> QED
    BY <2>1, <1>3
<1>6. Nat \subseteq P
  <2> HIDE DEF P
  <2> QED
    BY <1>4, <1>5, Induction
<1>7. Cardinality(Keys) \in Nat /\ Keys \in Small(Cardinality(Keys))
  BY SmallFacts
<1>8. Differ(Keys)
  BY <1>6, <1>7
<1> QED
  BY <1>1, <1>2, <1>8
\* The debts are numbers.
LEMMA DebtsType ==
    ASSUME TypeOK
    PROVE  Debts \in [Keys -> Nat] /\ Sum(Debts) \in Nat
<1>1. ASSUME NEW k \in Keys PROVE Bucket(k).debt \in Nat
  BY DEF TypeOK, Buckets, Bucket
<1>2. Debts \in [Keys -> Nat]
  BY <1>1 DEF Debts
<1> QED
  BY <1>2, SumType

\* A round changes what is owed by what it does to the bucket it is at; a
\* bucket that goes owes nothing.
LEMMA MoveOnOwes ==
    ASSUME TypeOK, TypeOK', NEW k \in DOMAIN buckets, NEW b \in Buckets,
           NEW p \in Nat, NEW e \in Nat, MoveOn(k, b, p, e)
    PROVE  /\ Sum(Debts)' = Sum(Debts) + b.debt - buckets[k].debt
           /\ batch' # None /\ batch'.processed = p /\ batch'.executed = e
<1>0. batch' # None /\ batch'.processed = p /\ batch'.executed = e
  <2>1. batch' \in BatchSet
    BY MoveOnFacts
  <2> QED
    BY <2>1, NoneAssumption DEF MoveOn, BatchSet
<1>1. k \in Keys /\ DOMAIN buckets \subseteq Keys /\ b.debt \in Nat
  BY DEF TypeOK, Buckets
<1>2. Debts \in [Keys -> Int] /\ Debts' \in [Keys -> Int]
  <2>1. Debts \in [Keys -> Nat]
    BY DebtsType
  <2>2. ASSUME NEW j \in Keys PROVE Bucket(j)'.debt \in Int
    BY DEF TypeOK, Buckets, Bucket
  <2> QED
    BY <2>1, <2>2 DEF Debts
<1>3. Debts[k] = buckets[k].debt
  BY <1>1 DEF Debts, Bucket
<1>4. CASE b.actions = <<>> /\ b.debt <= 0
  <2>1. buckets' = [j \in DOMAIN WithBucket(k, b) \ {k} |-> WithBucket(k, b)[j]]
    BY <1>4 DEF MoveOn
  <2>2. /\ DOMAIN buckets' = DOMAIN buckets \ {k}
        /\ \A j \in DOMAIN buckets' : buckets'[j] = buckets[j]
    BY <2>1 DEF WithBucket
  <2>3. b.debt = 0
    BY <1>1, <1>4
  <2>4. Debts'[k] = 0 /\ \A j \in Keys \ {k} : Debts'[j] = Debts[j]
    BY <1>1, <2>2 DEF Debts, Bucket
  <2> QED
    BY <2>3, <2>4, <1>1, <1>2, <1>3, <1>0, SumChange
<1>5. CASE ~(b.actions = <<>> /\ b.debt <= 0)
  <2>1. buckets' = WithBucket(k, b)
    BY <1>5 DEF MoveOn
  <2>2. /\ DOMAIN buckets' = DOMAIN buckets
        /\ \A j \in DOMAIN buckets' : buckets'[j] = IF j = k THEN b ELSE buckets[j]
    BY <2>1 DEF WithBucket
  <2>3. Debts'[k] = b.debt /\ \A j \in Keys \ {k} : Debts'[j] = Debts[j]
    BY <1>1, <2>2 DEF Debts, Bucket
  <2> QED
    BY <2>3, <1>1, <1>2, <1>3, <1>0, SumChange
<1> QED
  BY <1>4, <1>5

\* What a pass has executed above what it has counted so far, of batchSize at
\* most, is owed as well.
Counted == IF batch.processed > BatchSize THEN BatchSize ELSE batch.processed

ExcessIsOwed ==
    Rate > 0 =>
        lead + (IF batch = None THEN 0 ELSE batch.executed - Counted) <= Sum(Debts)

LEMMA NextOwed ==
    ASSUME Inv, Inv', ExcessIsOwed, Rate > 0, [Next]_vars
    PROVE  ExcessIsOwed'
<1> USE BatchNumbers
<1>1. TypeOK /\ TypeOK' /\ Rate \in Int /\ lead \in Nat /\ lead' \in Nat
  BY RateLimiterAssumption DEF Inv, IInv, TypeOK
<1>2. Sum(Debts) \in Int
  BY <1>1, DebtsType
<1>3. batch # None => batch.processed \in Nat /\ batch.executed \in Nat
  BY <1>1 DEF TypeOK
<1>4. ASSUME NEW k \in Keys, NEW w \in Weights, AddAction(k, w)
      PROVE  ExcessIsOwed'
  <2>1. \A j \in Keys : Bucket(j)'.debt = Bucket(j).debt
    <3>1. CASE Exceeds(k, w)
      BY <1>4, <3>1 DEF AddAction, WithBucket, Bucket
    <3>2. CASE ~Exceeds(k, w)
      <4> DEFINE c == [Bucket(k) EXCEPT !.actions = Append(@, w), !.weight = @ + w]
      <4>1. buckets' = WithBucket(k, c)
        BY <1>4, <3>2 DEF AddAction
      <4>2. c.debt = Bucket(k).debt
        <5>1. Bucket(k) \in Buckets
          BY <1>1 DEF Bucket, TypeOK, Buckets
        <5> QED
          BY <5>1 DEF Buckets
      <4> HIDE DEF c
      <4> QED
        BY <4>1, <4>2 DEF WithBucket, Bucket
    <3> QED
      BY <3>1, <3>2
  <2>2. Debts' = Debts
    BY <2>1 DEF Debts
  <2>3. lead' = lead /\ batch = None /\ batch' = None
    BY <1>4 DEF AddAction
  <2> QED
    BY <2>2, <2>3 DEF ExcessIsOwed
<1>5. CASE Timeout
  <2>1. buckets' = buckets /\ lead' = lead /\ batch = None
    BY <1>5 DEF Timeout
  <2>2. batch' # None => batch'.processed = 0 /\ batch'.executed = 0
    BY <1>5 DEF Timeout
  <2>3. Debts' = Debts
    BY <2>1 DEF Debts, Bucket
  <2>4. batch' # None => Counted' = 0
    BY <2>2 DEF Counted
  <2> QED
    BY <1>1, <1>2, <2>1, <2>2, <2>3, <2>4 DEF ExcessIsOwed
<1>6. CASE Execute
  <2> DEFINE k == batch.at
             b == buckets[k]
             w == Head(b.actions)
             cost == IF w > 1 THEN w ELSE 1
             taken == [b EXCEPT !.actions = Tail(@), !.weight = @ - w]
             total == batch.processed + cost
             over == IF BatchSize >= 1 /\ total > BatchSize THEN total - BatchSize ELSE 0
  <2>1. /\ batch # None /\ batch.processed < BatchSize
        /\ k \in DOMAIN buckets /\ lead' = lead
    BY <1>6, BatchNumbers DEF Execute, Running, Inv, AtBucket
  <2>2. b \in Buckets /\ b.debt \in Nat
    BY <1>1, <2>1 DEF TypeOK, Buckets
  <2>3. Counted = batch.processed /\ lead + batch.executed - batch.processed <= Sum(Debts)
    BY <1>1, <1>3, <2>1 DEF Counted, ExcessIsOwed
  <2>4. ASSUME batch' # None,
               Sum(Debts)' = Sum(Debts), batch'.processed = batch.processed,
               batch'.executed = batch.executed
        PROVE  ExcessIsOwed'
    BY <1>1, <1>2, <1>3, <2>1, <2>3, <2>4 DEF ExcessIsOwed, Counted
  <2>5. CASE b.actions = <<>>
    <3>1. MoveOn(k, b, batch.processed, batch.executed)
      BY <1>6, <2>5 DEF Execute
    <3>2. Sum(Debts)' = Sum(Debts) + b.debt - b.debt
      BY <3>1, <1>1, <1>3, <2>1, <2>2, MoveOnOwes
    <3> QED
      BY <3>1, <3>2, <1>1, <1>2, <1>3, <2>1, <2>2, <2>4, MoveOnOwes
  <2>6. CASE b.actions # <<>>
    <3>1. w \in Nat /\ Tail(b.actions) \in Seq(Weights)
      <4>1. b.actions \in Seq(Weights)
        BY <2>2 DEF Buckets
      <4>2. ASSUME NEW a \in Seq(Weights), a # <<>>
            PROVE  Head(a) \in Weights /\ Tail(a) \in Seq(Weights)
        BY <4>2
      <4> QED
        BY <2>6, <4>1, <4>2, RateLimiterAssumption
    <3>2. cost \in Nat /\ total \in Nat /\ over \in Nat /\ cost >= 1
      <4>1. cost \in Nat /\ cost >= 1
        <5> HIDE DEF w
        <5> QED
          BY <3>1
      <4>2. total \in Nat
        <5> HIDE DEF cost
        <5> QED
          BY <1>3, <2>1, <4>1
      <4>3. over \in Nat
        <5> HIDE DEF total
        <5> QED
          BY <4>2, BatchNumbers
      <4> QED
        BY <4>1, <4>2, <4>3
    <3>3. taken \in Buckets /\ taken.debt = b.debt
      <4>1. b.weight \in Int /\ b.weight - w \in Int
        BY <2>2, <3>1 DEF Buckets
      <4> HIDE DEF b, w
      <4> QED
        BY <2>2, <3>1, <4>1 DEF Buckets
    <3>4. [taken EXCEPT !.debt = @ + over] \in Buckets
      <4>1. taken.debt + over \in Nat
        <5> HIDE DEF taken, over, b
        <5> QED
          BY <2>2, <3>2, <3>3
      <4> HIDE DEF taken, over
      <4> QED
        BY <4>1, <3>3 DEF Buckets
    <3>5. [taken EXCEPT !.debt = @ + over].debt = b.debt + over
      <4> HIDE DEF taken, over, b
      <4> QED
        BY <3>3 DEF Buckets
    <3>6. \/ MoveOn(k, [taken EXCEPT !.debt = @ + over], total, batch.executed + cost)
          \/ MoveOn(k, taken, batch.processed, batch.executed)
      BY <1>6, <2>6 DEF Execute
    <3>8. total = batch.processed + cost
          /\ over = IF total > BatchSize THEN total - BatchSize ELSE 0
      BY BatchNumbers, <2>1, <1>3, <3>2
    <3> HIDE DEF k, b, taken, over, total, cost
    <3>9. CASE MoveOn(k, taken, batch.processed, batch.executed)
      <4>1. /\ Sum(Debts)' = Sum(Debts) + taken.debt - buckets[k].debt
            /\ batch'.processed = batch.processed /\ batch'.executed = batch.executed
            /\ batch' # None
        BY <3>9, <1>1, <1>3, <2>1, <3>3, MoveOnOwes
      <4>2. Sum(Debts)' = Sum(Debts)
        BY <4>1, <3>3, <1>2, <2>2 DEF b
      <4> QED
        BY <4>1, <4>2, <2>4
    <3>10. CASE MoveOn(k, [taken EXCEPT !.debt = @ + over], total, batch.executed + cost)
      <4>1. /\ Sum(Debts)' = Sum(Debts) + (b.debt + over) - b.debt
            /\ batch'.processed = total /\ batch'.executed = batch.executed + cost
            /\ batch' # None
        <5>1. batch.executed + cost \in Nat
          BY <1>3, <2>1, <3>2
        <5> QED
          BY <5>1, <3>2, <3>10, <1>1, <2>1, <3>4, <3>5, MoveOnOwes DEF b
      <4>2. Sum(Debts)' = Sum(Debts) + over
        BY <4>1, <1>2, <2>2, <3>2
      <4>3. Counted' = IF total > BatchSize THEN BatchSize ELSE total
        BY <4>1 DEF Counted
      <4>4. lead' + (batch'.executed - Counted') <= Sum(Debts)'
        BY <4>1, <4>2, <4>3, <3>2, <3>8, <2>1, <2>3, <1>1, <1>2, <1>3
      <4> QED
        BY <4>1, <4>4 DEF ExcessIsOwed
    <3> QED
      BY <3>6, <3>9, <3>10
  <2> QED
    BY <2>5, <2>6
<1>7. CASE PayDebt
  <2> DEFINE k == batch.at
             b == buckets[k]
             c == [b EXCEPT !.debt = @ - 1]
  <2>1. /\ batch # None /\ batch.processed < BatchSize
        /\ k \in DOMAIN buckets /\ lead' = lead /\ b.debt > 0
    BY <1>7, BatchNumbers DEF PayDebt, Running, Inv, AtBucket
  <2>2. b \in Buckets /\ b.debt \in Nat /\ b.debt - 1 \in Nat
    BY <1>1, <2>1 DEF TypeOK, Buckets
  <2>3. c \in Buckets /\ c.debt = b.debt - 1
    <3> HIDE DEF b
    <3> QED
      BY <2>2 DEF Buckets
  <2>4. MoveOn(k, c, batch.processed + 1, batch.executed)
    BY <1>7 DEF PayDebt
  <2> HIDE DEF c
  <2>6. /\ Sum(Debts)' = Sum(Debts) + c.debt - b.debt
        /\ batch'.processed = batch.processed + 1 /\ batch'.executed = batch.executed
        /\ batch' # None
    <3>1. batch.processed + 1 \in Nat /\ batch.executed \in Nat
      BY <1>3, <2>1
    <3> QED
      BY <3>1, <1>1, <2>1, <2>3, <2>4, MoveOnOwes
  <2>7. Sum(Debts)' = Sum(Debts) - 1
    <3> HIDE DEF b
    <3> QED
      BY <2>6, <2>2, <2>3, <1>2
  <2>8. Counted = batch.processed /\ Counted' = batch.processed + 1
    BY <1>3, <2>1, <2>6, BatchNumbers DEF Counted
  <2> QED
    BY <1>1, <1>2, <1>3, <2>1, <2>6, <2>7, <2>8 DEF ExcessIsOwed
<1>8. CASE EndPass
  <2>1. buckets' = buckets /\ batch' = None /\ batch # None
    BY <1>8 DEF EndPass
  <2>2. Debts' = Debts
    BY <2>1 DEF Debts, Bucket
  <2>3. Sum(Debts)' = Sum(Debts)
    BY <2>2, SMT
  <2>4. lead' = IF lead + batch.executed - BatchSize > 0
                THEN lead + batch.executed - BatchSize ELSE 0
    BY <1>8, BatchNumbers DEF EndPass
  <2>5. Counted <= BatchSize /\ Counted \in Int
    BY <1>3, <2>1, BatchNumbers DEF Counted
  <2>6. 0 <= Sum(Debts)
    BY <1>1, DebtsType
  <2> QED
    BY <1>1, <1>2, <1>3, <2>1, <2>3, <2>4, <2>5, <2>6 DEF ExcessIsOwed
<1>9. CASE Tick
  <2>1. buckets' = buckets /\ lead' = lead /\ batch' = batch
    BY <1>9 DEF Tick
  <2> QED
    BY <2>1 DEF ExcessIsOwed, Counted, Debts, Bucket
<1>10. CASE UNCHANGED vars
  <2>1. buckets' = buckets /\ lead' = lead /\ batch' = batch
    BY <1>10 DEF vars
  <2> QED
    BY <2>1 DEF ExcessIsOwed, Counted, Debts, Bucket
<1> QED
  BY <1>4, <1>5, <1>6, <1>7, <1>8, <1>9, <1>10 DEF Next

\* However heavy the actions are and whichever buckets they come from, what is
\* executed above batchSize per pass is owed as debt and delays later passes
\* (processBatch()).
THEOREM RateIsAlwaysKept == Spec => []RateIsKept
<1>1. Init => ExcessIsOwed
  <2> SUFFICES ASSUME Init PROVE ExcessIsOwed
    OBVIOUS
  <2>1. TypeOK
    BY InitIInv DEF IInv
  <2>2. 0 <= Sum(Debts)
    BY <2>1, DebtsType
  <2> QED
    BY <2>2 DEF Init, ExcessIsOwed
<1>2. Inv /\ Inv' /\ ExcessIsOwed /\ [Next]_vars => ExcessIsOwed'
  BY NextOwed DEF ExcessIsOwed
<1>3. Inv /\ ExcessIsOwed => RateIsKept
  <2> SUFFICES ASSUME Inv, ExcessIsOwed, Rate > 0, batch = None PROVE lead <= Sum(Debts)
    BY DEF RateIsKept
  <2> QED
    BY DEF ExcessIsOwed, Inv, IInv, TypeOK
<1> QED
  BY <1>1, <1>2, <1>3, Invariance, PTL DEF Spec
=============================================================================
