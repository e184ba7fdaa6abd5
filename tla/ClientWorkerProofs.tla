------------------------- MODULE ClientWorkerProofs -------------------------
(***************************************************************************)
(* Proofs about ClientWorker, for any number of workers, ids, connections  *)
(* and packets: a session is with one worker and one connection, the ones  *)
(* that the tables of the manager and of the worker lead to, and no packet *)
(* that follows the ack of its session is lost on the way.                 *)
(***************************************************************************)
EXTENDS ClientWorker, FiniteSetTheorems, WellFoundedInduction, TLAPS

-----------------------------------------------------------------------------
(* The state                                                               *)

\* A use of an id, which its number tells from the others.
Token == [id : Ids, gen : Nat]
Connection == [phase : {"start", "run", "ended"}, mode : Modes, id : Ids, gen : Nat,
               msg : {None, "data", "cancel"}, routed : BOOLEAN, stop : BOOLEAN]
DirectPacket == [id : Ids, gen : Nat, t : {"data", "cancel"}]
MgrState == [in : [Modes -> Token \cup {None}], index : [Modes -> Nat],
             blocked : {None} \cup [w : Workers, p : DirectPacket],
             valid : [Modes -> SUBSET Workers], lost : BOOLEAN]
PeerState == [st : {"idle", "asked", "acked", "given up"}, gen : Nat]
OutPacket == [t : {"ack", "end", "cancel"}, ids : SUBSET Token]

TypeOK ==
  /\ node \in [Workers -> [Keys -> {Free} \cup Connection]]
  /\ byId \in [Workers -> [Ids -> Keys \cup {None}]]
  /\ any \in [Workers -> [Modes -> Seq(Token)]]
  /\ direct \in [Workers -> Seq(DirectPacket)]
  /\ out \in [Workers -> Seq(OutPacket)]
  /\ done \in [Workers -> Seq(Keys)]
  /\ pc \in [Workers -> {"run", "stopping", "cancels", "ended"}]
  /\ mgr \in MgrState
  /\ sessions \in [StreamIds -> Workers \cup {None}]
  /\ peer \in [Ids -> PeerState]
  /\ sent \in [any : [Modes -> Seq(Token)], direct : Seq(DirectPacket)]
  /\ bound \in [requests : Nat, directs : Nat, stops : Nat]

In(x, s) == \E j \in 1 .. Len(s) : s[j] = x
Distinct(s) == \A i, j \in 1 .. Len(s) : s[i] = s[j] => i = j

\* Where a request is: with the peer's socket, in the manager, in the pipe of a
\* worker, with a connection (which may be running, or not be routed yet).
AtSent(t) == In(t, sent.any[ModeOf(t.id)])
AtMgr(t) == mgr.in[ModeOf(t.id)] = t
AtAny(t, w) == In(t, any[w][ModeOf(t.id)])
AtNode(t, w, k) == node[w][k] # Free /\ Session(node[w][k]) = t
RunAt(t, w, k) == AtNode(t, w, k) /\ node[w][k].phase # "ended"
OpenAt(t, w, k) == AtNode(t, w, k) /\ node[w][k].routed # TRUE
Waits(t) == AtSent(t) \/ AtMgr(t) \/ \E w \in Workers : AtAny(t, w)
Runs(t) == \E w \in Workers, k \in Keys : RunAt(t, w, k)

\* What is known of it: a packet of a worker that says that it is over, one that
\* acknowledges it, a peer that read that, and a packet of the peer that follows.
Over(t) == \E w \in Workers : \E p \in OutPacket : In(p, out[w]) /\ p.t # "ack" /\ t \in p.ids
AckSent(t) == \E w \in Workers : \E p \in OutPacket : In(p, out[w]) /\ p.t = "ack" /\ t \in p.ids
AckRead(t) == peer[t.id].gen = t.gen /\ peer[t.id].st = "acked"
Follows(t) ==
  \/ \E p \in DirectPacket : Session(p) = t /\ In(p, sent.direct)
  \/ mgr.blocked # None /\ Session(mgr.blocked.p) = t
  \/ \E w \in Workers : \E p \in DirectPacket : Session(p) = t /\ In(p, direct[w])

-----------------------------------------------------------------------------
(* The inductive invariant                                                 *)

\* Requests are in the pipes of their mode, and connections have it.
ModesKept ==
  /\ \A m \in Modes, t \in Token : In(t, sent.any[m]) \/ mgr.in[m] = t => ModeOf(t.id) = m
  /\ \A w \in Workers, m \in Modes, t \in Token : In(t, any[w][m]) => ModeOf(t.id) = m
  /\ \A w \in Workers, k \in Keys : node[w][k] # Free => node[w][k].mode = ModeOf(node[w][k].id)

\* No pipe has a request, or a key, twice.
PipesDistinct ==
  /\ \A m \in Modes : Distinct(sent.any[m])
  /\ \A w \in Workers : Distinct(done[w])
  /\ \A w \in Workers, m \in Modes : Distinct(any[w][m])

\* A request is in one place.
OnePlace ==
  \A t \in Token :
    /\ AtSent(t) => ~AtMgr(t)
    /\ \A w \in Workers : AtAny(t, w) => ~AtSent(t) /\ ~AtMgr(t)
    /\ \A w, v \in Workers : AtAny(t, w) /\ AtAny(t, v) => w = v
    /\ \A w \in Workers, k \in Keys : AtNode(t, w, k) => ~Waits(t)
    /\ \A w, v \in Workers, k, l \in Keys : AtNode(t, w, k) /\ AtNode(t, v, l) => w = v /\ k = l

\* The numbers of requests that are to come are new.
NumbersUsed ==
  \A t \in Token :
    \/ Waits(t) \/ Over(t) \/ AckSent(t) \/ peer[t.id].gen = t.gen \/ Follows(t)
    \/ \E w \in Workers, k \in Keys : AtNode(t, w, k)
    => t.gen <= bound.requests

\* The peer of a req request waits for its answer.
PeerWaits ==
  \A t \in Token :
    t.id \in ReqIds /\ (Waits(t) \/ Runs(t)) => peer[t.id].st # "idle" /\ peer[t.id].gen = t.gen

\* What is said to be over is.
OverIsOver == \A t \in Token : Over(t) => ~Waits(t) /\ ~Runs(t)

\* What is acknowledged is routed.
AckedIsRouted ==
  \A t \in Token :
    AckSent(t) \/ AckRead(t) \/ Follows(t) =>
      ~Waits(t) /\ \A w \in Workers, k \in Keys : ~OpenAt(t, w, k)

\* The connections that are done are those that ended.
DoneIsEnded ==
  \A w \in Workers, k \in Keys :
    In(k, done[w]) <=> node[w][k] # Free /\ node[w][k].phase = "ended"

\* A worker has no two connections for an id, also counting those that ended.
IdsApart ==
  \A w \in Workers, k, l \in Keys :
    node[w][k] # Free /\ node[w][l] # Free /\ node[w][k].id = node[w][l].id => k = l

\* A worker has no more connections of a mode than it may.
WithinMax ==
  \A w \in Workers, m \in Modes : Cardinality(Items(w, m)) <= MaxOf(m)

\* Nothing runs in a worker whose tasks are done.
TasksDone ==
  \A w \in Workers : pc[w] \in {"cancels", "ended"} => \A k \in Keys : ~Running(w, k)

\* The session table names the worker where a session is queued or runs; that is
\* once.
TableAgrees ==
  /\ \A t, u \in Token, w \in Workers :
       t.id \in StreamIds /\ AtAny(t, w) /\ AtAny(u, w) /\ t.id = u.id => t = u
  /\ \A t, u \in Token, w \in Workers, k \in Keys :
       t.id \in StreamIds /\ AtAny(t, w) /\ RunAt(u, w, k) => t.id # u.id
  /\ \A i \in StreamIds, w \in Workers :
       sessions[i] = w <=>
         \E t \in Token : t.id = i /\ (AtAny(t, w) \/ \E k \in Keys : RunAt(t, w, k))

RequestInv == OnePlace /\ NumbersUsed /\ PeerWaits /\ OverIsOver /\ AckedIsRouted
WorkerInv == DoneIsEnded /\ IdsApart /\ WithinMax /\ TasksDone /\ SessionReachable
Inv ==
  /\ TypeOK /\ ModesKept /\ PipesDistinct
  /\ RequestInv /\ WorkerInv /\ TableAgrees /\ NoDirectLost

-----------------------------------------------------------------------------
(* Pipes                                                                   *)

\* A request that is put into a pipe is in it, with those before it.
LEMMA AppendIn ==
    ASSUME NEW S, NEW s \in Seq(S), NEW x \in S
    PROVE  /\ Append(s, x) \in Seq(S)
           /\ \A y : In(y, Append(s, x)) <=> In(y, s) \/ y = x
           /\ Distinct(s) /\ ~In(x, s) => Distinct(Append(s, x))
<1>1. /\ Append(s, x) \in Seq(S)
      /\ Len(Append(s, x)) = Len(s) + 1 /\ Len(s) \in Nat
      /\ \A j \in 1 .. Len(s) : Append(s, x)[j] = s[j]
      /\ Append(s, x)[Len(s) + 1] = x
  OBVIOUS
<1>2. ASSUME NEW y PROVE In(y, Append(s, x)) <=> In(y, s) \/ y = x
  BY <1>1 DEF In
<1>3. ASSUME Distinct(s), ~In(x, s) PROVE Distinct(Append(s, x))
  BY <1>1, <1>3 DEF In, Distinct
<1> QED
  BY <1>1, <1>2, <1>3

\* The head of a pipe is taken from it, once if it is there once.
LEMMA TailIn ==
    ASSUME NEW S, NEW s \in Seq(S), s # <<>>
    PROVE  /\ Tail(s) \in Seq(S) /\ Head(s) \in S /\ In(Head(s), s)
           /\ \A y : In(y, s) <=> In(y, Tail(s)) \/ y = Head(s)
           /\ Distinct(s) => Distinct(Tail(s)) /\ ~In(Head(s), Tail(s))
<1>1. /\ Tail(s) \in Seq(S) /\ Head(s) \in S /\ Head(s) = s[1]
      /\ Len(s) \in Nat \ {0} /\ Len(Tail(s)) = Len(s) - 1
      /\ \A j \in 1 .. Len(s) - 1 : Tail(s)[j] = s[j + 1]
  OBVIOUS
<1>2. In(Head(s), s)
  BY <1>1 DEF In
<1>3. ASSUME NEW y, In(y, Tail(s)) PROVE In(y, s)
  BY <1>1, <1>3 DEF In
<1>4. ASSUME NEW y, In(y, s), y # Head(s) PROVE In(y, Tail(s))
  <2>1. PICK j \in 1 .. Len(s) : s[j] = y
    BY <1>4 DEF In
  <2>2. j - 1 \in 1 .. Len(Tail(s)) /\ Tail(s)[j - 1] = y
    BY <1>1, <1>4, <2>1
  <2> QED
    BY <2>2 DEF In
<1>5. ASSUME Distinct(s) PROVE Distinct(Tail(s)) /\ ~In(Head(s), Tail(s))
  BY <1>1, <1>5 DEF In, Distinct
<1> QED
  BY <1>1, <1>2, <1>3, <1>4, <1>5

\* What is left of a pipe that is cut was in it.
LEMMA CutIn ==
    ASSUME NEW S, NEW s \in Seq(S), NEW n \in 0 .. Len(s)
    PROVE  /\ SubSeq(s, 1, n) \in Seq(S)
           /\ \A y : In(y, SubSeq(s, 1, n)) => In(y, s)
<1>1. /\ SubSeq(s, 1, n) \in Seq(S) /\ Len(SubSeq(s, 1, n)) = n /\ Len(s) \in Nat
      /\ \A j \in 1 .. n : SubSeq(s, 1, n)[j] = s[j]
  OBVIOUS
<1> QED
  BY <1>1 DEF In

\* An empty pipe has nothing.
LEMMA EmptyIn == Distinct(<<>>) /\ \A y : ~In(y, <<>>)
  BY DEF In, Distinct

-----------------------------------------------------------------------------
(* Choices                                                                 *)

\* The least of a set of numbers is one of them.
LEMMA MinIsMember ==
    ASSUME NEW S \in SUBSET Nat, S # {}
    PROVE  Min(S) \in S
<1>1. PICK x \in S : \A y \in S : ~ (<<y, x>> \in OpToRel(<, Nat))
  BY NatLessThanWellFounded, WFMin
<1>2. \A y \in S : x <= y
  <2> TAKE y \in S
  <2>1. <<y, x>> \in OpToRel(<, Nat) <=> y < x
    BY DEF OpToRel
  <2>2. ~(y < x)
    BY <1>1, <2>1, Zenon
  <2> QED
    BY <2>2
<1> QED
  BY <1>2 DEF Min

\* So is the greatest, if there is a bound.
LEMMA MaxIsMember ==
    ASSUME NEW n \in Nat, NEW S \in SUBSET (1 .. n), S # {}
    PROVE  Max(S) \in S
<1> DEFINE D == {n - x : x \in S}
<1>0. \A x \in S : x \in 1 .. n /\ n - x \in Nat
  OBVIOUS
<1>1. D \in SUBSET Nat /\ D # {}
  BY <1>0
<1>2. PICK d \in D : \A y \in D : ~ (<<y, d>> \in OpToRel(<, Nat))
  BY <1>1, NatLessThanWellFounded, WFMin
<1>3. \A y \in D : d <= y
  <2> TAKE y \in D
  <2>1. <<y, d>> \in OpToRel(<, Nat) <=> y < d
    BY <1>1 DEF OpToRel
  <2>2. ~(y < d)
    BY <1>2, <2>1, Zenon
  <2> QED
    BY <1>1, <2>2
<1>4. PICK x \in S : d = n - x
  OBVIOUS
<1>5. ASSUME NEW y \in S PROVE x >= y
  <2>1. n - x <= n - y
    BY <1>3, <1>4
  <2>2. n \in Int /\ x \in Int /\ y \in Int
    BY <1>0
  <2> HIDE DEF D
  <2> QED
    BY <2>1, <2>2
<1> QED
  BY <1>5 DEF Max

\* The manager chooses a worker that can be written to, if there is one.
LEMMA SelectFacts ==
    ASSUME TypeOK, NEW m \in Modes, NEW skip, \E w \in Workers : Writable(w, m)
    PROVE  Select(m, skip) \in Workers /\ Writable(Select(m, skip), m)
<1> DEFINE ready == {w \in Workers : Writable(w, m)}
           upto == {w \in ready : Cardinality({v \in mgr.valid[m] : v < w}) <= skip}
<1>1. Cardinality(Workers) \in Nat /\ Workers = 1 .. Cardinality(Workers)
  BY ClientWorkerAssumption, FS_CardinalityType
<1>2. ready # {} /\ ready \in SUBSET Nat
  BY <1>1
<1>3. upto \in SUBSET (1 .. Cardinality(Workers))
  BY <1>1
<1>4. upto # {} => Max(upto) \in upto
  BY <1>1, <1>3, MaxIsMember
<1>5. Min(ready) \in ready
  BY <1>2, MinIsMember
<1>6. Select(m, skip) \in ready
  BY <1>2, <1>4, <1>5 DEF Select
<1> QED
  BY <1>6

\* A worker has one key for each connection that it may have.
LEMMA KeysFinite == IsFiniteSet(Keys) /\ Cardinality(Keys) = ReqMax + StreamMax
<1>1. ReqMax \in Nat /\ StreamMax \in Nat
  BY ClientWorkerAssumption
<1> QED
  BY <1>1, FS_Interval DEF Keys

\* While a mode has fewer connections than it may, there is a free key, and
\* Connections::add takes one.
LEMMA FreeKey ==
    ASSUME TypeOK, WithinMax, NEW w \in Workers, NEW m \in Modes,
           Cardinality(Items(w, m)) < MaxOf(m)
    PROVE  /\ Min({j \in Keys : node[w][j] = Free}) \in Keys
           /\ node[w][Min({j \in Keys : node[w][j] = Free})] = Free
<1> DEFINE F == {j \in Keys : node[w][j] = Free}
<1>1. ReqMax \in Nat /\ StreamMax \in Nat
  BY ClientWorkerAssumption
<1>2. IsFiniteSet(Keys) /\ Cardinality(Keys) = ReqMax + StreamMax
  BY KeysFinite
<1>3. /\ IsFiniteSet(Items(w, "req")) /\ IsFiniteSet(Items(w, "stream"))
      /\ Cardinality(Items(w, "req")) \in Nat /\ Cardinality(Items(w, "stream")) \in Nat
  BY <1>2, FS_Subset, FS_CardinalityType DEF Items
<1>4. Cardinality(Items(w, "req")) + Cardinality(Items(w, "stream")) < ReqMax + StreamMax
  BY <1>1, <1>3 DEF WithinMax, MaxOf, Modes
<1>5. F # {}
  <2> SUFFICES ASSUME F = {} PROVE FALSE
    OBVIOUS
  <2>1. Keys = Items(w, "req") \cup Items(w, "stream")
    <3>1. \A j \in Keys : node[w][j] # Free
      OBVIOUS
    <3>0. node \in [Workers -> [Keys -> {Free} \cup Connection]]
      BY DEF TypeOK
    <3>2. \A j \in Keys : node[w][j] \in {Free} \cup Connection
      BY <3>0
    <3>3. \A j \in Keys : node[w][j].mode \in {"req", "stream"}
      BY <3>1, <3>2 DEF Connection, Modes
    <3> QED
      BY <3>1, <3>3 DEF Items
  <2>2. Items(w, "req") \cap Items(w, "stream") = {}
    BY DEF Items
  <2>3. Cardinality(Keys) = Cardinality(Items(w, "req")) + Cardinality(Items(w, "stream"))
    BY <1>3, <2>1, <2>2, FS_Union, FS_EmptySet
  <2> QED
    BY <1>1, <1>2, <1>3, <1>4, <2>3
<1>6. F \in SUBSET Nat
  BY <1>1 DEF Keys
<1>7. Min(F) \in F
  BY <1>5, <1>6, MinIsMember
<1> QED
  BY <1>7

-----------------------------------------------------------------------------
(* Facts that the steps share                                              *)

\* The types, element by element.
LEMMA TypeFacts ==
    ASSUME TypeOK
    PROVE  /\ \A w \in Workers, k \in Keys : node[w][k] \in {Free} \cup Connection
           /\ \A w \in Workers, m \in Modes : any[w][m] \in Seq(Token)
           /\ \A m \in Modes : sent.any[m] \in Seq(Token) /\ mgr.in[m] \in Token \cup {None}
           /\ \A w \in Workers : /\ direct[w] \in Seq(DirectPacket) /\ out[w] \in Seq(OutPacket)
                                 /\ done[w] \in Seq(Keys)
           /\ sent.direct \in Seq(DirectPacket)
           /\ \A i \in Ids : peer[i] \in PeerState
           /\ bound.requests \in Nat
<1>1. node \in [Workers -> [Keys -> {Free} \cup Connection]] /\ any \in [Workers -> [Modes -> Seq(Token)]]
  BY DEF TypeOK
<1>2. \A w \in Workers, k \in Keys : node[w][k] \in {Free} \cup Connection
  BY <1>1
<1>3. \A w \in Workers, m \in Modes : any[w][m] \in Seq(Token)
  BY <1>1
<1>4. \A m \in Modes : sent.any[m] \in Seq(Token) /\ mgr.in[m] \in Token \cup {None}
  BY DEF TypeOK, MgrState
<1>5. /\ direct \in [Workers -> Seq(DirectPacket)] /\ out \in [Workers -> Seq(OutPacket)]
      /\ done \in [Workers -> Seq(Keys)]
  BY DEF TypeOK
<1>6. \A w \in Workers : /\ direct[w] \in Seq(DirectPacket) /\ out[w] \in Seq(OutPacket)
                         /\ done[w] \in Seq(Keys)
  BY <1>5
<1>7. sent.direct \in Seq(DirectPacket) /\ bound.requests \in Nat
  BY DEF TypeOK
<1>8. \A i \in Ids : peer[i] \in PeerState
  BY DEF TypeOK
<1> QED
  BY <1>2, <1>3, <1>4, <1>6, <1>7, <1>8

\* A connection is of a request.
LEMMA SessionIsToken ==
    ASSUME NEW n \in Connection
    PROVE  /\ n # Free /\ Session(n) \in Token /\ Session(n).id = n.id /\ Session(n).gen = n.gen
           /\ n.id \in Ids
  BY DEF Connection, Session, Token, Free

\* What depends on the connections only.
LEMMA NodeFrame ==
    ASSUME node' = node
    PROVE  \A t, w, k : /\ AtNode(t, w, k)' <=> AtNode(t, w, k)
                        /\ RunAt(t, w, k)' <=> RunAt(t, w, k)
                        /\ OpenAt(t, w, k)' <=> OpenAt(t, w, k)
  BY DEF AtNode, RunAt, OpenAt

\* What depends on the requests that wait only.
LEMMA WaitFrame ==
    ASSUME sent'.any = sent.any, mgr'.in = mgr.in, any' = any
    PROVE  \A t : /\ AtSent(t)' <=> AtSent(t)
                  /\ AtMgr(t)' <=> AtMgr(t)
                  /\ \A w : AtAny(t, w)' <=> AtAny(t, w)
                  /\ Waits(t)' <=> Waits(t)
  BY DEF AtSent, AtMgr, AtAny, Waits

\* What depends on the packets of the workers only.
LEMMA OutFrame ==
    ASSUME out' = out
    PROVE  \A t : (Over(t)' <=> Over(t)) /\ (AckSent(t)' <=> AckSent(t))
  BY DEF Over, AckSent

\* What depends on the later packets of the peers only.
LEMMA FollowFrame ==
    ASSUME sent'.direct = sent.direct, mgr'.blocked = mgr.blocked, direct' = direct
    PROVE  \A t : Follows(t)' <=> Follows(t)
  BY DEF Follows

\* A step that leaves the workers alone keeps what holds of them.
LEMMA WorkerFrame ==
    ASSUME WorkerInv, UNCHANGED <<node, byId, done, pc>>
    PROVE  WorkerInv'
<1>1. DoneIsEnded' /\ IdsApart'
  BY DEF WorkerInv, DoneIsEnded, IdsApart
<1>2. WithinMax' /\ TasksDone'
  BY DEF WorkerInv, WithinMax, Items, TasksDone, Running
<1>3. SessionReachable'
  BY DEF WorkerInv, SessionReachable, Running
<1> QED
  BY <1>1, <1>2, <1>3 DEF WorkerInv

\* A step that moves no session keeps the table right.
LEMMA TableFrame ==
    ASSUME TableAgrees, UNCHANGED <<node, any, sessions>>
    PROVE  TableAgrees'
  BY DEF TableAgrees, AtAny, RunAt, AtNode

\* A step that moves no request and makes no connection; what it says, if it
\* does, is true of a request that a connection has.
Held(t) == \E w \in Workers, k \in Keys : AtNode(t, w, k)
NothingNew ==
  /\ \A t \in Token :
       /\ AtSent(t)' => AtSent(t)
       /\ AtMgr(t)' => AtMgr(t)
       /\ \A w \in Workers : AtAny(t, w)' => AtAny(t, w)
       /\ \A w \in Workers, k \in Keys : /\ AtNode(t, w, k)' => AtNode(t, w, k)
                                         /\ RunAt(t, w, k)' => RunAt(t, w, k)
                                         /\ OpenAt(t, w, k)' => OpenAt(t, w, k)
       /\ Over(t)' => Over(t) \/ (Held(t) /\ ~Runs(t)')
       /\ AckSent(t)' => \/ AckSent(t)
                         \/ Held(t) /\ \A w \in Workers, k \in Keys : ~OpenAt(t, w, k)'
       /\ Follows(t)' => Follows(t)
  /\ peer' = peer /\ bound'.requests = bound.requests

\* Such a step keeps what holds of requests.
LEMMA NothingNewKeeps ==
    ASSUME RequestInv, NothingNew
    PROVE  RequestInv'
<1>1. \A t \in Token : (Waits(t)' => Waits(t)) /\ (Runs(t)' => Runs(t))
  BY DEF NothingNew, Waits, Runs
<1>2. OnePlace'
  BY <1>1 DEF RequestInv, NothingNew, OnePlace
<1>3. \A t \in Token : Held(t) => ~Waits(t)
  BY DEF RequestInv, OnePlace, Held
<1>4. NumbersUsed'
  BY <1>1 DEF RequestInv, NothingNew, NumbersUsed, Held
<1>5. PeerWaits'
  BY <1>1 DEF RequestInv, NothingNew, PeerWaits
<1>6. OverIsOver'
  BY <1>1, <1>3 DEF RequestInv, NothingNew, OverIsOver
<1>7. AckedIsRouted'
  BY <1>1, <1>3 DEF RequestInv, NothingNew, AckedIsRouted, AckRead
<1> QED
  BY <1>2, <1>4, <1>5, <1>6, <1>7 DEF RequestInv

-----------------------------------------------------------------------------
(* The manager                                                             *)

\* The mode of an id is one of the two.
LEMMA ModeIsMode == \A i : ModeOf(i) \in Modes
  BY DEF ModeOf, Modes

\* The manager reads a request from a socket.
LEMMA MgrRecvInv ==
    ASSUME Inv, NEW m \in Modes, MgrRecv(m)
    PROVE  Inv'
<1> DEFINE s == sent.any[m]
           h == Head(s)
<1>1. s \in Seq(Token) /\ s # <<>> /\ mgr.in[m] = None
  BY TypeFacts DEF Inv, MgrRecv
<1>2. /\ Tail(s) \in Seq(Token) /\ h \in Token /\ In(h, s) /\ ~In(h, Tail(s))
      /\ \A y : In(y, s) <=> In(y, Tail(s)) \/ y = h
      /\ Distinct(Tail(s)) /\ ModeOf(h.id) = m
  BY <1>1, TailIn DEF Inv, PipesDistinct, ModesKept
<1>3. /\ mgr'.in = [mgr.in EXCEPT ![m] = h] /\ mgr'.blocked = mgr.blocked
      /\ sent'.any = [sent.any EXCEPT ![m] = Tail(s)] /\ sent'.direct = sent.direct
      /\ UNCHANGED <<node, byId, any, direct, out, done, pc, sessions, peer, bound>>
  BY DEF MgrRecv, Inv, TypeOK, MgrState
<1>4. /\ sent.any \in [Modes -> Seq(Token)] /\ mgr.in \in [Modes -> Token \cup {None}]
      /\ None \notin Token
  BY ClientWorkerAssumption DEF Inv, TypeOK, MgrState, Token
<1>5. TypeOK'
  <2>1. mgr' \in MgrState
    BY <1>2 DEF MgrRecv, Inv, TypeOK, MgrState
  <2>2. sent' \in [any : [Modes -> Seq(Token)], direct : Seq(DirectPacket)]
    BY <1>2 DEF MgrRecv, Inv, TypeOK
  <2> QED
    BY <1>3, <2>1, <2>2 DEF Inv, TypeOK
<1>6. \A n \in Modes : /\ sent'.any[n] = IF n = m THEN Tail(s) ELSE sent.any[n]
                       /\ mgr'.in[n] = IF n = m THEN h ELSE mgr.in[n]
  BY <1>3, <1>4
<1>7. ModesKept'
  BY <1>2, <1>3, <1>6 DEF Inv, ModesKept
<1>8. PipesDistinct'
  BY <1>2, <1>3, <1>6 DEF Inv, PipesDistinct
<1>9. /\ \A t \in Token : AtSent(t)' <=> AtSent(t) /\ t # h
      /\ \A t \in Token : AtMgr(t)' <=> AtMgr(t) \/ t = h
      /\ AtSent(h)
  BY <1>1, <1>2, <1>4, <1>6, ModeIsMode DEF AtSent, AtMgr
<1>10. \A t : \A w : AtAny(t, w)' <=> AtAny(t, w)
  BY <1>3 DEF AtAny
<1>11. \A t \in Token : (Waits(t)' <=> Waits(t)) /\ (Runs(t)' <=> Runs(t))
  BY <1>3, <1>9, <1>10, NodeFrame DEF Waits, Runs
<1>12. OnePlace'
  BY <1>3, <1>9, <1>10, <1>11, NodeFrame DEF Inv, RequestInv, OnePlace
<1>13. NumbersUsed' /\ PeerWaits' /\ OverIsOver' /\ AckedIsRouted'
  BY <1>3, <1>11, NodeFrame, OutFrame, FollowFrame
     DEF Inv, RequestInv, NumbersUsed, PeerWaits, OverIsOver, AckedIsRouted, AckRead
<1>14. WorkerInv' /\ TableAgrees'
  BY <1>3, WorkerFrame, TableFrame DEF Inv
<1>15. NoDirectLost'
  BY DEF MgrRecv, Inv, NoDirectLost, TypeOK, MgrState
<1> QED
  BY <1>5, <1>7, <1>8, <1>12, <1>13, <1>14, <1>15 DEF Inv, RequestInv

\* The types of the manager after a request was sent or not.
LEMMA MgrSendTypes ==
    ASSUME Inv, NEW m \in Modes, MgrSend(m)
    PROVE  /\ mgr' \in MgrState
           /\ mgr'.blocked = mgr.blocked /\ mgr'.lost = mgr.lost
<1> DEFINE w == Select(m, mgr.index[m])
           index == (mgr.index[m] + 1) % Cardinality(mgr.valid[m])
<1>1. w \in Workers /\ w \in mgr.valid[m]
  BY SelectFacts DEF Inv, MgrSend, Writable
<1>2. Cardinality(mgr.valid[m]) \in Nat \ {0}
  <2>1. IsFiniteSet(mgr.valid[m])
    BY ClientWorkerAssumption, FS_Subset DEF Inv, TypeOK, MgrState
  <2> QED
    BY <1>1, <2>1, FS_CardinalityType, FS_EmptySet
<1>3. index \in Nat
  <2>1. mgr.index[m] \in Nat
    BY DEF Inv, TypeOK, MgrState
  <2> QED
    BY <1>2, <2>1
<1>4. None \notin Workers
  BY ClientWorkerAssumption
<1>5. \/ mgr' = [[mgr EXCEPT !.index[m] = index] EXCEPT !.in[m] = None]
      \/ mgr' = [[mgr EXCEPT !.index[m] = index] EXCEPT !.valid[m] = @ \ {w}]
  BY <1>1, <1>4 DEF MgrSend
<1>6. CASE mgr' = [[mgr EXCEPT !.index[m] = index] EXCEPT !.in[m] = None]
  BY <1>3, <1>6 DEF Inv, TypeOK, MgrState
<1>7. CASE mgr' = [[mgr EXCEPT !.index[m] = index] EXCEPT !.valid[m] = @ \ {w}]
  BY <1>3, <1>7 DEF Inv, TypeOK, MgrState
<1> QED
  BY <1>5, <1>6, <1>7

\* A request is passed on to a worker, dropped, or kept.
LEMMA MgrSendCases ==
    ASSUME Inv, NEW m \in Modes, MgrSend(m)
    PROVE  /\ UNCHANGED <<node, byId, direct, out, done, pc, peer, sent, bound>>
           /\ mgr.in[m] # None
           /\ \/ /\ mgr'.in = [mgr.in EXCEPT ![m] = None] \/ mgr'.in = mgr.in
                 /\ UNCHANGED <<any, sessions>>
              \/ \E w \in Workers :
                   /\ mgr'.in = [mgr.in EXCEPT ![m] = None]
                   /\ any' = [any EXCEPT ![w][m] = Append(@, mgr.in[m])]
                   /\ m = "stream" => /\ sessions[mgr.in[m].id] = None
                                      /\ sessions' = [sessions EXCEPT ![mgr.in[m].id] = w]
                   /\ m # "stream" => sessions' = sessions
<1> DEFINE w == Select(m, mgr.index[m])
           next == [mgr EXCEPT !.index[m] = (@ + 1) % Cardinality(mgr.valid[m])]
<1>1. w \in Workers /\ None \notin Workers
  BY SelectFacts, ClientWorkerAssumption DEF Inv, MgrSend
<1>2. next.in = mgr.in /\ next.valid = mgr.valid
  BY DEF Inv, TypeOK, MgrState
<1>3. [next EXCEPT !.in[m] = None].in = [mgr.in EXCEPT ![m] = None]
  BY <1>2 DEF Inv, TypeOK, MgrState
<1>4. [next EXCEPT !.valid[m] = @ \ {w}].in = mgr.in
  BY <1>2 DEF Inv, TypeOK, MgrState
<1> QED
  BY <1>1, <1>3, <1>4 DEF MgrSend

\* The manager passes a request on, or drops it.
LEMMA MgrSendInv ==
    ASSUME Inv, NEW m \in Modes, MgrSend(m)
    PROVE  Inv'
<1> DEFINE i == mgr.in[m]
<1>1. /\ UNCHANGED <<node, byId, direct, out, done, pc, peer, sent, bound>>
      /\ mgr'.blocked = mgr.blocked /\ mgr'.lost = mgr.lost
  BY MgrSendCases, MgrSendTypes
<1>2. /\ i \in Token /\ None \notin Token /\ ModeOf(i.id) = m
      /\ mgr.in \in [Modes -> Token \cup {None}]
  <2>1. mgr.in \in [Modes -> Token \cup {None}] /\ i # None
    BY MgrSendCases DEF Inv, TypeOK, MgrState
  <2>2. None \notin Token
    BY ClientWorkerAssumption DEF Token
  <2>3. i \in Token
    BY <2>1
  <2> QED
    BY <2>1, <2>2, <2>3 DEF Inv, ModesKept
<1>3. WorkerInv' /\ NoDirectLost'
  BY <1>1, WorkerFrame DEF Inv, NoDirectLost
<1>4. CASE /\ mgr'.in = [mgr.in EXCEPT ![m] = None] \/ mgr'.in = mgr.in
           /\ UNCHANGED <<any, sessions>>
  <2>1. TypeOK'
    BY <1>1, <1>4, MgrSendTypes DEF Inv, TypeOK
  <2>2. \A n \in Modes, t \in Token : mgr'.in[n] = t => mgr.in[n] = t
    BY <1>2, <1>4
  <2>3. ModesKept' /\ PipesDistinct' /\ TableAgrees'
    BY <1>1, <1>4, <2>2, TableFrame DEF Inv, ModesKept, PipesDistinct
  <2>4. NothingNew
    <3>1. \A t \in Token : AtMgr(t)' => AtMgr(t)
      BY <2>2, ModeIsMode DEF AtMgr
    <3>2. \A t : (AtSent(t)' <=> AtSent(t)) /\ \A w : AtAny(t, w)' <=> AtAny(t, w)
      BY <1>1, <1>4 DEF AtSent, AtAny
    <3> QED
      BY <1>1, <3>1, <3>2, NodeFrame, OutFrame, FollowFrame DEF NothingNew
  <2> QED
    BY <1>3, <2>1, <2>3, <2>4, NothingNewKeeps DEF Inv
<1>5. ASSUME NEW w \in Workers,
             /\ mgr'.in = [mgr.in EXCEPT ![m] = None]
             /\ any' = [any EXCEPT ![w][m] = Append(@, i)]
             /\ m = "stream" => /\ sessions[i.id] = None
                                /\ sessions' = [sessions EXCEPT ![i.id] = w]
             /\ m # "stream" => sessions' = sessions
      PROVE  Inv'
  <2>1. any \in [Workers -> [Modes -> Seq(Token)]]
    BY DEF Inv, TypeOK
  <2>2. any[w][m] \in Seq(Token)
    BY <2>1
  <2>3. \A v \in Workers, n \in Modes :
          any'[v][n] = IF v = w /\ n = m THEN Append(any[w][m], i) ELSE any[v][n]
    BY <1>5, <2>1
  <2>4. /\ Append(any[w][m], i) \in Seq(Token)
        /\ \A y : In(y, Append(any[w][m], i)) <=> In(y, any[w][m]) \/ y = i
        /\ Distinct(any[w][m]) /\ ~In(i, any[w][m]) => Distinct(Append(any[w][m], i))
    BY <1>2, <2>2, AppendIn
  <2>5. i.id \in Ids /\ (m = "stream" <=> i.id \in StreamIds) /\ (m = "req" <=> i.id \in ReqIds)
    BY <1>2, ClientWorkerAssumption DEF Token, ModeOf, Ids, Modes
  <2>6. TypeOK'
    <3>1. any' \in [Workers -> [Modes -> Seq(Token)]]
      BY <1>5, <2>1, <2>4
    <3>2. sessions' \in [StreamIds -> Workers \cup {None}]
      <4>1. sessions \in [StreamIds -> Workers \cup {None}]
        BY DEF Inv, TypeOK
      <4> QED
        BY <1>5, <4>1
    <3> QED
      BY <1>1, <3>1, <3>2, MgrSendTypes DEF Inv, TypeOK
  <2>7. AtMgr(i) /\ ~AtSent(i) /\ \A v \in Workers : ~AtAny(i, v)
    <3>1. AtMgr(i)
      BY <1>2 DEF AtMgr
    <3> QED
      BY <1>2, <3>1 DEF Inv, RequestInv, OnePlace
  <2>8. \A n \in Modes : mgr'.in[n] = IF n = m THEN None ELSE mgr.in[n]
    BY <1>2, <1>5
  <2>9. ModesKept'
    BY <1>1, <1>2, <2>3, <2>4, <2>8 DEF Inv, ModesKept
  <2>10. PipesDistinct'
    BY <1>1, <1>2, <2>3, <2>4, <2>7 DEF Inv, PipesDistinct, AtAny
  <2>11. \A t \in Token : AtMgr(t)' <=> AtMgr(t) /\ t # i
    BY <1>2, <2>8, ModeIsMode DEF AtMgr
  <2>12. \A t \in Token, v \in Workers : AtAny(t, v)' <=> AtAny(t, v) \/ (v = w /\ t = i)
    BY <1>2, <2>3, <2>4, ModeIsMode DEF AtAny
  <2>13. \A t : AtSent(t)' <=> AtSent(t)
    BY <1>1 DEF AtSent
  <2>14. \A t \in Token : (Waits(t)' <=> Waits(t)) /\ (Runs(t)' <=> Runs(t))
    BY <1>1, <2>7, <2>11, <2>12, <2>13, NodeFrame DEF Waits, Runs
  <2>15. OnePlace'
    BY <1>1, <2>7, <2>11, <2>12, <2>13, <2>14, NodeFrame DEF Inv, RequestInv, OnePlace
  <2>16. NumbersUsed' /\ PeerWaits' /\ OverIsOver' /\ AckedIsRouted'
    BY <1>1, <2>14, NodeFrame, OutFrame, FollowFrame
       DEF Inv, RequestInv, NumbersUsed, PeerWaits, OverIsOver, AckedIsRouted, AckRead
  <2>17. TableAgrees'
    <3>1. \A t, v, k : RunAt(t, v, k)' <=> RunAt(t, v, k)
      BY <1>1, NodeFrame
    <3>2. CASE m # "stream"
      <4>1. \A t \in Token, v \in Workers : t.id \in StreamIds => (AtAny(t, v)' <=> AtAny(t, v))
        BY <2>5, <2>12, <3>2
      <4>2. sessions' = sessions
        BY <1>5, <3>2
      <4> QED
        BY <3>1, <4>1, <4>2 DEF Inv, TableAgrees
    <3>3. CASE m = "stream"
      <4>1. \A t \in Token, v \in Workers :
              t.id = i.id => ~AtAny(t, v) /\ \A k \in Keys : ~RunAt(t, v, k)
        BY <1>5, <2>5, <3>3, ClientWorkerAssumption DEF Inv, TableAgrees
      <4>2. \A j \in StreamIds : sessions'[j] = IF j = i.id THEN w ELSE sessions[j]
        <5>1. sessions \in [StreamIds -> Workers \cup {None}]
          BY DEF Inv, TypeOK
        <5> QED
          BY <1>5, <2>5, <3>3, <5>1
      <4>3. \A t, u \in Token, v \in Workers :
              t.id \in StreamIds /\ AtAny(t, v)' /\ AtAny(u, v)' /\ t.id = u.id => t = u
        BY <2>12, <4>1 DEF Inv, TableAgrees
      <4>4. \A t, u \in Token, v \in Workers, k \in Keys :
              t.id \in StreamIds /\ AtAny(t, v)' /\ RunAt(u, v, k)' => t.id # u.id
        BY <2>12, <3>1, <4>1 DEF Inv, TableAgrees
      <4>5. ASSUME NEW j \in StreamIds, NEW v \in Workers
            PROVE  sessions'[j] = v <=>
                     \E t \in Token : t.id = j /\ (AtAny(t, v)' \/ \E k \in Keys : RunAt(t, v, k)')
        <5>1. CASE j # i.id
          BY <2>12, <3>1, <4>2, <5>1 DEF Inv, TableAgrees
        <5>2. CASE j = i.id
          BY <1>2, <2>12, <3>1, <4>1, <4>2, <5>2
        <5> QED
          BY <5>1, <5>2
      <4> QED
        BY <4>3, <4>4, <4>5 DEF TableAgrees
    <3> QED
      BY <3>2, <3>3
  <2> QED
    BY <1>3, <2>6, <2>9, <2>10, <2>15, <2>16, <2>17 DEF Inv, RequestInv
<1> QED
  BY <1>4, <1>5, MgrSendCases

\* The manager reads a packet of a session and finds the worker that has it.
LEMMA MgrRecvDirectInv ==
    ASSUME Inv, MgrRecvDirect
    PROVE  Inv'
<1> DEFINE s == sent.direct
           p == Head(s)
           w == sessions[p.id]
<1>1. /\ UNCHANGED <<node, byId, any, direct, out, done, pc, sessions, peer, bound>>
      /\ sent'.any = sent.any /\ sent'.direct = Tail(s)
      /\ s \in Seq(DirectPacket) /\ s # <<>> /\ mgr.blocked = None
      /\ sent' \in [any : [Modes -> Seq(Token)], direct : Seq(DirectPacket)]
  BY TailIn DEF MgrRecvDirect, Idle, Inv, TypeOK, MgrState
<1>2. /\ Tail(s) \in Seq(DirectPacket) /\ p \in DirectPacket /\ In(p, s)
      /\ \A y : In(y, Tail(s)) => In(y, s)
  BY <1>1, TailIn
<1>3. \/ mgr' = mgr
      \/ mgr' = [mgr EXCEPT !.blocked = [w |-> w, p |-> p]] /\ w \in Workers
  BY DEF MgrRecvDirect, Inv, TypeOK, MgrState, Modes
<1>4. /\ mgr' \in MgrState
      /\ mgr'.in = mgr.in /\ mgr'.lost = mgr.lost
      /\ mgr'.blocked = mgr.blocked \/ mgr'.blocked.p = p
  <2>1. mgr \in MgrState
    BY DEF Inv, TypeOK
  <2>2. CASE mgr' = mgr
    BY <2>1, <2>2
  <2>3. CASE mgr' = [mgr EXCEPT !.blocked = [w |-> w, p |-> p]] /\ w \in Workers
    BY <1>2, <2>1, <2>3 DEF MgrState
  <2> QED
    BY <1>3, <2>2, <2>3
<1>5. TypeOK'
  BY <1>1, <1>4 DEF Inv, TypeOK
<1>6. ModesKept' /\ PipesDistinct' /\ WorkerInv' /\ TableAgrees' /\ NoDirectLost'
  BY <1>1, <1>4, WorkerFrame, TableFrame DEF Inv, ModesKept, PipesDistinct, NoDirectLost
<1>7. \A t \in Token : Follows(t)' => Follows(t)
  BY <1>1, <1>2, <1>4 DEF Follows
<1>8. NothingNew
  BY <1>1, <1>4, <1>7, NodeFrame, OutFrame, WaitFrame DEF NothingNew
<1> QED
  BY <1>5, <1>6, <1>8, NothingNewKeeps DEF Inv

\* The blocking send of a packet to a worker ends.
LEMMA MgrSendDirectInv ==
    ASSUME Inv, MgrSendDirect
    PROVE  Inv'
<1> DEFINE w == mgr.blocked.w
           p == mgr.blocked.p
<1>1. /\ UNCHANGED <<node, byId, any, out, done, pc, sessions, peer, sent, bound>>
      /\ mgr.blocked # None /\ w \in Workers /\ p \in DirectPacket
  BY DEF MgrSendDirect, Idle, Inv, TypeOK, MgrState
<1>2. /\ mgr' \in MgrState
      /\ mgr'.in = mgr.in /\ mgr'.lost = mgr.lost /\ mgr'.blocked = None
  <2>1. mgr \in MgrState
    BY DEF Inv, TypeOK
  <2>2. CASE mgr' = [mgr EXCEPT !.blocked = None]
    BY <2>1, <2>2 DEF MgrState
  <2>3. CASE mgr' = [[mgr EXCEPT !.blocked = None] EXCEPT !.valid["stream"] = @ \ {w}]
    BY <2>1, <2>3 DEF MgrState, Modes
  <2> QED
    BY <2>2, <2>3 DEF MgrSendDirect
<1>3. direct \in [Workers -> Seq(DirectPacket)] /\ direct[w] \in Seq(DirectPacket)
  BY <1>1 DEF Inv, TypeOK
<1>4. direct' = direct \/ direct' = [direct EXCEPT ![w] = Append(@, p)]
  BY DEF MgrSendDirect
<1>5. /\ direct' \in [Workers -> Seq(DirectPacket)]
      /\ \A v \in Workers : \A q : In(q, direct'[v]) => In(q, direct[v]) \/ q = p
  <2>1. /\ Append(direct[w], p) \in Seq(DirectPacket)
        /\ \A q : In(q, Append(direct[w], p)) => In(q, direct[w]) \/ q = p
    BY <1>1, <1>3, AppendIn
  <2>2. CASE direct' = direct
    BY <1>3, <2>2
  <2>3. CASE direct' = [direct EXCEPT ![w] = Append(@, p)]
    BY <1>3, <2>1, <2>3
  <2> QED
    BY <1>4, <2>2, <2>3
<1>6. TypeOK'
  BY <1>1, <1>2, <1>5 DEF Inv, TypeOK
<1>7. ModesKept' /\ PipesDistinct' /\ WorkerInv' /\ TableAgrees' /\ NoDirectLost'
  BY <1>1, <1>2, WorkerFrame, TableFrame DEF Inv, ModesKept, PipesDistinct, NoDirectLost
<1>8. \A t \in Token : Follows(t)' => Follows(t)
  BY <1>1, <1>2, <1>5 DEF Follows
<1>9. NothingNew
  BY <1>1, <1>2, <1>8, NodeFrame, OutFrame, WaitFrame DEF NothingNew
<1> QED
  BY <1>6, <1>7, <1>9, NothingNewKeeps DEF Inv

\* What is read of a worker was sent.
LEMMA RecvOut ==
    ASSUME Inv, NEW w \in Workers, out[w] # <<>>, out' = [out EXCEPT ![w] = Tail(@)]
    PROVE  /\ Head(out[w]) \in OutPacket /\ In(Head(out[w]), out[w])
           /\ out' \in [Workers -> Seq(OutPacket)]
           /\ \A t : (Over(t)' => Over(t)) /\ (AckSent(t)' => AckSent(t))
<1>1. out \in [Workers -> Seq(OutPacket)] /\ out[w] \in Seq(OutPacket)
  BY DEF Inv, TypeOK, MgrState
<1>2. /\ Tail(out[w]) \in Seq(OutPacket) /\ Head(out[w]) \in OutPacket /\ In(Head(out[w]), out[w])
      /\ \A y : In(y, Tail(out[w])) => In(y, out[w])
  BY <1>1, TailIn
<1>3. \A v \in Workers : \A y : In(y, out'[v]) => In(y, out[v])
  BY <1>1, <1>2
<1> QED
  BY <1>1, <1>2, <1>3 DEF Over, AckSent

\* A packet of a worker reaches its peers.
LEMMA MgrRecvHandleInv ==
    ASSUME Inv, NEW w \in Workers, MgrRecvHandle(w)
    PROVE  Inv'
<1> DEFINE p == Head(out[w])
           pair(i) == [id |-> i, gen |-> peer[i].gen]
<1>1. /\ UNCHANGED <<node, byId, any, direct, done, pc, mgr, sessions, sent, bound>>
      /\ out[w] # <<>> /\ out' = [out EXCEPT ![w] = Tail(@)]
      /\ peer' = [i \in Ids |->
           IF pair(i) \notin p.ids THEN peer[i]
           ELSE IF p.t # "ack" THEN NoSession
           ELSE IF peer[i].st = "asked" THEN [peer[i] EXCEPT !.st = "acked"] ELSE peer[i]]
  BY DEF MgrRecvHandle
<1>2. /\ p \in OutPacket /\ In(p, out[w]) /\ out' \in [Workers -> Seq(OutPacket)]
      /\ \A t : (Over(t)' => Over(t)) /\ (AckSent(t)' => AckSent(t))
  BY <1>1, RecvOut
<1>3. \A i \in Ids : peer[i] \in PeerState
  BY TypeFacts DEF Inv
<1>4. \A i \in Ids :
        \/ peer'[i] = peer[i]
        \/ peer'[i] = NoSession /\ pair(i) \in p.ids /\ p.t # "ack"
        \/ peer'[i].st = "acked" /\ peer'[i].gen = peer[i].gen /\ pair(i) \in p.ids /\ p.t = "ack"
  BY <1>1, <1>3
<1>5. TypeOK'
  <2>1. peer' \in [Ids -> PeerState]
    BY <1>1, <1>3 DEF NoSession, PeerState
  <2> QED
    BY <1>1, <1>2, <2>1 DEF Inv, TypeOK
<1>6. ModesKept' /\ PipesDistinct' /\ WorkerInv' /\ TableAgrees' /\ NoDirectLost'
  BY <1>1, WorkerFrame, TableFrame DEF Inv, ModesKept, PipesDistinct, NoDirectLost
<1>7. \A t \in Token : /\ t.id \in Ids /\ t.gen \in Nat
                       /\ peer[t.id].gen = t.gen => pair(t.id) = t
  BY DEF Token
<1>8. \A t \in Token : t \in p.ids => IF p.t = "ack" THEN AckSent(t) ELSE Over(t)
  BY <1>2 DEF AckSent, Over
<1>9. \A t : /\ Waits(t)' <=> Waits(t)
             /\ Runs(t)' <=> Runs(t)
             /\ Follows(t)' <=> Follows(t)
  BY <1>1, WaitFrame, NodeFrame, FollowFrame DEF Runs
<1>10. OnePlace'
  BY <1>1, WaitFrame, NodeFrame DEF Inv, RequestInv, OnePlace
<1>11. NumbersUsed'
  <2>1. bound.requests \in Nat
    BY TypeFacts DEF Inv
  <2>2. \A t \in Token : peer'[t.id].gen = t.gen => peer[t.id].gen = t.gen \/ t.gen = 0
    <3> TAKE t \in Token
    <3>1. NoSession.gen = 0 /\ t.id \in Ids
      BY <1>7 DEF NoSession
    <3> QED
      BY <1>4, <3>1
  <2> QED
    BY <1>1, <1>2, <1>9, <2>1, <2>2, NodeFrame DEF Inv, RequestInv, NumbersUsed
<1>12. PeerWaits'
  <2> SUFFICES ASSUME NEW t \in Token, t.id \in ReqIds, Waits(t) \/ Runs(t)
               PROVE  peer'[t.id].st # "idle" /\ peer'[t.id].gen = t.gen
    BY <1>9 DEF PeerWaits
  <2>1. peer[t.id].st # "idle" /\ peer[t.id].gen = t.gen
    BY DEF Inv, RequestInv, PeerWaits
  <2>2. ~(pair(t.id) \in p.ids /\ p.t # "ack")
    BY <1>7, <1>8, <2>1 DEF Inv, RequestInv, OverIsOver
  <2> QED
    BY <1>4, <1>7, <2>1, <2>2
<1>13. OverIsOver'
  BY <1>2, <1>9 DEF Inv, RequestInv, OverIsOver
<1>14. AckedIsRouted'
  <2>1. \A t \in Token : AckRead(t)' => AckRead(t) \/ AckSent(t)
    <3> TAKE t \in Token
    <3>1. NoSession.st # "acked" /\ t.id \in Ids
      BY <1>7 DEF NoSession
    <3>2. CASE peer'[t.id] = peer[t.id]
      BY <3>2 DEF AckRead
    <3>3. CASE peer'[t.id] = NoSession
      BY <3>1, <3>3 DEF AckRead
    <3>4. CASE peer'[t.id].gen = peer[t.id].gen /\ pair(t.id) \in p.ids /\ p.t = "ack"
      BY <1>7, <1>8, <3>4 DEF AckRead
    <3> QED
      BY <1>4, <3>1, <3>2, <3>3, <3>4
  <2> QED
    BY <1>1, <1>2, <1>9, <2>1, NodeFrame DEF Inv, RequestInv, AckedIsRouted
<1> QED
  BY <1>5, <1>6, <1>10, <1>11, <1>12, <1>13, <1>14 DEF Inv, RequestInv

\* The manager forgets a handle that is gone.
LEMMA MgrCleanupInv ==
    ASSUME Inv, NEW w \in Workers, NEW m \in Modes, MgrCleanup(w, m)
    PROVE  Inv'
<1>1. /\ UNCHANGED <<node, byId, any, direct, out, done, pc, sessions, peer, sent, bound>>
      /\ mgr' = [mgr EXCEPT !.valid[m] = @ \ {w}]
  BY DEF MgrCleanup
<1>2. /\ mgr' \in MgrState
      /\ mgr'.in = mgr.in /\ mgr'.lost = mgr.lost /\ mgr'.blocked = mgr.blocked
  BY <1>1 DEF Inv, TypeOK, MgrState
<1>3. TypeOK'
  BY <1>1, <1>2 DEF Inv, TypeOK
<1>4. ModesKept' /\ PipesDistinct' /\ WorkerInv' /\ TableAgrees' /\ NoDirectLost'
  BY <1>1, <1>2, WorkerFrame, TableFrame DEF Inv, ModesKept, PipesDistinct, NoDirectLost
<1>5. NothingNew
  BY <1>1, <1>2, NodeFrame, OutFrame, WaitFrame, FollowFrame DEF NothingNew
<1> QED
  BY <1>3, <1>4, <1>5, NothingNewKeeps DEF Inv

-----------------------------------------------------------------------------
(* The peers                                                               *)

\* A peer makes a request: its number is new.
LEMMA RequestKeepsInv ==
    ASSUME Inv, NEW i \in Ids, Request(i)
    PROVE  Inv'
<1> DEFINE m == ModeOf(i)
           n == [id |-> i, gen |-> bound.requests + 1]
<1>1. /\ UNCHANGED <<node, byId, any, direct, out, done, pc, mgr, sessions>>
      /\ peer[i].st = "idle" /\ m \in Modes
      /\ peer' = [peer EXCEPT ![i] = [st |-> "asked", gen |-> bound.requests + 1]]
      /\ sent' = [sent EXCEPT !.any[m] = Append(@, n)]
      /\ bound' = [bound EXCEPT !.requests = @ + 1]
  BY ModeIsMode DEF Request
<1>2. /\ peer \in [Ids -> PeerState] /\ bound \in [requests : Nat, directs : Nat, stops : Nat]
      /\ sent \in [any : [Modes -> Seq(Token)], direct : Seq(DirectPacket)]
  BY DEF Inv, TypeOK
<1>3. /\ n \in Token /\ n.id = i /\ n.gen = bound.requests + 1 /\ bound.requests \in Nat
      /\ sent.any[m] \in Seq(Token)
  <2>1. bound.requests \in Nat /\ bound.requests + 1 \in Nat
    BY <1>2
  <2>2. n \in Token /\ n.id = i /\ n.gen = bound.requests + 1
    BY <2>1 DEF Token
  <2>3. sent.any[m] \in Seq(Token)
    BY <1>2, ModeIsMode
  <2> QED
    BY <2>1, <2>2, <2>3
<1>4. /\ Append(sent.any[m], n) \in Seq(Token)
      /\ \A y : In(y, Append(sent.any[m], n)) <=> In(y, sent.any[m]) \/ y = n
      /\ Distinct(sent.any[m]) /\ ~In(n, sent.any[m]) => Distinct(Append(sent.any[m], n))
  BY <1>3, AppendIn
<1>5. /\ sent'.any = [sent.any EXCEPT ![m] = Append(@, n)] /\ sent'.direct = sent.direct
      /\ \A l \in Modes : sent'.any[l] = IF l = m THEN Append(sent.any[m], n) ELSE sent.any[l]
  BY <1>1, <1>2
<1>6. TypeOK'
  <2>0. [st |-> "asked", gen |-> bound.requests + 1] \in PeerState
    BY <1>3 DEF PeerState
  <2>1. peer' \in [Ids -> PeerState]
    BY <2>0, <1>2 DEF Request
  <2>2. bound' \in [requests : Nat, directs : Nat, stops : Nat]
    <3>1. bound' = [bound EXCEPT !.requests = @ + 1]
      BY DEF Request
    <3> QED
      BY <1>2, <3>1
  <2>3. sent' \in [any : [Modes -> Seq(Token)], direct : Seq(DirectPacket)]
    BY <1>1, <1>2, <1>4
  <2> QED
    BY <1>1, <2>1, <2>2, <2>3 DEF Inv, TypeOK
<1>7. /\ ~Waits(n) /\ ~Over(n) /\ ~AckSent(n) /\ ~Follows(n)
      /\ \A w \in Workers, k \in Keys : ~AtNode(n, w, k)
  BY <1>3 DEF Inv, RequestInv, NumbersUsed
<1>8. ModesKept' /\ PipesDistinct'
  BY <1>1, <1>3, <1>4, <1>5, <1>7 DEF Inv, ModesKept, PipesDistinct, Waits, AtSent
<1>9. WorkerInv' /\ TableAgrees' /\ NoDirectLost'
  BY <1>1, WorkerFrame, TableFrame DEF Inv, NoDirectLost
<1>10. \A t \in Token : AtSent(t)' <=> AtSent(t) \/ t = n
  BY <1>3, <1>4, <1>5, ModeIsMode DEF AtSent
<1>11. \A t : (AtMgr(t)' <=> AtMgr(t)) /\ \A w : AtAny(t, w)' <=> AtAny(t, w)
  BY <1>1 DEF AtMgr, AtAny
<1>12. \A t \in Token : (Waits(t)' <=> Waits(t) \/ t = n) /\ (Runs(t)' <=> Runs(t))
  BY <1>1, <1>10, <1>11, NodeFrame DEF Waits, Runs
<1>13. /\ \A t : /\ Over(t)' <=> Over(t)
                 /\ AckSent(t)' <=> AckSent(t)
                 /\ Follows(t)' <=> Follows(t)
       /\ \A t, w, k : /\ AtNode(t, w, k)' <=> AtNode(t, w, k)
                       /\ OpenAt(t, w, k)' <=> OpenAt(t, w, k)
  BY <1>1, <1>5, NodeFrame, OutFrame, FollowFrame
<1>14. \A j \in Ids : peer'[j] = IF j = i THEN [st |-> "asked", gen |-> n.gen] ELSE peer[j]
  BY <1>1, <1>2
<1>15. \A t \in Token : t.id \in Ids /\ t.gen \in Nat
  BY DEF Token
<1>16. OnePlace'
  <2>1. ~AtSent(n) /\ ~AtMgr(n) /\ \A w \in Workers : ~AtAny(n, w)
    BY <1>7 DEF Waits
  <2> QED
    BY <1>7, <1>10, <1>11, <1>12, <1>13, <2>1 DEF Inv, RequestInv, OnePlace
<1>17. NumbersUsed'
  <2> SUFFICES ASSUME NEW t \in Token,
                      \/ Waits(t)' \/ Over(t)' \/ AckSent(t)' \/ peer'[t.id].gen = t.gen
                      \/ Follows(t)' \/ \E w \in Workers, k \in Keys : AtNode(t, w, k)'
               PROVE  t.gen <= bound'.requests
    BY DEF NumbersUsed
  <2>1. bound'.requests = bound.requests + 1
    BY <1>1, <1>2
  <2>2. CASE t.gen = n.gen
    BY <1>3, <2>1, <2>2
  <2>3. CASE t.gen # n.gen
    <3>1. \/ Waits(t) \/ Over(t) \/ AckSent(t) \/ peer[t.id].gen = t.gen
          \/ Follows(t) \/ \E w \in Workers, k \in Keys : AtNode(t, w, k)
      BY <1>12, <1>13, <1>14, <1>15, <2>3
    <3>2. t.gen <= bound.requests
      BY <3>1 DEF Inv, RequestInv, NumbersUsed
    <3> QED
      BY <1>3, <1>15, <2>1, <3>2
  <2> QED
    BY <2>2, <2>3
<1>18. PeerWaits'
  <2> SUFFICES ASSUME NEW t \in Token, t.id \in ReqIds, Waits(t)' \/ Runs(t)'
               PROVE  peer'[t.id].st # "idle" /\ peer'[t.id].gen = t.gen
    BY DEF PeerWaits
  <2>1. CASE t = n
    BY <1>3, <1>14, <2>1
  <2>2. CASE t # n
    <3>1. peer[t.id].st # "idle" /\ peer[t.id].gen = t.gen
      BY <1>12, <2>2 DEF Inv, RequestInv, PeerWaits
    <3> QED
      BY <1>1, <1>14, <1>15, <3>1
  <2> QED
    BY <2>1, <2>2
<1>19. OverIsOver'
  BY <1>7, <1>12, <1>13 DEF Inv, RequestInv, OverIsOver
<1>20. AckedIsRouted'
  <2>1. \A t \in Token : AckRead(t)' => AckRead(t) /\ t # n
    BY <1>3, <1>14, <1>15 DEF AckRead
  <2> QED
    BY <1>7, <1>12, <1>13, <2>1 DEF Inv, RequestInv, AckedIsRouted
<1> QED
  BY <1>6, <1>8, <1>9, <1>16, <1>17, <1>18, <1>19, <1>20 DEF Inv, RequestInv

\* A peer sends a packet for a session that was acknowledged.
LEMMA SendDirectInv ==
    ASSUME Inv, NEW i \in Ids, NEW t0 \in {"data", "cancel"}, SendDirect(i, t0)
    PROVE  Inv'
<1> DEFINE q == [id |-> i, gen |-> peer[i].gen, t |-> t0]
           n == [id |-> i, gen |-> peer[i].gen]
<1>1. /\ UNCHANGED <<node, byId, any, direct, out, done, pc, mgr, sessions>>
      /\ peer[i].st = "acked"
      /\ sent' = [sent EXCEPT !.direct = Append(@, q)]
      /\ peer' = peer \/ peer' = [peer EXCEPT ![i].st = "given up"]
      /\ bound' = [bound EXCEPT !.directs = @ + 1]
  BY DEF SendDirect
<1>2. /\ peer \in [Ids -> PeerState] /\ bound \in [requests : Nat, directs : Nat, stops : Nat]
      /\ sent \in [any : [Modes -> Seq(Token)], direct : Seq(DirectPacket)]
  BY DEF Inv, TypeOK
<1>3. /\ q \in DirectPacket /\ n \in Token /\ n.id = i /\ n.gen = peer[i].gen /\ Session(q) = n
      /\ sent.direct \in Seq(DirectPacket)
  BY <1>1, <1>2 DEF Token, DirectPacket, Session, PeerState
<1>4. /\ Append(sent.direct, q) \in Seq(DirectPacket)
      /\ \A y : In(y, Append(sent.direct, q)) <=> In(y, sent.direct) \/ y = q
  BY <1>3, AppendIn
<1>5. /\ sent'.any = sent.any /\ sent'.direct = Append(sent.direct, q)
      /\ bound'.requests = bound.requests
  BY <1>1, <1>2
<1>6. \A j \in Ids : /\ peer'[j].gen = peer[j].gen
                     /\ peer'[j].st = peer[j].st \/ peer'[j].st = "given up"
  <2>1. CASE peer' = peer
    BY <2>1
  <2>2. CASE peer' = [peer EXCEPT ![i].st = "given up"]
    BY <1>2, <2>2 DEF PeerState
  <2> QED
    BY <1>1, <2>1, <2>2
<1>7. TypeOK'
  <2>1. peer' \in [Ids -> PeerState]
    BY <1>1, <1>2 DEF PeerState
  <2>2. bound' \in [requests : Nat, directs : Nat, stops : Nat]
    <3>1. bound' = [bound EXCEPT !.directs = @ + 1]
      BY DEF SendDirect
    <3> QED
      BY <1>2, <3>1
  <2>3. sent' \in [any : [Modes -> Seq(Token)], direct : Seq(DirectPacket)]
    BY <1>1, <1>2, <1>4
  <2> QED
    BY <1>1, <2>1, <2>2, <2>3 DEF Inv, TypeOK
<1>8. ModesKept' /\ PipesDistinct' /\ WorkerInv' /\ TableAgrees' /\ NoDirectLost'
  BY <1>1, <1>5, WorkerFrame, TableFrame DEF Inv, ModesKept, PipesDistinct, NoDirectLost
<1>9. \A t \in Token : Follows(t)' => Follows(t) \/ t = n
  BY <1>1, <1>3, <1>4, <1>5 DEF Follows
<1>10. /\ \A t : /\ Over(t)' <=> Over(t)
                 /\ AckSent(t)' <=> AckSent(t)
                 /\ Waits(t)' <=> Waits(t)
       /\ \A t, w, k : /\ AtNode(t, w, k)' <=> AtNode(t, w, k)
                       /\ RunAt(t, w, k)' <=> RunAt(t, w, k)
                       /\ OpenAt(t, w, k)' <=> OpenAt(t, w, k)
  BY <1>1, <1>5, NodeFrame, OutFrame, WaitFrame
<1>11. \A t : Runs(t)' <=> Runs(t)
  BY <1>10 DEF Runs
<1>12. \A t \in Token : t.id \in Ids
  BY DEF Token
<1>13. OnePlace'
  BY <1>1, <1>5, NodeFrame, WaitFrame DEF Inv, RequestInv, OnePlace
<1>14. NumbersUsed'
  BY <1>3, <1>5, <1>6, <1>9, <1>10, <1>12 DEF Inv, RequestInv, NumbersUsed
<1>15. PeerWaits'
  BY <1>6, <1>10, <1>11, <1>12 DEF Inv, RequestInv, PeerWaits
<1>16. OverIsOver'
  BY <1>10, <1>11 DEF Inv, RequestInv, OverIsOver
<1>17. AckedIsRouted'
  <2>1. AckRead(n)
    BY <1>1, <1>3 DEF AckRead
  <2>2. \A t \in Token : AckRead(t)' => AckRead(t)
    BY <1>6, <1>12 DEF AckRead
  <2> QED
    BY <1>3, <1>9, <1>10, <2>1, <2>2 DEF Inv, RequestInv, AckedIsRouted
<1> QED
  BY <1>7, <1>8, <1>13, <1>14, <1>15, <1>16, <1>17 DEF Inv, RequestInv

-----------------------------------------------------------------------------
(* Nodes and packets of a worker                                           *)

\* A packet is sent to the manager.
LEMMA SendOut ==
    ASSUME TypeOK, NEW w \in Workers, NEW p \in OutPacket, out' = [out EXCEPT ![w] = Append(@, p)]
    PROVE  /\ out' \in [Workers -> Seq(OutPacket)]
           /\ \A t : Over(t)' => Over(t) \/ (p.t # "ack" /\ t \in p.ids)
           /\ \A t : AckSent(t)' => AckSent(t) \/ (p.t = "ack" /\ t \in p.ids)
<1>1. out \in [Workers -> Seq(OutPacket)] /\ out[w] \in Seq(OutPacket)
  BY DEF TypeOK
<1>2. /\ Append(out[w], p) \in Seq(OutPacket)
      /\ \A y : In(y, Append(out[w], p)) <=> In(y, out[w]) \/ y = p
  BY <1>1, AppendIn
<1>3. \A v \in Workers : \A y : In(y, out'[v]) => In(y, out[v]) \/ (v = w /\ y = p)
  BY <1>1, <1>2
<1> QED
  BY <1>1, <1>2, <1>3 DEF Over, AckSent

\* A connection keeps its request.
SameRequest(n, o) == n.mode = o.mode /\ n.id = o.id /\ n.gen = o.gen

\* A connection with a field changed is one, of the same request.
LEMMA MsgField ==
    ASSUME NEW n \in Connection, NEW x \in {None, "data", "cancel"}
    PROVE  LET c == [n EXCEPT !.msg = x]
           IN c \in Connection /\ SameRequest(c, n) /\ c.phase = n.phase /\ c.routed = n.routed
  BY DEF Connection, SameRequest

\* Its token is cancelled.
LEMMA StopField ==
    ASSUME NEW n \in Connection
    PROVE  LET c == [n EXCEPT !.stop = TRUE]
           IN c \in Connection /\ SameRequest(c, n) /\ c.phase = n.phase /\ c.routed = n.routed
  BY DEF Connection, SameRequest

\* It ends.
LEMMA EndedField ==
    ASSUME NEW n \in Connection
    PROVE  LET c == [n EXCEPT !.phase = "ended"]
           IN c \in Connection /\ SameRequest(c, n) /\ c.phase = "ended" /\ c.routed = n.routed
  BY DEF Connection, SameRequest

\* It is acknowledged.
LEMMA RoutedField ==
    ASSUME NEW n \in Connection
    PROVE  LET c == [n EXCEPT !.phase = "run", !.routed = TRUE]
           IN c \in Connection /\ SameRequest(c, n) /\ c.phase = "run" /\ c.routed = TRUE
  BY DEF Connection, SameRequest

\* The keys keep their connections and these their requests.
SameNodes ==
  \A w \in Workers, k \in Keys :
    /\ node'[w][k] = Free <=> node[w][k] = Free
    /\ node[w][k] # Free => /\ SameRequest(node'[w][k], node[w][k])
                            /\ node'[w][k].phase = "ended" <=> node[w][k].phase = "ended"

\* Then the same requests are with the same connections.
LEMMA SameNodesViews ==
    ASSUME SameNodes
    PROVE  \A t \in Token, w \in Workers, k \in Keys :
              /\ AtNode(t, w, k)' <=> AtNode(t, w, k)
              /\ RunAt(t, w, k)' <=> RunAt(t, w, k)
  BY DEF SameNodes, SameRequest, AtNode, RunAt, Session

\* What holds of connections and requests holds on; workers may stop.
LEMMA SameNodesKeep ==
    ASSUME Inv, SameNodes, UNCHANGED <<done, any, sessions>>,
           \A w \in Workers : pc'[w] \in {"cancels", "ended"} => pc[w] \in {"cancels", "ended"}
    PROVE  DoneIsEnded' /\ IdsApart' /\ WithinMax' /\ TasksDone' /\ TableAgrees'
<1>1. DoneIsEnded' /\ IdsApart'
  BY DEF Inv, WorkerInv, DoneIsEnded, IdsApart, SameNodes, SameRequest
<1>2. WithinMax'
  <2>1. \A w \in Workers, m \in Modes : Items(w, m)' = Items(w, m)
    BY DEF Items, SameNodes, SameRequest
  <2> QED
    BY <2>1 DEF Inv, WorkerInv, WithinMax
<1>3. TasksDone'
  BY DEF Inv, WorkerInv, TasksDone, Running, SameNodes
<1>4. TableAgrees'
  <2>1. \A t, w : AtAny(t, w)' <=> AtAny(t, w)
    BY DEF AtAny
  <2> QED
    BY <2>1, SameNodesViews DEF Inv, TableAgrees
<1> QED
  BY <1>1, <1>2, <1>3, <1>4

-----------------------------------------------------------------------------
(* The shutdown of a worker                                                *)

\* A worker is told to stop.
LEMMA RunStopInv ==
    ASSUME Inv, NEW w \in Workers, RunStop(w)
    PROVE  Inv'
<1>1. /\ UNCHANGED <<byId, any, direct, done, mgr, sessions, peer, sent>>
      /\ pc' = [pc EXCEPT ![w] = "stopping"]
      /\ bound' = [bound EXCEPT !.stops = @ + 1]
  BY DEF RunStop
<1>2. PICK n \in 0 .. Len(out[w]) : out' = [out EXCEPT ![w] = SubSeq(@, 1, n)]
  BY DEF RunStop
<1>3. /\ node \in [Workers -> [Keys -> {Free} \cup Connection]]
      /\ out \in [Workers -> Seq(OutPacket)] /\ out[w] \in Seq(OutPacket)
      /\ pc \in [Workers -> {"run", "stopping", "cancels", "ended"}]
      /\ bound \in [requests : Nat, directs : Nat, stops : Nat]
  BY DEF Inv, TypeOK
<1>4. \A v \in Workers, k \in Keys :
        \/ node'[v][k] = node[v][k]
        \/ node[v][k] # Free /\ node'[v][k] = [node[v][k] EXCEPT !.stop = TRUE]
  BY <1>3 DEF RunStop
<1>5. \A v \in Workers, k \in Keys :
        /\ node[v][k] \in {Free} \cup Connection
        /\ node'[v][k] \in {Free} \cup Connection
        /\ node'[v][k] = Free <=> node[v][k] = Free
        /\ node[v][k] # Free => /\ SameRequest(node'[v][k], node[v][k])
                                /\ node'[v][k].phase = node[v][k].phase
                                /\ node'[v][k].routed = node[v][k].routed
  <2> TAKE v \in Workers, k \in Keys
  <2>1. node[v][k] \in {Free} \cup Connection
    BY <1>3
  <2>2. CASE node'[v][k] = node[v][k]
    BY <2>1, <2>2 DEF SameRequest
  <2>3. CASE node[v][k] # Free /\ node'[v][k] = [node[v][k] EXCEPT !.stop = TRUE]
    <3>1. node[v][k] \in Connection
      BY <2>1, <2>3
    <3> QED
      BY <2>3, <3>1, StopField, SessionIsToken
  <2> QED
    BY <1>4, <2>2, <2>3
<1>6. /\ SubSeq(out[w], 1, n) \in Seq(OutPacket)
      /\ \A y : In(y, SubSeq(out[w], 1, n)) => In(y, out[w])
  BY <1>3, CutIn
<1>7. /\ out' \in [Workers -> Seq(OutPacket)]
      /\ \A v \in Workers : \A y : In(y, out'[v]) => In(y, out[v])
  BY <1>2, <1>3, <1>6
<1>8. bound'.requests = bound.requests /\ bound' \in [requests : Nat, directs : Nat, stops : Nat]
  <2>1. bound' = [bound EXCEPT !.stops = @ + 1]
    BY DEF RunStop
  <2>2. bound \in [requests : Nat, directs : Nat, stops : Nat]
    BY DEF Inv, TypeOK
  <2> QED
    BY <2>1, <2>2
<1>9. /\ pc' \in [Workers -> {"run", "stopping", "cancels", "ended"}]
      /\ \A v \in Workers : pc'[v] = pc[v] \/ pc'[v] = "stopping"
  BY <1>1, <1>3
<1>10. TypeOK'
  <2>1. node' \in [Workers -> [Keys -> {Free} \cup Connection]]
    <3>1. \E f \in [Keys -> {Free} \cup Connection] : node' = [node EXCEPT ![w] = f]
      <4>1. node' = [node EXCEPT ![w] = [k \in Keys |->
               IF node[w][k] = Free THEN Free ELSE [node[w][k] EXCEPT !.stop = TRUE]]]
        BY DEF RunStop
      <4>2. [k \in Keys |-> IF node[w][k] = Free THEN Free ELSE [node[w][k] EXCEPT !.stop = TRUE]]
              \in [Keys -> {Free} \cup Connection]
        <5>1. \A k \in Keys : node[w][k] \in {Free} \cup Connection
          BY <1>3
        <5>2. \A k \in Keys :
                (IF node[w][k] = Free THEN Free ELSE [node[w][k] EXCEPT !.stop = TRUE])
                  \in {Free} \cup Connection
          <6> TAKE k \in Keys
          <6>1. CASE node[w][k] = Free
            BY <6>1
          <6>2. CASE node[w][k] # Free
            <7>1. node[w][k] \in Connection
              BY <5>1, <6>2
            <7> QED
              BY <6>2, <7>1, StopField
          <6> QED
            BY <6>1, <6>2
        <5> QED
          BY <5>2
      <4> QED
        BY <4>1, <4>2
    <3> QED
      BY <1>3, <3>1
  <2> QED
    BY <1>1, <1>7, <1>8, <1>9, <2>1 DEF Inv, TypeOK
<1>11. SameNodes
  BY <1>5 DEF SameNodes
<1>12. ModesKept' /\ PipesDistinct' /\ NoDirectLost'
  BY <1>1, <1>5 DEF Inv, ModesKept, PipesDistinct, NoDirectLost, SameRequest
<1>13. WorkerInv' /\ TableAgrees'
  <2>1. SessionReachable'
    BY <1>1, <1>5, <1>9 DEF Inv, WorkerInv, SessionReachable, Running, SameRequest
  <2> QED
    BY <1>1, <1>9, <1>11, <2>1, SameNodesKeep DEF WorkerInv
<1>14. NothingNew
  <2>1. \A t \in Token, v \in Workers, k \in Keys : OpenAt(t, v, k)' => OpenAt(t, v, k)
    BY <1>5, <1>11, SameNodesViews DEF OpenAt, AtNode
  <2>2. \A t : (Over(t)' => Over(t)) /\ (AckSent(t)' => AckSent(t))
    BY <1>7 DEF Over, AckSent
  <2> QED
    BY <1>1, <1>8, <1>11, <2>1, <2>2, SameNodesViews, WaitFrame, FollowFrame DEF NothingNew
<1> QED
  BY <1>10, <1>12, <1>13, <1>14, NothingNewKeeps DEF Inv

\* The connections of a worker that stops have ended.
LEMMA RunTasksDoneInv ==
    ASSUME Inv, NEW w \in Workers, RunTasksDone(w)
    PROVE  Inv'
<1>1. /\ UNCHANGED <<node, byId, direct, out, done, mgr, sessions, peer, sent, bound>>
      /\ pc' = [pc EXCEPT ![w] = "cancels"] /\ \A k \in Keys : ~Running(w, k)
      /\ any' = [any EXCEPT ![w]["req"] = <<>>]
  BY DEF RunTasksDone
<1>2. /\ any \in [Workers -> [Modes -> Seq(Token)]]
      /\ pc \in [Workers -> {"run", "stopping", "cancels", "ended"}]
  BY DEF Inv, TypeOK
<1>3. /\ any' \in [Workers -> [Modes -> Seq(Token)]]
      /\ \A v \in Workers, m \in Modes :
           any'[v][m] = IF v = w /\ m = "req" THEN <<>> ELSE any[v][m]
  BY <1>1, <1>2 DEF Modes
<1>4. /\ pc' \in [Workers -> {"run", "stopping", "cancels", "ended"}]
      /\ \A v \in Workers : pc'[v] = IF v = w THEN "cancels" ELSE pc[v]
  BY <1>1, <1>2
<1>5. TypeOK'
  BY <1>1, <1>3, <1>4 DEF Inv, TypeOK
<1>6. \A v \in Workers, m \in Modes : \A y : In(y, any'[v][m]) => In(y, any[v][m])
  BY <1>3, EmptyIn
<1>7. ModesKept' /\ PipesDistinct' /\ NoDirectLost'
  BY <1>1, <1>3, <1>6, EmptyIn DEF Inv, ModesKept, PipesDistinct, NoDirectLost
<1>8. \A t \in Token, v \in Workers : AtAny(t, v)' => AtAny(t, v)
  BY <1>6, ModeIsMode DEF AtAny
<1>9. WorkerInv'
  <2>1. DoneIsEnded' /\ IdsApart'
    BY <1>1 DEF Inv, WorkerInv, DoneIsEnded, IdsApart
  <2>2. WithinMax'
    BY <1>1 DEF Inv, WorkerInv, WithinMax, Items
  <2>3. TasksDone' /\ SessionReachable'
    BY <1>1, <1>4 DEF Inv, WorkerInv, TasksDone, SessionReachable, Running
  <2> QED
    BY <2>1, <2>2, <2>3 DEF WorkerInv
<1>10. TableAgrees'
  <2>1. \A t \in Token, v \in Workers : t.id \in StreamIds => (AtAny(t, v)' <=> AtAny(t, v))
    <3>1. \A t \in Token : t.id \in StreamIds => ModeOf(t.id) = "stream"
      BY ClientWorkerAssumption DEF ModeOf
    <3> QED
      BY <1>3, <3>1, ModeIsMode DEF AtAny, Modes
  <2> QED
    BY <1>1, <2>1, NodeFrame DEF Inv, TableAgrees
<1>11. NothingNew
  BY <1>1, <1>8, NodeFrame, OutFrame, FollowFrame DEF NothingNew, AtSent, AtMgr
<1> QED
  BY <1>5, <1>7, <1>9, <1>10, <1>11, NothingNewKeeps DEF Inv

\* The worker is gone, its handle, and the sessions in it; what it said before
\* that is of the sessions that it had.
LEMMA DropHandleInv ==
    ASSUME Inv, NEW w \in Workers, pc[w] = "cancels", DropHandle(w),
           UNCHANGED <<node, byId, done, mgr, peer, sent, bound>>,
           out' \in [Workers -> Seq(OutPacket)],
           \A t \in Token : Over(t)' => Over(t) \/ \E k \in Keys : AtNode(t, w, k),
           \A t \in Token : AckSent(t)' => AckSent(t)
    PROVE  Inv'
<1>1. /\ pc' = [pc EXCEPT ![w] = "ended"]
      /\ any' = [any EXCEPT ![w]["stream"] = <<>>] /\ direct' = [direct EXCEPT ![w] = <<>>]
      /\ sessions' = [i \in StreamIds |->
                        IF \E j \in DOMAIN any[w]["stream"] : any[w]["stream"][j].id = i
                        THEN None ELSE sessions[i]]
  BY DEF DropHandle
<1>2. /\ any \in [Workers -> [Modes -> Seq(Token)]] /\ any[w]["stream"] \in Seq(Token)
      /\ pc \in [Workers -> {"run", "stopping", "cancels", "ended"}]
      /\ direct \in [Workers -> Seq(DirectPacket)]
      /\ sessions \in [StreamIds -> Workers \cup {None}]
  BY DEF Inv, TypeOK, Modes
<1>3. /\ any' \in [Workers -> [Modes -> Seq(Token)]]
      /\ \A v \in Workers, m \in Modes :
           any'[v][m] = IF v = w /\ m = "stream" THEN <<>> ELSE any[v][m]
  BY <1>1, <1>2 DEF Modes
<1>4. /\ direct' \in [Workers -> Seq(DirectPacket)]
      /\ \A v \in Workers : direct'[v] = IF v = w THEN <<>> ELSE direct[v]
  BY <1>1, <1>2
<1>5. /\ pc' \in [Workers -> {"run", "stopping", "cancels", "ended"}]
      /\ \A v \in Workers : pc'[v] = IF v = w THEN "ended" ELSE pc[v]
  BY <1>1, <1>2
<1>6. TypeOK'
  <2>1. sessions' \in [StreamIds -> Workers \cup {None}]
    BY <1>1, <1>2
  <2> QED
    BY <1>3, <1>4, <1>5, <2>1 DEF Inv, TypeOK
<1>7. \A v \in Workers, m \in Modes : \A y : In(y, any'[v][m]) => In(y, any[v][m])
  BY <1>3, EmptyIn
<1>8. ModesKept' /\ PipesDistinct' /\ NoDirectLost'
  <2>1. ModesKept' /\ NoDirectLost'
    BY <1>7 DEF Inv, ModesKept, NoDirectLost
  <2>2. \A v \in Workers, m \in Modes : Distinct(any'[v][m])
    BY <1>3, EmptyIn DEF Inv, PipesDistinct
  <2> QED
    BY <2>1, <2>2 DEF Inv, PipesDistinct
<1>9. \A t \in Token, v \in Workers : AtAny(t, v)' => AtAny(t, v)
  BY <1>7, ModeIsMode DEF AtAny
<1>10. \A k \in Keys : ~Running(w, k)
  BY DEF Inv, WorkerInv, TasksDone
<1>11. WorkerInv'
  <2>1. DoneIsEnded' /\ IdsApart'
    BY DEF Inv, WorkerInv, DoneIsEnded, IdsApart
  <2>2. WithinMax'
    BY DEF Inv, WorkerInv, WithinMax, Items
  <2>3. TasksDone' /\ SessionReachable'
    BY <1>5, <1>10 DEF Inv, WorkerInv, TasksDone, SessionReachable, Running
  <2> QED
    BY <2>1, <2>2, <2>3 DEF WorkerInv
<1>12. \A t \in Token, k \in Keys : ~RunAt(t, w, k)
  BY <1>10 DEF RunAt, AtNode, Running
<1>13. TableAgrees'
  <2> DEFINE Queued(i) == \E j \in DOMAIN any[w]["stream"] : any[w]["stream"][j].id = i
  <2>1. \A t \in Token : t.id \in StreamIds => ModeOf(t.id) = "stream"
    BY ClientWorkerAssumption DEF ModeOf
  <2>2. \A t \in Token, v \in Workers :
          t.id \in StreamIds => (AtAny(t, v)' <=> AtAny(t, v) /\ v # w)
    BY <1>3, <2>1, EmptyIn, ModeIsMode DEF AtAny, Modes
  <2>3. \A t \in Token, v \in Workers, k \in Keys : RunAt(t, v, k)' <=> RunAt(t, v, k)
    BY NodeFrame
  <2>4. \A i \in StreamIds : Queued(i) <=> \E t \in Token : t.id = i /\ AtAny(t, w)
    <3>1. DOMAIN any[w]["stream"] = 1 .. Len(any[w]["stream"])
      BY <1>2
    <3>2. \A j \in DOMAIN any[w]["stream"] : any[w]["stream"][j] \in Token
      BY <1>2, <3>1
    <3> QED
      BY <2>1, <3>1, <3>2 DEF AtAny, In
  <2>5. \A i \in StreamIds : sessions'[i] = IF Queued(i) THEN None ELSE sessions[i]
    BY <1>1
  <2>6. None \notin Workers
    BY ClientWorkerAssumption
  <2>7. \A i \in StreamIds : Queued(i) => sessions[i] = w
    BY <2>4 DEF Inv, TableAgrees
  <2>8. ASSUME NEW i \in StreamIds, NEW v \in Workers
        PROVE  sessions'[i] = v <=>
                 \E t \in Token : t.id = i /\ (AtAny(t, v)' \/ \E k \in Keys : RunAt(t, v, k)')
    <3>1. sessions[i] = v <=>
            \E t \in Token : t.id = i /\ (AtAny(t, v) \/ \E k \in Keys : RunAt(t, v, k))
      BY DEF Inv, TableAgrees
    <3>2. CASE v = w
      BY <1>12, <2>2, <2>3, <2>4, <2>5, <2>6, <3>1, <3>2
    <3>3. CASE v # w
      BY <2>2, <2>3, <2>5, <2>6, <2>7, <3>1, <3>3
    <3> QED
      BY <3>2, <3>3
  <2> HIDE DEF Queued
  <2>9. \A t, u \in Token, v \in Workers :
          t.id \in StreamIds /\ AtAny(t, v)' /\ AtAny(u, v)' /\ t.id = u.id => t = u
    BY <1>9 DEF Inv, TableAgrees
  <2>10. \A t, u \in Token, v \in Workers, k \in Keys :
           t.id \in StreamIds /\ AtAny(t, v)' /\ RunAt(u, v, k)' => t.id # u.id
    BY <1>9, <2>3 DEF Inv, TableAgrees
  <2> QED
    BY <2>8, <2>9, <2>10 DEF TableAgrees
<1>14. NothingNew
  <2>1. \A t \in Token : Over(t)' => Over(t) \/ (Held(t) /\ ~Runs(t)')
    <3> SUFFICES ASSUME NEW t \in Token, NEW k \in Keys, AtNode(t, w, k)
                 PROVE  Held(t) /\ ~Runs(t)'
      OBVIOUS
    <3>1. \A v \in Workers, l \in Keys : RunAt(t, v, l)' => RunAt(t, v, l) /\ AtNode(t, v, l)
      BY NodeFrame DEF RunAt
    <3>2. \A v \in Workers, l \in Keys : AtNode(t, v, l) => v = w /\ l = k
      BY DEF Inv, RequestInv, OnePlace
    <3> QED
      BY <1>12, <3>1, <3>2 DEF Held, Runs
  <2>2. \A t \in Token : Follows(t)' => Follows(t)
    BY <1>4, EmptyIn DEF Follows
  <2> QED
    BY <1>9, <2>1, <2>2, NodeFrame DEF NothingNew, AtSent, AtMgr
<1> QED
  BY <1>6, <1>8, <1>11, <1>13, <1>14, NothingNewKeeps DEF Inv

\* A worker that stops says that its sessions are over.
LEMMA RunCancelInv ==
    ASSUME Inv, NEW w \in Workers, RunCancel(w)
    PROVE  Inv'
<1> DEFINE ids == {Session(node[w][k]) : k \in {j \in Items(w, "stream") : node[w][j].routed}}
           p == [t |-> "cancel", ids |-> ids]
<1>1. /\ UNCHANGED <<node, byId, done, mgr, peer, sent, bound>> /\ pc[w] = "cancels" /\ DropHandle(w)
      /\ out' = out \/ out' = [out EXCEPT ![w] = Append(@, p)]
  BY DEF RunCancel
<1>2. \A k \in Items(w, "stream") :
        k \in Keys /\ Session(node[w][k]) \in Token /\ AtNode(Session(node[w][k]), w, k)
  <2> TAKE k \in Items(w, "stream")
  <2>1. k \in Keys /\ node[w][k] # Free
    BY DEF Items
  <2>2. node[w][k] \in Connection
    BY <2>1, TypeFacts DEF Inv
  <2> QED
    BY <2>1, <2>2, SessionIsToken DEF AtNode
<1>3. p \in OutPacket /\ p.t = "cancel" /\ p.ids = ids
  BY <1>2 DEF OutPacket
<1>4. \A t \in ids : \E k \in Keys : AtNode(t, w, k)
  BY <1>2
<1> HIDE DEF ids, p
<1>5. /\ out' \in [Workers -> Seq(OutPacket)]
      /\ \A t \in Token : Over(t)' => Over(t) \/ t \in ids
      /\ \A t \in Token : AckSent(t)' => AckSent(t)
  <2>1. CASE out' = out
    BY <2>1, OutFrame DEF Inv, TypeOK
  <2>2. CASE out' = [out EXCEPT ![w] = Append(@, p)]
    BY <1>3, <2>2, SendOut DEF Inv
  <2> QED
    BY <1>1, <2>1, <2>2
<1> QED
  BY <1>1, <1>4, <1>5, DropHandleInv

\* A worker stops without having said it.
LEMMA RunTimeoutInv ==
    ASSUME Inv, NEW w \in Workers, RunTimeout(w)
    PROVE  Inv'
<1>1. /\ UNCHANGED <<node, byId, out, done, mgr, peer, sent, bound>>
      /\ pc[w] = "cancels" /\ DropHandle(w)
  BY DEF RunTimeout
<1>2. out \in [Workers -> Seq(OutPacket)]
  BY DEF Inv, TypeOK
<1> QED
  BY <1>1, <1>2, OutFrame, DropHandleInv

-----------------------------------------------------------------------------
(* The connections                                                         *)

\* A connection of a worker is changed, made or removed.
LEMMA NodeSet ==
    ASSUME TypeOK, NEW w \in Workers, NEW k \in Keys, NEW c \in {Free} \cup Connection,
           node' = [node EXCEPT ![w][k] = c]
    PROVE  /\ node' \in [Workers -> [Keys -> {Free} \cup Connection]]
           /\ \A v \in Workers, l \in Keys :
                node'[v][l] = IF v = w /\ l = k THEN c ELSE node[v][l]
<1>1. node \in [Workers -> [Keys -> {Free} \cup Connection]]
  BY DEF TypeOK
<1> QED
  BY <1>1

\* A connection that runs is one.
LEMMA RunningIsConnection ==
    ASSUME TypeOK, NEW w \in Workers, NEW k \in Keys, Running(w, k)
    PROVE  /\ node[w][k] \in Connection /\ node[w][k] # Free /\ node[w][k].phase # "ended"
           /\ Session(node[w][k]) \in Token /\ AtNode(Session(node[w][k]), w, k)
           /\ RunAt(Session(node[w][k]), w, k)
           /\ node[w][k].id \in Ids /\ Session(node[w][k]).id = node[w][k].id
<1>1. node[w][k] \in {Free} \cup Connection
  BY TypeFacts
<1>2. node[w][k] \in Connection /\ node[w][k].phase # "ended"
  BY <1>1 DEF Running
<1> QED
  BY <1>2, SessionIsToken DEF AtNode, RunAt

\* A connection that is left as it is but for its message.
LEMMA MsgInv ==
    ASSUME Inv, NEW w \in Workers, NEW k \in Keys, Running(w, k),
           NEW x \in {None, "data", "cancel"},
           node' = [node EXCEPT ![w][k] = [node[w][k] EXCEPT !.msg = x]],
           UNCHANGED <<byId, any, done, pc, sessions, sent, out, peer, bound>>,
           direct' \in [Workers -> Seq(DirectPacket)], mgr' \in MgrState,
           mgr'.in = mgr.in, mgr'.lost = mgr.lost,
           \A t \in Token : Follows(t)' => Follows(t)
    PROVE  Inv'
<1> DEFINE c == [node[w][k] EXCEPT !.msg = x]
<1>1. node[w][k] \in Connection /\ node[w][k] # Free
  BY RunningIsConnection DEF Inv
<1>2. /\ c \in Connection /\ SameRequest(c, node[w][k])
      /\ c.phase = node[w][k].phase /\ c.routed = node[w][k].routed
      /\ c # Free
  BY <1>1, MsgField, SessionIsToken
<1>3. /\ node' \in [Workers -> [Keys -> {Free} \cup Connection]]
      /\ \A v \in Workers, l \in Keys :
           node'[v][l] = IF v = w /\ l = k THEN c ELSE node[v][l]
  BY <1>2, NodeSet DEF Inv
<1> HIDE DEF c
<1>4. \A v \in Workers, l \in Keys :
        /\ node'[v][l] = Free <=> node[v][l] = Free
        /\ node[v][l] # Free => /\ SameRequest(node'[v][l], node[v][l])
                                /\ node'[v][l].phase = node[v][l].phase
                                /\ node'[v][l].routed = node[v][l].routed
  BY <1>1, <1>2, <1>3 DEF SameRequest
<1>5. SameNodes
  BY <1>4 DEF SameNodes
<1>6. TypeOK'
  BY <1>3 DEF Inv, TypeOK
<1>7. ModesKept' /\ PipesDistinct' /\ NoDirectLost'
  BY <1>4 DEF Inv, ModesKept, PipesDistinct, NoDirectLost, SameRequest
<1>8. WorkerInv' /\ TableAgrees'
  <2>1. SessionReachable'
    BY <1>4 DEF Inv, WorkerInv, SessionReachable, Running, SameRequest
  <2> QED
    BY <1>5, <2>1, SameNodesKeep DEF WorkerInv
<1>9. NothingNew
  <2>1. \A t \in Token, v \in Workers, l \in Keys : OpenAt(t, v, l)' => OpenAt(t, v, l)
    BY <1>4, <1>5, SameNodesViews DEF OpenAt, AtNode
  <2> QED
    BY <1>5, <2>1, SameNodesViews, WaitFrame, OutFrame DEF NothingNew
<1> QED
  BY <1>6, <1>7, <1>8, <1>9, NothingNewKeeps DEF Inv

\* A connection acknowledges its session and is routed from then on.
LEMMA ConnAckInv ==
    ASSUME Inv, NEW w \in Workers, NEW k \in Keys, ConnAck(w, k)
    PROVE  Inv'
<1> DEFINE n == node[w][k]
           c == [n EXCEPT !.phase = "run", !.routed = TRUE]
           p == Packet("ack", n)
<1>1. /\ UNCHANGED <<any, direct, done, pc, mgr, sessions, peer, sent, bound>>
      /\ Running(w, k)
      /\ out' = [out EXCEPT ![w] = Append(@, p)]
      /\ byId' = [byId EXCEPT ![w][n.id] = k]
  BY DEF ConnAck, SetId
<1>2. /\ n \in Connection /\ n # Free /\ n.phase # "ended" /\ n.id \in Ids
      /\ Session(n) \in Token /\ AtNode(Session(n), w, k)
  BY <1>1, RunningIsConnection DEF Inv
<1>3. PICK u \in Token : u = Session(n)
  BY <1>2
<1>4. c \in Connection /\ SameRequest(c, n) /\ c.phase = "run" /\ c.routed = TRUE /\ c # Free
  BY <1>2, RoutedField, SessionIsToken
<1>5. node' = [node EXCEPT ![w][k] = c]
  <2>1. node' = [node EXCEPT ![w][k].phase = "run", ![w][k].routed = TRUE]
    BY DEF ConnAck
  <2>2. node \in [Workers -> [Keys -> {Free} \cup Connection]]
    BY DEF Inv, TypeOK
  <2> QED
    BY <2>1, <2>2
<1>6. /\ node' \in [Workers -> [Keys -> {Free} \cup Connection]]
      /\ \A v \in Workers, l \in Keys :
           node'[v][l] = IF v = w /\ l = k THEN c ELSE node[v][l]
  BY <1>4, <1>5, NodeSet DEF Inv
<1>7. p \in OutPacket /\ p.t = "ack" /\ p.ids = {u}
  BY <1>2, <1>3 DEF OutPacket, Packet
<1>8. /\ out' \in [Workers -> Seq(OutPacket)]
      /\ \A t : Over(t)' => Over(t)
      /\ \A t : AckSent(t)' => AckSent(t) \/ t = u
  <2> HIDE DEF p
  <2> QED
    BY <1>1, <1>7, SendOut DEF Inv
<1>9. /\ byId' \in [Workers -> [Ids -> Keys \cup {None}]]
      /\ \A v \in Workers, i \in Ids : byId'[v][i] = IF v = w /\ i = n.id THEN k ELSE byId[v][i]
  <2>1. byId \in [Workers -> [Ids -> Keys \cup {None}]]
    BY DEF Inv, TypeOK
  <2> QED
    BY <1>1, <1>2, <2>1
<1> HIDE DEF c, p
<1>10. \A v \in Workers, l \in Keys :
        /\ node'[v][l] = Free <=> node[v][l] = Free
        /\ node[v][l] # Free =>
             /\ SameRequest(node'[v][l], node[v][l])
             /\ node'[v][l].phase = "ended" <=> node[v][l].phase = "ended"
             /\ node'[v][l].routed = TRUE \/ node'[v][l].routed = node[v][l].routed
             /\ node'[v][l].routed = node[v][l].routed \/ (v = w /\ l = k)
  BY <1>2, <1>4, <1>6 DEF SameRequest
<1>11. SameNodes
  BY <1>10 DEF SameNodes
<1>12. TypeOK'
  BY <1>1, <1>6, <1>8, <1>9 DEF Inv, TypeOK
<1>13. ModesKept' /\ PipesDistinct' /\ NoDirectLost'
  BY <1>1, <1>10 DEF Inv, ModesKept, PipesDistinct, NoDirectLost, SameRequest
<1>14. WorkerInv' /\ TableAgrees'
  <2>1. SessionReachable'
    <3> SUFFICES ASSUME NEW v \in Workers, NEW l \in Keys,
                        pc'[v] = "run", Running(v, l)', node'[v][l].routed
                 PROVE  byId'[v][node'[v][l].id] = l
      BY DEF SessionReachable
    <3>1. CASE v = w /\ l = k
      BY <1>2, <1>4, <1>6, <1>9, <3>1 DEF SameRequest
    <3>2. CASE ~(v = w /\ l = k)
      <4>1. node'[v][l] = node[v][l] /\ Running(v, l)
        BY <1>6, <3>2 DEF Running
      <4>2. byId[v][node[v][l].id] = l /\ node[v][l].id \in Ids
        BY <1>1, <4>1, RunningIsConnection DEF Inv, WorkerInv, SessionReachable
      <4>3. ~(v = w /\ node[v][l].id = n.id)
        BY <1>2, <3>2, <4>1 DEF Inv, WorkerInv, IdsApart, Running
      <4> QED
        BY <1>9, <4>1, <4>2, <4>3
    <3> QED
      BY <3>1, <3>2
  <2> QED
    BY <1>1, <1>11, <2>1, SameNodesKeep DEF WorkerInv
<1>15. NothingNew
  <2>1. \A t \in Token, v \in Workers, l \in Keys : OpenAt(t, v, l)' => OpenAt(t, v, l)
    BY <1>10, <1>11, SameNodesViews DEF OpenAt, AtNode
  <2>2. \A t \in Token :
          AckSent(t)' => \/ AckSent(t)
                         \/ Held(t) /\ \A v \in Workers, l \in Keys : ~OpenAt(t, v, l)'
    <3>1. Held(u)
      BY <1>2, <1>3 DEF Held
    <3>2. ASSUME NEW v \in Workers, NEW l \in Keys PROVE ~OpenAt(u, v, l)'
      <4>1. AtNode(u, v, l)' => v = w /\ l = k
        BY <1>2, <1>3, <1>11, SameNodesViews DEF Inv, RequestInv, OnePlace
      <4>2. node'[w][k].routed = TRUE
        BY <1>4, <1>6
      <4> QED
        BY <4>1, <4>2 DEF OpenAt
    <3> QED
      BY <1>8, <3>1, <3>2
  <2> QED
    BY <1>1, <1>8, <1>11, <2>1, <2>2, SameNodesViews, WaitFrame, FollowFrame DEF NothingNew
<1> QED
  BY <1>12, <1>13, <1>14, <1>15, NothingNewKeeps DEF Inv

\* A connection ends, and may have said so to its peer.
LEMMA EndInv ==
    ASSUME Inv, NEW w \in Workers, NEW k \in Keys, Running(w, k), End(w, k),
           UNCHANGED <<byId, any, direct, pc, mgr, peer, sent, bound>>,
           out' = out \/ out' = [out EXCEPT ![w] = Append(@, Packet("end", node[w][k]))]
    PROVE  Inv'
<1> DEFINE n == node[w][k]
           c == [n EXCEPT !.phase = "ended"]
           p == Packet("end", n)
<1>1. /\ done' = [done EXCEPT ![w] = Append(@, k)]
      /\ sessions' = IF n.mode = "stream" THEN [sessions EXCEPT ![n.id] = None] ELSE sessions
  BY DEF End
<1>2. /\ n \in Connection /\ n # Free /\ n.phase # "ended" /\ n.id \in Ids
      /\ Session(n) \in Token /\ AtNode(Session(n), w, k) /\ RunAt(Session(n), w, k)
      /\ Session(n).id = n.id
  BY RunningIsConnection DEF Inv
<1>3. PICK u \in Token : u = Session(n)
  BY <1>2
<1>4. c \in Connection /\ SameRequest(c, n) /\ c.phase = "ended" /\ c.routed = n.routed /\ c # Free
  BY <1>2, EndedField, SessionIsToken
<1>5. node' = [node EXCEPT ![w][k] = c]
  <2>1. node' = [node EXCEPT ![w][k].phase = "ended"]
    BY DEF End
  <2>2. node \in [Workers -> [Keys -> {Free} \cup Connection]]
    BY DEF Inv, TypeOK
  <2> QED
    BY <2>1, <2>2
<1>6. /\ node' \in [Workers -> [Keys -> {Free} \cup Connection]]
      /\ \A v \in Workers, l \in Keys :
           node'[v][l] = IF v = w /\ l = k THEN c ELSE node[v][l]
  BY <1>4, <1>5, NodeSet DEF Inv
<1>7. /\ out' \in [Workers -> Seq(OutPacket)]
      /\ \A t : Over(t)' => Over(t) \/ t = u
      /\ \A t : AckSent(t)' => AckSent(t)
  <2>1. p \in OutPacket /\ p.t = "end" /\ p.ids = {u}
    BY <1>2, <1>3 DEF OutPacket, Packet
  <2>2. CASE out' = out
    BY <2>2, OutFrame DEF Inv, TypeOK
  <2>3. CASE out' = [out EXCEPT ![w] = Append(@, p)]
    <3> HIDE DEF p
    <3> QED
      BY <2>1, <2>3, SendOut DEF Inv
  <2> QED
    BY <2>2, <2>3
<1>8. done \in [Workers -> Seq(Keys)] /\ done[w] \in Seq(Keys)
  BY DEF Inv, TypeOK
<1>9. /\ Append(done[w], k) \in Seq(Keys)
      /\ \A y : In(y, Append(done[w], k)) <=> In(y, done[w]) \/ y = k
      /\ Distinct(done[w]) /\ ~In(k, done[w]) => Distinct(Append(done[w], k))
  BY <1>8, AppendIn
<1>10. /\ done' \in [Workers -> Seq(Keys)]
       /\ \A v \in Workers : done'[v] = IF v = w THEN Append(done[w], k) ELSE done[v]
  BY <1>1, <1>8, <1>9
<1>11. sessions' \in [StreamIds -> Workers \cup {None}]
  <2>1. sessions \in [StreamIds -> Workers \cup {None}]
    BY DEF Inv, TypeOK
  <2> QED
    BY <1>1, <2>1
<1> HIDE DEF c, p
<1>12. TypeOK'
  BY <1>6, <1>7, <1>10, <1>11 DEF Inv, TypeOK
<1>13. \A v \in Workers, l \in Keys :
         /\ node'[v][l] = Free <=> node[v][l] = Free
         /\ node[v][l] # Free =>
              /\ SameRequest(node'[v][l], node[v][l])
              /\ node'[v][l].routed = node[v][l].routed
              /\ node'[v][l].phase = "ended" <=> node[v][l].phase = "ended" \/ (v = w /\ l = k)
  BY <1>2, <1>4, <1>6 DEF SameRequest
<1>14. \A t \in Token, v \in Workers, l \in Keys :
         /\ AtNode(t, v, l)' <=> AtNode(t, v, l)
         /\ OpenAt(t, v, l)' => OpenAt(t, v, l)
         /\ RunAt(t, v, l)' <=> RunAt(t, v, l) /\ ~(v = w /\ l = k)
  <2>1. \A t \in Token, v \in Workers, l \in Keys : AtNode(t, v, l)' <=> AtNode(t, v, l)
    BY <1>13 DEF AtNode, SameRequest, Session
  <2>2. \A t \in Token, v \in Workers, l \in Keys : OpenAt(t, v, l)' => OpenAt(t, v, l)
    BY <1>13, <2>1 DEF OpenAt, AtNode
  <2>3. \A t \in Token, v \in Workers, l \in Keys :
          RunAt(t, v, l)' <=> RunAt(t, v, l) /\ ~(v = w /\ l = k)
    BY <1>13, <2>1 DEF RunAt, AtNode
  <2> QED
    BY <2>1, <2>2, <2>3
<1>15. ModesKept' /\ PipesDistinct' /\ NoDirectLost'
  <2>1. ModesKept' /\ NoDirectLost'
    BY <1>13 DEF Inv, ModesKept, NoDirectLost, SameRequest
  <2>2. ~In(k, done[w])
    BY <1>2 DEF Inv, WorkerInv, DoneIsEnded
  <2>3. \A v \in Workers : Distinct(done'[v])
    BY <1>9, <1>10, <2>2 DEF Inv, PipesDistinct
  <2> QED
    BY <2>1, <2>3 DEF Inv, PipesDistinct
<1>16. WorkerInv'
  <2>1. DoneIsEnded'
    <3>1. \A v \in Workers, l \in Keys :
            In(l, done'[v]) <=> In(l, done[v]) \/ (v = w /\ l = k)
      BY <1>9, <1>10
    <3> QED
      BY <1>2, <1>13, <3>1 DEF Inv, WorkerInv, DoneIsEnded
  <2>2. IdsApart'
    BY <1>13 DEF Inv, WorkerInv, IdsApart, SameRequest
  <2>3. WithinMax'
    <3>1. \A v \in Workers, m \in Modes : Items(v, m)' = Items(v, m)
      BY <1>13 DEF Items, SameRequest
    <3> QED
      BY <3>1 DEF Inv, WorkerInv, WithinMax
  <2>4. TasksDone' /\ SessionReachable'
    BY <1>13 DEF Inv, WorkerInv, TasksDone, SessionReachable, Running, SameRequest
  <2> QED
    BY <2>1, <2>2, <2>3, <2>4 DEF WorkerInv
<1>17. TableAgrees'
  <2>1. \A t, v : AtAny(t, v)' <=> AtAny(t, v)
    BY DEF AtAny
  <2>2. \A t \in Token : RunAt(t, w, k) <=> t = u
    BY <1>2, <1>3 DEF RunAt, AtNode
  <2>3. u.id = n.id
    BY <1>2, <1>3
  <2>4. \A t \in Token, v \in Workers, l \in Keys :
          RunAt(t, v, l) /\ t.id = u.id /\ v = w => l = k
    BY <1>2, <2>3 DEF Inv, WorkerInv, IdsApart, RunAt, AtNode, Session
  <2>5. ASSUME NEW i \in StreamIds, NEW v \in Workers
        PROVE  sessions'[i] = v <=>
                 \E t \in Token : t.id = i /\ (AtAny(t, v)' \/ \E l \in Keys : RunAt(t, v, l)')
    <3>1. sessions[i] = v <=>
            \E t \in Token : t.id = i /\ (AtAny(t, v) \/ \E l \in Keys : RunAt(t, v, l))
      BY DEF Inv, TableAgrees
    <3>2. CASE i # u.id
      <4>1. sessions'[i] = sessions[i]
        BY <1>1, <2>3, <3>2 DEF Inv, TypeOK
      <4> QED
        BY <1>14, <2>1, <2>2, <3>1, <3>2, <4>1
    <3>3. CASE i = u.id
      <4>1. n.mode = "stream"
        BY <1>2, <2>3, <3>3, ClientWorkerAssumption DEF Inv, ModesKept, ModeOf
      <4>2. sessions'[i] = None
        BY <1>1, <2>3, <3>3, <4>1 DEF Inv, TypeOK
      <4>3. sessions[i] = w
        BY <1>2, <1>3, <3>3 DEF Inv, TableAgrees
      <4>4. \A t \in Token : t.id = i => ~AtAny(t, w)
        BY <1>2, <1>3, <3>3 DEF Inv, TableAgrees
      <4>5. \A t \in Token, l \in Keys : t.id = i => ~RunAt(t, w, l)'
        BY <1>14, <2>4, <3>3
      <4>6. None \notin Workers
        BY ClientWorkerAssumption
      <4> QED
        BY <1>14, <2>1, <3>1, <4>2, <4>3, <4>4, <4>5, <4>6
    <3> QED
      BY <3>2, <3>3
  <2>6. \A t, s \in Token, v \in Workers :
          t.id \in StreamIds /\ AtAny(t, v)' /\ AtAny(s, v)' /\ t.id = s.id => t = s
    BY <2>1 DEF Inv, TableAgrees
  <2>7. \A t, s \in Token, v \in Workers, l \in Keys :
          t.id \in StreamIds /\ AtAny(t, v)' /\ RunAt(s, v, l)' => t.id # s.id
    BY <1>14, <2>1 DEF Inv, TableAgrees
  <2> QED
    BY <2>5, <2>6, <2>7 DEF TableAgrees
<1>18. NothingNew
  <2>1. Held(u) /\ ~Runs(u)'
    <3>1. \A v \in Workers, l \in Keys : AtNode(u, v, l) => v = w /\ l = k
      BY <1>2, <1>3 DEF Inv, RequestInv, OnePlace
    <3>2. \A v \in Workers, l \in Keys : RunAt(u, v, l) => AtNode(u, v, l)
      BY DEF RunAt
    <3> QED
      BY <1>2, <1>3, <1>14, <3>1, <3>2 DEF Held, Runs
  <2> QED
    BY <1>7, <1>14, <2>1, WaitFrame, FollowFrame DEF NothingNew
<1> QED
  BY <1>12, <1>15, <1>16, <1>17, <1>18, NothingNewKeeps DEF Inv

\* A connection takes a packet.
LEMMA ConnMsgInv ==
    ASSUME Inv, NEW w \in Workers, NEW k \in Keys, ConnMsg(w, k)
    PROVE  Inv'
<1>1. /\ UNCHANGED <<byId, any, direct, out, pc, mgr, peer, sent, bound>> /\ Running(w, k)
  BY DEF ConnMsg
<1>2. CASE End(w, k)
  BY <1>1, <1>2, EndInv
<1>3. CASE node' = [node EXCEPT ![w][k].msg = None] /\ UNCHANGED <<done, sessions>>
  <2>1. node' = [node EXCEPT ![w][k] = [node[w][k] EXCEPT !.msg = None]]
    <3>1. node \in [Workers -> [Keys -> {Free} \cup Connection]]
      BY DEF Inv, TypeOK
    <3> QED
      BY <1>3, <3>1
  <2>2. mgr' \in MgrState /\ direct' \in [Workers -> Seq(DirectPacket)]
    BY <1>1 DEF Inv, TypeOK
  <2>3. \A t \in Token : Follows(t)' => Follows(t)
    BY <1>1, FollowFrame
  <2> QED
    BY <1>1, <1>3, <2>1, <2>2, <2>3, MsgInv
<1> QED
  BY <1>2, <1>3 DEF ConnMsg

\* Any step of a connection.
LEMMA ConnNextInv ==
    ASSUME Inv, NEW w \in Workers, NEW k \in Keys, ConnNext(w, k)
    PROVE  Inv'
<1>1. CASE ConnAck(w, k)
  BY <1>1, ConnAckInv
<1>2. CASE ConnMsg(w, k)
  BY <1>2, ConnMsgInv
<1>3. CASE ConnFinish(w, k)
  BY <1>3, EndInv DEF ConnFinish
<1>4. CASE ConnFail(w, k)
  BY <1>4, EndInv DEF ConnFail
<1>5. CASE ConnStop(w, k)
  BY <1>5, EndInv DEF ConnStop
<1> QED
  BY <1>1, <1>2, <1>3, <1>4, <1>5 DEF ConnNext

-----------------------------------------------------------------------------
(* The handle tasks                                                        *)

\* A packet for a connection that lives finds it: its session was acknowledged,
\* so that it is routed, and is reachable then.
LEMMA PacketFinds ==
    ASSUME Inv, NEW w \in Workers, pc[w] = "run", NEW p \in DirectPacket, In(p, direct[w]),
           NEW j \in Keys, Running(w, j), node[w][j].id = p.id, node[w][j].gen = p.gen
    PROVE  byId[w][p.id] = j
<1>1. /\ node[w][j] \in Connection /\ Session(node[w][j]) \in Token
      /\ AtNode(Session(node[w][j]), w, j)
  BY RunningIsConnection DEF Inv
<1>2. Session(p) = Session(node[w][j])
  BY DEF Session
<1>3. Follows(Session(node[w][j]))
  BY <1>2 DEF Follows
<1>4. ~OpenAt(Session(node[w][j]), w, j)
  BY <1>1, <1>3 DEF Inv, RequestInv, AckedIsRouted
<1>5. node[w][j].routed
  BY <1>1, <1>4 DEF OpenAt
<1> QED
  BY <1>5 DEF Inv, WorkerInv, SessionReachable

\* A worker passes a packet to its connection.
LEMMA HandleDirectInv ==
    ASSUME Inv, NEW w \in Workers, HandleDirect(w)
    PROVE  Inv'
<1> DEFINE p == Head(direct[w])
           k == byId[w][p.id]
           live == {j \in Keys : Running(w, j) /\ node[w][j].id = p.id /\ node[w][j].gen = p.gen}
<1>1. /\ UNCHANGED <<byId, any, out, done, pc, sessions, peer, sent, bound>>
      /\ pc[w] = "run" /\ direct[w] # <<>>
      /\ direct' = [direct EXCEPT ![w] = Tail(@)]
      /\ node' = IF k # None /\ Running(w, k) THEN [node EXCEPT ![w][k].msg = p.t] ELSE node
      /\ mgr' = [mgr EXCEPT !.lost = @ \/ (live # {} /\ k \notin live)]
  BY DEF HandleDirect
<1>2. direct \in [Workers -> Seq(DirectPacket)] /\ direct[w] \in Seq(DirectPacket)
  BY DEF Inv, TypeOK
<1>3. /\ Tail(direct[w]) \in Seq(DirectPacket) /\ p \in DirectPacket /\ In(p, direct[w])
      /\ \A y : In(y, Tail(direct[w])) => In(y, direct[w])
  BY <1>1, <1>2, TailIn
<1>4. /\ direct' \in [Workers -> Seq(DirectPacket)]
      /\ \A v \in Workers : \A y : In(y, direct'[v]) => In(y, direct[v])
  BY <1>1, <1>2, <1>3
<1>5. ~(live # {} /\ k \notin live)
  <2>1. \A j \in live : k = j
    BY <1>1, <1>3, PacketFinds
  <2> QED
    BY <2>1
<1>6. mgr' \in MgrState /\ mgr'.in = mgr.in /\ mgr'.blocked = mgr.blocked /\ mgr'.lost = mgr.lost
  <2>1. mgr \in MgrState /\ mgr.lost = FALSE
    BY DEF Inv, TypeOK, NoDirectLost, MgrState
  <2>2. mgr' = [mgr EXCEPT !.lost = FALSE]
    BY <1>1, <1>5, <2>1
  <2> QED
    BY <2>1, <2>2 DEF MgrState
<1>7. \A t \in Token : Follows(t)' => Follows(t)
  BY <1>1, <1>4, <1>6 DEF Follows
<1>8. CASE k # None /\ Running(w, k)
  <2>1. k \in Keys /\ p.t \in {None, "data", "cancel"}
    BY <1>3, <1>8 DEF Inv, TypeOK, DirectPacket
  <2>2. node' = [node EXCEPT ![w][k] = [node[w][k] EXCEPT !.msg = p.t]]
    <3>1. node \in [Workers -> [Keys -> {Free} \cup Connection]]
      BY DEF Inv, TypeOK
    <3>2. node' = [node EXCEPT ![w][k].msg = p.t]
      BY <1>1, <1>8
    <3> HIDE DEF k, p
    <3> QED
      BY <2>1, <3>1, <3>2
  <2>3. UNCHANGED <<byId, any, out, done, pc, sessions, peer, sent, bound>>
    BY <1>1
  <2> HIDE DEF k, p
  <2> QED
    BY <1>4, <1>6, <1>7, <1>8, <2>1, <2>2, <2>3, MsgInv
<1>9. CASE ~(k # None /\ Running(w, k))
  <2>1. node' = node
    BY <1>1, <1>9
  <2>2. TypeOK'
    BY <1>1, <1>4, <1>6, <2>1 DEF Inv, TypeOK
  <2>3. ModesKept' /\ PipesDistinct' /\ WorkerInv' /\ TableAgrees' /\ NoDirectLost'
    <3>1. ModesKept' /\ PipesDistinct' /\ NoDirectLost'
      <4>1. any' = any /\ sent' = sent /\ done' = done
        BY <1>1
      <4> QED
        BY <1>6, <2>1, <4>1 DEF Inv, ModesKept, PipesDistinct, NoDirectLost
    <3>2. WorkerInv' /\ TableAgrees'
      BY <1>1, <2>1, WorkerFrame, TableFrame DEF Inv
    <3> QED
      BY <3>1, <3>2
  <2>4. NothingNew
    BY <1>1, <1>6, <1>7, <2>1, NodeFrame, OutFrame, WaitFrame DEF NothingNew
  <2> QED
    BY <2>2, <2>3, <2>4, NothingNewKeeps DEF Inv
<1> QED
  BY <1>8, <1>9

\* A worker removes a connection that is done.
LEMMA HandleDoneInv ==
    ASSUME Inv, NEW w \in Workers, HandleDone(w)
    PROVE  Inv'
<1> DEFINE k == Head(done[w])
           n == node[w][k]
<1>1. /\ UNCHANGED <<any, direct, out, pc, mgr, sessions, peer, sent, bound>>
      /\ pc[w] = "run" /\ done[w] # <<>> /\ done' = [done EXCEPT ![w] = Tail(@)]
      /\ node' = [node EXCEPT ![w][k] = Free]
      /\ byId' = IF n.routed THEN [byId EXCEPT ![w][n.id] = None] ELSE byId
  BY DEF HandleDone, ConnectionsRemove
<1>2. /\ done \in [Workers -> Seq(Keys)] /\ done[w] \in Seq(Keys) /\ Distinct(done[w])
      /\ byId \in [Workers -> [Ids -> Keys \cup {None}]]
  BY DEF Inv, TypeOK, PipesDistinct
<1>3. /\ Tail(done[w]) \in Seq(Keys) /\ k \in Keys /\ In(k, done[w])
      /\ \A y : In(y, Tail(done[w])) <=> In(y, done[w]) /\ y # k
      /\ Distinct(Tail(done[w]))
  BY <1>1, <1>2, TailIn
<1>4. /\ done' \in [Workers -> Seq(Keys)]
      /\ \A v \in Workers : done'[v] = IF v = w THEN Tail(done[w]) ELSE done[v]
  BY <1>1, <1>2, <1>3
<1>5. n # Free /\ n.phase = "ended" /\ n \in Connection /\ n.id \in Ids
  <2>1. n # Free /\ n.phase = "ended"
    BY <1>3 DEF Inv, WorkerInv, DoneIsEnded
  <2>2. n \in {Free} \cup Connection
    BY <1>3, TypeFacts DEF Inv
  <2> QED
    BY <2>1, <2>2, SessionIsToken
<1> HIDE DEF k
<1>6. /\ node' \in [Workers -> [Keys -> {Free} \cup Connection]]
      /\ \A v \in Workers, l \in Keys :
           node'[v][l] = IF v = w /\ l = k THEN Free ELSE node[v][l]
  BY <1>1, <1>3, NodeSet DEF Inv
<1>7. /\ byId' \in [Workers -> [Ids -> Keys \cup {None}]]
      /\ \A v \in Workers, i \in Ids : byId'[v][i] = byId[v][i] \/ (v = w /\ i = n.id)
  BY <1>1, <1>2, <1>5
<1>8. TypeOK'
  BY <1>1, <1>4, <1>6, <1>7 DEF Inv, TypeOK
<1>9. \A t \in Token, v \in Workers, l \in Keys :
        /\ AtNode(t, v, l)' => AtNode(t, v, l)
        /\ OpenAt(t, v, l)' => OpenAt(t, v, l)
        /\ RunAt(t, v, l)' <=> RunAt(t, v, l)
  BY <1>5, <1>6 DEF AtNode, OpenAt, RunAt
<1>10. ModesKept' /\ PipesDistinct' /\ NoDirectLost'
  <2>1. ModesKept' /\ NoDirectLost'
    BY <1>1, <1>6 DEF Inv, ModesKept, NoDirectLost
  <2>2. \A v \in Workers : Distinct(done'[v])
    BY <1>3, <1>4 DEF Inv, PipesDistinct
  <2> QED
    BY <1>1, <2>1, <2>2 DEF Inv, PipesDistinct
<1>11. WorkerInv'
  <2>1. DoneIsEnded'
    <3>1. \A v \in Workers, l \in Keys : In(l, done'[v]) <=> In(l, done[v]) /\ ~(v = w /\ l = k)
      BY <1>3, <1>4
    <3> QED
      BY <1>6, <3>1 DEF Inv, WorkerInv, DoneIsEnded
  <2>2. IdsApart'
    BY <1>6 DEF Inv, WorkerInv, IdsApart
  <2>3. WithinMax'
    <3> SUFFICES ASSUME NEW v \in Workers, NEW m \in Modes
                 PROVE  Cardinality(Items(v, m)') <= MaxOf(m)
      BY DEF WithinMax
    <3>1. Items(v, m)' \subseteq Items(v, m) /\ Items(v, m) \subseteq Keys
      BY <1>6 DEF Items
    <3>2. IsFiniteSet(Items(v, m))
      BY <3>1, KeysFinite, FS_Subset
    <3>3. /\ Cardinality(Items(v, m)') <= Cardinality(Items(v, m))
          /\ Cardinality(Items(v, m)') \in Nat /\ Cardinality(Items(v, m)) \in Nat
      BY <3>1, <3>2, FS_Subset, FS_CardinalityType
    <3>4. Cardinality(Items(v, m)) <= MaxOf(m) /\ MaxOf(m) \in Nat
      BY ClientWorkerAssumption DEF Inv, WorkerInv, WithinMax, MaxOf
    <3> QED
      BY <3>3, <3>4
  <2>4. TasksDone'
    BY <1>1, <1>6 DEF Inv, WorkerInv, TasksDone, Running
  <2>5. SessionReachable'
    <3> SUFFICES ASSUME NEW v \in Workers, NEW l \in Keys,
                        pc'[v] = "run", Running(v, l)', node'[v][l].routed
                 PROVE  byId'[v][node'[v][l].id] = l
      BY DEF SessionReachable
    <3>1. node'[v][l] = node[v][l] /\ ~(v = w /\ l = k) /\ Running(v, l)
      BY <1>6 DEF Running
    <3>2. byId[v][node[v][l].id] = l /\ node[v][l].id \in Ids
      BY <1>1, <3>1, RunningIsConnection DEF Inv, WorkerInv, SessionReachable
    <3>3. ~(v = w /\ node[v][l].id = n.id)
      BY <1>3, <1>5, <3>1 DEF Inv, WorkerInv, IdsApart, Running
    <3> QED
      BY <1>7, <3>1, <3>2, <3>3
  <2> QED
    BY <2>1, <2>2, <2>3, <2>4, <2>5 DEF WorkerInv
<1>12. TableAgrees'
  <2>1. \A t, v : AtAny(t, v)' <=> AtAny(t, v)
    BY <1>1 DEF AtAny
  <2> QED
    BY <1>1, <1>9, <2>1 DEF Inv, TableAgrees
<1>13. NothingNew
  BY <1>1, <1>9, OutFrame, WaitFrame, FollowFrame DEF NothingNew
<1> QED
  BY <1>8, <1>10, <1>11, <1>12, <1>13, NothingNewKeeps DEF Inv

\* A worker makes a connection for a request.
LEMMA HandleAnyInv ==
    ASSUME Inv, NEW w \in Workers, NEW m \in Modes, HandleAny(w, m)
    PROVE  Inv'
<1>1. PICK k \in Keys :
        /\ k = Min({j \in Keys : node[w][j] = Free}) /\ node[w][k] = Free
  BY FreeKey DEF HandleAny, Inv, WorkerInv
<1>2. /\ any \in [Workers -> [Modes -> Seq(Token)]] /\ any[w][m] \in Seq(Token)
      /\ any[w][m] # <<>> /\ Distinct(any[w][m])
  BY DEF Inv, TypeOK, PipesDistinct, HandleAny
<1>3. PICK i \in Token : i = Head(any[w][m])
  BY <1>2, TailIn
<1>4. /\ Tail(any[w][m]) \in Seq(Token) /\ In(i, any[w][m])
      /\ \A y : In(y, Tail(any[w][m])) <=> In(y, any[w][m]) /\ y # i
      /\ Distinct(Tail(any[w][m]))
  BY <1>2, <1>3, TailIn
<1> DEFINE c == [phase |-> "start", mode |-> m, id |-> i.id, gen |-> i.gen,
                 msg |-> None, routed |-> m = "req", stop |-> FALSE]
<1>5. /\ UNCHANGED <<direct, out, done, pc, mgr, sessions, peer, sent, bound>>
      /\ pc[w] = "run" /\ NoneDone(w, m) /\ Cardinality(Items(w, m)) < MaxOf(m)
      /\ node' = [node EXCEPT ![w][k] = c]
      /\ byId' = IF m = "req" THEN [byId EXCEPT ![w][i.id] = k] ELSE byId
      /\ any' = [any EXCEPT ![w][m] = Tail(@)]
  BY <1>1, <1>3 DEF HandleAny, SetId
<1>6. /\ i.id \in Ids /\ i.gen \in Nat /\ i = [id |-> i.id, gen |-> i.gen]
      /\ ModeOf(i.id) = m /\ AtAny(i, w) /\ Waits(i)
  <2>1. i.id \in Ids /\ i.gen \in Nat /\ i = [id |-> i.id, gen |-> i.gen]
    BY DEF Token
  <2>2. ModeOf(i.id) = m
    BY <1>4 DEF Inv, ModesKept
  <2> QED
    BY <1>4, <2>1, <2>2 DEF AtAny, Waits
<1>7. /\ c \in Connection /\ c # Free /\ Session(c) = i
      /\ c.phase = "start" /\ c.mode = m /\ c.id = i.id /\ (c.routed <=> m = "req")
  BY <1>6 DEF Connection, Session, Free
<1> HIDE DEF c
<1>8. /\ node' \in [Workers -> [Keys -> {Free} \cup Connection]]
      /\ \A v \in Workers, l \in Keys :
           node'[v][l] = IF v = w /\ l = k THEN c ELSE node[v][l]
  BY <1>5, <1>7, NodeSet DEF Inv
<1>9. /\ any' \in [Workers -> [Modes -> Seq(Token)]]
      /\ \A v \in Workers, l \in Modes :
           any'[v][l] = IF v = w /\ l = m THEN Tail(any[w][m]) ELSE any[v][l]
  BY <1>2, <1>4, <1>5
<1>10. /\ byId' \in [Workers -> [Ids -> Keys \cup {None}]]
       /\ \A v \in Workers, j \in Ids :
            byId'[v][j] = IF v = w /\ j = i.id /\ m = "req" THEN k ELSE byId[v][j]
  <2>1. byId \in [Workers -> [Ids -> Keys \cup {None}]]
    BY DEF Inv, TypeOK
  <2> QED
    BY <1>5, <1>6, <2>1
<1>11. TypeOK'
  BY <1>5, <1>8, <1>9, <1>10 DEF Inv, TypeOK
<1>12. \A t \in Token, v \in Workers : AtAny(t, v)' <=> AtAny(t, v) /\ ~(t = i /\ v = w)
  BY <1>4, <1>6, <1>9, ModeIsMode DEF AtAny
<1>13. \A t \in Token, v \in Workers, l \in Keys :
         /\ AtNode(t, v, l)' <=> AtNode(t, v, l) \/ (t = i /\ v = w /\ l = k)
         /\ RunAt(t, v, l)' <=> RunAt(t, v, l) \/ (t = i /\ v = w /\ l = k)
         /\ OpenAt(t, v, l)' => OpenAt(t, v, l) \/ t = i
  <2> TAKE t \in Token, v \in Workers, l \in Keys
  <2>1. CASE v = w /\ l = k
    <3>1. ~AtNode(t, v, l) /\ ~RunAt(t, v, l) /\ node'[v][l] = c
      BY <1>1, <1>8, <2>1 DEF AtNode, RunAt
    <3>2. (AtNode(t, v, l)' <=> t = i) /\ (RunAt(t, v, l)' <=> t = i)
      BY <1>7, <3>1 DEF AtNode, RunAt
    <3> QED
      BY <2>1, <3>1, <3>2 DEF OpenAt
  <2>2. CASE ~(v = w /\ l = k)
    BY <1>8, <2>2 DEF AtNode, RunAt, OpenAt
  <2> QED
    BY <2>1, <2>2
<1>14. ModesKept' /\ PipesDistinct' /\ NoDirectLost'
  <2>1. ModesKept'
    <3>1. \A v \in Workers, l \in Modes : \A y : In(y, any'[v][l]) => In(y, any[v][l])
      BY <1>4, <1>9
    <3>2. \A v \in Workers, l \in Keys :
            node'[v][l] # Free => node'[v][l].mode = ModeOf(node'[v][l].id)
      BY <1>6, <1>7, <1>8 DEF Inv, ModesKept
    <3> QED
      BY <1>5, <3>1, <3>2 DEF Inv, ModesKept
  <2>2. PipesDistinct' /\ NoDirectLost'
    BY <1>4, <1>5, <1>9 DEF Inv, PipesDistinct, NoDirectLost
  <2> QED
    BY <2>1, <2>2
\* Nobody in the worker has the id: not a connection that is done, for these are
\* removed first, and not one that runs, for then the request would not be here.
<1>15. \A l \in Keys : node[w][l] # Free => node[w][l].id # i.id
  <2> SUFFICES ASSUME NEW l \in Keys, node[w][l] # Free, node[w][l].id = i.id PROVE FALSE
    OBVIOUS
  <2>1. node[w][l].mode = m /\ node[w][l] \in Connection
    BY <1>6, TypeFacts DEF Inv, ModesKept
  <2>2. PICK u \in Token : u = Session(node[w][l]) /\ u.id = i.id
    BY <2>1, SessionIsToken
  <2>3. CASE node[w][l].phase = "ended"
    <3>1. In(l, done[w]) /\ done[w] \in Seq(Keys)
      BY <2>3, TypeFacts DEF Inv, WorkerInv, DoneIsEnded
    <3>2. PICK j \in 1 .. Len(done[w]) : done[w][j] = l
      BY <3>1 DEF In
    <3>3. j \in DOMAIN done[w]
      BY <3>1, <3>2
    <3> QED
      BY <1>5, <2>1, <3>2, <3>3 DEF NoneDone
  <2>4. CASE node[w][l].phase # "ended"
    <3>1. AtNode(u, w, l) /\ RunAt(u, w, l) /\ Runs(u)
      BY <2>2, <2>4 DEF AtNode, RunAt, Runs
    <3>2. CASE i.id \in StreamIds
      BY <1>6, <2>2, <3>1, <3>2 DEF Inv, TableAgrees
    <3>3. CASE i.id \in ReqIds
      <4>1. peer[i.id].gen = i.gen /\ peer[i.id].gen = u.gen
        BY <1>6, <2>2, <3>1, <3>3 DEF Inv, RequestInv, PeerWaits
      <4>2. u = i
        <5>1. \A t \in Token : t = [id |-> t.id, gen |-> t.gen]
          BY DEF Token
        <5> QED
          BY <2>2, <4>1, <5>1
      <4> QED
        BY <1>6, <3>1, <4>2 DEF Inv, RequestInv, OnePlace
    <3> QED
      BY <1>6, <3>2, <3>3 DEF Ids
  <2> QED
    BY <2>3, <2>4
<1>16. WorkerInv'
  <2>1. DoneIsEnded'
    BY <1>1, <1>5, <1>7, <1>8 DEF Inv, WorkerInv, DoneIsEnded
  <2>2. IdsApart'
    BY <1>7, <1>8, <1>15 DEF Inv, WorkerInv, IdsApart
  <2>3. WithinMax'
    <3> SUFFICES ASSUME NEW v \in Workers, NEW x \in Modes
                 PROVE  Cardinality(Items(v, x)') <= MaxOf(x)
      BY DEF WithinMax
    <3>1. IsFiniteSet(Items(v, x)) /\ Cardinality(Items(v, x)) \in Nat
      BY KeysFinite, FS_Subset, FS_CardinalityType DEF Items
    <3>2. Cardinality(Items(v, x)) <= MaxOf(x) /\ MaxOf(x) \in Nat
      BY ClientWorkerAssumption DEF Inv, WorkerInv, WithinMax, MaxOf
    <3>3. CASE v = w /\ x = m
      <4>1. Items(v, x)' = Items(v, x) \cup {k}
        <5>1. \A j : j \in Items(v, x)' <=> j \in Items(v, x) \/ j = k
          BY <1>7, <1>8, <3>3 DEF Items
        <5> QED
          BY <5>1
      <4>2. k \notin Items(v, x)
        BY <1>1, <3>3 DEF Items
      <4>3. Cardinality(Items(v, x)') = Cardinality(Items(v, x)) + 1
        BY <3>1, <4>1, <4>2, FS_AddElement
      <4> QED
        BY <1>5, <3>1, <3>2, <3>3, <4>3
    <3>4. CASE ~(v = w /\ x = m)
      <4>1. Items(v, x)' = Items(v, x)
        BY <1>1, <1>7, <1>8, <3>4 DEF Items
      <4> QED
        BY <3>2, <4>1
    <3> QED
      BY <3>3, <3>4
  <2>4. TasksDone'
    BY <1>5, <1>8 DEF Inv, WorkerInv, TasksDone, Running
  <2>5. SessionReachable'
    <3> SUFFICES ASSUME NEW v \in Workers, NEW l \in Keys,
                        pc'[v] = "run", Running(v, l)', node'[v][l].routed
                 PROVE  byId'[v][node'[v][l].id] = l
      BY DEF SessionReachable
    <3>1. CASE v = w /\ l = k
      BY <1>6, <1>7, <1>8, <1>10, <3>1
    <3>2. CASE ~(v = w /\ l = k)
      <4>1. node'[v][l] = node[v][l] /\ Running(v, l)
        BY <1>8, <3>2 DEF Running
      <4>2. byId[v][node[v][l].id] = l /\ node[v][l].id \in Ids
        BY <1>5, <4>1, RunningIsConnection DEF Inv, WorkerInv, SessionReachable
      <4>3. ~(v = w /\ node[v][l].id = i.id)
        BY <1>15, <4>1 DEF Running
      <4> QED
        BY <1>10, <4>1, <4>2, <4>3
    <3> QED
      BY <3>1, <3>2
  <2> QED
    BY <2>1, <2>2, <2>3, <2>4, <2>5 DEF WorkerInv
<1>17. TableAgrees'
  <2>1. \A t, u \in Token, v \in Workers :
          t.id \in StreamIds /\ AtAny(t, v)' /\ AtAny(u, v)' /\ t.id = u.id => t = u
    BY <1>12 DEF Inv, TableAgrees
  <2>2. \A t, u \in Token, v \in Workers, l \in Keys :
          t.id \in StreamIds /\ AtAny(t, v)' /\ RunAt(u, v, l)' => t.id # u.id
    BY <1>6, <1>12, <1>13 DEF Inv, TableAgrees
  <2>3. \A t \in Token, v \in Workers :
          (AtAny(t, v)' \/ \E l \in Keys : RunAt(t, v, l)')
            <=> (AtAny(t, v) \/ \E l \in Keys : RunAt(t, v, l))
    BY <1>6, <1>12, <1>13
  <2> QED
    BY <1>5, <2>1, <2>2, <2>3 DEF Inv, TableAgrees
<1>18. RequestInv'
  <2>1. \A t \in Token : (AtSent(t)' <=> AtSent(t)) /\ (AtMgr(t)' <=> AtMgr(t))
    BY <1>5 DEF AtSent, AtMgr
  <2>2. /\ ~AtSent(i) /\ ~AtMgr(i) /\ \A v \in Workers : AtAny(i, v) => v = w
        /\ \A v \in Workers, l \in Keys : ~AtNode(i, v, l)
    BY <1>6 DEF Inv, RequestInv, OnePlace
  <2>3. \A t \in Token : Waits(t)' <=> Waits(t) /\ t # i
    BY <1>12, <2>1, <2>2 DEF Waits
  <2>4. \A t \in Token : Runs(t)' <=> Runs(t) \/ t = i
    BY <1>13 DEF Runs
  <2>5. ~Over(i) /\ ~AckSent(i) /\ ~AckRead(i) /\ ~Follows(i)
    BY <1>6 DEF Inv, RequestInv, OverIsOver, AckedIsRouted
  <2>6. \A t : /\ Over(t)' <=> Over(t)
               /\ AckSent(t)' <=> AckSent(t)
               /\ Follows(t)' <=> Follows(t)
               /\ AckRead(t)' <=> AckRead(t)
    BY <1>5, OutFrame, FollowFrame DEF AckRead
  <2>7. OnePlace'
    BY <1>12, <1>13, <2>1, <2>2, <2>3 DEF Inv, RequestInv, OnePlace
  <2>8. NumbersUsed'
    BY <1>5, <1>6, <1>13, <2>3, <2>6 DEF Inv, RequestInv, NumbersUsed
  <2>9. PeerWaits'
    BY <1>5, <1>6, <2>3, <2>4 DEF Inv, RequestInv, PeerWaits
  <2>10. OverIsOver'
    BY <2>3, <2>4, <2>5, <2>6 DEF Inv, RequestInv, OverIsOver
  <2>11. AckedIsRouted'
    BY <1>13, <2>3, <2>5, <2>6 DEF Inv, RequestInv, AckedIsRouted
  <2> QED
    BY <2>7, <2>8, <2>9, <2>10, <2>11 DEF RequestInv
<1> QED
  BY <1>11, <1>14, <1>16, <1>17, <1>18 DEF Inv

-----------------------------------------------------------------------------
(* The theorems                                                            *)

\* At the start nothing is anywhere.
LEMMA InitInv ==
    ASSUME Init
    PROVE  Inv
<1>1. /\ \A w \in Workers, k \in Keys : node[w][k] = Free
      /\ \A w \in Workers, m \in Modes : any[w][m] = <<>>
      /\ \A w \in Workers : /\ direct[w] = <<>> /\ out[w] = <<>> /\ done[w] = <<>>
                            /\ pc[w] = "run"
  BY DEF Init
<1>2. /\ \A m \in Modes : mgr.in[m] = None /\ sent.any[m] = <<>>
      /\ mgr.blocked = None /\ mgr.lost = FALSE /\ sent.direct = <<>>
      /\ \A i \in Ids : peer[i] = NoSession
      /\ bound.requests = 0
  BY DEF Init
<1>3. TypeOK
  <2>1. /\ node \in [Workers -> [Keys -> {Free} \cup Connection]]
        /\ byId \in [Workers -> [Ids -> Keys \cup {None}]]
        /\ any \in [Workers -> [Modes -> Seq(Token)]]
    BY DEF Init
  <2>2. /\ direct \in [Workers -> Seq(DirectPacket)]
        /\ out \in [Workers -> Seq(OutPacket)]
        /\ done \in [Workers -> Seq(Keys)]
        /\ pc \in [Workers -> {"run", "stopping", "cancels", "ended"}]
    BY DEF Init
  <2>3. mgr \in MgrState
    BY DEF Init, MgrState
  <2>4. /\ sessions \in [StreamIds -> Workers \cup {None}]
        /\ peer \in [Ids -> PeerState]
        /\ sent \in [any : [Modes -> Seq(Token)], direct : Seq(DirectPacket)]
        /\ bound \in [requests : Nat, directs : Nat, stops : Nat]
    BY DEF Init, PeerState, NoSession
  <2> QED
    BY <2>1, <2>2, <2>3, <2>4 DEF TypeOK
<1>4. None \notin Token /\ None \notin Workers
  BY ClientWorkerAssumption DEF Token
<1>5. ModesKept /\ PipesDistinct /\ NoDirectLost
  BY <1>1, <1>2, <1>4, EmptyIn DEF ModesKept, PipesDistinct, NoDirectLost
<1>6. \A t \in Token :
        /\ ~AtSent(t) /\ ~AtMgr(t) /\ ~Follows(t) /\ ~Over(t) /\ ~AckSent(t)
        /\ \A w \in Workers : ~AtAny(t, w)
        /\ \A w \in Workers, k \in Keys : ~AtNode(t, w, k) /\ ~RunAt(t, w, k) /\ ~OpenAt(t, w, k)
  <2> TAKE t \in Token
  <2>1. ~AtSent(t) /\ ~AtMgr(t) /\ \A w \in Workers : ~AtAny(t, w)
    BY <1>1, <1>2, <1>4, EmptyIn, ModeIsMode DEF AtSent, AtMgr, AtAny
  <2>2. ~Follows(t) /\ ~Over(t) /\ ~AckSent(t)
    BY <1>1, <1>2, EmptyIn DEF Follows, Over, AckSent
  <2>3. \A w \in Workers, k \in Keys : ~AtNode(t, w, k) /\ ~RunAt(t, w, k) /\ ~OpenAt(t, w, k)
    BY <1>1 DEF AtNode, RunAt, OpenAt
  <2> QED
    BY <2>1, <2>2, <2>3
<1>7. \A t \in Token : ~Waits(t) /\ ~Runs(t) /\ ~AckRead(t) /\ peer[t.id].gen = 0
  BY <1>2, <1>6 DEF Waits, Runs, AckRead, NoSession, Token
<1>8. RequestInv
  <2>1. OnePlace
    BY <1>6, <1>7 DEF OnePlace
  <2>2. NumbersUsed
    <3>1. \A t \in Token : peer[t.id].gen = t.gen => t.gen <= bound.requests
      BY <1>2, <1>7
    <3> QED
      BY <1>6, <1>7, <3>1 DEF NumbersUsed
  <2>3. PeerWaits /\ OverIsOver /\ AckedIsRouted
    BY <1>6, <1>7 DEF PeerWaits, OverIsOver, AckedIsRouted
  <2> QED
    BY <2>1, <2>2, <2>3 DEF RequestInv
<1>9. WorkerInv
  <2>1. DoneIsEnded /\ IdsApart
    BY <1>1, EmptyIn DEF DoneIsEnded, IdsApart
  <2>2. WithinMax
    <3>1. \A w \in Workers, m \in Modes : Items(w, m) = {}
      BY <1>1 DEF Items
    <3>2. \A m \in Modes : MaxOf(m) \in Nat
      BY ClientWorkerAssumption DEF MaxOf
    <3> QED
      BY <3>1, <3>2, FS_EmptySet DEF WithinMax
  <2>3. TasksDone /\ SessionReachable
    BY <1>1 DEF TasksDone, SessionReachable, Running
  <2> QED
    BY <2>1, <2>2, <2>3 DEF WorkerInv
<1>10. TableAgrees
  <2>1. \A i \in StreamIds : sessions[i] = None
    BY DEF Init
  <2> QED
    BY <1>4, <1>6, <2>1 DEF TableAgrees
<1> QED
  BY <1>3, <1>5, <1>8, <1>9, <1>10 DEF Inv

\* A stuttering step keeps the invariant.
LEMMA StutterInv ==
    ASSUME Inv, UNCHANGED vars
    PROVE  Inv'
<1>1. UNCHANGED <<node, byId, any, direct, out, done, pc, mgr, sessions, peer, sent, bound>>
  BY DEF vars
<1>2. TypeOK'
  BY <1>1 DEF Inv, TypeOK
<1>3. ModesKept' /\ PipesDistinct' /\ NoDirectLost' /\ WorkerInv' /\ TableAgrees'
  BY <1>1, WorkerFrame, TableFrame DEF Inv, ModesKept, PipesDistinct, NoDirectLost
<1>4. NothingNew
  BY <1>1, NodeFrame, OutFrame, WaitFrame, FollowFrame DEF NothingNew
<1> QED
  BY <1>2, <1>3, <1>4, NothingNewKeeps DEF Inv

\* Every step keeps the invariant.
LEMMA NextInv ==
    ASSUME Inv, [Next]_vars
    PROVE  Inv'
<1>1. ASSUME NEW m \in Modes, MgrRecv(m) PROVE Inv'
  BY <1>1, MgrRecvInv
<1>2. ASSUME NEW m \in Modes, MgrSend(m) PROVE Inv'
  BY <1>2, MgrSendInv
<1>3. CASE MgrRecvDirect
  BY <1>3, MgrRecvDirectInv
<1>4. CASE MgrSendDirect
  BY <1>4, MgrSendDirectInv
<1>5. ASSUME NEW w \in Workers, MgrRecvHandle(w) PROVE Inv'
  BY <1>5, MgrRecvHandleInv
<1>6. ASSUME NEW w \in Workers, NEW m \in Modes, MgrCleanup(w, m) PROVE Inv'
  BY <1>6, MgrCleanupInv
<1>7. ASSUME NEW i \in Ids, Request(i) PROVE Inv'
  BY <1>7, RequestKeepsInv
<1>8. ASSUME NEW i \in Ids, NEW t \in {"data", "cancel"}, SendDirect(i, t) PROVE Inv'
  BY <1>8, SendDirectInv
<1>9. ASSUME NEW w \in Workers, HandleDirect(w) PROVE Inv'
  BY <1>9, HandleDirectInv
<1>10. ASSUME NEW w \in Workers, HandleDone(w) PROVE Inv'
  BY <1>10, HandleDoneInv
<1>11. ASSUME NEW w \in Workers, NEW m \in Modes, HandleAny(w, m) PROVE Inv'
  BY <1>11, HandleAnyInv
<1>12. ASSUME NEW w \in Workers, RunStop(w) PROVE Inv'
  BY <1>12, RunStopInv
<1>13. ASSUME NEW w \in Workers, RunStopping(w) PROVE Inv'
  BY <1>13, RunTasksDoneInv, RunCancelInv, RunTimeoutInv DEF RunStopping
<1>14. ASSUME NEW w \in Workers, NEW k \in Keys, ConnNext(w, k) PROVE Inv'
  BY <1>14, ConnNextInv
<1>15. CASE UNCHANGED vars
  BY <1>15, StutterInv
<1>16. CASE Manager
  BY <1>1, <1>2, <1>3, <1>4, <1>5, <1>6, <1>16 DEF Manager
<1>17. CASE Peers
  BY <1>7, <1>8, <1>17 DEF Peers
<1>18. ASSUME NEW w \in Workers, HandleTask(w) PROVE Inv'
  BY <1>9, <1>10, <1>11, <1>18 DEF HandleTask
<1> QED
  BY <1>12, <1>13, <1>14, <1>15, <1>16, <1>17, <1>18 DEF Next

\* The invariant holds of every state of the client's workers.
THEOREM Invariance == Spec => []Inv
<1>1. Init => Inv
  BY InitInv
<1>2. Inv /\ [Next]_vars => Inv'
  BY NextInv
<1> QED
  BY <1>1, <1>2, PTL DEF Spec

\* Every variable of ClientWorker has its type always.
THEOREM TypeCorrect == Spec => []TypeOK
<1>1. Inv => TypeOK
  BY DEF Inv
<1> QED
  BY <1>1, Invariance, PTL

\* The session table and the connections agree on who has a session.
LEMMA OneSessionHolds ==
    ASSUME Inv
    PROVE  OneSession
<1> SUFFICES ASSUME NEW w \in Workers, NEW i \in StreamIds
             PROVE  LET conns == {k \in Keys : Running(w, k) /\ node[w][k].id = i}
                        queued == {j \in DOMAIN any[w]["stream"] : any[w]["stream"][j].id = i}
                    IN Cardinality(conns) + Cardinality(queued) = IF sessions[i] = w THEN 1 ELSE 0
  BY DEF OneSession
<1> DEFINE conns == {k \in Keys : Running(w, k) /\ node[w][k].id = i}
           queued == {j \in DOMAIN any[w]["stream"] : any[w]["stream"][j].id = i}
<1>1. /\ any[w]["stream"] \in Seq(Token) /\ Distinct(any[w]["stream"])
      /\ i \in Ids /\ ModeOf(i) = "stream"
  BY TypeFacts, ClientWorkerAssumption DEF Inv, PipesDistinct, Modes, Ids, ModeOf
<1>2. \A j \in queued : \E t \in Token : t.id = i /\ t = any[w]["stream"][j] /\ AtAny(t, w)
  BY <1>1 DEF AtAny, In
<1>3. \A k \in conns : \E t \in Token : t.id = i /\ RunAt(t, w, k)
  BY RunningIsConnection DEF Inv
<1>4. \A j, l \in queued : j = l
  BY <1>1, <1>2 DEF Inv, TableAgrees, Distinct
<1>5. \A k, l \in conns : k = l
  BY DEF Inv, WorkerInv, IdsApart, Running
<1>6. conns = {} \/ queued = {}
  BY <1>2, <1>3 DEF Inv, TableAgrees
<1>7. sessions[i] = w <=> conns # {} \/ queued # {}
  <2>1. sessions[i] = w =>
          \E t \in Token : t.id = i /\ (AtAny(t, w) \/ \E k \in Keys : RunAt(t, w, k))
    BY DEF Inv, TableAgrees
  <2>2. ASSUME NEW t \in Token, t.id = i, AtAny(t, w) PROVE queued # {}
    BY <1>1, <2>2 DEF AtAny, In
  <2>3. ASSUME NEW t \in Token, t.id = i, NEW k \in Keys, RunAt(t, w, k) PROVE conns # {}
    <3>1. Running(w, k) /\ Session(node[w][k]) = t
      BY <2>3 DEF RunAt, AtNode, Running
    <3>2. node[w][k].id = i
      BY <2>3, <3>1 DEF Session
    <3> QED
      BY <3>1, <3>2
  <2>4. conns # {} \/ queued # {} => sessions[i] = w
    BY <1>2, <1>3 DEF Inv, TableAgrees
  <2> QED
    BY <2>1, <2>2, <2>3, <2>4
<1> HIDE DEF conns, queued
<1>8. /\ conns = {} \/ \E k : conns = {k}
      /\ queued = {} \/ \E j : queued = {j}
  BY <1>4, <1>5
<1>9. /\ Cardinality({}) = 0 /\ \A x : Cardinality({x}) = 1
  BY FS_EmptySet, FS_Singleton
<1>10. Cardinality(conns) + Cardinality(queued) = IF sessions[i] = w THEN 1 ELSE 0
  <2>1. CASE conns = {} /\ queued = {}
    BY <1>7, <1>9, <2>1
  <2>2. CASE conns # {}
    <3>1. Cardinality(conns) = 1
      BY <1>8, <1>9, <2>2
    <3>2. queued = {}
      BY <1>6, <2>2
    <3> QED
      BY <1>7, <1>9, <2>2, <3>1, <3>2
  <2>3. CASE queued # {}
    <3>1. Cardinality(queued) = 1
      BY <1>8, <1>9, <2>3
    <3>2. conns = {}
      BY <1>6, <2>3
    <3> QED
      BY <1>7, <1>9, <2>3, <3>1, <3>2
  <2> QED
    BY <2>1, <2>2, <2>3
<1> QED
  BY <1>10 DEF conns, queued

\* A session is with one worker and one connection, the ones that the manager's
\* table and the worker's lead to, also when its peer uses the id again while
\* packets of the last session are still about; and no packet that follows the
\* ack of its session is lost (handle_stream_message_direct, find_key).
THEOREM SessionsAlwaysFound == Spec => []SessionsFound
<1>1. Inv => SessionsFound
  BY OneSessionHolds DEF Inv, WorkerInv, SessionsFound
<1> QED
  BY <1>1, Invariance, PTL
=============================================================================
