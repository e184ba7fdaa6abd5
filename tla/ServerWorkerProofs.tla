-------------------------- MODULE ServerWorkerProofs --------------------------
(***************************************************************************)
(* Proofs about ServerWorker, for any number of connections, batches,      *)
(* handlers and queues: keys, channels and places in the batch of          *)
(* keep-alives have one owner at a time, every handler gets the packets of *)
(* a session in sequence, and a worker that stops in time cancels every    *)
(* session, whatever connections end, start anew and are accepted between  *)
(* the steps of the other tasks.                                           *)
(***************************************************************************)
EXTENDS ServerWorker, FiniteSetTheorems, SequenceTheorems, WellFoundedInduction, TLAPS

-----------------------------------------------------------------------------
(* Shapes                                                                  *)

Chans == 1 .. Cap
Ids == [key : Keys, n : Nat]
Phases == {"idle", "wait", "active", "finish", "flush", "paused", "ended"}

Item == [phase : Phases, mode : Modes, id : Ids, first : Nat, ch : Chans,
         addr : Addrs \cup {NoAddr}, seq : Nat, bkey : Nat, stop : BOOLEAN]

Nodes == [Keys -> Item \cup {Free}]

AddrItem == [addr : Addrs, keys : Seq(Keys)]

\* The keys of addresses that take_group has passed are gone.
BatchShape(b) ==
  /\ b = [addrs |-> b.addrs, index |-> b.index]
  /\ b.addrs \in Seq(AddrItem) /\ b.index \in Nat \ {0}
  /\ \A i \in DOMAIN b.addrs : i < b.index => b.addrs[i].keys = <<>>

Message == [t : ReplyTypes, from : Addrs, id : Ids]
Incoming == [mode : Modes, t : ReplyTypes, from : Addrs, ids : SUBSET Ids]

QueueShape ==
  /\ q = [out |-> q.out, mgrIn |-> q.mgrIn, pipeIn |-> q.pipeIn, done |-> q.done]
  /\ q.mgrIn \in Seq(Incoming) /\ q.pipeIn \in [Modes -> Seq(Incoming)]
  /\ q.done \in [Modes -> Seq(Keys)]

TaskShape ==
  task \in [run : {"run", "ka", "accept", "cancel", "drain", "ended"}, accept : {"run", "drain"},
            handle : [Modes -> {"run", "ended"}], ka : {"wait", "send", "ended"},
            kaIndex : 0 .. Cap, kaCount : Nat, cancelIndex : 0 .. Cap, timedOut : BOOLEAN]

Session == [st : {"has", "leaving"}, id : Ids, mode : Modes, addr : Addrs \cup {NoAddr}, seq : Nat]

Shape ==
  /\ nodes \in Nodes
  /\ vacant \in Seq(Keys) /\ pool \in Seq(Chans) /\ chan \in [Chans -> Seq(Message)]
  /\ nextCid \in Nat
  /\ BatchShape(batch)
  /\ QueueShape /\ TaskShape
  /\ peer \in [0 .. IdMax - 1 -> Session \cup {Unknown, Gone, Stopped}]

-----------------------------------------------------------------------------
(* The invariant                                                           *)

Inj(s) == \A i, j \in DOMAIN s : s[i] = s[j] => i = j
In(s, x) == \E i \in DOMAIN s : s[i] = x

\* The keys that are vacant are those without a connection, each once.
VacantKeys == Inj(vacant) /\ \A k \in Keys : nodes[k] = Free <=> In(vacant, k)

\* A channel is in the pool, once and empty, or a connection has it; there are
\* as many left as keys.
ChannelsApart ==
  /\ Inj(pool) /\ Len(pool) = Len(vacant)
  /\ \A i \in DOMAIN pool : chan[pool[i]] = <<>>
  /\ \A k \in Keys : nodes[k] # Free => ~In(pool, nodes[k].ch)
  /\ \A k, j \in Keys : nodes[k] # Free /\ nodes[j] # Free /\ nodes[k].ch = nodes[j].ch => k = j

\* No more connections of a mode than allowed.
Admitted == \A m \in Modes : Cardinality(Items(m)) <= MaxOf(m)

\* An id tells its connection's key, and is as new as the connection.
IdsOwn ==
  \A k \in Keys : nodes[k] # Free =>
    nodes[k].id.key = k /\ nodes[k].first <= nodes[k].id.n /\ nodes[k].id.n < nextCid

\* The connections that are done wait to be removed, once.
DoneOnce ==
  \A m \in Modes :
    /\ Inj(q.done[m])
    /\ \A i \in DOMAIN q.done[m] :
         LET c == nodes[q.done[m][i]] IN c # Free /\ c.phase = "ended" /\ c.mode = m

\* The order in which the tasks end.
TasksInOrder ==
  /\ \A m \in Modes : task.handle[m] = "ended" => task.accept = "drain"
  /\ task.run \in {"cancel", "drain", "ended"} => task.accept = "drain"

\* The keys of batch b at position i.
KeysAt(b, i) == IF i \in DOMAIN b.addrs THEN b.addrs[i].keys ELSE <<>>

\* Batch b has the keys of connections that are there.
Live(b, n) == \A i \in Nat, k \in Keys : In(KeysAt(b, i), k) => n[k] # Free

\* It has them where the connections say, once.
Owned(b, n) ==
  /\ \A i \in Nat : Inj(KeysAt(b, i))
  /\ \A i \in Nat \ {0}, k \in Keys : In(KeysAt(b, i), k) <=> n[k] # Free /\ n[k].bkey = i

Filling == task.run \in {"run", "ka", "accept"}

BatchKept ==
  /\ Live(batch, nodes)
  /\ Filling => Owned(batch, nodes)
  /\ Filling /\ task.ka = "wait" => BatchIsEmpty(batch)

Registry == VacantKeys /\ ChannelsApart /\ Admitted /\ IdsOwn /\ ChannelIsOwn

Inv == Shape /\ Registry /\ DoneOnce /\ TasksInOrder /\ BatchKept

-----------------------------------------------------------------------------
(* Numbers                                                                 *)

\* Every set of numbers has a least one.
LEMMA LeastNumber ==
  ASSUME NEW S \in SUBSET Nat, S # {}
  PROVE  \E m \in S : \A k \in S : m <= k
<1>1. IsWellFoundedOn(OpToRel(<, Nat), Nat)
  BY NatLessThanWellFounded
<1>2. \E x \in S : \A y \in S : ~ (<<y, x>> \in OpToRel(<, Nat))
  BY <1>1, WFMin
<1>3. PICK x \in S : \A y \in S : ~ (<<y, x>> \in OpToRel(<, Nat))
  BY <1>2
<1>4. \A y \in S : x <= y
  <2> TAKE y \in S
  <2>1. <<y, x>> \in OpToRel(<, Nat) <=> y < x
    BY DEF OpToRel
  <2>2. ~(y < x)
    BY <1>3, <2>1, Zenon
  <2>3. x \in Nat /\ y \in Nat
    OBVIOUS
  <2> QED
    BY <2>2, <2>3
<1> QED
  BY <1>4

\* What holds for 0, and for n + 1 whenever for n, holds for every number.
LEMMA Induction ==
  ASSUME NEW S, 0 \in S, \A n \in Nat : n \in S => n + 1 \in S
  PROVE  Nat \subseteq S
<1>1. SUFFICES ASSUME Nat \ S # {} PROVE FALSE
  OBVIOUS
<1>2. PICK m \in Nat \ S : \A k \in Nat \ S : m <= k
  BY <1>1, LeastNumber
<1>3. m # 0 /\ m - 1 \in Nat /\ m - 1 \in S
  BY <1>2
<1> QED
  BY <1>2, <1>3

LEMMA MinIsMember ==
  ASSUME NEW S \in SUBSET Nat, S # {}
  PROVE  Min(S) \in S /\ \A k \in S : Min(S) <= k
BY LeastNumber DEF Min

LEMMA MaxIsMember ==
  ASSUME NEW n \in Nat, NEW S \in SUBSET (1 .. n), S # {}
  PROVE  Max(S) \in S /\ \A k \in S : Max(S) >= k
<1> DEFINE T == {n - k : k \in S}
<1>1. T \in SUBSET Nat /\ T # {}
  <2>1. \A k \in S : n - k \in Nat
    OBVIOUS
  <2>2. PICK k \in S : TRUE
    OBVIOUS
  <2>3. n - k \in T
    OBVIOUS
  <2> QED
    BY <2>1, <2>3
<1>2. PICK t \in T : \A k \in T : t <= k
  <2> HIDE DEF T
  <2> QED
    BY <1>1, LeastNumber
<1>3. PICK x \in S : t = n - x
  BY <1>2
<1>4. ASSUME NEW y \in S PROVE x >= y
  <2>1. n - y \in T
    OBVIOUS
  <2>2. t <= n - y
    BY <1>2, <2>1
  <2> QED
    BY <1>3, <2>2
<1> QED
  BY <1>4 DEF Max

LEMMA MaxOfInterval ==
  ASSUME NEW n \in Nat \ {0}
  PROVE  Max(1 .. n) = n /\ (1 .. n) \ {n} = 1 .. n - 1
<1>1. Max(1 .. n) \in 1 .. n /\ \A k \in 1 .. n : Max(1 .. n) >= k
  <2>1. 1 .. n \in SUBSET (1 .. n) /\ 1 .. n # {} /\ n \in Nat
    OBVIOUS
  <2> QED
    BY <2>1, MaxIsMember
<1> QED
  BY <1>1

-----------------------------------------------------------------------------
(* Adding keys to the batch, one after the other                           *)

\* How FoldLeft computes AddKeys, for the sets of positions in D.
Start == [nodes |-> nodes, batch |-> batch]
IsAdd(g, seq, D) ==
  g = [s \in D |-> IF s = {} THEN Start
                   ELSE ConnectionsBatchAdd(g[s \ {Max(s)}], seq[Max(s)])]

LEMMA AddExists ==
  ASSUME NEW n \in Nat, NEW seq
  PROVE  \E g : IsAdd(g, seq, SUBSET (1 .. n))
<1> DEFINE P == {m \in Nat : \E g : IsAdd(g, seq, SUBSET (1 .. m))}
<1>1. 0 \in P
  <2>1. SUBSET (1 .. 0) = {{}}
    OBVIOUS
  <2>2. IsAdd([s \in {{}} |-> Start], seq, SUBSET (1 .. 0))
    BY <2>1 DEF IsAdd
  <2> QED
    BY <2>2
<1>2. ASSUME NEW m \in Nat, m \in P PROVE m + 1 \in P
  <2>1. PICK g : IsAdd(g, seq, SUBSET (1 .. m))
    BY <1>2
  <2> DEFINE h == [s \in SUBSET (1 .. m + 1) |->
                     IF s = {} THEN Start ELSE ConnectionsBatchAdd(g[s \ {Max(s)}], seq[Max(s)])]
  <2>2. ASSUME NEW s \in SUBSET (1 .. m) PROVE h[s] = g[s]
    <3>1. s \in SUBSET (1 .. m + 1)
      OBVIOUS
    <3> QED
      BY <2>1, <3>1 DEF IsAdd
  <2>3. ASSUME NEW s \in SUBSET (1 .. m + 1), s # {} PROVE s \ {Max(s)} \in SUBSET (1 .. m)
    <3>0. m + 1 \in Nat
      OBVIOUS
    <3>1. Max(s) \in s /\ \A k \in s : Max(s) >= k
      BY <2>3, <3>0, MaxIsMember
    <3>2. ASSUME NEW k \in s \ {Max(s)} PROVE k \in 1 .. m
      <4>1. k \in 1 .. m + 1 /\ Max(s) \in 1 .. m + 1 /\ k # Max(s) /\ Max(s) >= k
        BY <3>1
      <4> QED
        BY <4>1
    <3> QED
      BY <3>2
  <2>4. \A s \in SUBSET (1 .. m + 1) :
           h[s] = IF s = {} THEN Start ELSE ConnectionsBatchAdd(h[s \ {Max(s)}], seq[Max(s)])
    BY <2>2, <2>3
  <2>5. IsAdd(h, seq, SUBSET (1 .. m + 1))
    BY <2>4 DEF IsAdd
  <2> QED
    BY <2>5
<1>3. Nat \subseteq P
  <2> HIDE DEF P
  <2> QED
    BY <1>1, <1>2, Induction
<1>4. n \in P
  <2> HIDE DEF P
  <2> QED
    BY <1>3
<1> QED
  BY <1>4

\* The states that the loop goes through.
LEMMA AddKeysSteps ==
  ASSUME NEW first \in Nat, NEW next \in Nat, first <= next
  PROVE  \E r : /\ r[0] = Start
                /\ \A m \in 1 .. next - first :
                     r[m] = ConnectionsBatchAdd(r[m - 1], first + m - 1)
                /\ AddKeys(first, next) = r[next - first]
<1> DEFINE n == next - first
           seq == [i \in 1 .. n |-> first + i - 1]
           g == CHOOSE g : IsAdd(g, seq, SUBSET (DOMAIN seq))
           r == [m \in 0 .. n |-> g[1 .. m]]
<1>0. n \in Nat /\ DOMAIN seq = 1 .. n
  OBVIOUS
<1>1. AddKeys(first, next) = g[DOMAIN seq]
  BY Zenon DEF AddKeys, FoldLeft, MapThenFoldSet, IsAdd, Start
<1>2. IsAdd(g, seq, SUBSET (1 .. n))
  <2>1. \E f : IsAdd(f, seq, SUBSET (DOMAIN seq))
    BY <1>0, AddExists
  <2>2. IsAdd(g, seq, SUBSET (DOMAIN seq))
    <3> HIDE DEF seq
    <3> QED
      BY <2>1
  <2> QED
    BY <2>2, <1>0
<1> HIDE DEF g
<1>3. r[0] = Start
  <2>1. 1 .. 0 = {}
    OBVIOUS
  <2> QED
    BY <1>0, <1>2, <2>1 DEF IsAdd
<1>4. ASSUME NEW m \in 1 .. n PROVE r[m] = ConnectionsBatchAdd(r[m - 1], first + m - 1)
  <2>1. /\ 1 .. m \in SUBSET (1 .. n) /\ 1 .. m # {} /\ m \in Nat \ {0}
        /\ m \in 0 .. n /\ m - 1 \in 0 .. n
    BY <1>0
  <2>2. Max(1 .. m) = m /\ (1 .. m) \ {m} = 1 .. m - 1
    BY <2>1, MaxOfInterval
  <2>3. g[1 .. m] = ConnectionsBatchAdd(g[(1 .. m) \ {Max(1 .. m)}], seq[Max(1 .. m)])
    <3> HIDE DEF seq
    <3> QED
      BY <1>2, <2>1 DEF IsAdd
  <2>4. seq[m] = first + m - 1
    OBVIOUS
  <2>5. g[1 .. m] = ConnectionsBatchAdd(g[1 .. m - 1], first + m - 1)
    BY <2>2, <2>3, <2>4
  <2> QED
    BY <2>1, <2>5
<1>5. AddKeys(first, next) = r[n]
  BY <1>0, <1>1
<1> HIDE DEF r
<1> QED
  BY <1>3, <1>4, <1>5

-----------------------------------------------------------------------------
(* Sequences                                                               *)

LEMMA RemoveAtSeq ==
  ASSUME NEW T, NEW s \in Seq(T), NEW i \in 1 .. Len(s)
  PROVE  /\ RemoveAt(s, i) \in Seq(T) /\ Len(RemoveAt(s, i)) = Len(s) - 1
         /\ \A j \in 1 .. Len(s) - 1 : RemoveAt(s, i)[j] = IF j < i THEN s[j] ELSE s[j + 1]
<1> DEFINE a == SubSeq(s, 1, i - 1)
           b == SubSeq(s, i + 1, Len(s))
<1>1. a \in Seq(T) /\ Len(a) = i - 1 /\ \A j \in 1 .. i - 1 : a[j] = s[j]
  OBVIOUS
<1>2. b \in Seq(T) /\ Len(b) = Len(s) - i /\ \A j \in 1 .. Len(s) - i : b[j] = s[i + j]
  OBVIOUS
<1>3. RemoveAt(s, i) = a \o b
  BY DEF RemoveAt
<1> HIDE DEF a, b
<1>4. /\ a \o b \in Seq(T) /\ Len(a \o b) = Len(a) + Len(b)
      /\ \A j \in 1 .. Len(a) + Len(b) : (a \o b)[j] = IF j <= Len(a) THEN a[j] ELSE b[j - Len(a)]
  BY <1>1, <1>2, ConcatProperties
<1>5. ASSUME NEW j \in 1 .. Len(s) - 1
      PROVE  (a \o b)[j] = IF j < i THEN s[j] ELSE s[j + 1]
  <2>1. CASE j < i
    BY <1>1, <1>2, <1>4, <2>1
  <2>2. CASE ~(j < i)
    <3>1. j - (i - 1) \in 1 .. Len(s) - i /\ i + (j - (i - 1)) = j + 1 /\ ~(j <= i - 1)
      BY <2>2
    <3>2. b[j - (i - 1)] = s[j + 1]
      BY <1>2, <3>1
    <3> QED
      BY <1>1, <1>2, <1>4, <2>2, <3>1, <3>2
  <2> QED
    BY <2>1, <2>2
<1> QED
  BY <1>1, <1>2, <1>3, <1>4, <1>5

LEMMA RemoveFirstSeq ==
  ASSUME NEW T, NEW s \in Seq(T), NEW x
  PROVE  /\ RemoveFirst(s, x) \in Seq(T)
         /\ \A y : In(RemoveFirst(s, x), y) => In(s, y)
         /\ Inj(s) => /\ Inj(RemoveFirst(s, x))
                      /\ \A y : In(RemoveFirst(s, x), y) <=> In(s, y) /\ y # x
<1> DEFINE I == {i \in 1 .. Len(s) : s[i] = x}
           m == Min(I)
           r == RemoveAt(s, m)
<1>1. CASE I = {}
  <2>1. RemoveFirst(s, x) = s
    BY <1>1 DEF RemoveFirst
  <2>2. ~In(s, x)
    BY <1>1 DEF In
  <2> QED
    BY <2>1, <2>2 DEF In
<1>2. CASE I # {}
  <2>1. I \in SUBSET Nat
    OBVIOUS
  <2>2. m \in I
    <3> HIDE DEF I
    <3> QED
      BY <1>2, <2>1, MinIsMember
  <2>3. RemoveFirst(s, x) = r
    <3>1. SelectInSeq(s, LAMBDA v : v = x) = m
      BY <1>2, Zenon DEF SelectInSeq
    <3>2. \E i \in 1 .. Len(s) : s[i] = x
      BY <1>2
    <3> QED
      BY <3>1, <3>2, Zenon DEF RemoveFirst
  <2> HIDE DEF m, r
  <2>4. m \in 1 .. Len(s) /\ s[m] = x
    BY <2>2
  <2>5. /\ r \in Seq(T) /\ Len(r) = Len(s) - 1
        /\ \A j \in 1 .. Len(s) - 1 : r[j] = IF j < m THEN s[j] ELSE s[j + 1]
    BY <2>4, RemoveAtSeq DEF r
  <2> HIDE DEF I
  <2>6. \A y : In(r, y) => In(s, y)
    BY <2>4, <2>5 DEF In
  <2>7. ASSUME Inj(s) PROVE Inj(r)
    <3>1. SUFFICES ASSUME NEW i \in 1 .. Len(s) - 1, NEW j \in 1 .. Len(s) - 1, r[i] = r[j], i # j
                   PROVE  FALSE
      BY <2>5 DEF Inj
    <3> DEFINE up(n) == IF n < m THEN n ELSE n + 1
    <3>2. up(i) \in 1 .. Len(s) /\ up(j) \in 1 .. Len(s) /\ up(i) # up(j)
      BY <2>4, <3>1
    <3>3. r[i] = s[up(i)] /\ r[j] = s[up(j)]
      BY <2>5
    <3> HIDE DEF up
    <3>4. \A a, b \in 1 .. Len(s) : s[a] = s[b] => a = b
      BY <2>7 DEF Inj
    <3> QED
      BY <3>1, <3>2, <3>3, <3>4
  <2>8. ASSUME Inj(s), NEW y, In(r, y) PROVE y # x
    BY <2>4, <2>5, <2>8 DEF Inj, In
  <2>9. ASSUME NEW y, In(s, y), y # x PROVE In(r, y)
    <3>1. PICK j \in 1 .. Len(s) : s[j] = y
      BY <2>9 DEF In
    <3>2. CASE j < m
      <4>1. j \in 1 .. Len(r) /\ r[j] = y
        BY <2>4, <2>5, <3>1, <3>2
      <4> QED
        BY <4>1, <2>5 DEF In
    <3>3. CASE ~(j < m)
      <4>1. j - 1 \in 1 .. Len(r) /\ r[j - 1] = y
        BY <2>4, <2>5, <2>9, <3>1, <3>3
      <4> QED
        BY <4>1, <2>5 DEF In
    <3> QED
      BY <3>2, <3>3
  <2> QED
    BY <2>3, <2>5, <2>6, <2>7, <2>8, <2>9
<1> QED
  BY <1>1, <1>2

LEMMA AppendSeq ==
  ASSUME NEW T, NEW s \in Seq(T), NEW x \in T
  PROVE  /\ Append(s, x) \in Seq(T)
         /\ \A y : In(Append(s, x), y) <=> In(s, y) \/ y = x
         /\ Inj(s) /\ ~In(s, x) => Inj(Append(s, x))
<1>1. /\ Append(s, x) \in Seq(T) /\ Len(Append(s, x)) = Len(s) + 1
      /\ DOMAIN Append(s, x) = 1 .. Len(s) + 1 /\ DOMAIN s = 1 .. Len(s)
      /\ \A j \in 1 .. Len(s) : Append(s, x)[j] = s[j]
      /\ Append(s, x)[Len(s) + 1] = x
  OBVIOUS
<1>2. ASSUME NEW y PROVE In(Append(s, x), y) <=> In(s, y) \/ y = x
  BY <1>1 DEF In
<1>3. ASSUME Inj(s), ~In(s, x) PROVE Inj(Append(s, x))
  BY <1>1, <1>3 DEF In, Inj
<1> QED
  BY <1>1, <1>2, <1>3

\* A suffix of s, and the prefix that it leaves.
LEMMA SuffixSeq ==
  ASSUME NEW T, NEW s \in Seq(T), NEW n \in 0 .. Len(s)
  PROVE  /\ SubSeq(s, n + 1, Len(s)) \in Seq(T)
         /\ \A y : In(s, y) <=> In(SubSeq(s, n + 1, Len(s)), y) \/ y \in ToSet(SubSeq(s, 1, n))
         /\ Inj(s) => /\ Inj(SubSeq(s, n + 1, Len(s)))
                      /\ \A y \in ToSet(SubSeq(s, 1, n)) : ~In(SubSeq(s, n + 1, Len(s)), y)
<1> DEFINE r == SubSeq(s, n + 1, Len(s))
           p == SubSeq(s, 1, n)
<1>1. /\ r \in Seq(T) /\ Len(r) = Len(s) - n /\ DOMAIN r = 1 .. Len(s) - n
      /\ \A j \in 1 .. Len(s) - n : r[j] = s[n + j]
  OBVIOUS
<1>2. p \in Seq(T) /\ DOMAIN p = 1 .. n /\ \A j \in 1 .. n : p[j] = s[j]
  OBVIOUS
<1> HIDE DEF r, p
<1>3. \A y : y \in ToSet(p) <=> \E j \in 1 .. n : s[j] = y
  BY <1>2 DEF ToSet
<1>4. \A y : In(r, y) <=> \E j \in n + 1 .. Len(s) : s[j] = y
  <2>1. \A j \in n + 1 .. Len(s) : j - n \in 1 .. Len(s) - n /\ n + (j - n) = j
    OBVIOUS
  <2>2. \A j \in 1 .. Len(s) - n : n + j \in n + 1 .. Len(s)
    OBVIOUS
  <2>3. ASSUME NEW y, NEW j \in n + 1 .. Len(s), s[j] = y PROVE In(r, y)
    <3>1. j - n \in DOMAIN r /\ r[j - n] = y
      BY <1>1, <2>1, <2>3
    <3> QED
      BY <3>1 DEF In
  <2>4. ASSUME NEW y, In(r, y) PROVE \E j \in n + 1 .. Len(s) : s[j] = y
    BY <1>1, <2>2, <2>4 DEF In
  <2> QED
    BY <2>3, <2>4
<1>5. \A y : In(s, y) <=> \E j \in 1 .. Len(s) : s[j] = y
  BY DEF In
<1>6. \A j \in 1 .. Len(s) : j \in 1 .. n \/ j \in n + 1 .. Len(s)
  OBVIOUS
<1>7. (\A j \in 1 .. n : j \in 1 .. Len(s)) /\ \A j \in n + 1 .. Len(s) : j \in 1 .. Len(s)
  OBVIOUS
<1>8. \A y : In(s, y) <=> In(r, y) \/ y \in ToSet(p)
  BY <1>3, <1>4, <1>5, <1>6, <1>7
<1>9. ASSUME Inj(s) PROVE Inj(r)
  <2>1. SUFFICES ASSUME NEW i \in 1 .. Len(s) - n, NEW j \in 1 .. Len(s) - n, r[i] = r[j]
                 PROVE  i = j
    BY <1>1 DEF Inj
  <2>2. n + i \in 1 .. Len(s) /\ n + j \in 1 .. Len(s) /\ s[n + i] = s[n + j]
    BY <1>1, <2>1
  <2>3. \A a, b \in 1 .. Len(s) : s[a] = s[b] => a = b
    BY <1>9 DEF Inj
  <2>4. n + i = n + j
    BY <2>2, <2>3
  <2> QED
    BY <2>4
<1>10. ASSUME Inj(s), NEW y \in ToSet(p) PROVE ~In(r, y)
  BY <1>3, <1>4, <1>10 DEF Inj
<1> QED
  BY <1>1, <1>8, <1>9, <1>10 DEF r, p

-----------------------------------------------------------------------------
(* The batch                                                               *)

LEMMA AddrItemType ==
  ASSUME NEW s \in Seq(AddrItem), NEW i \in DOMAIN s
  PROVE  i \in Nat \ {0} /\ s[i] \in AddrItem /\ s[i].keys \in Seq(Keys)
<1>1. i \in Nat \ {0} /\ s[i] \in AddrItem
  OBVIOUS
<1> QED
  BY <1>1 DEF AddrItem

LEMMA KeysAtType ==
  ASSUME NEW b, BatchShape(b), NEW i
  PROVE  KeysAt(b, i) \in Seq(Keys) /\ (~BatchIsEmpty(b) \/ KeysAt(b, i) = <<>>)
<1>1. \A j \in DOMAIN b.addrs : b.addrs[j].keys \in Seq(Keys)
  BY AddrItemType DEF BatchShape
<1> QED
  BY <1>1 DEF KeysAt, BatchIsEmpty

LEMMA EmptyBatch ==
  ASSUME NEW b, BatchShape(b), \A i \in Nat, k \in Keys : ~In(KeysAt(b, i), k)
  PROVE  BatchIsEmpty(b)
<1>1. SUFFICES ASSUME NEW i \in DOMAIN b.addrs, b.addrs[i].keys # <<>> PROVE FALSE
  BY DEF BatchIsEmpty
<1>2. i \in Nat /\ b.addrs[i].keys \in Seq(Keys)
  BY AddrItemType DEF BatchShape
<1>3. 1 \in DOMAIN b.addrs[i].keys /\ b.addrs[i].keys[1] \in Keys
  BY <1>1, <1>2
<1> QED
  BY <1>2, <1>3 DEF KeysAt, In

\* Batch::add puts the key at the end of one position's keys, or does nothing.
LEMMA BatchAddGives ==
  ASSUME NEW b, BatchShape(b), NEW addr \in Addrs, NEW k \in Keys,
         NEW r, r = BatchAdd(b, addr, k)
  PROVE  /\ BatchShape(r.batch) /\ r.pos \in Nat
         /\ r.pos = 0 => r.batch = b
         /\ r.pos # 0 => \A i \in Nat : KeysAt(r.batch, i) =
                           IF i = r.pos THEN Append(KeysAt(b, i), k) ELSE KeysAt(b, i)
<1> DEFINE c == IF BatchIsEmpty(b) THEN [addrs |-> <<>>, index |-> 1] ELSE b
           found == {i \in DOMAIN c.addrs : c.addrs[i].addr = addr}
           pos == IF found = {} THEN Len(c.addrs) + 1 ELSE CHOOSE i \in found : TRUE
           refused == BatchLen(b) = BatchCapacity \/ pos < c.index \/ pos > BatchCapacity
           new == IF found = {} THEN Append(c.addrs, [addr |-> addr, keys |-> <<k>>])
                  ELSE [c.addrs EXCEPT ![pos].keys = Append(@, k)]
<1>1. CASE refused
  <2>1. r = [batch |-> b, pos |-> 0]
    BY <1>1, Zenon DEF BatchAdd
  <2> QED
    BY <2>1
<1>2. CASE ~refused
  <2>1. r = [pos |-> pos, batch |-> [index |-> c.index, addrs |-> new]]
    <3>1. r = IF refused THEN [batch |-> b, pos |-> 0]
              ELSE [pos |-> pos, batch |-> [index |-> c.index, addrs |-> new]]
      BY DEF BatchAdd
    <3> HIDE DEF refused, pos, c, new
    <3> QED
      BY <1>2, <3>1
  <2>2. /\ BatchShape(c)
        /\ \A i \in Nat : KeysAt(c, i) = KeysAt(b, i)
    <3>1. CASE BatchIsEmpty(b)
      <4>1. c = [addrs |-> <<>>, index |-> 1]
        BY <3>1
      <4>2. \A i \in Nat : KeysAt(b, i) = <<>>
        BY <3>1, KeysAtType
      <4> HIDE DEF c
      <4>3. \A i \in Nat : KeysAt(c, i) = <<>>
        BY <4>1 DEF KeysAt
      <4>4. BatchShape(c)
        BY <4>1 DEF BatchShape
      <4> QED
        BY <4>2, <4>3, <4>4
    <3>2. CASE ~BatchIsEmpty(b)
      <4>1. c = b
        BY <3>2
      <4> QED
        BY <4>1
    <3> QED
      BY <3>1, <3>2
  <2> HIDE DEF c
  <2>3. /\ c.addrs \in Seq(AddrItem) /\ c.index \in Nat \ {0}
        /\ c = [addrs |-> c.addrs, index |-> c.index]
    BY <2>2 DEF BatchShape
  <2>4. pos \in Nat \ {0} /\ ~(pos < c.index) /\ (found # {} => pos \in found)
    <3>1. pos \in Nat
      BY <2>3
    <3> QED
      BY <1>2, <2>3, <3>1
  <2>5. /\ new \in Seq(AddrItem) /\ pos \in DOMAIN new
        /\ \A i \in Nat : i \in DOMAIN new /\ i # pos => i \in DOMAIN c.addrs /\ new[i] = c.addrs[i]
        /\ \A i \in Nat : i \in DOMAIN c.addrs => i \in DOMAIN new
        /\ new[pos].keys = Append(KeysAt(c, pos), k)
    <3>1. CASE found = {}
      <4> DEFINE e == [addr |-> addr, keys |-> <<k>>]
      <4>1. e \in AddrItem /\ pos = Len(c.addrs) + 1 /\ new = Append(c.addrs, e)
        BY <3>1 DEF AddrItem
      <4> HIDE DEF e, new, pos
      <4>2. /\ new \in Seq(AddrItem) /\ DOMAIN new = 1 .. pos
            /\ \A i \in 1 .. Len(c.addrs) : new[i] = c.addrs[i]
            /\ new[pos] = e
        BY <4>1, <2>3
      <4>3. KeysAt(c, pos) = <<>> /\ Append(<<>>, k) = <<k>>
        BY <4>1, <2>3 DEF KeysAt
      <4>4. e.keys = <<k>>
        BY DEF e
      <4> QED
        BY <2>3, <2>4, <4>1, <4>2, <4>3, <4>4
    <3>2. CASE found # {}
      <4>1. pos \in DOMAIN c.addrs /\ new = [c.addrs EXCEPT ![pos].keys = Append(@, k)]
        BY <3>2, <2>4
      <4> HIDE DEF new, pos
      <4>2. c.addrs[pos] \in AddrItem
        BY <2>3, <4>1
      <4>3. Append(c.addrs[pos].keys, k) \in Seq(Keys)
        BY <4>2 DEF AddrItem
      <4>4. [c.addrs[pos] EXCEPT !.keys = Append(@, k)] \in AddrItem
        BY <4>2, <4>3 DEF AddrItem
      <4>5. /\ DOMAIN new = DOMAIN c.addrs
            /\ new[pos] = [c.addrs[pos] EXCEPT !.keys = Append(@, k)]
            /\ \A i \in DOMAIN c.addrs : i # pos => new[i] = c.addrs[i]
        BY <4>1, <2>3
      <4>6. new \in Seq(AddrItem)
        BY <2>3, <4>1, <4>4
      <4>7. new[pos].keys = Append(KeysAt(c, pos), k)
        BY <4>1, <4>2, <4>5 DEF KeysAt, AddrItem
      <4> QED
        BY <4>1, <4>5, <4>6, <4>7
    <3> QED
      BY <3>1, <3>2
  <2> HIDE DEF new, pos, found
  <2>6. r.pos = pos /\ r.batch = [addrs |-> new, index |-> c.index]
    BY <2>1
  <2>7. BatchShape(r.batch)
    <3>1. \A i \in DOMAIN c.addrs : i < c.index => c.addrs[i].keys = <<>>
      BY <2>2 DEF BatchShape
    <3>2. ASSUME NEW i \in DOMAIN new, i < c.index PROVE new[i].keys = <<>>
      <4>1. i \in Nat /\ i # pos
        BY <2>3, <2>4, <2>5, <3>2
      <4> QED
        BY <2>5, <3>1, <3>2, <4>1
    <3> QED
      BY <2>3, <2>5, <2>6, <3>2 DEF BatchShape
  <2>8. ASSUME NEW i \in Nat, i # pos PROVE KeysAt(r.batch, i) = KeysAt(c, i)
    BY <2>5, <2>6, <2>8 DEF KeysAt
  <2>9. KeysAt(r.batch, pos) = Append(KeysAt(c, pos), k)
    BY <2>5, <2>6 DEF KeysAt
  <2> QED
    BY <2>2, <2>4, <2>6, <2>7, <2>8, <2>9
<1> QED
  BY <1>1, <1>2

\* Batch::remove takes the key from its position.
LEMMA BatchRemoveGives ==
  ASSUME NEW b, BatchShape(b), NEW pos \in Nat, NEW k \in Keys,
         NEW r, r = BatchRemove(b, pos, k)
  PROVE  /\ BatchShape(r)
         /\ \A i \in Nat : KeysAt(r, i) =
              IF i = pos /\ i # 0 THEN RemoveFirst(KeysAt(b, i), k) ELSE KeysAt(b, i)
<1>0. b.addrs \in Seq(AddrItem) /\ b = [addrs |-> b.addrs, index |-> b.index] /\ b.index \in Nat \ {0}
  BY DEF BatchShape
<1>1. CASE pos = 0
  BY <1>1 DEF BatchRemove
<1>2. CASE pos # 0 /\ pos \notin DOMAIN b.addrs
  <2>1. r = b
    BY <1>0, <1>2 DEF BatchRemove
  <2>2. RemoveFirst(<<>>, k) = <<>>
    BY DEF RemoveFirst
  <2> QED
    BY <1>2, <2>1, <2>2 DEF KeysAt
<1>3. CASE pos # 0 /\ pos \in DOMAIN b.addrs
  <2> DEFINE s == RemoveFirst(b.addrs[pos].keys, k)
  <2>1. b.addrs[pos] \in AddrItem /\ b.addrs[pos].keys \in Seq(Keys)
    BY <1>0, <1>3, AddrItemType
  <2>2. s \in Seq(Keys)
    BY <2>1, RemoveFirstSeq
  <2>3. b.addrs[pos].keys = <<>> => s = <<>>
    BY DEF RemoveFirst
  <2>4. r = [b EXCEPT !.addrs[pos].keys = s]
    BY <1>3 DEF BatchRemove
  <2> HIDE DEF s
  <2>5. /\ r = [addrs |-> r.addrs, index |-> b.index] /\ DOMAIN r.addrs = DOMAIN b.addrs
        /\ \A i \in DOMAIN b.addrs : i # pos => r.addrs[i] = b.addrs[i]
        /\ r.addrs[pos] = [b.addrs[pos] EXCEPT !.keys = s]
        /\ r.addrs = [b.addrs EXCEPT ![pos] = [@ EXCEPT !.keys = s]]
    BY <1>0, <1>3, <2>4
  <2>6. r.addrs[pos] \in AddrItem /\ r.addrs[pos].keys = s
    BY <2>1, <2>2, <2>5 DEF AddrItem
  <2>7. r.addrs \in Seq(AddrItem)
    BY <1>0, <1>3, <2>5, <2>6
  <2>8. BatchShape(r)
    BY <1>0, <2>3, <2>5, <2>6, <2>7 DEF BatchShape
  <2>9. \A i \in Nat : i # pos => KeysAt(r, i) = KeysAt(b, i)
    BY <2>5 DEF KeysAt
  <2>10. KeysAt(r, pos) = s /\ KeysAt(b, pos) = b.addrs[pos].keys
    BY <1>3, <2>5, <2>6 DEF KeysAt
  <2> QED
    BY <1>3, <2>8, <2>9, <2>10 DEF s
<1> QED
  BY <1>1, <1>2, <1>3

\* Batch::take_group takes keys from the front of the batch; those it leaves
\* are where they were.
LEMMA TakeGroupGives ==
  ASSUME NEW b, BatchShape(b), NEW included, NEW g, g = TakeGroup(b, included)
  PROVE  /\ BatchShape(g.batch)
         /\ \A i \in Nat, k \in Keys : In(KeysAt(g.batch, i), k) => In(KeysAt(b, i), k)
         /\ \A i \in Nat, k \in Keys :
              In(KeysAt(b, i), k) /\ k \notin g.removed => In(KeysAt(g.batch, i), k)
         /\ \A k \in g.removed : k \in Keys /\ \E i \in Nat \ {0} :
              In(KeysAt(b, i), k) /\ (Inj(KeysAt(b, i)) => ~In(KeysAt(g.batch, i), k))
         /\ \A i \in Nat : Inj(KeysAt(b, i)) => Inj(KeysAt(g.batch, i))
         /\ g.ids = g.removed \cap included /\ g.addr \in Addrs \cup {NoAddr}
<1> DEFINE groups == {i \in DOMAIN b.addrs :
                        i >= b.index /\ ToSet(b.addrs[i].keys) \cap included # {}}
           pos == IF groups = {} THEN Len(b.addrs) + 1 ELSE Min(groups)
           keys == IF groups = {} THEN <<>> ELSE b.addrs[pos].keys
           ids(n) == ToSet(SubSeq(keys, 1, n)) \cap included
           cuts == {Len(keys)} \cup {n \in DOMAIN keys : Cardinality(ids(n)) = IdsMax}
           cut == Min(cuts)
           first == ToSet(SubSeq(keys, 1, cut))
           passed == UNION {ToSet(b.addrs[i].keys) : i \in b.index .. pos - 1}
           removed == passed \cup first
           addrs == [i \in DOMAIN b.addrs |->
                       IF i < pos THEN [b.addrs[i] EXCEPT !.keys = <<>>]
                       ELSE IF i = pos THEN [b.addrs[i] EXCEPT !.keys = SubSeq(@, cut + 1, Len(@))]
                       ELSE b.addrs[i]]
<1>0. /\ g.removed = removed /\ g.batch = [index |-> pos, addrs |-> addrs] /\ g.ids = ids(cut)
      /\ g.addr = IF groups = {} THEN NoAddr ELSE b.addrs[pos].addr
  <2>1. g = [addr |-> IF groups = {} THEN NoAddr ELSE b.addrs[pos].addr, ids |-> ids(cut),
             removed |-> removed, batch |-> [index |-> pos, addrs |-> addrs]]
    BY Zenon DEF TakeGroup
  <2> HIDE DEF groups, pos, ids, cut, removed, addrs
  <2> QED
    BY <2>1
<1>1. /\ b.addrs \in Seq(AddrItem) /\ b.index \in Nat \ {0}
      /\ \A i \in DOMAIN b.addrs : i < b.index => b.addrs[i].keys = <<>>
  BY DEF BatchShape
<1>2. /\ pos \in Nat \ {0} /\ (groups # {} => pos \in DOMAIN b.addrs)
      /\ (pos \in DOMAIN b.addrs => keys = b.addrs[pos].keys)
      /\ pos <= Len(b.addrs) + 1
      /\ keys \in Seq(Keys)
      /\ \A i \in groups : pos <= i
  <2>1. CASE groups = {}
    <3>1. pos = Len(b.addrs) + 1 /\ keys = <<>>
      BY <2>1
    <3> HIDE DEF pos, keys
    <3> QED
      BY <1>1, <2>1, <3>1
  <2>2. CASE groups # {}
    <3>1. groups \in SUBSET Nat
      BY <1>1
    <3>2. pos \in groups /\ \A i \in groups : pos <= i
      <4> HIDE DEF groups
      <4> QED
        BY <2>2, <3>1, MinIsMember
    <3>3. pos \in DOMAIN b.addrs
      BY <3>2
    <3>4. keys = b.addrs[pos].keys
      BY <2>2
    <3> HIDE DEF pos, keys
    <3>5. keys \in Seq(Keys) /\ pos \in Nat \ {0} /\ pos <= Len(b.addrs)
      BY <1>1, <3>3, <3>4, AddrItemType
    <3> QED
      BY <1>1, <3>2, <3>3, <3>4, <3>5
  <2> QED
    BY <2>1, <2>2
<1> HIDE DEF pos, keys
<1>3. cut \in 0 .. Len(keys)
  <2>1. cuts \in SUBSET Nat /\ cuts # {} /\ \A n \in cuts : n <= Len(keys)
    BY <1>2
  <2>2. cut \in cuts
    <3> HIDE DEF cuts
    <3> QED
      BY <2>1, MinIsMember
  <2> HIDE DEF cut, cuts
  <2> QED
    BY <1>2, <2>1, <2>2
<1> HIDE DEF cut
<1>4. \A i \in DOMAIN b.addrs : i \in Nat \ {0} /\ b.addrs[i] \in AddrItem
                                 /\ b.addrs[i].keys \in Seq(Keys)
  BY <1>1, AddrItemType
<1> DEFINE rest == SubSeq(keys, cut + 1, Len(keys))
<1>5. /\ rest \in Seq(Keys)
      /\ \A y : In(keys, y) <=> In(rest, y) \/ y \in first
      /\ Inj(keys) => Inj(rest) /\ \A y \in first : ~In(rest, y)
  BY <1>2, <1>3, SuffixSeq
<1> HIDE DEF rest, first, passed
<1>6. \A i \in DOMAIN b.addrs :
         /\ addrs[i] \in AddrItem
         /\ addrs[i].keys = IF i < pos THEN <<>> ELSE IF i = pos THEN rest ELSE b.addrs[i].keys
  <2> SUFFICES ASSUME NEW i \in DOMAIN b.addrs
               PROVE  /\ addrs[i] \in AddrItem
                      /\ addrs[i].keys = IF i < pos THEN <<>> ELSE IF i = pos THEN rest
                                         ELSE b.addrs[i].keys
    OBVIOUS
  <2>0. /\ b.addrs[i] \in AddrItem
        /\ \A s \in Seq(Keys) : /\ [b.addrs[i] EXCEPT !.keys = s] \in AddrItem
                                /\ [b.addrs[i] EXCEPT !.keys = s].keys = s
    <3>1. b.addrs[i] \in AddrItem
      BY <1>4
    <3> QED
      BY <3>1 DEF AddrItem
  <2>1. CASE i < pos
    <3>1. addrs[i] = [b.addrs[i] EXCEPT !.keys = <<>>] /\ <<>> \in Seq(Keys)
      BY <2>1
    <3> HIDE DEF addrs
    <3> QED
      BY <2>0, <2>1, <3>1
  <2>2. CASE i = pos
    <3>1. ~(i < pos)
      BY <1>2, <2>2
    <3>2. addrs[i] = [b.addrs[i] EXCEPT !.keys = SubSeq(b.addrs[i].keys, cut + 1, Len(b.addrs[i].keys))]
      BY <2>2, <3>1
    <3>3. b.addrs[i].keys = keys
      BY <1>2, <2>2
    <3>4. addrs[i] = [b.addrs[i] EXCEPT !.keys = rest]
      BY <3>2, <3>3 DEF rest
    <3> HIDE DEF addrs
    <3> QED
      BY <1>5, <2>0, <2>2, <3>1, <3>4
  <2>3. CASE ~(i < pos) /\ i # pos
    <3>1. addrs[i] = b.addrs[i]
      BY <2>3
    <3> HIDE DEF addrs
    <3> QED
      BY <2>0, <2>3, <3>1
  <2> QED
    BY <2>1, <2>2, <2>3
<1>7. DOMAIN addrs = DOMAIN b.addrs /\ addrs \in Seq(AddrItem)
  <2>1. DOMAIN addrs = DOMAIN b.addrs /\ addrs = [i \in 1 .. Len(b.addrs) |-> addrs[i]]
    BY <1>1
  <2> HIDE DEF addrs
  <2>2. \A i \in 1 .. Len(b.addrs) : addrs[i] \in AddrItem
    BY <1>1, <1>6
  <2>3. addrs \in [1 .. Len(b.addrs) -> AddrItem]
    BY <2>1, <2>2, Zenon
  <2>4. Len(b.addrs) \in Nat
    BY <1>1
  <2>5. addrs \in Seq(AddrItem)
    BY <1>1, <2>3, <2>4, SeqDef, Zenon
  <2> QED
    BY <2>1, <2>5
<1> HIDE DEF addrs
<1>8. /\ \A i \in DOMAIN b.addrs : KeysAt(b, i) = b.addrs[i].keys
      /\ \A i : i \notin DOMAIN b.addrs => KeysAt(b, i) = <<>>
  BY DEF KeysAt
<1>9. \A i : KeysAt(g.batch, i) = IF i \notin DOMAIN b.addrs \/ i < pos THEN <<>>
                                   ELSE IF i = pos THEN rest ELSE KeysAt(b, i)
  BY <1>0, <1>6, <1>7 DEF KeysAt
<1>10. BatchShape(g.batch)
  BY <1>0, <1>2, <1>6, <1>7 DEF BatchShape
<1>11. (\A k : ~In(<<>>, k)) /\ Inj(<<>>)
  BY DEF In, Inj
<1>12. ASSUME NEW i \in Nat
       PROVE  /\ \A k : In(KeysAt(g.batch, i), k) => In(KeysAt(b, i), k)
              /\ Inj(KeysAt(b, i)) => Inj(KeysAt(g.batch, i))
  <2>1. CASE i \notin DOMAIN b.addrs \/ i < pos
    BY <1>9, <1>11, <2>1
  <2>2. CASE i \in DOMAIN b.addrs /\ i = pos
    <3>1. KeysAt(b, i) = keys /\ KeysAt(g.batch, i) = rest
      BY <1>2, <1>8, <1>9, <2>2
    <3> QED
      BY <1>5, <3>1
  <2>3. CASE i \in DOMAIN b.addrs /\ ~(i < pos) /\ i # pos
    BY <1>9, <2>3
  <2> QED
    BY <2>1, <2>2, <2>3
<1>13. ASSUME NEW i \in Nat, NEW k \in Keys, In(KeysAt(b, i), k), k \notin removed
       PROVE  In(KeysAt(g.batch, i), k)
  <2>1. i \in DOMAIN b.addrs
    BY <1>8, <1>11, <1>13
  <2>2. CASE i < pos
    <3>1. ~(i < b.index)
      BY <1>1, <1>8, <1>11, <1>13, <2>1
    <3>2. i \in b.index .. pos - 1
      BY <1>1, <1>2, <2>2, <3>1
    <3>3. k \in ToSet(b.addrs[i].keys)
      BY <1>8, <1>13, <2>1 DEF In, ToSet
    <3> QED
      BY <1>13, <3>2, <3>3 DEF passed
  <2>3. CASE i = pos
    <3>1. KeysAt(b, i) = keys /\ KeysAt(g.batch, i) = rest
      BY <1>2, <1>8, <1>9, <2>1, <2>3
    <3>2. k \notin first
      BY <1>13
    <3> QED
      BY <1>5, <1>13, <3>1, <3>2
  <2>4. CASE ~(i < pos) /\ i # pos
    BY <1>9, <1>13, <2>1, <2>4
  <2> QED
    BY <2>2, <2>3, <2>4
<1>14. ASSUME NEW k \in removed
       PROVE  k \in Keys /\ \E i \in Nat \ {0} :
                In(KeysAt(b, i), k) /\ (Inj(KeysAt(b, i)) => ~In(KeysAt(g.batch, i), k))
  <2>1. CASE k \in first
    <3>1. In(keys, k)
      BY <1>5, <2>1
    <3>2. pos \in DOMAIN b.addrs
      <4>1. keys # <<>>
        BY <3>1, <1>11
      <4> QED
        BY <1>2, <4>1 DEF keys
    <3>3. KeysAt(b, pos) = keys /\ KeysAt(g.batch, pos) = rest
      BY <1>2, <1>8, <1>9, <3>2
    <3>4. k \in Keys
      BY <1>2, <3>1 DEF In
    <3> QED
      BY <1>2, <1>5, <2>1, <3>1, <3>3, <3>4
  <2>2. CASE k \notin first
    <3>1. PICK i \in b.index .. pos - 1 : k \in ToSet(b.addrs[i].keys)
      <4>1. k \in passed
        BY <2>2
      <4> QED
        BY <4>1, Zenon DEF passed
    <3>2. i \in DOMAIN b.addrs /\ i < pos /\ i \in Nat \ {0}
      BY <1>1, <1>2
    <3>3. In(KeysAt(b, i), k) /\ KeysAt(g.batch, i) = <<>>
      BY <1>8, <1>9, <3>1, <3>2 DEF In, ToSet
    <3>4. k \in Keys
      BY <1>4, <1>8, <3>2, <3>3 DEF In
    <3> QED
      BY <1>11, <3>2, <3>3, <3>4
  <2> QED
    BY <2>1, <2>2
<1>15. g.addr \in Addrs \cup {NoAddr}
  BY <1>0, <1>2, <1>4 DEF AddrItem
<1>16. \A k \in passed : k \notin included
  <2>1. SUFFICES ASSUME NEW k \in passed, k \in included PROVE FALSE
    OBVIOUS
  <2>2. PICK i \in b.index .. pos - 1 : k \in ToSet(b.addrs[i].keys)
    BY <2>1, Zenon DEF passed
  <2>3. i \in DOMAIN b.addrs /\ i >= b.index /\ ~(pos <= i)
    BY <1>1, <1>2
  <2>4. i \in groups
    BY <2>1, <2>2, <2>3
  <2> QED
    BY <1>2, <2>3, <2>4
<1>17. ids(cut) = first \cap included
  BY DEF first
<1> HIDE DEF ids
<1>18. g.ids = removed \cap included
  BY <1>0, <1>16, <1>17
<1> HIDE DEF removed
<1> QED
  BY <1>0, <1>10, <1>12, <1>13, <1>14, <1>15, <1>18

-----------------------------------------------------------------------------
(* Connections that stay                                                   *)

\* The connections of n2 are those of n; a connection that ended stays so.
Kept(n, n2) ==
  /\ n2 \in Nodes
  /\ \A k \in Keys : n2[k] = Free <=> n[k] = Free
  /\ \A k \in Keys : n[k] # Free =>
       /\ n2[k].mode = n[k].mode /\ n2[k].first = n[k].first /\ n2[k].ch = n[k].ch
       /\ n[k].phase = "ended" => n2[k].phase = "ended"

SameIds(n, n2) == \A k \in Keys : n[k] # Free => n2[k].id = n[k].id

\* They have sent and received nothing.
SameTalk(n, n2) ==
  \A k \in Keys : n[k] # Free =>
    n2[k].seq = n[k].seq /\ n2[k].addr = n[k].addr /\ n2[k].phase = n[k].phase

LEMMA NodeType ==
  ASSUME NEW n \in Nodes, NEW k \in Keys
  PROVE  /\ n[k] # Free => n[k] \in Item
         /\ \A x \in Item : x # Free
<1>1. n[k] \in Item \cup {Free}
  BY DEF Nodes
<1>2. ASSUME NEW x \in Item PROVE x # Free
  <2>1. x.phase \in Phases
    BY DEF Item
  <2> QED
    BY <2>1 DEF Phases, Free
<1> QED
  BY <1>1, <1>2

LEMMA KeysType == Keys \in SUBSET Nat /\ Cap \in Nat /\ BatchCapacity \in Nat
<1>1. ReqMax \in Nat /\ StreamMax \in Nat /\ Batches \in Nat \ {0}
  BY ServerWorkerAssumption
<1>2. Cap \in Nat
  BY <1>1 DEF Cap
<1>3. StreamMax + Batches - 1 \in Nat
  BY <1>1
<1>4. BatchCapacity \in Nat
  BY <1>1, <1>3 DEF BatchCapacity
<1> QED
  BY <1>2, <1>4 DEF Keys

\* What a loop that adds keys keeps, starting from the nodes n.
Good(n, s) ==
  /\ s = [batch |-> s.batch, nodes |-> s.nodes]
  /\ Kept(n, s.nodes) /\ SameIds(n, s.nodes) /\ SameTalk(n, s.nodes)
  /\ BatchShape(s.batch) /\ Live(s.batch, s.nodes)

LEMMA ConnectionsBatchAddGives ==
  ASSUME NEW n \in Nodes, NEW s, Good(n, s), NEW k \in Keys, NEW r, r = ConnectionsBatchAdd(s, k)
  PROVE  /\ Good(n, r)
         /\ \A i \in Nat, j \in Keys : In(KeysAt(r.batch, i), j) => In(KeysAt(s.batch, i), j) \/ j = k
         /\ Owned(s.batch, s.nodes) /\ (\A i \in Nat : ~In(KeysAt(s.batch, i), k))
              => Owned(r.batch, r.nodes)
<1> DEFINE a == BatchAdd(s.batch, s.nodes[k].addr, k)
<1>1. CASE r = s
  BY <1>1
<1>2. CASE r # s
  <2>1. /\ s.nodes[k] # Free /\ s.nodes[k].addr # NoAddr /\ a.pos # 0
        /\ r = [batch |-> a.batch, nodes |-> [s.nodes EXCEPT ![k].bkey = a.pos]]
    BY <1>2, Zenon DEF ConnectionsBatchAdd
  <2>2. s.nodes \in Nodes /\ BatchShape(s.batch)
    BY DEF Good, Kept
  <2>3. s.nodes[k] \in Item /\ s.nodes[k].addr \in Addrs
    <3>1. s.nodes[k] \in Item
      BY <2>1, <2>2, NodeType
    <3> QED
      BY <2>1, <3>1 DEF Item
  <2>4. /\ BatchShape(a.batch) /\ a.pos \in Nat
        /\ \A i \in Nat : KeysAt(a.batch, i) =
             IF i = a.pos THEN Append(KeysAt(s.batch, i), k) ELSE KeysAt(s.batch, i)
    <3> HIDE DEF a
    <3>1. a = BatchAdd(s.batch, s.nodes[k].addr, k)
      BY DEF a
    <3> QED
      BY <2>1, <2>2, <2>3, <3>1, BatchAddGives
  <2> HIDE DEF a
  <2>5. r.batch = a.batch /\ r.nodes = [s.nodes EXCEPT ![k].bkey = a.pos]
    BY <2>1
  <2> DEFINE y == [s.nodes[k] EXCEPT !.bkey = a.pos]
  <2>6. /\ y \in Item /\ y.bkey = a.pos /\ y.mode = s.nodes[k].mode /\ y.first = s.nodes[k].first
        /\ y.ch = s.nodes[k].ch /\ y.phase = s.nodes[k].phase /\ y.id = s.nodes[k].id
        /\ y.seq = s.nodes[k].seq /\ y.addr = s.nodes[k].addr
    BY <2>3, <2>4 DEF Item
  <2> HIDE DEF y
  <2>7. /\ DOMAIN s.nodes = Keys /\ DOMAIN r.nodes = Keys /\ r.nodes[k] = y
        /\ \A j \in Keys : j # k => r.nodes[j] = s.nodes[j]
    BY <2>2, <2>5 DEF y, Nodes
  <2>8. r.nodes \in Nodes /\ y # Free
    <3>1. r.nodes = [s.nodes EXCEPT ![k] = y]
      BY <2>2, <2>5 DEF y, Nodes
    <3> QED
      BY <2>2, <2>6, <3>1, NodeType DEF Nodes
  <2>9. Kept(n, r.nodes) /\ SameIds(n, r.nodes) /\ SameTalk(n, r.nodes)
    BY <2>1, <2>6, <2>7, <2>8 DEF Good, Kept, SameIds, SameTalk
  <2>10. ASSUME NEW i \in Nat
         PROVE  /\ KeysAt(s.batch, i) \in Seq(Keys)
                /\ i # a.pos => KeysAt(r.batch, i) = KeysAt(s.batch, i)
                /\ i = a.pos => \A j : In(KeysAt(r.batch, i), j) <=> In(KeysAt(s.batch, i), j) \/ j = k
                /\ Inj(KeysAt(s.batch, i)) /\ ~In(KeysAt(s.batch, i), k) => Inj(KeysAt(r.batch, i))
    <3>1. KeysAt(s.batch, i) \in Seq(Keys)
      BY <2>2, KeysAtType
    <3> QED
      BY <2>4, <2>5, <3>1, AppendSeq
  <2>11. \A i \in Nat, j \in Keys : In(KeysAt(r.batch, i), j) => In(KeysAt(s.batch, i), j) \/ j = k
    BY <2>10
  <2>12. Live(r.batch, r.nodes)
    BY <2>1, <2>7, <2>8, <2>11 DEF Live, Good
  <2>13. ASSUME Owned(s.batch, s.nodes), \A i \in Nat : ~In(KeysAt(s.batch, i), k)
         PROVE  Owned(r.batch, r.nodes)
    <3>1. \A i \in Nat : Inj(KeysAt(r.batch, i))
      BY <2>10, <2>13 DEF Owned
    <3>2. ASSUME NEW i \in Nat \ {0}, NEW j \in Keys
          PROVE  In(KeysAt(r.batch, i), j) <=> r.nodes[j] # Free /\ r.nodes[j].bkey = i
      <4>0. In(KeysAt(s.batch, i), j) <=> s.nodes[j] # Free /\ s.nodes[j].bkey = i
        BY <2>13 DEF Owned
      <4>1. CASE j = k
        BY <2>6, <2>7, <2>8, <2>10, <2>13, <4>1
      <4>2. CASE j # k
        BY <2>7, <2>10, <4>0, <4>2
      <4> QED
        BY <4>1, <4>2
    <3> QED
      BY <3>1, <3>2 DEF Owned
  <2>14. r = [batch |-> r.batch, nodes |-> r.nodes]
    BY <2>1
  <2> QED
    BY <2>4, <2>5, <2>9, <2>11, <2>12, <2>13, <2>14 DEF Good
<1> QED
  BY <1>1, <1>2

\* The loop over the keys from first on: what it adds is owned if the batch
\* was empty, since it adds no key twice.
LEMMA AddKeysGives ==
  ASSUME NEW first \in Nat, NEW next \in 0 .. Cap, first <= next,
         nodes \in Nodes, BatchShape(batch), Live(batch, nodes),
         NEW r, r = AddKeys(first, next)
  PROVE  /\ Good(nodes, r)
         /\ Owned(batch, nodes) /\ BatchIsEmpty(batch) => Owned(r.batch, r.nodes)
<1> DEFINE d == next - first
<1>0. d \in Nat /\ next \in Nat
  BY KeysType
<1>1. PICK t : /\ t[0] = Start
               /\ \A m \in 1 .. d : t[m] = ConnectionsBatchAdd(t[m - 1], first + m - 1)
               /\ r = t[d]
  BY <1>0, AddKeysSteps
<1> DEFINE From == Owned(batch, nodes) /\ BatchIsEmpty(batch)
           Unused(s, m) == \A i \in Nat, j \in Keys : j >= m => ~In(KeysAt(s.batch, i), j)
           Q(m) == /\ Good(nodes, t[m])
                   /\ From => Owned(t[m].batch, t[m].nodes) /\ Unused(t[m], first + m)
           P == {m \in Nat : m <= d => Q(m)}
<1>2. 0 \in P
  <2>1. Start = [batch |-> batch, nodes |-> nodes] /\ Start.batch = batch /\ Start.nodes = nodes
    BY DEF Start
  <2>2. Good(nodes, Start)
    BY <2>1 DEF Good, Kept, SameIds, SameTalk
  <2>3. ASSUME From PROVE Owned(Start.batch, Start.nodes) /\ Unused(Start, first + 0)
    <3>1. \A i \in Nat : KeysAt(batch, i) = <<>>
      BY <2>3, KeysAtType
    <3> QED
      BY <2>1, <2>3, <3>1 DEF In
  <2> HIDE DEF From, Unused
  <2> QED
    BY <1>1, <2>2, <2>3
<1>3. ASSUME NEW m \in Nat, m \in P PROVE m + 1 \in P
  <2>1. SUFFICES ASSUME m + 1 <= d PROVE Q(m + 1)
    BY <1>3
  <2>2. m \in Nat /\ m + 1 \in 1 .. d /\ m <= d /\ (m + 1) - 1 = m /\ first + (m + 1) - 1 = first + m
    BY <1>0, <2>1
  <2>3. Q(m)
    BY <1>3, <2>2
  <2>4. t[m + 1] = ConnectionsBatchAdd(t[m], first + m)
    BY <1>1, <2>2
  <2>5. first + m \in Keys
    BY <1>0, <2>1, KeysType DEF Keys
  <2>6. /\ Good(nodes, t[m + 1])
        /\ \A i \in Nat, j \in Keys :
             In(KeysAt(t[m + 1].batch, i), j) => In(KeysAt(t[m].batch, i), j) \/ j = first + m
        /\ Owned(t[m].batch, t[m].nodes) /\ (\A i \in Nat : ~In(KeysAt(t[m].batch, i), first + m))
              => Owned(t[m + 1].batch, t[m + 1].nodes)
    BY <2>3, <2>4, <2>5, ConnectionsBatchAddGives
  <2>7. ASSUME From
        PROVE  Owned(t[m + 1].batch, t[m + 1].nodes) /\ Unused(t[m + 1], first + (m + 1))
    <3>1. Owned(t[m].batch, t[m].nodes) /\ Unused(t[m], first + m)
      BY <2>3, <2>7
    <3>2. \A i \in Nat : ~In(KeysAt(t[m].batch, i), first + m)
      BY <2>2, <2>5, <3>1
    <3>3. \A j \in Keys : j >= first + (m + 1) => j >= first + m /\ j # first + m
      BY <2>2, KeysType
    <3>4. Unused(t[m + 1], first + (m + 1))
      BY <2>6, <3>1, <3>3
    <3> QED
      BY <2>6, <3>1, <3>2, <3>4
  <2> QED
    BY <2>6, <2>7
<1>4. Nat \subseteq P
  <2> HIDE DEF P
  <2> QED
    BY <1>2, <1>3, Induction
<1>5. Q(d)
  BY <1>0, <1>4
<1> QED
  BY <1>1, <1>5

LEMMA IncType == \A n \in Nat : Inc(n) \in Nat
BY ServerWorkerAssumption DEF Inc

\* Connections::next_batch_message leaves the connections as they were, but
\* for what is about the batch.
LEMMA NextBatchMessageGives ==
  ASSUME nodes \in Nodes, BatchShape(batch), Live(batch, nodes),
         NEW t, NEW r, r = NextBatchMessage(t)
  PROVE  /\ Kept(nodes, r.nodes) /\ SameIds(nodes, r.nodes)
         /\ BatchShape(r.batch) /\ Live(r.batch, r.nodes)
         /\ Owned(batch, nodes) => Owned(r.batch, r.nodes)
<1> DEFINE g == TakeGroup(batch, {k \in Keys : nodes[k] # Free /\ nodes[k].addr # NoAddr})
           item(k) == IF k \notin g.removed THEN nodes[k]
                      ELSE [nodes[k] EXCEPT !.bkey = 0, !.seq = IF k \in g.ids THEN Inc(@) ELSE @]
<1>1. r.batch = g.batch /\ r.nodes = [k \in Keys |-> item(k)]
  <2>1. r = [batch |-> g.batch, nodes |-> [k \in Keys |-> item(k)],
             packet |-> [t |-> t, to |-> g.addr,
                         ids |-> {[id |-> nodes[k].id, seq |-> nodes[k].seq] : k \in g.ids}]]
    BY Zenon DEF NextBatchMessage
  <2> HIDE DEF g, item
  <2> QED
    BY <2>1
<1> HIDE DEF g
<1>2. /\ BatchShape(g.batch)
      /\ \A i \in Nat, k \in Keys : In(KeysAt(g.batch, i), k) => In(KeysAt(batch, i), k)
      /\ \A i \in Nat, k \in Keys :
           In(KeysAt(batch, i), k) /\ k \notin g.removed => In(KeysAt(g.batch, i), k)
      /\ \A k \in g.removed : k \in Keys /\ \E i \in Nat \ {0} :
           In(KeysAt(batch, i), k) /\ (Inj(KeysAt(batch, i)) => ~In(KeysAt(g.batch, i), k))
      /\ \A i \in Nat : Inj(KeysAt(batch, i)) => Inj(KeysAt(g.batch, i))
  <2> DEFINE included == {k \in Keys : nodes[k] # Free /\ nodes[k].addr # NoAddr}
  <2>1. g = TakeGroup(batch, included)
    BY DEF g
  <2> HIDE DEF included, item
  <2> QED
    BY <2>1, TakeGroupGives
<1>3. \A k \in g.removed : nodes[k] # Free
  BY <1>2 DEF Live
<1>4. \A k \in Keys : k \notin g.removed => item(k) = nodes[k]
  OBVIOUS
<1>5. ASSUME NEW k \in Keys, k \in g.removed
      PROVE  /\ item(k) \in Item /\ item(k).bkey = 0 /\ item(k).mode = nodes[k].mode
             /\ item(k).first = nodes[k].first /\ item(k).ch = nodes[k].ch
             /\ item(k).phase = nodes[k].phase /\ item(k).id = nodes[k].id
  <2>1. nodes[k] \in Item
    BY <1>3, <1>5, NodeType
  <2>2. nodes[k].seq \in Nat /\ Inc(nodes[k].seq) \in Nat
    BY <2>1, IncType DEF Item
  <2> DEFINE v == IF k \in g.ids THEN Inc(nodes[k].seq) ELSE nodes[k].seq
  <2>3. v \in Nat
    BY <2>2
  <2>4. item(k) = [nodes[k] EXCEPT !.bkey = 0, !.seq = v]
    BY <1>5
  <2> HIDE DEF v, item
  <2> DEFINE x == [nodes[k] EXCEPT !.bkey = 0]
  <2>5. /\ x \in Item /\ x.bkey = 0 /\ x.mode = nodes[k].mode /\ x.first = nodes[k].first
        /\ x.ch = nodes[k].ch /\ x.phase = nodes[k].phase /\ x.id = nodes[k].id
    BY <2>1 DEF Item
  <2>6. item(k) = [x EXCEPT !.seq = v]
    BY <2>4
  <2> HIDE DEF x
  <2>7. /\ item(k) \in Item /\ item(k).bkey = x.bkey /\ item(k).mode = x.mode
        /\ item(k).first = x.first /\ item(k).ch = x.ch /\ item(k).phase = x.phase
        /\ item(k).id = x.id
    BY <2>3, <2>5, <2>6 DEF Item
  <2> QED
    BY <2>5, <2>7
<1> HIDE DEF item
<1>6. \A k \in Keys : r.nodes[k] = item(k)
  BY <1>1
<1>7. r.nodes \in Nodes
  <2>1. \A k \in Keys : item(k) \in Item \cup {Free}
    BY <1>4, <1>5 DEF Nodes
  <2> QED
    BY <1>1, <2>1 DEF Nodes
<1>8. \A k \in g.removed : k \in Keys /\ item(k) # Free
  BY <1>2, <1>5, NodeType
<1>9. Kept(nodes, r.nodes) /\ SameIds(nodes, r.nodes)
  BY <1>3, <1>4, <1>5, <1>6, <1>7, <1>8 DEF Kept, SameIds
<1>10. Live(r.batch, r.nodes)
  BY <1>1, <1>2, <1>9 DEF Live, Kept
<1>11. ASSUME Owned(batch, nodes) PROVE Owned(r.batch, r.nodes)
  <2>1. \A i \in Nat : Inj(KeysAt(g.batch, i))
    BY <1>2, <1>11 DEF Owned
  <2>2. ASSUME NEW i \in Nat \ {0}, NEW k \in Keys
        PROVE  In(KeysAt(g.batch, i), k) <=> r.nodes[k] # Free /\ r.nodes[k].bkey = i
    <3>1. CASE k \in g.removed
      <4>1. PICK j \in Nat \ {0} : In(KeysAt(batch, j), k) /\ ~In(KeysAt(g.batch, j), k)
        BY <1>2, <1>11, <3>1 DEF Owned
      <4>2. nodes[k].bkey = j
        BY <1>11, <4>1 DEF Owned
      <4>3. In(KeysAt(g.batch, i), k) => i = j
        BY <1>2, <1>11, <4>2 DEF Owned
      <4> QED
        BY <1>5, <1>6, <3>1, <4>1, <4>3
    <3>2. CASE k \notin g.removed
      BY <1>2, <1>4, <1>6, <1>11, <3>2 DEF Owned
    <3> QED
      BY <3>1, <3>2
  <2> QED
    BY <1>1, <2>1, <2>2 DEF Owned
<1> QED
  BY <1>1, <1>2, <1>9, <1>10, <1>11

\* It sends for the connections of K, each with its number, and what leaves the
\* batch otherwise has no address to send to.
SendsFor(K, t, r) ==
  /\ r.packet.t = t /\ r.packet = [t |-> r.packet.t, to |-> r.packet.to, ids |-> r.packet.ids]
  /\ r.packet.to \in Addrs \cup {NoAddr}
  /\ r.packet.ids = {[id |-> nodes[k].id, seq |-> nodes[k].seq] : k \in K}
  /\ \A k \in K : nodes[k] # Free /\ nodes[k].addr # NoAddr
  /\ \A k \in Keys : nodes[k] # Free =>
       /\ r.nodes[k].phase = nodes[k].phase /\ r.nodes[k].addr = nodes[k].addr
       /\ r.nodes[k].seq = IF k \in K THEN Inc(nodes[k].seq) ELSE nodes[k].seq
  /\ \A i \in Nat, k \in Keys :
       In(KeysAt(batch, i), k) /\ nodes[k].addr # NoAddr /\ k \notin K => In(KeysAt(r.batch, i), k)

LEMMA NextBatchMessageSends ==
  ASSUME nodes \in Nodes, BatchShape(batch), Live(batch, nodes),
         NEW t, NEW r, r = NextBatchMessage(t)
  PROVE  \E K \in SUBSET Keys : SendsFor(K, t, r)
<1> DEFINE included == {k \in Keys : nodes[k] # Free /\ nodes[k].addr # NoAddr}
           g == TakeGroup(batch, included)
           K == g.ids
           ids == {[id |-> nodes[k].id, seq |-> nodes[k].seq] : k \in K}
           item(k) == IF k \notin g.removed THEN nodes[k]
                      ELSE [nodes[k] EXCEPT !.bkey = 0, !.seq = IF k \in K THEN Inc(@) ELSE @]
<1>1. /\ r.batch = g.batch /\ r.nodes = [k \in Keys |-> item(k)]
      /\ r.packet = [t |-> t, to |-> g.addr, ids |-> ids]
  <2>1. r = [batch |-> g.batch, nodes |-> [k \in Keys |-> item(k)],
             packet |-> [t |-> t, to |-> g.addr, ids |-> ids]]
    BY Zenon DEF NextBatchMessage
  <2> HIDE DEF g, item, ids
  <2> QED
    BY <2>1
<1> HIDE DEF g
<1>2. /\ \A i \in Nat, k \in Keys :
           In(KeysAt(batch, i), k) /\ k \notin g.removed => In(KeysAt(g.batch, i), k)
      /\ \A k \in g.removed : k \in Keys /\ \E i \in Nat \ {0} : In(KeysAt(batch, i), k)
      /\ K = g.removed \cap included /\ g.addr \in Addrs \cup {NoAddr}
  <2>1. g = TakeGroup(batch, included)
    BY DEF g
  <2> HIDE DEF included
  <2> QED
    BY <2>1, TakeGroupGives
<1>3. \A k \in g.removed : nodes[k] # Free
  BY <1>2 DEF Live
<1> HIDE DEF K
<1>4. ASSUME NEW k \in Keys, nodes[k] # Free
      PROVE  /\ item(k).phase = nodes[k].phase /\ item(k).addr = nodes[k].addr
             /\ item(k).seq = IF k \in K THEN Inc(nodes[k].seq) ELSE nodes[k].seq
  <2>1. CASE k \notin g.removed
    <3>1. item(k) = nodes[k] /\ k \notin K
      BY <1>2, <2>1
    <3> QED
      BY <3>1
  <2>2. CASE k \in g.removed
    <3> DEFINE v == IF k \in K THEN Inc(nodes[k].seq) ELSE nodes[k].seq
    <3>1. nodes[k] \in Item
      BY <1>4, NodeType
    <3>2. item(k) = [nodes[k] EXCEPT !.bkey = 0, !.seq = v]
      BY <2>2
    <3> HIDE DEF v, item
    <3>3. item(k).phase = nodes[k].phase /\ item(k).addr = nodes[k].addr /\ item(k).seq = v
      BY <3>1, <3>2 DEF Item
    <3> QED
      BY <3>3 DEF v
  <2> QED
    BY <2>1, <2>2
<1> HIDE DEF item
<1>5. \A k \in Keys : r.nodes[k] = item(k)
  BY <1>1
<1>6. ASSUME NEW i \in Nat, NEW k \in Keys, In(KeysAt(batch, i), k), nodes[k].addr # NoAddr, k \notin K
      PROVE  In(KeysAt(r.batch, i), k)
  <2>1. nodes[k] # Free
    BY <1>6 DEF Live
  <2>2. k \notin g.removed
    BY <1>2, <1>6, <2>1
  <2> QED
    BY <1>1, <1>2, <1>6, <2>2
<1>7. K \in SUBSET Keys /\ \A k \in K : nodes[k] # Free /\ nodes[k].addr # NoAddr
  BY <1>2
<1>8. /\ r.packet.t = t /\ r.packet = [t |-> r.packet.t, to |-> r.packet.to, ids |-> r.packet.ids]
      /\ r.packet.to \in Addrs \cup {NoAddr} /\ r.packet.ids = ids
  <2> HIDE DEF ids
  <2> QED
    BY <1>1, <1>2
<1>9. SendsFor(K, t, r)
  BY <1>4, <1>5, <1>6, <1>7, <1>8 DEF SendsFor
<1> QED
  BY <1>7, <1>9

-----------------------------------------------------------------------------
(* What steps have in common                                               *)

\* Steps that leave the registry alone.
LEMMA SameRegistry ==
  ASSUME Inv, UNCHANGED <<nodes, vacant, pool, chan, nextCid>>
  PROVE  Registry'
BY DEF Inv, Registry, VacantKeys, ChannelsApart, Admitted, Items, IdsOwn, ChannelIsOwn, Running

LEMMA KeptNodes ==
  ASSUME Inv, Kept(nodes, nodes'), UNCHANGED <<vacant, pool>>,
         \A c \in Chans : chan[c] = <<>> /\ In(pool, c) => chan'[c] = <<>>
  PROVE  VacantKeys' /\ ChannelsApart' /\ Admitted'
<1>1. VacantKeys'
  BY DEF Inv, Registry, VacantKeys, Kept
<1>2. ChannelsApart'
  <2>1. pool \in Seq(Chans)
    BY DEF Inv, Shape
  <2>2. \A i \in DOMAIN pool : chan'[pool[i]] = <<>>
    BY <2>1 DEF Inv, Registry, ChannelsApart, In
  <2>3. /\ Inj(pool) /\ Len(pool) = Len(vacant)
        /\ \A k \in Keys : nodes[k] # Free => ~In(pool, nodes[k].ch)
        /\ \A k, j \in Keys : nodes[k] # Free /\ nodes[j] # Free /\ nodes[k].ch = nodes[j].ch => k = j
    BY DEF Inv, Registry, ChannelsApart
  <2>4. \A k \in Keys : nodes'[k] # Free => nodes[k] # Free /\ nodes'[k].ch = nodes[k].ch
    BY DEF Kept
  <2> QED
    BY <2>2, <2>3, <2>4 DEF ChannelsApart
<1>3. \A m \in Modes : Items(m)' = Items(m)
  BY DEF Items, Kept
<1> QED
  BY <1>1, <1>2, <1>3 DEF Inv, Registry, Admitted

LEMMA KeptChannels ==
  ASSUME Inv, Kept(nodes, nodes'),
         \A c \in Chans : chan'[c] = chan[c] \/ (chan[c] # <<>> /\ chan'[c] = Tail(chan[c]))
  PROVE  ChannelIsOwn'
<1>1. SUFFICES ASSUME NEW k \in Keys, Running(k)', NEW i \in DOMAIN chan'[nodes'[k].ch]
               PROVE  chan'[nodes'[k].ch][i].id.key = k /\ chan'[nodes'[k].ch][i].id.n >= nodes'[k].first
  BY DEF ChannelIsOwn
<1>2. /\ Running(k) /\ nodes'[k].ch = nodes[k].ch /\ nodes'[k].first = nodes[k].first
      /\ nodes[k] # Free /\ nodes \in Nodes
  BY <1>1 DEF Running, Kept, Inv, Shape
<1> DEFINE c == nodes[k].ch
<1>3. c \in Chans /\ chan[c] \in Seq(Message)
  <2>1. nodes[k] \in Item
    BY <1>2, NodeType
  <2> QED
    BY <2>1 DEF Item, Inv, Shape
<1>4. \A j \in DOMAIN chan[c] : chan[c][j].id.key = k /\ chan[c][j].id.n >= nodes[k].first
  BY <1>2 DEF Inv, Registry, ChannelIsOwn
<1>5. i \in DOMAIN chan'[c]
  BY <1>1, <1>2
<1> HIDE DEF c
<1>6. \E j \in DOMAIN chan[c] : chan'[c][i] = chan[c][j]
  <2>1. CASE chan'[c] = chan[c]
    BY <1>5, <2>1
  <2>2. CASE chan[c] # <<>> /\ chan'[c] = Tail(chan[c])
    <3>1. i \in 1 .. Len(chan[c]) - 1 /\ chan'[c][i] = chan[c][i + 1]
      BY <1>3, <1>5, <2>2
    <3> QED
      BY <1>3, <3>1
  <2> QED
    BY <1>3, <2>1, <2>2
<1> QED
  BY <1>2, <1>4, <1>6 DEF c

LEMMA KeptIds ==
  ASSUME Inv, Kept(nodes, nodes'), SameIds(nodes, nodes'), nextCid' = nextCid
  PROVE  IdsOwn'
BY DEF Inv, Registry, IdsOwn, Kept, SameIds

LEMMA KeptDone ==
  ASSUME Inv, Kept(nodes, nodes'), q'.done = q.done
  PROVE  DoneOnce'
<1>1. \A m \in Modes : \A i \in DOMAIN q.done[m] : q.done[m][i] \in Keys
  BY DEF Inv, Shape, QueueShape
<1> QED
  BY <1>1 DEF Inv, DoneOnce, Kept

\* The connection with key k ends and is added to those that are done.
LEMMA AddedDone ==
  ASSUME Inv, Kept(nodes, nodes'), NEW k \in Keys, Running(k), nodes'[k].phase = "ended",
         q'.done = [q.done EXCEPT ![nodes[k].mode] = Append(@, k)]
  PROVE  DoneOnce'
<1>1. SUFFICES ASSUME NEW m \in Modes
               PROVE  /\ Inj(q'.done[m])
                      /\ \A j : In(q'.done[m], j) =>
                           nodes'[j] # Free /\ nodes'[j].phase = "ended" /\ nodes'[j].mode = m
  BY DEF DoneOnce, In
<1>2. q.done[m] \in Seq(Keys) /\ DOMAIN q.done = Modes
  BY DEF Inv, Shape, QueueShape
<1>3. /\ Inj(q.done[m])
      /\ \A j : In(q.done[m], j) => nodes[j] # Free /\ nodes[j].phase = "ended" /\ nodes[j].mode = m
  BY DEF Inv, DoneOnce, In
<1>4. \A j : In(q.done[m], j) => j \in Keys
  BY <1>2 DEF In
<1>5. \A j : In(q.done[m], j) => nodes'[j] # Free /\ nodes'[j].phase = "ended" /\ nodes'[j].mode = m
  BY <1>3, <1>4 DEF Kept
<1>6. CASE m # nodes[k].mode
  BY <1>2, <1>3, <1>5, <1>6
<1>7. CASE m = nodes[k].mode
  <2>1. q'.done[m] = Append(q.done[m], k)
    BY <1>2, <1>7
  <2>2. ~In(q.done[m], k)
    BY <1>3 DEF Running
  <2>3. nodes'[k] # Free /\ nodes'[k].mode = m
    BY <1>7 DEF Running, Kept
  <2> QED
    BY <1>2, <1>3, <1>5, <2>1, <2>2, <2>3, AppendSeq
<1> QED
  BY <1>6, <1>7

SameBatchKeys(n, n2) == \A k \in Keys : n[k] # Free => n2[k].bkey = n[k].bkey

LEMMA KeptBatch ==
  ASSUME Inv, Kept(nodes, nodes'), SameBatchKeys(nodes, nodes'), batch' = batch,
         Filling' => Filling,
         Filling' /\ task'.ka = "wait" => task.ka = "wait" \/ BatchIsEmpty(batch)
  PROVE  BatchKept'
<1>1. Live(batch, nodes')
  BY DEF Inv, BatchKept, Live, Kept
<1>2. ASSUME Owned(batch, nodes) PROVE Owned(batch, nodes')
  BY <1>2 DEF Owned, Kept, SameBatchKeys
<1>3. Filling => Owned(batch, nodes) /\ (task.ka = "wait" => BatchIsEmpty(batch))
  BY DEF Inv, BatchKept
<1> QED
  BY <1>1, <1>2, <1>3 DEF BatchKept

LEMMA KeptSame == Inv => Kept(nodes, nodes) /\ SameIds(nodes, nodes) /\ SameBatchKeys(nodes, nodes)
BY DEF Inv, Shape, Kept, SameIds, SameBatchKeys

-----------------------------------------------------------------------------
(* Steps that do not change the connections                                *)

LEMMA TaskFacts ==
  ASSUME Inv
  PROVE  /\ TaskShape /\ TasksInOrder
         /\ task.run \in {"run", "ka", "accept", "cancel", "drain", "ended"}
         /\ task.kaIndex \in 0 .. Cap /\ task.cancelIndex \in 0 .. Cap /\ task.kaCount \in Nat
         /\ task.handle \in [Modes -> {"run", "ended"}]
BY DEF Inv, Shape, TaskShape

LEMMA QueueFacts ==
  ASSUME Inv
  PROVE  /\ q = [out |-> q.out, mgrIn |-> q.mgrIn, pipeIn |-> q.pipeIn, done |-> q.done]
         /\ q.mgrIn \in Seq(Incoming) /\ q.pipeIn \in [Modes -> Seq(Incoming)]
         /\ q.done \in [Modes -> Seq(Keys)]
BY DEF Inv, Shape, QueueShape

LEMMA OnlyTasks ==
  ASSUME Inv, UNCHANGED <<nodes, vacant, pool, chan, nextCid, batch, q, peer>>,
         TaskShape', TasksInOrder', Filling' => Filling,
         Filling' /\ task'.ka = "wait" => task.ka = "wait" \/ BatchIsEmpty(batch)
  PROVE  Inv'
<1>1. Registry'
  BY SameRegistry
<1>2. Kept(nodes, nodes') /\ SameBatchKeys(nodes, nodes') /\ q'.done = q.done
  BY KeptSame
<1>3. DoneOnce'
  BY <1>2, KeptDone
<1>4. BatchKept'
  BY <1>2, KeptBatch
<1>5. Shape'
  BY DEF Inv, Shape, QueueShape
<1> QED
  BY <1>1, <1>3, <1>4, <1>5 DEF Inv

LEMMA OnlyQueues ==
  ASSUME Inv, UNCHANGED <<nodes, vacant, pool, chan, nextCid, batch>>,
         TaskShape', TasksInOrder', task'.run = task.run, task'.ka = task.ka,
         QueueShape', q'.done = q.done,
         peer' \in [0 .. IdMax - 1 -> Session \cup {Unknown, Gone, Stopped}]
  PROVE  Inv'
<1>1. Registry'
  BY SameRegistry
<1>2. Kept(nodes, nodes') /\ SameBatchKeys(nodes, nodes') /\ (Filling' <=> Filling)
  BY KeptSame DEF Filling
<1>3. DoneOnce'
  BY <1>2, KeptDone
<1>4. BatchKept'
  BY <1>2, KeptBatch
<1>5. Shape'
  BY DEF Inv, Shape
<1> QED
  BY <1>1, <1>3, <1>4, <1>5 DEF Inv

LEMMA KeepAliveNothingKeeps == ASSUME Inv, KeepAliveNothing PROVE Inv'
<1>1. /\ task' = [task EXCEPT !.ka = "wait"] /\ BatchIsEmpty(batch)
      /\ UNCHANGED <<nodes, vacant, pool, chan, nextCid, batch, q, peer>>
  BY DEF KeepAliveNothing
<1>2. TaskShape'
  BY <1>1, TaskFacts DEF TaskShape
<1>3. TasksInOrder' /\ (Filling' => Filling)
  BY <1>1, TaskFacts DEF TasksInOrder, TaskShape, Filling
<1> QED
  BY <1>1, <1>2, <1>3, OnlyTasks

LEMMA KeepAliveStopKeeps == ASSUME Inv, KeepAliveStop PROVE Inv'
<1>1. /\ task' = [task EXCEPT !.ka = "ended"]
      /\ UNCHANGED <<nodes, vacant, pool, chan, nextCid, batch, q, peer>>
  BY DEF KeepAliveStop
<1>2. TaskShape'
  BY <1>1, TaskFacts DEF TaskShape
<1>3. TasksInOrder' /\ (Filling' => Filling) /\ task'.ka = "ended"
  BY <1>1, TaskFacts DEF TasksInOrder, TaskShape, Filling
<1> QED
  BY <1>1, <1>2, <1>3, OnlyTasks

\* The steps of Worker::run that only move on.
LEMMA RunMoves ==
  ASSUME Inv, NEW to \in {"ka", "accept", "cancel", "ended"}, NEW late \in BOOLEAN,
         task' = [task EXCEPT !.run = to, !.timedOut = late],
         to \in {"ka", "accept"} => Filling,
         to \in {"cancel", "ended"} => task.run \in {"cancel", "drain"},
         UNCHANGED <<nodes, vacant, pool, chan, nextCid, batch, q, peer>>
  PROVE  Inv'
<1>1. TaskShape'
  BY TaskFacts DEF TaskShape
<1>2. task'.run = to /\ task'.ka = task.ka /\ task'.handle = task.handle /\ task'.accept = task.accept
  BY TaskFacts DEF TaskShape
<1>3. TasksInOrder'
  BY <1>2, TaskFacts DEF TasksInOrder
<1>4. Filling' => Filling
  BY <1>2 DEF Filling
<1> QED
  BY <1>1, <1>2, <1>3, <1>4, OnlyTasks

LEMMA RunStepsKeep == ASSUME Inv, RunStop \/ RunCancelMore \/ RunEnd \/ RunTimeout PROVE Inv'
<1> DEFINE Rest == UNCHANGED <<nodes, vacant, pool, chan, nextCid, batch, q, peer>>
           Move(to, late) == task' = [task EXCEPT !.run = to, !.timedOut = late]
<1>0. task \in [run : {"run", "ka", "accept", "cancel", "drain", "ended"}, accept : {"run", "drain"},
            handle : [Modes -> {"run", "ended"}], ka : {"wait", "send", "ended"},
            kaIndex : 0 .. Cap, kaCount : Nat, cancelIndex : 0 .. Cap, timedOut : BOOLEAN]
  BY TaskFacts DEF TaskShape
<1>1. CASE RunStop
  <2>1. Rest /\ Filling
    BY <1>1 DEF RunStop, Filling
  <2>2. Move("ka", task.timedOut) \/ Move("accept", task.timedOut)
    BY <1>0, <1>1 DEF RunStop
  <2> QED
    BY <1>0, <2>1, <2>2, RunMoves
<1>2. CASE RunCancelMore
  <2>1. Rest /\ task.run = "drain" /\ Move("cancel", task.timedOut) /\ task.timedOut \in BOOLEAN
    BY <1>0, <1>2 DEF RunCancelMore
  <2> QED
    BY <2>1, RunMoves
<1>3. CASE RunEnd
  <2>1. Rest /\ task.run = "cancel" /\ Move("ended", task.timedOut) /\ task.timedOut \in BOOLEAN
    BY <1>0, <1>3 DEF RunEnd
  <2> QED
    BY <2>1, RunMoves
<1>4. CASE RunTimeout
  <2>1. Rest /\ task.run = "drain" /\ Move("ended", TRUE)
    BY <1>0, <1>4 DEF RunTimeout
  <2> QED
    BY <2>1, RunMoves
<1> QED
  BY <1>1, <1>2, <1>3, <1>4

LEMMA EmptyKeysAt == \A i : KeysAt([addrs |-> <<>>, index |-> 1], i) = <<>>
BY DEF KeysAt

LEMMA RunTasksDoneKeeps == ASSUME Inv, RunTasksDone PROVE Inv'
<1>1. /\ task' = [task EXCEPT !.run = "cancel"] /\ \A m \in Modes : task.handle[m] = "ended"
      /\ batch' = [addrs |-> <<>>, index |-> 1]
      /\ UNCHANGED <<nodes, vacant, pool, chan, nextCid, q, peer>>
  BY DEF RunTasksDone
<1>2. TaskShape' /\ task'.run = "cancel" /\ task'.handle = task.handle /\ task'.accept = task.accept
  BY <1>1, TaskFacts DEF TaskShape
<1>3. "req" \in Modes
  BY DEF Modes
<1>4. TasksInOrder'
  BY <1>1, <1>2, <1>3, TaskFacts DEF TasksInOrder
<1>5. BatchShape(batch')
  BY <1>1 DEF BatchShape
<1>6. Live(batch', nodes')
  BY <1>1, EmptyKeysAt DEF Live, In
<1>7. BatchKept'
  BY <1>2, <1>6 DEF BatchKept, Filling
<1>8. Registry' /\ Kept(nodes, nodes') /\ q'.done = q.done
  BY <1>1, SameRegistry, KeptSame
<1>9. DoneOnce'
  BY <1>8, KeptDone
<1>10. Shape'
  BY <1>1, <1>2, <1>5 DEF Inv, Shape, QueueShape
<1> QED
  BY <1>4, <1>7, <1>8, <1>9, <1>10 DEF Inv

Sessions0 == Session \cup {Unknown, Gone, Stopped}

LEMMA PeerFacts ==
  ASSUME Inv
  PROVE  /\ peer \in [0 .. IdMax - 1 -> Sessions0] /\ DOMAIN peer = 0 .. IdMax - 1
         /\ Gone \in Sessions0 /\ Stopped \in Sessions0
         /\ \A n \in DOMAIN peer : peer[n].st \in {"has", "leaving"} => peer[n] \in Session
<1>1. peer \in [0 .. IdMax - 1 -> Sessions0]
  BY DEF Inv, Shape, Sessions0
<1>2. Gone \in Sessions0 /\ Stopped \in Sessions0
  BY DEF Sessions0
<1>3. ASSUME NEW n \in DOMAIN peer, peer[n].st \in {"has", "leaving"} PROVE peer[n] \in Session
  <2>1. peer[n] \in Session \/ peer[n] = Unknown \/ peer[n] = Gone \/ peer[n] = Stopped
    BY <1>1 DEF Sessions0
  <2>2. Unknown.st = "unknown" /\ Gone.st = "gone" /\ Stopped.st = "stopped"
    BY DEF Unknown, Gone, Stopped
  <2> QED
    BY <1>3, <2>1, <2>2
<1> QED
  BY <1>1, <1>2, <1>3

LEMMA HandleEndKeeps == ASSUME Inv, NEW m \in Modes, HandleEnd(m) PROVE Inv'
<1>1. PICK n :
        /\ q' = [q EXCEPT !.out = SubSeq(@, 1, n)]
        /\ peer' = [x \in DOMAIN peer |->
             IF \E i \in n + 1 .. Len(q.out) : x \in Sessions(q.out[i]) THEN Gone ELSE peer[x]]
  BY DEF HandleEnd
<1>2. /\ task' = [task EXCEPT !.handle[m] = "ended"] /\ task.accept = "drain"
      /\ UNCHANGED <<nodes, vacant, pool, chan, nextCid, batch>>
  BY DEF HandleEnd
<1>3. /\ TaskShape' /\ task'.run = task.run /\ task'.ka = task.ka /\ task'.accept = task.accept
  <2>1. [task.handle EXCEPT ![m] = "ended"] \in [Modes -> {"run", "ended"}]
    BY TaskFacts
  <2>2. task' = [task EXCEPT !.handle = [task.handle EXCEPT ![m] = "ended"]]
    BY <1>2
  <2> QED
    BY <2>1, <2>2, TaskFacts DEF TaskShape
<1>4. TasksInOrder'
  BY <1>2, <1>3 DEF TasksInOrder
<1>5. QueueShape' /\ q'.done = q.done
  BY <1>1, QueueFacts DEF QueueShape
<1>6. peer' \in [0 .. IdMax - 1 -> Session \cup {Unknown, Gone, Stopped}]
  BY <1>1, PeerFacts DEF Sessions0
<1> QED
  BY <1>2, <1>3, <1>4, <1>5, <1>6, OnlyQueues

LEMMA MgrSendAddrKeeps == ASSUME Inv, MgrSendAddr PROVE Inv'
<1> DEFINE p == Head(q.out)
           takes(n) == n \in Sessions(p) /\ peer[n].st \in {"has", "leaving"}
<1>1. /\ peer' = [n \in DOMAIN peer |-> IF takes(n) THEN Taken(peer[n], p.t) ELSE peer[n]]
      /\ q' = [q EXCEPT !.out = Tail(@)]
      /\ UNCHANGED <<nodes, vacant, pool, chan, nextCid, batch, task>>
  BY DEF MgrSendAddr
<1>2. ASSUME NEW n \in DOMAIN peer, takes(n) PROVE Taken(peer[n], p.t) \in Sessions0
  <2>1. peer[n] \in Session /\ peer[n].seq \in Nat /\ Inc(peer[n].seq) \in Nat
    <3>1. peer[n] \in Session
      BY <1>2, PeerFacts
    <3>2. peer[n].seq \in Nat
      BY <3>1 DEF Session
    <3> QED
      BY <3>1, <3>2, IncType
  <2>2. [peer[n] EXCEPT !.seq = Inc(@)] \in Session
    BY <2>1 DEF Session
  <2>3. [peer[n] EXCEPT !.seq = Inc(@), !.st = "has", !.addr = NoAddr] \in Session
    BY <2>1 DEF Session
  <2>4. \/ Taken(peer[n], p.t) = Gone \/ Taken(peer[n], p.t) = Stopped
        \/ Taken(peer[n], p.t) = [peer[n] EXCEPT !.seq = Inc(@)]
        \/ Taken(peer[n], p.t) = [peer[n] EXCEPT !.seq = Inc(@), !.st = "has", !.addr = NoAddr]
    <3> HIDE DEF p
    <3> QED
      BY Zenon DEF Taken
  <2> QED
    BY <2>2, <2>3, <2>4, PeerFacts DEF Sessions0
<1> HIDE DEF takes, p
<1>3. peer' \in [0 .. IdMax - 1 -> Session \cup {Unknown, Gone, Stopped}]
  BY <1>1, <1>2, PeerFacts DEF Sessions0
<1>4. QueueShape' /\ q'.done = q.done
  BY <1>1, QueueFacts DEF QueueShape
<1>5. TaskShape' /\ TasksInOrder' /\ task'.run = task.run /\ task'.ka = task.ka
  BY <1>1, TaskFacts DEF TaskShape, TasksInOrder
<1> QED
  BY <1>1, <1>3, <1>4, <1>5, OnlyQueues

LEMMA MgrHandleMessageKeeps == ASSUME Inv, MgrHandleMessage PROVE Inv'
<1> DEFINE p == Head(q.mgrIn)
<1>1. UNCHANGED <<nodes, vacant, pool, chan, nextCid, batch, task, peer>> /\ q.mgrIn # <<>>
  BY DEF MgrHandleMessage
<1>2. \/ q' = [q EXCEPT !.mgrIn = <<>>, !.pipeIn[p.mode] = Append(@, p)]
      \/ q' = [q EXCEPT !.mgrIn = <<>>]
  BY DEF MgrHandleMessage
<1>3. p \in Incoming /\ p.mode \in Modes
  <2>1. p \in Incoming
    BY <1>1, QueueFacts
  <2> QED
    BY <2>1 DEF Incoming
<1> HIDE DEF p
<1>4. QueueShape' /\ q'.done = q.done
  <2>1. [q.pipeIn EXCEPT ![p.mode] = Append(@, p)] \in [Modes -> Seq(Incoming)]
    BY <1>3, QueueFacts
  <2>2. <<>> \in Seq(Incoming)
    OBVIOUS
  <2>3. CASE q' = [q EXCEPT !.mgrIn = <<>>]
    BY <2>2, <2>3, QueueFacts DEF QueueShape
  <2>4. CASE q' = [q EXCEPT !.mgrIn = <<>>, !.pipeIn[p.mode] = Append(@, p)]
    <3>1. q' = [q EXCEPT !.mgrIn = <<>>, !.pipeIn = [q.pipeIn EXCEPT ![p.mode] = Append(@, p)]]
      BY <2>4
    <3> QED
      BY <2>1, <2>2, <3>1, QueueFacts DEF QueueShape
  <2> QED
    BY <1>2, <2>3, <2>4
<1>5. TaskShape' /\ TasksInOrder' /\ task'.run = task.run /\ task'.ka = task.ka
  BY <1>1, TaskFacts DEF TaskShape, TasksInOrder
<1>6. peer' \in [0 .. IdMax - 1 -> Session \cup {Unknown, Gone, Stopped}]
  BY <1>1, PeerFacts DEF Sessions0
<1> QED
  BY <1>1, <1>4, <1>5, <1>6, OnlyQueues

LEMMA ReplyKeeps ==
  ASSUME Inv, NEW m \in Modes, NEW a \in Addrs, NEW t \in ReplyTypes,
         NEW ns \in SUBSET (DOMAIN peer), Reply(m, a, ns, t)
  PROVE  Inv'
<1> DEFINE ids == {peer[n].id : n \in ns}
           p == [mode |-> m, t |-> t, from |-> a, ids |-> ids]
           new(n) == [peer[n] EXCEPT !.addr = a, !.st = IF t = "handoffStart" THEN "leaving" ELSE "has"]
<1>1. /\ UNCHANGED <<nodes, vacant, pool, chan, nextCid, batch, task>>
      /\ q' = [q EXCEPT !.mgrIn = <<p>>]
      /\ peer' = [n \in DOMAIN peer |-> IF n \notin ns THEN peer[n]
                                        ELSE IF t \in {"end", "cancel"} THEN Gone ELSE new(n)]
  BY DEF Reply
<1>2. \A n \in ns : n \in DOMAIN peer /\ peer[n] \in Session
  BY PeerFacts DEF Reply
<1>3. p \in Incoming
  <2>1. \A n \in ns : peer[n].id \in Ids
    BY <1>2 DEF Session
  <2>2. ids \in SUBSET Ids
    BY <2>1
  <2> HIDE DEF ids
  <2> QED
    BY <2>2 DEF Incoming
<1>4. ASSUME NEW n \in ns PROVE new(n) \in Session
  <2>1. peer[n] \in Session
    BY <1>2
  <2>2. CASE t = "handoffStart"
    BY <2>1, <2>2 DEF Session
  <2>3. CASE t # "handoffStart"
    BY <2>1, <2>3 DEF Session
  <2> QED
    BY <2>2, <2>3
<1> HIDE DEF new, p
<1>5. peer' \in [0 .. IdMax - 1 -> Session \cup {Unknown, Gone, Stopped}]
  BY <1>1, <1>4, PeerFacts DEF Sessions0
<1>6. QueueShape' /\ q'.done = q.done
  <2>1. <<p>> \in Seq(Incoming)
    BY <1>3
  <2> QED
    BY <1>1, <2>1, QueueFacts DEF QueueShape
<1>7. TaskShape' /\ TasksInOrder' /\ task'.run = task.run /\ task'.ka = task.ka
  BY <1>1, TaskFacts DEF TaskShape, TasksInOrder
<1> QED
  BY <1>1, <1>5, <1>6, <1>7, OnlyQueues

\* A message is for the connection that has its id, and no connection has the
\* channel of another.
LEMMA HandleRecvKeeps == ASSUME Inv, NEW m \in Modes, HandleRecv(m) PROVE Inv'
<1> DEFINE p == Head(q.pipeIn[m])
           mine(c) == {id \in p.ids : CheckId(id) /\ nodes[id.key].ch = c}
<1>1. /\ chan' = [c \in DOMAIN chan |->
           IF mine(c) = {} THEN chan[c] ELSE TrySend(c, CHOOSE id \in mine(c) : TRUE, p)]
      /\ q' = [q EXCEPT !.pipeIn[m] = Tail(@)] /\ q.pipeIn[m] # <<>>
      /\ UNCHANGED <<nodes, vacant, pool, nextCid, batch, task, peer>>
  BY DEF HandleRecv
<1>2. /\ nodes \in Nodes /\ chan \in [Chans -> Seq(Message)] /\ pool \in Seq(Chans)
      /\ \A k, j \in Keys : nodes[k] # Free /\ nodes[j] # Free /\ nodes[k].ch = nodes[j].ch => k = j
      /\ \A k \in Keys : nodes[k] # Free => ~In(pool, nodes[k].ch)
      /\ IdsOwn /\ ChannelIsOwn
  BY DEF Inv, Shape, Registry, ChannelsApart
<1>3. p \in Incoming /\ p.t \in ReplyTypes /\ p.from \in Addrs /\ p.ids \in SUBSET Ids
  <2>1. q.pipeIn[m] \in Seq(Incoming)
    BY QueueFacts
  <2>2. p \in Incoming
    BY <1>1, <2>1
  <2> QED
    BY <2>2 DEF Incoming
<1> HIDE DEF p
<1>4. ASSUME NEW c \in Chans
      PROVE  \/ chan'[c] = chan[c]
             \/ \E id \in Ids : /\ id.key \in Keys /\ Running(id.key) /\ nodes[id.key].ch = c
                                /\ nodes[id.key].id = id
                                /\ chan'[c] = <<[t |-> p.t, from |-> p.from, id |-> id]>>
  <2>1. CASE mine(c) = {}
    BY <1>1, <1>2, <2>1
  <2>2. CASE mine(c) # {}
    <3>1. PICK id \in mine(c) : chan'[c] = TrySend(c, id, p)
      <4> DEFINE i == CHOOSE id \in mine(c) : TRUE
      <4>1. i \in mine(c)
        BY <2>2
      <4>2. chan'[c] = TrySend(c, i, p)
        BY <1>1, <1>2, <2>2
      <4> QED
        BY <4>1, <4>2
    <3>2. id \in Ids /\ CheckId(id)
      BY <1>3
    <3>3. id.key \in Keys /\ nodes[id.key].id = id
      BY <3>2 DEF Ids, CheckId
    <3> QED
      BY <3>1, <3>2, <3>3 DEF TrySend
  <2> QED
    BY <2>1, <2>2
<1> HIDE DEF mine
<1>5. ASSUME NEW id \in Ids PROVE [t |-> p.t, from |-> p.from, id |-> id] \in Message
  BY <1>3 DEF Message
<1>6. chan' \in [Chans -> Seq(Message)]
  <2>1. ASSUME NEW c \in Chans PROVE chan'[c] \in Seq(Message)
    <3>1. \A x \in Message : <<x>> \in Seq(Message)
      OBVIOUS
    <3>2. \A id \in Ids : <<[t |-> p.t, from |-> p.from, id |-> id]>> \in Seq(Message)
      BY <1>5, <3>1
    <3> QED
      BY <1>2, <1>4, <3>2
  <2>2. chan' = [c \in Chans |-> chan'[c]]
    BY <1>1, <1>2
  <2> QED
    BY <2>1, <2>2
<1>7. ChannelIsOwn'
  <2>1. SUFFICES ASSUME NEW k \in Keys, Running(k), NEW i \in DOMAIN chan'[nodes[k].ch]
                 PROVE  /\ chan'[nodes[k].ch][i].id.key = k
                        /\ chan'[nodes[k].ch][i].id.n >= nodes[k].first
    <3>1. SUFFICES ASSUME NEW k \in Keys, Running(k)', NEW i \in DOMAIN chan'[nodes'[k].ch]
                   PROVE  chan'[nodes'[k].ch][i].id.key = k /\ chan'[nodes'[k].ch][i].id.n >= nodes'[k].first
      BY DEF ChannelIsOwn
    <3>2. nodes' = nodes /\ Running(k)
      BY <1>1, <3>1 DEF Running
    <3> QED
      BY <2>1, <3>1, <3>2
  <2>2. nodes[k] # Free /\ nodes[k].ch \in Chans
    <3>1. nodes[k] # Free /\ nodes[k] \in Item
      BY <1>2, <2>1, NodeType DEF Running
    <3> QED
      BY <3>1 DEF Item
  <2>3. CASE chan'[nodes[k].ch] = chan[nodes[k].ch]
    BY <1>2, <2>1, <2>3 DEF ChannelIsOwn
  <2>4. CASE chan'[nodes[k].ch] # chan[nodes[k].ch]
    <3>1. PICK id \in Ids : /\ id.key \in Keys /\ Running(id.key) /\ nodes[id.key].ch = nodes[k].ch
                            /\ nodes[id.key].id = id
                            /\ chan'[nodes[k].ch] = <<[t |-> p.t, from |-> p.from, id |-> id]>>
      BY <1>4, <2>2, <2>4
    <3>2. id.key = k
      BY <1>2, <2>2, <3>1 DEF Running
    <3>3. id.n >= nodes[k].first
      <4>1. nodes[k].first <= nodes[k].id.n
        BY <1>2, <2>2 DEF IdsOwn
      <4>2. nodes[k].first \in Nat /\ id.n \in Nat
        <5>1. nodes[k] \in Item
          BY <1>2, <2>2, NodeType
        <5> QED
          BY <5>1 DEF Item, Ids
      <4> QED
        BY <3>1, <3>2, <4>1, <4>2
    <3>4. chan'[nodes[k].ch][i] = [t |-> p.t, from |-> p.from, id |-> id]
      BY <2>1, <3>1
    <3> QED
      BY <3>2, <3>3, <3>4
  <2> QED
    BY <2>3, <2>4
<1>8. \A c \in Chans : chan[c] = <<>> /\ In(pool, c) => chan'[c] = <<>>
  <2>1. SUFFICES ASSUME NEW c \in Chans, chan[c] = <<>>, In(pool, c), chan'[c] # chan[c] PROVE FALSE
    OBVIOUS
  <2>2. \E id \in Ids : id.key \in Keys /\ Running(id.key) /\ nodes[id.key].ch = c
    BY <1>4, <2>1
  <2> QED
    BY <1>2, <2>1, <2>2 DEF Running
<1>9. Kept(nodes, nodes') /\ SameIds(nodes, nodes') /\ SameBatchKeys(nodes, nodes')
  BY <1>1, KeptSame
<1>10. Registry'
  BY <1>1, <1>7, <1>8, <1>9, KeptNodes, KeptIds DEF Registry
<1>11. QueueShape' /\ q'.done = q.done
  <2>1. [q.pipeIn EXCEPT ![m] = Tail(@)] \in [Modes -> Seq(Incoming)]
    BY <1>1, QueueFacts
  <2>2. q' = [q EXCEPT !.pipeIn = [q.pipeIn EXCEPT ![m] = Tail(@)]]
    BY <1>1
  <2> QED
    BY <2>1, <2>2, QueueFacts DEF QueueShape
<1>12. DoneOnce'
  BY <1>9, <1>11, KeptDone
<1>13. TaskShape' /\ TasksInOrder' /\ (Filling' <=> Filling) /\ task' = task
  BY <1>1, TaskFacts DEF TaskShape, TasksInOrder, Filling
<1>14. BatchKept'
  BY <1>1, <1>9, <1>13, KeptBatch
<1>15. Shape'
  BY <1>1, <1>6, <1>11, <1>13 DEF Inv, Shape
<1> QED
  BY <1>10, <1>12, <1>13, <1>14, <1>15 DEF Inv

-----------------------------------------------------------------------------
(* Steps of a connection                                                   *)

\* The connection with key k becomes y.
LEMMA NodeChanged ==
  ASSUME nodes \in Nodes, NEW k \in Keys, nodes[k] # Free, NEW y \in Item,
         y.mode = nodes[k].mode, y.first = nodes[k].first, y.ch = nodes[k].ch,
         nodes[k].phase = "ended" => y.phase = "ended",
         nodes' = [nodes EXCEPT ![k] = y]
  PROVE  /\ Kept(nodes, nodes') /\ nodes'[k] = y /\ \A j \in Keys : j # k => nodes'[j] = nodes[j]
         /\ y.id = nodes[k].id => SameIds(nodes, nodes')
         /\ y.bkey = nodes[k].bkey => SameBatchKeys(nodes, nodes')
<1>1. /\ nodes'[k] = y /\ \A j \in Keys : j # k => nodes'[j] = nodes[j]
      /\ nodes' \in Nodes
  BY DEF Nodes
<1>2. y # Free
  BY NodeType
<1>3. Kept(nodes, nodes')
  BY <1>1, <1>2 DEF Kept
<1> QED
  BY <1>1, <1>3 DEF SameIds, SameBatchKeys

\* Channels lose their first message, or nothing.
ChannelsKept ==
  /\ chan' \in [Chans -> Seq(Message)]
  /\ \A c \in Chans : chan'[c] = chan[c] \/ (chan[c] # <<>> /\ chan'[c] = Tail(chan[c]))

LEMMA ChannelsSame == ASSUME Inv, chan' = chan PROVE ChannelsKept
BY DEF Inv, Shape, ChannelsKept

LEMMA ChannelRead ==
  ASSUME Inv, NEW d \in Chans, chan[d] # <<>>, chan' = [chan EXCEPT ![d] = Tail(@)]
  PROVE  ChannelsKept
<1>1. chan \in [Chans -> Seq(Message)]
  BY DEF Inv, Shape
<1>2. Tail(chan[d]) \in Seq(Message)
  <2>1. chan[d] \in Seq(Message)
    BY <1>1
  <2> QED
    BY <2>1
<1>3. chan' \in [Chans -> Seq(Message)]
  BY <1>1, <1>2
<1>4. chan'[d] = Tail(chan[d]) /\ \A c \in Chans : c # d => chan'[c] = chan[c]
  BY <1>1
<1> QED
  BY <1>3, <1>4 DEF ChannelsKept

\* The connection is not added to those that are done, unless it becomes y.
DoneKept(k, y) ==
  /\ QueueShape'
  /\ \/ q'.done = q.done
     \/ y.phase = "ended" /\ q'.done = [q.done EXCEPT ![nodes[k].mode] = Append(@, k)]

\* A step of a running connection that keeps its id and its place in the batch.
LEMMA ConnStep ==
  ASSUME Inv, NEW k \in Keys, Running(k), NEW y \in Item,
         y.mode = nodes[k].mode, y.first = nodes[k].first, y.ch = nodes[k].ch,
         y.id = nodes[k].id, y.bkey = nodes[k].bkey,
         nodes' = [nodes EXCEPT ![k] = y],
         UNCHANGED <<vacant, pool, nextCid, batch, task>>,
         ChannelsKept, DoneKept(k, y),
         peer' \in [0 .. IdMax - 1 -> Sessions0]
  PROVE  Inv'
<1>1. nodes \in Nodes /\ nodes[k] # Free /\ nodes[k].phase # "ended" /\ nodes[k] \in Item
  <2>1. nodes \in Nodes /\ nodes[k] # Free /\ nodes[k].phase # "ended"
    BY DEF Inv, Shape, Running
  <2> QED
    BY <2>1, NodeType
<1>2. /\ Kept(nodes, nodes') /\ SameIds(nodes, nodes') /\ SameBatchKeys(nodes, nodes')
      /\ nodes'[k] = y
  BY <1>1, NodeChanged
<1>3. y.ch \in Chans /\ ~In(pool, y.ch) /\ chan \in [Chans -> Seq(Message)]
  <2>1. y.ch \in Chans
    BY DEF Item
  <2> QED
    BY <1>1, <2>1 DEF Inv, Registry, ChannelsApart, Shape
<1>4. \A c \in Chans : chan'[c] = chan[c] \/ (chan[c] # <<>> /\ chan'[c] = Tail(chan[c]))
  BY DEF ChannelsKept
<1>5. \A c \in Chans : chan[c] = <<>> /\ In(pool, c) => chan'[c] = <<>>
  BY <1>4
<1>6. chan' \in [Chans -> Seq(Message)] /\ QueueShape'
  BY DEF ChannelsKept, DoneKept
<1>7. Registry'
  BY <1>2, <1>4, <1>5, KeptNodes, KeptIds, KeptChannels DEF Registry
<1>8. DoneOnce'
  BY <1>2, KeptDone, AddedDone DEF DoneKept
<1>9. TaskShape' /\ TasksInOrder' /\ (Filling' <=> Filling) /\ task' = task
  BY TaskFacts DEF TaskShape, TasksInOrder, Filling
<1>10. BatchKept'
  BY <1>2, <1>9, KeptBatch
<1>11. nodes' \in Nodes
  BY <1>2 DEF Kept
<1>12. Shape'
  BY <1>6, <1>9, <1>11 DEF Inv, Shape, Sessions0
<1> QED
  BY <1>7, <1>8, <1>9, <1>10, <1>12 DEF Inv

LEMMA ConnFacts ==
  ASSUME Inv, NEW k \in Keys, Running(k)
  PROVE  /\ nodes \in Nodes /\ nodes[k] \in Item /\ nodes[k].seq \in Nat /\ Inc(nodes[k].seq) \in Nat
         /\ nodes[k].id \in Ids /\ nodes[k].id.n \in Nat /\ nodes[k].mode \in Modes
         /\ nodes[k].ch \in Chans /\ nodes[k].addr \in Addrs \cup {NoAddr}
         /\ nodes[k].bkey \in Nat
<1>1. nodes \in Nodes /\ nodes[k] \in Item
  <2>1. nodes \in Nodes /\ nodes[k] # Free
    BY DEF Inv, Shape, Running
  <2> QED
    BY <2>1, NodeType
<1>2. /\ nodes[k].seq \in Nat /\ nodes[k].id \in Ids /\ nodes[k].mode \in Modes
      /\ nodes[k].ch \in Chans /\ nodes[k].addr \in Addrs \cup {NoAddr} /\ nodes[k].bkey \in Nat
  BY <1>1 DEF Item
<1>3. nodes[k].id.n \in Nat
  BY <1>2 DEF Ids
<1> QED
  BY <1>1, <1>2, <1>3, IncType

LEMMA DoneType ==
  ASSUME Inv, NEW k \in Keys, Running(k)
  PROVE  [q.done EXCEPT ![nodes[k].mode] = Append(@, k)] \in [Modes -> Seq(Keys)]
BY QueueFacts, ConnFacts

LEMMA ConnRequestKeeps == ASSUME Inv, NEW k \in Keys, ConnRequest(k) PROVE Inv'
<1> DEFINE y == [nodes[k] EXCEPT !.phase = "wait", !.seq = Inc(@)]
           s == [st |-> "has", id |-> nodes[k].id, mode |-> nodes[k].mode, addr |-> NoAddr,
                 seq |-> Inc(0)]
<1>1. /\ Running(k)
      /\ nodes' = [nodes EXCEPT ![k].phase = "wait", ![k].seq = Inc(@)]
      /\ peer' = [peer EXCEPT ![nodes[k].id.n] = s]
      /\ UNCHANGED <<vacant, chan, pool, nextCid, batch, q, task>>
  BY DEF ConnRequest
<1>2. nodes' = [nodes EXCEPT ![k] = y]
  BY <1>1, ConnFacts DEF Nodes
<1>3. /\ y \in Item /\ y.mode = nodes[k].mode /\ y.first = nodes[k].first /\ y.ch = nodes[k].ch
      /\ y.id = nodes[k].id /\ y.bkey = nodes[k].bkey
  BY <1>1, ConnFacts DEF Item, Phases
<1>4. s \in Session
  BY <1>1, ConnFacts, IncType DEF Session
<1> HIDE DEF y, s
<1>5. peer' \in [0 .. IdMax - 1 -> Sessions0]
  BY <1>1, <1>4, PeerFacts DEF Sessions0
<1>6. DoneKept(k, y) /\ ChannelsKept
  BY <1>1, QueueFacts, ChannelsSame DEF QueueShape, DoneKept
<1> QED
  BY <1>1, <1>2, <1>3, <1>5, <1>6, ConnStep

\* A packet of the connection goes out.
LEMMA OutKeeps ==
  ASSUME Inv, NEW p, q' = [q EXCEPT !.out = Append(@, p)]
  PROVE  QueueShape' /\ q'.done = q.done
BY QueueFacts DEF QueueShape

LEMMA PeerSame == ASSUME Inv, peer' = peer PROVE peer' \in [0 .. IdMax - 1 -> Sessions0]
BY PeerFacts

LEMMA ConnSendKeeps == ASSUME Inv, NEW k \in Keys, ConnSend(k) PROVE Inv'
<1> DEFINE y == [nodes[k] EXCEPT !.seq = Inc(@)]
<1>1. /\ Running(k) /\ q' = [q EXCEPT !.out = Append(@, Packet(k, "data"))]
      /\ nodes' = [nodes EXCEPT ![k].seq = Inc(@)]
      /\ UNCHANGED <<vacant, chan, pool, nextCid, batch, task, peer>>
  BY DEF ConnSend
<1>2. nodes' = [nodes EXCEPT ![k] = y]
  BY <1>1, ConnFacts DEF Nodes
<1>3. /\ y \in Item /\ y.mode = nodes[k].mode /\ y.first = nodes[k].first /\ y.ch = nodes[k].ch
      /\ y.id = nodes[k].id /\ y.bkey = nodes[k].bkey
  BY <1>1, ConnFacts DEF Item
<1> HIDE DEF y
<1>4. DoneKept(k, y) /\ ChannelsKept
  BY <1>1, OutKeeps, ChannelsSame DEF DoneKept
<1>5. peer' \in [0 .. IdMax - 1 -> Sessions0]
  BY <1>1, PeerSame
<1> QED
  BY <1>1, <1>2, <1>3, <1>4, <1>5, ConnStep

LEMMA ConnProceedKeeps == ASSUME Inv, NEW k \in Keys, ConnProceed(k) PROVE Inv'
<1> DEFINE y == [nodes[k] EXCEPT !.seq = Inc(@), !.addr = NoAddr, !.phase = "paused"]
<1>1. /\ Running(k) /\ q' = [q EXCEPT !.out = Append(@, Packet(k, "handoffProceed"))]
      /\ nodes' = [nodes EXCEPT ![k].seq = Inc(@), ![k].addr = NoAddr, ![k].phase = "paused"]
      /\ UNCHANGED <<vacant, chan, pool, nextCid, batch, task, peer>>
  BY DEF ConnProceed
<1>2. nodes' = [nodes EXCEPT ![k] = y]
  BY <1>1, ConnFacts DEF Nodes
<1>3. /\ y \in Item /\ y.mode = nodes[k].mode /\ y.first = nodes[k].first /\ y.ch = nodes[k].ch
      /\ y.id = nodes[k].id /\ y.bkey = nodes[k].bkey
  BY <1>1, ConnFacts DEF Item, Phases
<1> HIDE DEF y
<1>4. DoneKept(k, y) /\ ChannelsKept
  BY <1>1, OutKeeps, ChannelsSame DEF DoneKept
<1>5. peer' \in [0 .. IdMax - 1 -> Sessions0]
  BY <1>1, PeerSame
<1> QED
  BY <1>1, <1>2, <1>3, <1>4, <1>5, ConnStep

LEMMA EndedItem ==
  ASSUME Inv, NEW k \in Keys, Running(k)
  PROVE  /\ Ended(k) \in Item /\ Ended(k).mode = nodes[k].mode /\ Ended(k).first = nodes[k].first
         /\ Ended(k).ch = nodes[k].ch /\ Ended(k).id = nodes[k].id
         /\ Ended(k).bkey = nodes[k].bkey /\ Ended(k).phase = "ended"
         /\ Ended(k).seq = nodes[k].seq
BY ConnFacts DEF Item, Phases, Ended

LEMMA DoneQueue ==
  ASSUME Inv, NEW k \in Keys, Running(k), NEW o,
         q' = [q EXCEPT !.out = o, !.done = [q.done EXCEPT ![nodes[k].mode] = Append(@, k)]]
  PROVE  QueueShape' /\ q'.done = [q.done EXCEPT ![nodes[k].mode] = Append(@, k)]
<1> DEFINE d == [q.done EXCEPT ![nodes[k].mode] = Append(@, k)]
<1>1. d \in [Modes -> Seq(Keys)]
  BY DoneType
<1> HIDE DEF d
<1>2. q' = [q EXCEPT !.out = o, !.done = d]
  BY DEF d
<1>3. QueueShape' /\ q'.done = d
  BY <1>1, <1>2, QueueFacts DEF QueueShape
<1> QED
  BY <1>3 DEF d

LEMMA DoneSame ==
  ASSUME Inv, NEW k \in Keys, Running(k), q' = Done(k, q)
  PROVE  QueueShape' /\ q'.done = [q.done EXCEPT ![nodes[k].mode] = Append(@, k)]
<1>1. q' = [q EXCEPT !.out = q.out, !.done = [q.done EXCEPT ![nodes[k].mode] = Append(@, k)]]
  BY QueueFacts DEF Done
<1> QED
  BY <1>1, DoneQueue

LEMMA ConnEnds ==
  ASSUME Inv, NEW k \in Keys, Running(k), nodes' = [nodes EXCEPT ![k] = Ended(k)], q' = Done(k, q),
         UNCHANGED <<vacant, pool, nextCid, batch, task, peer>>, ChannelsKept
  PROVE  Inv'
<1>1. DoneKept(k, Ended(k))
  BY EndedItem, DoneSame DEF DoneKept
<1> QED
  BY <1>1, EndedItem, PeerSame, ConnStep

LEMMA ConnStopKeeps == ASSUME Inv, NEW k \in Keys, ConnStop(k) PROVE Inv'
<1>1. /\ Running(k) /\ nodes' = [nodes EXCEPT ![k] = Ended(k)] /\ q' = Done(k, q)
      /\ UNCHANGED <<vacant, pool, nextCid, batch, task, peer>> /\ chan' = chan
  BY DEF ConnStop
<1> QED
  BY <1>1, ChannelsSame, ConnEnds

LEMMA ConnClosedKeeps == ASSUME Inv, NEW k \in Keys, ConnClosed(k) PROVE Inv'
<1> DEFINE cancel == nodes[k].addr # NoAddr
           v == IF cancel THEN Inc(nodes[k].seq) ELSE nodes[k].seq
           y == [Ended(k) EXCEPT !.seq = v]
           sent == cancel /\ OutRoom
           o == IF sent THEN Append(q.out, Packet(k, "cancel")) ELSE q.out
<1>1. /\ Running(k)
      /\ nodes' = [nodes EXCEPT ![k] = [Ended(k) EXCEPT !.seq = IF cancel THEN Inc(@) ELSE @]]
      /\ q' = Done(k, IF cancel /\ OutRoom THEN [q EXCEPT !.out = Append(@, Packet(k, "cancel"))] ELSE q)
      /\ peer' = IF cancel /\ ~OutRoom THEN [peer EXCEPT ![nodes[k].id.n] = Gone] ELSE peer
      /\ UNCHANGED <<vacant, chan, pool, nextCid, batch, task>>
  BY DEF ConnClosed
<1>2. nodes' = [nodes EXCEPT ![k] = y] /\ v \in Nat
  BY <1>1, EndedItem, ConnFacts
<1> HIDE DEF v
<1>3. /\ y \in Item /\ y.mode = nodes[k].mode /\ y.first = nodes[k].first /\ y.ch = nodes[k].ch
      /\ y.id = nodes[k].id /\ y.bkey = nodes[k].bkey /\ y.phase = "ended"
  <2>1. y \in Item
    BY <1>1, <1>2, EndedItem DEF Item
  <2> QED
    BY <1>1, <1>2, <2>1, EndedItem DEF Item
<1> HIDE DEF y
<1>4. q' = [q EXCEPT !.out = o, !.done = [q.done EXCEPT ![nodes[k].mode] = Append(@, k)]]
  <2>1. CASE sent
    BY <1>1, <2>1, QueueFacts DEF Done
  <2>2. CASE ~sent
    BY <1>1, <2>2, QueueFacts DEF Done
  <2> QED
    BY <2>1, <2>2
<1> HIDE DEF o, sent
<1>5. DoneKept(k, y) /\ ChannelsKept
  BY <1>1, <1>3, <1>4, DoneQueue, ChannelsSame DEF DoneKept
<1>6. peer' \in [0 .. IdMax - 1 -> Sessions0]
  BY <1>1, PeerFacts
<1> QED
  BY <1>1, <1>2, <1>3, <1>5, <1>6, ConnStep

LEMMA ConnMsgKeeps == ASSUME Inv, NEW k \in Keys, ConnMsg(k) PROVE Inv'
<1> DEFINE p == Head(chan[nodes[k].ch])
           from == [nodes[k] EXCEPT !.addr = p.from]
           ph == CASE p.t = "end" -> "finish" [] p.t = "handoffStart" -> "flush"
                   [] OTHER -> IF nodes[k].phase = "finish" THEN nodes[k].phase ELSE "active"
           y == [from EXCEPT !.phase = ph]
<1>1. /\ Running(k) /\ chan[nodes[k].ch] # <<>>
      /\ chan' = [chan EXCEPT ![nodes[k].ch] = Tail(@)]
      /\ UNCHANGED <<vacant, pool, nextCid, batch, task, peer>>
  BY DEF ConnMsg
<1>2. ChannelsKept
  BY <1>1, ConnFacts, ChannelRead
<1>3. \/ nodes' = [nodes EXCEPT ![k] = Ended(k)] /\ q' = Done(k, q)
      \/ nodes' = nodes /\ q' = q
      \/ nodes' = [nodes EXCEPT ![k] = [from EXCEPT !.phase =
                      CASE p.t = "end" -> "finish" [] p.t = "handoffStart" -> "flush"
                        [] OTHER -> IF @ = "finish" THEN @ ELSE "active"]] /\ q' = q
  BY Zenon DEF ConnMsg
<1>4. CASE nodes' = [nodes EXCEPT ![k] = Ended(k)] /\ q' = Done(k, q)
  BY <1>1, <1>2, <1>4, ConnEnds
<1>5. peer' \in [0 .. IdMax - 1 -> Sessions0]
  BY <1>1, PeerSame
<1>6. CASE nodes' = nodes /\ q' = q
  <2>1. nodes' = [nodes EXCEPT ![k] = nodes[k]]
    BY <1>1, <1>6, ConnFacts DEF Nodes
  <2>2. DoneKept(k, nodes[k])
    BY <1>6, QueueFacts DEF DoneKept, QueueShape
  <2> QED
    BY <1>1, <1>2, <1>5, <2>1, <2>2, ConnFacts, ConnStep
<1>7. CASE nodes' = [nodes EXCEPT ![k] = [from EXCEPT !.phase =
                      CASE p.t = "end" -> "finish" [] p.t = "handoffStart" -> "flush"
                        [] OTHER -> IF @ = "finish" THEN @ ELSE "active"]] /\ q' = q
  <2>1. p.from \in Addrs
    <3>1. chan[nodes[k].ch] \in Seq(Message)
      BY <1>1, ConnFacts DEF Inv, Shape
    <3>2. p \in Message
      BY <1>1, <3>1
    <3> QED
      BY <3>2 DEF Message
  <2> HIDE DEF p
  <2>2. /\ from \in Item /\ from.mode = nodes[k].mode /\ from.first = nodes[k].first
        /\ from.ch = nodes[k].ch /\ from.id = nodes[k].id /\ from.bkey = nodes[k].bkey
        /\ from.phase = nodes[k].phase
    BY <1>1, <2>1, ConnFacts DEF Item
  <2> HIDE DEF from
  <2>3. nodes' = [nodes EXCEPT ![k] = [from EXCEPT !.phase = ph]]
    BY <1>7, <2>2
  <2>4. ph \in Phases
    <3>1. ph \in {"finish", "flush", "active"}
      BY Zenon
    <3> QED
      BY <3>1 DEF Phases
  <2> HIDE DEF ph
  <2>5. /\ y \in Item /\ y.mode = from.mode /\ y.first = from.first /\ y.ch = from.ch
        /\ y.id = from.id /\ y.bkey = from.bkey
    BY <2>2, <2>4 DEF Item
  <2>6. nodes' = [nodes EXCEPT ![k] = y]
    BY <2>3
  <2> HIDE DEF y
  <2>7. DoneKept(k, y)
    BY <1>7, QueueFacts DEF DoneKept, QueueShape
  <2> QED
    BY <1>1, <1>2, <1>5, <2>2, <2>5, <2>6, <2>7, ConnStep
<1> QED
  BY <1>3, <1>4, <1>6, <1>7

\* The key of a connection leaves the batch.
LEMMA RemoveOwned ==
  ASSUME NEW b, BatchShape(b), NEW n \in Nodes, NEW k \in Keys, n[k] # Free,
         NEW r, r = BatchRemove(b, n[k].bkey, k)
  PROVE  /\ BatchShape(r)
         /\ \A i \in Nat, j \in Keys : In(KeysAt(r, i), j) => In(KeysAt(b, i), j)
         /\ Owned(b, n) => /\ \A i \in Nat : Inj(KeysAt(r, i))
                           /\ \A i \in Nat \ {0}, j \in Keys :
                                In(KeysAt(r, i), j) <=> j # k /\ n[j] # Free /\ n[j].bkey = i
<1>1. n[k].bkey \in Nat
  <2>1. n[k] \in Item
    BY NodeType
  <2> QED
    BY <2>1 DEF Item
<1> DEFINE pos == n[k].bkey
<1>2. /\ BatchShape(r)
      /\ \A i \in Nat : KeysAt(r, i) =
           IF i = pos /\ i # 0 THEN RemoveFirst(KeysAt(b, i), k) ELSE KeysAt(b, i)
  BY <1>1, BatchRemoveGives
<1>3. ASSUME NEW i \in Nat
      PROVE  LET s == KeysAt(b, i)
                 x == RemoveFirst(s, k)
             IN /\ \A y : In(x, y) => In(s, y)
                /\ Inj(s) => Inj(x) /\ \A y : In(x, y) <=> In(s, y) /\ y # k
  <2>1. KeysAt(b, i) \in Seq(Keys)
    BY KeysAtType
  <2> QED
    BY <2>1, RemoveFirstSeq
<1>4. \A i \in Nat, j \in Keys : In(KeysAt(r, i), j) => In(KeysAt(b, i), j)
  BY <1>2, <1>3
<1>5. ASSUME Owned(b, n), NEW i \in Nat PROVE Inj(KeysAt(r, i))
  BY <1>2, <1>3, <1>5 DEF Owned
<1>6. ASSUME Owned(b, n), NEW i \in Nat \ {0}, NEW j \in Keys
      PROVE  In(KeysAt(r, i), j) <=> j # k /\ n[j] # Free /\ n[j].bkey = i
  <2>0. /\ Inj(KeysAt(b, i))
        /\ In(KeysAt(b, i), j) <=> n[j] # Free /\ n[j].bkey = i
    BY <1>6 DEF Owned
  <2>1. CASE i = pos
    <3>1. KeysAt(r, i) = RemoveFirst(KeysAt(b, i), k)
      BY <1>2, <2>1
    <3> QED
      BY <1>3, <2>0, <3>1
  <2>2. CASE i # pos
    <3>1. KeysAt(r, i) = KeysAt(b, i)
      BY <1>2, <2>2
    <3> QED
      BY <2>0, <2>2, <3>1
  <2> QED
    BY <2>1, <2>2
<1> QED
  BY <1>2, <1>4, <1>5, <1>6

LEMMA RegenKeeps ==
  ASSUME Inv, NEW k \in Keys, Running(k), RegenId(k),
         UNCHANGED <<q, vacant, chan, pool, task, peer>>
  PROVE  Inv'
<1> DEFINE y == [nodes[k] EXCEPT !.phase = "idle", !.id = GenId(k), !.addr = NoAddr, !.seq = 0,
                                 !.bkey = 0]
<1>1. /\ nodes' = [nodes EXCEPT ![k] = y] /\ nextCid' = nextCid + 1
      /\ batch' = BatchRemove(batch, nodes[k].bkey, k)
  BY ConnFacts DEF RegenId, Nodes
<1>2. nextCid \in Nat /\ GenId(k) \in Ids /\ GenId(k).key = k /\ GenId(k).n = nextCid
  BY DEF Inv, Shape, GenId, Ids
<1>3. /\ y \in Item /\ y.mode = nodes[k].mode /\ y.first = nodes[k].first /\ y.ch = nodes[k].ch
      /\ y.id = GenId(k) /\ y.bkey = 0 /\ y.phase = "idle"
  <2> DEFINE x == [nodes[k] EXCEPT !.phase = "idle", !.id = GenId(k), !.addr = NoAddr]
  <2>1. /\ x \in Item /\ x.mode = nodes[k].mode /\ x.first = nodes[k].first /\ x.ch = nodes[k].ch
        /\ x.id = GenId(k) /\ x.phase = "idle"
    BY <1>2, ConnFacts DEF Item, Phases
  <2>2. y = [x EXCEPT !.seq = 0, !.bkey = 0]
    BY ConnFacts DEF Item
  <2> HIDE DEF x, y
  <2> QED
    BY <2>1, <2>2 DEF Item
<1> HIDE DEF y
<1>4. nodes \in Nodes /\ nodes[k] # Free /\ nodes[k].phase # "ended"
  BY DEF Running, Inv, Shape
<1>5. Kept(nodes, nodes') /\ nodes'[k] = y /\ \A j \in Keys : j # k => nodes'[j] = nodes[j]
  BY <1>1, <1>3, <1>4, NodeChanged
<1>6. VacantKeys' /\ ChannelsApart' /\ Admitted' /\ ChannelIsOwn'
  <2>1. ChannelsKept
    BY ChannelsSame
  <2> QED
    BY <1>5, <2>1, KeptNodes, KeptChannels DEF ChannelsKept
<1>7. IdsOwn'
  <2>1. SUFFICES ASSUME NEW j \in Keys, nodes'[j] # Free
                 PROVE  /\ nodes'[j].id.key = j /\ nodes'[j].first <= nodes'[j].id.n
                        /\ nodes'[j].id.n < nextCid'
    BY DEF IdsOwn
  <2>2. /\ nodes[j] # Free /\ nodes[j].id.key = j /\ nodes[j].first <= nodes[j].id.n
        /\ nodes[j].id.n < nextCid
    BY <1>5, <2>1 DEF Kept, Inv, Registry, IdsOwn
  <2>3. nodes[j].first \in Nat /\ nodes[j].id.n \in Nat
    <3>1. nodes[j] \in Item
      BY <1>4, <2>2, NodeType
    <3> QED
      BY <3>1 DEF Item, Ids
  <2>4. CASE j = k
    BY <1>1, <1>2, <1>3, <1>5, <2>2, <2>3, <2>4
  <2>5. CASE j # k
    BY <1>1, <1>2, <1>5, <2>2, <2>3, <2>5
  <2> QED
    BY <2>4, <2>5
<1>8. DoneOnce'
  BY <1>5, KeptDone
<1>9. TaskShape' /\ TasksInOrder' /\ (Filling' <=> Filling) /\ task' = task /\ QueueShape'
  BY TaskFacts, QueueFacts DEF TaskShape, TasksInOrder, Filling, QueueShape
<1>10. /\ BatchShape(batch')
       /\ \A i \in Nat, j \in Keys : In(KeysAt(batch', i), j) => In(KeysAt(batch, i), j)
       /\ Owned(batch, nodes) => /\ \A i \in Nat : Inj(KeysAt(batch', i))
                                 /\ \A i \in Nat \ {0}, j \in Keys :
                                      In(KeysAt(batch', i), j) <=> j # k /\ nodes[j] # Free /\ nodes[j].bkey = i
  BY <1>1, <1>4, RemoveOwned DEF Inv, Shape
<1>11. Live(batch', nodes')
  BY <1>5, <1>10 DEF Inv, BatchKept, Live, Kept
<1>12. ASSUME Filling PROVE Owned(batch', nodes')
  <2>1. Owned(batch, nodes)
    BY <1>12 DEF Inv, BatchKept
  <2> QED
    BY <1>3, <1>5, <1>10, <2>1 DEF Owned
<1>13. ASSUME Filling, task.ka = "wait" PROVE BatchIsEmpty(batch')
  <2>1. BatchIsEmpty(batch) /\ BatchShape(batch)
    BY <1>13 DEF Inv, BatchKept, Shape
  <2>2. \A i \in Nat, j \in Keys : ~In(KeysAt(batch, i), j)
    BY <2>1, KeysAtType DEF In
  <2> QED
    BY <1>10, <2>2, EmptyBatch
<1>14. BatchKept'
  BY <1>9, <1>11, <1>12, <1>13 DEF BatchKept
<1>15. Shape'
  BY <1>1, <1>2, <1>5, <1>9, <1>10 DEF Inv, Shape, Kept
<1> QED
  BY <1>6, <1>7, <1>8, <1>9, <1>14, <1>15 DEF Inv, Registry

LEMMA ConnFinishKeeps == ASSUME Inv, NEW k \in Keys, ConnFinish(k) PROVE Inv'
<1>1. Running(k) /\ UNCHANGED <<vacant, chan, pool, task, peer>>
  BY DEF ConnFinish
<1>2. \/ RegenId(k) /\ q' = q
      \/ nodes' = [nodes EXCEPT ![k] = Ended(k)] /\ q' = Done(k, q) /\ UNCHANGED <<batch, nextCid>>
  BY DEF ConnFinish
<1>3. CASE RegenId(k) /\ q' = q
  BY <1>1, <1>3, RegenKeeps
<1>4. CASE nodes' = [nodes EXCEPT ![k] = Ended(k)] /\ q' = Done(k, q) /\ UNCHANGED <<batch, nextCid>>
  BY <1>1, <1>4, ChannelsSame, ConnEnds
<1> QED
  BY <1>2, <1>3, <1>4

LEMMA ConnKeeps == ASSUME Inv, NEW k \in Keys, ConnNext(k) PROVE Inv'
BY ConnRequestKeeps, ConnSendKeeps, ConnMsgKeeps, ConnFinishKeeps, ConnProceedKeeps,
   ConnClosedKeeps, ConnStopKeeps DEF ConnNext

-----------------------------------------------------------------------------
(* Steps of the keep-alives task and of the shutdown                       *)

\* The connections stay, and so do their ids; batch and tasks change.
LEMMA BatchStep ==
  ASSUME Inv, Kept(nodes, nodes'), SameIds(nodes, nodes'),
         UNCHANGED <<vacant, chan, pool, nextCid, peer>>,
         QueueShape', q'.done = q.done, TaskShape', TasksInOrder', BatchShape(batch'), BatchKept'
  PROVE  Inv'
<1>1. ChannelsKept
  BY ChannelsSame
<1>2. Registry'
  BY <1>1, KeptNodes, KeptIds, KeptChannels DEF Registry, ChannelsKept
<1>3. DoneOnce'
  BY KeptDone
<1>4. Shape'
  BY DEF Inv, Shape, Kept
<1> QED
  BY <1>2, <1>3, <1>4 DEF Inv

LEMMA AcceptStopKeeps == ASSUME Inv, AcceptStop PROVE Inv'
<1> DEFINE y(k) == IF nodes[k] # Free THEN [nodes[k] EXCEPT !.stop = TRUE] ELSE Free
<1>1. /\ task' = [task EXCEPT !.accept = "drain"] /\ nodes' = [k \in Keys |-> y(k)]
      /\ UNCHANGED <<vacant, chan, pool, nextCid, batch, q, peer>>
  BY DEF AcceptStop
<1>2. nodes \in Nodes
  BY DEF Inv, Shape
<1>3. ASSUME NEW k \in Keys
      PROVE  /\ y(k) \in Item \cup {Free} /\ (nodes[k] = Free <=> y(k) = Free)
             /\ nodes[k] # Free =>
                  /\ y(k).mode = nodes[k].mode /\ y(k).first = nodes[k].first
                  /\ y(k).ch = nodes[k].ch /\ y(k).phase = nodes[k].phase
                  /\ y(k).id = nodes[k].id /\ y(k).bkey = nodes[k].bkey
  <2>1. CASE nodes[k] = Free
    BY <2>1
  <2>2. CASE nodes[k] # Free
    <3>1. nodes[k] \in Item
      BY <1>2, <2>2, NodeType
    <3>2. /\ y(k) \in Item
          /\ y(k).mode = nodes[k].mode /\ y(k).first = nodes[k].first
          /\ y(k).ch = nodes[k].ch /\ y(k).phase = nodes[k].phase
          /\ y(k).id = nodes[k].id /\ y(k).bkey = nodes[k].bkey
      BY <2>2, <3>1 DEF Item
    <3> HIDE DEF y
    <3> QED
      BY <1>2, <2>2, <3>2, NodeType
  <2> QED
    BY <2>1, <2>2
<1> HIDE DEF y
<1>4. Kept(nodes, nodes') /\ SameIds(nodes, nodes') /\ SameBatchKeys(nodes, nodes')
  <2>1. nodes' \in Nodes
    BY <1>1, <1>3 DEF Nodes
  <2> QED
    BY <1>1, <1>3, <2>1 DEF Kept, SameIds, SameBatchKeys
<1>5. TaskShape' /\ task'.run = task.run /\ task'.ka = task.ka /\ task'.accept = "drain"
  BY <1>1, TaskFacts DEF TaskShape
<1>6. TasksInOrder' /\ (Filling' <=> Filling)
  BY <1>5 DEF TasksInOrder, Filling
<1>7. BatchKept' /\ BatchShape(batch')
  BY <1>1, <1>4, <1>5, <1>6, KeptBatch DEF Inv, Shape
<1>8. QueueShape' /\ q'.done = q.done
  BY <1>1, QueueFacts DEF QueueShape
<1> QED
  BY <1>1, <1>4, <1>5, <1>6, <1>7, <1>8, BatchStep

LEMMA KaEndGives ==
  ASSUME Inv
  PROVE  KaEnd \in 0 .. Cap /\ task.kaIndex <= KaEnd /\ task.kaIndex \in Nat
<1>0. task.kaIndex \in 0 .. Cap /\ BatchCapacity \in Nat /\ Cap \in Nat
  BY TaskFacts, KeysType
<1> DEFINE S == {task.kaIndex + BatchCapacity, Cap}
<1>1. S \in SUBSET Nat /\ S # {}
  BY <1>0
<1>2. KaEnd \in S /\ \A x \in S : KaEnd <= x
  <2> HIDE DEF S
  <2>1. KaEnd = Min(S)
    BY DEF KaEnd, S
  <2> QED
    BY <1>1, <2>1, MinIsMember
<1> QED
  BY <1>0, <1>2

LEMMA KeepAliveIntervalKeeps == ASSUME Inv, KeepAliveInterval PROVE Inv'
<1>1. PICK s : /\ s = AddKeys(task.kaIndex, KaEnd) /\ nodes' = s.nodes /\ batch' = s.batch
               /\ task' = [task EXCEPT !.ka = IF BatchIsEmpty(s.batch) THEN "wait" ELSE "send",
                                       !.kaIndex = KaNextIndex,
                                       !.kaCount = IF KaWrap THEN 0 ELSE @ + 1]
  BY DEF KeepAliveInterval
<1>2. /\ task.ka = "wait" /\ task.run = "run"
      /\ UNCHANGED <<vacant, chan, pool, nextCid, q, peer>>
  BY DEF KeepAliveInterval
<1>3. KaEnd \in 0 .. Cap /\ task.kaIndex <= KaEnd /\ task.kaIndex \in Nat
  BY KaEndGives
<1>4. /\ nodes \in Nodes /\ BatchShape(batch) /\ Live(batch, nodes)
      /\ Owned(batch, nodes) /\ BatchIsEmpty(batch)
  BY <1>2 DEF Inv, Shape, BatchKept, Filling
<1>5. Good(nodes, s) /\ Owned(s.batch, s.nodes)
  BY <1>1, <1>3, <1>4, AddKeysGives
<1>6. /\ Kept(nodes, nodes') /\ SameIds(nodes, nodes') /\ BatchShape(batch')
      /\ Live(batch', nodes') /\ Owned(batch', nodes')
  BY <1>1, <1>5 DEF Good
<1>7. KaNextIndex \in 0 .. Cap /\ (IF KaWrap THEN 0 ELSE task.kaCount + 1) \in Nat
  BY <1>3, TaskFacts, KeysType DEF KaNextIndex
<1> DEFINE ka == IF BatchIsEmpty(s.batch) THEN "wait" ELSE "send"
           count == IF KaWrap THEN 0 ELSE task.kaCount + 1
<1>8. ka \in {"wait", "send", "ended"} /\ count \in Nat
      /\ task' = [task EXCEPT !.ka = ka, !.kaIndex = KaNextIndex, !.kaCount = count]
  BY <1>1, <1>7
<1>9. ka = "wait" => BatchIsEmpty(batch')
  BY <1>1
<1> HIDE DEF ka, count
<1>10. TaskShape' /\ task'.run = task.run /\ task'.ka = ka /\ task'.handle = task.handle
       /\ task'.accept = task.accept
  BY <1>7, <1>8, TaskFacts DEF TaskShape
<1>11. TasksInOrder'
  BY <1>10, TaskFacts DEF TasksInOrder
<1>12. BatchKept'
  BY <1>6, <1>9, <1>10 DEF BatchKept
<1>13. QueueShape' /\ q'.done = q.done
  BY <1>2, QueueFacts DEF QueueShape
<1> QED
  BY <1>2, <1>6, <1>10, <1>11, <1>12, <1>13, BatchStep

LEMMA BatchSend ==
  ASSUME Inv, NEW t, NEW r, r = NextBatchMessage(t), batch' = r.batch, nodes' = r.nodes,
         q' = IF r.packet.ids = {} THEN q ELSE [q EXCEPT !.out = Append(@, r.packet)],
         UNCHANGED <<vacant, chan, pool, nextCid, peer>>,
         TaskShape', task'.run = task.run, task'.handle = task.handle, task'.accept = task.accept,
         Filling => (task'.ka = "wait" => BatchIsEmpty(batch'))
  PROVE  Inv'
<1>1. nodes \in Nodes /\ BatchShape(batch) /\ Live(batch, nodes) /\ (Filling => Owned(batch, nodes))
  BY DEF Inv, Shape, BatchKept
<1>2. /\ Kept(nodes, nodes') /\ SameIds(nodes, nodes') /\ BatchShape(batch')
      /\ Live(batch', nodes') /\ (Owned(batch, nodes) => Owned(batch', nodes'))
  BY <1>1, NextBatchMessageGives
<1>3. Filling' <=> Filling
  BY DEF Filling
<1>4. BatchKept'
  BY <1>1, <1>2, <1>3 DEF BatchKept
<1>5. QueueShape' /\ q'.done = q.done
  <2>1. CASE q' = q
    BY <2>1, QueueFacts DEF QueueShape
  <2>2. CASE q' = [q EXCEPT !.out = Append(@, r.packet)]
    BY <2>2, OutKeeps
  <2> QED
    BY <2>1, <2>2
<1>6. TasksInOrder'
  BY TaskFacts DEF TasksInOrder
<1> QED
  BY <1>2, <1>4, <1>5, <1>6, BatchStep

LEMMA KeepAliveSendKeeps == ASSUME Inv, KeepAliveSend PROVE Inv'
<1> DEFINE r == NextBatchMessage("keepAlive")
           ka == IF BatchIsEmpty(r.batch) THEN "wait" ELSE "send"
<1>1. /\ batch' = r.batch /\ nodes' = r.nodes
      /\ q' = IF r.packet.ids = {} THEN q ELSE [q EXCEPT !.out = Append(@, r.packet)]
      /\ task' = [task EXCEPT !.ka = ka]
      /\ UNCHANGED <<vacant, chan, pool, nextCid, peer>>
  BY DEF KeepAliveSend
<1>2. ka \in {"wait", "send", "ended"} /\ (ka = "wait" => BatchIsEmpty(r.batch))
  <2> HIDE DEF r
  <2> QED
    OBVIOUS
<1> HIDE DEF ka, r
<1>3. /\ TaskShape' /\ task'.run = task.run /\ task'.handle = task.handle
      /\ task'.accept = task.accept /\ task'.ka = ka
  BY <1>1, <1>2, TaskFacts DEF TaskShape
<1> QED
  BY <1>1, <1>2, <1>3, BatchSend DEF r

LEMMA RunCancelSendKeeps == ASSUME Inv, RunCancelSend PROVE Inv'
<1> DEFINE r == NextBatchMessage("cancel")
<1>1. /\ batch' = r.batch /\ nodes' = r.nodes
      /\ q' = IF r.packet.ids = {} THEN q ELSE [q EXCEPT !.out = Append(@, r.packet)]
      /\ UNCHANGED <<vacant, chan, pool, nextCid, peer, task>> /\ task.run = "drain"
  BY DEF RunCancelSend
<1> HIDE DEF r
<1>2. TaskShape' /\ task' = task /\ ~Filling
  BY <1>1, TaskFacts DEF TaskShape, Filling
<1> QED
  BY <1>1, <1>2, BatchSend DEF r

\* The batch of cancels is filled up to the key before next.
FilledTo(next, s) ==
  /\ next \in 0 .. Cap /\ task.cancelIndex <= next /\ s = AddKeys(task.cancelIndex, next)
  /\ \A n \in task.cancelIndex .. next - 1 :
       BatchLen(AddKeys(task.cancelIndex, n).batch) # BatchCapacity
  /\ nodes' = s.nodes /\ batch' = s.batch
  /\ task' = [task EXCEPT !.cancelIndex = next, !.run = "drain"]

LEMMA CancelFillGives ==
  ASSUME Inv, RunCancelFill
  PROVE  \E next, s : FilledTo(next, s) /\ Good(nodes, s)
<1> DEFINE full(n) == BatchLen(AddKeys(task.cancelIndex, n).batch) = BatchCapacity
           S == {Cap} \cup {n \in task.cancelIndex .. Cap : full(n)}
<1>1. PICK next, s : /\ next = Min(S) /\ s = AddKeys(task.cancelIndex, next)
                     /\ nodes' = s.nodes /\ batch' = s.batch
                     /\ task' = [task EXCEPT !.cancelIndex = next, !.run = "drain"]
  BY Zenon DEF RunCancelFill
<1>2. task.cancelIndex \in 0 .. Cap /\ Cap \in Nat
  BY TaskFacts, KeysType
<1>3. /\ next \in 0 .. Cap /\ task.cancelIndex <= next /\ task.cancelIndex \in Nat
      /\ \A n \in task.cancelIndex .. next - 1 : ~full(n)
  <2> HIDE DEF full
  <2>1. S \in SUBSET Nat /\ S # {} /\ \A n \in S : n \in task.cancelIndex .. Cap
    BY <1>2
  <2>2. next \in S /\ \A n \in S : next <= n
    <3> HIDE DEF S
    <3> QED
      BY <1>1, <2>1, MinIsMember
  <2>3. next \in 0 .. Cap /\ task.cancelIndex <= next /\ task.cancelIndex \in Nat
    BY <1>2, <2>1, <2>2
  <2>4. ASSUME NEW n \in task.cancelIndex .. next - 1, full(n) PROVE FALSE
    <3>1. n \in task.cancelIndex .. Cap /\ ~(next <= n)
      BY <1>2, <2>3
    <3> QED
      BY <2>2, <2>4, <3>1
  <2> QED
    BY <2>3, <2>4
<1> HIDE DEF S
<1>4. nodes \in Nodes /\ BatchShape(batch) /\ Live(batch, nodes)
  BY DEF Inv, Shape, BatchKept
<1>5. Good(nodes, s)
  BY <1>1, <1>3, <1>4, AddKeysGives
<1>6. FilledTo(next, s)
  BY <1>1, <1>3 DEF FilledTo
<1> QED
  BY <1>5, <1>6

LEMMA RunCancelFillKeeps == ASSUME Inv, RunCancelFill PROVE Inv'
<1>1. PICK next, s : FilledTo(next, s) /\ Good(nodes, s)
  BY CancelFillGives
<1>2. task.run = "cancel" /\ UNCHANGED <<vacant, chan, pool, nextCid, q, peer>>
  BY DEF RunCancelFill
<1>3. /\ next \in 0 .. Cap /\ nodes' = s.nodes /\ batch' = s.batch
      /\ task' = [task EXCEPT !.cancelIndex = next, !.run = "drain"]
  BY <1>1 DEF FilledTo
<1>4. /\ Kept(nodes, nodes') /\ SameIds(nodes, nodes') /\ BatchShape(batch')
      /\ Live(batch', nodes')
  BY <1>1, <1>3 DEF Good
<1>5. /\ TaskShape' /\ task'.run = "drain" /\ task'.handle = task.handle
      /\ task'.accept = task.accept
  BY <1>3, TaskFacts DEF TaskShape
<1>6. TasksInOrder'
  BY <1>2, <1>5, TaskFacts DEF TasksInOrder
<1>7. BatchKept'
  BY <1>4, <1>5 DEF BatchKept, Filling
<1>8. QueueShape' /\ q'.done = q.done
  BY <1>2, QueueFacts DEF QueueShape
<1> QED
  BY <1>2, <1>4, <1>5, <1>6, <1>7, <1>8, BatchStep

-----------------------------------------------------------------------------
(* Steps of the accept task                                                *)

LEMMA TailSeq ==
  ASSUME NEW T, NEW s \in Seq(T), s # <<>>
  PROVE  /\ Head(s) \in T /\ In(s, Head(s)) /\ Tail(s) \in Seq(T) /\ Len(Tail(s)) = Len(s) - 1
         /\ \A y : In(s, y) <=> In(Tail(s), y) \/ y = Head(s)
         /\ Inj(s) => Inj(Tail(s)) /\ ~In(Tail(s), Head(s))
<1>1. /\ Len(s) \in Nat \ {0} /\ DOMAIN s = 1 .. Len(s) /\ Head(s) = s[1] /\ s[1] \in T
      /\ Tail(s) \in Seq(T) /\ Len(Tail(s)) = Len(s) - 1 /\ DOMAIN Tail(s) = 1 .. Len(s) - 1
      /\ \A i \in 1 .. Len(s) - 1 : Tail(s)[i] = s[i + 1]
  OBVIOUS
<1>2. In(s, Head(s))
  BY <1>1 DEF In
<1>3. ASSUME NEW y, In(Tail(s), y) PROVE In(s, y)
  <2>1. PICK i \in 1 .. Len(s) - 1 : s[i + 1] = y
    BY <1>1, <1>3 DEF In
  <2>2. i + 1 \in 1 .. Len(s)
    BY <1>1
  <2> QED
    BY <1>1, <2>1, <2>2 DEF In
<1>4. ASSUME NEW y, In(s, y), y # Head(s) PROVE In(Tail(s), y)
  <2>1. PICK i \in 1 .. Len(s) : s[i] = y
    BY <1>1, <1>4 DEF In
  <2>2. i - 1 \in 1 .. Len(s) - 1 /\ (i - 1) + 1 = i
    BY <1>1, <1>4, <2>1
  <2>3. Tail(s)[i - 1] = y
    BY <1>1, <2>1, <2>2
  <2> QED
    BY <1>1, <2>2, <2>3 DEF In
<1>5. ASSUME Inj(s) PROVE Inj(Tail(s)) /\ ~In(Tail(s), Head(s))
  <2>0. \A a, b \in 1 .. Len(s) : s[a] = s[b] => a = b
    BY <1>1, <1>5 DEF Inj
  <2>1. ASSUME NEW i \in 1 .. Len(s) - 1, NEW j \in 1 .. Len(s) - 1, Tail(s)[i] = Tail(s)[j] PROVE i = j
    <3>1. i + 1 \in 1 .. Len(s) /\ j + 1 \in 1 .. Len(s) /\ s[i + 1] = s[j + 1]
      BY <1>1, <2>1
    <3>2. i + 1 = j + 1
      BY <2>0, <3>1
    <3> QED
      BY <3>2
  <2>2. ASSUME NEW i \in 1 .. Len(s) - 1, Tail(s)[i] = s[1] PROVE FALSE
    <3>1. i + 1 \in 1 .. Len(s) /\ 1 \in 1 .. Len(s) /\ s[i + 1] = s[1]
      BY <1>1, <2>2
    <3>2. i + 1 = 1
      BY <2>0, <3>1
    <3> QED
      BY <3>2
  <2> QED
    BY <1>1, <2>1, <2>2 DEF Inj, In
<1> QED
  BY <1>1, <1>2, <1>3, <1>4, <1>5

LEMMA PrependSeq ==
  ASSUME NEW T, NEW s \in Seq(T), NEW x \in T
  PROVE  /\ <<x>> \o s \in Seq(T) /\ Len(<<x>> \o s) = Len(s) + 1
         /\ \A y : In(<<x>> \o s, y) <=> In(s, y) \/ y = x
         /\ Inj(s) /\ ~In(s, x) => Inj(<<x>> \o s)
<1> DEFINE r == <<x>> \o s
<1>0. <<x>> \in Seq(T) /\ Len(<<x>>) = 1 /\ <<x>>[1] = x
  OBVIOUS
<1>1. /\ r \in Seq(T) /\ Len(r) = 1 + Len(s)
      /\ \A i \in 1 .. 1 + Len(s) : r[i] = IF i <= 1 THEN <<x>>[i] ELSE s[i - 1]
  BY <1>0, ConcatProperties
<1> HIDE DEF r
<1>2. /\ Len(s) \in Nat /\ DOMAIN s = 1 .. Len(s) /\ DOMAIN r = 1 .. Len(s) + 1
      /\ r[1] = x /\ \A i \in 2 .. Len(s) + 1 : r[i] = s[i - 1] /\ i - 1 \in 1 .. Len(s)
  BY <1>0, <1>1
<1>3. ASSUME NEW y, In(r, y) PROVE In(s, y) \/ y = x
  <2>1. PICK i \in 1 .. Len(s) + 1 : r[i] = y
    BY <1>2, <1>3 DEF In
  <2>2. CASE i = 1
    BY <1>2, <2>1, <2>2
  <2>3. CASE i # 1
    <3>1. i \in 2 .. Len(s) + 1
      BY <1>2, <2>3
    <3> QED
      BY <1>2, <2>1, <3>1 DEF In
  <2> QED
    BY <2>2, <2>3
<1>4. ASSUME NEW y, In(s, y) PROVE In(r, y)
  <2>1. PICK i \in 1 .. Len(s) : s[i] = y
    BY <1>2, <1>4 DEF In
  <2>2. i + 1 \in 2 .. Len(s) + 1 /\ (i + 1) - 1 = i /\ i + 1 \in 1 .. Len(s) + 1
    BY <1>2
  <2>3. r[i + 1] = y
    BY <1>2, <2>1, <2>2
  <2> QED
    BY <1>2, <2>2, <2>3 DEF In
<1>5. In(r, x)
  <2>1. 1 \in DOMAIN r
    BY <1>2
  <2> QED
    BY <1>2, <2>1 DEF In
<1>6. ASSUME Inj(s), ~In(s, x) PROVE Inj(r)
  <2>1. SUFFICES ASSUME NEW i \in 1 .. Len(s) + 1, NEW j \in 1 .. Len(s) + 1, r[i] = r[j] PROVE i = j
    BY <1>2 DEF Inj
  <2>2. \A a, b \in 1 .. Len(s) : s[a] = s[b] => a = b
    BY <1>2, <1>6 DEF Inj
  <2>3. \A a \in 1 .. Len(s) : s[a] # x
    BY <1>2, <1>6 DEF In
  <2>4. (i = 1 \/ i \in 2 .. Len(s) + 1) /\ (j = 1 \/ j \in 2 .. Len(s) + 1)
    BY <1>2
  <2>5. ASSUME i \in 2 .. Len(s) + 1, j \in 2 .. Len(s) + 1 PROVE i = j
    <3>1. i - 1 = j - 1
      BY <1>2, <2>1, <2>2, <2>5
    <3> QED
      BY <3>1
  <2> QED
    BY <1>2, <2>1, <2>3, <2>4, <2>5
<1>7. Len(r) = Len(s) + 1
  BY <1>1, <1>2
<1> QED
  BY <1>1, <1>3, <1>4, <1>5, <1>6, <1>7 DEF r

LEMMA FrontSeq ==
  ASSUME NEW T, NEW s \in Seq(T), s # <<>>
  PROVE  /\ Last(s) \in T /\ In(s, Last(s)) /\ Front(s) \in Seq(T) /\ Len(Front(s)) = Len(s) - 1
         /\ \A y : In(Front(s), y) => In(s, y)
         /\ Inj(s) => Inj(Front(s)) /\ ~In(Front(s), Last(s))
<1> DEFINE n == Len(s)
<1>0. n \in Nat \ {0} /\ DOMAIN s = 1 .. n /\ s[n] \in T
  OBVIOUS
<1>1. /\ Len(s) \in Nat \ {0} /\ DOMAIN s = 1 .. Len(s) /\ Last(s) = s[Len(s)] /\ s[Len(s)] \in T
      /\ Front(s) \in Seq(T) /\ Len(Front(s)) = Len(s) - 1 /\ DOMAIN Front(s) = 1 .. Len(s) - 1
      /\ \A i \in 1 .. Len(s) - 1 : Front(s)[i] = s[i]
  <2>1. /\ SubSeq(s, 1, n - 1) \in Seq(T) /\ Len(SubSeq(s, 1, n - 1)) = n - 1
        /\ \A i \in 1 .. n - 1 : SubSeq(s, 1, n - 1)[i] = s[i]
    BY <1>0
  <2>2. DOMAIN SubSeq(s, 1, n - 1) = 1 .. n - 1
    BY <1>0, <2>1
  <2> QED
    BY <1>0, <2>1, <2>2 DEF Front, Last
<1>2. In(s, Last(s))
  <2>1. Len(s) \in DOMAIN s
    BY <1>1
  <2> QED
    BY <1>1, <2>1 DEF In
<1>3. \A i \in 1 .. Len(s) - 1 : i \in 1 .. Len(s) /\ i # Len(s)
  <2> HIDE DEF n
  <2>1. \A i \in 1 .. n - 1 : i \in 1 .. n /\ i # n
    BY <1>0
  <2> QED
    BY <2>1 DEF n
<1>4. \A y : In(Front(s), y) => In(s, y)
  BY <1>1, <1>3 DEF In
<1>5. ASSUME Inj(s) PROVE Inj(Front(s)) /\ ~In(Front(s), Last(s))
  <2>0. \A a, b \in 1 .. Len(s) : s[a] = s[b] => a = b
    BY <1>1, <1>5 DEF Inj
  <2>1. Len(s) \in 1 .. Len(s)
    BY <1>1
  <2> QED
    BY <1>1, <1>3, <2>0, <2>1 DEF Inj, In
<1> QED
  BY <1>1, <1>2, <1>4, <1>5

LEMMA ItemsFinite ==
  /\ IsFiniteSet(Keys) /\ Cardinality(Keys) = Cap
  /\ \A m : IsFiniteSet(Items(m)) /\ Cardinality(Items(m)) \in Nat
<1>1. Cap \in Nat
  BY KeysType
<1>2. 0 \in Int /\ Cap - 1 \in Int
  BY <1>1
<1>3. IsFiniteSet(Keys) /\ Cardinality(Keys) = IF 0 > Cap - 1 THEN 0 ELSE (Cap - 1) - 0 + 1
  BY <1>2, FS_Interval DEF Keys
<1>4. \A m : Items(m) \in SUBSET Keys
  BY DEF Items
<1>5. \A m : IsFiniteSet(Items(m))
  BY <1>3, <1>4, FS_Subset
<1> QED
  BY <1>1, <1>3, <1>5, FS_CardinalityType

\* While fewer connections of a mode are there than allowed, a key is vacant:
\* the other mode has no more than its share.
LEMMA RoomToAccept ==
  ASSUME Inv, NEW m \in Modes, Cardinality(Items(m)) < MaxOf(m)
  PROVE  vacant # <<>> /\ pool # <<>>
<1> DEFINE A == Items("req")
           B == Items("stream")
<1>1. ReqMax \in Nat /\ StreamMax \in Nat /\ Cap = ReqMax + StreamMax
  BY ServerWorkerAssumption DEF Cap
<1>2. Cardinality(A) <= ReqMax /\ Cardinality(B) <= StreamMax
  BY DEF Inv, Registry, Admitted, Modes, MaxOf
<1>3. Cardinality(A) < ReqMax \/ Cardinality(B) < StreamMax
  BY DEF Modes, MaxOf
<1>4. IsFiniteSet(A) /\ IsFiniteSet(B) /\ Cardinality(A) \in Nat /\ Cardinality(B) \in Nat
  BY ItemsFinite
<1>5. Cardinality(A \cup B) = Cardinality(A) + Cardinality(B) - Cardinality(A \cap B)
  BY <1>4, FS_Union
<1>6. A \cap B = {}
  BY DEF Items
<1>7. Cardinality(A \cap B) = 0
  BY <1>6, FS_EmptySet
<1> HIDE DEF A, B
<1>8. Cardinality(A \cup B) < Cap
  BY <1>1, <1>2, <1>3, <1>4, <1>5, <1>7
<1>9. A \cup B # Keys
  BY <1>1, <1>8, ItemsFinite
<1>10. PICK k \in Keys : k \notin A \cup B
  BY <1>9 DEF A, B, Items
<1>11. nodes[k] = Free
  <2>1. nodes[k] \in Item => nodes[k].mode \in {"req", "stream"}
    BY DEF Item, Modes
  <2> QED
    BY <1>10, <2>1, NodeType DEF Inv, Shape, A, B, Items
<1>12. In(vacant, k) /\ Len(pool) = Len(vacant) /\ vacant \in Seq(Keys) /\ pool \in Seq(Chans)
  BY <1>11 DEF Inv, Registry, VacantKeys, ChannelsApart, Shape
<1> QED
  BY <1>12 DEF In

LEMMA ZeroKeysAt == ASSUME NEW b, BatchShape(b) PROVE KeysAt(b, 0) = <<>>
<1>1. 0 \notin DOMAIN b.addrs
  BY DEF BatchShape
<1> QED
  BY <1>1 DEF KeysAt

LEMMA AcceptKeeps == ASSUME Inv, NEW m \in Modes, Accept(m) PROVE Inv'
<1> DEFINE k == Head(vacant)
           c == Last(pool)
           y == NewItem(m, k, c)
<1>1. /\ Cardinality(Items(m)) < MaxOf(m)
      /\ nodes' = [nodes EXCEPT ![k] = y] /\ pool' = Front(pool) /\ vacant' = Tail(vacant)
      /\ nextCid' = nextCid + 1
      /\ UNCHANGED <<chan, batch, q, task, peer>>
  BY DEF Accept
<1>2. vacant # <<>> /\ pool # <<>> /\ vacant \in Seq(Keys) /\ pool \in Seq(Chans)
  BY <1>1, RoomToAccept DEF Inv, Shape
<1>3. /\ VacantKeys /\ ChannelsApart /\ Admitted /\ IdsOwn /\ ChannelIsOwn /\ nextCid \in Nat
      /\ nodes \in Nodes /\ chan \in [Chans -> Seq(Message)]
  BY DEF Inv, Registry, Shape
<1>4. /\ k \in Keys /\ In(vacant, k) /\ vacant' \in Seq(Keys) /\ Len(vacant') = Len(vacant) - 1
      /\ (\A j : In(vacant, j) <=> In(vacant', j) \/ j = k) /\ Inj(vacant') /\ ~In(vacant', k)
  BY <1>1, <1>2, <1>3, TailSeq DEF VacantKeys
<1>5. /\ c \in Chans /\ In(pool, c) /\ pool' \in Seq(Chans) /\ Len(pool') = Len(pool) - 1
      /\ (\A d : In(pool', d) => In(pool, d)) /\ Inj(pool') /\ ~In(pool', c)
  BY <1>1, <1>2, <1>3, FrontSeq DEF ChannelsApart
<1> HIDE DEF k, c
<1>6. nodes[k] = Free
  BY <1>3, <1>4 DEF VacantKeys
<1>7. /\ y \in Item /\ y.mode = m /\ y.ch = c /\ y.first = nextCid /\ y.id = [key |-> k, n |-> nextCid]
      /\ y.bkey = 0 /\ y.phase = "idle"
  <2>1. y = [phase |-> "idle", mode |-> m, id |-> [key |-> k, n |-> nextCid], first |-> nextCid,
             ch |-> c, addr |-> NoAddr, seq |-> 0, bkey |-> 0, stop |-> FALSE]
    BY DEF NewItem, GenId
  <2>2. [key |-> k, n |-> nextCid] \in Ids
    BY <1>3, <1>4 DEF Ids
  <2> HIDE DEF y
  <2> QED
    BY <1>5, <1>3, <2>1, <2>2 DEF Item, Phases
<1> HIDE DEF y
<1>8. /\ nodes' \in Nodes /\ nodes'[k] = y /\ y # Free
      /\ \A j \in Keys : j # k => nodes'[j] = nodes[j]
  BY <1>1, <1>3, <1>4, <1>7, NodeType DEF Nodes
<1>9. VacantKeys'
  BY <1>3, <1>4, <1>8 DEF VacantKeys
<1>10. ChannelsApart'
  <2>1. /\ Len(pool) = Len(vacant)
        /\ \A d : In(pool, d) => chan[d] = <<>>
        /\ \A j \in Keys : nodes[j] # Free => ~In(pool, nodes[j].ch)
        /\ \A i, j \in Keys : nodes[i] # Free /\ nodes[j] # Free /\ nodes[i].ch = nodes[j].ch => i = j
    BY <1>3 DEF ChannelsApart, In
  <2>2. \A i \in DOMAIN pool' : chan'[pool'[i]] = <<>>
    BY <1>1, <1>5, <2>1 DEF In
  <2>3. Inj(pool') /\ Len(pool') = Len(vacant')
    BY <1>4, <1>5, <2>1
  <2>4. \A j \in Keys : nodes'[j] # Free => ~In(pool', nodes'[j].ch)
    BY <1>5, <1>7, <1>8, <2>1
  <2>5. \A i, j \in Keys : nodes'[i] # Free /\ nodes'[j] # Free /\ nodes'[i].ch = nodes'[j].ch => i = j
    BY <1>5, <1>7, <1>8, <2>1
  <2> QED
    BY <2>2, <2>3, <2>4, <2>5 DEF ChannelsApart
<1>11. Admitted'
  <2>1. SUFFICES ASSUME NEW o \in Modes PROVE Cardinality(Items(o)') <= MaxOf(o)
    BY DEF Admitted, MaxOf
  <2>2. MaxOf(o) \in Nat /\ Cardinality(Items(o)) <= MaxOf(o) /\ Cardinality(Items(o)) \in Nat
    BY <1>3, ItemsFinite, ServerWorkerAssumption DEF Admitted, MaxOf
  <2>3. CASE o = m
    <3>1. Items(o)' = Items(o) \cup {k} /\ k \notin Items(o)
      BY <1>4, <1>6, <1>7, <1>8, <2>3 DEF Items
    <3>2. Cardinality(Items(o) \cup {k}) = Cardinality(Items(o)) + 1
      BY <3>1, ItemsFinite, FS_AddElement
    <3> QED
      BY <1>1, <2>2, <2>3, <3>1, <3>2
  <2>4. CASE o # m
    <3>1. Items(o)' = Items(o)
      BY <1>4, <1>6, <1>7, <1>8, <2>4 DEF Items
    <3> QED
      BY <2>2, <3>1
  <2> QED
    BY <2>3, <2>4
<1>12. IdsOwn'
  <2>1. SUFFICES ASSUME NEW j \in Keys, nodes'[j] # Free
                 PROVE  /\ nodes'[j].id.key = j /\ nodes'[j].first <= nodes'[j].id.n
                        /\ nodes'[j].id.n < nextCid'
    BY DEF IdsOwn
  <2>2. CASE j = k
    BY <1>1, <1>3, <1>7, <1>8, <2>2
  <2>3. CASE j # k
    <3>1. /\ nodes[j] # Free /\ nodes'[j] = nodes[j] /\ nodes[j].id.key = j
          /\ nodes[j].first <= nodes[j].id.n /\ nodes[j].id.n < nextCid
      BY <1>3, <1>8, <2>1, <2>3 DEF IdsOwn
    <3>2. nodes[j].id.n \in Nat
      <4>1. nodes[j] \in Item
        BY <1>3, <3>1, NodeType
      <4> QED
        BY <4>1 DEF Item, Ids
    <3> QED
      BY <1>1, <1>3, <3>1, <3>2
  <2> QED
    BY <2>2, <2>3
<1>13. ChannelIsOwn'
  <2>1. SUFFICES ASSUME NEW j \in Keys, Running(j)', NEW i \in DOMAIN chan'[nodes'[j].ch]
                 PROVE  chan'[nodes'[j].ch][i].id.key = j /\ chan'[nodes'[j].ch][i].id.n >= nodes'[j].first
    BY DEF ChannelIsOwn
  <2>2. j # k
    <3>1. chan[c] = <<>>
      BY <1>3, <1>5 DEF ChannelsApart, In
    <3> QED
      BY <1>1, <1>7, <1>8, <2>1, <3>1
  <2>3. nodes'[j] = nodes[j] /\ Running(j) /\ chan' = chan
    BY <1>1, <1>8, <2>1, <2>2 DEF Running
  <2> QED
    BY <1>3, <2>1, <2>3 DEF ChannelIsOwn
<1>14. DoneOnce'
  <2>1. \A o \in Modes : \A i \in DOMAIN q.done[o] :
           q.done[o][i] \in Keys /\ nodes[q.done[o][i]] # Free
    BY QueueFacts DEF Inv, DoneOnce
  <2>2. \A o \in Modes : \A i \in DOMAIN q.done[o] : nodes'[q.done[o][i]] = nodes[q.done[o][i]]
    BY <1>6, <1>8, <2>1
  <2> QED
    BY <1>1, <2>2 DEF Inv, DoneOnce
<1>15. BatchKept'
  <2>1. Live(batch, nodes')
    BY <1>8 DEF Inv, BatchKept, Live
  <2>2. ASSUME Filling PROVE Owned(batch, nodes')
    BY <1>6, <1>7, <1>8, <2>2 DEF Inv, BatchKept, Owned
  <2> QED
    BY <1>1, <2>1, <2>2 DEF Inv, BatchKept, Filling
<1>16. TaskShape' /\ TasksInOrder' /\ QueueShape'
  BY <1>1, TaskFacts, QueueFacts DEF TaskShape, TasksInOrder, QueueShape
<1>17. Shape'
  BY <1>1, <1>3, <1>4, <1>5, <1>8, <1>16 DEF Inv, Shape
<1> QED
  BY <1>9, <1>10, <1>11, <1>12, <1>13, <1>14, <1>15, <1>16, <1>17 DEF Inv, Registry

LEMMA AcceptDoneKeeps == ASSUME Inv, NEW m \in Modes, AcceptDone(m) PROVE Inv'
<1> DEFINE k == Head(q.done[m])
           c == nodes[k].ch
<1>1. /\ task.accept = "run" /\ q.done[m] # <<>>
      /\ nodes' = [nodes EXCEPT ![k] = Free] /\ vacant' = <<k>> \o vacant
      /\ batch' = BatchRemove(batch, nodes[k].bkey, k)
      /\ chan' = [chan EXCEPT ![c] = <<>>] /\ pool' = Append(pool, c)
      /\ q' = [q EXCEPT !.done[m] = Tail(@)]
      /\ UNCHANGED <<nextCid, task, peer>>
  BY DEF AcceptDone, ConnectionsRemove
<1>2. /\ VacantKeys /\ ChannelsApart /\ Admitted /\ IdsOwn /\ ChannelIsOwn /\ nextCid \in Nat
      /\ nodes \in Nodes /\ chan \in [Chans -> Seq(Message)]
      /\ vacant \in Seq(Keys) /\ pool \in Seq(Chans) /\ BatchShape(batch)
      /\ q.done \in [Modes -> Seq(Keys)]
  BY QueueFacts DEF Inv, Registry, Shape
<1> DEFINE s == q.done[m]
<1>3. s \in Seq(Keys) /\ s # <<>> /\ Inj(s)
      /\ \A j : In(s, j) => nodes[j] # Free /\ nodes[j].phase = "ended" /\ nodes[j].mode = m
  BY <1>1, <1>2 DEF Inv, DoneOnce, In
<1>4. /\ k \in Keys /\ In(s, k) /\ Tail(s) \in Seq(Keys)
      /\ (\A j : In(s, j) <=> In(Tail(s), j) \/ j = k) /\ Inj(Tail(s)) /\ ~In(Tail(s), k)
  BY <1>3, TailSeq
<1> HIDE DEF s, k
<1>5. nodes[k] # Free /\ nodes[k].phase = "ended" /\ nodes[k].mode = m /\ nodes[k] \in Item /\ c \in Chans
  <2>1. nodes[k] # Free /\ nodes[k].phase = "ended" /\ nodes[k].mode = m
    BY <1>3, <1>4
  <2>2. nodes[k] \in Item
    BY <1>2, <1>4, <2>1, NodeType
  <2> QED
    BY <2>1, <2>2 DEF Item
<1> HIDE DEF c
<1>6. /\ nodes' \in Nodes /\ nodes'[k] = Free /\ \A j \in Keys : j # k => nodes'[j] = nodes[j]
  BY <1>1, <1>2, <1>4 DEF Nodes
<1>7. /\ vacant' \in Seq(Keys) /\ Len(vacant') = Len(vacant) + 1
      /\ (\A j : In(vacant', j) <=> In(vacant, j) \/ j = k) /\ Inj(vacant')
  <2>1. ~In(vacant, k) /\ Inj(vacant)
    BY <1>2, <1>4, <1>5 DEF VacantKeys
  <2> QED
    BY <1>1, <1>2, <1>4, <2>1, PrependSeq
<1>8. VacantKeys'
  BY <1>2, <1>6, <1>7 DEF VacantKeys
<1>9. /\ Len(pool) = Len(vacant) /\ Inj(pool)
      /\ \A d : In(pool, d) => chan[d] = <<>>
      /\ \A j \in Keys : nodes[j] # Free => ~In(pool, nodes[j].ch)
      /\ \A i, j \in Keys : nodes[i] # Free /\ nodes[j] # Free /\ nodes[i].ch = nodes[j].ch => i = j
  BY <1>2 DEF ChannelsApart, In
<1>10. /\ pool' \in Seq(Chans) /\ Len(pool') = Len(pool) + 1
       /\ (\A d : In(pool', d) <=> In(pool, d) \/ d = c) /\ Inj(pool')
  <2>1. ~In(pool, c)
    BY <1>4, <1>5, <1>9 DEF c
  <2>2. Len(Append(pool, c)) = Len(pool) + 1
    BY <1>2
  <2> QED
    BY <1>1, <1>2, <1>5, <1>9, <2>1, <2>2, AppendSeq
<1>11. /\ chan' \in [Chans -> Seq(Message)] /\ chan'[c] = <<>>
       /\ \A d \in Chans : d # c => chan'[d] = chan[d]
  <2>1. <<>> \in Seq(Message)
    OBVIOUS
  <2> QED
    BY <1>1, <1>2, <1>5, <2>1
<1>12. ASSUME NEW j \in Keys, nodes'[j] # Free
       PROVE  /\ j # k /\ nodes'[j] = nodes[j] /\ nodes[j] # Free /\ nodes[j].ch # c
              /\ nodes[j].ch \in Chans
  <2>1. j # k /\ nodes'[j] = nodes[j] /\ nodes[j] # Free
    BY <1>6, <1>12
  <2>2. nodes[j].ch \in Chans
    <3>1. nodes[j] \in Item
      BY <1>2, <2>1, NodeType
    <3> QED
      BY <3>1 DEF Item
  <2> QED
    BY <1>4, <1>5, <1>9, <2>1, <2>2 DEF c
<1>13. ChannelsApart'
  <2>1. \A d \in Chans : In(pool', d) => chan'[d] = <<>>
    BY <1>9, <1>10, <1>11
  <2>2. \A i \in DOMAIN pool' : chan'[pool'[i]] = <<>>
    BY <1>10, <2>1 DEF In
  <2>3. Inj(pool') /\ Len(pool') = Len(vacant')
    BY <1>7, <1>9, <1>10
  <2>4. \A j \in Keys : nodes'[j] # Free => ~In(pool', nodes'[j].ch)
    BY <1>9, <1>10, <1>12
  <2>5. \A i, j \in Keys : nodes'[i] # Free /\ nodes'[j] # Free /\ nodes'[i].ch = nodes'[j].ch => i = j
    BY <1>9, <1>12
  <2> QED
    BY <2>2, <2>3, <2>4, <2>5 DEF ChannelsApart
<1>14. Admitted'
  <2>1. SUFFICES ASSUME NEW o \in Modes PROVE Cardinality(Items(o)') <= MaxOf(o)
    BY DEF Admitted, MaxOf
  <2>2. Items(o)' \in SUBSET Items(o)
    BY <1>6 DEF Items
  <2>3. IsFiniteSet(Items(o)') /\ Cardinality(Items(o)') <= Cardinality(Items(o))
    BY <2>2, ItemsFinite, FS_Subset
  <2>4. Cardinality(Items(o)') \in Nat /\ Cardinality(Items(o)) \in Nat /\ MaxOf(o) \in Nat
    BY <2>3, ItemsFinite, FS_CardinalityType, ServerWorkerAssumption DEF MaxOf
  <2>5. Cardinality(Items(o)) <= MaxOf(o)
    BY <1>2 DEF Admitted
  <2> QED
    BY <2>3, <2>4, <2>5
<1>15. IdsOwn'
  BY <1>1, <1>2, <1>12 DEF IdsOwn
<1>16. ChannelIsOwn'
  <2>1. SUFFICES ASSUME NEW j \in Keys, Running(j)', NEW i \in DOMAIN chan'[nodes'[j].ch]
                 PROVE  chan'[nodes'[j].ch][i].id.key = j /\ chan'[nodes'[j].ch][i].id.n >= nodes'[j].first
    BY DEF ChannelIsOwn
  <2>2. /\ nodes'[j] = nodes[j] /\ nodes[j].ch # c /\ nodes[j].ch \in Chans
        /\ nodes'[j] # Free /\ nodes'[j].phase # "ended"
    BY <1>12, <2>1 DEF Running
  <2>3. Running(j) /\ chan'[nodes'[j].ch] = chan[nodes[j].ch]
    BY <1>11, <2>2 DEF Running
  <2> QED
    BY <1>2, <2>1, <2>2, <2>3 DEF ChannelIsOwn
<1>17. /\ QueueShape' /\ q'.done[m] = Tail(s) /\ \A o \in Modes : o # m => q'.done[o] = q.done[o]
  <2> DEFINE d == [q.done EXCEPT ![m] = Tail(s)]
  <2>1. d \in [Modes -> Seq(Keys)] /\ d[m] = Tail(s) /\ \A o \in Modes : o # m => d[o] = q.done[o]
    BY <1>2, <1>4
  <2>2. q' = [q EXCEPT !.done = d]
    BY <1>1 DEF s
  <2> HIDE DEF d
  <2>3. QueueShape' /\ q'.done = d
    BY <2>1, <2>2, QueueFacts DEF QueueShape
  <2> QED
    BY <2>1, <2>3
<1>18. DoneOnce'
  <2>1. SUFFICES ASSUME NEW o \in Modes
                 PROVE  /\ Inj(q'.done[o])
                        /\ \A j : In(q'.done[o], j) =>
                             nodes'[j] # Free /\ nodes'[j].phase = "ended" /\ nodes'[j].mode = o
    BY DEF DoneOnce, In
  <2>2. /\ Inj(q.done[o])
        /\ \A j : In(q.done[o], j) => /\ nodes[j] # Free /\ nodes[j].phase = "ended" /\ nodes[j].mode = o
                                      /\ j \in Keys
    BY <1>2 DEF Inv, DoneOnce, In
  <2>3. CASE o = m
    BY <1>4, <1>6, <1>17, <2>2, <2>3 DEF s
  <2>4. CASE o # m
    BY <1>5, <1>6, <1>17, <2>2, <2>4
  <2> QED
    BY <2>3, <2>4
<1>19. TaskShape' /\ TasksInOrder' /\ Filling /\ (Filling' <=> Filling)
  BY <1>1, TaskFacts DEF TaskShape, TasksInOrder, Filling
<1>20. /\ BatchShape(batch')
       /\ \A i \in Nat, j \in Keys : In(KeysAt(batch', i), j) => In(KeysAt(batch, i), j)
       /\ Owned(batch, nodes) => /\ \A i \in Nat : Inj(KeysAt(batch', i))
                                 /\ \A i \in Nat \ {0}, j \in Keys :
                                      In(KeysAt(batch', i), j) <=> j # k /\ nodes[j] # Free /\ nodes[j].bkey = i
  BY <1>1, <1>2, <1>4, <1>5, RemoveOwned
<1>21. Owned(batch, nodes)
  BY <1>19 DEF Inv, BatchKept
<1>22. Owned(batch', nodes')
  BY <1>6, <1>20, <1>21 DEF Owned
<1>23. Live(batch', nodes')
  <2>1. SUFFICES ASSUME NEW i \in Nat, NEW j \in Keys, In(KeysAt(batch', i), j) PROVE nodes'[j] # Free
    BY DEF Live
  <2>2. i # 0
    BY <1>20, <2>1, ZeroKeysAt DEF In
  <2> QED
    BY <1>22, <2>1, <2>2 DEF Owned
<1>24. ASSUME task.ka = "wait" PROVE BatchIsEmpty(batch')
  <2>1. BatchIsEmpty(batch)
    BY <1>19, <1>24 DEF Inv, BatchKept
  <2>2. \A i \in Nat, j \in Keys : ~In(KeysAt(batch, i), j)
    BY <1>2, <2>1, KeysAtType DEF In
  <2> QED
    BY <1>20, <2>2, EmptyBatch
<1>25. BatchKept'
  BY <1>1, <1>22, <1>23, <1>24 DEF BatchKept
<1>26. Shape'
  BY <1>1, <1>2, <1>6, <1>7, <1>10, <1>11, <1>17, <1>19, <1>20 DEF Inv, Shape
<1> QED
  BY <1>8, <1>13, <1>14, <1>15, <1>16, <1>18, <1>19, <1>25, <1>26 DEF Inv, Registry

-----------------------------------------------------------------------------
(* The theorem                                                             *)

LEMMA InitInv == Init => Inv
<1> SUFFICES ASSUME Init PROVE Inv
  OBVIOUS
<1>0. Cap \in Nat /\ IdMax \in Nat
  BY KeysType, ServerWorkerAssumption
<1>1. /\ nodes = [k \in Keys |-> Free]
      /\ vacant = [i \in 1 .. Cap |-> i - 1] /\ pool = [i \in 1 .. Cap |-> i]
      /\ chan = [c \in 1 .. Cap |-> <<>>] /\ nextCid = 0
      /\ batch = [addrs |-> <<>>, index |-> 1]
      /\ q = [out |-> <<>>, mgrIn |-> <<>>, pipeIn |-> [m \in Modes |-> <<>>],
              done |-> [m \in Modes |-> <<>>]]
      /\ task = [run |-> "run", accept |-> "run", handle |-> [m \in Modes |-> "run"],
                 ka |-> "wait", kaIndex |-> 0, kaCount |-> 0, cancelIndex |-> 0, timedOut |-> FALSE]
      /\ peer = [n \in 0 .. IdMax - 1 |-> Unknown]
  BY DEF Init
<1>2. /\ vacant \in Seq(Keys) /\ DOMAIN vacant = 1 .. Cap /\ Len(vacant) = Cap
      /\ \A i \in 1 .. Cap : vacant[i] = i - 1
  <2>1. \A i \in 1 .. Cap : i - 1 \in Keys
    BY <1>0 DEF Keys
  <2> QED
    BY <1>0, <1>1, <2>1
<1>3. /\ pool \in Seq(Chans) /\ DOMAIN pool = 1 .. Cap /\ Len(pool) = Cap
      /\ \A i \in 1 .. Cap : pool[i] = i
  BY <1>0, <1>1 DEF Chans
<1>4. chan \in [Chans -> Seq(Message)]
  BY <1>1 DEF Chans
<1>5. BatchShape(batch) /\ (\A i : KeysAt(batch, i) = <<>>)
  <2>1. BatchShape(batch)
    BY <1>1 DEF BatchShape
  <2> QED
    BY <1>1, <2>1, EmptyKeysAt
<1>6. QueueShape
  BY <1>1 DEF QueueShape
<1>7. TaskShape
  <2>1. 0 \in 0 .. Cap
    BY <1>0
  <2> QED
    BY <1>1, <2>1 DEF TaskShape
<1>8. Shape
  BY <1>1, <1>2, <1>3, <1>4, <1>5, <1>6, <1>7 DEF Shape, Nodes
<1>9. VacantKeys
  <2>1. Inj(vacant)
    BY <1>0, <1>2 DEF Inj
  <2>2. ASSUME NEW k \in Keys PROVE In(vacant, k)
    <3>1. k + 1 \in 1 .. Cap /\ (k + 1) - 1 = k
      BY <1>0 DEF Keys
    <3> QED
      BY <1>2, <3>1 DEF In
  <2> QED
    BY <1>1, <2>1, <2>2 DEF VacantKeys
<1>10. ChannelsApart
  <2>1. Inj(pool) /\ \A i \in DOMAIN pool : chan[pool[i]] = <<>>
    BY <1>1, <1>3 DEF Inj
  <2> QED
    BY <1>1, <1>2, <1>3, <2>1 DEF ChannelsApart
<1>11. Admitted
  <2>1. \A m : Items(m) = {}
    BY <1>1 DEF Items
  <2> QED
    BY <2>1, FS_EmptySet, ServerWorkerAssumption DEF Admitted, MaxOf
<1>12. IdsOwn /\ ChannelIsOwn
  BY <1>1 DEF IdsOwn, ChannelIsOwn, Running
<1>13. DoneOnce
  <2>1. \A m \in Modes : q.done[m] = <<>>
    BY <1>1
  <2> QED
    BY <2>1 DEF DoneOnce, Inj
<1>14. TasksInOrder
  BY <1>1 DEF TasksInOrder
<1>15. BatchKept
  <2>1. BatchIsEmpty(batch)
    BY <1>1 DEF BatchIsEmpty
  <2> QED
    BY <1>1, <1>5, <2>1 DEF BatchKept, Live, Owned, In, Inj
<1> QED
  BY <1>8, <1>9, <1>10, <1>11, <1>12, <1>13, <1>14, <1>15 DEF Inv, Registry

LEMMA StutterKeeps == ASSUME Inv, UNCHANGED vars PROVE Inv'
<1>1. UNCHANGED <<nodes, vacant, pool, chan, nextCid, batch, q, task, peer>>
  BY DEF vars
<1>2. TaskShape' /\ TasksInOrder' /\ (Filling' <=> Filling) /\ task' = task
  BY <1>1, TaskFacts DEF TaskShape, TasksInOrder, Filling
<1> QED
  BY <1>1, <1>2, OnlyTasks

LEMMA NextInv == Inv /\ [Next]_vars => Inv'
<1> SUFFICES ASSUME Inv, [Next]_vars PROVE Inv'
  OBVIOUS
<1>1. CASE \E m \in Modes : Accept(m) \/ HandleTask(m)
  BY <1>1, AcceptKeeps, HandleRecvKeeps, HandleEndKeeps DEF HandleTask
<1>2. CASE \E k \in Keys : ConnNext(k)
  BY <1>2, ConnKeeps
<1>3. CASE AcceptTask
  BY <1>3, AcceptStopKeeps, AcceptDoneKeeps DEF AcceptTask
<1>4. CASE KeepAlivesTask
  BY <1>4, KeepAliveIntervalKeeps, KeepAliveSendKeeps, KeepAliveNothingKeeps, KeepAliveStopKeeps
     DEF KeepAlivesTask
<1>5. CASE RunStop
  BY <1>5, RunStepsKeep
<1>6. CASE RunStopping
  BY <1>6, RunStepsKeep, RunTasksDoneKeeps, RunCancelFillKeeps, RunCancelSendKeeps DEF RunStopping
<1>7. CASE Manager
  BY <1>7, MgrSendAddrKeeps, MgrHandleMessageKeeps DEF Manager
<1>8. CASE HandlersNext
  BY <1>8, ReplyKeeps DEF HandlersNext
<1>9. CASE UNCHANGED vars
  BY <1>9, StutterKeeps
<1> QED
  BY <1>1, <1>2, <1>3, <1>4, <1>5, <1>6, <1>7, <1>8, <1>9 DEF Next

LEMMA InvOwnResources == Inv => OwnResources
<1> SUFFICES ASSUME Inv PROVE OwnResources
  OBVIOUS
<1>1. ChannelIsOwn
  BY DEF Inv, Registry
<1>2. AcceptHasRoom
  BY RoomToAccept DEF AcceptHasRoom
<1>3. BatchOwned
  <2>1. SUFFICES ASSUME Filling, NEW k \in Keys, NEW i \in DOMAIN batch.addrs
                 PROVE  Cardinality({j \in DOMAIN batch.addrs[i].keys : batch.addrs[i].keys[j] = k})
                          = IF nodes[k] # Free /\ nodes[k].bkey = i THEN 1 ELSE 0
    BY DEF BatchOwned, Filling
  <2>2. BatchShape(batch) /\ Owned(batch, nodes)
    BY <2>1 DEF Inv, Shape, BatchKept
  <2>3. i \in Nat \ {0} /\ KeysAt(batch, i) = batch.addrs[i].keys
    BY <2>2, AddrItemType DEF BatchShape, KeysAt
  <2> DEFINE s == batch.addrs[i].keys
             at == {j \in DOMAIN s : s[j] = k}
  <2>4. Inj(s) /\ (In(s, k) <=> nodes[k] # Free /\ nodes[k].bkey = i)
    BY <2>2, <2>3 DEF Owned
  <2> HIDE DEF s
  <2>5. CASE In(s, k)
    <3>1. PICK j \in DOMAIN s : s[j] = k
      BY <2>5 DEF In
    <3>2. at = {j}
      BY <2>4, <3>1 DEF Inj
    <3>3. Cardinality(at) = 1
      BY <3>2, FS_Singleton
    <3> QED
      BY <2>4, <2>5, <3>3 DEF s
  <2>6. CASE ~In(s, k)
    <3>1. at = {}
      BY <2>6 DEF In
    <3>2. Cardinality(at) = 0
      BY <3>1, FS_EmptySet
    <3> QED
      BY <2>4, <2>6, <3>2 DEF s
  <2> QED
    BY <2>5, <2>6
<1> QED
  BY <1>1, <1>2, <1>3 DEF OwnResources

\* The variables stay within their types.
THEOREM TypeCorrect == Spec => []Shape
<1>1. Inv => Shape
  BY DEF Inv
<1> QED
  BY <1>1, InitInv, NextInv, PTL DEF Spec

\* For any number of connections, batches, handlers and queues: a channel that
\* goes back to the pool and out again brings nothing of its former owner
\* (ChannelPool), a key is in the batch of keep-alives exactly where its
\* connection says (Batch), and a connection that may be accepted finds a key
\* and a channel (accept_task).
THEOREM OwnResourcesAlways == Spec => []OwnResources
BY InitInv, NextInv, InvOwnResources, PTL DEF Spec

-----------------------------------------------------------------------------
(* Sequence numbers                                                        *)

Packets == [t : {"data", "handoffProceed", "cancel", "keepAlive"}, to : Addrs \cup {NoAddr},
            ids : SUBSET [id : Ids, seq : Nat]]

\* A handler expects packets of session s.
Expects(s) == s.st \in {"has", "leaving"}

\* Session n has a part in one of the packets on their way.
Sent(out, n) == \E i \in DOMAIN out : n \in Sessions(out[i])

\* What a packet does to the number of the next packet of session n.
Step(p, n, a, b) ==
  IF n \in Sessions(p) THEN b = Inc(a) /\ \A x \in p.ids : x.id.n = n => x.seq = a ELSE b = a

\* The packets on their way number session n from a on; the next number is b.
Numbers(out, n, a, b) ==
  \E e \in [1 .. Len(out) + 1 -> Nat] :
    /\ e[1] = a /\ e[Len(out) + 1] = b
    /\ \A i \in 1 .. Len(out) : Step(out[i], n, e[i], e[i + 1])

\* A packet names a session once.
NamedOnce(p) == \A x, y \in p.ids : x.id.n = y.id.n => x = y

OutShape == q.out \in Seq(Packets) /\ \A i \in DOMAIN q.out : NamedOnce(q.out[i])

\* No two connections have the same number.
NumbersApart ==
  \A j, k \in Keys :
    nodes[j] # Free /\ nodes[k] # Free /\ nodes[j].id.n = nodes[k].id.n => j = k

\* Nobody has heard of a connection without a request, nor of numbers that
\* were not given out yet.
IdlesNew ==
  \A k \in Keys : nodes[k] # Free /\ nodes[k].phase = "idle" =>
    /\ nodes[k].addr = NoAddr /\ nodes[k].seq = 0
    /\ ~Expects(peer[nodes[k].id.n]) /\ ~Sent(q.out, nodes[k].id.n)
NumbersNew == \A n \in 0 .. IdMax - 1 : n >= nextCid => ~Expects(peer[n]) /\ ~Sent(q.out, n)

\* The packets on their way lead from the number that a session's handler
\* expects to the one that its connection uses next.
InOrder ==
  \A n \in 0 .. IdMax - 1 : Expects(peer[n]) =>
    \E b \in Nat : /\ Numbers(q.out, n, peer[n].seq, b)
                   /\ \A k \in Keys : nodes[k] # Free /\ nodes[k].id.n = n => nodes[k].seq = b

\* Every number given out is a session's.
NumbersFit == nextCid <= IdMax

Numbered ==
  OutShape /\ NumbersFit /\ NumbersApart /\ IdlesNew /\ NumbersNew /\ InOrder /\ ~bad

LEMMA NumbersAppend ==
  ASSUME NEW out \in Seq(Packets), NEW p \in Packets, NEW n, NEW a, NEW b, NEW c \in Nat,
         Numbers(out, n, a, b), Step(p, n, b, c)
  PROVE  Numbers(Append(out, p), n, a, c)
<1>1. PICK e \in [1 .. Len(out) + 1 -> Nat] :
        /\ e[1] = a /\ e[Len(out) + 1] = b
        /\ \A i \in 1 .. Len(out) : Step(out[i], n, e[i], e[i + 1])
  BY DEF Numbers
<1> DEFINE o == Append(out, p)
           d == [i \in 1 .. Len(out) + 2 |-> IF i = Len(out) + 2 THEN c ELSE e[i]]
<1>2. /\ Len(o) = Len(out) + 1 /\ Len(out) \in Nat /\ o[Len(out) + 1] = p
      /\ \A i \in 1 .. Len(out) : o[i] = out[i]
  OBVIOUS
<1>3. d \in [1 .. Len(o) + 1 -> Nat] /\ d[1] = a /\ d[Len(o) + 1] = c /\ d[Len(out) + 1] = b
  BY <1>1, <1>2
<1>4. \A i \in 1 .. Len(out) : d[i] = e[i] /\ d[i + 1] = e[i + 1]
  BY <1>2
<1> HIDE DEF o, d
<1>5. ASSUME NEW i \in 1 .. Len(o) PROVE Step(o[i], n, d[i], d[i + 1])
  <2>1. CASE i = Len(out) + 1
    <3>1. o[i] = p /\ d[i] = b /\ d[i + 1] = c
      BY <1>2, <1>3, <2>1
    <3> QED
      BY <3>1
  <2>2. CASE i # Len(out) + 1
    <3>1. i \in 1 .. Len(out)
      BY <1>2, <2>2
    <3>2. o[i] = out[i] /\ d[i] = e[i] /\ d[i + 1] = e[i + 1]
      BY <1>2, <1>4, <3>1
    <3> QED
      BY <1>1, <3>1, <3>2
  <2> QED
    BY <2>1, <2>2
<1> QED
  BY <1>3, <1>5 DEF Numbers, o

LEMMA NumbersTail ==
  ASSUME NEW out \in Seq(Packets), out # <<>>, NEW n, NEW a, NEW b, Numbers(out, n, a, b)
  PROVE  \E c \in Nat : Step(Head(out), n, a, c) /\ Numbers(Tail(out), n, c, b)
<1>1. PICK e \in [1 .. Len(out) + 1 -> Nat] :
        /\ e[1] = a /\ e[Len(out) + 1] = b
        /\ \A i \in 1 .. Len(out) : Step(out[i], n, e[i], e[i + 1])
  BY DEF Numbers
<1> DEFINE o == Tail(out)
           d == [i \in 1 .. Len(out) |-> e[i + 1]]
<1>2. /\ Len(out) \in Nat \ {0} /\ Len(o) = Len(out) - 1 /\ Head(out) = out[1]
      /\ \A i \in 1 .. Len(o) : o[i] = out[i + 1]
  OBVIOUS
<1>3. d \in [1 .. Len(o) + 1 -> Nat] /\ d[1] = e[2] /\ d[Len(o) + 1] = b /\ e[2] \in Nat
  BY <1>1, <1>2
<1>4. \A i \in 1 .. Len(o) : d[i] = e[i + 1] /\ d[i + 1] = e[(i + 1) + 1] /\ i + 1 \in 1 .. Len(out)
  BY <1>2
<1> HIDE DEF o, d
<1>5. \A i \in 1 .. Len(o) : Step(o[i], n, d[i], d[i + 1])
  BY <1>1, <1>2, <1>4
<1>6. Step(Head(out), n, a, e[2])
  <2>1. 1 \in 1 .. Len(out) /\ 1 + 1 = 2
    BY <1>2
  <2>2. Step(out[1], n, e[1], e[1 + 1])
    BY <1>1, <2>1
  <2> QED
    BY <1>1, <1>2, <2>1, <2>2
<1>7. Numbers(o, n, e[2], b)
  BY <1>3, <1>5 DEF Numbers
<1> QED
  BY <1>3, <1>6, <1>7 DEF o

\* Packets after the first m, which session n has no part in, do not matter.
LEMMA NumbersCut ==
  ASSUME NEW out \in Seq(Packets), NEW m \in 0 .. Len(out), NEW n, NEW a, NEW b,
         Numbers(out, n, a, b), \A i \in m + 1 .. Len(out) : n \notin Sessions(out[i])
  PROVE  Numbers(SubSeq(out, 1, m), n, a, b)
<1>1. PICK e \in [1 .. Len(out) + 1 -> Nat] :
        /\ e[1] = a /\ e[Len(out) + 1] = b
        /\ \A i \in 1 .. Len(out) : Step(out[i], n, e[i], e[i + 1])
  BY DEF Numbers
<1> DEFINE P == {j \in Nat : m + j <= Len(out) => e[m + 1 + j] = e[m + 1]}
<1>0. m \in Nat /\ Len(out) \in Nat
  OBVIOUS
<1>2. 0 \in P
  BY <1>0
<1>3. ASSUME NEW j \in Nat, j \in P PROVE j + 1 \in P
  <2>1. SUFFICES ASSUME m + (j + 1) <= Len(out) PROVE e[m + 1 + (j + 1)] = e[m + 1]
    OBVIOUS
  <2>2. /\ m + 1 + j \in m + 1 .. Len(out) /\ m + 1 + j \in 1 .. Len(out)
        /\ (m + 1 + j) + 1 = m + 1 + (j + 1) /\ m + j <= Len(out)
    BY <1>0, <2>1
  <2>3. Step(out[m + 1 + j], n, e[m + 1 + j], e[(m + 1 + j) + 1]) /\ n \notin Sessions(out[m + 1 + j])
    BY <1>1, <2>2
  <2>4. e[(m + 1 + j) + 1] = e[m + 1 + j]
    BY <2>3 DEF Step
  <2>5. e[m + 1 + j] = e[m + 1]
    BY <1>3, <2>2
  <2> QED
    BY <2>2, <2>4, <2>5
<1>4. Nat \subseteq P
  <2> HIDE DEF P
  <2> QED
    BY <1>2, <1>3, Induction
<1>5. e[m + 1] = b
  <2>1. Len(out) - m \in Nat /\ m + 1 + (Len(out) - m) = Len(out) + 1 /\ m + (Len(out) - m) <= Len(out)
    BY <1>0
  <2>2. Len(out) - m \in P
    BY <1>4, <2>1
  <2> QED
    BY <1>1, <2>1, <2>2
<1> DEFINE o == SubSeq(out, 1, m)
           d == [i \in 1 .. m + 1 |-> e[i]]
<1>6. Len(o) = m /\ \A i \in 1 .. m : o[i] = out[i]
  BY <1>0
<1>7. /\ d \in [1 .. Len(o) + 1 -> Nat] /\ d[1] = a /\ d[Len(o) + 1] = b
      /\ \A i \in 1 .. Len(o) : d[i] = e[i] /\ d[i + 1] = e[i + 1] /\ i \in 1 .. Len(out)
  <2>1. /\ d \in [1 .. m + 1 -> Nat] /\ d[1] = e[1] /\ d[m + 1] = e[m + 1]
        /\ \A i \in 1 .. m : d[i] = e[i] /\ d[i + 1] = e[i + 1] /\ i \in 1 .. Len(out)
    <3>1. m <= Len(out) /\ \A i \in 1 .. m + 1 : i \in 1 .. Len(out) + 1
      BY <1>0
    <3>2. \A i \in 1 .. m + 1 : e[i] \in Nat
      BY <3>1
    <3>3. \A i \in 1 .. m + 1 : d[i] = e[i]
      OBVIOUS
    <3>4. d \in [1 .. m + 1 -> Nat]
      BY <3>2
    <3>5. 1 \in 1 .. m + 1 /\ m + 1 \in 1 .. m + 1
      BY <1>0
    <3> HIDE DEF d
    <3>6. \A i \in 1 .. m : i \in 1 .. m + 1 /\ i + 1 \in 1 .. m + 1 /\ i \in 1 .. Len(out)
      BY <1>0, <3>1
    <3> QED
      BY <3>3, <3>4, <3>5, <3>6
  <2> HIDE DEF o, d
  <2> QED
    BY <1>1, <1>5, <1>6, <2>1
<1> HIDE DEF o, d
<1>8. \A i \in 1 .. Len(o) : Step(o[i], n, d[i], d[i + 1])
  BY <1>1, <1>6, <1>7
<1>9. Numbers(o, n, a, b)
  BY <1>7, <1>8 DEF Numbers
<1> QED
  BY <1>9 DEF o

LEMMA NumbersNone ==
  ASSUME NEW out \in Seq(Packets), NEW n, ~Sent(out, n), NEW a \in Nat
  PROVE  Numbers(out, n, a, a)
<1> DEFINE d == [i \in 1 .. Len(out) + 1 |-> a]
<1>1. Len(out) \in Nat /\ DOMAIN out = 1 .. Len(out)
  OBVIOUS
<1>2. /\ d \in [1 .. Len(out) + 1 -> Nat] /\ d[1] = a /\ d[Len(out) + 1] = a
      /\ \A i \in 1 .. Len(out) : d[i] = a /\ d[i + 1] = a
  BY <1>1
<1> HIDE DEF d
<1>3. \A i \in 1 .. Len(out) : Step(out[i], n, d[i], d[i + 1])
  BY <1>1, <1>2 DEF Sent, Step
<1> QED
  BY <1>2, <1>3 DEF Numbers

-----------------------------------------------------------------------------
(* How steps keep to the sequence numbers                                  *)

\* Handlers expect no other packets than before, or none any more.
ExpectNoMore ==
  \A n \in 0 .. IdMax - 1 : Expects(peer'[n]) => Expects(peer[n]) /\ peer'[n].seq = peer[n].seq

\* The connections that there are were there, with the same ids; those of K
\* have used a sequence number.
NumbersUsed(K) ==
  \A k \in Keys : nodes'[k] # Free =>
    /\ nodes[k] # Free /\ nodes'[k].id = nodes[k].id
    /\ nodes'[k].seq = IF k \in K THEN Inc(nodes[k].seq) ELSE nodes[k].seq
    /\ nodes'[k].phase = "idle" => nodes[k].phase = "idle" /\ nodes'[k].addr = nodes[k].addr

LEMMA IdFacts ==
  ASSUME Inv, NEW k \in Keys, nodes[k] # Free
  PROVE  /\ nodes[k].id \in Ids /\ nodes[k].id.n \in Nat /\ nodes[k].seq \in Nat
         /\ nodes[k].id.n < nextCid /\ nodes[k].addr \in Addrs \cup {NoAddr}
<1>1. nodes[k] \in Item
  BY NodeType DEF Inv, Shape
<1>2. nodes[k].id \in Ids /\ nodes[k].seq \in Nat /\ nodes[k].addr \in Addrs \cup {NoAddr}
  BY <1>1 DEF Item
<1>3. nodes[k].id.n \in Nat
  BY <1>2 DEF Ids
<1> QED
  BY <1>2, <1>3 DEF Inv, Registry, IdsOwn

LEMMA NumbersKept ==
  ASSUME Inv, Numbered, q'.out = q.out, bad' = bad, nextCid' = nextCid,
         NumbersUsed({}), ExpectNoMore
  PROVE  Numbered'
<1>1. OutShape' /\ NumbersFit' /\ ~bad'
  BY DEF Numbered, OutShape, NumbersFit
<1>2. \A k \in Keys : nodes'[k] # Free => nodes[k] # Free /\ nodes'[k].id = nodes[k].id
                                            /\ nodes'[k].seq = nodes[k].seq
  BY DEF NumbersUsed
<1>3. NumbersApart'
  BY <1>2 DEF Numbered, NumbersApart
<1>4. IdlesNew'
  <2>1. SUFFICES ASSUME NEW k \in Keys, nodes'[k] # Free, nodes'[k].phase = "idle"
                 PROVE  /\ nodes'[k].addr = NoAddr /\ nodes'[k].seq = 0
                        /\ ~Expects(peer'[nodes'[k].id.n]) /\ ~Sent(q'.out, nodes'[k].id.n)
    BY DEF IdlesNew
  <2>2. /\ nodes[k] # Free /\ nodes[k].phase = "idle" /\ nodes'[k].addr = nodes[k].addr
        /\ nodes'[k].id = nodes[k].id /\ nodes'[k].seq = nodes[k].seq
    BY <1>2, <2>1 DEF NumbersUsed
  <2>3. /\ nodes[k].addr = NoAddr /\ nodes[k].seq = 0
        /\ ~Expects(peer[nodes[k].id.n]) /\ ~Sent(q.out, nodes[k].id.n)
    BY <2>2 DEF Numbered, IdlesNew
  <2>4. nodes[k].id.n \in 0 .. IdMax - 1
    BY <2>2, IdFacts, ServerWorkerAssumption DEF Numbered, NumbersFit, Inv, Shape
  <2> QED
    BY <2>2, <2>3, <2>4 DEF ExpectNoMore
<1>5. NumbersNew'
  BY DEF Numbered, NumbersNew, ExpectNoMore
<1>6. InOrder'
  <2>1. SUFFICES ASSUME NEW n \in 0 .. IdMax - 1, Expects(peer'[n])
                 PROVE  \E b \in Nat : /\ Numbers(q'.out, n, peer'[n].seq, b)
                          /\ \A k \in Keys : nodes'[k] # Free /\ nodes'[k].id.n = n => nodes'[k].seq = b
    BY DEF InOrder
  <2>2. Expects(peer[n]) /\ peer'[n].seq = peer[n].seq
    BY <2>1 DEF ExpectNoMore
  <2>3. PICK b \in Nat : /\ Numbers(q.out, n, peer[n].seq, b)
                          /\ \A k \in Keys : nodes[k] # Free /\ nodes[k].id.n = n => nodes[k].seq = b
    BY <2>2 DEF Numbered, InOrder
  <2>4. Numbers(q'.out, n, peer'[n].seq, b)
    BY <2>2, <2>3
  <2>5. \A k \in Keys : nodes'[k] # Free /\ nodes'[k].id.n = n => nodes'[k].seq = b
    BY <1>2, <2>3
  <2> QED
    BY <2>4, <2>5
<1> QED
  BY <1>1, <1>3, <1>4, <1>5, <1>6 DEF Numbered

\* The connections of K send a packet.
LEMMA NumbersSent ==
  ASSUME Inv, Numbered, NEW K \in SUBSET Keys, NEW p \in Packets,
         \A k \in K : nodes[k] # Free /\ nodes[k].phase # "idle",
         p.ids = {[id |-> nodes[k].id, seq |-> nodes[k].seq] : k \in K},
         q'.out = Append(q.out, p), bad' = bad, nextCid' = nextCid,
         NumbersUsed(K), ExpectNoMore
  PROVE  Numbered'
<1> DEFINE w(k) == [id |-> nodes[k].id, seq |-> nodes[k].seq]
<1>0. /\ \A k \in K : w(k) \in p.ids /\ w(k).id = nodes[k].id /\ w(k).seq = nodes[k].seq
      /\ \A x \in p.ids : \E k \in K : x = w(k)
  OBVIOUS
<1> HIDE DEF w
<1>1. NamedOnce(p)
  <2>1. \A j, k \in K : nodes[j].id.n = nodes[k].id.n => j = k
    BY DEF Numbered, NumbersApart
  <2> QED
    BY <1>0, <2>1 DEF NamedOnce
<1>2. \A n : n \in Sessions(p) <=> \E k \in K : nodes[k].id.n = n
  <2>1. \A n : n \in Sessions(p) <=> \E x \in p.ids : x.id.n = n
    BY DEF Sessions
  <2> QED
    BY <1>0, <2>1
<1>3. /\ q.out \in Seq(Packets) /\ q'.out \in Seq(Packets)
      /\ \A n : Sent(q'.out, n) <=> Sent(q.out, n) \/ n \in Sessions(p)
      /\ \A i \in DOMAIN q'.out : q'.out[i] = p \/ \E j \in DOMAIN q.out : q'.out[i] = q.out[j]
  <2>1. q.out \in Seq(Packets)
    BY DEF Numbered, OutShape
  <2>2. /\ q'.out \in Seq(Packets) /\ DOMAIN q'.out = 1 .. Len(q.out) + 1 /\ DOMAIN q.out = 1 .. Len(q.out)
        /\ q'.out[Len(q.out) + 1] = p /\ \A i \in 1 .. Len(q.out) : q'.out[i] = q.out[i]
        /\ Len(q.out) \in Nat
    BY <2>1
  <2>3. \A i \in DOMAIN q'.out : i = Len(q.out) + 1 \/ i \in 1 .. Len(q.out)
    BY <2>2
  <2>4. \A n : Sent(q'.out, n) <=> Sent(q.out, n) \/ n \in Sessions(p)
    <3>1. Len(q.out) + 1 \in DOMAIN q'.out /\ \A i \in DOMAIN q.out : i \in DOMAIN q'.out
      BY <2>2
    <3> QED
      BY <2>2, <2>3, <3>1 DEF Sent
  <2> QED
    BY <2>1, <2>2, <2>3, <2>4
<1>4. OutShape' /\ NumbersFit' /\ ~bad'
  <2>1. \A i \in DOMAIN q.out : NamedOnce(q.out[i])
    BY DEF Numbered, OutShape
  <2>2. \A i \in DOMAIN q'.out : NamedOnce(q'.out[i])
    BY <1>1, <1>3, <2>1
  <2>3. OutShape'
    BY <1>3, <2>2 DEF OutShape
  <2> QED
    BY <2>3 DEF Numbered, NumbersFit
<1>5. \A k \in Keys : nodes'[k] # Free => nodes[k] # Free /\ nodes'[k].id = nodes[k].id
  BY DEF NumbersUsed
<1>6. NumbersApart'
  BY <1>5 DEF Numbered, NumbersApart
<1>7. IdlesNew'
  <2>1. SUFFICES ASSUME NEW k \in Keys, nodes'[k] # Free, nodes'[k].phase = "idle"
                 PROVE  /\ nodes'[k].addr = NoAddr /\ nodes'[k].seq = 0
                        /\ ~Expects(peer'[nodes'[k].id.n]) /\ ~Sent(q'.out, nodes'[k].id.n)
    BY DEF IdlesNew
  <2>2. /\ nodes[k] # Free /\ nodes[k].phase = "idle" /\ nodes'[k].addr = nodes[k].addr
        /\ nodes'[k].id = nodes[k].id /\ k \notin K /\ nodes'[k].seq = nodes[k].seq
    BY <2>1 DEF NumbersUsed
  <2>3. /\ nodes[k].addr = NoAddr /\ nodes[k].seq = 0
        /\ ~Expects(peer[nodes[k].id.n]) /\ ~Sent(q.out, nodes[k].id.n)
    BY <2>2 DEF Numbered, IdlesNew
  <2>4. nodes[k].id.n \in 0 .. IdMax - 1
    BY <2>2, IdFacts, ServerWorkerAssumption DEF Numbered, NumbersFit, Inv, Shape
  <2>5. nodes[k].id.n \notin Sessions(p)
    BY <1>2, <2>2 DEF Numbered, NumbersApart
  <2> QED
    BY <1>3, <2>2, <2>3, <2>4, <2>5 DEF ExpectNoMore
<1>8. NumbersNew'
  <2>1. SUFFICES ASSUME NEW n \in 0 .. IdMax - 1, n >= nextCid
                 PROVE  ~Expects(peer'[n]) /\ ~Sent(q'.out, n)
    BY DEF NumbersNew
  <2>2. n \notin Sessions(p)
    <3>1. \A k \in K : nodes[k].id.n \in Nat /\ nodes[k].id.n < nextCid
      BY IdFacts
    <3>2. nextCid \in Nat /\ n \in Nat
      BY ServerWorkerAssumption DEF Inv, Shape
    <3>3. \A k \in K : nodes[k].id.n # n
      BY <2>1, <3>1, <3>2
    <3> QED
      BY <1>2, <3>3
  <2> QED
    BY <1>3, <2>1, <2>2 DEF Numbered, NumbersNew, ExpectNoMore
<1>9. InOrder'
  <2>1. SUFFICES ASSUME NEW n \in 0 .. IdMax - 1, Expects(peer'[n])
                 PROVE  \E b \in Nat : /\ Numbers(q'.out, n, peer'[n].seq, b)
                          /\ \A k \in Keys : nodes'[k] # Free /\ nodes'[k].id.n = n => nodes'[k].seq = b
    BY DEF InOrder
  <2>2. Expects(peer[n]) /\ peer'[n].seq = peer[n].seq
    BY <2>1 DEF ExpectNoMore
  <2>3. PICK b \in Nat : /\ Numbers(q.out, n, peer[n].seq, b)
                          /\ \A k \in Keys : nodes[k] # Free /\ nodes[k].id.n = n => nodes[k].seq = b
    BY <2>2 DEF Numbered, InOrder
  <2>4. CASE n \in Sessions(p)
    <3>1. PICK j \in K : nodes[j].id.n = n
      BY <1>2, <2>4
    <3>2. \A x \in p.ids : x.id.n = n => x.seq = b
      <4>1. nodes[j].seq = b
        BY <2>3, <3>1
      <4>2. \A x \in p.ids : x.id.n = n => x = w(j)
        BY <1>0, <1>1, <3>1 DEF NamedOnce
      <4> QED
        BY <1>0, <4>1, <4>2
    <3>3. Step(p, n, b, Inc(b)) /\ Inc(b) \in Nat
      BY <2>4, <3>2, IncType DEF Step
    <3>4. Numbers(q'.out, n, peer'[n].seq, Inc(b))
      BY <1>3, <2>2, <2>3, <3>3, NumbersAppend
    <3>5. ASSUME NEW k \in Keys, nodes'[k] # Free, nodes'[k].id.n = n PROVE nodes'[k].seq = Inc(b)
      <4>1. nodes[k] # Free /\ nodes[k].id.n = n
        BY <1>5, <3>5
      <4>2. k = j
        BY <3>1, <4>1 DEF Numbered, NumbersApart
      <4>3. nodes'[k].seq = Inc(nodes[k].seq)
        BY <3>1, <3>5, <4>2 DEF NumbersUsed
      <4> QED
        BY <2>3, <4>1, <4>3
    <3> QED
      BY <3>3, <3>4, <3>5
  <2>5. CASE n \notin Sessions(p)
    <3>1. Step(p, n, b, b)
      BY <2>5 DEF Step
    <3>2. Numbers(q'.out, n, peer'[n].seq, b)
      BY <1>3, <2>2, <2>3, <3>1, NumbersAppend
    <3>3. ASSUME NEW k \in Keys, nodes'[k] # Free, nodes'[k].id.n = n PROVE nodes'[k].seq = b
      <4>1. nodes[k] # Free /\ nodes[k].id.n = n
        BY <1>5, <3>3
      <4>2. k \notin K
        BY <1>2, <2>5, <4>1
      <4>3. nodes'[k].seq = nodes[k].seq
        BY <3>3, <4>2 DEF NumbersUsed
      <4> QED
        BY <2>3, <4>1, <4>3
    <3> QED
      BY <3>2, <3>3
  <2> QED
    BY <2>4, <2>5
<1> QED
  BY <1>4, <1>6, <1>7, <1>8, <1>9 DEF Numbered

\* The connection with key k is a new one, or begins anew.
LEMMA NumbersGiven ==
  ASSUME Inv, Numbered, nextCid < IdMax, nextCid' = nextCid + 1,
         q'.out = q.out, bad' = bad, peer' = peer,
         NEW k \in Keys, nodes'[k] # Free, nodes'[k].id.n = nextCid, nodes'[k].seq = 0,
         nodes'[k].addr = NoAddr, \A j \in Keys : j # k => nodes'[j] = nodes[j]
  PROVE  Numbered'
<1>0. nextCid \in Nat /\ nextCid \in 0 .. IdMax - 1
  BY ServerWorkerAssumption DEF Inv, Shape
<1>1. OutShape' /\ NumbersFit' /\ ~bad'
  BY <1>0, ServerWorkerAssumption DEF Numbered, OutShape, NumbersFit
<1>2. ~Expects(peer[nextCid]) /\ ~Sent(q.out, nextCid)
  BY <1>0 DEF Numbered, NumbersNew
<1>3. \A j \in Keys : nodes[j] # Free => nodes[j].id.n # nextCid
  BY <1>0, IdFacts
<1>4. NumbersApart'
  <2>1. SUFFICES ASSUME NEW i \in Keys, NEW j \in Keys, nodes'[i] # Free, nodes'[j] # Free,
                        nodes'[i].id.n = nodes'[j].id.n
                 PROVE  i = j
    BY DEF NumbersApart
  <2>2. CASE i = k \/ j = k
    BY <1>3, <2>1, <2>2
  <2>3. CASE i # k /\ j # k
    BY <2>1, <2>3 DEF Numbered, NumbersApart
  <2> QED
    BY <2>2, <2>3
<1>5. IdlesNew'
  <2>1. SUFFICES ASSUME NEW j \in Keys, nodes'[j] # Free, nodes'[j].phase = "idle"
                 PROVE  /\ nodes'[j].addr = NoAddr /\ nodes'[j].seq = 0
                        /\ ~Expects(peer[nodes'[j].id.n]) /\ ~Sent(q.out, nodes'[j].id.n)
    BY DEF IdlesNew
  <2>2. CASE j = k
    BY <1>2, <2>2
  <2>3. CASE j # k
    BY <2>1, <2>3 DEF Numbered, IdlesNew
  <2> QED
    BY <2>2, <2>3
<1>6. NumbersNew'
  <2>1. \A n \in 0 .. IdMax - 1 : n >= nextCid' => n >= nextCid
    BY <1>0
  <2> QED
    BY <2>1 DEF Numbered, NumbersNew
<1>7. InOrder'
  <2>1. SUFFICES ASSUME NEW n \in 0 .. IdMax - 1, Expects(peer[n])
                 PROVE  \E b \in Nat : /\ Numbers(q.out, n, peer[n].seq, b)
                          /\ \A j \in Keys : nodes'[j] # Free /\ nodes'[j].id.n = n => nodes'[j].seq = b
    BY DEF InOrder
  <2>2. n # nextCid
    BY <1>2, <2>1
  <2>3. \A j \in Keys : nodes'[j] # Free /\ nodes'[j].id.n = n => nodes'[j] = nodes[j]
    BY <2>2
  <2>4. PICK b \in Nat : /\ Numbers(q.out, n, peer[n].seq, b)
                          /\ \A j \in Keys : nodes[j] # Free /\ nodes[j].id.n = n => nodes[j].seq = b
    BY <2>1 DEF Numbered, InOrder
  <2> QED
    BY <2>3, <2>4
<1> QED
  BY <1>1, <1>4, <1>5, <1>6, <1>7 DEF Numbered

-----------------------------------------------------------------------------
(* The steps                                                               *)

LEMMA ExpectSame == ASSUME peer' = peer PROVE ExpectNoMore
BY DEF ExpectNoMore

LEMMA NumbersStay ==
  ASSUME Inv, Numbered, UNCHANGED <<nodes, nextCid, peer, bad>>, q'.out = q.out
  PROVE  Numbered'
<1>1. NumbersUsed({})
  BY DEF NumbersUsed
<1> QED
  BY <1>1, ExpectSame, NumbersKept

LEMMA QuietNumbers ==
  ASSUME Inv, Numbered,
         \/ KeepAliveNothing \/ KeepAliveStop \/ RunStop \/ RunTasksDone \/ RunCancelMore \/ RunEnd
         \/ RunTimeout \/ MgrHandleMessage \/ \E m \in Modes : HandleRecv(m)
  PROVE  Numbered'
<1>1. UNCHANGED <<nodes, nextCid, peer, bad>>
  BY DEF KeepAliveNothing, KeepAliveStop, RunStop, RunTasksDone, RunCancelMore, RunEnd, RunTimeout,
         MgrHandleMessage, HandleRecv
<1>2. q'.out = q.out
  <2>1. CASE \/ KeepAliveNothing \/ KeepAliveStop \/ RunStop \/ RunTasksDone \/ RunCancelMore
             \/ RunEnd \/ RunTimeout
    BY <2>1 DEF KeepAliveNothing, KeepAliveStop, RunStop, RunTasksDone, RunCancelMore, RunEnd, RunTimeout
  <2>2. CASE MgrHandleMessage
    BY <2>2, QueueFacts DEF MgrHandleMessage
  <2>3. CASE \E m \in Modes : HandleRecv(m)
    BY <2>3, QueueFacts DEF HandleRecv
  <2> QED
    BY <2>1, <2>2, <2>3
<1> QED
  BY <1>1, <1>2, NumbersStay

\* Connections that are only put into the batch.
LEMMA NumbersSame ==
  ASSUME Inv, Numbered, Kept(nodes, nodes'), SameIds(nodes, nodes'), SameTalk(nodes, nodes'),
         UNCHANGED <<nextCid, q, peer, bad>>
  PROVE  Numbered'
<1>1. NumbersUsed({})
  BY DEF NumbersUsed, Kept, SameIds, SameTalk
<1> QED
  BY <1>1, ExpectSame, NumbersKept

LEMMA IntervalNumbers == ASSUME Inv, Numbered, KeepAliveInterval PROVE Numbered'
<1>1. PICK s : /\ s = AddKeys(task.kaIndex, KaEnd) /\ nodes' = s.nodes
               /\ UNCHANGED <<nextCid, q, peer, bad>>
  BY DEF KeepAliveInterval
<1>2. task.kaIndex \in Nat /\ KaEnd \in 0 .. Cap /\ task.kaIndex <= KaEnd
  BY KaEndGives
<1>3. Good(nodes, s)
  BY <1>1, <1>2, AddKeysGives DEF Inv, Shape, BatchKept
<1> QED
  BY <1>1, <1>3, NumbersSame DEF Good

LEMMA CancelFillNumbers == ASSUME Inv, Numbered, RunCancelFill PROVE Numbered'
<1>1. PICK next, s : FilledTo(next, s) /\ Good(nodes, s)
  BY CancelFillGives
<1>2. UNCHANGED <<nextCid, q, peer, bad>>
  BY DEF RunCancelFill
<1> QED
  BY <1>1, <1>2, NumbersSame DEF Good, FilledTo

LEMMA BatchNumbers ==
  ASSUME Inv, Numbered, NEW t \in {"cancel", "keepAlive"}, NEW r, r = NextBatchMessage(t),
         nodes' = r.nodes,
         q' = IF r.packet.ids = {} THEN q ELSE [q EXCEPT !.out = Append(@, r.packet)],
         UNCHANGED <<nextCid, peer, bad>>
  PROVE  Numbered'
<1>1. nodes \in Nodes /\ BatchShape(batch) /\ Live(batch, nodes)
  BY DEF Inv, Shape, BatchKept
<1>2. PICK K \in SUBSET Keys : SendsFor(K, t, r)
  BY <1>1, NextBatchMessageSends
<1>3. Kept(nodes, nodes') /\ SameIds(nodes, nodes')
  BY <1>1, NextBatchMessageGives
<1>4. NumbersUsed(K)
  <2>1. SUFFICES ASSUME NEW k \in Keys, nodes'[k] # Free
                 PROVE  /\ nodes[k] # Free /\ nodes'[k].id = nodes[k].id
                        /\ nodes'[k].seq = IF k \in K THEN Inc(nodes[k].seq) ELSE nodes[k].seq
                        /\ nodes'[k].phase = nodes[k].phase /\ nodes'[k].addr = nodes[k].addr
    BY DEF NumbersUsed
  <2>2. nodes[k] # Free
    BY <1>3, <2>1 DEF Kept
  <2> QED
    BY <1>2, <1>3, <2>2 DEF SendsFor, SameIds
<1> DEFINE ids == {[id |-> nodes[k].id, seq |-> nodes[k].seq] : k \in K}
<1>5. r.packet.ids = ids /\ \A k \in K : nodes[k] # Free /\ nodes[k].addr # NoAddr
  BY <1>2 DEF SendsFor
<1>6. CASE K = {}
  <2>1. r.packet.ids = {}
    BY <1>5, <1>6
  <2>2. q'.out = q.out
    BY <2>1
  <2> QED
    BY <1>4, <1>6, <2>2, ExpectSame, NumbersKept
<1>7. CASE K # {}
  <2>1. PICK k \in K : TRUE
    BY <1>7
  <2>2. [id |-> nodes[k].id, seq |-> nodes[k].seq] \in ids
    BY <2>1
  <2>3. r.packet.ids # {}
    BY <1>5, <2>2
  <2>4. q'.out = Append(q.out, r.packet)
    BY <2>3, QueueFacts
  <2>5. \A j \in K : nodes[j].phase # "idle"
    BY <1>5 DEF Numbered, IdlesNew
  <2>6. ids \in SUBSET [id : Ids, seq : Nat]
    <3>1. \A j \in K : nodes[j].id \in Ids /\ nodes[j].seq \in Nat
      BY <1>5, IdFacts
    <3> QED
      BY <3>1
  <2>7. r.packet \in Packets
    <3>1. /\ r.packet = [t |-> r.packet.t, to |-> r.packet.to, ids |-> r.packet.ids]
          /\ r.packet.t = t /\ r.packet.to \in Addrs \cup {NoAddr}
      BY <1>2 DEF SendsFor
    <3> HIDE DEF ids
    <3> QED
      BY <1>5, <2>6, <3>1 DEF Packets
  <2> QED
    BY <1>4, <1>5, <2>4, <2>5, <2>7, ExpectSame, NumbersSent
<1> QED
  BY <1>6, <1>7

LEMMA BatchSendNumbers ==
  ASSUME Inv, Numbered, KeepAliveSend \/ RunCancelSend PROVE Numbered'
<1>1. \E t \in {"cancel", "keepAlive"} : \E r :
         /\ r = NextBatchMessage(t) /\ nodes' = r.nodes
         /\ q' = IF r.packet.ids = {} THEN q ELSE [q EXCEPT !.out = Append(@, r.packet)]
         /\ UNCHANGED <<nextCid, peer, bad>>
  <2>1. CASE KeepAliveSend
    <3> DEFINE r == NextBatchMessage("keepAlive")
    <3>1. /\ nodes' = r.nodes
          /\ q' = IF r.packet.ids = {} THEN q ELSE [q EXCEPT !.out = Append(@, r.packet)]
          /\ UNCHANGED <<nextCid, peer, bad>>
      BY <2>1 DEF KeepAliveSend
    <3> HIDE DEF r
    <3> QED
      BY <3>1 DEF r
  <2>2. CASE RunCancelSend
    <3> DEFINE r == NextBatchMessage("cancel")
    <3>1. /\ nodes' = r.nodes
          /\ q' = IF r.packet.ids = {} THEN q ELSE [q EXCEPT !.out = Append(@, r.packet)]
          /\ UNCHANGED <<nextCid, peer, bad>>
      BY <2>2 DEF RunCancelSend
    <3> HIDE DEF r
    <3> QED
      BY <3>1 DEF r
  <2> QED
    BY <2>1, <2>2
<1>2. PICK t, r :
         /\ t \in {"cancel", "keepAlive"} /\ r = NextBatchMessage(t) /\ nodes' = r.nodes
         /\ q' = IF r.packet.ids = {} THEN q ELSE [q EXCEPT !.out = Append(@, r.packet)]
         /\ UNCHANGED <<nextCid, peer, bad>>
  BY <1>1
<1> QED
  BY <1>2, BatchNumbers

LEMMA AcceptStopNumbers == ASSUME Inv, Numbered, AcceptStop PROVE Numbered'
<1>1. /\ nodes' = [k \in Keys |-> IF nodes[k] # Free THEN [nodes[k] EXCEPT !.stop = TRUE] ELSE Free]
      /\ UNCHANGED <<nextCid, q, peer, bad>>
  BY DEF AcceptStop
<1>2. NumbersUsed({})
  <2>1. SUFFICES ASSUME NEW k \in Keys, nodes'[k] # Free
                 PROVE  /\ nodes[k] # Free /\ nodes'[k].id = nodes[k].id
                        /\ nodes'[k].seq = nodes[k].seq
                        /\ nodes'[k].phase = nodes[k].phase /\ nodes'[k].addr = nodes[k].addr
    BY DEF NumbersUsed
  <2>2. nodes[k] # Free /\ nodes'[k] = [nodes[k] EXCEPT !.stop = TRUE]
    BY <1>1, <2>1
  <2>3. nodes[k] \in Item
    BY <2>2, NodeType DEF Inv, Shape
  <2> QED
    BY <2>2, <2>3 DEF Item
<1> QED
  BY <1>1, <1>2, ExpectSame, NumbersKept

LEMMA AcceptDoneNumbers == ASSUME Inv, Numbered, NEW m \in Modes, AcceptDone(m) PROVE Numbered'
<1> DEFINE k == Head(q.done[m])
<1>1. /\ q.done[m] # <<>> /\ nodes' = [nodes EXCEPT ![k] = Free]
      /\ q' = [q EXCEPT !.done[m] = Tail(@)]
      /\ UNCHANGED <<nextCid, peer, bad>>
  BY DEF AcceptDone, ConnectionsRemove
<1> HIDE DEF k
<1>2. NumbersUsed({})
  <2>1. \A j \in Keys : nodes'[j] # Free => nodes'[j] = nodes[j]
    BY <1>1 DEF Inv, Shape, Nodes
  <2> QED
    BY <2>1 DEF NumbersUsed
<1>3. q'.out = q.out
  BY <1>1, QueueFacts
<1> QED
  BY <1>1, <1>2, <1>3, ExpectSame, NumbersKept

LEMMA AcceptNumbers == ASSUME Inv, Numbered, NEW m \in Modes, Accept(m) PROVE Numbered'
<1> DEFINE k == Head(vacant)
           y == NewItem(m, k, Last(pool))
<1>1. /\ nextCid < IdMax /\ nextCid' = nextCid + 1 /\ nodes' = [nodes EXCEPT ![k] = y]
      /\ UNCHANGED <<q, peer, bad>>
  BY DEF Accept
<1>2. k \in Keys
  <2>1. vacant # <<>>
    BY RoomToAccept DEF Accept
  <2> QED
    BY <2>1 DEF Inv, Shape
<1>3. y.phase = "idle" /\ y.id.n = nextCid /\ y.seq = 0 /\ y.addr = NoAddr
  BY DEF NewItem, GenId
<1>4. y # Free
  BY <1>3 DEF Free
<1> HIDE DEF k, y
<1>5. nodes'[k] = y /\ \A j \in Keys : j # k => nodes'[j] = nodes[j]
  BY <1>1, <1>2 DEF Inv, Shape, Nodes
<1> QED
  BY <1>1, <1>2, <1>3, <1>4, <1>5, NumbersGiven

\* A step of the connection with key k, which sends a packet (K = {k}) or none.
LEMMA ConnUses ==
  ASSUME Inv, NEW k \in Keys, nodes[k] # Free, NEW y, nodes' = [nodes EXCEPT ![k] = y],
         NEW K \in {{}, {k}}, y.id = nodes[k].id, y.phase # "idle",
         y.seq = IF k \in K THEN Inc(nodes[k].seq) ELSE nodes[k].seq
  PROVE  NumbersUsed(K)
<1>1. nodes'[k] = y /\ \A j \in Keys : j # k => nodes'[j] = nodes[j]
  BY DEF Inv, Shape, Nodes
<1>2. \A j \in Keys : j # k => j \notin K
  OBVIOUS
<1> QED
  BY <1>1, <1>2 DEF NumbersUsed

LEMMA ConnSends ==
  ASSUME Inv, Numbered, NEW k \in Keys, Running(k), nodes[k].phase # "idle",
         NEW t \in {"data", "handoffProceed", "cancel"}, q'.out = Append(q.out, Packet(k, t)),
         NEW y, nodes' = [nodes EXCEPT ![k] = y], y.id = nodes[k].id, y.phase # "idle",
         y.seq = Inc(nodes[k].seq), UNCHANGED <<nextCid, peer, bad>>
  PROVE  Numbered'
<1> DEFINE p == Packet(k, t)
<1>1. nodes[k] # Free
  BY DEF Running
<1>2. p = [t |-> t, to |-> nodes[k].addr, ids |-> {[id |-> nodes[k].id, seq |-> nodes[k].seq]}]
  BY DEF Packet
<1>3. p \in Packets
  BY <1>1, <1>2, IdFacts DEF Packets
<1>4. p.ids = {[id |-> nodes[j].id, seq |-> nodes[j].seq] : j \in {k}}
  BY <1>2
<1>5. NumbersUsed({k})
  BY <1>1, ConnUses
<1> HIDE DEF p
<1>6. q'.out = Append(q.out, p)
  BY DEF p
<1>7. {k} \in SUBSET Keys /\ \A j \in {k} : nodes[j] # Free /\ nodes[j].phase # "idle"
  BY <1>1
<1> QED
  BY <1>3, <1>4, <1>5, <1>6, <1>7, ExpectSame, NumbersSent

LEMMA ConnQuiet ==
  ASSUME Inv, Numbered, NEW k \in Keys, Running(k), q'.out = q.out,
         NEW y, nodes' = [nodes EXCEPT ![k] = y], y.id = nodes[k].id, y.phase # "idle",
         y.seq = nodes[k].seq, UNCHANGED <<nextCid, peer, bad>>
  PROVE  Numbered'
<1>1. NumbersUsed({})
  BY ConnUses DEF Running
<1> QED
  BY <1>1, ExpectSame, NumbersKept

LEMMA ConnSendNumbers == ASSUME Inv, Numbered, NEW k \in Keys, ConnSend(k) PROVE Numbered'
<1> DEFINE y == [nodes[k] EXCEPT !.seq = Inc(@)]
<1>1. /\ Running(k) /\ nodes[k].phase = "active" /\ q' = [q EXCEPT !.out = Append(@, Packet(k, "data"))]
      /\ nodes' = [nodes EXCEPT ![k].seq = Inc(@)] /\ UNCHANGED <<nextCid, peer, bad>>
  BY DEF ConnSend
<1>2. nodes' = [nodes EXCEPT ![k] = y]
  BY <1>1, ConnFacts DEF Nodes
<1>3. y.id = nodes[k].id /\ y.phase = nodes[k].phase /\ y.seq = Inc(nodes[k].seq)
  BY <1>1, ConnFacts DEF Item
<1> HIDE DEF y
<1>4. q'.out = Append(q.out, Packet(k, "data"))
  BY <1>1, QueueFacts
<1> QED
  BY <1>1, <1>2, <1>3, <1>4, ConnSends

LEMMA ConnProceedNumbers == ASSUME Inv, Numbered, NEW k \in Keys, ConnProceed(k) PROVE Numbered'
<1> DEFINE y == [nodes[k] EXCEPT !.seq = Inc(@), !.addr = NoAddr, !.phase = "paused"]
<1>1. /\ Running(k) /\ nodes[k].phase = "flush"
      /\ q' = [q EXCEPT !.out = Append(@, Packet(k, "handoffProceed"))]
      /\ nodes' = [nodes EXCEPT ![k].seq = Inc(@), ![k].addr = NoAddr, ![k].phase = "paused"]
      /\ UNCHANGED <<nextCid, peer, bad>>
  BY DEF ConnProceed
<1>2. nodes' = [nodes EXCEPT ![k] = y]
  BY <1>1, ConnFacts DEF Nodes
<1>3. y.id = nodes[k].id /\ y.phase = "paused" /\ y.seq = Inc(nodes[k].seq)
  BY <1>1, ConnFacts DEF Item
<1> HIDE DEF y
<1>4. q'.out = Append(q.out, Packet(k, "handoffProceed"))
  BY <1>1, QueueFacts
<1> QED
  BY <1>1, <1>2, <1>3, <1>4, ConnSends

LEMMA ConnStopNumbers == ASSUME Inv, Numbered, NEW k \in Keys, ConnStop(k) PROVE Numbered'
<1>1. /\ Running(k) /\ nodes' = [nodes EXCEPT ![k] = Ended(k)] /\ q' = Done(k, q)
      /\ UNCHANGED <<nextCid, peer, bad>>
  BY DEF ConnStop
<1>2. q'.out = q.out
  BY <1>1, QueueFacts DEF Done
<1> QED
  BY <1>1, <1>2, EndedItem, ConnQuiet

\* A cancel that finds no room leaves a number out: the handler does not
\* expect anything any more.
LEMMA ConnClosedNumbers == ASSUME Inv, Numbered, NEW k \in Keys, ConnClosed(k) PROVE Numbered'
<1> DEFINE cancel == nodes[k].addr # NoAddr
           v == IF cancel THEN Inc(nodes[k].seq) ELSE nodes[k].seq
           y == [Ended(k) EXCEPT !.seq = v]
<1>1. /\ Running(k)
      /\ nodes' = [nodes EXCEPT ![k] = [Ended(k) EXCEPT !.seq = IF cancel THEN Inc(@) ELSE @]]
      /\ q' = Done(k, IF cancel /\ OutRoom THEN [q EXCEPT !.out = Append(@, Packet(k, "cancel"))] ELSE q)
      /\ peer' = IF cancel /\ ~OutRoom THEN [peer EXCEPT ![nodes[k].id.n] = Gone] ELSE peer
      /\ UNCHANGED <<nextCid, bad>>
  BY DEF ConnClosed
<1>2. nodes' = [nodes EXCEPT ![k] = y] /\ nodes[k] # Free
  BY <1>1, EndedItem, ConnFacts DEF Running
<1>3. y.id = nodes[k].id /\ y.phase = "ended" /\ y.seq = v
  <2> HIDE DEF v
  <2> QED
    BY <1>1, EndedItem DEF Item
<1> HIDE DEF y
<1>4. CASE ~cancel
  <2>1. q'.out = q.out /\ peer' = peer /\ v = nodes[k].seq
    BY <1>1, <1>4, QueueFacts DEF Done
  <2> QED
    BY <1>1, <1>2, <1>3, <2>1, ConnQuiet
<1>5. CASE cancel /\ OutRoom
  <2>1. q'.out = Append(q.out, Packet(k, "cancel")) /\ peer' = peer /\ v = Inc(nodes[k].seq)
    BY <1>1, <1>5, QueueFacts DEF Done
  <2>2. nodes[k].phase # "idle"
    BY <1>2, <1>5 DEF Numbered, IdlesNew
  <2> QED
    BY <1>1, <1>2, <1>3, <2>1, <2>2, ConnSends
<1>6. CASE cancel /\ ~OutRoom
  <2> DEFINE n0 == nodes[k].id.n
  <2>1. q'.out = q.out /\ peer' = [peer EXCEPT ![n0] = Gone]
    BY <1>1, <1>6, QueueFacts DEF Done
  <2>2. n0 \in 0 .. IdMax - 1
    BY <1>2, IdFacts, ServerWorkerAssumption DEF Numbered, NumbersFit, Inv, Shape
  <2> HIDE DEF n0
  <2>3. ~Expects(peer'[n0]) /\ \A n \in 0 .. IdMax - 1 : n # n0 => peer'[n] = peer[n]
    BY <2>1, <2>2, PeerFacts DEF Expects, Gone
  <2>4. ~bad' /\ OutShape' /\ NumbersFit'
    BY <1>1, <2>1 DEF Numbered, OutShape, NumbersFit
  <2>5. nodes'[k] = y /\ \A j \in Keys : j # k => nodes'[j] = nodes[j]
    BY <1>2 DEF Inv, Shape, Nodes
  <2>6. NumbersApart'
    BY <1>2, <1>3, <2>5 DEF Numbered, NumbersApart
  <2>7. IdlesNew'
    <3>1. SUFFICES ASSUME NEW j \in Keys, nodes'[j] # Free, nodes'[j].phase = "idle"
                   PROVE  /\ nodes'[j].addr = NoAddr /\ nodes'[j].seq = 0
                          /\ ~Expects(peer'[nodes'[j].id.n]) /\ ~Sent(q'.out, nodes'[j].id.n)
      BY DEF IdlesNew
    <3>2. j # k /\ nodes'[j] = nodes[j] /\ nodes[j] # Free /\ nodes[j].phase = "idle"
      BY <1>3, <2>5, <3>1
    <3>3. nodes[j].id.n \in 0 .. IdMax - 1
      BY <3>2, IdFacts, ServerWorkerAssumption DEF Numbered, NumbersFit, Inv, Shape
    <3> QED
      BY <2>1, <2>3, <3>2, <3>3 DEF Numbered, IdlesNew
  <2>8. NumbersNew'
    <3>1. \A n \in 0 .. IdMax - 1 : Expects(peer'[n]) => Expects(peer[n])
      BY <2>3
    <3> QED
      BY <1>1, <2>1, <3>1 DEF Numbered, NumbersNew
  <2>9. InOrder'
    <3>1. SUFFICES ASSUME NEW n \in 0 .. IdMax - 1, Expects(peer'[n])
                   PROVE  \E b \in Nat : /\ Numbers(q'.out, n, peer'[n].seq, b)
                            /\ \A j \in Keys : nodes'[j] # Free /\ nodes'[j].id.n = n => nodes'[j].seq = b
      BY DEF InOrder
    <3>2. n # n0 /\ peer'[n] = peer[n]
      BY <2>3, <3>1
    <3>3. PICK b \in Nat : /\ Numbers(q.out, n, peer[n].seq, b)
                            /\ \A j \in Keys : nodes[j] # Free /\ nodes[j].id.n = n => nodes[j].seq = b
      BY <3>1, <3>2 DEF Numbered, InOrder
    <3>4. \A j \in Keys : nodes'[j] # Free /\ nodes'[j].id.n = n => nodes'[j] = nodes[j]
      BY <1>3, <2>5, <3>2 DEF n0
    <3>5. Numbers(q'.out, n, peer'[n].seq, b)
      BY <2>1, <3>2, <3>3
    <3> QED
      BY <3>3, <3>4, <3>5
  <2> QED
    BY <2>4, <2>6, <2>7, <2>8, <2>9 DEF Numbered
<1> QED
  BY <1>4, <1>5, <1>6

\* What becomes of a connection that takes a message.
MsgGives(k, y) ==
  /\ nodes' = [nodes EXCEPT ![k] = y] /\ q'.out = q.out
  /\ y.id = nodes[k].id /\ y.seq = nodes[k].seq /\ y.mode = nodes[k].mode
  /\ \/ y.phase = "ended" /\ y.addr = nodes[k].addr
     \/ y = nodes[k]
     \/ y.phase \in {"finish", "flush", "active"} /\ nodes[k].phase # "idle"

LEMMA ConnMsgGives == ASSUME Inv, NEW k \in Keys, ConnMsg(k) PROVE \E y : MsgGives(k, y)
<1> DEFINE p == Head(chan[nodes[k].ch])
           from == [nodes[k] EXCEPT !.addr = p.from]
           ph == CASE p.t = "end" -> "finish" [] p.t = "handoffStart" -> "flush"
                   [] OTHER -> IF from.phase = "finish" THEN from.phase ELSE "active"
           y == [from EXCEPT !.phase = ph]
<1>1. Running(k) /\ nodes \in Nodes
  BY DEF ConnMsg, Inv, Shape
<1>2. \/ nodes' = [nodes EXCEPT ![k] = Ended(k)] /\ q' = Done(k, q)
      \/ nodes' = nodes /\ q' = q
      \/ /\ nodes[k].phase \notin {"idle", "flush"} /\ q' = q
         /\ nodes' = [nodes EXCEPT ![k] = [from EXCEPT !.phase =
                      CASE p.t = "end" -> "finish" [] p.t = "handoffStart" -> "flush"
                        [] OTHER -> IF @ = "finish" THEN @ ELSE "active"]]
  BY Zenon DEF ConnMsg
<1>3. CASE nodes' = [nodes EXCEPT ![k] = Ended(k)] /\ q' = Done(k, q)
  <2>1. q'.out = q.out
    BY <1>3, QueueFacts DEF Done
  <2>2. Ended(k).addr = nodes[k].addr
    BY <1>1, ConnFacts DEF Ended, Item
  <2>3. MsgGives(k, Ended(k))
    BY <1>1, <1>3, <2>1, <2>2, EndedItem DEF MsgGives
  <2> QED
    BY <2>3
<1>4. CASE nodes' = nodes /\ q' = q
  <2>1. nodes' = [nodes EXCEPT ![k] = nodes[k]]
    BY <1>1, <1>4 DEF Nodes
  <2>2. MsgGives(k, nodes[k])
    BY <1>4, <2>1 DEF MsgGives
  <2> QED
    BY <2>2
<1>5. CASE /\ nodes[k].phase \notin {"idle", "flush"} /\ q' = q
           /\ nodes' = [nodes EXCEPT ![k] = [from EXCEPT !.phase =
                      CASE p.t = "end" -> "finish" [] p.t = "handoffStart" -> "flush"
                        [] OTHER -> IF @ = "finish" THEN @ ELSE "active"]]
  <2> HIDE DEF p
  <2>1. /\ from.id = nodes[k].id /\ from.seq = nodes[k].seq /\ from.mode = nodes[k].mode
        /\ from = [from EXCEPT !.seq = nodes[k].seq]
        /\ \A x : [from EXCEPT !.phase = x].id = nodes[k].id
        /\ \A x : [from EXCEPT !.phase = x].seq = nodes[k].seq
        /\ \A x : [from EXCEPT !.phase = x].mode = nodes[k].mode
        /\ \A x : [from EXCEPT !.phase = x].phase = x
    BY <1>1, ConnFacts DEF Item
  <2> HIDE DEF from
  <2>2. nodes' = [nodes EXCEPT ![k] = [from EXCEPT !.phase = ph]]
    BY <1>5, Zenon
  <2>3. ph \in {"finish", "flush", "active"}
    BY Zenon
  <2> HIDE DEF ph
  <2>4. MsgGives(k, y)
    BY <1>5, <2>1, <2>2, <2>3 DEF MsgGives
  <2> QED
    BY <2>4
<1> QED
  BY <1>2, <1>3, <1>4, <1>5

LEMMA ConnMsgNumbers == ASSUME Inv, Numbered, NEW k \in Keys, ConnMsg(k) PROVE Numbered'
<1>1. PICK y : MsgGives(k, y)
  BY ConnMsgGives
<1>2. Running(k) /\ UNCHANGED <<nextCid, peer, bad>>
  BY DEF ConnMsg
<1>3. CASE y = nodes[k]
  <2>1. nodes' = nodes /\ q'.out = q.out
    BY <1>1, <1>3 DEF MsgGives, Inv, Shape, Nodes
  <2> QED
    BY <1>2, <2>1, NumbersStay
<1>4. CASE y.phase # "idle"
  BY <1>1, <1>2, <1>4, ConnQuiet DEF MsgGives
<1> QED
  BY <1>1, <1>3, <1>4 DEF MsgGives

LEMMA ConnFinishNumbers == ASSUME Inv, Numbered, NEW k \in Keys, ConnFinish(k) PROVE Numbered'
<1>1. Running(k) /\ UNCHANGED <<peer, bad>> /\ nodes \in Nodes
  BY DEF ConnFinish, Inv, Shape
<1>2. CASE nodes' = [nodes EXCEPT ![k] = Ended(k)] /\ q' = Done(k, q) /\ UNCHANGED <<batch, nextCid>>
  <2>1. q'.out = q.out
    BY <1>2, QueueFacts DEF Done
  <2> QED
    BY <1>1, <1>2, <2>1, EndedItem, ConnQuiet
<1>3. CASE nextCid < IdMax /\ RegenId(k) /\ UNCHANGED q
  <2> DEFINE y == [nodes[k] EXCEPT !.phase = "idle", !.id = GenId(k), !.addr = NoAddr, !.seq = 0,
                                   !.bkey = 0]
  <2>1. nodes' = [nodes EXCEPT ![k] = y] /\ nextCid' = nextCid + 1
    BY <1>3 DEF RegenId
  <2>2. y.phase = "idle" /\ y.id.n = nextCid /\ y.seq = 0 /\ y.addr = NoAddr
    BY <1>1, ConnFacts DEF Item, GenId
  <2>3. y # Free
    BY <2>2 DEF Free
  <2> HIDE DEF y
  <2>4. nodes'[k] = y /\ \A j \in Keys : j # k => nodes'[j] = nodes[j]
    BY <1>1, <2>1 DEF Nodes
  <2> QED
    BY <1>1, <1>3, <2>1, <2>2, <2>3, <2>4, NumbersGiven
<1> QED
  BY <1>2, <1>3 DEF ConnFinish

\* A request: the handlers hear of the session, and expect its next number.
LEMMA ConnRequestNumbers == ASSUME Inv, Numbered, NEW k \in Keys, ConnRequest(k) PROVE Numbered'
<1> DEFINE y == [nodes[k] EXCEPT !.phase = "wait", !.seq = Inc(@)]
           s == [st |-> "has", id |-> nodes[k].id, mode |-> nodes[k].mode, addr |-> NoAddr,
                 seq |-> Inc(0)]
           n0 == nodes[k].id.n
<1>1. /\ Running(k) /\ nodes[k].phase = "idle"
      /\ nodes' = [nodes EXCEPT ![k].phase = "wait", ![k].seq = Inc(@)]
      /\ peer' = [peer EXCEPT ![n0] = s]
      /\ UNCHANGED <<nextCid, q, bad>>
  BY DEF ConnRequest
<1>2. nodes' = [nodes EXCEPT ![k] = y] /\ nodes[k] # Free
  BY <1>1, ConnFacts DEF Nodes, Running
<1>3. y.id = nodes[k].id /\ y.phase = "wait" /\ y.seq = Inc(nodes[k].seq)
  BY <1>1, ConnFacts DEF Item
<1>4. /\ nodes[k].seq = 0 /\ ~Sent(q.out, n0)
  BY <1>1, <1>2 DEF Numbered, IdlesNew
<1>5. n0 \in 0 .. IdMax - 1 /\ n0 < nextCid /\ n0 \in Nat
  BY <1>2, IdFacts, ServerWorkerAssumption DEF Numbered, NumbersFit, Inv, Shape
<1>6. s.seq = Inc(0) /\ Inc(0) \in Nat
  BY IncType
<1> HIDE DEF y, s, n0
<1>7. peer'[n0] = s /\ \A n \in 0 .. IdMax - 1 : n # n0 => peer'[n] = peer[n]
  BY <1>1, <1>5, PeerFacts
<1>8. nodes'[k] = y /\ \A j \in Keys : j # k => nodes'[j] = nodes[j]
  BY <1>2 DEF Inv, Shape, Nodes
<1>9. OutShape' /\ NumbersFit' /\ ~bad'
  BY <1>1 DEF Numbered, OutShape, NumbersFit
<1>10. NumbersApart'
  BY <1>2, <1>3, <1>8 DEF Numbered, NumbersApart
<1>11. IdlesNew'
  <2>1. SUFFICES ASSUME NEW j \in Keys, nodes'[j] # Free, nodes'[j].phase = "idle"
                 PROVE  /\ nodes'[j].addr = NoAddr /\ nodes'[j].seq = 0
                        /\ ~Expects(peer'[nodes'[j].id.n]) /\ ~Sent(q'.out, nodes'[j].id.n)
    BY DEF IdlesNew
  <2>2. j # k /\ nodes'[j] = nodes[j] /\ nodes[j] # Free /\ nodes[j].phase = "idle"
    BY <1>3, <1>8, <2>1
  <2>3. nodes[j].id.n # n0
    BY <1>2, <2>2 DEF Numbered, NumbersApart, n0
  <2>4. nodes[j].id.n \in 0 .. IdMax - 1
    BY <2>2, IdFacts, ServerWorkerAssumption DEF Numbered, NumbersFit, Inv, Shape
  <2> QED
    BY <1>1, <1>7, <2>2, <2>3, <2>4 DEF Numbered, IdlesNew
<1>12. NumbersNew'
  <2>1. SUFFICES ASSUME NEW n \in 0 .. IdMax - 1, n >= nextCid
                 PROVE  ~Expects(peer'[n]) /\ ~Sent(q.out, n)
    BY <1>1 DEF NumbersNew
  <2>2. n # n0
    BY <1>5, <2>1 DEF Inv, Shape
  <2> QED
    BY <1>7, <2>1, <2>2 DEF Numbered, NumbersNew
<1>13. InOrder'
  <2>1. SUFFICES ASSUME NEW n \in 0 .. IdMax - 1, Expects(peer'[n])
                 PROVE  \E b \in Nat : /\ Numbers(q.out, n, peer'[n].seq, b)
                          /\ \A j \in Keys : nodes'[j] # Free /\ nodes'[j].id.n = n => nodes'[j].seq = b
    BY <1>1 DEF InOrder
  <2>2. CASE n = n0
    <3>1. Numbers(q.out, n0, Inc(0), Inc(0))
      BY <1>4, <1>6, NumbersNone DEF Numbered, OutShape
    <3>2. \A j \in Keys : nodes'[j] # Free /\ nodes'[j].id.n = n0 => j = k
      BY <1>2, <1>8 DEF Numbered, NumbersApart, n0
    <3> QED
      BY <1>3, <1>4, <1>6, <1>7, <1>8, <2>2, <3>1, <3>2
  <2>3. CASE n # n0
    <3>1. peer'[n] = peer[n]
      BY <1>7, <2>3
    <3>2. PICK b \in Nat : /\ Numbers(q.out, n, peer[n].seq, b)
                            /\ \A j \in Keys : nodes[j] # Free /\ nodes[j].id.n = n => nodes[j].seq = b
      BY <2>1, <3>1 DEF Numbered, InOrder
    <3>3. \A j \in Keys : nodes'[j] # Free /\ nodes'[j].id.n = n => nodes'[j] = nodes[j]
      BY <1>3, <1>8, <2>3 DEF n0
    <3> QED
      BY <3>1, <3>2, <3>3
  <2> QED
    BY <2>2, <2>3
<1> QED
  BY <1>9, <1>10, <1>11, <1>12, <1>13 DEF Numbered

\* Packets leave the queue, some to nobody: whoever was to get one of those
\* does not expect packets any more.
LEMMA FewerPackets ==
  ASSUME Inv, Numbered, UNCHANGED <<nodes, nextCid>>, ~bad',
         q'.out \in Seq(Packets), \A i \in DOMAIN q'.out : \E j \in DOMAIN q.out : q'.out[i] = q.out[j],
         \A n \in 0 .. IdMax - 1 : Expects(peer'[n]) => Expects(peer[n]),
         \A n \in 0 .. IdMax - 1 : Expects(peer'[n]) => \A b \in Nat :
           Numbers(q.out, n, peer[n].seq, b) => Numbers(q'.out, n, peer'[n].seq, b)
  PROVE  Numbered'
<1>1. OutShape' /\ NumbersFit' /\ NumbersApart'
  BY DEF Numbered, OutShape, NumbersFit, NumbersApart
<1>2. \A n : Sent(q'.out, n) => Sent(q.out, n)
  BY DEF Sent
<1>3. IdlesNew'
  <2>1. \A k \in Keys : nodes[k] # Free => nodes[k].id.n \in 0 .. IdMax - 1
    BY IdFacts, ServerWorkerAssumption DEF Numbered, NumbersFit, Inv, Shape
  <2> QED
    BY <1>2, <2>1 DEF Numbered, IdlesNew
<1>4. NumbersNew'
  BY <1>2 DEF Numbered, NumbersNew
<1>5. InOrder'
  <2>1. SUFFICES ASSUME NEW n \in 0 .. IdMax - 1, Expects(peer'[n])
                 PROVE  \E b \in Nat : /\ Numbers(q'.out, n, peer'[n].seq, b)
                          /\ \A k \in Keys : nodes[k] # Free /\ nodes[k].id.n = n => nodes[k].seq = b
    BY DEF InOrder
  <2>2. PICK b \in Nat : /\ Numbers(q.out, n, peer[n].seq, b)
                          /\ \A k \in Keys : nodes[k] # Free /\ nodes[k].id.n = n => nodes[k].seq = b
    BY <2>1 DEF Numbered, InOrder
  <2> QED
    BY <2>1, <2>2
<1> QED
  BY <1>1, <1>3, <1>4, <1>5 DEF Numbered

LEMMA HandleEndGives ==
  ASSUME Inv, Numbered, NEW m \in Modes, HandleEnd(m)
  PROVE  \E n \in 0 .. Len(q.out) :
           /\ q'.out = SubSeq(q.out, 1, n)
           /\ peer' = [x \in DOMAIN peer |->
                IF \E i \in n + 1 .. Len(q.out) : x \in Sessions(q.out[i]) THEN Gone ELSE peer[x]]
<1>1. PICK n \in IF m = "req" \/ q.mgrIn = <<>> THEN {Len(q.out)} ELSE 0 .. Len(q.out) :
        /\ q' = [q EXCEPT !.out = SubSeq(@, 1, n)]
        /\ peer' = [x \in DOMAIN peer |->
             IF \E i \in n + 1 .. Len(q.out) : x \in Sessions(q.out[i]) THEN Gone ELSE peer[x]]
  BY DEF HandleEnd
<1>2. n \in 0 .. Len(q.out)
  <2>1. Len(q.out) \in Nat
    BY DEF Numbered, OutShape
  <2> QED
    BY <1>1, <2>1
<1>3. q'.out = SubSeq(q.out, 1, n)
  BY <1>1, QueueFacts
<1> QED
  BY <1>1, <1>2, <1>3

LEMMA HandleEndNumbers == ASSUME Inv, Numbered, NEW m \in Modes, HandleEnd(m) PROVE Numbered'
<1>1. PICK n \in 0 .. Len(q.out) :
           /\ q'.out = SubSeq(q.out, 1, n)
           /\ peer' = [x \in DOMAIN peer |->
                IF \E i \in n + 1 .. Len(q.out) : x \in Sessions(q.out[i]) THEN Gone ELSE peer[x]]
  BY HandleEndGives
<1>2. UNCHANGED <<nodes, nextCid>> /\ ~bad'
  BY DEF HandleEnd, Numbered
<1>3. q.out \in Seq(Packets)
  BY DEF Numbered, OutShape
<1>4. /\ q'.out \in Seq(Packets)
      /\ \A i \in DOMAIN q'.out : i \in DOMAIN q.out /\ q'.out[i] = q.out[i]
  BY <1>1, <1>3
<1>5. ASSUME NEW x \in 0 .. IdMax - 1, Expects(peer'[x])
      PROVE  /\ peer'[x] = peer[x]
             /\ \A i \in n + 1 .. Len(q.out) : x \notin Sessions(q.out[i])
  <2>1. ~Expects(Gone)
    BY DEF Expects, Gone
  <2>2. x \in DOMAIN peer
    BY PeerFacts
  <2> QED
    BY <1>1, <1>5, <2>1, <2>2
<1>6. ASSUME NEW x \in 0 .. IdMax - 1, Expects(peer'[x]), NEW b \in Nat,
             Numbers(q.out, x, peer[x].seq, b)
      PROVE  Numbers(q'.out, x, peer'[x].seq, b)
  <2>1. /\ peer'[x] = peer[x]
        /\ \A i \in n + 1 .. Len(q.out) : x \notin Sessions(q.out[i])
    BY <1>5, <1>6
  <2> QED
    BY <1>1, <1>3, <1>6, <2>1, NumbersCut
<1> QED
  BY <1>2, <1>4, <1>5, <1>6, FewerPackets

\* What a handler expects after a packet.
LEMMA TakenGives ==
  ASSUME Inv, NEW n \in 0 .. IdMax - 1, Expects(peer[n]), NEW t, Expects(Taken(peer[n], t))
  PROVE  t # "cancel" /\ Taken(peer[n], t).seq = Inc(peer[n].seq)
<1>1. peer[n] \in Session
  BY PeerFacts DEF Expects
<1>2. ~Expects(Gone) /\ ~Expects(Stopped)
  BY DEF Expects, Gone, Stopped
<1>3. \/ /\ t = "cancel" /\ (Taken(peer[n], t) = Gone \/ Taken(peer[n], t) = Stopped)
      \/ t # "cancel" /\ Taken(peer[n], t) = [peer[n] EXCEPT !.seq = Inc(@)]
      \/ t # "cancel" /\ Taken(peer[n], t) = [peer[n] EXCEPT !.seq = Inc(@), !.st = "has", !.addr = NoAddr]
  <2>1. CASE t = "cancel"
    BY <2>1, Zenon DEF Taken
  <2>2. CASE t # "cancel" /\ t = "handoffProceed"
    BY <2>2 DEF Taken
  <2>3. CASE t # "cancel" /\ t # "handoffProceed"
    BY <2>3 DEF Taken
  <2> QED
    BY <2>1, <2>2, <2>3
<1> QED
  BY <1>1, <1>2, <1>3 DEF Session

LEMMA MgrSendAddrNumbers == ASSUME Inv, Numbered, MgrSendAddr PROVE Numbered'
<1> DEFINE p == Head(q.out)
           seq(n) == (CHOOSE x \in p.ids : x.id.n = n).seq
           takes(n) == n \in Sessions(p) /\ peer[n].st \in {"has", "leaving"}
<1>1. /\ q.out # <<>> /\ q' = [q EXCEPT !.out = Tail(@)] /\ UNCHANGED <<nodes, nextCid>>
      /\ peer' = [n \in DOMAIN peer |-> IF takes(n) THEN Taken(peer[n], p.t) ELSE peer[n]]
      /\ bad' = (bad \/ \E n \in DOMAIN peer : takes(n) /\ seq(n) # peer[n].seq)
  BY DEF MgrSendAddr
<1>2. q.out \in Seq(Packets)
  BY DEF Numbered, OutShape
<1>3. /\ q'.out = Tail(q.out) /\ q'.out \in Seq(Packets)
      /\ \A i \in DOMAIN q'.out : i + 1 \in DOMAIN q.out /\ q'.out[i] = q.out[i + 1]
  <2>1. q'.out = Tail(q.out)
    BY <1>1, QueueFacts
  <2> QED
    BY <1>1, <1>2, <2>1
<1>4. ASSUME NEW n \in 0 .. IdMax - 1, takes(n) PROVE seq(n) = peer[n].seq
  <2>1. PICK b \in Nat : Numbers(q.out, n, peer[n].seq, b)
    BY <1>4 DEF Numbered, InOrder, Expects
  <2>2. PICK c \in Nat : Step(p, n, peer[n].seq, c)
    BY <1>1, <1>2, <2>1, NumbersTail
  <2>3. \E x \in p.ids : x.id.n = n
    BY <1>4 DEF Sessions
  <2>4. \A x \in p.ids : x.id.n = n => x.seq = peer[n].seq
    BY <1>4, <2>2 DEF Step
  <2> QED
    BY <2>3, <2>4
<1>5. ~bad'
  <2>1. ~bad
    BY DEF Numbered
  <2> HIDE DEF seq, takes, p
  <2>2. \A n \in DOMAIN peer : takes(n) => seq(n) = peer[n].seq
    BY <1>4, PeerFacts
  <2> QED
    BY <1>1, <2>1, <2>2
<1>6. ASSUME NEW n \in 0 .. IdMax - 1, Expects(peer'[n])
      PROVE  /\ Expects(peer[n])
             /\ peer'[n].seq = IF n \in Sessions(p) THEN Inc(peer[n].seq) ELSE peer[n].seq
  <2>1. n \in DOMAIN peer
    BY PeerFacts
  <2>2. CASE takes(n)
    <3>1. peer'[n] = Taken(peer[n], p.t) /\ n \in Sessions(p)
      BY <1>1, <2>1, <2>2
    <3>2. Expects(peer[n])
      BY <2>2 DEF Expects
    <3> HIDE DEF p, takes
    <3> QED
      BY <1>6, <3>1, <3>2, TakenGives
  <2>3. CASE ~takes(n)
    <3>1. peer'[n] = peer[n]
      BY <1>1, <2>1, <2>3
    <3>2. n \notin Sessions(p)
      BY <1>6, <2>3, <3>1 DEF Expects
    <3> QED
      BY <1>6, <3>1, <3>2
  <2> QED
    BY <2>2, <2>3
<1>7. ASSUME NEW n \in 0 .. IdMax - 1, Expects(peer'[n]), NEW b \in Nat,
             Numbers(q.out, n, peer[n].seq, b)
      PROVE  Numbers(q'.out, n, peer'[n].seq, b)
  <2>1. PICK c \in Nat : Step(p, n, peer[n].seq, c) /\ Numbers(Tail(q.out), n, c, b)
    BY <1>1, <1>2, <1>7, NumbersTail
  <2>2. c = peer'[n].seq
    BY <1>6, <1>7, <2>1 DEF Step
  <2> QED
    BY <1>3, <2>1, <2>2
<1> HIDE DEF seq, takes, p
<1> QED
  BY <1>1, <1>3, <1>5, <1>6, <1>7, FewerPackets

LEMMA ReplyNumbers ==
  ASSUME Inv, Numbered, NEW m \in Modes, NEW a \in Addrs, NEW t \in ReplyTypes,
         NEW ns \in SUBSET (DOMAIN peer), Reply(m, a, ns, t)
  PROVE  Numbered'
<1> DEFINE new(n) == [peer[n] EXCEPT !.addr = a, !.st = IF t = "handoffStart" THEN "leaving" ELSE "has"]
           p == [mode |-> m, t |-> t, from |-> a, ids |-> {peer[n].id : n \in ns}]
<1>1. /\ UNCHANGED <<nodes, nextCid, bad>>
      /\ q' = [q EXCEPT !.mgrIn = <<p>>]
      /\ peer' = [n \in DOMAIN peer |-> IF n \notin ns THEN peer[n]
                                        ELSE IF t \in {"end", "cancel"} THEN Gone ELSE new(n)]
      /\ \A n \in ns : peer[n].st = "has"
  BY DEF Reply
<1> HIDE DEF p
<1>2. q'.out = q.out
  BY <1>1, QueueFacts
<1>3. NumbersUsed({})
  BY <1>1 DEF NumbersUsed
<1>4. ExpectNoMore
  <2>1. SUFFICES ASSUME NEW n \in 0 .. IdMax - 1, Expects(peer'[n])
                 PROVE  Expects(peer[n]) /\ peer'[n].seq = peer[n].seq
    BY DEF ExpectNoMore
  <2>2. n \in DOMAIN peer
    BY PeerFacts
  <2>3. CASE n \notin ns
    <3>1. peer'[n] = peer[n]
      BY <1>1, <2>2, <2>3
    <3> QED
      BY <2>1, <3>1
  <2>4. CASE n \in ns
    <3>1. Expects(peer[n]) /\ peer[n] \in Session
      BY <1>1, <2>2, <2>4, PeerFacts DEF Expects
    <3>2. ~Expects(Gone)
      BY DEF Expects, Gone
    <3>3. peer'[n] = Gone \/ peer'[n] = new(n)
      BY <1>1, <2>2, <2>4
    <3>4. new(n).seq = peer[n].seq
      BY <3>1 DEF Session
    <3> HIDE DEF new
    <3> QED
      BY <2>1, <3>1, <3>2, <3>3, <3>4
  <2> QED
    BY <2>3, <2>4
<1> QED
  BY <1>1, <1>2, <1>3, <1>4, NumbersKept

LEMMA InitNumbered == Init => Numbered
<1> SUFFICES ASSUME Init PROVE Numbered
  OBVIOUS
<1>1. q.out = <<>> /\ q.out \in Seq(Packets) /\ DOMAIN q.out = {}
  BY DEF Init
<1>2. \A k \in Keys : nodes[k] = Free
  BY DEF Init
<1>3. \A n \in 0 .. IdMax - 1 : ~Expects(peer[n])
  BY DEF Init, Expects, Unknown
<1>4. OutShape /\ NumbersApart /\ IdlesNew /\ NumbersNew /\ InOrder
  BY <1>1, <1>2, <1>3 DEF OutShape, NumbersApart, IdlesNew, NumbersNew, InOrder, Sent
<1>5. NumbersFit /\ ~bad
  BY ServerWorkerAssumption DEF Init, NumbersFit
<1> QED
  BY <1>4, <1>5 DEF Numbered

LEMMA NextNumbered == Inv /\ Numbered /\ [Next]_vars => Numbered'
<1> SUFFICES ASSUME Inv, Numbered, [Next]_vars PROVE Numbered'
  OBVIOUS
<1>1. CASE UNCHANGED vars
  <2>1. UNCHANGED <<nodes, nextCid, peer, bad>> /\ q'.out = q.out
    BY <1>1 DEF vars
  <2> QED
    BY <2>1, NumbersStay
<1>2. CASE \E m \in Modes : Accept(m) \/ HandleTask(m)
  BY <1>2, AcceptNumbers, QuietNumbers, HandleEndNumbers DEF HandleTask
<1>3. CASE \E k \in Keys : ConnNext(k)
  BY <1>3, ConnRequestNumbers, ConnSendNumbers, ConnMsgNumbers, ConnFinishNumbers,
     ConnProceedNumbers, ConnClosedNumbers, ConnStopNumbers DEF ConnNext
<1>4. CASE AcceptTask
  BY <1>4, AcceptStopNumbers, AcceptDoneNumbers DEF AcceptTask
<1>5. CASE KeepAlivesTask \/ RunStop \/ RunStopping
  BY <1>5, IntervalNumbers, BatchSendNumbers, QuietNumbers, CancelFillNumbers
     DEF KeepAlivesTask, RunStopping
<1>6. CASE Manager
  BY <1>6, MgrSendAddrNumbers, QuietNumbers DEF Manager
<1>7. CASE HandlersNext
  BY <1>7, ReplyNumbers DEF HandlersNext
<1> QED
  BY <1>1, <1>2, <1>3, <1>4, <1>5, <1>6, <1>7 DEF Next

\* The packets of a session come to its handler with consecutive numbers,
\* whether a connection, the keep-alives task or the shutdown sends them
\* (ZhttpStreamSessionOut::try_send_msg, next_batch_message): for any number of
\* connections, queues and handlers, and also when the numbers wrap.
THEOREM AlwaysInSequence == Spec => []SeqInOrder
<1>1. Numbered => SeqInOrder
  BY DEF Numbered, SeqInOrder
<1> QED
  BY <1>1, InitInv, NextInv, InitNumbered, NextNumbered, PTL DEF Spec

-----------------------------------------------------------------------------
(* A batch that is being filled                                            *)

\* It has no more addresses than keys, and starts at the first.
Fills(b) ==
  /\ IsFiniteSet(BatchNodes(b))
  /\ BatchIsEmpty(b) \/ (b.index = 1 /\ Len(b.addrs) <= BatchLen(b))

LEMMA NodesOf ==
  ASSUME NEW b, BatchShape(b), NEW i \in Nat, NEW j
  PROVE  <<i, j>> \in BatchNodes(b) <=> j \in DOMAIN KeysAt(b, i)
<1>1. \A a \in DOMAIN b.addrs : a \in Nat
  BY DEF BatchShape
<1>2. <<i, j>> \in BatchNodes(b) <=> i \in DOMAIN b.addrs /\ j \in DOMAIN b.addrs[i].keys
  BY DEF BatchNodes
<1>3. DOMAIN <<>> = {}
  OBVIOUS
<1> QED
  BY <1>2, <1>3 DEF KeysAt

LEMMA NodesArePairs ==
  ASSUME NEW b, BatchShape(b), NEW x \in BatchNodes(b)
  PROVE  \E i \in Nat, j \in Nat : x = <<i, j>>
<1>1. PICK i \in DOMAIN b.addrs : x \in {i} \X DOMAIN b.addrs[i].keys
  BY DEF BatchNodes
<1>2. i \in Nat /\ b.addrs[i].keys \in Seq(Keys)
  BY AddrItemType DEF BatchShape
<1>3. \A j \in DOMAIN b.addrs[i].keys : j \in Nat
  BY <1>2
<1> QED
  BY <1>1, <1>2, <1>3

LEMMA EmptyNodes ==
  ASSUME NEW b, BatchShape(b), BatchIsEmpty(b)
  PROVE  BatchNodes(b) = {} /\ BatchLen(b) = 0 /\ Fills(b)
<1>1. BatchNodes(b) = {}
  <2>1. \A i \in DOMAIN b.addrs : DOMAIN b.addrs[i].keys = {}
    BY DEF BatchIsEmpty
  <2> QED
    BY <2>1 DEF BatchNodes
<1>2. IsFiniteSet(BatchNodes(b)) /\ Cardinality(BatchNodes(b)) = 0
  BY <1>1, FS_EmptySet
<1> QED
  BY <1>1, <1>2 DEF BatchLen, Fills

\* Batch::add does not refuse a key as long as the batch is not full.
LEMMA BatchAddTakes ==
  ASSUME NEW b, BatchShape(b), Fills(b), BatchLen(b) <= BatchCapacity, BatchLen(b) # BatchCapacity,
         NEW addr \in Addrs, NEW k \in Keys, NEW r, r = BatchAdd(b, addr, k)
  PROVE  /\ r.pos # 0 /\ Fills(r.batch) /\ BatchLen(r.batch) = BatchLen(b) + 1
<1> DEFINE c == IF BatchIsEmpty(b) THEN [addrs |-> <<>>, index |-> 1] ELSE b
           found == {i \in DOMAIN c.addrs : c.addrs[i].addr = addr}
           pos == IF found = {} THEN Len(c.addrs) + 1 ELSE CHOOSE i \in found : TRUE
           refused == BatchLen(b) = BatchCapacity \/ pos < c.index \/ pos > BatchCapacity
           new == IF found = {} THEN Append(c.addrs, [addr |-> addr, keys |-> <<k>>])
                  ELSE [c.addrs EXCEPT ![pos].keys = Append(@, k)]
<1>0. BatchLen(b) \in Nat /\ BatchCapacity \in Nat /\ BatchLen(b) < BatchCapacity
  <2>1. BatchLen(b) \in Nat
    BY FS_CardinalityType DEF Fills, BatchLen
  <2> QED
    BY <2>1, KeysType
<1>1. c.index = 1 /\ c.addrs \in Seq(AddrItem) /\ Len(c.addrs) <= BatchLen(b)
  <2>1. CASE BatchIsEmpty(b)
    <3>1. c = [addrs |-> <<>>, index |-> 1] /\ BatchLen(b) = 0
      BY <2>1, EmptyNodes
    <3> HIDE DEF c
    <3> QED
      BY <3>1
  <2>2. CASE ~BatchIsEmpty(b)
    <3>1. c = b
      BY <2>2
    <3> HIDE DEF c
    <3> QED
      BY <2>2, <3>1 DEF Fills, BatchShape
  <2> QED
    BY <2>1, <2>2
<1> HIDE DEF c
<1>2. Len(c.addrs) \in Nat /\ DOMAIN c.addrs = 1 .. Len(c.addrs)
  BY <1>1
<1>3. pos \in 1 .. Len(c.addrs) + 1 /\ (found # {} => pos \in DOMAIN c.addrs)
  BY <1>2
<1>4. ~refused
  <2> HIDE DEF pos
  <2> QED
    BY <1>0, <1>1, <1>2, <1>3
<1>5. r = [pos |-> pos, batch |-> [index |-> c.index, addrs |-> new]]
  <2>1. r = IF refused THEN [batch |-> b, pos |-> 0]
            ELSE [pos |-> pos, batch |-> [index |-> c.index, addrs |-> new]]
    BY DEF BatchAdd, c
  <2> HIDE DEF refused, pos, new
  <2> QED
    BY <1>4, <2>1
<1>6. Len(new) <= Len(c.addrs) + 1 /\ Len(new) \in Nat
  <2>1. CASE found = {}
    <3>1. new = Append(c.addrs, [addr |-> addr, keys |-> <<k>>])
      BY <2>1
    <3> HIDE DEF new
    <3> QED
      BY <1>1, <3>1
  <2>2. CASE found # {}
    <3>1. new = [c.addrs EXCEPT ![pos].keys = Append(@, k)]
      BY <2>2
    <3> HIDE DEF new, pos
    <3>2. DOMAIN new = 1 .. Len(c.addrs)
      BY <1>2, <3>1
    <3>3. Len(new) = Len(c.addrs)
      BY <1>2, <3>2
    <3> QED
      BY <1>2, <3>3
  <2> QED
    BY <2>1, <2>2
<1> HIDE DEF pos, found, new
<1>7. r.pos = pos /\ r.pos # 0 /\ r.pos \in Nat /\ r.batch.index = 1 /\ r.batch.addrs = new
  BY <1>1, <1>2, <1>3, <1>5
<1>8. /\ BatchShape(r.batch)
      /\ \A i \in Nat : KeysAt(r.batch, i) =
                          IF i = r.pos THEN Append(KeysAt(b, i), k) ELSE KeysAt(b, i)
  BY <1>7, BatchAddGives
<1> DEFINE x == <<r.pos, Len(KeysAt(b, r.pos)) + 1>>
<1>9. KeysAt(b, r.pos) \in Seq(Keys)
  BY KeysAtType
<1>10. /\ DOMAIN KeysAt(r.batch, r.pos) = DOMAIN KeysAt(b, r.pos) \cup {Len(KeysAt(b, r.pos)) + 1}
       /\ Len(KeysAt(b, r.pos)) + 1 \notin DOMAIN KeysAt(b, r.pos)
  <2>1. KeysAt(r.batch, r.pos) = Append(KeysAt(b, r.pos), k)
    BY <1>7, <1>8
  <2> HIDE DEF x
  <2> QED
    BY <1>9, <2>1
<1>11. BatchNodes(r.batch) = BatchNodes(b) \cup {x} /\ x \notin BatchNodes(b)
  <2>1. ASSUME NEW i \in Nat, NEW j \in Nat
        PROVE  <<i, j>> \in BatchNodes(r.batch) <=> <<i, j>> \in BatchNodes(b) \/ <<i, j>> = x
    <3>1. /\ <<i, j>> \in BatchNodes(r.batch) <=> j \in DOMAIN KeysAt(r.batch, i)
          /\ <<i, j>> \in BatchNodes(b) <=> j \in DOMAIN KeysAt(b, i)
      BY <1>8, NodesOf
    <3>2. CASE i = r.pos
      BY <1>10, <3>1, <3>2
    <3>3. CASE i # r.pos
      BY <1>8, <3>1, <3>3
    <3> QED
      BY <3>2, <3>3
  <2>2. x \notin BatchNodes(b)
    BY <1>7, <1>10, NodesOf
  <2>3. \E i \in Nat, j \in Nat : x = <<i, j>>
    BY <1>7, <1>9
  <2>4. /\ \A y \in BatchNodes(r.batch) : \E i \in Nat, j \in Nat : y = <<i, j>>
        /\ \A y \in BatchNodes(b) : \E i \in Nat, j \in Nat : y = <<i, j>>
    BY <1>8, NodesArePairs
  <2> HIDE DEF x
  <2> QED
    BY <2>1, <2>2, <2>3, <2>4
<1> HIDE DEF x
<1>12. IsFiniteSet(BatchNodes(r.batch)) /\ BatchLen(r.batch) = BatchLen(b) + 1
  BY <1>11, FS_AddElement DEF Fills, BatchLen
<1>13. Len(r.batch.addrs) <= BatchLen(r.batch)
  BY <1>0, <1>1, <1>2, <1>6, <1>7, <1>12
<1> QED
  BY <1>7, <1>12, <1>13 DEF Fills

\* Connections::batch_add takes it then, if the connection has an address.
Due(c) == c # Free /\ c.mode = "stream" /\ c.addr # NoAddr
InBatch(b, k) == \E i \in Nat : In(KeysAt(b, i), k)

LEMMA ConnectionsBatchAddTakes ==
  ASSUME NEW n \in Nodes, NEW s, Good(n, s), Fills(s.batch),
         BatchLen(s.batch) <= BatchCapacity, BatchLen(s.batch) # BatchCapacity,
         NEW k \in Keys, NEW r, r = ConnectionsBatchAdd(s, k)
  PROVE  /\ Fills(r.batch) /\ BatchLen(r.batch) <= BatchCapacity
         /\ Due(n[k]) => InBatch(r.batch, k)
         /\ \A j \in Keys : InBatch(s.batch, j) => InBatch(r.batch, j)
<1> DEFINE skip == s.nodes[k] = Free \/ s.nodes[k].mode # "stream" \/ s.nodes[k].addr = NoAddr
           a == BatchAdd(s.batch, s.nodes[k].addr, k)
<1>1. CASE skip
  <2>1. r = s
    BY <1>1 DEF ConnectionsBatchAdd
  <2>2. ~Due(n[k])
    BY <1>1 DEF Due, Good, Kept, SameTalk
  <2> QED
    BY <2>1, <2>2
<1>2. CASE ~skip
  <2>1. s.nodes \in Nodes /\ BatchShape(s.batch)
    BY DEF Good, Kept
  <2>2. s.nodes[k].addr \in Addrs
    <3>1. s.nodes[k] \in Item
      BY <1>2, <2>1, NodeType
    <3> QED
      BY <1>2, <3>1 DEF Item
  <2>3. a.pos # 0 /\ Fills(a.batch) /\ BatchLen(a.batch) = BatchLen(s.batch) + 1
    BY <2>1, <2>2, BatchAddTakes
  <2>4. /\ a.pos \in Nat
        /\ \A i \in Nat : KeysAt(a.batch, i) =
             IF i = a.pos THEN Append(KeysAt(s.batch, i), k) ELSE KeysAt(s.batch, i)
    BY <2>1, <2>2, <2>3, BatchAddGives
  <2>5. r.batch = a.batch
    <3>1. r = IF a.pos = 0 THEN s
              ELSE [batch |-> a.batch, nodes |-> [s.nodes EXCEPT ![k].bkey = a.pos]]
      BY <1>2, Zenon DEF ConnectionsBatchAdd
    <3> HIDE DEF a
    <3> QED
      BY <2>3, <3>1
  <2> HIDE DEF a
  <2>6. BatchLen(s.batch) \in Nat /\ BatchCapacity \in Nat
    BY FS_CardinalityType, KeysType DEF Fills, BatchLen
  <2>7. BatchLen(r.batch) <= BatchCapacity
    BY <2>3, <2>5, <2>6
  <2>8. \A i \in Nat : KeysAt(s.batch, i) \in Seq(Keys)
    BY <2>1, KeysAtType
  <2>9. In(KeysAt(r.batch, a.pos), k)
    <3>1. KeysAt(r.batch, a.pos) = Append(KeysAt(s.batch, a.pos), k)
      BY <2>4, <2>5
    <3> QED
      BY <2>4, <2>8, <3>1, AppendSeq
  <2>10. ASSUME NEW i \in Nat, NEW j \in Keys, In(KeysAt(s.batch, i), j)
         PROVE  In(KeysAt(r.batch, i), j)
    <3>1. CASE i = a.pos
      <4>1. KeysAt(r.batch, i) = Append(KeysAt(s.batch, i), k)
        BY <2>4, <2>5, <3>1
      <4> QED
        BY <2>8, <2>10, <4>1, AppendSeq
    <3>2. CASE i # a.pos
      BY <2>4, <2>5, <2>10, <3>2
    <3> QED
      BY <3>1, <3>2
  <2> QED
    BY <2>3, <2>4, <2>5, <2>7, <2>9, <2>10 DEF InBatch
<1> QED
  BY <1>1, <1>2

\* The loop, one key further.
LEMMA AddKeysNext ==
  ASSUME NEW first \in Nat, NEW n \in Nat, first <= n
  PROVE  /\ AddKeys(first, first) = Start
         /\ AddKeys(first, n + 1) = ConnectionsBatchAdd(AddKeys(first, n), n)
<1> DEFINE d == n - first
<1>0. d \in Nat /\ n + 1 \in Nat /\ first <= n + 1 /\ (n + 1) - first = d + 1 /\ first - first = 0
  OBVIOUS
<1>1. AddKeys(first, first) = Start
  BY <1>0, AddKeysSteps
<1>2. PICK r : /\ r[0] = Start
               /\ \A m \in 1 .. d : r[m] = ConnectionsBatchAdd(r[m - 1], first + m - 1)
               /\ AddKeys(first, n) = r[d]
  BY <1>0, AddKeysSteps
<1>3. PICK t : /\ t[0] = Start
               /\ \A m \in 1 .. d + 1 : t[m] = ConnectionsBatchAdd(t[m - 1], first + m - 1)
               /\ AddKeys(first, n + 1) = t[d + 1]
  <2>1. \E t : /\ t[0] = Start
               /\ \A m \in 1 .. (n + 1) - first : t[m] = ConnectionsBatchAdd(t[m - 1], first + m - 1)
               /\ AddKeys(first, n + 1) = t[(n + 1) - first]
    <3> HIDE DEF d
    <3> QED
      BY <1>0, AddKeysSteps
  <2> HIDE DEF d
  <2> QED
    BY <1>0, <2>1
<1> DEFINE P == {m \in Nat : m <= d => r[m] = t[m]}
<1>4. 0 \in P
  BY <1>2, <1>3
<1>5. ASSUME NEW m \in Nat, m \in P PROVE m + 1 \in P
  <2>1. SUFFICES ASSUME m + 1 <= d PROVE r[m + 1] = t[m + 1]
    OBVIOUS
  <2>2. m <= d /\ m + 1 \in 1 .. d /\ m + 1 \in 1 .. d + 1 /\ (m + 1) - 1 = m
    BY <1>0, <2>1
  <2>3. r[m] = t[m]
    BY <1>5, <2>2
  <2>4. /\ r[m + 1] = ConnectionsBatchAdd(r[m], first + (m + 1) - 1)
        /\ t[m + 1] = ConnectionsBatchAdd(t[m], first + (m + 1) - 1)
    <3> HIDE DEF d, P
    <3> QED
      BY <1>2, <1>3, <2>2
  <2> QED
    BY <2>3, <2>4
<1>6. Nat \subseteq P
  <2> HIDE DEF P
  <2> QED
    BY <1>4, <1>5, Induction
<1>7. r[d] = t[d]
  BY <1>0, <1>6
<1>8. t[d + 1] = ConnectionsBatchAdd(t[d], n)
  <2>1. d + 1 \in 1 .. d + 1 /\ (d + 1) - 1 = d /\ first + (d + 1) - 1 = n
    BY <1>0
  <2>2. t[d + 1] = ConnectionsBatchAdd(t[(d + 1) - 1], first + (d + 1) - 1)
    <3> HIDE DEF d, P
    <3> QED
      BY <1>3, <2>1
  <2> HIDE DEF d, P
  <2> QED
    BY <2>1, <2>2
<1> HIDE DEF d, P
<1> QED
  BY <1>1, <1>2, <1>3, <1>7, <1>8

\* The loop of the shutdown that fills an empty batch leaves out no session.
LEMMA FillTakesAll ==
  ASSUME Inv, BatchIsEmpty(batch), NEW next, NEW s, FilledTo(next, s)
  PROVE  \A k \in Keys : k >= task.cancelIndex /\ k < next /\ Due(nodes[k]) => InBatch(s.batch, k)
<1> DEFINE f == task.cancelIndex
           d == next - f
           A(m) == AddKeys(f, f + m)
           Q(m) == /\ Good(nodes, A(m)) /\ Fills(A(m).batch) /\ BatchLen(A(m).batch) <= BatchCapacity
                   /\ \A k \in Keys : k >= f /\ k < f + m /\ Due(nodes[k]) => InBatch(A(m).batch, k)
           P == {m \in Nat : m <= d => Q(m)}
<1>0. f \in Nat /\ next \in Nat /\ Cap \in Nat /\ next <= Cap /\ f <= next
  BY TaskFacts, KeysType DEF FilledTo
<1>1. d \in Nat /\ f + d = next /\ \A m \in Nat : f + m \in Nat /\ f <= f + m
  BY <1>0
<1>2. /\ s = A(d) /\ \A n \in f .. next - 1 : BatchLen(AddKeys(f, n).batch) # BatchCapacity
  <2>1. /\ s = AddKeys(f, next) /\ \A n \in f .. next - 1 : BatchLen(AddKeys(f, n).batch) # BatchCapacity
    BY DEF FilledTo
  <2> HIDE DEF f, d
  <2> QED
    BY <1>1, <2>1
<1>3. nodes \in Nodes /\ BatchShape(batch) /\ Live(batch, nodes)
  BY DEF Inv, Shape, BatchKept
<1> HIDE DEF f, d
<1>4. 0 \in P
  <2>1. A(0) = Start
    BY <1>0, AddKeysNext
  <2>2. Start = [batch |-> batch, nodes |-> nodes] /\ Start.batch = batch /\ Start.nodes = nodes
    BY DEF Start
  <2>3. Good(nodes, Start)
    BY <1>3, <2>2 DEF Good, Kept, SameIds, SameTalk
  <2>4. Fills(batch) /\ BatchLen(batch) <= BatchCapacity
    BY <1>3, EmptyNodes, KeysType
  <2>5. \A k \in Keys : ~(k >= f /\ k < f + 0)
    BY <1>0, KeysType
  <2> HIDE DEF A
  <2> QED
    BY <2>1, <2>2, <2>3, <2>4, <2>5
<1>5. ASSUME NEW m \in Nat, m \in P PROVE m + 1 \in P
  <2>1. SUFFICES ASSUME m + 1 <= d PROVE Q(m + 1)
    OBVIOUS
  <2>2. m <= d /\ f + m \in f .. next - 1 /\ f + (m + 1) = (f + m) + 1 /\ f + m \in Keys
    BY <1>0, <1>1, <2>1 DEF Keys
  <2>3. Q(m)
    BY <1>5, <2>2
  <2>4. BatchLen(A(m).batch) # BatchCapacity
    BY <1>2, <2>2
  <2>5. A(m + 1) = ConnectionsBatchAdd(A(m), f + m)
    BY <1>0, <1>1, <2>2, AddKeysNext
  <2> HIDE DEF A
  <2>6. Good(nodes, A(m + 1))
    BY <1>3, <2>2, <2>3, <2>5, ConnectionsBatchAddGives
  <2>7. /\ Fills(A(m + 1).batch) /\ BatchLen(A(m + 1).batch) <= BatchCapacity
        /\ Due(nodes[f + m]) => InBatch(A(m + 1).batch, f + m)
        /\ \A j \in Keys : InBatch(A(m).batch, j) => InBatch(A(m + 1).batch, j)
    BY <1>3, <2>2, <2>3, <2>4, <2>5, ConnectionsBatchAddTakes
  <2>8. \A k \in Keys : k >= f /\ k < f + (m + 1) => k = f + m \/ (k >= f /\ k < f + m)
    BY <1>0, <1>1, KeysType
  <2>9. \A k \in Keys : k >= f /\ k < f + (m + 1) /\ Due(nodes[k]) => InBatch(A(m + 1).batch, k)
    BY <2>3, <2>7, <2>8
  <2> QED
    BY <2>6, <2>7, <2>9
<1>6. Nat \subseteq P
  <2> HIDE DEF P
  <2> QED
    BY <1>4, <1>5, Induction
<1>7. Q(d)
  BY <1>1, <1>6
<1> HIDE DEF A
<1> QED
  BY <1>1, <1>2, <1>7 DEF f

-----------------------------------------------------------------------------
(* The shutdown                                                            *)

\* The handlers have heard of a connection with a request or an address.
Heard(c) == c # Free /\ (c.addr # NoAddr \/ c.phase \notin {"idle", "ended"})
Known == \A k \in Keys : Heard(nodes[k]) => peer[nodes[k].id.n] # Unknown

\* A handle ends after the connections of its mode, the cancels begin after
\* both handles.
AllEnded == \A m \in Modes : task.handle[m] = "ended" => \A k \in Items(m) : nodes[k].phase = "ended"
HandlesEnded == ~Filling => \A m \in Modes : task.handle[m] = "ended"

\* The loop starts with the first key, and again only with an empty batch.
Emptied ==
  /\ Filling => task.cancelIndex = 0
  /\ task.run = "cancel" => BatchIsEmpty(batch)
  /\ task.run = "ended" /\ ~task.timedOut => BatchIsEmpty(batch) /\ task.cancelIndex = Cap

CancelSent(out, n) == \E i \in DOMAIN out : out[i].t = "cancel" /\ n \in Sessions(out[i])

\* The cancel of a session with a known handler is still to come, its turn is
\* in this batch, or it is on its way, if the session has not ended.
Cancelled ==
  ~Filling => \A k \in Keys : Due(nodes[k]) =>
    \/ k >= task.cancelIndex \/ InBatch(batch, k)
    \/ CancelSent(q.out, nodes[k].id.n) \/ peer[nodes[k].id.n] \in {Stopped, Gone}

Stopping == Known /\ AllEnded /\ HandlesEnded /\ Emptied /\ Cancelled

LEMMA NumberFacts ==
  ASSUME Inv, Numbered, NEW k \in Keys, nodes[k] # Free
  PROVE  nodes[k].id.n \in 0 .. IdMax - 1
BY IdFacts, ServerWorkerAssumption DEF Numbered, NumbersFit, Inv, Shape

\* The handlers forget nothing.
Remembered == \A n \in 0 .. IdMax - 1 : peer[n] # Unknown => peer'[n] # Unknown

LEMMA KnownStays ==
  ASSUME Inv, Numbered, Known, Remembered,
         \A k \in Keys : Heard(nodes'[k]) =>
           (Heard(nodes[k]) /\ nodes'[k].id = nodes[k].id) \/ peer'[nodes'[k].id.n] # Unknown
  PROVE  Known'
<1>1. SUFFICES ASSUME NEW k \in Keys, Heard(nodes'[k]), peer'[nodes'[k].id.n] = Unknown PROVE FALSE
  BY DEF Known
<1>2. Heard(nodes[k]) /\ nodes'[k].id = nodes[k].id
  BY <1>1
<1>3. peer[nodes[k].id.n] # Unknown
  BY <1>2 DEF Known
<1>4. nodes[k].id.n \in 0 .. IdMax - 1
  BY <1>2, NumberFacts DEF Heard
<1> QED
  BY <1>1, <1>2, <1>3, <1>4 DEF Remembered

LEMMA EndedStays ==
  ASSUME AllEnded, task'.handle = task.handle,
         \A k \in Keys : nodes'[k] # Free =>
           /\ nodes[k] # Free /\ nodes'[k].mode = nodes[k].mode
           /\ nodes[k].phase = "ended" => nodes'[k].phase = "ended"
  PROVE  AllEnded'
BY DEF AllEnded, Items

\* Before the cancels.
LEMMA NotYet ==
  ASSUME Inv, Stopping, Filling, Filling', task'.cancelIndex = task.cancelIndex
  PROVE  HandlesEnded' /\ Emptied' /\ Cancelled'
BY DEF Stopping, HandlesEnded, Emptied, Cancelled, Filling

LEMMA RememberedSame == ASSUME peer' = peer PROVE Remembered
BY DEF Remembered

\* Steps that connections are no part of.
LEMMA QuietStops ==
  ASSUME Inv, Numbered, Stopping,
         \/ KeepAliveStop \/ RunStop \/ \E m \in Modes : HandleRecv(m)
  PROVE  Stopping'
<1>1. /\ UNCHANGED <<nodes, peer>> /\ Filling /\ Filling' /\ task'.handle = task.handle
      /\ task'.cancelIndex = task.cancelIndex
  <2>1. CASE KeepAliveStop \/ RunStop
    BY <2>1, TaskFacts DEF KeepAliveStop, RunStop, TaskShape, Filling
  <2>2. CASE \E m \in Modes : HandleRecv(m)
    <3>1. PICK m \in Modes : HandleRecv(m)
      BY <2>2
    <3>2. task.handle[m] = "run" /\ UNCHANGED <<nodes, peer, task>>
      BY <3>1 DEF HandleRecv
    <3>3. Filling
      BY <3>2 DEF Stopping, HandlesEnded
    <3> QED
      BY <3>2, <3>3 DEF Filling
  <2> QED
    BY <2>1, <2>2
<1>2. Known' /\ AllEnded'
  <2>1. Known'
    BY <1>1, RememberedSame, KnownStays DEF Stopping
  <2>2. AllEnded'
    BY <1>1, EndedStays DEF Stopping
  <2> QED
    BY <2>1, <2>2
<1> QED
  BY <1>1, <1>2, NotYet DEF Stopping

\* A step of the connection with key k.
LEMMA ConnStops ==
  ASSUME Inv, Numbered, Stopping, Remembered, task' = task, NEW k \in Keys, Running(k), NEW y,
         nodes' = [nodes EXCEPT ![k] = y], y.mode = nodes[k].mode,
         Heard(y) => (Heard(nodes[k]) /\ y.id = nodes[k].id) \/ peer'[y.id.n] # Unknown
  PROVE  Stopping'
<1>1. nodes[k] # Free /\ nodes[k].phase # "ended" /\ nodes[k].mode \in Modes
  BY ConnFacts DEF Running
<1>2. Filling
  <2>1. k \in Items(nodes[k].mode)
    BY <1>1 DEF Items
  <2> QED
    BY <1>1, <2>1 DEF Stopping, HandlesEnded, AllEnded
<1>3. nodes'[k] = y /\ \A j \in Keys : j # k => nodes'[j] = nodes[j]
  BY DEF Inv, Shape, Nodes
<1>4. Known'
  BY <1>3, KnownStays DEF Stopping
<1>5. AllEnded'
  BY <1>1, <1>3, EndedStays DEF Stopping
<1>6. Filling' /\ task'.cancelIndex = task.cancelIndex
  BY <1>2 DEF Filling
<1> QED
  BY <1>2, <1>4, <1>5, <1>6, NotYet DEF Stopping

LEMMA ConnEndStops ==
  ASSUME Inv, Numbered, Stopping, Remembered, task' = task, NEW k \in Keys, Running(k), NEW v,
         nodes' = [nodes EXCEPT ![k] = [Ended(k) EXCEPT !.seq = v]]
  PROVE  Stopping'
<1> DEFINE y == [Ended(k) EXCEPT !.seq = v]
<1>1. /\ y.mode = nodes[k].mode /\ y.id = nodes[k].id /\ y.phase = "ended"
      /\ y.addr = nodes[k].addr
  <2>1. Ended(k).addr = nodes[k].addr
    BY ConnFacts DEF Ended, Item
  <2> QED
    BY <2>1, EndedItem DEF Item
<1> HIDE DEF y
<1>2. Heard(y) => Heard(nodes[k])
  BY <1>1 DEF Heard, Running
<1> QED
  BY <1>1, <1>2, ConnStops DEF y

LEMMA EndedAlike ==
  ASSUME Inv, NEW k \in Keys, Running(k)
  PROVE  Ended(k) = [Ended(k) EXCEPT !.seq = nodes[k].seq]
BY EndedItem DEF Item

LEMMA ConnStopStops == ASSUME Inv, Numbered, Stopping, NEW k \in Keys, ConnStop(k) PROVE Stopping'
<1>1. Running(k) /\ nodes' = [nodes EXCEPT ![k] = Ended(k)] /\ UNCHANGED <<peer, task>>
  BY DEF ConnStop
<1>2. nodes' = [nodes EXCEPT ![k] = [Ended(k) EXCEPT !.seq = nodes[k].seq]]
  BY <1>1, EndedAlike
<1> QED
  BY <1>1, <1>2, RememberedSame, ConnEndStops

LEMMA ConnClosedStops == ASSUME Inv, Numbered, Stopping, NEW k \in Keys, ConnClosed(k) PROVE Stopping'
<1> DEFINE cancel == nodes[k].addr # NoAddr
           v == IF cancel THEN Inc(nodes[k].seq) ELSE nodes[k].seq
<1>1. /\ Running(k) /\ task' = task
      /\ nodes' = [nodes EXCEPT ![k] = [Ended(k) EXCEPT !.seq = IF cancel THEN Inc(@) ELSE @]]
      /\ peer' = IF cancel /\ ~OutRoom THEN [peer EXCEPT ![nodes[k].id.n] = Gone] ELSE peer
  BY DEF ConnClosed
<1>2. nodes' = [nodes EXCEPT ![k] = [Ended(k) EXCEPT !.seq = v]]
  BY <1>1, EndedItem
<1>3. Remembered
  <2>1. Gone # Unknown
    BY DEF Gone, Unknown
  <2> QED
    BY <1>1, <2>1, PeerFacts DEF Remembered
<1> QED
  BY <1>1, <1>2, <1>3, ConnEndStops

LEMMA ConnSendStops == ASSUME Inv, Numbered, Stopping, NEW k \in Keys, ConnSend(k) PROVE Stopping'
<1> DEFINE y == [nodes[k] EXCEPT !.seq = Inc(@)]
<1>1. /\ Running(k) /\ nodes[k].phase = "active"
      /\ nodes' = [nodes EXCEPT ![k].seq = Inc(@)] /\ UNCHANGED <<peer, task>>
  BY DEF ConnSend
<1>2. nodes' = [nodes EXCEPT ![k] = y]
  BY <1>1, ConnFacts DEF Nodes
<1>3. y.id = nodes[k].id /\ y.mode = nodes[k].mode
  BY <1>1, ConnFacts DEF Item
<1> HIDE DEF y
<1>4. Heard(nodes[k])
  BY <1>1 DEF Heard, Running
<1> QED
  BY <1>1, <1>2, <1>3, <1>4, RememberedSame, ConnStops

LEMMA ConnProceedStops == ASSUME Inv, Numbered, Stopping, NEW k \in Keys, ConnProceed(k) PROVE Stopping'
<1> DEFINE y == [nodes[k] EXCEPT !.seq = Inc(@), !.addr = NoAddr, !.phase = "paused"]
<1>1. /\ Running(k) /\ nodes[k].phase = "flush"
      /\ nodes' = [nodes EXCEPT ![k].seq = Inc(@), ![k].addr = NoAddr, ![k].phase = "paused"]
      /\ UNCHANGED <<peer, task>>
  BY DEF ConnProceed
<1>2. nodes' = [nodes EXCEPT ![k] = y]
  BY <1>1, ConnFacts DEF Nodes
<1>3. y.id = nodes[k].id /\ y.mode = nodes[k].mode
  BY <1>1, ConnFacts DEF Item
<1> HIDE DEF y
<1>4. Heard(nodes[k])
  BY <1>1 DEF Heard, Running
<1> QED
  BY <1>1, <1>2, <1>3, <1>4, RememberedSame, ConnStops

LEMMA ConnMsgStops == ASSUME Inv, Numbered, Stopping, NEW k \in Keys, ConnMsg(k) PROVE Stopping'
<1>1. PICK y : MsgGives(k, y)
  BY ConnMsgGives
<1>2. Running(k) /\ UNCHANGED <<peer, task>>
  BY DEF ConnMsg
<1>3. Heard(y) => Heard(nodes[k])
  BY <1>1, <1>2 DEF MsgGives, Heard, Running
<1> QED
  BY <1>1, <1>2, <1>3, RememberedSame, ConnStops DEF MsgGives

LEMMA ConnFinishStops == ASSUME Inv, Numbered, Stopping, NEW k \in Keys, ConnFinish(k) PROVE Stopping'
<1>1. Running(k) /\ UNCHANGED <<peer, task>>
  BY DEF ConnFinish
<1>2. CASE nodes' = [nodes EXCEPT ![k] = Ended(k)]
  <2>1. nodes' = [nodes EXCEPT ![k] = [Ended(k) EXCEPT !.seq = nodes[k].seq]]
    BY <1>1, <1>2, EndedAlike
  <2> QED
    BY <1>1, <2>1, RememberedSame, ConnEndStops
<1>3. CASE RegenId(k)
  <2> DEFINE y == [nodes[k] EXCEPT !.phase = "idle", !.id = GenId(k), !.addr = NoAddr, !.seq = 0,
                                   !.bkey = 0]
  <2>1. nodes' = [nodes EXCEPT ![k] = y]
    BY <1>3 DEF RegenId
  <2>2. y.phase = "idle" /\ y.addr = NoAddr /\ y.mode = nodes[k].mode
    BY <1>1, ConnFacts DEF Item
  <2> HIDE DEF y
  <2>3. ~Heard(y)
    BY <2>2 DEF Heard
  <2> QED
    BY <1>1, <2>1, <2>2, <2>3, RememberedSame, ConnStops
<1> QED
  BY <1>2, <1>3 DEF ConnFinish

LEMMA ConnRequestStops == ASSUME Inv, Numbered, Stopping, NEW k \in Keys, ConnRequest(k) PROVE Stopping'
<1> DEFINE y == [nodes[k] EXCEPT !.phase = "wait", !.seq = Inc(@)]
           s == [st |-> "has", id |-> nodes[k].id, mode |-> nodes[k].mode, addr |-> NoAddr,
                 seq |-> Inc(0)]
<1>1. /\ Running(k) /\ nodes[k].phase = "idle" /\ task' = task
      /\ nodes' = [nodes EXCEPT ![k].phase = "wait", ![k].seq = Inc(@)]
      /\ peer' = [peer EXCEPT ![nodes[k].id.n] = s]
  BY DEF ConnRequest
<1>2. nodes' = [nodes EXCEPT ![k] = y] /\ nodes[k] # Free
  BY <1>1, ConnFacts DEF Nodes, Running
<1>3. y.id = nodes[k].id /\ y.mode = nodes[k].mode
  BY <1>1, ConnFacts DEF Item
<1>4. s # Unknown
  <2>1. s.st = "has" /\ Unknown.st = "unknown"
    BY DEF Unknown
  <2> HIDE DEF s
  <2> QED
    BY <2>1
<1> HIDE DEF y, s
<1>5. nodes[k].id.n \in 0 .. IdMax - 1
  BY <1>2, NumberFacts
<1>6. peer'[nodes[k].id.n] # Unknown /\ Remembered
  BY <1>1, <1>4, <1>5, PeerFacts DEF Remembered
<1> QED
  BY <1>1, <1>2, <1>3, <1>6, ConnStops

\* While connections are accepted, no handle has ended.
LEMMA AcceptingStops ==
  ASSUME Inv, Numbered, Stopping, task.accept = "run", Filling', task'.handle = task.handle,
         task'.cancelIndex = task.cancelIndex, peer' = peer,
         \A k \in Keys : Heard(nodes'[k]) => Heard(nodes[k]) /\ nodes'[k].id = nodes[k].id
  PROVE  Stopping'
<1>1. Filling /\ \A m \in Modes : task.handle[m] # "ended"
  BY TaskFacts DEF TasksInOrder, Filling
<1>2. AllEnded'
  BY <1>1 DEF AllEnded
<1>3. Known'
  BY RememberedSame, KnownStays DEF Stopping
<1> QED
  BY <1>1, <1>2, <1>3, NotYet DEF Stopping

LEMMA AcceptStops == ASSUME Inv, Numbered, Stopping, NEW m \in Modes, Accept(m) PROVE Stopping'
<1> DEFINE k == Head(vacant)
           y == NewItem(m, k, Last(pool))
<1>1. task.accept = "run" /\ nodes' = [nodes EXCEPT ![k] = y] /\ UNCHANGED <<task, peer>>
  BY DEF Accept
<1>2. y.phase = "idle" /\ y.addr = NoAddr
  BY DEF NewItem
<1> HIDE DEF k, y
<1>3. \A j \in Keys : nodes'[j] = nodes[j] \/ nodes'[j] = y
  BY <1>1 DEF Inv, Shape, Nodes
<1>4. ~Heard(y)
  BY <1>2 DEF Heard
<1>5. Filling'
  BY <1>1, TaskFacts DEF TasksInOrder, Filling
<1> QED
  BY <1>1, <1>3, <1>4, <1>5, AcceptingStops

LEMMA AcceptTaskStops == ASSUME Inv, Numbered, Stopping, AcceptTask PROVE Stopping'
<1>1. CASE AcceptStop
  <2>1. /\ nodes' = [k \in Keys |-> IF nodes[k] # Free THEN [nodes[k] EXCEPT !.stop = TRUE] ELSE Free]
        /\ task.accept = "run" /\ task.run = "accept" /\ task' = [task EXCEPT !.accept = "drain"]
        /\ peer' = peer
    BY <1>1 DEF AcceptStop
  <2>2. ASSUME NEW k \in Keys, Heard(nodes'[k]) PROVE Heard(nodes[k]) /\ nodes'[k].id = nodes[k].id
    <3>1. nodes[k] # Free /\ nodes'[k] = [nodes[k] EXCEPT !.stop = TRUE]
      BY <2>1, <2>2 DEF Heard
    <3>2. nodes[k] \in Item
      BY <3>1, NodeType DEF Inv, Shape
    <3>3. /\ nodes'[k].id = nodes[k].id /\ nodes'[k].addr = nodes[k].addr
          /\ nodes'[k].phase = nodes[k].phase
      BY <3>1, <3>2 DEF Item
    <3> QED
      BY <2>2, <3>1, <3>3 DEF Heard
  <2>3. Filling' /\ task'.handle = task.handle /\ task'.cancelIndex = task.cancelIndex
    BY <2>1, TaskFacts DEF TaskShape, Filling
  <2> QED
    BY <2>1, <2>2, <2>3, AcceptingStops
<1>2. CASE \E m \in Modes : AcceptDone(m)
  <2>1. PICK m \in Modes : AcceptDone(m)
    BY <1>2
  <2> DEFINE k == Head(q.done[m])
  <2>2. task.accept = "run" /\ nodes' = [nodes EXCEPT ![k] = Free] /\ UNCHANGED <<task, peer>>
    BY <2>1 DEF AcceptDone, ConnectionsRemove
  <2> HIDE DEF k
  <2>3. \A j \in Keys : nodes'[j] = nodes[j] \/ nodes'[j] = Free
    BY <2>2 DEF Inv, Shape, Nodes
  <2>4. Filling'
    BY <2>2, TaskFacts DEF TasksInOrder, Filling
  <2> QED
    BY <2>2, <2>3, <2>4, AcceptingStops DEF Heard
<1> QED
  BY <1>1, <1>2 DEF AcceptTask

LEMMA HandleEndStops == ASSUME Inv, Numbered, Stopping, NEW m \in Modes, HandleEnd(m) PROVE Stopping'
<1>1. PICK n \in 0 .. Len(q.out) :
           peer' = [x \in DOMAIN peer |->
             IF \E i \in n + 1 .. Len(q.out) : x \in Sessions(q.out[i]) THEN Gone ELSE peer[x]]
  BY HandleEndGives
<1>2. /\ task.handle[m] = "run" /\ (\A k \in Items(m) : ~Running(k)) /\ nodes' = nodes
      /\ task' = [task EXCEPT !.handle[m] = "ended"]
  BY DEF HandleEnd
<1>3. Filling
  BY <1>2 DEF Stopping, HandlesEnded
<1>4. /\ task'.handle = [task.handle EXCEPT ![m] = "ended"] /\ task'.run = task.run
      /\ task'.cancelIndex = task.cancelIndex
  BY <1>2, TaskFacts DEF TaskShape
<1>5. Remembered
  <2>1. Gone # Unknown
    BY DEF Gone, Unknown
  <2> QED
    BY <1>1, <2>1, PeerFacts DEF Remembered
<1>6. Known'
  BY <1>2, <1>5, KnownStays DEF Stopping
<1>7. AllEnded'
  <2>1. SUFFICES ASSUME NEW l \in Modes, task'.handle[l] = "ended", NEW k \in Items(l)
                 PROVE  nodes[k].phase = "ended"
    BY <1>2 DEF AllEnded, Items
  <2>2. CASE l = m
    BY <1>2, <2>1, <2>2 DEF Items, Running
  <2>3. CASE l # m
    <3>1. task.handle[l] = "ended"
      BY <1>4, <2>1, <2>3, TaskFacts
    <3> QED
      BY <2>1, <3>1 DEF Stopping, AllEnded
  <2> QED
    BY <2>2, <2>3
<1>8. Filling'
  BY <1>3, <1>4 DEF Filling
<1> QED
  BY <1>3, <1>4, <1>6, <1>7, <1>8, NotYet DEF Stopping

\* Connections that stay as they are, but for the batch and their numbers.
LEMMA SameStops ==
  ASSUME Inv, Numbered, Stopping, Remembered, task'.handle = task.handle,
         Kept(nodes, nodes'), SameIds(nodes, nodes'),
         \A k \in Keys : nodes[k] # Free =>
           nodes'[k].addr = nodes[k].addr /\ nodes'[k].phase = nodes[k].phase
  PROVE  Known' /\ AllEnded'
<1>1. ASSUME NEW k \in Keys, Heard(nodes'[k]) PROVE Heard(nodes[k]) /\ nodes'[k].id = nodes[k].id
  <2>1. nodes[k] # Free
    BY <1>1 DEF Heard, Kept
  <2> QED
    BY <1>1, <2>1 DEF Heard, SameIds
<1>2. Known'
  BY <1>1, KnownStays DEF Stopping
<1>3. AllEnded'
  BY EndedStays DEF Stopping, Kept
<1> QED
  BY <1>2, <1>3

LEMMA IntervalStops == ASSUME Inv, Numbered, Stopping, KeepAliveInterval PROVE Stopping'
<1>1. PICK s : /\ s = AddKeys(task.kaIndex, KaEnd) /\ nodes' = s.nodes
               /\ task' = [task EXCEPT !.ka = IF BatchIsEmpty(s.batch) THEN "wait" ELSE "send",
                                       !.kaIndex = KaNextIndex,
                                       !.kaCount = IF KaWrap THEN 0 ELSE @ + 1]
               /\ task.run = "run" /\ peer' = peer
  BY DEF KeepAliveInterval
<1>2. task.kaIndex \in Nat /\ KaEnd \in 0 .. Cap /\ task.kaIndex <= KaEnd
  BY KaEndGives
<1>3. Good(nodes, s)
  BY <1>1, <1>2, AddKeysGives DEF Inv, Shape, BatchKept
<1>4. /\ task'.handle = task.handle /\ task'.run = task.run
      /\ task'.cancelIndex = task.cancelIndex
  BY <1>1, TaskFacts DEF TaskShape
<1>5. Known' /\ AllEnded'
  BY <1>1, <1>3, <1>4, RememberedSame, SameStops DEF Good, SameTalk
<1>6. Filling /\ Filling'
  BY <1>1, <1>4 DEF Filling
<1> QED
  BY <1>4, <1>5, <1>6, NotYet DEF Stopping

LEMMA BatchSendStops ==
  ASSUME Inv, Numbered, Stopping, NEW t \in {"cancel", "keepAlive"}, NEW r, r = NextBatchMessage(t),
         nodes' = r.nodes, task'.handle = task.handle, peer' = peer
  PROVE  Known' /\ AllEnded'
<1>1. nodes \in Nodes /\ BatchShape(batch) /\ Live(batch, nodes)
  BY DEF Inv, Shape, BatchKept
<1>2. PICK K \in SUBSET Keys : SendsFor(K, t, r)
  BY <1>1, NextBatchMessageSends
<1>3. Kept(nodes, nodes') /\ SameIds(nodes, nodes')
  BY <1>1, NextBatchMessageGives
<1> QED
  BY <1>2, <1>3, RememberedSame, SameStops DEF SendsFor

LEMMA KeepAliveSendStops == ASSUME Inv, Numbered, Stopping, KeepAliveSend PROVE Stopping'
<1> DEFINE r == NextBatchMessage("keepAlive")
<1>1. /\ nodes' = r.nodes /\ task.run = "run" /\ peer' = peer
      /\ task' = [task EXCEPT !.ka = IF BatchIsEmpty(r.batch) THEN "wait" ELSE "send"]
  BY DEF KeepAliveSend
<1> HIDE DEF r
<1>2. /\ task'.handle = task.handle /\ task'.run = task.run
      /\ task'.cancelIndex = task.cancelIndex
  BY <1>1, TaskFacts DEF TaskShape
<1>3. Known' /\ AllEnded'
  BY <1>1, <1>2, BatchSendStops DEF r
<1>4. Filling /\ Filling'
  BY <1>1, <1>2 DEF Filling
<1> QED
  BY <1>2, <1>3, <1>4, NotYet DEF Stopping

\* Steps that leave the connections and the batch alone.
LEMMA OthersStop ==
  ASSUME Inv, Numbered, Stopping, Remembered, UNCHANGED <<nodes, batch>>,
         task'.run = task.run, task'.handle = task.handle,
         task'.cancelIndex = task.cancelIndex, task'.timedOut = task.timedOut,
         ~Filling => \A n \in 0 .. IdMax - 1 :
           /\ peer[n] # Unknown /\ CancelSent(q.out, n)
                => CancelSent(q'.out, n) \/ peer'[n] \in {Stopped, Gone}
           /\ peer[n] \in {Stopped, Gone} => peer'[n] \in {Stopped, Gone}
  PROVE  Stopping'
<1>1. Known'
  BY KnownStays DEF Stopping
<1>2. AllEnded'
  BY EndedStays DEF Stopping
<1>3. HandlesEnded' /\ Emptied'
  BY DEF Stopping, HandlesEnded, Emptied, Filling
<1>4. Cancelled'
  <2>1. SUFFICES ASSUME ~Filling, NEW k \in Keys, Due(nodes[k])
                 PROVE  \/ k >= task.cancelIndex \/ InBatch(batch, k)
                        \/ CancelSent(q'.out, nodes[k].id.n) \/ peer'[nodes[k].id.n] \in {Stopped, Gone}
    BY DEF Cancelled, Filling
  <2>2. \/ k >= task.cancelIndex \/ InBatch(batch, k)
        \/ CancelSent(q.out, nodes[k].id.n) \/ peer[nodes[k].id.n] \in {Stopped, Gone}
    BY <2>1 DEF Stopping, Cancelled
  <2>3. peer[nodes[k].id.n] # Unknown
    BY <2>1 DEF Stopping, Known, Heard, Due
  <2>4. nodes[k].id.n \in 0 .. IdMax - 1
    BY <2>1, NumberFacts DEF Due
  <2> QED
    BY <2>1, <2>2, <2>3, <2>4
<1> QED
  BY <1>1, <1>2, <1>3, <1>4 DEF Stopping

LEMMA IdleStops ==
  ASSUME Inv, Numbered, Stopping, KeepAliveNothing \/ MgrHandleMessage \/ UNCHANGED vars PROVE Stopping'
<1>1. /\ UNCHANGED <<nodes, batch, peer>> /\ q'.out = q.out
      /\ task'.run = task.run /\ task'.handle = task.handle
      /\ task'.cancelIndex = task.cancelIndex /\ task'.timedOut = task.timedOut
  <2>1. CASE KeepAliveNothing
    BY <2>1, TaskFacts DEF KeepAliveNothing, TaskShape
  <2>2. CASE MgrHandleMessage
    BY <2>2, QueueFacts DEF MgrHandleMessage
  <2>3. CASE UNCHANGED vars
    BY <2>3 DEF vars
  <2> QED
    BY <2>1, <2>2, <2>3
<1> QED
  BY <1>1, RememberedSame, OthersStop

\* A session that a handler has is no longer unknown, nor after a packet.
LEMMA HadIsKnown ==
  ASSUME Inv, NEW n \in 0 .. IdMax - 1, Expects(peer[n]), NEW t
  PROVE  /\ peer[n] \notin {Stopped, Gone} /\ Taken(peer[n], t) # Unknown
         /\ t = "cancel" => Taken(peer[n], t) \in {Stopped, Gone}
<1>1. peer[n] \in Session
  BY PeerFacts DEF Expects
<1>2. /\ Unknown.st = "unknown" /\ Gone.st = "gone" /\ Stopped.st = "stopped"
  BY DEF Unknown, Gone, Stopped
<1>3. \/ /\ t = "cancel" /\ (Taken(peer[n], t) = Gone \/ Taken(peer[n], t) = Stopped)
      \/ t # "cancel" /\ Taken(peer[n], t) = [peer[n] EXCEPT !.seq = Inc(@)]
      \/ t # "cancel" /\ Taken(peer[n], t) = [peer[n] EXCEPT !.seq = Inc(@), !.st = "has", !.addr = NoAddr]
  <2>1. CASE t = "cancel"
    BY <2>1, Zenon DEF Taken
  <2>2. CASE t # "cancel" /\ t = "handoffProceed"
    BY <2>2 DEF Taken
  <2>3. CASE t # "cancel" /\ t # "handoffProceed"
    BY <2>3 DEF Taken
  <2> QED
    BY <2>1, <2>2, <2>3
<1>4. /\ [peer[n] EXCEPT !.seq = Inc(@)].st \in {"has", "leaving"}
      /\ [peer[n] EXCEPT !.seq = Inc(@), !.st = "has", !.addr = NoAddr].st = "has"
      /\ peer[n].st \in {"has", "leaving"}
  BY <1>1 DEF Session
<1> QED
  BY <1>2, <1>3, <1>4

LEMMA MgrSendAddrStops == ASSUME Inv, Numbered, Stopping, MgrSendAddr PROVE Stopping'
<1> DEFINE p == Head(q.out)
           takes(n) == n \in Sessions(p) /\ peer[n].st \in {"has", "leaving"}
<1>1. /\ q.out # <<>> /\ q' = [q EXCEPT !.out = Tail(@)] /\ UNCHANGED <<nodes, batch, task>>
      /\ peer' = [n \in DOMAIN peer |-> IF takes(n) THEN Taken(peer[n], p.t) ELSE peer[n]]
  BY DEF MgrSendAddr
<1>2. q.out \in Seq(Packets)
  BY DEF Numbered, OutShape
<1>3. q'.out = Tail(q.out)
  BY <1>1, QueueFacts
<1>4. ASSUME NEW n \in 0 .. IdMax - 1
      PROVE  /\ takes(n) => peer'[n] = Taken(peer[n], p.t) /\ Expects(peer[n])
             /\ ~takes(n) => peer'[n] = peer[n]
  BY <1>1, PeerFacts DEF Expects
<1>5. Remembered
  <2>1. SUFFICES ASSUME NEW n \in 0 .. IdMax - 1, peer[n] # Unknown PROVE peer'[n] # Unknown
    BY DEF Remembered
  <2> HIDE DEF takes, p
  <2> QED
    BY <1>4, <2>1, HadIsKnown
<1>6. ASSUME NEW n \in 0 .. IdMax - 1, peer[n] \in {Stopped, Gone} PROVE peer'[n] \in {Stopped, Gone}
  <2> HIDE DEF takes, p
  <2> QED
    BY <1>4, <1>6, HadIsKnown
<1>7. ASSUME NEW n \in 0 .. IdMax - 1, peer[n] # Unknown, CancelSent(q.out, n)
      PROVE  CancelSent(q'.out, n) \/ peer'[n] \in {Stopped, Gone}
  <2>1. PICK i \in DOMAIN q.out : q.out[i].t = "cancel" /\ n \in Sessions(q.out[i])
    BY <1>7 DEF CancelSent
  <2>2. CASE i = 1
    <3>1. p.t = "cancel" /\ n \in Sessions(p)
      BY <1>1, <1>2, <2>1, <2>2
    <3>2. CASE takes(n)
      <4> HIDE DEF takes, p
      <4> QED
        BY <1>4, <3>1, <3>2, HadIsKnown
    <3>3. CASE ~takes(n)
      <4>1. ~(peer[n].st \in {"has", "leaving"}) /\ peer'[n] = peer[n]
        BY <1>4, <3>1, <3>3
      <4>2. peer[n] \in Session \cup {Unknown, Gone, Stopped}
        BY DEF Inv, Shape
      <4>3. peer[n] \notin Session
        BY <4>1 DEF Session
      <4> QED
        BY <1>7, <4>1, <4>2, <4>3
    <3> QED
      BY <3>2, <3>3
  <2>3. CASE i # 1
    <3>1. i - 1 \in DOMAIN Tail(q.out) /\ Tail(q.out)[i - 1] = q.out[i]
      BY <1>1, <1>2, <2>1, <2>3
    <3> QED
      BY <1>3, <2>1, <3>1 DEF CancelSent
  <2> QED
    BY <2>2, <2>3
<1> HIDE DEF takes, p
<1> QED
  BY <1>1, <1>5, <1>6, <1>7, OthersStop

LEMMA ReplyStops ==
  ASSUME Inv, Numbered, Stopping, NEW m \in Modes, NEW a \in Addrs, NEW t \in ReplyTypes,
         NEW ns \in SUBSET (DOMAIN peer), Reply(m, a, ns, t)
  PROVE  Stopping'
<1> DEFINE new(n) == [peer[n] EXCEPT !.addr = a, !.st = IF t = "handoffStart" THEN "leaving" ELSE "has"]
           p == [mode |-> m, t |-> t, from |-> a, ids |-> {peer[n].id : n \in ns}]
<1>1. /\ UNCHANGED <<nodes, batch, task>>
      /\ q' = [q EXCEPT !.mgrIn = <<p>>]
      /\ peer' = [n \in DOMAIN peer |-> IF n \notin ns THEN peer[n]
                                        ELSE IF t \in {"end", "cancel"} THEN Gone ELSE new(n)]
      /\ \A n \in ns : peer[n].st = "has"
  BY DEF Reply
<1> HIDE DEF p
<1>2. q'.out = q.out
  BY <1>1, QueueFacts
<1>3. ASSUME NEW n \in 0 .. IdMax - 1
      PROVE  /\ peer[n] # Unknown => peer'[n] # Unknown
             /\ peer[n] \in {Stopped, Gone} => peer'[n] = peer[n]
  <2>1. n \in DOMAIN peer
    BY PeerFacts
  <2>2. CASE n \notin ns
    BY <1>1, <2>1, <2>2
  <2>3. CASE n \in ns
    <3>1. Expects(peer[n]) /\ peer[n] \in Session
      BY <1>1, <2>1, <2>3, PeerFacts DEF Expects
    <3>2. peer[n] \notin {Stopped, Gone}
      BY <3>1, HadIsKnown
    <3>3. peer'[n] = Gone \/ peer'[n] = new(n)
      BY <1>1, <2>1, <2>3
    <3>4. new(n).st \in {"has", "leaving"}
      BY <3>1 DEF Session
    <3>5. Unknown.st = "unknown" /\ Gone.st = "gone"
      BY DEF Unknown, Gone
    <3> HIDE DEF new
    <3> QED
      BY <3>2, <3>3, <3>4, <3>5
  <2> QED
    BY <2>2, <2>3
<1>4. Remembered
  BY <1>3 DEF Remembered
<1> HIDE DEF new
<1> QED
  BY <1>1, <1>2, <1>3, <1>4, OthersStop

\* The loop of the cancels begins.
LEMMA TasksDoneStops == ASSUME Inv, Numbered, Stopping, RunTasksDone PROVE Stopping'
<1>1. /\ task.run = "accept" /\ (\A m \in Modes : task.handle[m] = "ended")
      /\ task' = [task EXCEPT !.run = "cancel"]
      /\ batch' = [addrs |-> <<>>, index |-> 1] /\ UNCHANGED <<nodes, peer>>
  BY DEF RunTasksDone
<1>2. /\ task'.handle = task.handle /\ task'.run = "cancel"
      /\ task'.cancelIndex = task.cancelIndex
  BY <1>1, TaskFacts DEF TaskShape
<1>3. Known'
  BY <1>1, RememberedSame, KnownStays DEF Stopping
<1>4. AllEnded'
  BY <1>1, <1>2, EndedStays DEF Stopping
<1>5. HandlesEnded'
  BY <1>1, <1>2 DEF HandlesEnded
<1>6. task.cancelIndex = 0
  BY <1>1 DEF Stopping, Emptied, Filling
<1>7. Emptied'
  <2>1. DOMAIN batch'.addrs = {}
    BY <1>1
  <2> QED
    BY <1>2, <2>1 DEF Emptied, Filling, BatchIsEmpty
<1>8. Cancelled'
  <2>1. \A k \in Keys : k >= 0
    BY KeysType
  <2> QED
    BY <1>2, <1>6, <2>1 DEF Cancelled
<1> QED
  BY <1>3, <1>4, <1>5, <1>7, <1>8 DEF Stopping

\* It goes round, or ends.
LEMMA RunStepsStop == ASSUME Inv, Numbered, Stopping, RunCancelMore \/ RunEnd \/ RunTimeout PROVE Stopping'
<1>1. /\ UNCHANGED <<nodes, batch, q, peer>> /\ ~Filling /\ ~Filling'
      /\ task'.handle = task.handle /\ task'.cancelIndex = task.cancelIndex
  BY TaskFacts DEF RunCancelMore, RunEnd, RunTimeout, TaskShape, Filling
<1>2. Known'
  BY <1>1, RememberedSame, KnownStays DEF Stopping
<1>3. AllEnded'
  BY <1>1, EndedStays DEF Stopping
<1>4. HandlesEnded'
  BY <1>1 DEF Stopping, HandlesEnded
<1>5. Emptied'
  <2>1. CASE RunCancelMore
    <3>1. task'.run = "cancel" /\ BatchIsEmpty(batch)
      BY <2>1, TaskFacts DEF RunCancelMore, TaskShape
    <3> QED
      BY <1>1, <3>1 DEF Emptied, BatchIsEmpty
  <2>2. CASE RunEnd
    <3>1. task'.run = "ended" /\ task.run = "cancel" /\ task.cancelIndex = Cap
      BY <2>2, TaskFacts DEF RunEnd, TaskShape
    <3> QED
      BY <1>1, <3>1 DEF Stopping, Emptied, BatchIsEmpty
  <2>3. CASE RunTimeout
    <3>1. task'.run = "ended" /\ task'.timedOut
      BY <2>3, TaskFacts DEF RunTimeout, TaskShape
    <3> QED
      BY <1>1, <3>1 DEF Emptied
  <2> QED
    BY <2>1, <2>2, <2>3
<1>6. Cancelled'
  BY <1>1 DEF Stopping, Cancelled, InBatch
<1> QED
  BY <1>2, <1>3, <1>4, <1>5, <1>6 DEF Stopping

\* The next keys are in the batch now.
LEMMA CancelFillStops == ASSUME Inv, Numbered, Stopping, RunCancelFill PROVE Stopping'
<1>1. PICK next, s : FilledTo(next, s) /\ Good(nodes, s)
  BY CancelFillGives
<1>2. task.run = "cancel" /\ UNCHANGED <<q, peer>>
  BY DEF RunCancelFill
<1>3. /\ nodes' = s.nodes /\ batch' = s.batch /\ next \in 0 .. Cap
      /\ task' = [task EXCEPT !.cancelIndex = next, !.run = "drain"]
  BY <1>1 DEF FilledTo
<1>4. task'.handle = task.handle /\ task'.run = "drain" /\ task'.cancelIndex = next
  BY <1>3, TaskFacts DEF TaskShape
<1>5. Kept(nodes, nodes') /\ SameIds(nodes, nodes') /\ SameTalk(nodes, nodes')
  BY <1>1, <1>3 DEF Good
<1>6. Known' /\ AllEnded'
  BY <1>2, <1>4, <1>5, RememberedSame, SameStops DEF SameTalk
<1>7. BatchIsEmpty(batch) /\ ~Filling /\ ~Filling'
  BY <1>2, <1>4 DEF Stopping, Emptied, Filling
<1>8. HandlesEnded' /\ Emptied'
  BY <1>4, <1>7 DEF Stopping, HandlesEnded, Emptied
<1>9. Cancelled'
  <2>1. SUFFICES ASSUME NEW k \in Keys, Due(nodes'[k])
                 PROVE  \/ k >= next \/ InBatch(s.batch, k)
                        \/ CancelSent(q.out, nodes'[k].id.n)
                        \/ peer[nodes'[k].id.n] \in {Stopped, Gone}
    BY <1>2, <1>3, <1>4 DEF Cancelled
  <2>2. Due(nodes[k]) /\ nodes'[k].id = nodes[k].id
    <3>1. nodes[k] # Free
      BY <1>5, <2>1 DEF Due, Kept
    <3> QED
      BY <1>5, <2>1, <3>1 DEF Due, Kept, SameIds, SameTalk
  <2>3. \/ k >= task.cancelIndex \/ InBatch(batch, k)
        \/ CancelSent(q.out, nodes[k].id.n) \/ peer[nodes[k].id.n] \in {Stopped, Gone}
    BY <1>7, <2>2 DEF Stopping, Cancelled
  <2>4. ~InBatch(batch, k)
    <3>1. \A i \in Nat : KeysAt(batch, i) = <<>>
      BY <1>7, KeysAtType DEF Inv, Shape
    <3> QED
      BY <3>1 DEF InBatch, In
  <2>5. k \in Nat /\ next \in Nat
    BY <1>3, KeysType
  <2>6. CASE k >= task.cancelIndex /\ k < next
    BY <1>1, <1>7, <2>2, <2>6, FillTakesAll
  <2>7. CASE k >= next
    BY <2>7
  <2> QED
    BY <2>2, <2>3, <2>4, <2>5, <2>6, <2>7
<1> QED
  BY <1>6, <1>8, <1>9 DEF Stopping

\* A cancel goes out to those of a group.
LEMMA CancelSendStops == ASSUME Inv, Numbered, Stopping, RunCancelSend PROVE Stopping'
<1> DEFINE r == NextBatchMessage("cancel")
<1>1. /\ batch' = r.batch /\ nodes' = r.nodes /\ task.run = "drain" /\ UNCHANGED <<task, peer>>
      /\ q' = IF r.packet.ids = {} THEN q ELSE [q EXCEPT !.out = Append(@, r.packet)]
  BY DEF RunCancelSend
<1>2. nodes \in Nodes /\ BatchShape(batch) /\ Live(batch, nodes)
  BY DEF Inv, Shape, BatchKept
<1>3. PICK K \in SUBSET Keys : SendsFor(K, "cancel", r)
  BY <1>2, NextBatchMessageSends
<1>4. Kept(nodes, nodes') /\ SameIds(nodes, nodes')
  BY <1>1, <1>2, NextBatchMessageGives
<1>5. Known' /\ AllEnded'
  BY <1>1, BatchSendStops
<1> HIDE DEF r
<1>6. ~Filling /\ ~Filling'
  BY <1>1 DEF Filling
<1>7. HandlesEnded' /\ Emptied'
  BY <1>1, <1>6 DEF Stopping, HandlesEnded, Emptied
<1>8. q.out \in Seq(Packets)
  BY DEF Numbered, OutShape
<1>9. \A n : CancelSent(q.out, n) => CancelSent(q'.out, n)
  <2>1. CASE q' = q
    BY <2>1
  <2>2. CASE q' = [q EXCEPT !.out = Append(@, r.packet)]
    <3>1. q'.out = Append(q.out, r.packet)
      BY <2>2, QueueFacts
    <3>2. \A i \in DOMAIN q.out : i \in DOMAIN q'.out /\ q'.out[i] = q.out[i]
      BY <1>8, <3>1
    <3> QED
      BY <3>2 DEF CancelSent
  <2> QED
    BY <1>1, <2>1, <2>2
<1>10. ASSUME NEW k \in K PROVE CancelSent(q'.out, nodes[k].id.n)
  <2> DEFINE x == [id |-> nodes[k].id, seq |-> nodes[k].seq]
  <2>1. x \in r.packet.ids /\ r.packet.t = "cancel"
    BY <1>3 DEF SendsFor
  <2>2. x.id.n = nodes[k].id.n
    OBVIOUS
  <2> HIDE DEF x
  <2>3. nodes[k].id.n \in Sessions(r.packet)
    BY <2>1, <2>2 DEF Sessions
  <2>4. q'.out = Append(q.out, r.packet)
    BY <1>1, <2>1, QueueFacts
  <2>5. Len(q.out) + 1 \in DOMAIN q'.out /\ q'.out[Len(q.out) + 1] = r.packet
    BY <1>8, <2>4
  <2> QED
    BY <2>1, <2>3, <2>5 DEF CancelSent
<1>11. Cancelled'
  <2>1. SUFFICES ASSUME NEW k \in Keys, Due(nodes'[k])
                 PROVE  \/ k >= task.cancelIndex \/ InBatch(r.batch, k)
                        \/ CancelSent(q'.out, nodes'[k].id.n)
                        \/ peer[nodes'[k].id.n] \in {Stopped, Gone}
    BY <1>1 DEF Cancelled
  <2>2. Due(nodes[k]) /\ nodes'[k].id = nodes[k].id
    <3>1. nodes[k] # Free
      BY <1>4, <2>1 DEF Due, Kept
    <3>2. nodes'[k].addr = nodes[k].addr
      BY <1>1, <1>3, <3>1 DEF SendsFor
    <3> QED
      BY <1>4, <2>1, <3>1, <3>2 DEF Due, Kept, SameIds
  <2>3. \/ k >= task.cancelIndex \/ InBatch(batch, k)
        \/ CancelSent(q.out, nodes[k].id.n) \/ peer[nodes[k].id.n] \in {Stopped, Gone}
    BY <1>6, <2>2 DEF Stopping, Cancelled
  <2>4. ASSUME InBatch(batch, k), k \notin K PROVE InBatch(r.batch, k)
    BY <1>3, <2>2, <2>4 DEF InBatch, SendsFor, Due
  <2> QED
    BY <1>9, <1>10, <2>2, <2>3, <2>4
<1> QED
  BY <1>5, <1>7, <1>11 DEF Stopping

LEMMA InitStopping == Init => Stopping
<1> SUFFICES ASSUME Init PROVE Stopping
  OBVIOUS
<1>1. /\ \A k \in Keys : nodes[k] = Free
      /\ task.run = "run" /\ task.cancelIndex = 0
  BY DEF Init
<1> QED
  BY <1>1 DEF Stopping, Known, Heard, AllEnded, Items, HandlesEnded, Emptied, Cancelled, Filling

LEMMA NextStopping == Inv /\ Numbered /\ Stopping /\ [Next]_vars => Stopping'
<1> SUFFICES ASSUME Inv, Numbered, Stopping, [Next]_vars PROVE Stopping'
  OBVIOUS
<1>1. CASE UNCHANGED vars
  BY <1>1, IdleStops
<1>2. CASE \E m \in Modes : Accept(m) \/ HandleTask(m)
  BY <1>2, AcceptStops, QuietStops, HandleEndStops DEF HandleTask
<1>3. CASE \E k \in Keys : ConnNext(k)
  BY <1>3, ConnRequestStops, ConnSendStops, ConnMsgStops, ConnFinishStops, ConnProceedStops,
     ConnClosedStops, ConnStopStops DEF ConnNext
<1>4. CASE AcceptTask
  BY <1>4, AcceptTaskStops
<1>5. CASE KeepAlivesTask \/ RunStop \/ RunStopping
  BY <1>5, IntervalStops, KeepAliveSendStops, IdleStops, QuietStops, TasksDoneStops,
     CancelFillStops, CancelSendStops, RunStepsStop DEF KeepAlivesTask, RunStopping
<1>6. CASE Manager
  BY <1>6, MgrSendAddrStops, IdleStops DEF Manager
<1>7. CASE HandlersNext
  BY <1>7, ReplyStops DEF HandlersNext
<1> QED
  BY <1>1, <1>2, <1>3, <1>4, <1>5, <1>6, <1>7 DEF Next

LEMMA StoppingCancels == Inv /\ Numbered /\ Stopping => CancelsSent
<1> SUFFICES ASSUME Inv, Numbered, Stopping, Finished, ~task.timedOut, NEW k \in Items("stream"),
                    nodes[k].addr # NoAddr
             PROVE  peer[nodes[k].id.n] \in {Stopped, Gone}
  BY DEF CancelsSent
<1>1. k \in Keys /\ Due(nodes[k])
  BY DEF Items, Due
<1>2. task.run = "ended" /\ q.out = <<>> /\ ~Filling
  BY DEF Finished, Filling
<1>3. BatchIsEmpty(batch) /\ task.cancelIndex = Cap
  BY <1>2 DEF Stopping, Emptied
<1>4. ~(k >= task.cancelIndex)
  BY <1>1, <1>3, KeysType DEF Keys
<1>5. ~InBatch(batch, k)
  <2>1. \A i \in Nat : KeysAt(batch, i) = <<>>
    BY <1>3, KeysAtType DEF Inv, Shape
  <2> QED
    BY <2>1 DEF InBatch, In
<1>6. ~CancelSent(q.out, nodes[k].id.n)
  BY <1>2 DEF CancelSent
<1> QED
  BY <1>1, <1>2, <1>4, <1>5, <1>6 DEF Stopping, Cancelled

\* A worker that stops in time has told every handler it knew that its session
\* ends (Worker::run, next_batch_message): for any number of connections, any
\* batch size and any room in the queue, the batches leave out no connection,
\* also if a batch is full before the last key.
THEOREM CancelsAlwaysSent == Spec => []CancelsSent
BY InitInv, NextInv, InitNumbered, NextNumbered, InitStopping, NextStopping, StoppingCancels, PTL
   DEF Spec
=============================================================================
