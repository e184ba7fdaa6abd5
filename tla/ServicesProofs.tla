--------------------------- MODULE ServicesProofs ---------------------------
(***************************************************************************)
(* Proofs about the services of module Services.  Each section proves an   *)
(* inductive invariant of one of them, from its specification alone, and   *)
(* what it implies; the last section shows that a behaviour of Services is *)
(* one of the service it names, and has the properties the run checks.     *)
(***************************************************************************)
EXTENDS Services, SequencesExt, FiniteSetTheorems, SequenceTheorems, NaturalsInduction,
        WellFoundedInduction, TLAPS

-----------------------------------------------------------------------------
(* Numbers and sequences                                                   *)

\* Every set of numbers has a least one.
LEMMA LeastNumber ==
  ASSUME NEW S \in SUBSET Nat, S # {}
  PROVE  \E m \in S : \A k \in S : m <= k
<1>1. IsWellFoundedOn(OpToRel(<, Nat), Nat)
  BY NatLessThanWellFounded
<1>2. \E x \in S : \A y \in S : ~ (<<y, x>> \in OpToRel(<, Nat))
  BY <1>1, WFMin
<1>3. PICK x \in S : \A y \in S : ~ (<<y, x>> \in OpToRel(<, Nat))
  BY <1>2
<1>4. \A y \in S : x <= y
  <2> TAKE y \in S
  <2>1. <<y, x>> \in OpToRel(<, Nat) <=> y < x
    BY DEF OpToRel
  <2>2. ~(y < x)
    BY <1>3, <2>1, Zenon
  <2>3. x \in Nat /\ y \in Nat
    OBVIOUS
  <2> QED
    BY <2>2, <2>3
<1> QED
  BY <1>4

\* What holds for 0, and for n + 1 whenever for n, holds for every number.
LEMMA Induction ==
  ASSUME NEW S, 0 \in S, \A n \in Nat : n \in S => n + 1 \in S
  PROVE  Nat \subseteq S
<1>1. SUFFICES ASSUME Nat \ S # {} PROVE FALSE
  OBVIOUS
<1>2. PICK m \in Nat \ S : \A k \in Nat \ S : m <= k
  BY <1>1, LeastNumber
<1>3. m # 0 /\ m - 1 \in Nat /\ m - 1 \in S
  BY <1>2
<1> QED
  BY <1>2, <1>3

Elements(s) == {s[i] : i \in DOMAIN s}
Once(s) == \A i, j \in DOMAIN s : s[i] = s[j] => i = j

LEMMA EmptyElements ==
    ASSUME NEW T
    PROVE  <<>> \in Seq(T) /\ Elements(<<>>) = {} /\ Once(<<>>) /\ Len(<<>>) = 0
BY DEF Elements, Once

LEMMA ElementsIn ==
    ASSUME NEW T, NEW s \in Seq(T)
    PROVE  Elements(s) \subseteq T
BY DEF Elements

LEMMA SingleSeq ==
    ASSUME NEW T, NEW s \in Seq(T), s # <<>>, Len(s) <= 1
    PROVE  s[1] \in T /\ s = <<s[1]>>
<1>1. Len(s) \in Nat /\ Len(s) # 0
  OBVIOUS
<1>2. Len(s) = 1
  BY <1>1
<1>3. QED BY <1>2

LEMMA AppendElements ==
    ASSUME NEW T, NEW s \in Seq(T), NEW x \in T
    PROVE  /\ Append(s, x) \in Seq(T) /\ Len(Append(s, x)) = Len(s) + 1
           /\ Elements(Append(s, x)) = Elements(s) \cup {x}
           /\ Once(s) /\ x \notin Elements(s) => Once(Append(s, x))
           /\ \A i \in 1..Len(s) : Append(s, x)[i] = s[i]
           /\ Append(s, x)[Len(s) + 1] = x
<1> DEFINE a == Append(s, x)
<1>1. /\ a \in Seq(T) /\ Len(a) = Len(s) + 1 /\ DOMAIN a = 1..(Len(s) + 1) /\ DOMAIN s = 1..Len(s)
      /\ \A i \in 1..Len(s) : a[i] = s[i]
      /\ a[Len(s) + 1] = x /\ Len(s) \in Nat
  OBVIOUS
<1> HIDE DEF a
<1>2. Elements(a) = Elements(s) \cup {x}
  BY <1>1 DEF Elements
<1>3. Once(s) /\ x \notin Elements(s) => Once(a)
  BY <1>1 DEF Elements, Once
<1>4. QED BY <1>1, <1>2, <1>3 DEF a

LEMMA TailElements ==
    ASSUME NEW T, NEW s \in Seq(T), s # <<>>
    PROVE  /\ Tail(s) \in Seq(T) /\ Head(s) \in T /\ Head(s) \in Elements(s)
           /\ Elements(s) = Elements(Tail(s)) \cup {Head(s)}
           /\ Once(s) => Once(Tail(s)) /\ Head(s) \notin Elements(Tail(s))
<1> DEFINE t == Tail(s)
<1>1. /\ t \in Seq(T) /\ Len(t) = Len(s) - 1 /\ Len(s) \in Nat \ {0}
      /\ DOMAIN t = 1..(Len(s) - 1) /\ DOMAIN s = 1..Len(s)
      /\ \A i \in 1..(Len(s) - 1) : t[i] = s[i + 1]
      /\ Head(s) = s[1] /\ Head(s) \in T
  OBVIOUS
<1> HIDE DEF t
<1>3. Elements(s) = Elements(t) \cup {Head(s)}
  <2>1. ASSUME NEW i \in DOMAIN s PROVE s[i] \in Elements(t) \cup {Head(s)}
    <3>1. CASE i = 1
      BY <1>1, <3>1
    <3>2. CASE i # 1
      <4>1. i - 1 \in DOMAIN t /\ s[i] = t[i - 1]
        BY <1>1, <3>2
      <4>2. QED BY <4>1 DEF Elements
    <3>3. QED BY <3>1, <3>2
  <2>2. ASSUME NEW i \in DOMAIN t PROVE t[i] \in Elements(s)
    <3>1. i + 1 \in DOMAIN s /\ t[i] = s[i + 1]
      BY <1>1
    <3>2. QED BY <3>1 DEF Elements
  <2>3. 1 \in DOMAIN s /\ Head(s) \in Elements(s)
    BY <1>1 DEF Elements
  <2>4. QED BY <2>1, <2>2, <2>3 DEF Elements
<1>4. ASSUME Once(s) PROVE Once(t) /\ Head(s) \notin Elements(t)
  <2>1. ASSUME NEW i \in DOMAIN t, NEW j \in DOMAIN t, t[i] = t[j] PROVE i = j
    <3>1. i + 1 \in DOMAIN s /\ j + 1 \in DOMAIN s /\ s[i + 1] = s[j + 1] /\ i \in Nat /\ j \in Nat
      BY <1>1, <2>1
    <3>2. i + 1 = j + 1
      BY <1>4, <3>1 DEF Once
    <3>3. QED BY <3>1, <3>2
  <2>2. ASSUME NEW i \in DOMAIN t PROVE t[i] # Head(s)
    <3>1. i + 1 \in DOMAIN s /\ 1 \in DOMAIN s /\ t[i] = s[i + 1] /\ i + 1 # 1
      BY <1>1
    <3>2. QED BY <1>1, <1>4, <3>1 DEF Once
  <2>3. QED BY <2>1, <2>2 DEF Once, Elements
<1>5. 1 \in DOMAIN s
  BY <1>1
<1>6. QED BY <1>1, <1>3, <1>4, <1>5 DEF t

LEMMA MinIsMember ==
  ASSUME NEW S \in SUBSET Nat, S # {}
  PROVE  Min(S) \in S /\ \A k \in S : Min(S) <= k
BY LeastNumber DEF Min

LEMMA RemoveAtSeq ==
  ASSUME NEW T, NEW s \in Seq(T), NEW i \in 1 .. Len(s)
  PROVE  /\ RemoveAt(s, i) \in Seq(T) /\ Len(RemoveAt(s, i)) = Len(s) - 1
         /\ \A j \in 1 .. Len(s) - 1 : RemoveAt(s, i)[j] = IF j < i THEN s[j] ELSE s[j + 1]
<1> DEFINE a == SubSeq(s, 1, i - 1)
           b == SubSeq(s, i + 1, Len(s))
<1>1. a \in Seq(T) /\ Len(a) = i - 1 /\ \A j \in 1 .. i - 1 : a[j] = s[j]
  OBVIOUS
<1>2. b \in Seq(T) /\ Len(b) = Len(s) - i /\ \A j \in 1 .. Len(s) - i : b[j] = s[i + j]
  OBVIOUS
<1>3. RemoveAt(s, i) = a \o b
  BY DEF RemoveAt
<1> HIDE DEF a, b
<1>4. /\ a \o b \in Seq(T) /\ Len(a \o b) = Len(a) + Len(b)
      /\ \A j \in 1 .. Len(a) + Len(b) : (a \o b)[j] = IF j <= Len(a) THEN a[j] ELSE b[j - Len(a)]
  BY <1>1, <1>2, ConcatProperties
<1>5. ASSUME NEW j \in 1 .. Len(s) - 1
      PROVE  (a \o b)[j] = IF j < i THEN s[j] ELSE s[j + 1]
  <2>1. CASE j < i
    BY <1>1, <1>2, <1>4, <2>1
  <2>2. CASE ~(j < i)
    <3>1. j - (i - 1) \in 1 .. Len(s) - i /\ i + (j - (i - 1)) = j + 1 /\ ~(j <= i - 1)
      BY <2>2
    <3>2. b[j - (i - 1)] = s[j + 1]
      BY <1>2, <3>1
    <3> QED
      BY <1>1, <1>2, <1>4, <2>2, <3>1, <3>2
  <2> QED
    BY <2>1, <2>2
<1> QED
  BY <1>1, <1>2, <1>3, <1>4, <1>5

LEMMA RemoveFirstSeq ==
  ASSUME NEW T, NEW s \in Seq(T), NEW x
  PROVE  /\ RemoveFirst(s, x) \in Seq(T)
         /\ \A y : y \in Elements(RemoveFirst(s, x)) => y \in Elements(s)
         /\ Once(s) => /\ Once(RemoveFirst(s, x))
                      /\ \A y : y \in Elements(RemoveFirst(s, x)) <=> y \in Elements(s) /\ y # x
<1> DEFINE I == {i \in 1 .. Len(s) : s[i] = x}
           m == Min(I)
           r == RemoveAt(s, m)
<1>1. CASE I = {}
  <2>1. RemoveFirst(s, x) = s
    BY <1>1 DEF RemoveFirst
  <2>2. x \notin Elements(s)
    BY <1>1 DEF Elements
  <2> QED
    BY <2>1, <2>2 DEF Elements
<1>2. CASE I # {}
  <2>1. I \in SUBSET Nat
    OBVIOUS
  <2>2. m \in I
    <3> HIDE DEF I
    <3> QED
      BY <1>2, <2>1, MinIsMember
  <2>3. RemoveFirst(s, x) = r
    <3>1. SelectInSeq(s, LAMBDA v : v = x) = m
      BY <1>2, Zenon DEF SelectInSeq
    <3>2. \E i \in 1 .. Len(s) : s[i] = x
      BY <1>2
    <3> QED
      BY <3>1, <3>2, Zenon DEF RemoveFirst
  <2> HIDE DEF m, r
  <2>4. m \in 1 .. Len(s) /\ s[m] = x
    BY <2>2
  <2>5. /\ r \in Seq(T) /\ Len(r) = Len(s) - 1
        /\ \A j \in 1 .. Len(s) - 1 : r[j] = IF j < m THEN s[j] ELSE s[j + 1]
    BY <2>4, RemoveAtSeq DEF r
  <2> HIDE DEF I
  <2>6. \A y : y \in Elements(r) => y \in Elements(s)
    BY <2>4, <2>5 DEF Elements
  <2>7. ASSUME Once(s) PROVE Once(r)
    <3>1. SUFFICES ASSUME NEW i \in 1 .. Len(s) - 1, NEW j \in 1 .. Len(s) - 1, r[i] = r[j], i # j
                   PROVE  FALSE
      BY <2>5 DEF Once
    <3> DEFINE up(n) == IF n < m THEN n ELSE n + 1
    <3>2. up(i) \in 1 .. Len(s) /\ up(j) \in 1 .. Len(s) /\ up(i) # up(j)
      BY <2>4, <3>1
    <3>3. r[i] = s[up(i)] /\ r[j] = s[up(j)]
      BY <2>5
    <3> HIDE DEF up
    <3>4. \A a, b \in 1 .. Len(s) : s[a] = s[b] => a = b
      BY <2>7 DEF Once
    <3> QED
      BY <3>1, <3>2, <3>3, <3>4
  <2>8. ASSUME Once(s), NEW y, y \in Elements(r) PROVE y # x
    BY <2>4, <2>5, <2>8 DEF Once, Elements
  <2>9. ASSUME NEW y, y \in Elements(s), y # x PROVE y \in Elements(r)
    <3>1. PICK j \in 1 .. Len(s) : s[j] = y
      BY <2>9 DEF Elements
    <3>2. CASE j < m
      <4>1. j \in 1 .. Len(r) /\ r[j] = y
        BY <2>4, <2>5, <3>1, <3>2
      <4> QED
        BY <4>1, <2>5 DEF Elements
    <3>3. CASE ~(j < m)
      <4>1. j - 1 \in 1 .. Len(r) /\ r[j - 1] = y
        BY <2>4, <2>5, <2>9, <3>1, <3>3
      <4> QED
        BY <4>1, <2>5 DEF Elements
    <3> QED
      BY <3>2, <3>3
  <2> QED
    BY <2>3, <2>5, <2>6, <2>7, <2>8, <2>9
<1> QED
  BY <1>1, <1>2

-----------------------------------------------------------------------------
(* Listener                                                                *)

\* Steps from one sender to another, in the order in which they get their turns.
Ahead(s, w) == IF w >= s THEN w - s ELSE w - s + WorkerCount

ListenerTyped ==
    /\ cts \in [LI!Workers -> BOOLEAN] /\ ready \in [LI!Workers -> BOOLEAN]
    /\ event \in [LI!Workers -> BOOLEAN]
    /\ DOMAIN slot = LI!Workers
    /\ worker \in [LI!Workers -> [alive : BOOLEAN, held : Nat, asking : BOOLEAN]]
    /\ pc \in {"wait", "accept", "send", "sent", "stopped"}
    /\ tries \in Nat /\ tries <= WorkerCount
    /\ listeners_pos \in LI!Socks /\ senders_pos \in LI!Workers
    /\ passed \in [LI!Workers -> Nat]

\* What was accepted is kept with the socket it came from, and a worker that
\* is waiting, or has been given a connection, has room for it.
Places ==
    /\ conn # None => conn.pos = conn.from
    /\ \A w \in LI!Workers :
          /\ slot[w] # None => slot[w].pos = slot[w].from
          /\ slot[w] # None \/ cts[w] => worker[w].held < ConnMax
          /\ cts[w] => slot[w] = None

\* One of the senders that have still to be tried is writable.
SenderLeft ==
    /\ pc = "accept" => \E w \in LI!Workers : LI!Writable(w)
    /\ pc = "send" =>
          \E w \in LI!Workers : LI!Writable(w) /\ Ahead(senders_pos, w) < WorkerCount - tries

\* A sender that was passed over stays writable, and the turn comes nearer.
TurnNears ==
    \A w \in LI!Workers : passed[w] > 0 =>
       /\ LI!Writable(w)
       /\ IF pc = "sent" THEN senders_pos # w /\ passed[w] + Ahead(senders_pos, w) <= WorkerCount
          ELSE passed[w] + Ahead(senders_pos, w) < WorkerCount

ListenerInv == ListenerTyped /\ ~lost /\ Places /\ SenderLeft /\ TurnNears

LEMMA ListenerInit ==
    ASSUME ListenerSizes, LI!Init
    PROVE  ListenerInv
BY DEF ListenerSizes, LI!Init, ListenerInv, ListenerTyped, Places, SenderLeft, TurnNears,
       LI!Workers, LI!Socks

LEMMA NextAhead ==
    ASSUME ListenerSizes, senders_pos \in LI!Workers, LI!NextSender
    PROVE  /\ senders_pos' \in LI!Workers
           /\ \A w \in LI!Workers : w # senders_pos => Ahead(senders_pos', w) = Ahead(senders_pos, w) - 1
           /\ \A w \in LI!Workers : Ahead(senders_pos, w) \in 0 .. (WorkerCount - 1)
<1>1. senders_pos' = IF senders_pos + 1 = WorkerCount THEN 0 ELSE senders_pos + 1
  BY DEF ListenerSizes, LI!Workers, LI!NextSender
<1>2. QED BY <1>1 DEF ListenerSizes, LI!Workers, Ahead

\* The sockets and the workers change nothing the listener relies on.
LEMMA OthersStep ==
    ASSUME ListenerSizes, ListenerInv, NEW w \in LI!Workers, NEW l \in LI!Socks,
           \/ LI!Arrive(l) \/ LI!WorkerRecv(w) \/ LI!WorkerRaise(w) \/ LI!WorkerDone(w)
           \/ LI!WorkerStop(w) \/ LI!React(w)
    PROVE  ListenerInv'
<1> USE DEF ListenerInv, ListenerSizes
<1>1. UNCHANGED <<pc, conn, tries, listeners_pos, senders_pos, lost, passed>>
  BY DEF LI!Arrive, LI!WorkerRecv, LI!WorkerRaise, LI!WorkerDone, LI!WorkerStop, LI!React, LI!listenerVars
<1>2. ListenerTyped' /\ Places'
  <2> USE DEF ListenerTyped, Places
  <2>1. CASE LI!Arrive(l)
    BY <1>1, <2>1 DEF LI!Arrive
  <2>2. CASE LI!WorkerRecv(w)
    <3>1. CASE slot[w] # None
      BY <1>1, <2>2, <3>1 DEF LI!WorkerRecv
    <3>2. CASE slot[w] = None
      <4>1. /\ cts' = [cts EXCEPT ![w] = TRUE] /\ UNCHANGED <<slot, event, ready>>
            /\ worker' = [worker EXCEPT ![w].asking = TRUE] /\ worker[w].held < ConnMax
        BY <2>2, <3>2 DEF LI!WorkerRecv
      <4>2. /\ worker' \in [LI!Workers -> [alive : BOOLEAN, held : Nat, asking : BOOLEAN]]
            /\ \A v \in LI!Workers : worker'[v].held = worker[v].held
        BY <4>1, ZenonT(40)
      <4>3. /\ cts' \in [LI!Workers -> BOOLEAN]
            /\ \A v \in LI!Workers : cts'[v] = IF v = w THEN TRUE ELSE cts[v]
        BY <4>1
      <4>4. QED BY <1>1, <3>2, <4>1, <4>2, <4>3
    <3>3. QED BY <3>1, <3>2
  <2>3. CASE LI!WorkerRaise(w)
    BY <1>1, <2>3 DEF LI!WorkerRaise
  <2>4. CASE LI!WorkerDone(w)
    BY <1>1, <2>4 DEF LI!WorkerDone
  <2>5. CASE LI!WorkerStop(w)
    BY <1>1, <2>5 DEF LI!WorkerStop
  <2>6. CASE LI!React(w)
    BY <1>1, <2>6 DEF LI!React
  <2>7. QED BY <2>1, <2>2, <2>3, <2>4, <2>5, <2>6
<1>4. \A v \in LI!Workers : LI!Writable(v) => LI!Writable(v)'
  BY DEF ListenerTyped, LI!Writable, LI!Arrive, LI!WorkerRecv, LI!WorkerRaise, LI!WorkerDone,
         LI!WorkerStop, LI!React
<1>5. SenderLeft' /\ TurnNears'
  BY <1>1, <1>4 DEF SenderLeft, TurnNears, Ahead
<1>6. QED BY <1>1, <1>2, <1>5

LEMMA PolledStep ==
    ASSUME ListenerTyped, NEW S, ready' = LI!Polled(S), cts' = cts
    PROVE  /\ ready' \in [LI!Workers -> BOOLEAN]
           /\ \A w \in LI!Workers : LI!Writable(w) => LI!Writable(w)'
BY DEF ListenerTyped, LI!Polled, LI!Writable

LEMMA WaitStep ==
    ASSUME ListenerSizes, ListenerInv, LI!WaitWritable
    PROVE  ListenerInv'
<1> USE DEF ListenerInv, ListenerSizes
<1>1. /\ UNCHANGED <<cts, slot, event, worker, conn, tries, listeners_pos, senders_pos, lost, passed>>
      /\ pc = "wait" /\ pc' \in {"wait", "accept"}
      /\ pc' = "accept" => \E w \in LI!Workers : LI!Writable(w)
  BY DEF LI!WaitWritable
<1>2. PICK S : ready' = LI!Polled(S)
  BY DEF LI!WaitWritable
<1>3. /\ ready' \in [LI!Workers -> BOOLEAN]
      /\ \A w \in LI!Workers : LI!Writable(w) => LI!Writable(w)'
  BY <1>1, <1>2, PolledStep
<1>4. ListenerTyped' /\ Places'
  BY <1>1, <1>3 DEF ListenerTyped, Places
<1>5. SenderLeft' /\ TurnNears'
  BY <1>1, <1>3 DEF SenderLeft, TurnNears, Ahead
<1>6. QED BY <1>1, <1>4, <1>5

LEMMA SentStep ==
    ASSUME ListenerSizes, ListenerInv, LI!Sent
    PROVE  ListenerInv'
<1> USE DEF ListenerInv, ListenerSizes
<1>1. /\ UNCHANGED <<cts, slot, event, worker, conn, tries, listeners_pos, lost, passed>>
      /\ pc = "sent" /\ pc' = "wait" /\ LI!NextSender /\ ready' = LI!Polled({senders_pos})
  BY DEF LI!Sent
<1>2. senders_pos \in LI!Workers
  BY DEF ListenerTyped
<1>3. /\ ready' \in [LI!Workers -> BOOLEAN]
      /\ \A w \in LI!Workers : LI!Writable(w) => LI!Writable(w)'
  BY <1>1, PolledStep
<1>4. /\ senders_pos' \in LI!Workers
      /\ \A w \in LI!Workers : w # senders_pos => Ahead(senders_pos', w) = Ahead(senders_pos, w) - 1
      /\ \A w \in LI!Workers : Ahead(senders_pos, w) \in 0 .. (WorkerCount - 1)
  BY <1>1, <1>2, NextAhead
<1>5. ListenerTyped' /\ Places' /\ SenderLeft'
  BY <1>1, <1>3, <1>4 DEF ListenerTyped, Places, SenderLeft
<1>6. TurnNears'
  <2>1. SUFFICES ASSUME NEW w \in LI!Workers, passed[w] > 0
                 PROVE  LI!Writable(w)' /\ passed[w] + Ahead(senders_pos', w) < WorkerCount
    BY <1>1 DEF TurnNears, Ahead
  <2>2. LI!Writable(w) /\ senders_pos # w /\ passed[w] + Ahead(senders_pos, w) <= WorkerCount
    BY <1>1, <2>1 DEF TurnNears
  <2>3. passed[w] \in Nat
    BY DEF ListenerTyped
  <2> HIDE DEF ListenerInv
  <2>4. QED BY <1>3, <1>4, <2>2, <2>3
<1>7. QED BY <1>1, <1>5, <1>6

LEMMA StopStep ==
    ASSUME ListenerSizes, ListenerInv, LI!Stop
    PROVE  ListenerInv'
BY DEF ListenerInv, ListenerTyped, Places, SenderLeft, TurnNears, LI!Stop, LI!Writable, Ahead

LEMMA ModOnce ==
    ASSUME NEW n \in Nat, NEW m \in Nat, n > 0, m >= n, m < 2 * n
    PROVE  m % n = m - n
<1> DEFINE q == m \div n
<1>2. m = n * q + (m % n) /\ m % n \in 0 .. (n - 1) /\ q \in Int
  OBVIOUS
<1> HIDE DEF q
<1>3. CASE q = 1
    BY <1>2, <1>3
<1>4. CASE q <= 0
  <2>1. n * q <= 0
      BY <1>2, <1>4
  <2>2. QED BY <1>2, <2>1
<1>5. CASE q >= 2
  <2>1. n * q >= 2 * n
      BY <1>2, <1>5
  <2>2. QED BY <1>2, <2>1
<1>6. QED BY <1>2, <1>3, <1>4, <1>5

\* The k-th socket of the rotated list is the one whose number is kept.
LEMMA Rotated ==
    ASSUME ListenerSizes, NEW p \in LI!Socks, NEW k \in LI!Socks
    PROVE  (SubSeq([l \in 1..Sockets |-> l - 1], p + 1, Sockets)
            \o SubSeq([l \in 1..Sockets |-> l - 1], 1, p))[k + 1] = (p + k) % Sockets
<1> DEFINE all == [l \in 1..Sockets |-> l - 1]
           a == SubSeq(all, p + 1, Sockets)
           b == SubSeq(all, 1, p)
<1>0. p \in Nat /\ k \in Nat /\ p < Sockets /\ k < Sockets /\ Sockets \in Nat
  BY DEF ListenerSizes, LI!Socks
<1>1. all \in Seq(Nat) /\ Len(all) = Sockets
  BY <1>0
<1>2. a = [i \in 1..(Sockets - p) |-> all[p + i]] /\ b = [i \in 1..p |-> all[i]]
  BY <1>0, <1>1
<1>3. a \in Seq(Nat) /\ Len(a) = Sockets - p /\ b \in Seq(Nat) /\ Len(b) = p
  BY <1>0, <1>2
<1>4. (a \o b)[k + 1] = IF k + 1 <= Sockets - p THEN a[k + 1] ELSE b[k + 1 - (Sockets - p)]
  <2> HIDE DEF a, b
  <2> QED BY <1>0, <1>3
<1>5. (a \o b)[k + 1] = IF p + k < Sockets THEN p + k ELSE p + k - Sockets
  <2>1. k + 1 <= Sockets - p => a[k + 1] = p + k
    BY <1>0, <1>2
  <2>2. ~(k + 1 <= Sockets - p) => b[k + 1 - (Sockets - p)] = p + k - Sockets
    BY <1>0, <1>2
  <2> HIDE DEF a, b
  <2>3. QED BY <1>0, <1>4, <2>1, <2>2
<1>6. (p + k) % Sockets = IF p + k < Sockets THEN p + k ELSE p + k - Sockets
  <2>1. CASE p + k < Sockets
    BY <1>0, <2>1
  <2>2. CASE ~(p + k < Sockets)
    <3> DEFINE sum == p + k
    <3>1. sum \in Nat /\ Sockets > 0 /\ sum >= Sockets /\ sum < 2 * Sockets
      BY <1>0, <2>2
    <3>2. sum % Sockets = sum - Sockets
      <4> HIDE DEF sum
      <4> QED BY <1>0, <3>1, ModOnce
    <3>3. (p + k) % Sockets = (p + k) - Sockets
      BY <3>2, Zenon
    <3>4. QED BY <1>0, <2>2, <3>3
  <2>3. QED BY <2>1, <2>2
<1>7. (a \o b)[k + 1] = (p + k) % Sockets
  <2> HIDE DEF a, b
  <2> QED BY <1>5, <1>6
<1>8. QED BY <1>7, Zenon

LEMMA AcceptStep ==
    ASSUME ListenerSizes, ListenerInv, NEW k \in LI!Socks, LI!Accept(k)
    PROVE  ListenerInv'
<1> USE DEF ListenerInv, ListenerSizes
<1>1. /\ UNCHANGED <<cts, slot, event, ready, worker, senders_pos, lost, passed>>
      /\ pc = "accept" /\ pc' = "send" /\ tries' = 0
      /\ conn'.pos = conn'.from
      /\ listeners_pos' \in LI!Socks
  <2>1. listeners_pos \in LI!Socks
    BY DEF ListenerTyped
  <2>2. conn'.from = (listeners_pos + k) % Sockets /\ conn'.pos = (listeners_pos + k) % Sockets
        /\ listeners_pos' = (conn'.pos + 1) % Sockets
    BY <2>1, Rotated DEF LI!Accept
  <2>3. listeners_pos' \in LI!Socks
    BY <2>1, <2>2 DEF LI!Socks
  <2>4. QED BY <2>2, <2>3 DEF LI!Accept
<1>2. ListenerTyped' /\ Places'
  BY <1>1 DEF ListenerTyped, Places
<1>3. SenderLeft'
  <2>1. PICK w \in LI!Workers : LI!Writable(w)
    BY <1>1 DEF SenderLeft
  <2>2. Ahead(senders_pos, w) < WorkerCount
    BY DEF ListenerTyped, LI!Workers, Ahead
  <2>3. QED BY <1>1, <2>1, <2>2 DEF SenderLeft, LI!Writable, Ahead
<1>4. TurnNears'
  BY <1>1 DEF TurnNears, LI!Writable, Ahead
<1>5. QED BY <1>1, <1>2, <1>3, <1>4

LEMMA TrySendStep ==
    ASSUME ListenerSizes, ListenerInv, LI!Send, tries # WorkerCount, LI!Writable(senders_pos)
    PROVE  ListenerInv'
<1> USE DEF ListenerInv, ListenerSizes
<1> DEFINE s == senders_pos
<1>1. /\ UNCHANGED <<event, ready, worker, listeners_pos, lost>>
      /\ tries' = tries + 1 /\ LI!TrySend(s) /\ pc = "send"
  BY DEF LI!Send
<1>2. s \in LI!Workers
  BY DEF ListenerTyped
<1>3. /\ cts' = [cts EXCEPT ![s] = FALSE] /\ conn' = None
      /\ slot' = IF worker[s].alive THEN [slot EXCEPT ![s] = conn] ELSE slot
      /\ passed' = [w \in LI!Workers |-> IF w # s /\ LI!Writable(w) THEN passed[w] + 1 ELSE 0]
      /\ \/ pc' = "sent" /\ s' = s
         \/ pc' = "wait" /\ LI!NextSender
  BY <1>1 DEF LI!TrySend
<1>4. LI!NextSender =>
      /\ s' \in LI!Workers
      /\ \A w \in LI!Workers : w # s => Ahead(s', w) = Ahead(s, w) - 1
  BY <1>2, NextAhead
<1>5. \A w \in LI!Workers : Ahead(s, w) \in 0 .. (WorkerCount - 1) /\ Ahead(s, s) = 0
  BY <1>2 DEF LI!Workers, Ahead
<1>6. s' \in LI!Workers
  BY <1>2, <1>3, <1>4
<1>7. ListenerTyped'
  BY <1>1, <1>2, <1>3, <1>6 DEF ListenerTyped
<1>8. Places'
  BY <1>1, <1>2, <1>3 DEF ListenerTyped, Places, LI!Writable
<1>9. SenderLeft'
  BY <1>3 DEF SenderLeft
<1>10. TurnNears'
  <2>1. SUFFICES ASSUME NEW w \in LI!Workers, passed'[w] > 0
                 PROVE  /\ LI!Writable(w)'
                        /\ IF pc' = "sent" THEN s' # w /\ passed'[w] + Ahead(s', w) <= WorkerCount
                           ELSE passed'[w] + Ahead(s', w) < WorkerCount
    BY DEF TurnNears, Ahead
  <2>2. w # s /\ LI!Writable(w) /\ passed'[w] = passed[w] + 1 /\ passed[w] \in Nat
    BY <1>3, <2>1 DEF ListenerTyped
  <2>3. LI!Writable(w)'
    BY <1>1, <1>2, <1>3, <2>2 DEF LI!Writable, ListenerTyped
  <2>4. passed[w] + Ahead(s, w) < WorkerCount
    <3>1. CASE passed[w] > 0
      BY <1>1, <3>1 DEF TurnNears
    <3>2. CASE passed[w] = 0
      BY <1>5, <3>2
    <3>3. QED BY <2>2, <3>1, <3>2
  <2>5. Ahead(s, w) \in Nat
    BY <1>5
  <2> HIDE DEF ListenerInv
  <2>6. CASE pc' = "sent" /\ s' = s
    BY <2>2, <2>3, <2>4, <2>5, <2>6
  <2>7. CASE pc' = "wait" /\ LI!NextSender
    BY <1>4, <2>2, <2>3, <2>4, <2>5, <2>7
  <2>8. QED BY <1>3, <2>6, <2>7
<1>11. QED BY <1>1, <1>7, <1>8, <1>9, <1>10

LEMMA PassStep ==
    ASSUME ListenerSizes, ListenerInv, LI!Send, tries # WorkerCount, ~LI!Writable(senders_pos)
    PROVE  ListenerInv'
<1> USE DEF ListenerInv, ListenerSizes
<1> DEFINE s == senders_pos
<1>1. /\ UNCHANGED <<event, worker, listeners_pos, cts, slot, conn, pc, lost, passed>>
      /\ tries' = tries + 1 /\ pc = "send" /\ LI!NextSender
      /\ ready' = [ready EXCEPT ![s] = FALSE]
  BY DEF LI!Send
<1>2. s \in LI!Workers /\ tries \in Nat /\ tries < WorkerCount
  BY DEF ListenerTyped
<1>3. /\ s' \in LI!Workers
      /\ \A w \in LI!Workers : w # s => Ahead(s', w) = Ahead(s, w) - 1
      /\ \A w \in LI!Workers : Ahead(s, w) \in 0 .. (WorkerCount - 1)
  BY <1>1, <1>2, NextAhead
<1>4. \A w \in LI!Workers : LI!Writable(w) => w # s /\ LI!Writable(w)'
  BY <1>1, <1>2 DEF LI!Writable, ListenerTyped
<1>5. ListenerTyped' /\ Places'
  BY <1>1, <1>2, <1>3 DEF ListenerTyped, Places
<1>6. SenderLeft'
  <2>1. PICK w \in LI!Workers : LI!Writable(w) /\ Ahead(s, w) < WorkerCount - tries
    BY <1>1 DEF SenderLeft
  <2>2. LI!Writable(w)' /\ Ahead(s', w) < WorkerCount - tries'
    <3> HIDE DEF ListenerInv, s
    <3> QED BY <1>1, <1>2, <1>3, <1>4, <2>1
  <2>3. QED BY <1>1, <2>2 DEF SenderLeft, Ahead
<1>7. TurnNears'
  <2>1. SUFFICES ASSUME NEW w \in LI!Workers, passed[w] > 0
                 PROVE  LI!Writable(w)' /\ passed[w] + Ahead(s', w) < WorkerCount
    BY <1>1 DEF TurnNears, Ahead
  <2>2. LI!Writable(w) /\ passed[w] + Ahead(s, w) < WorkerCount /\ passed[w] \in Nat
    BY <1>1, <2>1 DEF TurnNears, ListenerTyped
  <2> HIDE DEF ListenerInv, s
  <2>3. QED BY <1>3, <1>4, <2>2
<1>8. QED BY <1>1, <1>5, <1>6, <1>7

\* The connection is never dropped: a writable sender is left whenever one is
\* tried.
LEMMA SendStep ==
    ASSUME ListenerSizes, ListenerInv, LI!Send
    PROVE  ListenerInv'
<1>1. pc = "send" /\ senders_pos \in LI!Workers
  BY DEF LI!Send, ListenerInv, ListenerTyped
<1>2. tries # WorkerCount
  BY <1>1 DEF ListenerInv, SenderLeft, ListenerSizes, LI!Workers, Ahead
<1>3. QED BY <1>2, TrySendStep, PassStep

\* Whatever the workers do and however many sockets and workers there are, no
\* accepted connection is dropped, each is with the socket it came from and
\* goes to a worker with room for it.
THEOREM ListenerInvariance ==
    ASSUME ListenerSizes
    PROVE  LI!Spec => []ListenerInv
<1>1. ListenerInv /\ UNCHANGED LI!vars => ListenerInv'
  BY DEF LI!vars, ListenerInv, ListenerTyped, Places, SenderLeft, TurnNears, LI!Writable, Ahead
<1>2. Nat \ {0} # {} /\ 0 \in LI!Socks /\ 0 \in LI!Workers
  BY DEF ListenerSizes, LI!Socks, LI!Workers
<1>3. ListenerInv /\ LI!Next => ListenerInv'
  BY <1>2, OthersStep, AcceptStep, WaitStep, SendStep, SentStep, StopStep DEF LI!Next
<1>4. QED BY <1>1, <1>3, ListenerInit, PTL DEF LI!Spec

LEMMA ListenerServes ==
    ASSUME ListenerSizes
    PROVE  LI!Spec => [](LI!ConnectionsPlaced /\ LI!TurnsTaken)
<1>1. ListenerInv => LI!ConnectionsPlaced /\ LI!TurnsTaken
  <2>1. ASSUME ListenerInv PROVE LI!ConnectionsPlaced
    BY <2>1 DEF ListenerInv, Places, LI!ConnectionsPlaced
  <2>2. ASSUME ListenerInv, NEW w \in LI!Workers PROVE passed[w] < WorkerCount
    <3>1. passed[w] \in Nat /\ senders_pos \in LI!Workers
      BY <2>2 DEF ListenerInv, ListenerTyped
    <3>2. Ahead(senders_pos, w) \in Nat
          /\ (senders_pos # w => Ahead(senders_pos, w) > 0)
      BY <3>1 DEF Ahead, ListenerSizes, LI!Workers
    <3>3. passed[w] > 0 => passed[w] + Ahead(senders_pos, w) < WorkerCount
                           \/ (senders_pos # w /\ passed[w] + Ahead(senders_pos, w) <= WorkerCount)
      BY <2>2 DEF ListenerInv, TurnNears
    <3>4. QED BY <3>1, <3>2, <3>3 DEF ListenerSizes
  <2>3. QED BY <2>1, <2>2 DEF LI!TurnsTaken
<1>2. QED BY <1>1, ListenerInvariance, PTL

-----------------------------------------------------------------------------
(* ClientSocketManager                                                     *)

ManagerTyped ==
    /\ control \in Seq(Handles \cup {SM!Nobody}) /\ Len(control) <= 1
    /\ owner \in [Handles -> {"none", "asked", "open", "dropped"}]
    /\ lists \in [SM!Kinds -> Seq(Handles)]
    /\ valid \in [Handles -> BOOLEAN] /\ need_cleanup \in [SM!Kinds -> BOOLEAN]
    /\ pc \in {"loop", "send", "stopped"} /\ todo \in Seq(Handles)
    /\ packets \in Seq(Arrivals) /\ (pc = "send" => packets # <<>>)
    /\ since \in [Handles -> Nat] /\ delivered \in [Handles -> Seq(Nat)]

\* A handle is in one list once, after it was asked for, and is valid for as
\* long as its worker has not dropped it.
ListsSound ==
    /\ \A k \in SM!Kinds : Once(lists[k]) /\ \A h \in Elements(lists[k]) : Kind[h] = k
    /\ Once(todo) /\ \A h \in Elements(todo) : owner[h] \in {"open", "dropped"}
    /\ \A h \in Handles :
          /\ owner[h] # "dropped" => valid[h]
          /\ owner[h] \in {"none", "asked"} => delivered[h] = <<>>
          /\ owner[h] = "none" => control # <<h>>
          /\ owner[h] = "none" \/ control = <<h>> => h \notin Elements(lists[Kind[h]])
          /\ owner[h] = "asked" => control = <<h>>
          /\ owner[h] = "open" => control # <<h>>
          /\ owner[h] = "open" /\ pc # "stopped" => h \in Elements(lists[Kind[h]])

\* The packets that the send in progress has finished with, for a handle.
Through(h) == IF pc = "send" /\ h \in Elements(todo) THEN Len(packets) - 1 ELSE Len(packets)

\* Each open handle was given exactly what matched it so far, in order.
GivenSoFar ==
    \A h \in Handles : owner[h] = "open" =>
        /\ \A i \in 1..(Len(delivered[h]) - 1) : delivered[h][i] < delivered[h][i + 1]
        /\ Elements(delivered[h]) = {n \in (since[h] + 1)..Through(h) : SM!Matches(h, packets[n])}
        /\ since[h] <= Through(h)

ManagerInv == ManagerTyped /\ ListsSound /\ GivenSoFar /\ SM!HandlesFit

KeptOf(f, list, v, i) ==
    IF i = 0 THEN <<>> ELSE IF v[list[i]] THEN Append(f[i - 1], list[i]) ELSE f[i - 1]

IsKept(f, list, v, n) == f = [i \in 0..n |-> KeptOf(f, list, v, i)]

LEMMA KeptExists ==
    ASSUME NEW list, NEW v, NEW n \in Nat
    PROVE  \E f : IsKept(f, list, v, n)
<1> DEFINE P == {m \in Nat : \E f : IsKept(f, list, v, m)}
<1>1. 0 \in P
  <2>1. \A f : KeptOf(f, list, v, 0) = <<>>
    BY DEF KeptOf
  <2>2. IsKept([i \in 0..0 |-> <<>>], list, v, 0)
    BY <2>1 DEF IsKept
  <2>3. QED BY <2>2
<1>2. ASSUME NEW m \in Nat, m \in P PROVE m + 1 \in P
  <2>1. PICK f : IsKept(f, list, v, m)
    BY <1>2
  <2> DEFINE g == [i \in 0..(m + 1) |-> KeptOf(f, list, v, i)]
  <2>2. ASSUME NEW i \in 0..m PROVE g[i] = f[i]
    BY <2>1 DEF IsKept
  <2>3. ASSUME NEW i \in 0..(m + 1) PROVE KeptOf(g, list, v, i) = KeptOf(f, list, v, i)
    <3>1. CASE i = 0
      BY <3>1 DEF KeptOf
    <3>2. CASE i # 0
      <4>0. i - 1 \in 0..m
        BY <3>2
      <4> HIDE DEF g
      <4>1. g[i - 1] = f[i - 1]
        BY <2>2, <4>0
      <4>2. QED BY <4>1 DEF KeptOf
    <3>3. QED BY <3>1, <3>2
  <2>4. IsKept(g, list, v, m + 1)
    BY <2>3 DEF IsKept
  <2>5. QED BY <2>4
<1>3. Nat \subseteq P
  <2> HIDE DEF P
  <2> QED BY <1>1, <1>2, Induction
<1>4. QED BY <1>3

\* The handles that are still valid stay, in order and once each.
LEMMA CleanupKeeps ==
    ASSUME NEW list \in Seq(Handles), NEW v \in [Handles -> BOOLEAN], Once(list)
    PROVE  /\ SM!cleanup(list, v) \in Seq(Handles)
           /\ Len(SM!cleanup(list, v)) <= Len(list)
           /\ Once(SM!cleanup(list, v))
           /\ Elements(SM!cleanup(list, v)) = {h \in Elements(list) : v[h]}
<1> DEFINE n == Len(list)
           f == CHOOSE g : IsKept(g, list, v, n)
<1>1. IsKept(f, list, v, n)
  BY KeptExists
<1>2. SM!cleanup(list, v) = f[n]
  BY Zenon DEF SM!cleanup, IsKept, KeptOf
<1> HIDE DEF f
<1>3. f[0] = <<>> /\ \A i \in 1..n : f[i] = IF v[list[i]] THEN Append(f[i - 1], list[i]) ELSE f[i - 1]
  <2>1. \A i \in 0..n : f[i] = KeptOf(f, list, v, i)
    BY <1>1 DEF IsKept
  <2>2. QED BY <2>1 DEF KeptOf
<1> DEFINE Upto(m) == {list[i] : i \in {j \in 1..m : v[list[j]]}}
           P == {m \in Nat : m <= n => /\ f[m] \in Seq(Handles) /\ Len(f[m]) <= m
                                       /\ Once(f[m]) /\ Elements(f[m]) = Upto(m)}
<1>4. 0 \in P
  <2>1. Upto(0) = {}
    OBVIOUS
  <2>2. /\ f[0] \in Seq(Handles) /\ Len(f[0]) <= 0 /\ Once(f[0]) /\ Elements(f[0]) = Upto(0)
    BY <1>3, <2>1, EmptyElements
  <2> HIDE DEF Upto
  <2>3. QED BY <2>2
<1>5. ASSUME NEW m \in Nat, m \in P, m + 1 <= n PROVE m + 1 \in P
  <2> DEFINE x == list[m + 1]
  <2>1. /\ f[m] \in Seq(Handles) /\ Len(f[m]) <= m /\ Len(f[m]) \in Nat
        /\ Once(f[m]) /\ Elements(f[m]) = Upto(m)
    BY <1>5
  <2>2. x \in Handles /\ f[m + 1] = IF v[x] THEN Append(f[m], x) ELSE f[m]
    BY <1>3, <1>5
  <2>3. x \notin Upto(m)
    BY <1>5 DEF Once
  <2>4. Upto(m + 1) = IF v[x] THEN Upto(m) \cup {x} ELSE Upto(m)
    BY <1>5
  <2> HIDE DEF x, Upto
  <2>5. CASE v[x]
    <3> DEFINE a == Append(f[m], x)
    <3>1. a \in Seq(Handles) /\ Len(a) = Len(f[m]) + 1
          /\ Elements(a) = Elements(f[m]) \cup {x} /\ Once(a)
      BY <2>1, <2>2, <2>3, AppendElements
    <3>2. f[m + 1] = a
      BY <2>2, <2>5
    <3> HIDE DEF a
    <3>3. Len(a) <= m + 1 /\ Elements(a) = Upto(m + 1)
      BY <2>1, <2>4, <2>5, <3>1
    <3>4. QED BY <3>1, <3>2, <3>3
  <2>6. CASE ~v[x]
    BY <2>1, <2>2, <2>4, <2>6
  <2>7. QED BY <2>5, <2>6
<1>6. Nat \subseteq P
  <2> HIDE DEF Upto
  <2>1. \A m \in Nat : m \in P => m + 1 \in P
    <3>1. SUFFICES ASSUME NEW m \in Nat, m \in P, ~(m + 1 <= n) PROVE m + 1 \in P
      BY <1>5
    <3>2. QED BY <3>1
  <2> HIDE DEF P
  <2>2. QED BY <1>4, <2>1, Induction
<1>7. n \in P /\ n \in Nat
  <2> HIDE DEF P
  <2> QED BY <1>6
<1>8. Upto(n) = {h \in Elements(list) : v[h]}
  BY DEF Elements
<1>9. /\ f[n] \in Seq(Handles) /\ Len(f[n]) <= n /\ Once(f[n]) /\ Elements(f[n]) = Upto(n)
  <2> HIDE DEF Upto
  <2> QED BY <1>7
<1>10. QED BY <1>2, <1>8, <1>9

LEMMA TurnKeeps ==
    ASSUME NEW ls \in [SM!Kinds -> Seq(Handles)], NEW v \in [Handles -> BOOLEAN],
           NEW need, \A k \in SM!Kinds : Once(ls[k]), SM!EndTurn(ls, v, need)
    PROVE  /\ lists' \in [SM!Kinds -> Seq(Handles)] /\ valid' = v
           /\ need_cleanup' \in [SM!Kinds -> BOOLEAN]
           /\ \A k \in SM!Kinds :
                 /\ Once(lists'[k]) /\ Len(lists'[k]) <= Len(ls[k])
                 /\ Elements(lists'[k]) \subseteq Elements(ls[k])
                 /\ \A h \in Elements(ls[k]) : v[h] => h \in Elements(lists'[k])
<1>1. valid' = v /\ need_cleanup' \in [SM!Kinds -> BOOLEAN]
  BY DEF SM!EndTurn
<1>2. ASSUME NEW k \in SM!Kinds
      PROVE  /\ lists'[k] \in Seq(Handles) /\ Once(lists'[k]) /\ Len(lists'[k]) <= Len(ls[k])
             /\ Elements(lists'[k]) \subseteq Elements(ls[k])
             /\ \A h \in Elements(ls[k]) : v[h] => h \in Elements(lists'[k])
  <2>1. lists'[k] = IF need[k] THEN SM!cleanup(ls[k], v) ELSE ls[k]
    BY DEF SM!EndTurn
  <2>2. ls[k] \in Seq(Handles) /\ Once(ls[k]) /\ Len(ls[k]) \in Nat
    OBVIOUS
  <2> DEFINE c == SM!cleanup(ls[k], v)
  <2>3. /\ c \in Seq(Handles) /\ Len(c) <= Len(ls[k]) /\ Once(c)
        /\ Elements(c) = {h \in Elements(ls[k]) : v[h]}
    BY <2>2, CleanupKeeps
  <2> HIDE DEF c
  <2>4. lists'[k] = c \/ lists'[k] = ls[k]
    BY <2>1 DEF c
  <2>5. QED BY <2>2, <2>3, <2>4
<1>3. lists' = [k \in SM!Kinds |-> lists'[k]]
  BY DEF SM!EndTurn
<1>4. QED BY <1>1, <1>2, <1>3

Size(k) == Len(lists[k])

LEMMA CountIs == SM!Count = Size("req") + Size("stream") /\ SM!Count' = Size("req")' + Size("stream")'
BY Zenon DEF SM!Count, Size

LEMMA FitStays ==
    ASSUME ManagerSizes, lists \in [SM!Kinds -> Seq(Handles)], lists' \in [SM!Kinds -> Seq(Handles)],
           \A k \in SM!Kinds : Len(lists'[k]) <= Len(lists[k]), SM!HandlesFit
    PROVE  SM!HandlesFit'
<1>1. \A k \in SM!Kinds : Size(k) \in Nat /\ Size(k)' \in Nat /\ Size(k)' <= Size(k)
  BY DEF Size
<1>2. "req" \in SM!Kinds /\ "stream" \in SM!Kinds
  BY DEF SM!Kinds
<1>3. SM!Count <= HANDLES_MAX
  BY DEF SM!HandlesFit
<1>4. SM!Count' <= HANDLES_MAX
  <2>1. Size("req")' <= Size("req") /\ Size("stream")' <= Size("stream")
        /\ Size("req") \in Nat /\ Size("req")' \in Nat /\ Size("stream") \in Nat /\ Size("stream")' \in Nat
    BY <1>1, <1>2, Zenon
  <2>2. QED BY <1>3, <2>1, CountIs DEF ManagerSizes
<1>5. QED BY <1>4 DEF SM!HandlesFit

\* The state a step of the manager between packets leaves alone.
Quiet == UNCHANGED <<control, owner, todo, packets, since, delivered>>

LEMMA TurnStep ==
    ASSUME ManagerSizes, ManagerInv, Quiet, SM!EndTurn(lists, valid, need_cleanup),
           pc' = pc \/ (pc = "send" /\ todo = <<>> /\ pc' = "loop")
    PROVE  ManagerInv'
<1> USE DEF ManagerInv, ManagerSizes
<1>1. /\ lists \in [SM!Kinds -> Seq(Handles)] /\ valid \in [Handles -> BOOLEAN]
      /\ \A k \in SM!Kinds : Once(lists[k])
  BY DEF ManagerTyped, ListsSound
<1>2. /\ lists' \in [SM!Kinds -> Seq(Handles)] /\ valid' = valid
      /\ need_cleanup' \in [SM!Kinds -> BOOLEAN]
      /\ \A k \in SM!Kinds :
            /\ Once(lists'[k]) /\ Len(lists'[k]) <= Len(lists[k])
            /\ Elements(lists'[k]) \subseteq Elements(lists[k])
            /\ \A h \in Elements(lists[k]) : valid[h] => h \in Elements(lists'[k])
  BY <1>1, TurnKeeps
<1>3. ManagerTyped'
  BY <1>2 DEF ManagerTyped, Quiet
<1>4. ListsSound'
  BY <1>2 DEF ListsSound, Quiet, ManagerTyped
<1>5. GivenSoFar'
  <2>1. \A h \in Handles : Through(h)' = Through(h)
    BY EmptyElements DEF Through, Quiet, ManagerTyped
  <2> HIDE DEF ManagerInv
  <2>2. UNCHANGED <<owner, packets, since, delivered>>
    BY DEF Quiet
  <2>3. GivenSoFar
    BY DEF ManagerInv
  <2>4. QED BY <2>1, <2>2, <2>3 DEF GivenSoFar, SM!Matches
<1>6. SM!HandlesFit'
  BY <1>1, <1>2, FitStays
<1>7. QED BY <1>3, <1>4, <1>5, <1>6

LEMMA WorkersStep ==
    ASSUME ManagerSizes, ManagerInv, NEW h \in Handles, NEW c,
           \/ SM!AskHandle(h) \/ SM!WorkerRecv(h) \/ SM!WorkerDrop(h) \/ SM!WorkerSend(h, c)
    PROVE  ManagerInv'
<1> USE DEF ManagerInv, ManagerSizes
<1>1. UNCHANGED <<lists, valid, need_cleanup, pc, todo, packets, since, delivered>>
  BY DEF SM!AskHandle, SM!WorkerRecv, SM!WorkerDrop, SM!WorkerSend
<1>2. SM!HandlesFit'
  BY <1>1 DEF SM!HandlesFit, SM!Count
<1>3. \A g \in Handles : owner'[g] = "open" => owner[g] = "open"
  BY DEF SM!AskHandle, SM!WorkerRecv, SM!WorkerDrop, SM!WorkerSend, ManagerTyped, SM!owners
<1>4. GivenSoFar'
  BY <1>1, <1>3 DEF GivenSoFar, Through, SM!Matches
<1>5. CASE SM!AskHandle(h)
  <2>1. /\ owner[h] = "none" /\ control = <<>> /\ control' = <<h>> /\ owner' = [owner EXCEPT ![h] = "asked"]
    BY <1>5 DEF SM!AskHandle
  <2>2. ManagerTyped'
    BY <1>1, <2>1 DEF ManagerTyped
  <2>3. \A g \in Handles : control # <<g>>
    BY <2>1
  <2>4. \A g \in Handles : control' = <<g>> => g = h
    BY <2>1
  <2>5. ListsSound'
    BY <1>1, <2>1, <2>3, <2>4 DEF ListsSound, ManagerTyped
  <2>6. QED BY <1>2, <1>4, <2>2, <2>5
<1>6. CASE SM!WorkerDrop(h)
  <2>1. /\ owner[h] \in {"asked", "open"} /\ control' = control
        /\ owner' = [owner EXCEPT ![h] = "dropped"]
    BY <1>6 DEF SM!WorkerDrop, SM!HasEnd
  <2>2. ManagerTyped'
    BY <1>1, <2>1 DEF ManagerTyped
  <2>3. ListsSound'
    BY <1>1, <2>1 DEF ListsSound, ManagerTyped
  <2>4. QED BY <1>2, <1>4, <2>2, <2>3
<1>7. CASE SM!WorkerRecv(h) \/ SM!WorkerSend(h, c)
  <2>1. UNCHANGED <<control, owner>>
    BY <1>7 DEF SM!WorkerRecv, SM!WorkerSend, SM!owners
  <2>2. ManagerTyped' /\ ListsSound'
    BY <1>1, <2>1 DEF ManagerTyped, ListsSound
  <2>3. QED BY <1>2, <1>4, <2>2
<1>8. QED BY <1>5, <1>6, <1>7

LEMMA ManagerStopStep ==
    ASSUME ManagerSizes, ManagerInv, SM!Stop
    PROVE  ManagerInv'
<1> USE DEF ManagerInv, ManagerSizes
<1>1. /\ UNCHANGED <<lists, valid, need_cleanup, pc, todo, packets, since, delivered>>
      /\ control' = <<SM!Nobody>> /\ owner' = [h \in Handles |-> "dropped"]
  BY DEF SM!Stop
<1>2. ManagerTyped'
  BY <1>1 DEF ManagerTyped
<1>3. \A h \in Handles : control' # <<h>>
  BY <1>1
<1>0. Elements(todo) \subseteq Handles
  BY ElementsIn DEF ManagerTyped
<1>4. ListsSound' /\ GivenSoFar' /\ SM!HandlesFit'
  BY <1>0, <1>1, <1>3 DEF ListsSound, GivenSoFar, SM!HandlesFit, SM!Count
<1>5. QED BY <1>2, <1>4

LEMMA TakeStopStep ==
    ASSUME ManagerSizes, ManagerInv, SM!TakeStop
    PROVE  ManagerInv'
<1> USE DEF ManagerInv, ManagerSizes
<1>1. /\ UNCHANGED <<owner, valid, need_cleanup, todo, packets, since, delivered>>
      /\ pc = "loop" /\ control = <<SM!Nobody>> /\ control' = <<>> /\ pc' = "stopped"
      /\ lists' = [k \in SM!Kinds |-> <<>>]
  BY DEF SM!TakeStop, SM!owners
<1>2. ManagerTyped'
  BY <1>1 DEF ManagerTyped
<1>3. \A h \in Handles : control' # <<h>> /\ control # <<h>>
  BY <1>1
<1>4. ListsSound'
  BY <1>1, <1>3, EmptyElements DEF ListsSound
<1>5. GivenSoFar'
  BY <1>1 DEF GivenSoFar, Through, SM!Matches
<1>6. SM!HandlesFit'
  BY <1>1 DEF SM!HandlesFit, SM!Count, SM!Kinds
<1>7. QED BY <1>2, <1>4, <1>5, <1>6

LEMMA ClosedStep ==
    ASSUME ManagerSizes, ManagerInv, NEW h \in Handles, NEW c, SM!RecvClosed(h, c)
    PROVE  ManagerInv'
<1> USE DEF ManagerInv, ManagerSizes
<1>1. /\ UNCHANGED <<control, owner, lists, pc, todo, packets, since, delivered>>
      /\ h \in Elements(lists[Kind[h]]) /\ ~SM!HasEnd(h)
      /\ valid' = [valid EXCEPT ![h] = FALSE]
      /\ need_cleanup' = [need_cleanup EXCEPT ![Kind[h]] = TRUE]
  BY DEF SM!RecvClosed, SM!owners, SM!Listed, Elements
<1>2. owner[h] = "dropped"
  BY <1>1 DEF ListsSound, ManagerTyped, SM!HasEnd
<1>3. ManagerTyped'
  BY <1>1 DEF ManagerTyped
<1>4. ListsSound'
  BY <1>1, <1>2 DEF ListsSound, ManagerTyped
<1>5. GivenSoFar' /\ SM!HandlesFit'
  BY <1>1 DEF GivenSoFar, Through, SM!Matches, SM!HandlesFit, SM!Count
<1>6. QED BY <1>3, <1>4, <1>5

LEMMA AddStep ==
    ASSUME ManagerSizes, ManagerInv, SM!AddHandle
    PROVE  ManagerInv'
<1> USE DEF ManagerInv, ManagerSizes
<1>1. /\ UNCHANGED <<pc, todo, packets, delivered>> /\ pc = "loop"
      /\ control # <<>> /\ control[1] # SM!Nobody /\ control' = <<>>
  BY DEF SM!AddHandle
<1>2. PICK h \in Handles : control = <<h>>
  <2> DEFINE T == Handles \cup {SM!Nobody}
  <2>1. control \in Seq(T) /\ Len(control) <= 1
    BY DEF ManagerTyped
  <2>2. control[1] \in T /\ control = <<control[1]>>
    <3> HIDE DEF T, ManagerInv, ManagerSizes
    <3> QED BY <1>1, <2>1, SingleSeq
  <2>3. control[1] \in Handles
    BY <1>1, <2>2
  <2> HIDE DEF T, ManagerInv, ManagerSizes
  <2>4. QED BY <2>2, <2>3
<1> DEFINE k == Kind[h]
           ls == [lists EXCEPT ![k] = Append(@, h)]
<1>k. control[1] = h /\ k \in SM!Kinds
  BY <1>2
<1>3. owner[h] \in {"asked", "dropped"} /\ h \notin Elements(lists[k])
      /\ \A g \in Handles : g # h => owner[g] # "asked" /\ control # <<g>>
  BY <1>2, <1>k DEF ListsSound, ManagerTyped
<1>4. \A g \in Handles : control' # <<g>>
  BY <1>1
<1>5. /\ lists \in [SM!Kinds -> Seq(Handles)] /\ valid \in [Handles -> BOOLEAN]
      /\ \A j \in SM!Kinds : Once(lists[j])
  BY DEF ManagerTyped, ListsSound
<1>6. "req" \in SM!Kinds /\ "stream" \in SM!Kinds /\ \A j \in SM!Kinds : j \in {"req", "stream"}
  BY DEF SM!Kinds
<1>7. CASE SM!Count < HANDLES_MAX
  <2>1. /\ SM!EndTurn(ls, valid, need_cleanup)
        /\ owner' = [owner EXCEPT ![h] = IF @ = "asked" THEN "open" ELSE @]
        /\ since' = [since EXCEPT ![h] = Len(packets)]
    BY <1>7, <1>k DEF SM!AddHandle
  <2> DEFINE a == Append(lists[k], h)
  <2>2. /\ a \in Seq(Handles) /\ Len(a) = Len(lists[k]) + 1
        /\ Elements(a) = Elements(lists[k]) \cup {h} /\ Once(a)
    BY <1>2, <1>k, <1>3, <1>5, AppendElements
  <2>3. ls = [j \in SM!Kinds |-> IF j = k THEN a ELSE lists[j]]
    BY <1>2, <1>k, <1>5
  <2> HIDE DEF a, ls
  <2>4. /\ ls \in [SM!Kinds -> Seq(Handles)]
        /\ \A j \in SM!Kinds : Once(ls[j])
        /\ \A j \in SM!Kinds : j # k => ls[j] = lists[j]
        /\ ls[k] = a
    BY <1>2, <1>k, <1>5, <2>2, <2>3
  <2>5. /\ lists' \in [SM!Kinds -> Seq(Handles)] /\ valid' = valid
        /\ need_cleanup' \in [SM!Kinds -> BOOLEAN]
        /\ \A j \in SM!Kinds :
              /\ Once(lists'[j]) /\ Len(lists'[j]) <= Len(ls[j])
              /\ Elements(lists'[j]) \subseteq Elements(ls[j])
              /\ \A g \in Elements(ls[j]) : valid[g] => g \in Elements(lists'[j])
    BY <1>5, <2>1, <2>4, TurnKeeps
  <2>6. ManagerTyped'
    <3>1. /\ owner' \in [Handles -> {"none", "asked", "open", "dropped"}]
          /\ since' \in [Handles -> Nat]
      BY <1>2, <1>k, <1>3, <2>1 DEF ManagerTyped
    <3>2. control' \in Seq(Handles \cup {SM!Nobody}) /\ Len(control') <= 1
      BY <1>1
    <3>3. QED BY <1>1, <2>5, <3>1, <3>2 DEF ManagerTyped
  <2>7. owner'[h] \in {"open", "dropped"} /\ \A g \in Handles : g # h => owner'[g] = owner[g]
    BY <1>2, <1>k, <1>3, <2>1 DEF ManagerTyped
  <2>8. ListsSound'
    <3> HIDE DEF k
    <3>1. \A j \in SM!Kinds : \A g \in Elements(lists'[j]) : Kind[g] = j
      <4>1. \A j \in SM!Kinds : \A g \in Elements(lists[j]) : Kind[g] = j
        BY DEF ListsSound
      <4>2. Kind[h] = k
        BY DEF k
      <4>3. SUFFICES ASSUME NEW j \in SM!Kinds, NEW g \in Elements(ls[j]) PROVE Kind[g] = j
        BY <2>5
      <4> HIDE DEF ManagerInv
      <4>4. QED BY <2>2, <2>4, <4>1, <4>2, <4>3
    <3>2. Once(todo') /\ \A g \in Elements(todo') : owner'[g] \in {"open", "dropped"}
      <4>1. \A g \in Elements(todo) : g \in Handles /\ owner[g] \in {"open", "dropped"}
        BY ElementsIn DEF ManagerTyped, ListsSound
      <4>2. Once(todo)
        BY DEF ListsSound
      <4>3. QED BY <1>1, <2>7, <4>1, <4>2
    <3>3. ASSUME NEW g \in Handles, g = h
          PROVE  /\ owner'[g] # "dropped" => valid'[g]
                 /\ owner'[g] \notin {"none", "asked"} /\ control' # <<g>>
                 /\ owner'[g] = "open" => g \in Elements(lists'[Kind[g]])
      <4>1. owner'[g] # "dropped" => valid[g]
        <5>1. owner'[g] # "dropped" => owner[g] # "dropped"
          BY <1>2, <1>k, <1>3, <2>1, <3>3 DEF ManagerTyped
        <5>2. QED BY <5>1 DEF ListsSound
      <4>2. QED BY <1>2, <1>k, <1>4, <2>2, <2>4, <2>5, <2>7, <3>3, <4>1 DEF k
    <3>4. ASSUME NEW g \in Handles, g # h
          PROVE  /\ owner'[g] # "dropped" => valid'[g]
                 /\ owner'[g] \in {"none", "asked"} => delivered'[g] = <<>>
                 /\ owner'[g] # "asked" /\ control' # <<g>>
                 /\ owner'[g] = "none" => g \notin Elements(lists'[Kind[g]])
                 /\ owner'[g] = "open" => g \in Elements(lists'[Kind[g]])
      <4>1. Kind[g] \in SM!Kinds /\ owner'[g] = owner[g]
        BY <2>7, <3>4
      <4>2. \A j \in SM!Kinds : g \in Elements(ls[j]) <=> g \in Elements(lists[j])
        BY <2>2, <2>4, <3>4
      <4>3. owner[g] = "open" => g \in Elements(lists[Kind[g]]) /\ valid[g]
        BY <1>1 DEF ListsSound
      <4>4. owner[g] = "none" => g \notin Elements(lists[Kind[g]])
        BY DEF ListsSound
      <4>5. owner'[g] = "open" => g \in Elements(lists'[Kind[g]])
        BY <2>5, <4>1, <4>2, <4>3
      <4>6. owner'[g] = "none" => g \notin Elements(lists'[Kind[g]])
        BY <2>5, <4>1, <4>2, <4>4
      <4>7. /\ owner'[g] # "dropped" => valid'[g]
            /\ owner'[g] \in {"none", "asked"} => delivered'[g] = <<>>
        BY <1>1, <2>5, <4>1 DEF ListsSound
      <4>8. QED BY <1>3, <1>4, <3>4, <4>1, <4>5, <4>6, <4>7
    <3>5. QED BY <2>5, <3>1, <3>2, <3>3, <3>4 DEF ListsSound
  <2>9. GivenSoFar'
    <3>1. ASSUME NEW g \in Handles, owner'[g] = "open"
          PROVE  /\ \A i \in 1..(Len(delivered'[g]) - 1) : delivered'[g][i] < delivered'[g][i + 1]
                 /\ Elements(delivered'[g]) =
                       {n \in (since'[g] + 1)..Len(packets) : SM!Matches(g, packets[n])}
                 /\ since'[g] <= Len(packets)
      <4>1. CASE g = h
        <5>1. since'[g] = Len(packets) /\ delivered'[g] = <<>> /\ Len(packets) \in Nat
          BY <1>1, <1>2, <1>k, <1>3, <2>1, <3>1, <4>1 DEF ManagerTyped, ListsSound
        <5>2. (since'[g] + 1)..Len(packets) = {}
          BY <5>1
        <5>3. QED BY <5>1, <5>2, EmptyElements
      <4>2. CASE g # h
        <5>1. owner[g] = "open" /\ since'[g] = since[g] /\ delivered'[g] = delivered[g]
          BY <1>1, <1>2, <1>k, <2>1, <2>7, <3>1, <4>2 DEF ManagerTyped
        <5>2. Through(g) = Len(packets)
          BY <1>1 DEF Through
        <5>3. QED BY <5>1, <5>2 DEF GivenSoFar
      <4>3. QED BY <4>1, <4>2
    <3>2. \A g \in Handles : Through(g)' = Len(packets)
      BY <1>1 DEF Through
    <3> HIDE DEF ManagerInv
    <3>3. QED BY <1>1, <3>1, <3>2 DEF GivenSoFar, SM!Matches
  <2>10. SM!HandlesFit'
    <3>1. /\ Size(k)' \in Nat /\ Size(k) \in Nat /\ Size(k)' <= Size(k) + 1
          /\ \A j \in SM!Kinds : j # k => Size(j)' \in Nat /\ Size(j) \in Nat /\ Size(j)' <= Size(j)
      <4> HIDE DEF ManagerInv, ManagerSizes, k
      <4>1. \A j \in SM!Kinds : Len(lists'[j]) \in Nat /\ Len(lists[j]) \in Nat /\ Len(ls[j]) \in Nat
        BY <1>5, <2>4, <2>5
      <4>2. Len(lists'[k]) <= Len(lists[k]) + 1
        BY <1>2, <1>k, <2>2, <2>4, <2>5, <4>1
      <4>3. \A j \in SM!Kinds : j # k => Len(lists'[j]) <= Len(lists[j])
        BY <2>4, <2>5
      <4>4. QED BY <1>2, <1>k, <4>1, <4>2, <4>3 DEF Size
    <3>2. SM!Count' <= SM!Count + 1 /\ SM!Count \in Nat /\ SM!Count' \in Nat
      <4>1. CASE k = "req"
        <5>0. "stream" # k
          BY <4>1
        <5>1. Size("stream")' \in Nat /\ Size("stream") \in Nat /\ Size("stream")' <= Size("stream")
          BY <1>6, <3>1, <5>0, Zenon
        <5>2. Size("req")' \in Nat /\ Size("req") \in Nat /\ Size("req")' <= Size("req") + 1
          BY <3>1, <4>1, Zenon
        <5>3. QED BY <5>1, <5>2, CountIs
      <4>2. CASE k = "stream"
        <5>0. "req" # k
          BY <4>2
        <5>1. Size("req")' \in Nat /\ Size("req") \in Nat /\ Size("req")' <= Size("req")
          BY <1>6, <3>1, <5>0, Zenon
        <5>2. Size("stream")' \in Nat /\ Size("stream") \in Nat /\ Size("stream")' <= Size("stream") + 1
          BY <3>1, <4>2, Zenon
        <5>3. QED BY <5>1, <5>2, CountIs
      <4>3. QED BY <1>2, <1>k, <1>6, <4>1, <4>2
    <3>3. SM!Count < HANDLES_MAX /\ HANDLES_MAX \in Nat
      BY <1>7
    <3>4. SM!Count' <= HANDLES_MAX
      BY <3>2, <3>3
    <3>5. QED BY <3>4 DEF SM!HandlesFit
  <2>11. QED BY <2>6, <2>8, <2>9, <2>10
<1>8. CASE ~(SM!Count < HANDLES_MAX)
  <2>1. /\ SM!EndTurn(lists, valid, need_cleanup)
        /\ owner' = [owner EXCEPT ![h] = "dropped"] /\ since' = since
    BY <1>8, <1>k DEF SM!AddHandle
  <2>2. /\ lists' \in [SM!Kinds -> Seq(Handles)] /\ valid' = valid
        /\ need_cleanup' \in [SM!Kinds -> BOOLEAN]
        /\ \A j \in SM!Kinds :
              /\ Once(lists'[j]) /\ Len(lists'[j]) <= Len(lists[j])
              /\ Elements(lists'[j]) \subseteq Elements(lists[j])
              /\ \A g \in Elements(lists[j]) : valid[g] => g \in Elements(lists'[j])
    BY <1>5, <2>1, TurnKeeps
  <2>3. /\ owner' \in [Handles -> {"none", "asked", "open", "dropped"}]
        /\ owner'[h] = "dropped" /\ \A g \in Handles : g # h => owner'[g] = owner[g]
    BY <1>2, <1>k, <2>1 DEF ManagerTyped
  <2> HIDE DEF k, ls
  <2>4. ManagerTyped'
    <3>1. control' \in Seq(Handles \cup {SM!Nobody}) /\ Len(control') <= 1
      BY <1>1
    <3>2. QED BY <1>1, <2>1, <2>2, <2>3, <3>1 DEF ManagerTyped
  <2>5. ListsSound'
    <3>1. Elements(todo) \subseteq Handles
      BY ElementsIn DEF ManagerTyped
    <3>2. QED BY <1>1, <1>3, <1>4, <2>2, <2>3, <3>1 DEF ListsSound
  <2>6. GivenSoFar'
    <3>1. \A g \in Handles : Through(g)' = Through(g)
      BY <1>1 DEF Through
    <3>2. GivenSoFar
      BY DEF ManagerInv
    <3>3. UNCHANGED <<packets, since, delivered>> /\ \A g \in Handles : owner'[g] = "open" => owner[g] = "open"
      BY <1>1, <2>1, <2>3
    <3> HIDE DEF ManagerInv
    <3>4. QED BY <3>1, <3>2, <3>3 DEF GivenSoFar, SM!Matches
  <2>7. SM!HandlesFit'
    BY <1>5, <2>2, FitStays
  <2>8. QED BY <2>4, <2>5, <2>6, <2>7
<1>9. QED BY <1>7, <1>8

LEMMA PacketStep ==
    ASSUME ManagerSizes, ManagerInv, NEW p \in Arrivals, SM!RecvPacket(p)
    PROVE  ManagerInv'
<1> USE DEF ManagerInv, ManagerSizes
<1>1. /\ UNCHANGED <<control, owner, lists, valid, need_cleanup, since, delivered>>
      /\ pc = "loop" /\ pc' = "send" /\ packets' = Append(packets, p) /\ todo' = lists[p.kind]
  BY DEF SM!RecvPacket, SM!owners
<1>2. p.kind \in SM!Kinds
  OBVIOUS
<1>3. packets \in Seq(Arrivals) /\ Len(packets) \in Nat
  BY DEF ManagerTyped
<1>4. /\ packets' \in Seq(Arrivals) /\ Len(packets') = Len(packets) + 1 /\ packets' # <<>>
      /\ \A i \in 1..Len(packets) : packets'[i] = packets[i]
      /\ packets'[Len(packets) + 1] = p
  BY <1>1, <1>3
<1>5. ManagerTyped'
  BY <1>1, <1>2, <1>4 DEF ManagerTyped
<1>6. ListsSound'
  <2>1. Elements(lists[p.kind]) \subseteq Handles
    BY <1>2, ElementsIn DEF ManagerTyped
  <2>2. \A h \in Elements(lists[p.kind]) : Kind[h] = p.kind
    BY <1>2 DEF ListsSound
  <2>3. \A h \in Elements(lists[p.kind]) : owner[h] \in {"open", "dropped"}
    BY <2>1, <2>2 DEF ListsSound, ManagerTyped
  <2>4. QED BY <1>1, <1>2, <2>3 DEF ListsSound
<1>7. GivenSoFar'
  <2>1. ASSUME NEW h \in Handles, owner[h] = "open"
        PROVE  /\ \A i \in 1..(Len(delivered[h]) - 1) : delivered[h][i] < delivered[h][i + 1]
               /\ Elements(delivered[h]) = {n \in (since[h] + 1)..Through(h)' : SM!Matches(h, packets'[n])}
               /\ since[h] <= Through(h)'
    <3>1. /\ \A i \in 1..(Len(delivered[h]) - 1) : delivered[h][i] < delivered[h][i + 1]
          /\ Elements(delivered[h]) = {n \in (since[h] + 1)..Len(packets) : SM!Matches(h, packets[n])}
          /\ since[h] <= Len(packets) /\ since[h] \in Nat
      BY <1>1, <2>1 DEF GivenSoFar, Through, ManagerTyped
    <3>2. \A n \in (since[h] + 1)..Len(packets) : packets'[n] = packets[n]
      BY <1>3, <1>4, <3>1
    <3>3. CASE h \in Elements(lists[p.kind])
      <4>1. Through(h)' = Len(packets)
        BY <1>1, <1>3, <1>4, <3>3 DEF Through
      <4>2. QED BY <3>1, <3>2, <4>1
    <3>4. CASE h \notin Elements(lists[p.kind])
      <4>1. Kind[h] # p.kind
        BY <1>1, <2>1, <3>4 DEF ListsSound
      <4>2. ~SM!Matches(h, packets'[Len(packets) + 1])
        BY <1>4, <4>1 DEF SM!Matches
      <4>3. Through(h)' = Len(packets) + 1
        BY <1>1, <1>4, <3>4 DEF Through
      <4>4. (since[h] + 1)..(Len(packets) + 1) = ((since[h] + 1)..Len(packets)) \cup {Len(packets) + 1}
        BY <1>3, <3>1
      <4> HIDE DEF ManagerInv, ManagerSizes
      <4>5. {n \in (since[h] + 1)..Through(h)' : SM!Matches(h, packets'[n])}
               = {n \in (since[h] + 1)..Len(packets) : SM!Matches(h, packets[n])}
        BY <3>2, <4>2, <4>3, <4>4
      <4>6. QED BY <1>3, <3>1, <4>3, <4>5
    <3>5. QED BY <3>3, <3>4
  <2> HIDE DEF ManagerInv, ManagerSizes
  <2>2. QED BY <1>1, <2>1 DEF GivenSoFar, SM!Matches
<1>8. SM!HandlesFit'
  BY <1>1 DEF SM!HandlesFit, SM!Count
<1>9. QED BY <1>5, <1>6, <1>7, <1>8

\* What the send does for one handle: it is given the packet exactly if it is
\* open and the packet is for it.
LEMMA SendToDoes ==
    ASSUME ManagerSizes, ManagerInv, SM!SendTo, NEW h, h = Head(todo), NEW n, n = Len(packets)
    PROVE  /\ UNCHANGED <<control, owner, lists, pc, packets, since>> /\ pc = "send"
           /\ todo # <<>> /\ todo' = Tail(todo) /\ h \in Handles
           /\ valid' \in [Handles -> BOOLEAN] /\ need_cleanup' \in [SM!Kinds -> BOOLEAN]
           /\ \A g \in Handles : owner[g] # "dropped" => valid'[g]
           /\ \/ delivered' = delivered /\ ~(owner[h] = "open" /\ SM!Matches(h, packets[n]))
              \/ /\ delivered' = [delivered EXCEPT ![h] = Append(@, n)]
                 /\ SM!HasEnd(h) /\ SM!Matches(h, packets[n])
<1> USE DEF ManagerInv, ManagerSizes
<1>1. /\ UNCHANGED <<control, owner, lists, pc, packets, since>> /\ pc = "send"
      /\ todo # <<>> /\ todo' = Tail(todo)
  BY DEF SM!SendTo, SM!owners
<1>2. h \in Handles /\ owner[h] \in {"open", "dropped"} /\ Kind[h] \in SM!Kinds
  BY <1>1, TailElements DEF ManagerTyped, ListsSound
<1>3. \A g \in Handles : owner[g] # "dropped" => valid[g]
  BY DEF ListsSound
<1>4. /\ valid \in [Handles -> BOOLEAN] /\ need_cleanup \in [SM!Kinds -> BOOLEAN]
      /\ owner \in [Handles -> {"none", "asked", "open", "dropped"}]
  BY DEF ManagerTyped
<1>5. \/ /\ ~(valid[h] /\ SM!Matches(h, packets[n]))
         /\ UNCHANGED <<valid, need_cleanup, delivered>>
      \/ /\ SM!Matches(h, packets[n]) /\ SM!HasEnd(h)
         /\ delivered' = [delivered EXCEPT ![h] = Append(@, n)]
         /\ UNCHANGED <<valid, need_cleanup>>
      \/ /\ ~SM!HasEnd(h)
         /\ valid' = [valid EXCEPT ![h] = FALSE]
         /\ need_cleanup' = [need_cleanup EXCEPT ![Kind[h]] = TRUE] /\ UNCHANGED delivered
  BY DEF SM!SendTo
<1> HIDE DEF ManagerInv, ManagerSizes
<1>6. QED BY <1>1, <1>2, <1>3, <1>4, <1>5 DEF SM!HasEnd

LEMMA SendToStep ==
    ASSUME ManagerSizes, ManagerInv, SM!SendTo
    PROVE  ManagerInv'
<1> USE DEF ManagerInv, ManagerSizes
<1>0. PICK h, n : h = Head(todo) /\ n = Len(packets)
  OBVIOUS
<1>1. /\ UNCHANGED <<control, owner, lists, pc, packets, since>> /\ pc = "send"
      /\ todo # <<>> /\ todo' = Tail(todo) /\ h \in Handles
      /\ valid' \in [Handles -> BOOLEAN] /\ need_cleanup' \in [SM!Kinds -> BOOLEAN]
      /\ \A g \in Handles : owner[g] # "dropped" => valid'[g]
  BY <1>0, SendToDoes
<1>2. \/ delivered' = delivered /\ ~(owner[h] = "open" /\ SM!Matches(h, packets[n]))
      \/ /\ delivered' = [delivered EXCEPT ![h] = Append(@, n)]
         /\ SM!HasEnd(h) /\ SM!Matches(h, packets[n])
  BY <1>0, SendToDoes
<1>3. /\ packets \in Seq(Arrivals) /\ n \in Nat \ {0} /\ delivered \in [Handles -> Seq(Nat)]
      /\ todo \in Seq(Handles) /\ Once(todo)
  BY <1>0, <1>1 DEF ManagerTyped, ListsSound
<1>4. /\ todo' \in Seq(Handles) /\ Once(todo') /\ h \notin Elements(todo')
      /\ Elements(todo) = Elements(todo') \cup {h}
  BY <1>0, <1>1, <1>3, TailElements
<1>5. delivered' \in [Handles -> Seq(Nat)] /\ \A g \in Handles : g # h => delivered'[g] = delivered[g]
  <2>1. Append(delivered[h], n) \in Seq(Nat)
    BY <1>1, <1>3
  <2>2. QED BY <1>1, <1>2, <1>3, <2>1
<1>6. ManagerTyped'
  BY <1>1, <1>4, <1>5 DEF ManagerTyped
<1>7. ListsSound'
  <2>1. \A g \in Handles : owner[g] \in {"none", "asked"} => delivered'[g] = <<>>
    <3>1. owner[h] \in {"open", "dropped"}
      BY <1>4 DEF ListsSound
    <3>2. QED BY <1>1, <1>2, <1>5, <3>1 DEF ListsSound, SM!HasEnd, ManagerTyped
  <2>2. QED BY <1>1, <1>4, <2>1 DEF ListsSound
<1>8. GivenSoFar'
  <2>1. ASSUME NEW g \in Handles, owner[g] = "open"
        PROVE  /\ \A i \in 1..(Len(delivered'[g]) - 1) : delivered'[g][i] < delivered'[g][i + 1]
               /\ Elements(delivered'[g]) = {m \in (since[g] + 1)..Through(g)' : SM!Matches(g, packets[m])}
               /\ since[g] <= Through(g)'
    <3>1. /\ \A i \in 1..(Len(delivered[g]) - 1) : delivered[g][i] < delivered[g][i + 1]
          /\ Elements(delivered[g]) = {m \in (since[g] + 1)..Through(g) : SM!Matches(g, packets[m])}
          /\ since[g] <= Through(g) /\ since[g] \in Nat
      BY <2>1 DEF GivenSoFar, ManagerTyped
    <3>2. CASE g # h
      <4>1. Through(g)' = Through(g) /\ delivered'[g] = delivered[g]
        BY <1>1, <1>4, <1>5, <3>2 DEF Through
      <4>2. QED BY <3>1, <4>1
    <3>3. CASE g = h
      <4>1. Through(g) = n - 1 /\ Through(g)' = n
        BY <1>0, <1>1, <1>4, <3>3 DEF Through
      <4> DEFINE d == delivered[g]
                 M == {m \in (since[g] + 1)..(n - 1) : SM!Matches(g, packets[m])}
                 M1 == {m \in (since[g] + 1)..n : SM!Matches(g, packets[m])}
      <4>2. d \in Seq(Nat) /\ Elements(d) = M /\ since[g] <= n - 1
        BY <1>3, <3>1, <4>1
      <4>3. (since[g] + 1)..n = ((since[g] + 1)..(n - 1)) \cup {n}
        BY <1>3, <3>1, <4>2
      <4>4. M1 = IF SM!Matches(g, packets[n]) THEN M \cup {n} ELSE M
        <5> HIDE DEF ManagerInv, ManagerSizes
        <5> QED BY <4>3
      <4>5. CASE ~SM!Matches(g, packets[n])
        <5>1. delivered' = delivered
          BY <1>2, <3>3, <4>5
        <5>2. QED BY <1>3, <3>1, <4>1, <4>2, <4>4, <4>5, <5>1
      <4>6. CASE SM!Matches(g, packets[n])
        <5> DEFINE a == Append(d, n)
        <5>1. delivered'[g] = a
          BY <1>1, <1>2, <1>3, <2>1, <3>3, <4>6
        <5>2. /\ Len(a) = Len(d) + 1 /\ Elements(a) = Elements(d) \cup {n} /\ Len(d) \in Nat
              /\ \A i \in 1..Len(d) : a[i] = d[i]
              /\ a[Len(d) + 1] = n
          <6> HIDE DEF d
          <6>1. d \in Seq(Nat) /\ n \in Nat /\ Len(d) \in Nat
            BY <1>3, <4>2
          <6> HIDE DEF ManagerInv, ManagerSizes, M, M1
          <6>2. QED BY <6>1, AppendElements
        <5>3. \A i \in 1..Len(d) : d[i] \in Nat /\ d[i] < n
          <6>1. \A i \in 1..Len(d) : d[i] \in Elements(d)
            BY <4>2 DEF Elements
          <6>2. \A m \in M : m \in Nat /\ m < n
            BY <1>3, <3>1
          <6> HIDE DEF d, M
          <6>3. QED BY <4>2, <6>1, <6>2
        <5> HIDE DEF a, M, M1, ManagerInv, ManagerSizes
        <5>4. ASSUME NEW i \in 1..(Len(a) - 1) PROVE a[i] < a[i + 1]
          <6>1. CASE i = Len(d)
            BY <5>2, <5>3, <6>1
          <6>2. CASE i # Len(d)
            <7>1. i \in 1..(Len(d) - 1) /\ i \in 1..Len(d) /\ i + 1 \in 1..Len(d)
              BY <5>2, <6>2
            <7>2. QED BY <3>1, <5>2, <7>1
          <6>3. QED BY <6>1, <6>2
        <5>5. Elements(a) = M1
          <6>1. M1 = M \cup {n}
            BY <4>4, <4>6
          <6> HIDE DEF d
          <6>2. QED BY <4>2, <5>2, <6>1
        <5>6. since[g] <= n
          BY <1>3, <3>1, <4>2
        <5>7. QED BY <4>1, <5>1, <5>4, <5>5, <5>6 DEF M1
      <4>7. QED BY <4>5, <4>6
    <3>4. QED BY <3>2, <3>3
  <2> HIDE DEF ManagerInv, ManagerSizes
  <2>2. QED BY <1>1, <2>1 DEF GivenSoFar, SM!Matches
<1>9. SM!HandlesFit'
  BY <1>1 DEF SM!HandlesFit, SM!Count
<1>10. QED BY <1>6, <1>7, <1>8, <1>9

LEMMA ManagerInit ==
    ASSUME ManagerSizes, SM!Init
    PROVE  ManagerInv
<1>1. \A k \in SM!Kinds : lists[k] = <<>>
  BY DEF SM!Init
<1>2. ManagerTyped
  BY DEF SM!Init, ManagerTyped
<1>3. ListsSound
  BY <1>1, EmptyElements DEF SM!Init, ListsSound, ManagerSizes
<1>4. GivenSoFar
  BY DEF SM!Init, GivenSoFar
<1>5. SM!HandlesFit
  <2>1. Size("req") = 0 /\ Size("stream") = 0
    BY DEF Size, SM!Init, SM!Kinds
  <2>2. QED BY <2>1, CountIs DEF SM!HandlesFit, ManagerSizes
<1>6. QED BY <1>2, <1>3, <1>4, <1>5 DEF ManagerInv

\* Whatever the workers do, and whichever handles come, go or are full, the
\* lists of the manager hold each handle once and each open handle has been
\* given what was for it so far.
THEOREM ManagerInvariance ==
    ASSUME ManagerSizes
    PROVE  SM!Spec => []ManagerInv
<1>1. ASSUME ManagerInv, UNCHANGED SM!vars PROVE ManagerInv'
  <2>1. UNCHANGED <<control, owner, lists, valid, need_cleanup, pc, todo, packets, since, delivered>>
    BY <1>1 DEF SM!vars, SM!owners
  <2>2. ManagerTyped' /\ ListsSound' /\ SM!HandlesFit'
    BY <1>1, <2>1 DEF ManagerInv, ManagerTyped, ListsSound, SM!HandlesFit, SM!Count
  <2>3. GivenSoFar'
    BY <1>1, <2>1 DEF ManagerInv, GivenSoFar, Through, SM!Matches
  <2>4. QED BY <2>2, <2>3 DEF ManagerInv
<1>2. ASSUME ManagerInv, SM!Workers PROVE ManagerInv'
  BY <1>2, WorkersStep DEF SM!Workers
<1>3. ASSUME ManagerInv, SM!Manager PROVE ManagerInv'
  <2>1. CASE SM!AddHandle \/ SM!TakeStop \/ SM!SendTo
    BY <1>3, <2>1, AddStep, TakeStopStep, SendToStep
  <2>2. CASE SM!SendEnd
    BY <1>3, <2>2, TurnStep DEF SM!SendEnd, Quiet, SM!owners
  <2>3. ASSUME NEW h \in Handles, NEW c \in SM!AllChannels, SM!RecvHandle(h, c) \/ SM!RecvClosed(h, c)
        PROVE  ManagerInv'
    <3>1. CASE SM!RecvHandle(h, c)
      BY <1>3, <3>1, TurnStep DEF SM!RecvHandle, Quiet, SM!owners
    <3>2. QED BY <1>3, <2>3, <3>1, ClosedStep
  <2>4. ASSUME NEW c \in SM!AllChannels, SM!SocketSent(c) PROVE ManagerInv'
    BY <1>3, <2>4, TurnStep DEF SM!SocketSent, Quiet, SM!owners
  <2>5. QED BY <1>3, <2>1, <2>2, <2>3, <2>4 DEF SM!Manager
<1>4. ManagerInv /\ SM!Next => ManagerInv'
  BY <1>2, <1>3, ManagerStopStep, PacketStep DEF SM!Next
<1>5. QED BY <1>1, <1>4, ManagerInit, PTL DEF SM!Spec

LEMMA ManagerServes ==
    ASSUME ManagerSizes
    PROVE  SM!Spec => [](SM!HandlesServed /\ SM!HandlesFit)
<1>1. ASSUME ManagerInv PROVE SM!HandlesServed
  <2>1. SUFFICES ASSUME pc = "loop", NEW h \in Handles, owner[h] = "open"
                 PROVE  /\ valid[h] /\ h \in SM!Listed(Kind[h])
                        /\ \A i \in 1..(Len(delivered[h]) - 1) : delivered[h][i] < delivered[h][i + 1]
                        /\ {delivered[h][i] : i \in DOMAIN delivered[h]} =
                              {n \in (since[h] + 1)..Len(packets) : SM!Matches(h, packets[n])}
    BY DEF SM!HandlesServed
  <2>2. Through(h) = Len(packets)
    BY <2>1 DEF Through
  <2>3. valid[h] /\ h \in SM!Listed(Kind[h])
    BY <1>1, <2>1 DEF ManagerInv, ListsSound, SM!Listed, Elements
  <2>4. QED BY <1>1, <2>1, <2>2, <2>3 DEF ManagerInv, GivenSoFar, Elements
<1>2. ManagerInv => SM!HandlesServed /\ SM!HandlesFit
  BY <1>1 DEF ManagerInv
<1>3. QED BY <1>2, ManagerInvariance, PTL

-----------------------------------------------------------------------------
(* IdentityCache                                                           *)

Stored == [v : Contents \cup {None}, t : Nat]

Points == {"idle", "lock", "check_cert", "check_key", "stat_cert", "stat_key", "load_cert",
           "load_key", "get", "served", "refused"}

CacheTyped ==
    /\ files \in [Names -> [cert : Stored, key : Stored]]
    /\ now \in Nat
    /\ data \in [Names -> Loaded \cup {None}]
    /\ worker \in [Readers -> [pc : Points, i : 1..Len(Candidates), t : Nat,
                               v : Contents \cup {None}, got : Contents \cup {None}, lookups : Nat]]
    /\ touched \in [Readers -> SUBSET Names]

\* Nothing was written later than now, and a file that was not written since
\* the times were taken is what was loaded.
LoadedIsOld ==
    /\ \A n \in Names, f \in {"cert", "key"} : files[n][f].t <= now
    /\ \A n \in Names : data[n] # None =>
          /\ data[n].t <= now
          /\ files[n].cert.t <= data[n].t /\ files[n].cert.v # None => files[n].cert.v = data[n].v
          /\ files[n].key.t <= data[n].t /\ files[n].key.v # None => files[n].key.v = data[n].v

\* The same of what a worker has read so far.
ReadIsOld(w) ==
    LET n == IC!Name(w)
    IN  /\ worker[w].pc \in {"stat_key", "load_cert", "load_key"} => worker[w].t <= now
        /\ worker[w].pc \in {"check_cert", "check_key"} => data[n] # None
        /\ worker[w].pc = "load_key" =>
              /\ worker[w].v # None
              /\ files[n].cert.t <= worker[w].t /\ files[n].cert.v # None =>
                    files[n].cert.v = worker[w].v
              /\ n \notin touched[w] => files[n].cert.v = worker[w].v

\* What a handshake will find, or has found, for the name it has come to, and
\* why it passed over the names before.
Finds(w) ==
    LET n == IC!Name(w)
    IN  /\ worker[w].pc = "get" /\ IC!Settled(w, n) =>
              data[n] # None /\ data[n].v = files[n].cert.v
        /\ worker[w].pc = "served" /\ IC!Settled(w, n) => worker[w].got = files[n].cert.v
        /\ worker[w].pc # "idle" =>
              \A j \in 1..(worker[w].i - 1) : ~IC!Settled(w, Candidates[j])
        /\ worker[w].pc = "refused" =>
              \A j \in 1..Len(Candidates) : ~IC!Settled(w, Candidates[j])

CacheInv == CacheTyped /\ LoadedIsOld /\ \A w \in Readers : ReadIsOld(w) /\ Finds(w)

\* The record of a handshake.
Handshake == [pc : Points, i : 1..Len(Candidates), t : Nat,
              v : Contents \cup {None}, got : Contents \cup {None}, lookups : Nat]

\* What a step of a worker leaves of the other handshakes.
LEMMA OthersKeep ==
    ASSUME CacheSizes, CacheInv, NEW w \in Readers, UNCHANGED <<files, now>>,
           CacheTyped', LoadedIsOld', ReadIsOld(w)', Finds(w)',
           \A x \in Readers \ {w} : worker'[x] = worker[x] /\ touched'[x] = touched[x],
           \A n \in Names : data'[n] = data[n] \/ (data'[n] # None /\ data'[n].v = files[n].key.v)
    PROVE  CacheInv'
<1>1. SUFFICES ASSUME NEW x \in Readers, x # w PROVE ReadIsOld(x)' /\ Finds(x)'
  BY DEF CacheInv
<1>2. worker'[x] = worker[x] /\ touched'[x] = touched[x] /\ IC!Name(x)' = IC!Name(x)
  BY <1>1 DEF IC!Name
<1>3. ReadIsOld(x) /\ Finds(x) /\ IC!Name(x) \in Names
  BY DEF CacheInv, CacheTyped, CacheSizes, IC!Name
<1>4. \A n : IC!Settled(x, n)' <=> IC!Settled(x, n)
  BY <1>2 DEF IC!Settled
<1>5. ReadIsOld(x)'
  BY <1>2, <1>3 DEF ReadIsOld
<1>6. Finds(x)'
  BY <1>2, <1>3, <1>4 DEF Finds, IC!Settled
<1>7. QED BY <1>5, <1>6

LEMMA NamesAre ==
    ASSUME CacheSizes, CacheTyped, NEW w \in Readers
    PROVE  /\ IC!Name(w) \in Names /\ Len(Candidates) \in Nat
           /\ \A j \in 1..Len(Candidates) : Candidates[j] \in Names
           /\ worker[w] \in Handshake /\ worker \in [Readers -> Handshake]
  BY DEF CacheTyped, CacheSizes, IC!Name, Handshake

LEMMA CacheInit ==
    ASSUME CacheSizes, IC!Init
    PROVE  CacheInv
<1>1. PICK have \in SUBSET Names :
        files = [n \in Names |->
                  [cert |-> IF n \in have THEN [v |-> 1, t |-> 1] ELSE IC!Absent,
                   key |-> IF n \in have THEN [v |-> 1, t |-> 1] ELSE IC!Absent]]
  BY DEF IC!Init
<1>2. /\ now = 1 /\ data = [n \in Names |-> None]
      /\ worker = [w \in Readers |-> IC!Idle] /\ touched = [w \in Readers |-> {}]
  BY DEF IC!Init
<1>3. IC!Absent \in Stored /\ [v |-> 1, t |-> 1] \in Stored
  BY DEF IC!Absent, Stored, Contents
<1>4. files \in [Names -> [cert : Stored, key : Stored]]
  BY <1>1, <1>3
<1>5. IC!Idle \in Handshake
  BY DEF IC!Idle, Handshake, Points, CacheSizes
<1>6. CacheTyped
  BY <1>2, <1>4, <1>5 DEF CacheTyped, Handshake
<1>7. LoadedIsOld
  BY <1>1, <1>2 DEF LoadedIsOld, IC!Absent
<1>8. \A w \in Readers : ReadIsOld(w) /\ Finds(w)
  BY <1>2 DEF ReadIsOld, Finds, IC!Idle
<1>9. QED BY <1>6, <1>7, <1>8 DEF CacheInv

LEMMA CacheWrite ==
    ASSUME CacheSizes, CacheInv, NEW n \in Names, NEW f \in {"cert", "key"},
           NEW v \in Versions \cup {None}, IC!Write(n, f, v)
    PROVE  CacheInv'
<1> DEFINE file == IF v = None THEN IC!Absent ELSE [v |-> v, t |-> now + 1]
<1>1. /\ now \in Nat /\ now' = now + 1 /\ files' = [files EXCEPT ![n][f] = file]
      /\ touched' = [w \in Readers |-> touched[w] \cup {n}] /\ UNCHANGED <<data, worker>>
  BY DEF IC!Write, CacheInv, CacheTyped
<1>2. file \in Stored /\ file.t <= now + 1 /\ (file.v # None => file.t = now + 1)
  BY <1>1 DEF IC!Absent, Stored, Contents
<1> HIDE DEF file
<1>3. CacheTyped'
  <2>1. files[n] \in [cert : Stored, key : Stored]
    BY DEF CacheInv, CacheTyped
  <2>2. [files[n] EXCEPT ![f] = file] \in [cert : Stored, key : Stored]
    <3>1. CASE f = "cert" BY <1>2, <2>1, <3>1
    <3>2. CASE f = "key" BY <1>2, <2>1, <3>2
    <3>3. QED BY <3>1, <3>2
  <2>3. files' \in [Names -> [cert : Stored, key : Stored]]
    BY <1>1, <2>2 DEF CacheInv, CacheTyped
  <2>4. QED BY <1>1, <2>3 DEF CacheInv, CacheTyped
<1>4. \A m \in Names, g \in {"cert", "key"} :
        files'[m][g] = files[m][g] \/ (m = n /\ files'[m][g] = file)
  BY <1>1 DEF CacheInv, CacheTyped
<1>5. \A m \in Names, g \in {"cert", "key"} : files[m][g].t \in Nat /\ files[m][g].t <= now
  BY DEF CacheInv, CacheTyped, LoadedIsOld, Stored
<1>6. \A m \in Names : data[m] # None => data[m].t \in Nat /\ data[m].t <= now
  BY DEF CacheInv, CacheTyped, LoadedIsOld, Loaded
<1>7. LoadedIsOld'
  <2>1. \A m \in Names, g \in {"cert", "key"} : files'[m][g].t <= now'
    BY <1>1, <1>2, <1>4, <1>5
  <2>2. ASSUME NEW m \in Names, data[m] # None PROVE
          /\ data[m].t <= now'
          /\ files'[m].cert.t <= data[m].t /\ files'[m].cert.v # None => files'[m].cert.v = data[m].v
          /\ files'[m].key.t <= data[m].t /\ files'[m].key.v # None => files'[m].key.v = data[m].v
    BY <1>1, <1>2, <1>4, <1>6, <2>2 DEF CacheInv, LoadedIsOld
  <2>3. QED BY <1>1, <2>1, <2>2 DEF LoadedIsOld
<1>8. ASSUME NEW w \in Readers PROVE ReadIsOld(w)' /\ Finds(w)'
  <2>1. IC!Name(w)' = IC!Name(w) /\ IC!Name(w) \in Names /\ worker[w] \in Handshake
    BY <1>1, NamesAre DEF IC!Name, CacheInv
  <2>2. \A m \in Names : m \notin touched'[w] =>
            m \notin touched[w] /\ files'[m].cert = files[m].cert /\ files'[m].key = files[m].key
    BY <1>1, <1>4 DEF CacheInv, CacheTyped
  <2>3. \A m \in Names : IC!Settled(w, m)' =>
            IC!Settled(w, m) /\ files'[m].cert = files[m].cert
    BY <2>2 DEF IC!Settled
  <2>4. ReadIsOld(w) /\ Finds(w)
    BY DEF CacheInv
  <2>5. ReadIsOld(w)'
    <3>1. worker[w].t <= now => worker[w].t <= now' /\ worker[w].t < now + 1
      BY <1>1, <2>1 DEF Handshake
    <3>2. LET m == IC!Name(w) IN files'[m].cert = files[m].cert \/ files'[m].cert = file
      BY <1>4, <2>1
    <3>3. worker[w].t \in Nat
      BY <2>1 DEF Handshake
    <3>4. ASSUME worker[w].pc = "load_key" PROVE
              LET m == IC!Name(w) IN
              /\ worker[w].v # None
              /\ files'[m].cert.t <= worker[w].t /\ files'[m].cert.v # None =>
                    files'[m].cert.v = worker[w].v
              /\ m \notin touched'[w] => files'[m].cert.v = worker[w].v
      BY <1>1, <1>2, <2>1, <2>2, <2>4, <3>1, <3>2, <3>3, <3>4 DEF ReadIsOld
    <3>5. QED BY <1>1, <2>1, <2>4, <3>1, <3>4 DEF ReadIsOld
  <2>6. Finds(w)'
    <3>1. worker[w].i \in 1..Len(Candidates) /\ Len(Candidates) \in Nat
      BY <2>1, NamesAre DEF Handshake, CacheInv
    <3>2. \A j \in 1..Len(Candidates) : ~IC!Settled(w, Candidates[j]) => ~IC!Settled(w, Candidates[j])'
      BY <2>3, NamesAre DEF CacheInv
    <3>3. QED BY <1>1, <2>1, <2>3, <2>4, <3>1, <3>2 DEF Finds
  <2>7. QED BY <2>5, <2>6
<1>9. QED BY <1>3, <1>7, <1>8 DEF CacheInv

\* A step of a worker that neither writes a file nor changes what is loaded.
LEMMA HandshakeStep ==
    ASSUME CacheSizes, CacheInv, NEW w \in Readers, NEW r \in Handshake,
           worker' = [worker EXCEPT ![w] = r], UNCHANGED <<files, now, data>>,
           touched' \in [Readers -> SUBSET Names],
           \A x \in Readers \ {w} : touched'[x] = touched[x],
           ReadIsOld(w)', Finds(w)'
    PROVE  CacheInv'
<1>1. CacheTyped' /\ worker'[w] = r
  BY DEF CacheInv, CacheTyped, Handshake
<1>2. LoadedIsOld'
  BY DEF CacheInv, LoadedIsOld
<1>3. \A x \in Readers \ {w} : worker'[x] = worker[x]
  BY DEF CacheInv, CacheTyped
<1>4. QED BY <1>1, <1>2, <1>3, OthersKeep

\* One that only goes on to another point.
LEMMA GoStep ==
    ASSUME CacheSizes, CacheInv, NEW w \in Readers, NEW p \in Points, IC!Go(w, p),
           UNCHANGED <<files, now, data, touched>>, ReadIsOld(w)', Finds(w)'
    PROVE  CacheInv'
<1>1. worker' = [worker EXCEPT ![w] = [worker[w] EXCEPT !.pc = p]]
  BY DEF IC!Go
<1>2. [worker[w] EXCEPT !.pc = p] \in Handshake
  BY NamesAre DEF Handshake, CacheInv
<1>3. touched' \in [Readers -> SUBSET Names]
  BY DEF CacheInv, CacheTyped
<1>4. QED BY <1>1, <1>2, <1>3, HandshakeStep

\* What every step of a worker needs of the point it starts from.
LEMMA AtName ==
    ASSUME CacheSizes, CacheInv, NEW w \in Readers
    PROVE  LET n == IC!Name(w) IN
           /\ n \in Names /\ worker[w] \in Handshake /\ worker[w].t \in Nat
           /\ Candidates[worker[w].i] = n
           /\ ReadIsOld(w) /\ Finds(w) /\ now \in Nat
           /\ files[n].cert \in Stored /\ files[n].key \in Stored
           /\ files[n].cert.t <= now /\ files[n].key.t <= now
           /\ files[n].cert.t \in Nat /\ files[n].key.t \in Nat
           /\ data[n] # None =>
                 /\ data[n] \in Loaded
                 /\ files[n].cert.t <= data[n].t /\ files[n].cert.v # None =>
                       files[n].cert.v = data[n].v
                 /\ files[n].key.t <= data[n].t /\ files[n].key.v # None =>
                       files[n].key.v = data[n].v
<1>1. IC!Name(w) \in Names /\ worker[w] \in Handshake
  BY NamesAre DEF CacheInv
<1>2. worker[w].t \in Nat /\ Candidates[worker[w].i] = IC!Name(w)
  BY <1>1 DEF Handshake, IC!Name
<1>3. ReadIsOld(w) /\ Finds(w) /\ CacheTyped /\ LoadedIsOld
  BY DEF CacheInv
<1>4. QED BY <1>1, <1>2, <1>3 DEF CacheTyped, LoadedIsOld, Stored

\* A step of a worker that stays with its name.
LEMMA SameName ==
    ASSUME CacheSizes, CacheInv, NEW w \in Readers, NEW r \in Handshake,
           worker' = [worker EXCEPT ![w] = r], UNCHANGED <<files, now, touched>>,
           r.i = worker[w].i
    PROVE  /\ IC!Name(w)' = IC!Name(w) /\ worker'[w] = r
           /\ \A n : IC!Settled(w, n)' <=> IC!Settled(w, n)
<1>1. worker'[w] = r
  BY NamesAre DEF CacheInv
<1>2. QED BY <1>1 DEF IC!Name, IC!Settled

LEMMA GoesOn ==
    ASSUME CacheSizes, CacheInv, NEW w \in Readers, NEW p \in Points, IC!Go(w, p),
           UNCHANGED <<files, now, touched>>
    PROVE  /\ IC!Name(w)' = IC!Name(w)
           /\ worker'[w].pc = p /\ worker'[w].i = worker[w].i /\ worker'[w].t = worker[w].t
           /\ worker'[w].v = worker[w].v /\ worker'[w].got = worker[w].got
           /\ \A n : IC!Settled(w, n)' <=> IC!Settled(w, n)
<1> DEFINE r == [worker[w] EXCEPT !.pc = p]
<1>1. worker' = [worker EXCEPT ![w] = r]
  BY DEF IC!Go
<1>2. /\ r \in Handshake /\ r.pc = p /\ r.i = worker[w].i /\ r.t = worker[w].t
      /\ r.v = worker[w].v /\ r.got = worker[w].got
  BY NamesAre DEF Handshake, CacheInv
<1> HIDE DEF r
<1>3. QED BY <1>1, <1>2, SameName

LEMMA CallbackStep ==
    ASSUME CacheSizes, CacheInv, NEW w \in Readers, IC!servername_callback(w)
    PROVE  CacheInv'
<1> DEFINE r == [IC!Idle EXCEPT !.pc = "lock", !.lookups = worker[w].lookups + 1]
<1>1. worker' = [worker EXCEPT ![w] = r] /\ touched' = [touched EXCEPT ![w] = {}]
      /\ UNCHANGED <<files, now, data>>
  BY DEF IC!servername_callback
<1>2. r \in Handshake /\ r.pc = "lock" /\ r.i = 1
  <2>1. worker[w].lookups + 1 \in Nat
    BY NamesAre DEF Handshake, CacheInv
  <2>2. 1 \in 1..Len(Candidates)
    BY DEF CacheSizes
  <2>3. QED BY <2>1, <2>2 DEF Handshake, IC!Idle, Points
<1> HIDE DEF r
<1>3. worker'[w] = r
  BY <1>1, NamesAre DEF CacheInv
<1>4. touched' \in [Readers -> SUBSET Names] /\ \A x \in Readers \ {w} : touched'[x] = touched[x]
  BY <1>1 DEF CacheInv, CacheTyped
<1>5. ReadIsOld(w)' /\ Finds(w)'
  BY <1>2, <1>3 DEF ReadIsOld, Finds
<1>6. QED BY <1>1, <1>2, <1>4, <1>5, HandshakeStep

LEMMA EnsureStep ==
    ASSUME CacheSizes, CacheInv, NEW w \in Readers, IC!ensure_updated(w)
    PROVE  CacheInv'
<1> DEFINE p == IF IC!Cached(w) = None THEN "stat_cert" ELSE "check_cert"
<1>1. p \in Points /\ IC!Go(w, p) /\ UNCHANGED <<files, now, data, touched>>
  BY DEF IC!ensure_updated, Points
<1>2. p = "stat_cert" \/ (p = "check_cert" /\ data[IC!Name(w)] # None)
  BY DEF IC!Cached
<1> HIDE DEF p
<1>3. worker[w].pc = "lock"
  BY DEF IC!ensure_updated
<1>4. /\ IC!Name(w)' = IC!Name(w)
      /\ worker'[w].pc = p /\ worker'[w].i = worker[w].i /\ worker'[w].t = worker[w].t
      /\ worker'[w].v = worker[w].v /\ worker'[w].got = worker[w].got
      /\ \A m : IC!Settled(w, m)' <=> IC!Settled(w, m)
  BY <1>1, GoesOn
<1>5. ReadIsOld(w) /\ Finds(w)
  BY DEF CacheInv
<1>6. ReadIsOld(w)'
  BY <1>1, <1>2, <1>4, <1>5 DEF ReadIsOld
<1>7. Finds(w)'
  BY <1>1, <1>2, <1>3, <1>4, <1>5 DEF Finds
<1>8. QED BY <1>1, <1>6, <1>7, GoStep

LEMMA ModifiedStep ==
    ASSUME CacheSizes, CacheInv, NEW w \in Readers, IC!modified_after(w)
    PROVE  CacheInv'
<1> DEFINE n == IC!Name(w)
<1>1. UNCHANGED <<files, now, data, touched>> /\ worker[w].pc \in {"check_cert", "check_key"}
  BY DEF IC!modified_after
<1>2. data[n] # None
  BY <1>1, AtName DEF ReadIsOld
<1>3. PICK p \in Points : /\ IC!Go(w, p)
                          /\ \/ p \in {"stat_cert", "check_key"}
                             \/ /\ p = "get" /\ worker[w].pc = "check_key"
                                /\ files[n].key.v # None /\ ~(files[n].key.t > data[n].t)
  BY DEF IC!modified_after, IC!File, IC!Cached, Points
<1>4. /\ IC!Name(w)' = IC!Name(w)
      /\ worker'[w].pc = p /\ worker'[w].i = worker[w].i /\ worker'[w].t = worker[w].t
      /\ worker'[w].v = worker[w].v /\ worker'[w].got = worker[w].got
      /\ \A m : IC!Settled(w, m)' <=> IC!Settled(w, m)
  BY <1>1, <1>3, GoesOn
<1>5. ReadIsOld(w)'
  BY <1>1, <1>2, <1>3, <1>4 DEF ReadIsOld
<1>6. p = "get" => (IC!Settled(w, n) => data[n] # None /\ data[n].v = files[n].cert.v)
  <2>1. n \in Names /\ files[n].key.t \in Nat
    BY AtName
  <2>2. /\ data[n].t \in Nat
        /\ files[n].key.t <= data[n].t /\ files[n].key.v # None => files[n].key.v = data[n].v
    BY <1>2, <2>1 DEF Loaded, CacheInv, CacheTyped, LoadedIsOld
  <2>3. QED BY <1>2, <1>3, <2>1, <2>2 DEF IC!Settled
<1>7. Finds(w)
  BY DEF CacheInv
<1>8. Finds(w)'
  BY <1>1, <1>3, <1>4, <1>6, <1>7 DEF Finds
<1>9. QED BY <1>1, <1>3, <1>5, <1>8, GoStep

LEMMA StatStep ==
    ASSUME CacheSizes, CacheInv, NEW w \in Readers, UNCHANGED <<files, now, data, touched>>,
           \/ /\ worker[w].pc = "stat_cert"
              /\ worker' = [worker EXCEPT ![w].pc = "stat_key", ![w].t = IC!File(w, "cert").t]
           \/ /\ worker[w].pc = "stat_key"
              /\ worker' = [worker EXCEPT ![w].pc = "load_cert",
                     ![w].t = IF IC!File(w, "key").t > @ THEN IC!File(w, "key").t ELSE @]
    PROVE  CacheInv'
<1>1. PICK p \in {"stat_key", "load_cert"}, t \in Nat :
        /\ worker' = [worker EXCEPT ![w] = [worker[w] EXCEPT !.pc = p, !.t = t]]
        /\ t <= now
  <2>1. CASE worker[w].pc = "stat_cert"
    BY <2>1, AtName DEF IC!File
  <2>2. CASE worker[w].pc = "stat_key"
    <3>1. worker[w].t <= now
      BY <2>2, AtName DEF ReadIsOld
    <3>2. worker' = [worker EXCEPT ![w] = [worker[w] EXCEPT !.pc = "load_cert",
                     !.t = IF IC!File(w, "key").t > worker[w].t THEN IC!File(w, "key").t ELSE worker[w].t]]
      BY <2>2
    <3>3. QED BY <3>1, <3>2, AtName DEF IC!File
  <2>3. QED BY <2>1, <2>2
<1>2. worker[w].pc \in {"stat_cert", "stat_key"}
  OBVIOUS
<1> DEFINE r == [worker[w] EXCEPT !.pc = p, !.t = t]
<1>3. r \in Handshake /\ r.pc = p /\ r.t = t /\ r.i = worker[w].i
  BY NamesAre DEF Handshake, CacheInv, Points
<1>4. worker' = [worker EXCEPT ![w] = r]
  BY <1>1
<1> HIDE DEF r
<1>5. worker'[w] = r /\ IC!Name(w)' = IC!Name(w) /\ \A n : IC!Settled(w, n)' <=> IC!Settled(w, n)
  BY <1>3, <1>4, SameName
<1>6. r.pc \in {"stat_key", "load_cert"} /\ r.t <= now
  BY <1>1, <1>3
<1>7. Finds(w)
  BY DEF CacheInv
<1>8. ReadIsOld(w)'
  BY <1>5, <1>6 DEF ReadIsOld
<1>9. Finds(w)'
  BY <1>2, <1>3, <1>5, <1>6, <1>7 DEF Finds
<1>10. touched' \in [Readers -> SUBSET Names]
  BY DEF CacheInv, CacheTyped
<1>11. QED BY <1>3, <1>4, <1>8, <1>9, <1>10, HandshakeStep

LEMMA LoadCertStep ==
    ASSUME CacheSizes, CacheInv, NEW w \in Readers, UNCHANGED <<files, now, data, touched>>,
           worker[w].pc = "load_cert", IC!File(w, "cert").v # None,
           worker' = [worker EXCEPT ![w].pc = "load_key", ![w].v = IC!File(w, "cert").v]
    PROVE  CacheInv'
<1> DEFINE v == files[IC!Name(w)].cert.v
           r == [worker[w] EXCEPT !.pc = "load_key", !.v = v]
<1>1. v \in Contents /\ v # None
  BY AtName DEF Stored, IC!File
<1>2. worker' = [worker EXCEPT ![w] = r]
  BY DEF IC!File
<1>3. r \in Handshake /\ r.pc = "load_key" /\ r.v = v /\ r.i = worker[w].i /\ r.t = worker[w].t
  BY <1>1, NamesAre DEF Handshake, CacheInv, Points
<1> HIDE DEF r
<1>4. worker'[w] = r /\ IC!Name(w)' = IC!Name(w) /\ \A n : IC!Settled(w, n)' <=> IC!Settled(w, n)
  BY <1>2, <1>3, SameName
<1>5. ReadIsOld(w) /\ Finds(w)
  BY DEF CacheInv
<1>6. ReadIsOld(w)'
  BY <1>1, <1>3, <1>4, <1>5 DEF ReadIsOld
<1>7. Finds(w)'
  BY <1>3, <1>4, <1>5 DEF Finds
<1>8. touched' \in [Readers -> SUBSET Names]
  BY DEF CacheInv, CacheTyped
<1>9. QED BY <1>2, <1>3, <1>6, <1>7, <1>8, HandshakeStep

LEMMA LoadKeyStep ==
    ASSUME CacheSizes, CacheInv, NEW w \in Readers, UNCHANGED <<files, now, touched>>,
           worker[w].pc = "load_key", IC!File(w, "key").v = worker[w].v,
           data' = [data EXCEPT ![IC!Name(w)] = [v |-> worker[w].v, t |-> worker[w].t]],
           IC!Go(w, "get")
    PROVE  CacheInv'
<1> DEFINE n == IC!Name(w)
           d == [v |-> worker[w].v, t |-> worker[w].t]
<1>1. /\ n \in Names /\ worker[w].v # None /\ worker[w].t <= now /\ worker[w].t \in Nat
      /\ worker[w].v \in Contents
      /\ files[n].cert.t <= worker[w].t /\ files[n].cert.v # None => files[n].cert.v = worker[w].v
  BY AtName DEF ReadIsOld, Handshake
<1>2. d \in Loaded /\ d # None /\ files[n].key.v = d.v /\ d.v = worker[w].v /\ d.t = worker[w].t
  BY <1>1 DEF Loaded, CacheSizes, IC!File
<1> HIDE DEF d
<1>3. /\ IC!Name(w)' = n /\ worker'[w].pc = "get" /\ worker'[w].i = worker[w].i
      /\ \A m : IC!Settled(w, m)' <=> IC!Settled(w, m)
  <2>1. "get" \in Points
    BY DEF Points
  <2>2. QED BY <2>1, GoesOn
<1>4. worker' \in [Readers -> Handshake] /\ \A x \in Readers \ {w} : worker'[x] = worker[x]
  BY NamesAre, ZenonT(40) DEF IC!Go, CacheInv, Handshake, Points
<1>5. data' = [data EXCEPT ![n] = d]
  BY DEF d
<1>6. data' \in [Names -> Loaded \cup {None}] /\ data'[n] = d /\ \A m \in Names \ {n} : data'[m] = data[m]
  BY <1>1, <1>2, <1>5 DEF CacheInv, CacheTyped
<1>7. CacheTyped'
  BY <1>4, <1>6 DEF CacheInv, CacheTyped, Handshake
<1>8. LoadedIsOld'
  <2>1. LoadedIsOld
    BY DEF CacheInv
  <2>2. \A m \in Names \ {n} : data'[m] # None =>
          /\ data'[m].t <= now
          /\ files[m].cert.t <= data'[m].t /\ files[m].cert.v # None => files[m].cert.v = data'[m].v
          /\ files[m].key.t <= data'[m].t /\ files[m].key.v # None => files[m].key.v = data'[m].v
    BY <1>6, <2>1 DEF LoadedIsOld
  <2>3. /\ d.t <= now
        /\ files[n].cert.t <= d.t /\ files[n].cert.v # None => files[n].cert.v = d.v
        /\ files[n].key.t <= d.t /\ files[n].key.v # None => files[n].key.v = d.v
    BY <1>1, <1>2
  <2>4. QED BY <1>6, <2>1, <2>2, <2>3 DEF LoadedIsOld
<1>9. ReadIsOld(w)'
  BY <1>3 DEF ReadIsOld
<1>10. Finds(w)'
  <2>1. Finds(w) /\ (IC!Settled(w, n) => data'[n] # None /\ data'[n].v = files[n].cert.v)
    BY <1>2, <1>6 DEF CacheInv, IC!Settled
  <2>2. QED BY <1>3, <2>1 DEF Finds
<1>11. \A m \in Names : data'[m] = data[m] \/ (data'[m] # None /\ data'[m].v = files[m].key.v)
  BY <1>2, <1>6
<1>12. QED BY <1>4, <1>7, <1>8, <1>9, <1>10, <1>11, OthersKeep

LEMMA NotLoadedStep ==
    ASSUME CacheSizes, CacheInv, NEW w \in Readers, IC!NotLoaded(w)
    PROVE  CacheInv'
<1> DEFINE n == IC!Name(w)
<1>1. "get" \in Points /\ IC!Go(w, "get") /\ UNCHANGED <<files, now, data, touched>>
  BY DEF IC!NotLoaded, Points
<1>2. ReadIsOld(w) /\ Finds(w)
  BY DEF CacheInv
<1>3. ~IC!Settled(w, n)
  BY <1>2 DEF IC!NotLoaded, IC!Settled, IC!File, ReadIsOld
<1>4. /\ IC!Name(w)' = n /\ worker'[w].pc = "get" /\ worker'[w].i = worker[w].i
      /\ \A m : IC!Settled(w, m)' <=> IC!Settled(w, m)
  BY <1>1, GoesOn
<1>5. worker[w].pc # "idle"
  BY DEF IC!NotLoaded
<1>6. ReadIsOld(w)'
  BY <1>4 DEF ReadIsOld
<1>7. Finds(w)'
  BY <1>2, <1>3, <1>4, <1>5 DEF Finds
<1>8. QED BY <1>1, <1>6, <1>7, GoStep

LEMMA GetStep ==
    ASSUME CacheSizes, CacheInv, NEW w \in Readers, IC!get_by_name(w)
    PROVE  CacheInv'
<1> DEFINE n == IC!Name(w)
<1>1. worker[w].pc = "get" /\ UNCHANGED <<files, now, data, touched>>
  BY DEF IC!get_by_name
<1>2. Finds(w) /\ ReadIsOld(w) /\ worker[w] \in Handshake /\ n \in Names /\ Candidates[worker[w].i] = n
  BY AtName
<1>3. touched' \in [Readers -> SUBSET Names]
  BY <1>1 DEF CacheInv, CacheTyped
<1>4. ASSUME IC!Cached(w) # None, worker' = [worker EXCEPT ![w].pc = "served", ![w].got = IC!Cached(w).v]
      PROVE  CacheInv'
  <2> DEFINE r == [worker[w] EXCEPT !.pc = "served", !.got = data[n].v]
  <2>1. worker' = [worker EXCEPT ![w] = r] /\ data[n] # None
    BY <1>4 DEF IC!Cached
  <2>2. data[n].v \in Contents
    BY <1>2, <2>1 DEF CacheInv, CacheTyped, Loaded
  <2>3. r \in Handshake /\ r.pc = "served" /\ r.got = data[n].v /\ r.i = worker[w].i
    BY <1>2, <2>2 DEF Handshake, Points
  <2> HIDE DEF r
  <2>4. worker'[w] = r /\ IC!Name(w)' = n /\ \A m : IC!Settled(w, m)' <=> IC!Settled(w, m)
    BY <1>1, <2>1, <2>3, SameName
  <2>5. ReadIsOld(w)'
    BY <2>3, <2>4 DEF ReadIsOld
  <2>6. Finds(w)'
    BY <1>1, <1>2, <2>3, <2>4 DEF Finds
  <2>7. QED BY <1>1, <1>3, <2>1, <2>3, <2>5, <2>6, HandshakeStep
<1>5. IC!Cached(w) = None => ~IC!Settled(w, n)
  BY <1>1, <1>2 DEF Finds, IC!Cached
<1>6. ASSUME IC!Cached(w) = None, worker[w].i < Len(Candidates),
             worker' = [worker EXCEPT ![w].pc = "lock", ![w].i = @ + 1]
      PROVE  CacheInv'
  <2> DEFINE r == [worker[w] EXCEPT !.pc = "lock", !.i = worker[w].i + 1]
  <2>1. worker' = [worker EXCEPT ![w] = r]
    BY <1>6
  <2>2. worker[w].i \in Nat /\ worker[w].i + 1 \in 1..Len(Candidates)
    BY <1>2, <1>6, NamesAre DEF Handshake, CacheInv
  <2>3. r \in Handshake /\ r.pc = "lock" /\ r.i = worker[w].i + 1
    BY <1>2, <2>2 DEF Handshake, Points
  <2> HIDE DEF r
  <2>4. worker'[w] = r /\ \A m : IC!Settled(w, m)' <=> IC!Settled(w, m)
    BY <1>1, <2>1, NamesAre DEF IC!Settled, CacheInv
  <2>5. ReadIsOld(w)'
    BY <2>3, <2>4 DEF ReadIsOld
  <2>6. \A j \in 1..(r.i - 1) : ~IC!Settled(w, Candidates[j])
    <3> TAKE j \in 1..(r.i - 1)
    <3>1. j \in 1..(worker[w].i - 1) \/ j = worker[w].i
      BY <2>2, <2>3
    <3>2. QED BY <1>1, <1>2, <1>5, <1>6, <3>1 DEF Finds
  <2>7. Finds(w)'
    BY <2>3, <2>4, <2>6 DEF Finds
  <2>8. QED BY <1>1, <1>3, <2>1, <2>3, <2>5, <2>7, HandshakeStep
<1>7. ASSUME IC!Cached(w) = None, worker[w].i = Len(Candidates), IC!Go(w, "refused")
      PROVE  CacheInv'
  <2>1. "refused" \in Points
    BY DEF Points
  <2>2. /\ worker'[w].pc = "refused" /\ worker'[w].i = worker[w].i
        /\ \A m : IC!Settled(w, m)' <=> IC!Settled(w, m)
    BY <1>1, <1>7, <2>1, GoesOn
  <2>3. ReadIsOld(w)'
    BY <2>2 DEF ReadIsOld
  <2>4. \A j \in 1..Len(Candidates) : ~IC!Settled(w, Candidates[j])
    <3> TAKE j \in 1..Len(Candidates)
    <3>1. j \in 1..(worker[w].i - 1) \/ j = worker[w].i
      BY <1>7, NamesAre DEF CacheInv
    <3>2. QED BY <1>1, <1>2, <1>5, <1>7, <3>1 DEF Finds
  <2>5. \A j \in 1..(worker[w].i - 1) : ~IC!Settled(w, Candidates[j])
    BY <1>1, <1>2 DEF Finds
  <2>6. Finds(w)'
    BY <2>2, <2>4, <2>5 DEF Finds
  <2>7. QED BY <1>1, <1>7, <2>1, <2>3, <2>6, GoStep
<1>8. QED BY <1>4, <1>6, <1>7 DEF IC!get_by_name

LEMMA FinishStep ==
    ASSUME CacheSizes, CacheInv, NEW w \in Readers, IC!Finish(w)
    PROVE  CacheInv'
<1>1. "idle" \in Points /\ IC!Go(w, "idle") /\ UNCHANGED <<files, now, data, touched>>
  BY DEF IC!Finish, Points
<1>2. worker'[w].pc = "idle"
  BY <1>1, GoesOn
<1>3. ReadIsOld(w)'
  BY <1>2 DEF ReadIsOld
<1>4. Finds(w)'
  BY <1>2 DEF Finds
<1>5. QED BY <1>1, <1>3, <1>4, GoStep

\* Whatever is written, half written or removed while the workers read: what
\* is loaded is no newer than its time says, and a handshake knows why it
\* passed over a name.
THEOREM CacheInvariance ==
    ASSUME CacheSizes
    PROVE  IC!Spec => []CacheInv
<1>1. ASSUME CacheInv, UNCHANGED IC!vars PROVE CacheInv'
  <2>1. UNCHANGED <<files, now, data, lock, worker, touched>>
    BY <1>1 DEF IC!vars
  <2>2. QED BY <1>1, <2>1 DEF CacheInv, CacheTyped, LoadedIsOld, ReadIsOld, Finds, IC!Name, IC!Settled
<1>2. ASSUME CacheInv, NEW w \in Readers, IC!from_name(w) PROVE CacheInv'
  <2>1. UNCHANGED <<files, now, touched>>
    BY <1>2 DEF IC!from_name
  <2>2. CASE worker[w].pc \in {"stat_cert", "stat_key"}
    BY <1>2, <2>1, <2>2, StatStep DEF IC!from_name
  <2>3. CASE worker[w].pc = "load_cert"
    BY <1>2, <2>1, <2>3, LoadCertStep DEF IC!from_name
  <2>4. CASE worker[w].pc = "load_key"
    BY <1>2, <2>1, <2>4, LoadKeyStep DEF IC!from_name
  <2>5. QED BY <1>2, <2>2, <2>3, <2>4 DEF IC!from_name
<1>3. CacheInv /\ IC!Next => CacheInv'
  BY <1>2, CacheWrite, CallbackStep, EnsureStep, ModifiedStep, NotLoadedStep, GetStep, FinishStep DEF IC!Next
<1>4. QED BY <1>1, <1>3, CacheInit, PTL DEF IC!Spec

LEMMA CacheServes ==
    ASSUME CacheSizes
    PROVE  IC!Spec => []IC!ServedIsCurrent
<1>1. ASSUME CacheInv PROVE IC!ServedIsCurrent
  <2>1. ASSUME NEW w \in Readers PROVE Finds(w)
    BY <1>1 DEF CacheInv
  <2>2. DOMAIN Candidates = 1..Len(Candidates)
    BY DEF CacheSizes
  <2>3. QED BY <2>1, <2>2 DEF IC!ServedIsCurrent, Finds, IC!Name
<1>2. CacheInv => IC!ServedIsCurrent
  BY <1>1
<1>3. QED BY <1>2, CacheInvariance, PTL

-----------------------------------------------------------------------------
(* Resolver                                                                *)

QueryStates == {"none", "refused", "new", "registered", "missed", "pending", "done", "dropping"}
Query == [st : QueryStates, host : Hosts \cup {None}, key : Nat, evented : BOOLEAN,
          ready : BOOLEAN, event : BOOLEAN, early : BOOLEAN, answer : Answers]

ResolverTyped ==
    /\ stop \in BOOLEAN
    /\ nodes \in [RS!Keys -> Slot \cup {None}]
    /\ next \in Seq(RS!Keys) /\ Once(next)
    /\ registrations \in Seq(BOOLEAN)
    /\ invalidated \in [Threads -> BOOLEAN]
    /\ tpc \in [Threads -> {"idle", "wait", "resolve", "ended"}]
    /\ tkey \in [Threads -> Nat]
    /\ thost \in [Threads -> Hosts \cup {None}]
    /\ query \in [Clients -> Query]

Expected(c) == IF query[c].host = TooLong THEN RS!Failed ELSE query[c].host

\* A query that lives has a slot with its host and, until it has found its
\* answer, the answer is there with an event for it, queued or being fetched.
QuerySound(c) ==
    LET q == query[c]
        k == query[c].key
    IN  RS!Live(c) =>
        /\ k \in RS!Keys /\ nodes[k] # None /\ q.host \in Hosts
        /\ nodes[k].host = (IF q.host = TooLong THEN None ELSE q.host)
        /\ nodes[k].result # None => nodes[k].result = Expected(c)
        /\ q.st \in {"registered", "missed", "pending"} => q.evented
        /\ q.st \in {"missed", "pending"} /\ nodes[k].result # None => q.event
        /\ q.st \in {"new", "registered", "missed", "pending"} /\ nodes[k].result = None =>
              k \in Elements(next) \/ nodes[k].flag # None
        /\ q.st = "done" => q.answer = Expected(c)

\* Two queries never share a slot.
SlotsApart ==
    \A c, d \in Clients : RS!Live(c) /\ RS!Live(d) /\ query[c].key = query[d].key => c = d

\* A slot that is queued has nobody on it; one with a flag has the thread
\* that the flag belongs to.
SlotSound(k) ==
    /\ k \in Elements(next) =>
          /\ nodes[k] # None /\ nodes[k].flag = None
          /\ nodes[k].result = None /\ nodes[k].host \in Hosts
    /\ nodes[k] # None /\ nodes[k].flag # None =>
          LET t == nodes[k].flag IN tpc[t] = "resolve" /\ tkey[t] = k /\ ~invalidated[t]

\* And the other way round: a thread whose flag was not invalidated has the
\* slot it took, with the host it took from it.
ThreadSound(t) ==
    tpc[t] = "resolve" /\ ~invalidated[t] =>
        /\ tkey[t] \in RS!Keys /\ nodes[tkey[t]] # None
        /\ nodes[tkey[t]].flag = t /\ nodes[tkey[t]].host = thost[t] /\ thost[t] \in Hosts

Awake == next # <<>> /\ ~stop => \E t \in Threads : tpc[t] # "wait"

PoolFits == Len(registrations) = Cardinality(RS!Free)

ResolverInv ==
    /\ ResolverTyped /\ SlotsApart /\ Awake /\ PoolFits
    /\ \A c \in Clients : QuerySound(c)
    /\ \A k \in RS!Keys : SlotSound(k)
    /\ \A t \in Threads : ThreadSound(t)

LEMMA SameCount ==
    ASSUME NEW S
    PROVE  RS!Cardinality(S) = Cardinality(S)
BY Zenon DEF RS!Cardinality, Cardinality

LEMMA SameRemove ==
    ASSUME NEW s, NEW x
    PROVE  RS!RemoveFirst(s, x) = RemoveFirst(s, x)
BY Zenon DEF RS!RemoveFirst, RemoveFirst, RS!RemoveAt, RemoveAt, RS!SelectInSeq, SelectInSeq, RS!Min, Min

\* A query stays sound while nobody touches more of its slot than its place
\* in the queue, which it may only leave for a thread.
LEMMA QueryKeeps ==
    ASSUME NEW c \in Clients, QuerySound(c), query'[c] = query[c],
           LET k == query[c].key IN RS!Live(c) =>
               /\ nodes'[k] # None /\ nodes'[k].host = nodes[k].host
               /\ nodes'[k].result = nodes[k].result
               /\ k \in Elements(next) \/ nodes[k].flag # None =>
                     k \in Elements(next') \/ nodes'[k].flag # None
    PROVE  QuerySound(c)'
BY DEF QuerySound, RS!Live, Expected

LEMMA SlotKeeps ==
    ASSUME NEW k \in RS!Keys, SlotSound(k), nodes'[k] = nodes[k],
           k \in Elements(next') => k \in Elements(next),
           nodes[k] # None /\ nodes[k].flag # None =>
               LET t == nodes[k].flag IN
               /\ tpc'[t] = tpc[t] /\ tkey'[t] = tkey[t] /\ invalidated'[t] = invalidated[t]
    PROVE  SlotSound(k)'
BY DEF SlotSound

LEMMA ThreadKeeps ==
    ASSUME NEW t \in Threads, ThreadSound(t),
           tpc'[t] = tpc[t], tkey'[t] = tkey[t], thost'[t] = thost[t],
           invalidated[t] => invalidated'[t],
           tpc[t] = "resolve" /\ ~invalidated[t] /\ ~invalidated'[t] =>
               /\ nodes'[tkey[t]] # None
               /\ nodes'[tkey[t]].flag = nodes[tkey[t]].flag /\ nodes'[tkey[t]].host = nodes[tkey[t]].host
    PROVE  ThreadSound(t)'
BY DEF ThreadSound

LEMMA PoolKeeps ==
    ASSUME PoolFits, registrations' = registrations,
           \A k \in RS!Keys : nodes'[k] = None <=> nodes[k] = None
    PROVE  PoolFits'
<1>1. RS!Free' = RS!Free
  BY DEF RS!Free, RS!Keys
<1>2. QED BY <1>1 DEF PoolFits

LEMMA ResolverInit ==
    ASSUME ResolverSizes, RS!Init
    PROVE  ResolverInv
<1>1. next = <<>> /\ nodes = [k \in RS!Keys |-> None] /\ registrations = [k \in RS!Keys |-> FALSE]
  BY DEF RS!Init
<1>2. /\ stop = FALSE /\ invalidated = [t \in Threads |-> FALSE]
      /\ tpc = [t \in Threads |-> "idle"] /\ tkey = [t \in Threads |-> 0]
      /\ thost = [t \in Threads |-> None] /\ query = [c \in Clients |-> RS!Fresh]
  BY DEF RS!Init
<1>3. RS!Fresh \in Query
  BY DEF RS!Fresh, Query, QueryStates, Answers
<1>4. registrations \in Seq(BOOLEAN) /\ Len(registrations) = QueriesMax
  <2>1. DOMAIN registrations = 1..QueriesMax /\ QueriesMax \in Nat
    BY <1>1 DEF RS!Keys, ResolverSizes
  <2>2. \A k \in 1..QueriesMax : registrations[k] \in BOOLEAN
    BY <1>1 DEF RS!Keys
  <2>3. registrations = [k \in 1..QueriesMax |-> FALSE]
    BY <1>1 DEF RS!Keys
  <2>4. QED BY <2>1, <2>2, <2>3
<1>5. next \in Seq(RS!Keys) /\ Once(next) /\ Elements(next) = {}
  BY <1>1, EmptyElements
<1>6. ResolverTyped
  BY <1>1, <1>2, <1>3, <1>4, <1>5 DEF ResolverTyped
<1>7. PoolFits
  <2>1. RS!Free = 1..QueriesMax
    BY <1>1 DEF RS!Free, RS!Keys
  <2>2. Cardinality(1..QueriesMax) = QueriesMax
    BY FS_Interval DEF ResolverSizes
  <2>3. QED BY <1>4, <2>1, <2>2 DEF PoolFits
<1>8. Awake
  BY <1>1 DEF Awake
<1>9. ASSUME NEW c \in Clients PROVE ~RS!Live(c)
  BY <1>2 DEF RS!Live, RS!Fresh
<1>10. SlotsApart /\ \A c \in Clients : QuerySound(c)
  BY <1>9 DEF SlotsApart, QuerySound
<1>11. \A k \in RS!Keys : SlotSound(k)
  BY <1>1, <1>5 DEF SlotSound
<1>12. \A t \in Threads : ThreadSound(t)
  BY <1>2 DEF ThreadSound
<1>13. QED BY <1>6, <1>7, <1>8, <1>10, <1>11, <1>12 DEF ResolverInv

\* A step that changes one query only, which keeps its slot or has none.
LEMMA QueryChange ==
    ASSUME ResolverInv, NEW c \in Clients, NEW q \in Query, query' = [query EXCEPT ![c] = q],
           UNCHANGED <<stop, nodes, next, registrations, invalidated, tpc, tkey, thost>>,
           q.st \notin {"none", "refused"} => RS!Live(c) /\ q.key = query[c].key,
           QuerySound(c)'
    PROVE  ResolverInv'
<1>1. query' \in [Clients -> Query] /\ query'[c] = q /\ \A d \in Clients \ {c} : query'[d] = query[d]
  BY DEF ResolverInv, ResolverTyped
<1>2. ResolverTyped'
  <2>1. Once(next)'
    BY DEF ResolverInv, ResolverTyped, Once
  <2>2. QED BY <1>1, <2>1 DEF ResolverInv, ResolverTyped
<1>3. SlotsApart'
  BY <1>1 DEF ResolverInv, SlotsApart, RS!Live
<1>4. Awake' /\ PoolFits'
  BY PoolKeeps DEF ResolverInv, Awake
<1>5. \A d \in Clients : QuerySound(d)'
  <2>1. ASSUME NEW d \in Clients, d # c PROVE QuerySound(d)'
    <3>1. QuerySound(d) /\ query'[d] = query[d]
      BY <1>1, <2>1 DEF ResolverInv
    <3>2. RS!Live(d) => nodes[query[d].key] # None
      BY <3>1 DEF QuerySound
    <3>3. QED BY <3>1, <3>2, QueryKeeps
  <2>2. QED BY <2>1
<1>6. \A k \in RS!Keys : SlotSound(k)'
  BY SlotKeeps DEF ResolverInv
<1>7. \A t \in Threads : ThreadSound(t)'
  BY DEF ThreadSound, ResolverInv
<1>8. QED BY <1>2, <1>3, <1>4, <1>5, <1>6, <1>7 DEF ResolverInv

LEMMA RegisterStep ==
    ASSUME ResolverInv, NEW c \in Clients,
           RS!PollRegister(c) \/ RS!PollUnready(c) \/ RS!React(c) \/ RS!Deregister(c) \/ RS!Refused(c)
    PROVE  ResolverInv'
<1> DEFINE p == query[c]
<1>1. UNCHANGED <<stop, nodes, next, registrations, invalidated, tpc, tkey, thost>>
  BY DEF RS!PollRegister, RS!PollUnready, RS!React, RS!Deregister, RS!Refused, RS!threads
<1>2. p \in Query /\ QuerySound(c)
  BY DEF ResolverInv, ResolverTyped
<1>3. CASE RS!PollRegister(c)
  <2> DEFINE q == [p EXCEPT !.st = "registered", !.evented = TRUE, !.ready = TRUE,
                            !.event = p.early, !.early = FALSE]
  <2>1. p.st = "new" /\ query' = [query EXCEPT ![c] = q]
    BY <1>3 DEF RS!PollRegister, RS!Set
  <2>2. /\ q \in Query /\ q.st = "registered" /\ q.evented /\ q.key = p.key /\ q.host = p.host
        /\ q.answer = p.answer
    BY <1>2 DEF Query, QueryStates
  <2> HIDE DEF q
  <2>3. query'[c] = q /\ RS!Live(c)
    BY <2>1 DEF ResolverInv, ResolverTyped, RS!Live
  <2>4. QuerySound(c)'
    BY <1>1, <1>2, <2>1, <2>2, <2>3 DEF QuerySound, RS!Live, Expected
  <2>5. QED BY <1>1, <2>1, <2>2, <2>3, <2>4, QueryChange
<1>4. CASE RS!PollUnready(c)
  <2> DEFINE q == [p EXCEPT !.st = "pending", !.ready = FALSE]
  <2>1. p.st = "missed" /\ query' = [query EXCEPT ![c] = q]
    BY <1>4 DEF RS!PollUnready, RS!Set
  <2>2. /\ q \in Query /\ q.st = "pending" /\ q.evented = p.evented /\ q.key = p.key /\ q.host = p.host
        /\ q.answer = p.answer /\ q.event = p.event
    BY <1>2 DEF Query, QueryStates
  <2> HIDE DEF q
  <2>3. query'[c] = q /\ RS!Live(c)
    BY <2>1 DEF ResolverInv, ResolverTyped, RS!Live
  <2>4. QuerySound(c)'
    BY <1>1, <1>2, <2>1, <2>2, <2>3 DEF QuerySound, RS!Live, Expected
  <2>5. QED BY <1>1, <2>1, <2>2, <2>3, <2>4, QueryChange
<1>5. CASE RS!React(c)
  <2> DEFINE q == [p EXCEPT !.st = "registered", !.event = FALSE, !.ready = TRUE]
  <2>1. p.st = "pending" /\ query' = [query EXCEPT ![c] = q]
    BY <1>5 DEF RS!React, RS!Set
  <2>2. /\ q \in Query /\ q.st = "registered" /\ q.evented = p.evented /\ q.key = p.key /\ q.host = p.host
        /\ q.answer = p.answer
    BY <1>2 DEF Query, QueryStates
  <2> HIDE DEF q
  <2>3. query'[c] = q /\ RS!Live(c)
    BY <2>1 DEF ResolverInv, ResolverTyped, RS!Live
  <2>4. QuerySound(c)'
    BY <1>1, <1>2, <2>1, <2>2, <2>3 DEF QuerySound, RS!Live, Expected
  <2>5. QED BY <1>1, <2>1, <2>2, <2>3, <2>4, QueryChange
<1>6. CASE RS!Deregister(c)
  <2> DEFINE q == [p EXCEPT !.st = "dropping", !.evented = FALSE, !.event = FALSE]
  <2>1. p.st \notin {"none", "refused"} /\ query' = [query EXCEPT ![c] = q]
    BY <1>6 DEF RS!Deregister, RS!Set
  <2>2. q \in Query /\ q.st = "dropping" /\ q.key = p.key /\ q.host = p.host
    BY <1>2 DEF Query, QueryStates
  <2> HIDE DEF q
  <2>3. query'[c] = q /\ RS!Live(c)
    BY <2>1 DEF ResolverInv, ResolverTyped, RS!Live
  <2>4. QuerySound(c)'
    BY <1>1, <1>2, <2>1, <2>2, <2>3 DEF QuerySound, RS!Live, Expected
  <2>5. QED BY <1>1, <2>1, <2>2, <2>3, <2>4, QueryChange
<1>7. CASE RS!Refused(c)
  <2>1. query' = [query EXCEPT ![c] = RS!Fresh]
    BY <1>7 DEF RS!Refused, RS!Set
  <2>2. RS!Fresh \in Query /\ RS!Fresh.st = "none"
    BY DEF RS!Fresh, Query, QueryStates, Answers
  <2>3. query'[c] = RS!Fresh
    BY <2>1 DEF ResolverInv, ResolverTyped
  <2>4. QuerySound(c)'
    BY <2>2, <2>3 DEF QuerySound, RS!Live
  <2>5. QED BY <1>1, <2>1, <2>2, <2>4, QueryChange
<1>8. QED BY <1>3, <1>4, <1>5, <1>6, <1>7

LEMMA ProcessStep ==
    ASSUME ResolverSizes, ResolverInv, NEW c \in Clients, RS!PollProcess(c)
    PROVE  ResolverInv'
<1> DEFINE p == query[c]
           k == query[c].key
<1>1. /\ p.st = "registered" /\ p \in Query /\ QuerySound(c) /\ RS!Live(c)
      /\ UNCHANGED <<stop, next, registrations, invalidated, tpc, tkey, thost>>
  BY DEF RS!PollProcess, RS!threads, ResolverInv, ResolverTyped, RS!Live
<1>2. k \in RS!Keys /\ nodes[k] # None /\ nodes[k] \in Slot
  BY <1>1 DEF QuerySound, ResolverInv, ResolverTyped
<1>3. ASSUME nodes[k].result = None, RS!Set(c, [p EXCEPT !.st = "missed"]), UNCHANGED nodes
      PROVE  ResolverInv'
  <2> DEFINE q == [p EXCEPT !.st = "missed"]
  <2>1. query' = [query EXCEPT ![c] = q]
    BY <1>3 DEF RS!Set
  <2>2. /\ q \in Query /\ q.st = "missed" /\ q.evented = p.evented /\ q.key = p.key /\ q.host = p.host
        /\ q.answer = p.answer
    BY <1>1 DEF Query, QueryStates
  <2> HIDE DEF q
  <2>3. query'[c] = q
    BY <2>1 DEF ResolverInv, ResolverTyped
  <2>4. QuerySound(c)'
    BY <1>1, <1>3, <2>1, <2>2, <2>3 DEF QuerySound, RS!Live, Expected
  <2>5. QED BY <1>1, <1>3, <2>1, <2>2, <2>4, QueryChange
<1>4. ASSUME nodes[k].result # None, RS!Set(c, [p EXCEPT !.st = "done", !.answer = nodes[k].result]),
             nodes' = [nodes EXCEPT ![k].result = None]
      PROVE  ResolverInv'
  <2> DEFINE q == [p EXCEPT !.st = "done", !.answer = nodes[k].result]
             n == [nodes[k] EXCEPT !.result = None]
  <2>1. query' = [query EXCEPT ![c] = q] /\ nodes' = [nodes EXCEPT ![k] = n]
    BY <1>4 DEF RS!Set
  <2>2. q \in Query /\ q.st = "done" /\ q.key = p.key /\ q.host = p.host /\ q.answer = nodes[k].result
    BY <1>1, <1>2 DEF Query, QueryStates, Slot
  <2>3. n \in Slot /\ n.host = nodes[k].host /\ n.flag = nodes[k].flag /\ n.result = None
    BY <1>2 DEF Slot, Answers
  <2> HIDE DEF q, n
  <2>4. /\ query' \in [Clients -> Query] /\ query'[c] = q
        /\ \A d \in Clients \ {c} : query'[d] = query[d]
    BY <2>1, <2>2 DEF ResolverInv, ResolverTyped
  <2>5. /\ nodes' \in [RS!Keys -> Slot \cup {None}] /\ nodes'[k] = n
        /\ \A j \in RS!Keys \ {k} : nodes'[j] = nodes[j]
    BY <1>2, <2>1, <2>3 DEF ResolverInv, ResolverTyped
  <2>6. n # None
    BY <2>3 DEF ResolverSizes
  <2>7. ResolverTyped'
    BY <1>1, <2>4, <2>5 DEF ResolverInv, ResolverTyped, Once
  <2>8. SlotsApart'
    BY <1>1, <2>2, <2>4 DEF ResolverInv, SlotsApart, RS!Live
  <2>9. Awake' /\ PoolFits'
    BY <1>1, <1>2, <2>5, <2>6, PoolKeeps DEF ResolverInv, Awake
  <2>10. QuerySound(c)'
    BY <1>1, <1>4, <2>2, <2>3, <2>4, <2>5, <2>6 DEF QuerySound, RS!Live, Expected
  <2>11. ASSUME NEW d \in Clients, d # c PROVE QuerySound(d)'
    <3>1. QuerySound(d) /\ query'[d] = query[d]
      BY <2>4, <2>11 DEF ResolverInv
    <3>2. RS!Live(d) => query[d].key # k
      BY <1>1, <2>11 DEF ResolverInv, SlotsApart
    <3>3. RS!Live(d) => nodes'[query[d].key] = nodes[query[d].key] /\ nodes[query[d].key] # None
      BY <2>5, <3>1, <3>2 DEF QuerySound
    <3>4. QED BY <1>1, <3>1, <3>3, QueryKeeps
  <2>12. ASSUME NEW j \in RS!Keys PROVE SlotSound(j)'
    <3>1. SlotSound(j)
      BY DEF ResolverInv
    <3>2. QED BY <1>1, <1>2, <1>4, <2>3, <2>5, <2>6, <3>1 DEF SlotSound
  <2>13. ASSUME NEW t \in Threads PROVE ThreadSound(t)'
    <3>1. ThreadSound(t)
      BY DEF ResolverInv
    <3>2. QED BY <1>1, <1>2, <2>3, <2>5, <2>6, <3>1 DEF ThreadSound
  <2>14. QED BY <2>7, <2>8, <2>9, <2>10, <2>11, <2>12, <2>13 DEF ResolverInv
<1>5. QED BY <1>3, <1>4 DEF RS!PollProcess

\* A slot that is taken leaves one less in the pool, one that is given back
\* one more.
LEMMA PoolTakes ==
    ASSUME ResolverSizes, PoolFits, registrations \in Seq(BOOLEAN), nodes \in [RS!Keys -> Slot \cup {None}],
           NEW k \in RS!Keys, nodes[k] = None, nodes'[k] # None,
           \A j \in RS!Keys \ {k} : nodes'[j] = nodes[j],
           registrations' = SubSeq(registrations, 1, Len(registrations) - 1)
    PROVE  /\ PoolFits' /\ registrations' \in Seq(BOOLEAN)
           /\ Len(registrations) \in Nat \ {0} /\ registrations[Len(registrations)] \in BOOLEAN
<1>1. RS!Free' = RS!Free \ {k} /\ k \in RS!Free /\ RS!Free \subseteq 1..QueriesMax
  BY DEF RS!Free, RS!Keys
<1>2. IsFiniteSet(1..QueriesMax)
  BY FS_Interval DEF ResolverSizes
<1>3. IsFiniteSet(RS!Free)
  BY <1>1, <1>2, FS_Subset
<1>4. Cardinality(RS!Free \ {k}) = Cardinality(RS!Free) - 1 /\ IsFiniteSet(RS!Free \ {k})
  BY <1>1, <1>3, FS_RemoveElement
<1>5. Cardinality(RS!Free) \in Nat /\ Cardinality(RS!Free \ {k}) \in Nat
  BY <1>3, <1>4, FS_CardinalityType
<1>6. Len(registrations) = Cardinality(RS!Free)
  BY DEF PoolFits
<1>7. Len(registrations) \in Nat \ {0}
  BY <1>4, <1>5, <1>6
<1>8. registrations' \in Seq(BOOLEAN) /\ Len(registrations') = Len(registrations) - 1
  <2>1. \A i \in 1..(Len(registrations) - 1) : registrations[i] \in BOOLEAN
    BY <1>7
  <2>2. 1 \in Int /\ Len(registrations) - 1 \in Int
    BY <1>7
  <2>3. /\ registrations' \in Seq(BOOLEAN)
        /\ Len(registrations') = IF 1 <= Len(registrations) - 1 THEN Len(registrations) - 1 - 1 + 1 ELSE 0
    BY <2>1, <2>2, SubSeqProperties
  <2>4. \A m \in Nat \ {0} : \A l : l = (IF 1 <= m - 1 THEN m - 1 - 1 + 1 ELSE 0) => l = m - 1
    OBVIOUS
  <2>5. QED BY <1>7, <2>3, <2>4, Zenon
<1>9. QED BY <1>1, <1>4, <1>6, <1>7, <1>8 DEF PoolFits

LEMMA PoolGives ==
    ASSUME ResolverSizes, PoolFits, registrations \in Seq(BOOLEAN), NEW e \in BOOLEAN,
           NEW k \in RS!Keys, nodes[k] # None, nodes'[k] = None,
           \A j \in RS!Keys \ {k} : nodes'[j] = nodes[j],
           registrations' = Append(registrations, e)
    PROVE  PoolFits' /\ registrations' \in Seq(BOOLEAN)
<1>1. RS!Free' = RS!Free \cup {k} /\ k \notin RS!Free /\ RS!Free \subseteq 1..QueriesMax
  BY DEF RS!Free, RS!Keys
<1>2. IsFiniteSet(1..QueriesMax)
  BY FS_Interval DEF ResolverSizes
<1>3. IsFiniteSet(RS!Free)
  BY <1>1, <1>2, FS_Subset
<1>4. Cardinality(RS!Free \cup {k}) = Cardinality(RS!Free) + 1
  BY <1>1, <1>3, FS_AddElement
<1>5. QED BY <1>1, <1>4 DEF PoolFits

\* Queries::add for a host that can be looked up.
LEMMA AddedStep ==
    ASSUME ResolverSizes, ResolverInv, NEW c \in Clients, NEW host \in Hosts, NEW k \in RS!Free,
           NEW q \in Query, NEW n \in Slot, ~RS!Live(c),
           registrations' = SubSeq(registrations, 1, Len(registrations) - 1),
           nodes' = [nodes EXCEPT ![k] = n], query' = [query EXCEPT ![c] = q],
           q.st = "new", q.host = host, q.key = k, n.flag = None,
           UNCHANGED <<stop, invalidated, tkey, thost>>,
           \/ /\ host # TooLong /\ n.host = host /\ n.result = None
              /\ next' = Append(next, k) /\ RS!Notify
           \/ /\ host = TooLong /\ n.host = None /\ n.result = RS!Failed
              /\ UNCHANGED <<next, tpc>>
    PROVE  ResolverInv'
<1>1. k \in RS!Keys /\ nodes[k] = None /\ n # None
  BY DEF RS!Free, ResolverSizes
<1>2. /\ query' \in [Clients -> Query] /\ query'[c] = q
      /\ \A d \in Clients \ {c} : query'[d] = query[d]
  BY DEF ResolverInv, ResolverTyped
<1>3. /\ nodes' \in [RS!Keys -> Slot \cup {None}] /\ nodes'[k] = n
      /\ \A j \in RS!Keys \ {k} : nodes'[j] = nodes[j]
  BY <1>1 DEF ResolverInv, ResolverTyped
<1>4. \A d \in Clients : RS!Live(d) => query[d].key \in RS!Keys \ {k} /\ nodes[query[d].key] # None
  BY <1>1 DEF ResolverInv, QuerySound
<1>5. k \notin Elements(next)
  BY <1>1 DEF ResolverInv, SlotSound
<1>6. /\ next' \in Seq(RS!Keys) /\ Once(next')
      /\ Elements(next') = IF host = TooLong THEN Elements(next) ELSE Elements(next) \cup {k}
  <2>1. next \in Seq(RS!Keys) /\ Once(next)
    BY DEF ResolverInv, ResolverTyped
  <2>2. /\ Append(next, k) \in Seq(RS!Keys) /\ Once(Append(next, k))
        /\ Elements(Append(next, k)) = Elements(next) \cup {k}
    BY <1>1, <1>5, <2>1, AppendElements
  <2>3. CASE host # TooLong /\ next' = Append(next, k)
    BY <2>2, <2>3
  <2>4. CASE host = TooLong /\ next' = next
    BY <2>1, <2>4
  <2>5. QED BY <2>3, <2>4
<1>7. /\ tpc' \in [Threads -> {"idle", "wait", "resolve", "ended"}]
      /\ \A t \in Threads : tpc'[t] = tpc[t] \/ (tpc[t] = "wait" /\ tpc'[t] = "idle")
  BY DEF RS!Notify, ResolverInv, ResolverTyped
<1>8. PoolFits' /\ registrations' \in Seq(BOOLEAN)
  BY <1>1, <1>3, PoolTakes DEF ResolverInv, ResolverTyped
<1>9. ResolverTyped'
  BY <1>2, <1>3, <1>6, <1>7, <1>8 DEF ResolverInv, ResolverTyped
<1>10. SlotsApart'
  <2> SUFFICES ASSUME NEW d \in Clients, NEW e \in Clients, RS!Live(d)', RS!Live(e)',
                      query'[d].key = query'[e].key
               PROVE  d = e
    BY DEF SlotsApart
  <2>1. \A x \in Clients \ {c} : RS!Live(x)' => RS!Live(x) /\ query'[x].key # k
    BY <1>2, <1>4 DEF RS!Live
  <2>2. CASE d = c \/ e = c
    BY <1>2, <2>1, <2>2
  <2>3. CASE d # c /\ e # c
    BY <1>2, <2>1, <2>3 DEF ResolverInv, SlotsApart
  <2>4. QED BY <2>2, <2>3
<1>11. Awake'
  <2>1. CASE RS!Notify
    <3>1. CASE {t \in Threads : tpc[t] = "wait"} = {} /\ UNCHANGED tpc
      BY <3>1 DEF Awake, ResolverSizes
    <3>2. ASSUME NEW t \in Threads, tpc' = [tpc EXCEPT ![t] = "idle"] PROVE Awake'
      <4>1. tpc'[t] = "idle"
        BY <3>2 DEF ResolverInv, ResolverTyped
      <4>2. QED BY <4>1 DEF Awake
    <3>3. QED BY <2>1, <3>1, <3>2 DEF RS!Notify
  <2>2. CASE UNCHANGED <<next, tpc>>
    BY <2>2 DEF ResolverInv, Awake
  <2>3. QED BY <2>1, <2>2
<1>12. QuerySound(c)'
  <2>1. Expected(c)' = (IF host = TooLong THEN RS!Failed ELSE host) /\ query'[c].key = k
    BY <1>2 DEF Expected
  <2>2. k \in Elements(next') \/ n.result # None
    BY <1>6 DEF ResolverSizes
  <2>3. n.host = IF host = TooLong THEN None ELSE host
    OBVIOUS
  <2>4. n.result # None => n.result = IF host = TooLong THEN RS!Failed ELSE host
    OBVIOUS
  <2>5. QED BY <1>1, <1>2, <1>3, <2>1, <2>2, <2>3, <2>4 DEF QuerySound
<1>13. ASSUME NEW d \in Clients, d # c PROVE QuerySound(d)'
  <2>1. QuerySound(d) /\ query'[d] = query[d]
    BY <1>2, <1>13 DEF ResolverInv
  <2>2. RS!Live(d) => nodes'[query[d].key] = nodes[query[d].key] /\ nodes[query[d].key] # None
    BY <1>3, <1>4
  <2>3. QED BY <1>6, <2>1, <2>2, QueryKeeps
<1>14. ASSUME NEW j \in RS!Keys PROVE SlotSound(j)'
  <2>1. SlotSound(j) /\ (nodes[j] # None => nodes[j] \in Slot)
    BY DEF ResolverInv, ResolverTyped
  <2>2. CASE j # k
    <3>1. nodes[j] # None /\ nodes[j].flag # None => LET t == nodes[j].flag IN tpc'[t] = tpc[t]
      BY <1>7, <2>1 DEF SlotSound, Slot
    <3>2. QED BY <1>3, <1>6, <2>1, <2>2, <3>1, SlotKeeps
  <2>3. CASE j = k
    BY <1>1, <1>3, <1>5, <1>6, <2>3 DEF SlotSound
  <2>4. QED BY <2>2, <2>3
<1>15. ASSUME NEW t \in Threads PROVE ThreadSound(t)'
  <2>1. ThreadSound(t) /\ (tpc'[t] = "resolve" => tpc[t] = "resolve")
    BY <1>7 DEF ResolverInv
  <2>2. QED BY <1>1, <1>3, <2>1 DEF ThreadSound
<1>16. QED BY <1>8, <1>9, <1>10, <1>11, <1>12, <1>13, <1>14, <1>15 DEF ResolverInv

LEMMA ResolveStep ==
    ASSUME ResolverSizes, ResolverInv, NEW c \in Clients, NEW host \in Hosts, RS!Resolve(c, host)
    PROVE  ResolverInv'
<1>1. query[c].st = "none" /\ ~RS!Live(c) /\ UNCHANGED <<stop, invalidated, tkey, thost>>
  BY DEF RS!Resolve, RS!Live
<1>2. ASSUME query' = [query EXCEPT ![c] = [RS!Fresh EXCEPT !.st = "refused"]],
             UNCHANGED <<nodes, next, registrations, tpc>>
      PROVE  ResolverInv'
  <2> DEFINE q == [RS!Fresh EXCEPT !.st = "refused"]
  <2>1. q \in Query /\ q.st = "refused"
    BY DEF RS!Fresh, Query, QueryStates, Answers
  <2> HIDE DEF q
  <2>2. query' = [query EXCEPT ![c] = q]
    BY <1>2 DEF q
  <2>3. query'[c] = q
    BY <2>2 DEF ResolverInv, ResolverTyped
  <2>4. QuerySound(c)'
    BY <2>1, <2>3 DEF QuerySound, RS!Live
  <2>5. QED BY <1>1, <1>2, <2>1, <2>2, <2>4, QueryChange
<1>3. ASSUME NEW k \in RS!Free, NEW q, q = [RS!Fresh EXCEPT !.st = "new", !.host = host, !.key = k,
                                                !.early = registrations[Len(registrations)]],
             registrations' = SubSeq(registrations, 1, Len(registrations) - 1),
             \/ /\ host # TooLong
                /\ nodes' = [nodes EXCEPT ![k] = [host |-> host, result |-> None, flag |-> None]]
                /\ next' = Append(next, k)
                /\ query' = [query EXCEPT ![c] = q]
                /\ RS!Notify
             \/ /\ host = TooLong
                /\ nodes' = [nodes EXCEPT ![k] = [host |-> None, result |-> RS!Failed, flag |-> None]]
                /\ query' = [query EXCEPT ![c] = RS!SetReadiness(q)]
                /\ UNCHANGED <<next, tpc>>
      PROVE  ResolverInv'
  <2>1. k \in RS!Keys /\ k \in Nat /\ nodes[k] = None
    BY DEF RS!Free, RS!Keys
  <2>2. PICK n \in Slot : /\ nodes' = [nodes EXCEPT ![k] = n] /\ n.flag = None
                          /\ host # TooLong => n.host = host /\ n.result = None
                          /\ host = TooLong => n.host = None /\ n.result = RS!Failed
    <3>1. [host |-> host, result |-> None, flag |-> None] \in Slot
      BY DEF Slot, Answers
    <3>2. [host |-> None, result |-> RS!Failed, flag |-> None] \in Slot
      BY DEF Slot, Answers
    <3>3. CASE host # TooLong
      BY <1>3, <3>1, <3>3
    <3>4. CASE host = TooLong
      BY <1>3, <3>2, <3>4
    <3>5. QED BY <3>3, <3>4
  <2>3. registrations[Len(registrations)] \in BOOLEAN
    <3>1. n # None /\ nodes'[k] = n /\ \A j \in RS!Keys \ {k} : nodes'[j] = nodes[j]
      BY <2>1, <2>2 DEF ResolverInv, ResolverTyped, ResolverSizes
    <3>2. QED BY <1>3, <2>1, <3>1, PoolTakes DEF ResolverInv, ResolverTyped
  <2>4. q \in Query /\ q.st = "new" /\ q.host = host /\ q.key = k /\ ~q.evented
    BY <1>3, <2>1, <2>3 DEF RS!Fresh, Query, QueryStates, Answers
  <2>5. PICK r \in Query : query' = [query EXCEPT ![c] = r] /\ r.st = "new" /\ r.host = host /\ r.key = k
    <3> DEFINE r == [q EXCEPT !.early = TRUE]
    <3>1. r \in Query /\ r.st = "new" /\ r.host = host /\ r.key = k
      BY <2>4 DEF Query
    <3>2. RS!SetReadiness(q) = r
      BY <2>4 DEF RS!SetReadiness
    <3> HIDE DEF r
    <3>3. QED BY <1>3, <2>4, <3>1, <3>2
  <2>6. QED BY <1>1, <1>3, <2>2, <2>5, AddedStep
<1>4. QED BY <1>2, <1>3 DEF RS!Resolve

LEMMA RemoveStep ==
    ASSUME ResolverSizes, ResolverInv, NEW c \in Clients, RS!RemoveQuery(c)
    PROVE  ResolverInv'
<1> DEFINE k == query[c].key
<1>1. /\ RS!Live(c) /\ QuerySound(c) /\ query[c] \in Query /\ next \in Seq(RS!Keys) /\ Once(next)
      /\ UNCHANGED <<stop, tpc, tkey, thost>>
      /\ registrations' = Append(registrations, query[c].early) /\ query' = [query EXCEPT ![c] = RS!Fresh]
  BY DEF RS!RemoveQuery, RS!Live, RS!threads, RS!Set, ResolverInv, ResolverTyped
<1>2. k \in RS!Keys /\ nodes[k] # None /\ query[c].early \in BOOLEAN
  BY <1>1 DEF QuerySound, Query
<1>3. /\ nodes' = [nodes EXCEPT ![k] = None]
      /\ invalidated' = [t \in Threads |-> invalidated[t] \/ nodes[k].flag = t]
      /\ next' = RemoveFirst(next, k)
  BY SameRemove DEF RS!RemoveQuery
<1>4. /\ next' \in Seq(RS!Keys) /\ Once(next')
      /\ \A j : j \in Elements(next') <=> j \in Elements(next) /\ j # k
  BY <1>1, <1>3, RemoveFirstSeq
<1>5. /\ nodes' \in [RS!Keys -> Slot \cup {None}] /\ nodes'[k] = None
      /\ \A j \in RS!Keys \ {k} : nodes'[j] = nodes[j]
  BY <1>2, <1>3 DEF ResolverInv, ResolverTyped
<1>6. RS!Fresh \in Query /\ RS!Fresh.st = "none"
  BY DEF RS!Fresh, Query, QueryStates, Answers
<1>7. /\ query' \in [Clients -> Query] /\ query'[c] = RS!Fresh /\ ~RS!Live(c)'
      /\ \A d \in Clients \ {c} : query'[d] = query[d]
  BY <1>1, <1>6 DEF ResolverInv, ResolverTyped, RS!Live
<1>8. PoolFits' /\ registrations' \in Seq(BOOLEAN)
  BY <1>1, <1>2, <1>5, PoolGives DEF ResolverInv, ResolverTyped
<1>9. invalidated' \in [Threads -> BOOLEAN]
  BY <1>3
<1>10. ResolverTyped'
  BY <1>1, <1>4, <1>5, <1>7, <1>8, <1>9 DEF ResolverInv, ResolverTyped
<1>11. SlotsApart'
  BY <1>7 DEF ResolverInv, SlotsApart, RS!Live
<1>12. Awake'
  <2>1. next' # <<>> => next # <<>>
    <3>1. next = <<>> => Elements(next) = {}
      BY EmptyElements
    <3>2. next' # <<>> => Elements(next') # {}
      BY <1>4 DEF Elements
    <3>3. QED BY <1>4, <3>1, <3>2
  <2>2. QED BY <1>1, <2>1 DEF ResolverInv, Awake
<1>13. ASSUME NEW d \in Clients PROVE QuerySound(d)'
  <2>1. CASE d = c
    BY <1>7, <2>1 DEF QuerySound
  <2>2. CASE d # c
    <3>1. QuerySound(d) /\ query'[d] = query[d]
      BY <1>7, <2>2 DEF ResolverInv
    <3>2. RS!Live(d) => query[d].key # k
      BY <1>1, <2>2 DEF ResolverInv, SlotsApart
    <3>3. RS!Live(d) =>
              /\ nodes'[query[d].key] = nodes[query[d].key] /\ nodes[query[d].key] # None
              /\ query[d].key \in Elements(next) => query[d].key \in Elements(next')
      BY <1>4, <1>5, <3>1, <3>2 DEF QuerySound
    <3>4. QED BY <3>1, <3>3, QueryKeeps
  <2>3. QED BY <2>1, <2>2
<1>14. ASSUME NEW j \in RS!Keys PROVE SlotSound(j)'
  <2>1. SlotSound(j) /\ SlotSound(k) /\ (nodes[j] # None => nodes[j] \in Slot)
    BY <1>2 DEF ResolverInv, ResolverTyped
  <2>2. CASE j = k
    BY <1>4, <1>5, <2>2 DEF SlotSound
  <2>3. CASE j # k
    <3>1. ASSUME nodes[j] # None, nodes[j].flag # None
          PROVE  invalidated'[nodes[j].flag] = invalidated[nodes[j].flag]
      <4>1. nodes[j].flag \in Threads
        BY <2>1, <3>1 DEF Slot
      <4>2. nodes[k].flag # nodes[j].flag
        BY <1>2, <2>1, <2>3, <3>1 DEF SlotSound
      <4>3. nodes[j].flag # nodes[k].flag /\ invalidated[nodes[j].flag] \in BOOLEAN
        BY <4>1, <4>2 DEF ResolverInv, ResolverTyped
      <4>4. QED BY <1>3, <4>1, <4>3
    <3>2. QED BY <1>1, <1>4, <1>5, <2>1, <2>3, <3>1, SlotKeeps
  <2>4. QED BY <2>2, <2>3
<1>15. ASSUME NEW t \in Threads PROVE ThreadSound(t)'
  <2>1. ThreadSound(t)
    BY DEF ResolverInv
  <2>2. (~invalidated'[t] => ~invalidated[t] /\ nodes[k].flag # t) /\ (invalidated[t] => invalidated'[t])
    BY <1>3
  <2>3. tpc[t] = "resolve" /\ ~invalidated[t] /\ ~invalidated'[t] => nodes'[tkey[t]] = nodes[tkey[t]]
    BY <1>5, <2>1, <2>2 DEF ThreadSound
  <2>4. QED BY <1>1, <2>1, <2>2, <2>3, ThreadKeeps DEF ThreadSound
<1>16. QED BY <1>8, <1>10, <1>11, <1>12, <1>13, <1>14, <1>15 DEF ResolverInv

\* A step of the threads that takes and gives nothing.
LEMMA ThreadMoves ==
    ASSUME ResolverInv, tpc' \in [Threads -> {"idle", "wait", "resolve", "ended"}], stop' \in BOOLEAN,
           UNCHANGED <<nodes, next, registrations, invalidated, tkey, thost, query>>,
           \A t \in Threads : tpc'[t] = "resolve" <=> tpc[t] = "resolve", Awake'
    PROVE  ResolverInv'
<1>1. ResolverTyped'
  BY DEF ResolverInv, ResolverTyped, Once
<1>2. SlotsApart' /\ PoolFits'
  BY PoolKeeps DEF ResolverInv, SlotsApart, RS!Live
<1>3. ASSUME NEW d \in Clients PROVE QuerySound(d)'
  BY DEF ResolverInv, QuerySound, RS!Live, Expected
<1>4. ASSUME NEW j \in RS!Keys PROVE SlotSound(j)'
  <2>1. SlotSound(j) /\ (nodes[j] # None => nodes[j] \in Slot)
    BY DEF ResolverInv, ResolverTyped
  <2>2. QED BY <2>1 DEF SlotSound, Slot
<1>5. ASSUME NEW t \in Threads PROVE ThreadSound(t)'
  BY DEF ResolverInv, ThreadSound
<1>6. QED BY <1>1, <1>2, <1>3, <1>4, <1>5 DEF ResolverInv

LEMMA ResolverStopStep ==
    ASSUME ResolverInv, RS!Stop
    PROVE  ResolverInv'
<1>1. /\ stop' = TRUE /\ UNCHANGED <<nodes, next, registrations, invalidated, tkey, thost, query>>
      /\ tpc' = [t \in Threads |-> IF tpc[t] = "wait" THEN "idle" ELSE tpc[t]]
  BY DEF RS!Stop
<1>2. tpc \in [Threads -> {"idle", "wait", "resolve", "ended"}]
  BY DEF ResolverInv, ResolverTyped
<1>3. tpc' \in [Threads -> {"idle", "wait", "resolve", "ended"}]
      /\ \A t \in Threads : tpc'[t] = "resolve" <=> tpc[t] = "resolve"
  BY <1>1, <1>2
<1>4. Awake'
  BY <1>1 DEF Awake
<1>5. QED BY <1>1, <1>3, <1>4, ThreadMoves

LEMMA GetNextStep ==
    ASSUME ResolverSizes, ResolverInv, NEW t \in Threads, RS!GetNext(t)
    PROVE  ResolverInv'
<1>1. /\ tpc[t] = "idle" /\ UNCHANGED <<stop, registrations, query>> /\ stop \in BOOLEAN
      /\ tpc \in [Threads -> {"idle", "wait", "resolve", "ended"}]
  BY DEF RS!GetNext, ResolverInv, ResolverTyped
<1>2. ASSUME NEW p \in {"ended", "wait"}, tpc' = [tpc EXCEPT ![t] = p],
             stop \/ next = <<>>, UNCHANGED <<nodes, next, invalidated, tkey, thost>>
      PROVE  ResolverInv'
  <2>1. /\ tpc' \in [Threads -> {"idle", "wait", "resolve", "ended"}]
        /\ \A x \in Threads : tpc'[x] = "resolve" <=> tpc[x] = "resolve"
    BY <1>1, <1>2
  <2>2. Awake'
    BY <1>1, <1>2 DEF Awake
  <2>3. QED BY <1>1, <1>2, <2>1, <2>2, ThreadMoves
<1>3. ASSUME next # <<>>, NEW k, k = Head(next), next' = Tail(next),
             nodes' = [nodes EXCEPT ![k].flag = t], invalidated' = [invalidated EXCEPT ![t] = FALSE],
             tkey' = [tkey EXCEPT ![t] = k], thost' = [thost EXCEPT ![t] = nodes[k].host],
             tpc' = [tpc EXCEPT ![t] = "resolve"]
      PROVE  ResolverInv'
  <2>1. next \in Seq(RS!Keys) /\ Once(next)
    BY DEF ResolverInv, ResolverTyped
  <2>2. /\ next' \in Seq(RS!Keys) /\ Once(next') /\ k \in RS!Keys /\ k \in Elements(next)
        /\ k \notin Elements(next') /\ Elements(next) = Elements(next') \cup {k}
    BY <1>3, <2>1, TailElements
  <2>3. SlotSound(k) /\ nodes[k] # None /\ nodes[k] \in Slot /\ nodes[k].host \in Hosts /\ k \in Nat
    <3>1. SlotSound(k) /\ nodes[k] \in Slot \cup {None}
      BY <2>2 DEF ResolverInv, ResolverTyped
    <3>2. k \in Nat
      BY <2>2 DEF RS!Keys
    <3>3. nodes[k] # None /\ nodes[k].host \in Hosts
      BY <2>2, <3>1 DEF SlotSound
    <3>4. QED BY <3>1, <3>2, <3>3
  <2> DEFINE n == [nodes[k] EXCEPT !.flag = t]
  <2>4. n \in Slot /\ n.flag = t /\ n.host = nodes[k].host /\ n.result = nodes[k].result
    BY <2>3 DEF Slot
  <2>5. nodes' = [nodes EXCEPT ![k] = n]
    BY <1>3
  <2> HIDE DEF n
  <2>6. /\ nodes' \in [RS!Keys -> Slot \cup {None}] /\ nodes'[k] = n /\ n # None
        /\ \A j \in RS!Keys \ {k} : nodes'[j] = nodes[j]
    BY <2>2, <2>4, <2>5 DEF ResolverInv, ResolverTyped, ResolverSizes
  <2>7. /\ tpc' \in [Threads -> {"idle", "wait", "resolve", "ended"}] /\ tpc'[t] = "resolve"
        /\ invalidated' \in [Threads -> BOOLEAN] /\ ~invalidated'[t]
        /\ tkey' \in [Threads -> Nat] /\ tkey'[t] = k
        /\ thost' \in [Threads -> Hosts \cup {None}] /\ thost'[t] = nodes[k].host
        /\ \A x \in Threads \ {t} : /\ tpc'[x] = tpc[x] /\ invalidated'[x] = invalidated[x]
                                    /\ tkey'[x] = tkey[x] /\ thost'[x] = thost[x]
    BY <1>1, <1>3, <2>3 DEF ResolverInv, ResolverTyped
  <2>8. ResolverTyped'
    BY <1>1, <2>2, <2>6, <2>7 DEF ResolverInv, ResolverTyped
  <2>9. SlotsApart' /\ PoolFits'
    BY <1>1, <2>3, <2>6, PoolKeeps DEF ResolverInv, SlotsApart, RS!Live
  <2>10. Awake'
    BY <2>7 DEF Awake
  <2>11. ASSUME NEW d \in Clients PROVE QuerySound(d)'
    <3>1. QuerySound(d) /\ query'[d] = query[d]
      BY <1>1 DEF ResolverInv
    <3>2. CASE query[d].key = k
      <4>1. nodes'[k].flag # None
        BY <2>4, <2>6 DEF ResolverSizes
      <4>2. QED BY <2>4, <2>6, <3>1, <3>2, <4>1, QueryKeeps
    <3>3. CASE query[d].key # k
      <4>1. RS!Live(d) => nodes'[query[d].key] = nodes[query[d].key] /\ nodes[query[d].key] # None
        BY <2>6, <3>1, <3>3 DEF QuerySound
      <4>2. QED BY <2>2, <3>1, <3>3, <4>1, QueryKeeps
    <3>4. QED BY <3>2, <3>3
  <2>12. ASSUME NEW j \in RS!Keys PROVE SlotSound(j)'
    <3>1. SlotSound(j) /\ (nodes[j] # None => nodes[j] \in Slot)
      BY DEF ResolverInv, ResolverTyped
    <3>2. CASE j = k
      BY <2>2, <2>4, <2>6, <2>7, <3>2 DEF SlotSound
    <3>3. CASE j # k
      <4>1. nodes[j] # None /\ nodes[j].flag # None => nodes[j].flag \in Threads \ {t}
        BY <1>1, <3>1 DEF SlotSound, Slot
      <4>2. QED BY <2>2, <2>6, <2>7, <3>1, <3>3, <4>1, SlotKeeps
    <3>4. QED BY <3>2, <3>3
  <2>13. ASSUME NEW x \in Threads PROVE ThreadSound(x)'
    <3>1. ThreadSound(x)
      BY DEF ResolverInv
    <3>2. CASE x = t
      BY <2>2, <2>3, <2>4, <2>6, <2>7, <3>2 DEF ThreadSound
    <3>3. CASE x # t
      <4>1. tpc[x] = "resolve" /\ ~invalidated[x] => tkey[x] # k
        BY <2>2, <2>3, <3>1 DEF ThreadSound, SlotSound, ResolverSizes
      <4>2. QED BY <2>6, <2>7, <3>1, <3>3, <4>1 DEF ThreadSound
    <3>4. QED BY <3>2, <3>3
  <2>14. QED BY <2>8, <2>9, <2>10, <2>11, <2>12, <2>13 DEF ResolverInv
<1>4. QED BY <1>2, <1>3 DEF RS!GetNext

LEMMA SetResultStep ==
    ASSUME ResolverSizes, ResolverInv, NEW t \in Threads, RS!SetResult(t)
    PROVE  ResolverInv'
<1> DEFINE k == tkey[t]
<1>1. /\ tpc[t] = "resolve" /\ UNCHANGED <<stop, next, registrations, invalidated>>
      /\ tpc' = [tpc EXCEPT ![t] = "idle"]
      /\ tkey' = [tkey EXCEPT ![t] = 0] /\ thost' = [thost EXCEPT ![t] = None]
  BY DEF RS!SetResult
<1>2. /\ tpc' \in [Threads -> {"idle", "wait", "resolve", "ended"}] /\ tpc'[t] = "idle"
      /\ tkey' \in [Threads -> Nat] /\ thost' \in [Threads -> Hosts \cup {None}]
      /\ \A x \in Threads \ {t} : tpc'[x] = tpc[x] /\ tkey'[x] = tkey[x] /\ thost'[x] = thost[x]
  BY <1>1 DEF ResolverInv, ResolverTyped
<1>3. ThreadSound(t)
  BY DEF ResolverInv
<1>4. Awake'
  BY <1>2 DEF Awake
<1>5. ASSUME ~invalidated[t], nodes[k] # None,
             nodes' = [nodes EXCEPT ![k].result = thost[t], ![k].flag = None],
             query' = [c \in Clients |-> IF RS!Live(c) /\ query[c].key = k
                                         THEN RS!SetReadiness(query[c]) ELSE query[c]]
      PROVE  ResolverInv'
  <2>1. /\ k \in RS!Keys /\ nodes[k].flag = t /\ nodes[k].host = thost[t] /\ thost[t] \in Hosts
        /\ nodes[k] \in Slot
    BY <1>1, <1>3, <1>5 DEF ThreadSound, ResolverInv, ResolverTyped
  <2> DEFINE n == [nodes[k] EXCEPT !.result = thost[t], !.flag = None]
  <2>2. n \in Slot /\ n.host = nodes[k].host /\ n.result = thost[t] /\ n.flag = None
    BY <2>1 DEF Slot, Answers
  <2>3. nodes' = [nodes EXCEPT ![k] = n]
    BY <1>5, <2>1 DEF ResolverInv, ResolverTyped, Slot
  <2> HIDE DEF n
  <2>4. /\ nodes' \in [RS!Keys -> Slot \cup {None}] /\ nodes'[k] = n /\ n # None
        /\ \A j \in RS!Keys \ {k} : nodes'[j] = nodes[j]
    BY <2>1, <2>2, <2>3 DEF ResolverInv, ResolverTyped, ResolverSizes
  <2>5. ASSUME NEW q \in Query
        PROVE  /\ RS!SetReadiness(q) \in Query /\ RS!SetReadiness(q).st = q.st
               /\ RS!SetReadiness(q).key = q.key /\ RS!SetReadiness(q).host = q.host
               /\ RS!SetReadiness(q).evented = q.evented /\ RS!SetReadiness(q).answer = q.answer
               /\ q.evented => RS!SetReadiness(q).event
    BY DEF RS!SetReadiness, Query
  <2>6. \A c \in Clients : query[c] \in Query
    BY DEF ResolverInv, ResolverTyped
  <2>7. \A c \in Clients :
          /\ query'[c] \in Query /\ query'[c].st = query[c].st /\ query'[c].key = query[c].key
          /\ query'[c].host = query[c].host /\ query'[c].evented = query[c].evented
          /\ query'[c].answer = query[c].answer
          /\ RS!Live(c)' <=> RS!Live(c)
          /\ RS!Live(c) /\ query[c].key = k /\ query[c].evented => query'[c].event
          /\ RS!Live(c) /\ query[c].key # k => query'[c].event = query[c].event
    BY <1>5, <2>5, <2>6 DEF RS!Live
  <2>8. query' \in [Clients -> Query]
    BY <1>5, <2>5, <2>6
  <2>9. ResolverTyped'
    BY <1>1, <1>2, <2>4, <2>8 DEF ResolverInv, ResolverTyped, Once
  <2>10. SlotsApart'
    BY <2>7 DEF ResolverInv, SlotsApart
  <2>11. PoolFits'
    BY <1>1, <1>5, <2>1, <2>4, PoolKeeps DEF ResolverInv
  <2>12. ASSUME NEW c \in Clients PROVE QuerySound(c)'
    <3>1. QuerySound(c) /\ Expected(c)' = Expected(c)
      BY <2>7 DEF ResolverInv, Expected
    <3>2. CASE query[c].key = k
      <4>1. RS!Live(c) => query[c].host # TooLong /\ Expected(c) = thost[t]
        BY <2>1, <3>1, <3>2 DEF QuerySound, Expected, ResolverSizes
      <4>2. thost[t] # None
        BY <2>1 DEF ResolverSizes
      <4>3. QED BY <2>2, <2>4, <2>7, <3>1, <3>2, <4>1, <4>2 DEF QuerySound
    <3>3. CASE query[c].key # k
      <4>1. RS!Live(c) => nodes'[query[c].key] = nodes[query[c].key]
        BY <2>4, <3>1, <3>3 DEF QuerySound
      <4>2. QED BY <1>1, <2>7, <3>1, <3>3, <4>1 DEF QuerySound
    <3>4. QED BY <3>2, <3>3
  <2>13. ASSUME NEW j \in RS!Keys PROVE SlotSound(j)'
    <3>1. SlotSound(j) /\ (nodes[j] # None => nodes[j] \in Slot)
      BY DEF ResolverInv, ResolverTyped
    <3>2. CASE j = k
      <4>1. k \notin Elements(next)
        BY <2>1, <3>1, <3>2 DEF SlotSound, ResolverSizes
      <4>2. QED BY <1>1, <2>2, <2>4, <3>2, <4>1 DEF SlotSound
    <3>3. CASE j # k
      <4>1. nodes[j] # None /\ nodes[j].flag # None => nodes[j].flag \in Threads \ {t}
        BY <3>1, <3>3 DEF SlotSound, Slot
      <4>2. QED BY <1>1, <1>2, <2>4, <3>1, <3>3, <4>1, SlotKeeps
    <3>4. QED BY <3>2, <3>3
  <2>14. ASSUME NEW x \in Threads PROVE ThreadSound(x)'
    <3>1. ThreadSound(x)
      BY DEF ResolverInv
    <3>2. CASE x = t
      BY <1>2, <3>2 DEF ThreadSound
    <3>3. CASE x # t
      <4>1. tpc[x] = "resolve" /\ ~invalidated[x] => tkey[x] # k
        BY <2>1, <3>1, <3>3 DEF ThreadSound
      <4>2. QED BY <1>1, <1>2, <2>4, <3>1, <3>3, <4>1 DEF ThreadSound
    <3>4. QED BY <3>2, <3>3
  <2>15. QED BY <1>4, <2>9, <2>10, <2>11, <2>12, <2>13, <2>14 DEF ResolverInv
<1>6. ASSUME invalidated[t] \/ nodes[k] = None, UNCHANGED <<nodes, query>>
      PROVE  ResolverInv'
  <2>1. invalidated[t]
    BY <1>1, <1>3, <1>6 DEF ThreadSound
  <2>2. ResolverTyped'
    BY <1>1, <1>2, <1>6 DEF ResolverInv, ResolverTyped, Once
  <2>3. SlotsApart' /\ PoolFits'
    BY <1>1, <1>6, PoolKeeps DEF ResolverInv, SlotsApart, RS!Live
  <2>4. ASSUME NEW c \in Clients PROVE QuerySound(c)'
    BY <1>1, <1>6 DEF ResolverInv, QuerySound, RS!Live, Expected
  <2>5. ASSUME NEW j \in RS!Keys PROVE SlotSound(j)'
    <3>1. SlotSound(j) /\ (nodes[j] # None => nodes[j] \in Slot)
      BY DEF ResolverInv, ResolverTyped
    <3>2. nodes[j] # None /\ nodes[j].flag # None => nodes[j].flag \in Threads \ {t}
      BY <2>1, <3>1 DEF SlotSound, Slot
    <3>3. QED BY <1>1, <1>2, <1>6, <3>1, <3>2, SlotKeeps
  <2>6. ASSUME NEW x \in Threads PROVE ThreadSound(x)'
    <3>1. ThreadSound(x)
      BY DEF ResolverInv
    <3>2. QED BY <1>1, <1>2, <1>6, <3>1 DEF ThreadSound
  <2>7. QED BY <1>4, <2>2, <2>3, <2>4, <2>5, <2>6 DEF ResolverInv
<1>7. QED BY <1>5, <1>6 DEF RS!SetResult

\* Whichever slots, registrations and threads the queries take over from each
\* other, and whenever they are dropped, the flags, the queue and the slots
\* of the resolver agree.
THEOREM ResolverInvariance ==
    ASSUME ResolverSizes
    PROVE  RS!Spec => []ResolverInv
<1>1. ASSUME ResolverInv, UNCHANGED RS!vars PROVE ResolverInv'
  <2>1. UNCHANGED <<stop, nodes, next, registrations, invalidated, tpc, tkey, thost, query>>
    BY <1>1 DEF RS!vars
  <2>2. stop' \in BOOLEAN /\ tpc' \in [Threads -> {"idle", "wait", "resolve", "ended"}]
    BY <1>1, <2>1 DEF ResolverInv, ResolverTyped
  <2>3. Awake'
    BY <1>1, <2>1 DEF ResolverInv, Awake
  <2>4. QED BY <1>1, <2>1, <2>2, <2>3, ThreadMoves
<1>2. ResolverInv /\ RS!Next => ResolverInv'
  BY ResolveStep, RegisterStep, ProcessStep, RemoveStep, ResolverStopStep, GetNextStep, SetResultStep DEF RS!Next
<1>3. QED BY <1>1, <1>2, ResolverInit, PTL DEF RS!Spec

LEMMA ResolverAnswers ==
    ASSUME ResolverSizes
    PROVE  RS!Spec => []RS!QueriesAnswered
<1>1. ASSUME ResolverInv PROVE RS!AnswersOwnQuery
  <2>1. SUFFICES ASSUME NEW c \in Clients, query[c].st = "done"
                 PROVE  query[c].answer = (IF query[c].host = TooLong THEN RS!Failed ELSE query[c].host)
    BY DEF RS!AnswersOwnQuery
  <2>2. QED BY <1>1, <2>1 DEF ResolverInv, QuerySound, Expected, RS!Live
<1>2. ASSUME ResolverInv PROVE RS!ResolverSound
  <2>1. ASSUME NEW t \in Threads, tpc[t] = "idle", NEW k \in RS!Keys, nodes[k] # None PROVE nodes[k].flag # t
    <3>1. SlotSound(k) /\ t # None
      BY <1>2 DEF ResolverInv, ResolverSizes
    <3>2. QED BY <2>1, <3>1 DEF SlotSound, ResolverSizes
  <2>2. ASSUME NEW t \in Threads, tpc[t] = "resolve", ~invalidated[t] PROVE nodes[tkey[t]] # None
    BY <1>2, <2>2 DEF ResolverInv, ThreadSound
  <2>3. Len(registrations) = RS!Cardinality(RS!Free)
    BY <1>2, SameCount DEF ResolverInv, PoolFits
  <2>4. QED BY <2>1, <2>2, <2>3 DEF RS!ResolverSound
<1>3. ASSUME ResolverInv PROVE RS!NoQueryLost
  <2>1. next # <<>> /\ ~stop => \E t \in Threads : tpc[t] # "wait"
    BY <1>3 DEF ResolverInv, Awake
  <2>2. ASSUME NEW c \in Clients, query[c].st = "pending"
        PROVE  LET k == query[c].key
               IN  IF nodes[k].result # None THEN query[c].event
                   ELSE \/ \E i \in DOMAIN next : next[i] = k
                        \/ \E t \in Threads : tpc[t] = "resolve" /\ tkey[t] = k /\ ~invalidated[t]
    <3> DEFINE k == query[c].key
    <3>1. /\ k \in RS!Keys /\ nodes[k] # None /\ SlotSound(k)
          /\ nodes[k].result # None => query[c].event
          /\ nodes[k].result = None => k \in Elements(next) \/ nodes[k].flag # None
      BY <1>3, <2>2 DEF ResolverInv, QuerySound, RS!Live
    <3>2. nodes[k] \in Slot
      BY <1>3, <3>1 DEF ResolverInv, ResolverTyped
    <3>3. CASE nodes[k].result # None
      BY <3>1, <3>3
    <3>4. CASE nodes[k].result = None /\ k \in Elements(next)
      BY <3>4 DEF Elements
    <3>5. CASE nodes[k].result = None /\ nodes[k].flag # None
      BY <3>1, <3>2, <3>5 DEF SlotSound, Slot
    <3>6. QED BY <3>1, <3>3, <3>4, <3>5
  <2>3. QED BY <2>1, <2>2 DEF RS!NoQueryLost
<1>4. ResolverInv => RS!QueriesAnswered
  BY <1>1, <1>2, <1>3 DEF RS!QueriesAnswered
<1>5. QED BY <1>4, ResolverInvariance, PTL

-----------------------------------------------------------------------------
(* The channel between threads                                             *)

SenderLives == spc \notin {"drop", "gone"}

\* A receiver that takes nothing before it is told of something.
Rests == rpc \in {"raiseEmpty", "unready", "parked", "gone"}

\* One turn passes between the sides of a rendezvous: the flag, a sender that
\* has taken it, the value it sent and a receiver that looks for one.
OneTurn ==
    rendezvous /\ SenderLives =>
        /\ cts \/ spc \in {"push", "raise"} => Rests /\ ~revent
        /\ cts => queue = 0 /\ spc \notin {"push", "raise"}
        /\ spc = "push" => queue = 0
        /\ spc = "raise" => queue = 1
        /\ ~cts /\ spc \notin {"push", "raise"} /\ queue = 0 =>
              rpc = "gone" \/ (~revent /\ rpc \in {"poll", "pop", "clear"})
        /\ queue = 1 /\ spc # "raise" =>
              rpc = "gone" \/ (revent /\ Rests) \/ (~revent /\ rpc \in {"poll", "pop"})

\* A sender that is not ready, or about not to be, will hear of room.
SenderTold ==
    SenderLives /\ (~sready \/ spc = "unready") /\ SY!can_send /\ queue < SY!Capacity =>
        sevent \/ rpc \in {"raiseValue", "raiseEmpty"}

\* A receiver that is not ready, or about not to be, will hear of a value and of
\* the end of the channel.
ReceiverTold ==
    /\ ~rendezvous /\ rpc \in {"unready", "parked"} /\ queue > 0 => revent \/ spc \in {"raise", "drop"}
    /\ spc = "gone" /\ rpc \in {"clear", "raiseEmpty", "unready", "parked"} => revent

\* Which program points go with the kind of channel and with readiness.
PointsFit ==
    /\ rpc \in {"clear", "raiseEmpty"} => rendezvous
    /\ rpc = "raiseValue" => ~rendezvous
    /\ rpc \notin {"parked", "gone"} => rready
    /\ spc \in {"parked", "parkedWait"} => ~sready
    /\ spc \in {"wait", "poll", "push", "unready", "parked", "parkedWait"} => sent < ValueMax

\* Every value that was sent has been received or is in the queue.
ValuesKept == got + queue = sent

SyncInv == SY!TypeOK /\ ValuesKept /\ PointsFit /\ OneTurn /\ SenderTold /\ ReceiverTold

LEMMA SyncInitInv ==
    ASSUME SyncSizes, SY!Init
    PROVE  SyncInv
<1> USE DEF SyncSizes
<1>1. SY!TypeOK
  <2>1. sready \in BOOLEAN /\ sevent \in BOOLEAN
    BY Zenon DEF SY!Init
  <2>2. /\ rendezvous \in BOOLEAN /\ queue = 0 /\ cts = FALSE /\ spc = "idle" /\ rpc = "poll"
        /\ rready = TRUE /\ revent = FALSE /\ sent = 0 /\ got = 0
    BY Zenon DEF SY!Init
  <2>3. queue \in 0..SY!Capacity /\ sent \in 0..ValueMax /\ got \in 0..ValueMax
    BY <2>2 DEF SY!Capacity
  <2>4. QED BY <2>1, <2>2, <2>3, Zenon DEF SY!TypeOK
<1>2. ValuesKept /\ PointsFit /\ OneTurn /\ ReceiverTold
  BY DEF SY!Init, ValuesKept, PointsFit, OneTurn, SenderLives, Rests, ReceiverTold
<1>3. SenderTold
  <2>1. CASE rendezvous = TRUE
    BY <2>1 DEF SY!Init, SenderTold, SY!can_send
  <2>2. CASE rendezvous = FALSE
    <3>1. sready = TRUE
      BY <2>2, Zenon DEF SY!Init
    <3>2. QED BY <3>1 DEF SY!Init, SenderTold
  <2>3. QED BY <2>1, <2>2 DEF SY!Init
<1>4. QED BY <1>1, <1>2, <1>3 DEF SyncInv

LEMMA SyncSenderInv ==
    ASSUME SyncSizes, SyncInv, SY!SenderNext
    PROVE  SyncInv'
<1> USE DEF SyncSizes, SyncInv, SY!TypeOK, SY!Capacity, ValuesKept, PointsFit, OneTurn, SenderLives, Rests, SenderTold,
            SY!can_send, ReceiverTold, SY!sender, SY!receiver
<1>1. CASE SY!SendBegin
  BY <1>1 DEF SY!SendBegin
<1>2. CASE SY!WaitWritable
  BY <1>2 DEF SY!WaitWritable
<1>3. CASE SY!PollSend
  BY <1>3 DEF SY!PollSend
<1>4. CASE SY!Push
  <2>1. CASE rpc = "gone"
    BY <1>4, <2>1 DEF SY!Push
  <2>2. CASE rpc # "gone" /\ queue < SY!Capacity
    <3>1. queue' \in 0..SY!Capacity' /\ sent' \in 0..ValueMax /\ got' + queue' = sent'
      BY <1>4, <2>2 DEF SY!Push
    <3>2. QED BY <1>4, <2>2, <3>1 DEF SY!Push
  <2>3. CASE rpc # "gone" /\ ~(queue < SY!Capacity)
    BY <1>4, <2>3 DEF SY!Push
  <2>4. QED BY <2>1, <2>2, <2>3
<1>5. CASE SY!Raise
  BY <1>5 DEF SY!Raise
<1>6. CASE SY!Settle
  BY <1>6 DEF SY!Settle
<1>7. CASE SY!Unready
  BY <1>7 DEF SY!Unready
<1>8. CASE SY!DropSender
  <2>1. CASE spc = "idle"
    BY <1>8, <2>1 DEF SY!DropSender
  <2>2. CASE spc = "drop"
    BY <1>8, <2>2 DEF SY!DropSender
  <2>3. QED BY <1>8, <2>1, <2>2 DEF SY!DropSender
<1>9. CASE SY!DeliverWritable
  BY <1>9 DEF SY!DeliverWritable
<1>10. QED BY <1>1, <1>2, <1>3, <1>4, <1>5, <1>6, <1>7, <1>8, <1>9 DEF SY!SenderNext

LEMMA SyncReceiverInv ==
    ASSUME SyncSizes, SyncInv, SY!ReceiverNext
    PROVE  SyncInv'
<1> USE DEF SyncSizes, SyncInv, SY!TypeOK, SY!Capacity, ValuesKept, PointsFit, OneTurn, SenderLives, Rests, SenderTold,
            SY!can_send, ReceiverTold, SY!sender, SY!receiver
<1>1. CASE SY!PollRecv
  BY <1>1 DEF SY!PollRecv
<1>2. CASE SY!Pop
  BY <1>2 DEF SY!Pop
<1>3. CASE SY!Clear
  BY <1>3 DEF SY!Clear
<1>4. CASE SY!RaiseWritable
  BY <1>4 DEF SY!RaiseWritable
<1>5. CASE SY!RecvUnready
  <2>1. CASE rendezvous
    BY <1>5, <2>1 DEF SY!RecvUnready
  <2>2. CASE ~rendezvous
    BY <1>5, <2>2 DEF SY!RecvUnready
  <2>3. QED BY <2>1, <2>2
<1>6. CASE SY!DeliverReadable
  BY <1>6 DEF SY!DeliverReadable
<1>7. CASE SY!DropReceiver
  BY <1>7 DEF SY!DropReceiver
<1>8. QED BY <1>1, <1>2, <1>3, <1>4, <1>5, <1>6, <1>7 DEF SY!ReceiverNext

\* Whatever the interleaving of the two threads, the channel keeps to one turn
\* at a time and each side will hear of what the other did.
THEOREM SyncInvariance ==
    ASSUME SyncSizes
    PROVE  SY!Spec => []SyncInv
<1>1. SyncInv /\ UNCHANGED SY!vars => SyncInv'
  BY DEF SY!vars, SyncInv, SY!TypeOK, SY!Capacity, ValuesKept, PointsFit, OneTurn, SenderLives, Rests, SenderTold,
         SY!can_send, ReceiverTold
<1>2. SyncInv /\ [SY!Next]_(SY!vars) => SyncInv'
  BY <1>1, SyncSenderInv, SyncReceiverInv DEF SY!Next
<1>3. QED BY <1>2, SyncInitInv, PTL DEF SY!Spec

LEMMA SyncKeeps ==
    ASSUME SyncSizes, SyncInv
    PROVE  SY!SignalsKept
<1> USE DEF SyncSizes
<1>1. SY!NoLostEvent
  BY DEF SyncInv, SY!TypeOK, SY!Capacity, ValuesKept, PointsFit, OneTurn, SenderLives, Rests, SenderTold,
         SY!can_send, ReceiverTold, SY!NoLostEvent
<1>2. SY!FlagMeansRoom
  BY DEF SyncInv, OneTurn, SenderLives, SY!FlagMeansRoom
<1>3. QED BY <1>1, <1>2 DEF SY!SignalsKept

LEMMA SyncSignals ==
    ASSUME SyncSizes
    PROVE  SY!Spec => []SY!SignalsKept
<1>1. SyncInv => SY!SignalsKept
  BY SyncKeeps
<1>2. QED BY <1>1, SyncInvariance, PTL

-----------------------------------------------------------------------------
(* The local channel                                                       *)

LocalTyped ==
    /\ queue \in Nat /\ queue <= Bound /\ recv \in {"recv", "gone"}
    /\ waiting \in Seq(Senders)
    /\ notified \in [Senders -> BOOLEAN]
    /\ fut \in [Senders -> {"none", "send", "check", "wait", "gone"}]

\* A sender that is not ready is in the list or has its event, and one whose
\* task sleeps is not ready.
SendersTold ==
    \A u \in Senders :
        /\ u \notin ready => u \in Elements(waiting) \/ u \in event \/ fut[u] = "gone"
        /\ fut[u] \in {"send", "check", "wait"} /\ u \notin woken => u \notin ready

\* Those who were told of room and did not ask again since.
Carriers(marks, list) == {u \in Senders : marks[u] /\ u \notin Elements(list)}

\* While anybody waits, every free place of the queue has been told to one.
RoomTold(q, marks, list) == list # <<>> => q + Cardinality(Carriers(marks, list)) >= Bound

\* A receiver that is not ready will hear of a value and of the last sender's end.
RecvTold ==
    /\ recv = "recv" /\ ~rready /\ (queue > 0 \/ LC!Alive = {}) => revent
    /\ LC!ReceiverWakes

LocalInv ==
    /\ LocalTyped
    /\ Once(waiting) /\ \A u \in Elements(waiting) : fut[u] # "gone"
    /\ SendersTold /\ RecvTold
    /\ recv = "recv" => RoomTold(queue, notified, waiting)

LEMMA CarriersCount ==
    ASSUME LocalSizes, NEW marks, NEW list
    PROVE  IsFiniteSet(Carriers(marks, list)) /\ Cardinality(Carriers(marks, list)) \in Nat
<1>1. Carriers(marks, list) \subseteq Senders
  BY DEF Carriers
<1>2. IsFiniteSet(Carriers(marks, list))
  BY <1>1, FS_Subset DEF LocalSizes
<1>3. QED BY <1>2, FS_CardinalityType

\* notify_one_sender adds one to those who carry a notice.
LEMMA NotifyCount ==
    ASSUME LocalSizes, NEW marks \in [Senders -> BOOLEAN], NEW list \in Seq(Senders),
           list # <<>>, Once(list)
    PROVE  Cardinality(Carriers([marks EXCEPT ![Head(list)] = TRUE], Tail(list)))
             = Cardinality(Carriers(marks, list)) + 1
<1> DEFINE h == Head(list)
           new == [marks EXCEPT ![h] = TRUE]
<1>1. h \in Senders /\ Elements(list) = Elements(Tail(list)) \cup {h} /\ h \notin Elements(Tail(list))
  BY TailElements
<1>2. new[h] = TRUE /\ \A u \in Senders : u # h => new[u] = marks[u]
  BY <1>1
<1> HIDE DEF new, h
<1>3. Carriers(new, Tail(list)) = Carriers(marks, list) \cup {h}
  BY <1>1, <1>2 DEF Carriers
<1>4. h \notin Carriers(marks, list)
  BY <1>1 DEF Carriers
<1>5. Cardinality(Carriers(marks, list) \cup {h}) = Cardinality(Carriers(marks, list)) + 1
  BY <1>4, CarriersCount, FS_AddElement
<1>6. QED BY <1>3, <1>5 DEF new, h

\* A mark that is cleared takes away one of them at most.
LEMMA ClearCount ==
    ASSUME LocalSizes, NEW marks \in [Senders -> BOOLEAN], NEW list, NEW u \in Senders
    PROVE  LET new == [marks EXCEPT ![u] = FALSE]
           IN  Cardinality(Carriers(marks, list)) <= Cardinality(Carriers(new, list)) + 1
<1> DEFINE new == [marks EXCEPT ![u] = FALSE]
           C == Carriers(marks, list)
<1>1. Carriers(new, list) = C \ {u}
  BY DEF Carriers
<1>2. IsFiniteSet(C) /\ Cardinality(C) \in Nat
  BY CarriersCount
<1> HIDE DEF C, new
<1>3. CASE u \in C
  <2>1. Cardinality(C \ {u}) = Cardinality(C) - 1
    BY <1>2, <1>3, FS_RemoveElement
  <2>2. Cardinality(C) <= Cardinality(Carriers(new, list)) + 1
    BY <1>1, <1>2, <2>1
  <2>3. QED BY <2>2 DEF C, new
<1>4. CASE u \notin C
  <2>1. C \ {u} = C
    BY <1>4
  <2>2. Carriers(new, list) = C
    BY <1>1, <2>1
  <2>3. Cardinality(C) <= Cardinality(Carriers(new, list)) + 1
    BY <1>2, <2>2
  <2>4. QED BY <2>3 DEF C, new
<1>5. QED BY <1>3, <1>4

\* A sender leaves the list, and what it was told goes to the next in line.
LEMMA LeaveCount ==
    ASSUME LocalSizes, NEW marks \in [Senders -> BOOLEAN], NEW list \in Seq(Senders),
           NEW rest \in Seq(Senders), NEW u \in Senders,
           \A v : v \in Elements(rest) <=> v \in Elements(list) /\ v # u
    PROVE  /\ LET new == [marks EXCEPT ![u] = FALSE]
              IN  Cardinality(Carriers(marks, list)) <= Cardinality(Carriers(new, rest)) + 1
           /\ ~marks[u] => Carriers(marks, rest) = Carriers(marks, list)
<1> DEFINE new == [marks EXCEPT ![u] = FALSE]
<1>1. new[u] = FALSE /\ \A v \in Senders : v # u => new[v] = marks[v]
  OBVIOUS
<1>2. Carriers(new, rest) = Carriers(new, list)
  BY <1>1 DEF Carriers
<1>3. ~marks[u] => Carriers(marks, rest) = Carriers(marks, list)
  BY DEF Carriers
<1>4. Cardinality(Carriers(marks, list)) <= Cardinality(Carriers(new, list)) + 1
  BY ClearCount
<1>5. QED BY <1>2, <1>3, <1>4

LEMMA LocalRemoveFirst ==
    ASSUME NEW l, NEW x
    PROVE  LC!RemoveFirst(l, x) = RemoveFirst(l, x)
BY Zenon DEF LC!RemoveFirst, RemoveFirst, LC!RemoveAt, RemoveAt, LC!SelectInSeq, SelectInSeq, LC!Min, Min

LEMMA InListIsElement ==
    ASSUME NEW u
    PROVE  LC!InList(u) <=> u \in Elements(waiting)
BY DEF LC!InList, Elements

\* What a step of set_sender_waiting leaves.
LEMMA SetWaiting ==
    ASSUME LocalInv, NEW u \in Senders, fut[u] # "gone", waiting' = LC!set_sender_waiting(u)
    PROVE  /\ waiting' \in Seq(Senders) /\ Once(waiting')
           /\ Elements(waiting') = Elements(waiting) \cup {u}
<1>1. CASE u \in Elements(waiting)
  <2>1. waiting' = waiting
    BY <1>1, InListIsElement DEF LC!set_sender_waiting
  <2>2. QED BY <1>1, <2>1 DEF LocalInv, LocalTyped
<1>2. CASE u \notin Elements(waiting)
  <2>1. waiting' = Append(waiting, u)
    BY <1>2, InListIsElement DEF LC!set_sender_waiting
  <2>2. QED BY <1>2, <2>1, AppendElements DEF LocalInv, LocalTyped
<1>3. QED BY <1>1, <1>2

\* What a step of notify_one_sender leaves, for any list and marks.
LEMMA Notify ==
    ASSUME LocalSizes, NEW marks \in [Senders -> BOOLEAN], NEW list \in Seq(Senders), Once(list),
           LC!notify_one_sender(list, marks)
    PROVE  /\ waiting' \in Seq(Senders) /\ Once(waiting')
           /\ notified' \in [Senders -> BOOLEAN]
           /\ Elements(waiting') \subseteq Elements(list)
           /\ event \subseteq event' /\ Elements(list) \subseteq Elements(waiting') \cup event'
           /\ waiting' # <<>> =>
                 Cardinality(Carriers(notified', waiting')) = Cardinality(Carriers(marks, list)) + 1
<1>1. CASE list = <<>>
  BY <1>1 DEF LC!notify_one_sender
<1>2. CASE list # <<>>
  <2>1. /\ waiting' = Tail(list) /\ notified' = [marks EXCEPT ![Head(list)] = TRUE]
        /\ event' = event \cup {Head(list)}
    BY <1>2 DEF LC!notify_one_sender
  <2>2. /\ Tail(list) \in Seq(Senders) /\ Head(list) \in Senders /\ Once(Tail(list))
        /\ Elements(list) = Elements(Tail(list)) \cup {Head(list)}
    BY <1>2, TailElements
  <2>3. Cardinality(Carriers([marks EXCEPT ![Head(list)] = TRUE], Tail(list)))
           = Cardinality(Carriers(marks, list)) + 1
    BY <1>2, NotifyCount
  <2>4. QED BY <2>1, <2>2, <2>3
<1>3. QED BY <1>1, <1>2

LEMMA LocalInit ==
    ASSUME LocalSizes, LC!Init
    PROVE  LocalInv
<1>1. LocalTyped
  BY DEF LocalSizes, LC!Init, LocalTyped
<1>2. Once(waiting) /\ Elements(waiting) = {}
  BY EmptyElements DEF LC!Init
<1>3. SendersTold
  BY DEF LC!Init, SendersTold
<1>4. RecvTold
  BY DEF LC!Init, RecvTold, LC!ReceiverWakes
<1>5. RoomTold(queue, notified, waiting)
  BY DEF LC!Init, RoomTold
<1>6. QED BY <1>1, <1>2, <1>3, <1>4, <1>5 DEF LocalInv

\* The steps that leave the list and the marks alone.
LEMMA LocalQuiet ==
    ASSUME LocalSizes, LocalInv, NEW u \in Senders,
           LC!Create(u) \/ LC!DeliverWritable(u) \/ LC!OtherWake(u)
    PROVE  LocalInv'
<1>1. UNCHANGED <<queue, waiting, notified, recv, revent, rready, rwoken>>
  BY DEF LC!Create, LC!DeliverWritable, LC!OtherWake, LC!receiver
<1>2. /\ fut' \in [Senders -> {"none", "send", "check", "wait", "gone"}]
      /\ \A v \in Senders : fut'[v] = "gone" <=> fut[v] = "gone"
  BY DEF LC!Create, LC!DeliverWritable, LC!OtherWake, LocalInv, LocalTyped
<1>3. LC!Alive' = LC!Alive
  BY <1>2 DEF LC!Alive
<1>4. LocalTyped' /\ RecvTold'
  BY <1>1, <1>2, <1>3 DEF LocalInv, LocalTyped, RecvTold, LC!ReceiverWakes
<1>5. SendersTold'
  <2>1. SUFFICES ASSUME NEW v \in Senders
                 PROVE  /\ v \notin ready' => v \in Elements(waiting) \/ v \in event' \/ fut'[v] = "gone"
                        /\ fut'[v] \in {"send", "check", "wait"} /\ v \notin woken' => v \notin ready'
    BY <1>1 DEF SendersTold
  <2>2. /\ v \notin ready => v \in Elements(waiting) \/ v \in event \/ fut[v] = "gone"
        /\ fut[v] \in {"send", "check", "wait"} /\ v \notin woken => v \notin ready
    BY DEF LocalInv, SendersTold
  <2>3. CASE LC!Create(u)
    BY <2>2, <2>3 DEF LC!Create, LocalInv, LocalTyped
  <2>4. CASE LC!DeliverWritable(u)
    BY <2>2, <2>4 DEF LC!DeliverWritable
  <2>5. CASE LC!OtherWake(u)
    BY <2>2, <2>5 DEF LC!OtherWake
  <2>6. QED BY <2>3, <2>4, <2>5
<1>6. \A v \in Elements(waiting) : fut'[v] # "gone"
  BY <1>2, ElementsIn DEF LocalInv, LocalTyped
<1>7. QED BY <1>1, <1>4, <1>5, <1>6 DEF LocalInv

\* A value is queued by a sender that is not asleep.
LEMMA LocalPush ==
    ASSUME LocalSizes, LocalInv, NEW u \in Senders, fut[u] # "gone", queue < Bound,
           fut' = [fut EXCEPT ![u] = "none"], woken' = woken \ {u},
           UNCHANGED <<waiting, ready, event>>,
           notified' = [notified EXCEPT ![u] = FALSE],
           \/ recv = "gone" /\ UNCHANGED <<queue, recv, revent, rready, rwoken>>
           \/ recv = "recv" /\ queue' = queue + 1 /\ revent' = TRUE /\ UNCHANGED <<recv, rready, rwoken>>
    PROVE  LocalInv'
<1>1. LocalTyped'
  BY DEF LocalSizes, LocalInv, LocalTyped
<1>2. \A v \in Senders : (fut'[v] = "gone" <=> fut[v] = "gone") /\ (v # u => fut'[v] = fut[v])
  BY DEF LocalInv, LocalTyped
<1>3. \A v \in Elements(waiting) : fut'[v] # "gone"
  BY <1>2, ElementsIn DEF LocalInv, LocalTyped
<1>4. SendersTold'
  <2>1. fut'[u] = "none"
    BY DEF LocalInv, LocalTyped
  <2>2. QED BY <1>2, <2>1 DEF LocalInv, SendersTold
<1>5. RecvTold'
  BY DEF LocalInv, RecvTold, LC!ReceiverWakes
<1>6. ASSUME recv' = "recv", waiting # <<>> PROVE queue' + Cardinality(Carriers(notified', waiting)) >= Bound
  <2>1. queue + Cardinality(Carriers(notified, waiting)) >= Bound /\ queue' = queue + 1 /\ queue \in Nat
    BY <1>6 DEF LocalInv, LocalTyped, RoomTold
  <2>2. Cardinality(Carriers(notified, waiting)) <= Cardinality(Carriers(notified', waiting)) + 1
    BY ClearCount DEF LocalInv, LocalTyped
  <2>3. /\ Cardinality(Carriers(notified, waiting)) \in Nat
        /\ Cardinality(Carriers(notified', waiting)) \in Nat
    BY CarriersCount
  <2>4. QED BY <2>1, <2>2, <2>3 DEF LocalSizes
<1>7. QED BY <1>1, <1>3, <1>4, <1>5, <1>6 DEF LocalInv, RoomTold

\* The queue is full, and the sender waits.
LEMMA LocalWait ==
    ASSUME LocalSizes, LocalInv, NEW u \in Senders, fut[u] # "gone", queue = Bound,
           waiting' = LC!set_sender_waiting(u), ready' = ready \ {u}, woken' = woken \ {u},
           notified' \in {notified, [notified EXCEPT ![u] = FALSE]},
           UNCHANGED <<queue, event, fut, recv, revent, rready, rwoken>>
    PROVE  LocalInv'
<1>1. /\ waiting' \in Seq(Senders) /\ Once(waiting')
      /\ Elements(waiting') = Elements(waiting) \cup {u}
  BY SetWaiting
<1>2. LocalTyped'
  BY <1>1 DEF LocalInv, LocalTyped
<1>3. \A v \in Elements(waiting') : fut'[v] # "gone"
  BY <1>1 DEF LocalInv
<1>4. SendersTold'
  BY <1>1 DEF LocalInv, SendersTold
<1>5. RecvTold'
  BY DEF LocalInv, RecvTold, LC!ReceiverWakes, LC!Alive
<1>6. RoomTold(queue', notified', waiting')
  <2>1. Cardinality(Carriers(notified', waiting')) \in Nat
    BY CarriersCount
  <2>2. QED BY <2>1 DEF RoomTold, LocalSizes
<1>7. QED BY <1>1, <1>2, <1>3, <1>4, <1>5, <1>6 DEF LocalInv

LEMMA LocalPolls ==
    ASSUME LocalSizes, LocalInv, NEW u \in Senders,
           LC!PollSend(u) \/ LC!PollCheckFull(u) \/ LC!PollCheckSend(u)
    PROVE  LocalInv'
<1> USE DEF LC!receiver
<1>0. recv \in {"recv", "gone"} /\ queue \in Nat /\ Bound \in Nat /\ queue <= Bound
  BY DEF LocalInv, LocalTyped, LocalSizes
<1>1. CASE LC!PollCheckFull(u)
  BY <1>1, LocalWait DEF LC!PollCheckFull
<1>2. CASE LC!PollCheckSend(u)
  BY <1>0, <1>2, LocalPush DEF LC!PollCheckSend, LC!Pushed
<1>3. CASE LC!PollSend(u)
  <2>1. CASE /\ u \notin ready
             /\ UNCHANGED <<queue, waiting, notified, event, ready, fut, recv, revent, rready, rwoken>>
    <3>1. woken' = woken \ {u}
      BY <1>3 DEF LC!PollSend
    <3>2. SendersTold'
      BY <2>1, <3>1 DEF LocalInv, SendersTold
    <3>3. QED BY <2>1, <3>2 DEF LocalInv, LocalTyped, RecvTold, LC!ReceiverWakes, LC!Alive, RoomTold, Carriers
  <2>2. CASE /\ u \in ready /\ recv = "gone"
             /\ notified' = [notified EXCEPT ![u] = FALSE]
             /\ fut' = [fut EXCEPT ![u] = "none"]
             /\ UNCHANGED <<queue, waiting, event, ready, recv, revent, rready, rwoken>>
    <3>1. woken' = woken \ {u} /\ fut[u] = "send"
      BY <1>3 DEF LC!PollSend
    <3>2. LocalTyped' /\ RecvTold'
      BY <2>2 DEF LocalInv, LocalTyped, RecvTold, LC!ReceiverWakes
    <3>3. \A v \in Senders : fut'[v] = IF v = u THEN "none" ELSE fut[v]
      BY <2>2 DEF LocalInv, LocalTyped
    <3>4. SendersTold'
      BY <2>2, <3>1, <3>3 DEF LocalInv, SendersTold
    <3>5. \A v \in Elements(waiting) : fut'[v] # "gone"
      BY <3>1, <3>3, ElementsIn DEF LocalInv, LocalTyped
    <3>6. QED BY <2>2, <3>2, <3>4, <3>5 DEF LocalInv
  <2>3. CASE /\ u \in ready /\ recv # "gone" /\ queue < Bound
             /\ LC!Pushed(u)
             /\ fut' = [fut EXCEPT ![u] = "none"]
             /\ UNCHANGED <<waiting, ready>>
    BY <1>0, <1>3, <2>3, LocalPush DEF LC!PollSend, LC!Pushed
  <2>4. CASE /\ u \in ready /\ recv # "gone" /\ queue = Bound
             /\ notified' = [notified EXCEPT ![u] = FALSE]
             /\ waiting' = LC!set_sender_waiting(u)
             /\ ready' = ready \ {u}
             /\ UNCHANGED <<queue, event, fut, recv, revent, rready, rwoken>>
    BY <1>3, <2>4, LocalWait DEF LC!PollSend
  <2>5. QED BY <1>3, <2>1, <2>2, <2>3, <2>4 DEF LC!PollSend
<1>4. QED BY <1>1, <1>2, <1>3

LEMMA LocalDropFuture ==
    ASSUME LocalSizes, LocalInv, NEW u \in Senders, LC!DropFuture(u)
    PROVE  LocalInv'
<1>1. /\ fut[u] \in {"send", "check", "wait"} /\ fut' = [fut EXCEPT ![u] = "none"]
      /\ woken' = woken \ {u} /\ LC!cancel(u)
      /\ UNCHANGED <<queue, ready, recv, revent, rready, rwoken>>
  BY DEF LC!DropFuture, LC!receiver
<1>2. \A v \in Senders : fut'[v] = IF v = u THEN "none" ELSE fut[v]
  BY <1>1 DEF LocalInv, LocalTyped
<1>3. LC!Alive' = LC!Alive
  BY <1>1, <1>2 DEF LC!Alive
<1>4. RecvTold'
  BY <1>1, <1>3 DEF LocalInv, RecvTold, LC!ReceiverWakes
<1>5. /\ waiting' \in Seq(Senders) /\ Once(waiting') /\ notified' \in [Senders -> BOOLEAN]
      /\ Elements(waiting') \subseteq Elements(waiting)
      /\ event \subseteq event' /\ Elements(waiting) \subseteq Elements(waiting') \cup event'
      /\ waiting' # <<>> => /\ waiting # <<>>
                            /\ Cardinality(Carriers(notified', waiting'))
                                 >= Cardinality(Carriers(notified, waiting))
  <2>1. CASE notified[u]
    <3> DEFINE marks == [notified EXCEPT ![u] = FALSE]
    <3>1. LC!notify_one_sender(waiting, marks) /\ marks \in [Senders -> BOOLEAN]
      BY <1>1, <2>1 DEF LC!cancel, LocalInv, LocalTyped
    <3>2. Cardinality(Carriers(notified, waiting)) <= Cardinality(Carriers(marks, waiting)) + 1
      BY ClearCount DEF LocalInv, LocalTyped
    <3>3. /\ Cardinality(Carriers(notified, waiting)) \in Nat
          /\ Cardinality(Carriers(marks, waiting)) \in Nat
      BY CarriersCount
    <3> HIDE DEF marks
    <3>4. /\ waiting' \in Seq(Senders) /\ Once(waiting') /\ notified' \in [Senders -> BOOLEAN]
          /\ Elements(waiting') \subseteq Elements(waiting)
          /\ event \subseteq event' /\ Elements(waiting) \subseteq Elements(waiting') \cup event'
          /\ waiting' # <<>> =>
                Cardinality(Carriers(notified', waiting')) = Cardinality(Carriers(marks, waiting)) + 1
      BY <3>1, Notify DEF LocalInv, LocalTyped
    <3>5. waiting' # <<>> => waiting # <<>>
      BY <3>1 DEF LC!notify_one_sender
    <3>6. QED BY <3>2, <3>3, <3>4, <3>5
  <2>2. CASE ~notified[u]
    <3>1. UNCHANGED <<waiting, notified, event>>
      BY <1>1, <2>2 DEF LC!cancel
    <3>2. Cardinality(Carriers(notified, waiting)) \in Nat
      BY CarriersCount
    <3>3. QED BY <3>1, <3>2 DEF LocalInv, LocalTyped
  <2>3. QED BY <2>1, <2>2
<1>6. LocalTyped'
  BY <1>1, <1>5 DEF LocalInv, LocalTyped
<1>7. \A v \in Elements(waiting') : fut'[v] # "gone"
  BY <1>2, <1>5, ElementsIn DEF LocalInv, LocalTyped
<1>8. SendersTold'
  BY <1>1, <1>2, <1>5 DEF LocalInv, SendersTold
<1>9. RoomTold(queue, notified, waiting) => RoomTold(queue', notified', waiting')
  <2>1. /\ Cardinality(Carriers(notified, waiting)) \in Nat
        /\ Cardinality(Carriers(notified', waiting')) \in Nat
    BY CarriersCount
  <2>2. QED BY <1>1, <1>5, <2>1 DEF RoomTold, LocalSizes, LocalInv, LocalTyped
<1>10. QED BY <1>1, <1>4, <1>5, <1>6, <1>7, <1>8, <1>9 DEF LocalInv

LEMMA LocalDropSender ==
    ASSUME LocalSizes, LocalInv, NEW u \in Senders, LC!DropSender(u)
    PROVE  LocalInv'
<1> DEFINE list == RemoveFirst(waiting, u)
<1>1. /\ fut[u] = "none" /\ fut' = [fut EXCEPT ![u] = "gone"]
      /\ woken' = woken \ {u} /\ ready' = ready \ {u}
      /\ revent' = (revent \/ (recv = "recv" /\ LC!Alive = {u}))
      /\ UNCHANGED <<queue, recv, rready, rwoken>>
  BY DEF LC!DropSender
<1>2. IF notified[u] THEN LC!notify_one_sender(list, [notified EXCEPT ![u] = FALSE])
      ELSE waiting' = list /\ UNCHANGED <<notified, event>>
  BY LocalRemoveFirst DEF LC!DropSender
<1>3. /\ list \in Seq(Senders) /\ Once(list)
      /\ \A v : v \in Elements(list) <=> v \in Elements(waiting) /\ v # u
  BY RemoveFirstSeq DEF LocalInv, LocalTyped
<1> HIDE DEF list
<1>4. \A v \in Senders : fut'[v] = IF v = u THEN "gone" ELSE fut[v]
  BY <1>1 DEF LocalInv, LocalTyped
<1>5. LC!Alive' = LC!Alive \ {u}
  BY <1>1, <1>4 DEF LC!Alive
<1>6. RecvTold'
  <2>1. u \in LC!Alive
    BY <1>1 DEF LC!Alive
  <2>2. LC!Alive' = {} => LC!Alive = {u}
    BY <1>5, <2>1
  <2>3. CASE LC!Alive = {u} /\ recv = "recv"
    <3>1. revent'
      BY <1>1, <2>3
    <3>2. QED BY <3>1 DEF RecvTold, LC!ReceiverWakes
  <2>4. CASE ~(LC!Alive = {u} /\ recv = "recv")
    <3>1. revent' <=> revent
      BY <1>1, <2>4
    <3>2. recv = "recv" => LC!Alive' # {}
      BY <2>2, <2>4
    <3>3. QED BY <1>1, <3>1, <3>2 DEF LocalInv, RecvTold, LC!ReceiverWakes
  <2>5. QED BY <2>3, <2>4
<1>7. /\ waiting' \in Seq(Senders) /\ Once(waiting') /\ notified' \in [Senders -> BOOLEAN]
      /\ Elements(waiting') \subseteq Elements(list)
      /\ event \subseteq event' /\ Elements(list) \subseteq Elements(waiting') \cup event'
      /\ waiting' # <<>> => /\ list # <<>>
                            /\ Cardinality(Carriers(notified', waiting'))
                                 >= Cardinality(Carriers(notified, waiting))
  <2>1. CASE notified[u]
    <3> DEFINE marks == [notified EXCEPT ![u] = FALSE]
    <3>1. LC!notify_one_sender(list, marks) /\ marks \in [Senders -> BOOLEAN]
      BY <1>2, <2>1 DEF LocalInv, LocalTyped
    <3>2. Cardinality(Carriers(notified, waiting)) <= Cardinality(Carriers(marks, list)) + 1
      BY <1>3, LeaveCount DEF LocalInv, LocalTyped
    <3>3. /\ Cardinality(Carriers(notified, waiting)) \in Nat
          /\ Cardinality(Carriers(marks, list)) \in Nat
      BY CarriersCount
    <3> HIDE DEF marks
    <3>4. /\ waiting' \in Seq(Senders) /\ Once(waiting') /\ notified' \in [Senders -> BOOLEAN]
          /\ Elements(waiting') \subseteq Elements(list)
          /\ event \subseteq event' /\ Elements(list) \subseteq Elements(waiting') \cup event'
          /\ waiting' # <<>> =>
                Cardinality(Carriers(notified', waiting')) = Cardinality(Carriers(marks, list)) + 1
      BY <1>3, <3>1, Notify
    <3>5. waiting' # <<>> => list # <<>>
      BY <3>1 DEF LC!notify_one_sender
    <3>6. QED BY <3>2, <3>3, <3>4, <3>5
  <2>2. CASE ~notified[u]
    <3>1. waiting' = list /\ UNCHANGED <<notified, event>>
      BY <1>2, <2>2
    <3>2. Carriers(notified, list) = Carriers(notified, waiting)
      BY <1>3, <2>2, LeaveCount DEF LocalInv, LocalTyped
    <3>3. Cardinality(Carriers(notified, waiting)) \in Nat
      BY CarriersCount
    <3>4. Cardinality(Carriers(notified', waiting')) >= Cardinality(Carriers(notified, waiting))
      BY <3>1, <3>2, <3>3
    <3>5. QED BY <1>3, <3>1, <3>4 DEF LocalInv, LocalTyped
  <2>3. QED BY <2>1, <2>2
<1>8. LocalTyped'
  BY <1>1, <1>7 DEF LocalInv, LocalTyped
<1>9. \A v \in Elements(waiting') : fut'[v] # "gone"
  <2>1. \A v \in Elements(waiting') : v \in Senders /\ v # u /\ fut[v] # "gone"
    BY <1>3, <1>7, ElementsIn DEF LocalInv
  <2>2. QED BY <1>4, <2>1
<1>10. SendersTold'
  BY <1>1, <1>3, <1>4, <1>7 DEF LocalInv, SendersTold
<1>11. RoomTold(queue, notified, waiting) => RoomTold(queue', notified', waiting')
  <2>1. /\ Cardinality(Carriers(notified, waiting)) \in Nat
        /\ Cardinality(Carriers(notified', waiting')) \in Nat
    BY CarriersCount
  <2>2. waiting' # <<>> => waiting # <<>>
    <3>1. ASSUME waiting = <<>>, waiting' # <<>> PROVE FALSE
      <4>1. Elements(waiting) = {}
        BY <3>1, EmptyElements
      <4>2. waiting'[1] \in Elements(waiting')
        BY <1>7, <3>1 DEF Elements
      <4>3. QED BY <1>3, <1>7, <4>1, <4>2
    <3>2. QED BY <3>1
  <2>3. QED BY <1>1, <1>7, <2>1, <2>2 DEF RoomTold, LocalSizes, LocalInv, LocalTyped
<1>12. QED BY <1>1, <1>6, <1>7, <1>8, <1>9, <1>10, <1>11 DEF LocalInv

LEMMA LocalReceives ==
    ASSUME LocalSizes, LocalInv, LC!PollRecv \/ LC!DeliverReadable \/ LC!DropReceiver
    PROVE  LocalInv'
<1>0. UNCHANGED <<ready, fut, woken>>
  BY DEF LC!PollRecv, LC!DeliverReadable, LC!DropReceiver
<1>00. LC!Alive' = LC!Alive
  BY <1>0 DEF LC!Alive
<1>1. CASE LC!DeliverReadable
  <2>1. UNCHANGED <<queue, waiting, notified, event, recv>> /\ rready' = TRUE /\ rwoken' = (recv = "recv")
    BY <1>1 DEF LC!DeliverReadable
  <2>2. RecvTold'
    BY <2>1 DEF RecvTold, LC!ReceiverWakes
  <2>3. QED BY <1>0, <2>1, <2>2 DEF LocalInv, LocalTyped, SendersTold
<1>2. CASE LC!PollRecv /\ rready /\ queue > 0
  <2>1. /\ recv = "recv" /\ rwoken /\ queue' = queue - 1 /\ LC!notify_one_sender(waiting, notified)
        /\ UNCHANGED <<recv, rready, rwoken, revent>>
    BY <1>2 DEF LC!PollRecv
  <2>2. /\ waiting' \in Seq(Senders) /\ Once(waiting') /\ notified' \in [Senders -> BOOLEAN]
        /\ Elements(waiting') \subseteq Elements(waiting)
        /\ event \subseteq event' /\ Elements(waiting) \subseteq Elements(waiting') \cup event'
        /\ waiting' # <<>> =>
              Cardinality(Carriers(notified', waiting')) = Cardinality(Carriers(notified, waiting)) + 1
    BY <2>1, Notify DEF LocalInv, LocalTyped
  <2>3. waiting' # <<>> => waiting # <<>>
    BY <2>1 DEF LC!notify_one_sender
  <2>4. Cardinality(Carriers(notified, waiting)) \in Nat
    BY CarriersCount
  <2>5. RoomTold(queue', notified', waiting')
    BY <2>1, <2>2, <2>3, <2>4 DEF LocalInv, LocalTyped, LocalSizes, RoomTold
  <2>6. LocalTyped'
    BY <1>0, <1>2, <2>1, <2>2 DEF LocalInv, LocalTyped, LocalSizes
  <2>7. RecvTold'
    BY <1>2, <2>1 DEF RecvTold, LC!ReceiverWakes
  <2>8. SendersTold' /\ \A v \in Elements(waiting') : fut'[v] # "gone"
    BY <1>0, <2>2 DEF LocalInv, SendersTold
  <2>9. QED BY <2>2, <2>5, <2>6, <2>7, <2>8 DEF LocalInv
<1>3. CASE LC!PollRecv /\ ~(rready /\ queue > 0)
  <2>1. /\ UNCHANGED <<queue, waiting, notified, event, revent>>
        /\ \/ ~rready /\ UNCHANGED <<recv, rready>>
           \/ recv' = "gone"
           \/ LC!Alive # {} /\ ~(queue > 0) /\ UNCHANGED recv
    BY <1>3 DEF LC!PollRecv
  <2>2. RecvTold'
    BY <1>00, <2>1 DEF LocalInv, RecvTold, LC!ReceiverWakes
  <2>3. recv' \in {"recv", "gone"} /\ (recv' = "recv" => recv = "recv")
    BY <1>3 DEF LC!PollRecv, LocalInv, LocalTyped
  <2>4. QED BY <1>0, <2>1, <2>2, <2>3 DEF LocalInv, LocalTyped, SendersTold
<1>4. CASE LC!DropReceiver
  <2>1. recv' = "gone" /\ LC!notify_one_sender(waiting, notified) /\ queue' = queue
    BY <1>4 DEF LC!DropReceiver
  <2>2. /\ waiting' \in Seq(Senders) /\ Once(waiting') /\ notified' \in [Senders -> BOOLEAN]
        /\ Elements(waiting') \subseteq Elements(waiting)
        /\ event \subseteq event' /\ Elements(waiting) \subseteq Elements(waiting') \cup event'
    BY <2>1, Notify DEF LocalInv, LocalTyped
  <2>3. LocalTyped' /\ RecvTold'
    BY <1>0, <2>1, <2>2 DEF LocalInv, LocalTyped, RecvTold, LC!ReceiverWakes
  <2>4. SendersTold' /\ \A v \in Elements(waiting') : fut'[v] # "gone"
    BY <1>0, <2>2 DEF LocalInv, SendersTold
  <2>5. QED BY <2>1, <2>2, <2>3, <2>4 DEF LocalInv
<1>5. QED BY <1>1, <1>2, <1>3, <1>4

\* While senders wait in the list of a local channel, every place that was freed
\* has been told to one of them that has still to act, and every sender that is
\* not ready is in the list or has its event, for any number of senders and any
\* bound, and however futures are polled and dropped.
THEOREM LocalInvariance ==
    ASSUME LocalSizes
    PROVE  LC!Spec => []LocalInv
<1>1. ASSUME LocalInv, UNCHANGED LC!vars PROVE LocalInv'
  BY <1>1 DEF LC!vars, LocalInv, LocalTyped, SendersTold, RecvTold, LC!ReceiverWakes, LC!Alive
<1>2. ASSUME LocalInv, NEW u \in Senders, LC!SenderStep(u) PROVE LocalInv'
  BY <1>2, LocalQuiet, LocalPolls, LocalDropFuture, LocalDropSender DEF LC!SenderStep
<1>3. LocalInv /\ [LC!Next]_(LC!vars) => LocalInv'
  BY <1>1, <1>2, LocalReceives DEF LC!Next
<1>4. QED BY <1>3, LocalInit, PTL DEF LC!Spec

LEMMA LocalSignals ==
    ASSUME LocalSizes
    PROVE  LC!Spec => []LC!SignalsKept
<1>1. LocalInv => LC!NoticeKept
  <2>1. SUFFICES ASSUME LocalInv, recv = "recv", queue < Bound, NEW u \in Senders, LC!Stuck(u)
                 PROVE  \E v \in Senders : notified[v]
    BY DEF LC!NoticeKept
  <2>2. u \in Elements(waiting)
    BY <2>1 DEF LC!Stuck, LocalInv, SendersTold
  <2>3. waiting # <<>>
    BY <2>2, EmptyElements
  <2>4. queue + Cardinality(Carriers(notified, waiting)) >= Bound
    BY <2>1, <2>3 DEF LocalInv, RoomTold
  <2>5. Cardinality(Carriers(notified, waiting)) # 0
    BY <2>1, <2>4 DEF LocalInv, LocalTyped, LocalSizes
  <2>6. Carriers(notified, waiting) # {}
    BY <2>5, FS_EmptySet
  <2>7. QED BY <2>6 DEF Carriers
<1>2. LocalInv => LC!ReceiverWakes
  BY DEF LocalInv, RecvTold
<1>3. LocalInv => LC!ListSound
  BY DEF LocalInv, LC!ListSound, Once, Elements
<1>4. LocalInv => LC!SignalsKept
  BY <1>1, <1>2, <1>3 DEF LC!SignalsKept
<1>5. QED BY <1>4, LocalInvariance, PTL

-----------------------------------------------------------------------------
(* The event loop                                                          *)

LoopTyped ==
    /\ mode \in {"exec", "async"}
    /\ reg \in [Slots -> Nat] /\ callback \in [Slots -> Nat]
    /\ activated \in Seq(Slots) /\ flag \in [Slots -> BOOLEAN]
    /\ pc \in {"out", "dispatch", "call"}
    /\ task \in {"run", "parked", "done"} /\ made \in Nat

\* The slot has the callback of its registration, or that callback runs.
OwnCallback(u) ==
    \/ callback[u] = reg[u]
    \/ callback[u] = 0 /\ pc = "call" /\ running = [reg |-> reg[u], slot |-> u]

\* A slot in use is in the list when it is flagged.
Listed(u) ==
    /\ u \in Elements(activated) => flag[u] /\ reg[u] # 0
    /\ flag[u] /\ reg[u] # 0 => u \in Elements(activated)
    /\ reg[u] \in calls => u \in Elements(activated)

\* Registrations are numbered as they are made, and each has a slot of its own.
Numbered ==
    /\ 0 \notin ready /\ calls \subseteq 1..made
    /\ \A u \in Slots : reg[u] <= made
    /\ \A u, v \in Slots : reg[u] = reg[v] /\ reg[u] # 0 => u = v

\* The task sleeps with its waker left and nothing to do.
SleepsIdle ==
    mode = "async" /\ task = "parked" => pc = "out" /\ waker /\ activated = <<>>

LoopInv ==
    /\ LoopTyped /\ Once(activated) /\ Numbered /\ SleepsIdle
    /\ \A u \in Slots : OwnCallback(u) /\ Listed(u)

LEMMA LoopRemoveFirst ==
    ASSUME NEW l, NEW x
    PROVE  EL!RemoveFirst(l, x) = RemoveFirst(l, x)
BY Zenon DEF EL!RemoveFirst, RemoveFirst, EL!RemoveAt, RemoveAt, EL!SelectInSeq, SelectInSeq, EL!Min, Min

LEMMA NoElements ==
    ASSUME NEW T, NEW l \in Seq(T), Elements(l) = {}
    PROVE  l = <<>>
<1>1. ASSUME l # <<>> PROVE FALSE
  <2>1. l[1] \in Elements(l)
    BY <1>1 DEF Elements
  <2>2. QED BY <2>1
<1>2. QED BY <1>1

LEMMA LoopInit ==
    ASSUME LoopSizes, EL!Init
    PROVE  LoopInv
<1>1. LoopTyped /\ SleepsIdle
  BY DEF LoopSizes, EL!Init, LoopTyped, SleepsIdle
<1>2. Once(activated) /\ Elements(activated) = {}
  BY EmptyElements DEF EL!Init
<1>3. Numbered
  BY DEF EL!Init, Numbered
<1>4. \A u \in Slots : OwnCallback(u) /\ Listed(u)
  BY <1>2 DEF EL!Init, OwnCallback, Listed
<1>5. QED BY <1>1, <1>2, <1>3, <1>4 DEF LoopInv

LEMMA LoopRegister ==
    ASSUME LoopSizes, LoopInv, NEW u \in Slots, EL!register(u)
    PROVE  LoopInv'
<1>1. /\ made' = made + 1 /\ reg[u] = 0 /\ reg' = [reg EXCEPT ![u] = made + 1]
      /\ callback' = [callback EXCEPT ![u] = made + 1] /\ flag' = [flag EXCEPT ![u] = FALSE]
      /\ UNCHANGED <<mode, pc, running, activated, ready, calls, waker, task>>
  BY DEF EL!register, EL!add, EL!control
<1>2. made \in Nat /\ calls \subseteq 1..made /\ \A v \in Slots : reg[v] \in Nat /\ reg[v] <= made
  BY DEF LoopInv, LoopTyped, Numbered
<1>3. LoopTyped' /\ SleepsIdle'
  BY <1>1, <1>2 DEF LoopInv, LoopTyped, SleepsIdle
<1>4. \A v \in Slots : /\ reg'[v] = IF v = u THEN made + 1 ELSE reg[v]
                       /\ callback'[v] = IF v = u THEN made + 1 ELSE callback[v]
                       /\ flag'[v] = IF v = u THEN FALSE ELSE flag[v]
  BY <1>1 DEF LoopInv, LoopTyped
<1>5. Numbered'
  BY <1>1, <1>2, <1>4 DEF LoopInv, Numbered
<1>6. ASSUME NEW v \in Slots PROVE OwnCallback(v)'
  <2>1. OwnCallback(v)
    BY DEF LoopInv
  <2>2. CASE v = u
    BY <1>4, <2>2 DEF OwnCallback
  <2>3. CASE v # u
    <3>1. reg'[v] = reg[v] /\ callback'[v] = callback[v] /\ pc' = pc /\ running' = running
      BY <1>1, <1>4, <2>3
    <3>2. QED BY <2>1, <3>1, Zenon DEF OwnCallback
  <2>4. QED BY <2>2, <2>3
<1>7. made + 1 \notin calls /\ u \notin Elements(activated)
  BY <1>1, <1>2 DEF LoopInv, Listed
<1>8. ASSUME NEW v \in Slots PROVE Listed(v)'
  <2>1. Listed(v)
    BY DEF LoopInv
  <2>2. CASE v = u
    <3>1. ~flag'[v] /\ reg'[v] = made + 1 /\ activated' = activated /\ calls' = calls
      BY <1>1, <1>4, <2>2
    <3>2. v \notin Elements(activated') /\ reg'[v] \notin calls'
      BY <1>7, <2>2, <3>1
    <3>3. QED BY <3>1, <3>2, Zenon DEF Listed
  <2>3. CASE v # u
    BY <1>1, <1>4, <2>1, <2>3 DEF Listed
  <2>4. QED BY <2>2, <2>3
<1>9. QED BY <1>1, <1>3, <1>5, <1>6, <1>8 DEF LoopInv

LEMMA LoopDeregister ==
    ASSUME LoopSizes, LoopInv, NEW u \in Slots, EL!deregister(u)
    PROVE  LoopInv'
<1>1. /\ activated' = RemoveFirst(activated, u)
      /\ reg' = [reg EXCEPT ![u] = 0] /\ callback' = [callback EXCEPT ![u] = 0]
      /\ ready' = ready \ {reg[u]} /\ calls' = calls \ {reg[u]}
      /\ UNCHANGED <<mode, pc, running, flag, waker, task, made>>
  BY LoopRemoveFirst DEF EL!deregister, EL!control
<1>2. /\ activated' \in Seq(Slots) /\ Once(activated')
      /\ \A v : v \in Elements(activated') <=> v \in Elements(activated) /\ v # u
  BY <1>1, RemoveFirstSeq DEF LoopInv, LoopTyped
<1>3. LoopTyped'
  BY <1>1, <1>2 DEF LoopInv, LoopTyped
<1>4. \A v \in Slots : /\ reg'[v] = IF v = u THEN 0 ELSE reg[v]
                       /\ callback'[v] = IF v = u THEN 0 ELSE callback[v]
  BY <1>1 DEF LoopInv, LoopTyped
<1>5. Numbered'
  <2>1. made \in Nat /\ Numbered
    BY DEF LoopInv, LoopTyped
  <2>2. 0 \notin ready' /\ calls' \subseteq 1..made'
    BY <1>1, <2>1 DEF Numbered
  <2>3. \A v \in Slots : reg'[v] <= made'
    BY <1>1, <1>4, <2>1 DEF Numbered
  <2>4. \A v, w \in Slots : reg'[v] = reg'[w] /\ reg'[v] # 0 => v = w
    BY <1>4, <2>1 DEF Numbered
  <2>5. QED BY <2>2, <2>3, <2>4 DEF Numbered
<1>6. SleepsIdle'
  <2>1. activated = <<>> => activated' = <<>>
    BY <1>2, NoElements, EmptyElements
  <2>2. QED BY <1>1, <2>1 DEF LoopInv, SleepsIdle
<1>7. \A v \in Slots : OwnCallback(v)'
  BY <1>1, <1>4 DEF LoopInv, OwnCallback
<1>8. 0 \notin calls
  BY DEF LoopInv, LoopTyped, Numbered
<1>9. \A v \in Slots : Listed(v)'
  BY <1>1, <1>2, <1>4, <1>8 DEF LoopInv, Listed
<1>10. QED BY <1>2, <1>3, <1>5, <1>6, <1>7, <1>9 DEF LoopInv

LEMMA LoopActivate ==
    ASSUME LoopSizes, LoopInv, NEW u \in Slots, EL!activate(u)
    PROVE  LoopInv'
<1>1. /\ reg[u] \in ready /\ ready' = ready \ {reg[u]} /\ calls' = calls \cup {reg[u]} /\ pc = "out"
      /\ UNCHANGED <<mode, pc, running, reg, callback, made>>
  BY DEF EL!activate, EL!control
<1>2. reg[u] # 0 /\ reg[u] \in 1..made
  BY <1>1 DEF LoopInv, LoopTyped, Numbered
<1>3. Numbered' /\ \A v \in Slots : OwnCallback(v)'
  BY <1>1, <1>2 DEF LoopInv, Numbered, OwnCallback
<1>4. \A v \in Slots : v # u => reg[v] # reg[u]
  BY <1>2 DEF LoopInv, Numbered
<1>5. CASE flag[u]
  <2>1. UNCHANGED <<activated, flag, waker, task>>
    BY <1>5 DEF EL!activate
  <2>2. u \in Elements(activated)
    BY <1>2, <1>5 DEF LoopInv, Listed
  <2>3. \A v \in Slots : Listed(v)'
    BY <1>1, <1>4, <2>1, <2>2 DEF LoopInv, Listed
  <2>4. LoopTyped' /\ SleepsIdle'
    BY <1>1, <2>1 DEF LoopInv, LoopTyped, SleepsIdle
  <2>5. QED BY <1>3, <2>1, <2>3, <2>4 DEF LoopInv
<1>6. CASE ~flag[u]
  <2>1. /\ flag' = [flag EXCEPT ![u] = TRUE] /\ activated' = Append(activated, u)
        /\ task' = IF waker THEN "run" ELSE task
    BY <1>6 DEF EL!activate
  <2>2. u \notin Elements(activated)
    BY <1>6 DEF LoopInv, Listed
  <2>3. /\ activated' \in Seq(Slots) /\ Once(activated')
        /\ Elements(activated') = Elements(activated) \cup {u}
    BY <2>1, <2>2, AppendElements DEF LoopInv, LoopTyped
  <2>4. \A v \in Slots : flag'[v] = IF v = u THEN TRUE ELSE flag[v]
    BY <2>1 DEF LoopInv, LoopTyped
  <2>5. \A v \in Slots : Listed(v)'
    BY <1>1, <1>2, <1>4, <2>3, <2>4 DEF LoopInv, Listed
  <2>6. LoopTyped'
    BY <1>1, <2>1, <2>3 DEF LoopInv, LoopTyped
  <2>7. SleepsIdle'
    BY <1>1, <2>1 DEF LoopInv, SleepsIdle
  <2>8. QED BY <1>3, <2>3, <2>5, <2>6, <2>7 DEF LoopInv
<1>7. QED BY <1>5, <1>6

LEMMA LoopDispatch ==
    ASSUME LoopSizes, LoopInv, EL!Dispatch
    PROVE  LoopInv'
<1> DEFINE u == Head(activated)
<1>1. /\ pc = "dispatch" /\ activated # <<>> /\ activated' = Tail(activated) /\ pc' = "call"
      /\ calls' = calls \ {callback[u]} /\ callback' = [callback EXCEPT ![u] = 0]
      /\ ready' \subseteq ready
      /\ UNCHANGED <<mode, waker, task, made>>
  BY DEF EL!Dispatch
<1>2. \/ /\ reg' = [reg EXCEPT ![u] = 0] /\ flag' = flag
      \/ /\ running' = [reg |-> callback[u], slot |-> u]
         /\ flag' = [flag EXCEPT ![u] = FALSE] /\ reg' = reg
  BY DEF EL!Dispatch
<1>3. /\ Tail(activated) \in Seq(Slots) /\ u \in Slots /\ u \in Elements(activated)
      /\ Elements(activated) = Elements(Tail(activated)) \cup {u}
      /\ Once(Tail(activated)) /\ u \notin Elements(Tail(activated))
  BY <1>1, TailElements DEF LoopInv, LoopTyped
<1> HIDE DEF u
<1>4. \A v \in Slots : callback[v] = reg[v]
  BY <1>1 DEF LoopInv, OwnCallback
<1>5. \A v \in Slots : callback'[v] = IF v = u THEN 0 ELSE reg[v]
  BY <1>1, <1>4 DEF LoopInv, LoopTyped
<1>6. \/ \A v \in Slots : reg'[v] = (IF v = u THEN 0 ELSE reg[v]) /\ flag'[v] = flag[v]
      \/ /\ running' = [reg |-> reg[u], slot |-> u]
         /\ \A v \in Slots : reg'[v] = reg[v] /\ flag'[v] = IF v = u THEN FALSE ELSE flag[v]
  BY <1>2, <1>3, <1>4 DEF LoopInv, LoopTyped
<1>7. LoopTyped'
  <2>1. callback' \in [Slots -> Nat]
    BY <1>1 DEF LoopInv, LoopTyped
  <2>2. reg \in [Slots -> Nat] /\ flag \in [Slots -> BOOLEAN]
    BY DEF LoopInv, LoopTyped
  <2>3. reg' \in [Slots -> Nat] /\ flag' \in [Slots -> BOOLEAN]
    <3>1. [reg EXCEPT ![u] = 0] \in [Slots -> Nat] /\ [flag EXCEPT ![u] = FALSE] \in [Slots -> BOOLEAN]
      BY <2>2
    <3>2. QED BY <1>2, <2>2, <3>1, Zenon
  <2>4. QED BY <1>1, <1>3, <2>1, <2>3 DEF LoopInv, LoopTyped
<1>8. Numbered'
  <2>1. made \in Nat /\ Numbered
    BY DEF LoopInv, LoopTyped
  <2>2. 0 \notin ready' /\ calls' \subseteq 1..made'
    BY <1>1, <2>1 DEF Numbered
  <2>3. \A v \in Slots : reg'[v] \in {0, reg[v]}
    BY <1>6
  <2>4. \A v \in Slots : reg'[v] <= made'
    BY <1>1, <2>1, <2>3 DEF Numbered
  <2>5. \A v, w \in Slots : reg'[v] = reg'[w] /\ reg'[v] # 0 => v = w
    BY <2>1, <2>3 DEF Numbered
  <2>6. QED BY <2>2, <2>4, <2>5 DEF Numbered
<1>9. SleepsIdle'
  BY <1>1 DEF LoopInv, SleepsIdle
<1>10. \A v \in Slots : OwnCallback(v)'
  BY <1>1, <1>5, <1>6 DEF OwnCallback
<1>11. 0 \notin calls /\ callback[u] = reg[u]
  BY <1>3, <1>4 DEF LoopInv, LoopTyped, Numbered
<1>12. \A v \in Slots : Listed(v)'
  BY <1>1, <1>3, <1>6, <1>11 DEF LoopInv, Listed
<1>13. QED BY <1>1, <1>3, <1>7, <1>8, <1>9, <1>10, <1>12 DEF LoopInv

LEMMA LoopReturn ==
    ASSUME LoopSizes, LoopInv, EL!Return
    PROVE  LoopInv'
<1> DEFINE u == running.slot
<1>1. /\ pc = "call" /\ pc' = "dispatch"
      /\ callback' = IF u # 0 /\ reg[u] # 0 /\ callback[u] = 0
                     THEN [callback EXCEPT ![u] = running.reg] ELSE callback
      /\ UNCHANGED <<mode, reg, activated, flag, ready, calls, waker, task, made>>
  BY DEF EL!Return
<1>2. \A v \in Slots : callback[v] # reg[v] =>
          v = u /\ callback[v] = 0 /\ running.reg = reg[v] /\ v # 0
  BY DEF LoopInv, OwnCallback, LoopSizes
<1> HIDE DEF u
<1>3. \A v \in Slots : callback'[v] = reg[v]
  <2>1. SUFFICES ASSUME NEW v \in Slots PROVE callback'[v] = reg[v]
    OBVIOUS
  <2>2. CASE callback[v] # reg[v]
    <3>1. v = u /\ callback[u] = 0 /\ running.reg = reg[u] /\ u # 0 /\ reg[u] # 0
      BY <1>2, <2>2
    <3>2. callback' = [callback EXCEPT ![u] = reg[u]]
      BY <1>1, <3>1
    <3>3. QED BY <3>1, <3>2 DEF LoopInv, LoopTyped
  <2>3. CASE callback[v] = reg[v]
    <3>1. CASE v = u
      <4>1. callback' = callback
        BY <1>1, <2>3, <3>1
      <4>2. QED BY <2>3, <4>1
    <3>2. CASE v # u
      BY <1>1, <2>3, <3>2 DEF LoopInv, LoopTyped
    <3>3. QED BY <3>1, <3>2
  <2>4. QED BY <2>2, <2>3
<1>4. callback' \in [Slots -> Nat]
  <2>1. DOMAIN callback' = Slots /\ callback' = [v \in Slots |-> callback'[v]]
    BY <1>1 DEF LoopInv, LoopTyped
  <2>2. \A v \in Slots : callback'[v] \in Nat
    BY <1>3 DEF LoopInv, LoopTyped
  <2>3. QED BY <2>1, <2>2
<1>5. LoopTyped' /\ SleepsIdle'
  BY <1>1, <1>4 DEF LoopInv, LoopTyped, SleepsIdle
<1>6. Numbered' /\ \A v \in Slots : OwnCallback(v)' /\ Listed(v)'
  BY <1>1, <1>3 DEF LoopInv, Numbered, OwnCallback, Listed
<1>7. QED BY <1>1, <1>5, <1>6 DEF LoopInv

LEMMA LoopOthers ==
    ASSUME LoopSizes, LoopInv,
           (\E r \in EL!Regs : EL!BecomeReady(r)) \/ EL!BeginDispatch \/ EL!exit \/ EL!EndDispatch
    PROVE  LoopInv'
<1>1. UNCHANGED <<mode, reg, callback, activated, flag, running, calls, made>>
  BY DEF EL!BecomeReady, EL!control, EL!BeginDispatch, EL!exit, EL!EndDispatch
<1>2. pc' = "call" <=> pc = "call"
  BY DEF EL!BecomeReady, EL!control, EL!BeginDispatch, EL!exit, EL!EndDispatch
<1>3. LoopTyped'
  BY <1>1 DEF EL!BecomeReady, EL!control, EL!BeginDispatch, EL!exit, EL!EndDispatch, LoopInv, LoopTyped
<1>4. SleepsIdle'
  BY <1>1 DEF EL!BecomeReady, EL!control, EL!BeginDispatch, EL!exit, EL!EndDispatch, LoopInv, SleepsIdle
<1>5. 0 \notin ready'
  BY DEF EL!BecomeReady, EL!Regs, EL!BeginDispatch, EL!exit, EL!EndDispatch, LoopInv, Numbered
<1>6. Numbered' /\ \A v \in Slots : OwnCallback(v)' /\ Listed(v)'
  BY <1>1, <1>2, <1>5 DEF LoopInv, Numbered, OwnCallback, Listed
<1>7. QED BY <1>1, <1>3, <1>4, <1>6 DEF LoopInv

\* However callbacks register and deregister while they run, a slot of the event
\* loop has its own callback and is in the list exactly when it is to be called.
THEOREM LoopInvariance ==
    ASSUME LoopSizes
    PROVE  EL!Spec => []LoopInv
<1>1. ASSUME LoopInv, UNCHANGED EL!vars PROVE LoopInv'
  <2>1. UNCHANGED <<mode, reg, callback, activated, flag, ready, pc, running, calls, waker, task, made>>
    BY <1>1 DEF EL!vars
  <2>2. QED BY <1>1, <2>1 DEF LoopInv, LoopTyped, Numbered, SleepsIdle, OwnCallback, Listed
<1>2. LoopInv /\ [EL!Next]_(EL!vars) => LoopInv'
  BY <1>1, LoopRegister, LoopDeregister, LoopActivate, LoopDispatch, LoopReturn, LoopOthers DEF EL!Next
<1>3. QED BY <1>2, LoopInit, PTL DEF EL!Spec

LEMMA LoopSignals ==
    ASSUME LoopSizes
    PROVE  EL!Spec => []EL!SignalsKept
<1>1. LoopInv => EL!CallbackIsOwn
  <2>1. LoopInv => \A i \in DOMAIN activated : activated[i] \in Slots /\ activated[i] \in Elements(activated)
    BY DEF LoopInv, LoopTyped, Elements
  <2>2. QED BY <2>1 DEF LoopInv, OwnCallback, Listed, EL!CallbackIsOwn
<1>2. ASSUME LoopInv, NEW u \in Slots, reg[u] \in calls
      PROVE  EL!Cardinality({i \in DOMAIN activated : activated[i] = u}) = 1
  <2>1. u \in Elements(activated)
    BY <1>2 DEF LoopInv, Listed
  <2>2. PICK k \in DOMAIN activated : activated[k] = u
    BY <2>1 DEF Elements
  <2>3. {i \in DOMAIN activated : activated[i] = u} = {k}
    BY <1>2, <2>2 DEF LoopInv, Once
  <2>4. Cardinality({k}) = 1
    BY FS_Singleton
  <2>5. EL!Cardinality({k}) = Cardinality({k})
    BY Zenon DEF EL!Cardinality, Cardinality
  <2>6. QED BY <2>3, <2>4, <2>5
<1>3. LoopInv => (activated # <<>> /\ pc = "out" /\ mode = "async" => task \in {"run", "done"})
  BY DEF LoopInv, LoopTyped, SleepsIdle
<1>4. LoopInv => EL!SignalsKept
  BY <1>1, <1>2, <1>3 DEF EL!NoCallLost, EL!SignalsKept
<1>5. QED BY <1>4, LoopInvariance, PTL

-----------------------------------------------------------------------------
(* The ZeroMQ socket, where no message is malformed                        *)

SocketTyped ==
    /\ inbound \in Seq({TRUE}) /\ outbound \in Nat
    /\ commands \subseteq {"in", "out"}
    /\ {router, recvFirst, peer, inAct, outAct, edge, ready, waker, sending, late} \subseteq BOOLEAN
    /\ timer \in {"none", "set", "fired"}
    /\ pc \in {"poll", "recv", "recvUpdate", "send", "sendUpdate", "sleep"}

\* What is in a pipe, and room in one, the socket knows of or has a command about,
\* and a command has signalled the descriptor.
PipesKnown ==
    /\ commands # {} => edge \/ ready
    /\ inbound # <<>> => ZS!Readable
    /\ ZS!Room => ZS!Writable
    /\ ~peer => outbound = 0

\* The events that the code keeps, between a call and the events after it aside.
EventsKnown ==
    /\ pc \notin {"recvUpdate", "sendUpdate"} /\ "in" \notin events => ~inAct
    /\ pc \notin {"recvUpdate", "sendUpdate"} /\ "out" \notin events => ~outAct /\ ~router
    /\ pc # "recvUpdate" /\ "in" \in events => inbound # <<>>
    /\ pc # "sendUpdate" /\ ~router /\ "out" \in events => outbound < Hwm

\* What goes with the places of the task.
TaskPlaces ==
    /\ recvFirst => router
    /\ timer # "none" => sending /\ router
    /\ pc = "sleep" => polled = {}
    /\ pc \in {"recv", "recvUpdate"} => ~ready /\ (pc = "recv" => "in" \in events)
    /\ pc \in {"send", "sendUpdate"} => ~ready /\ sending /\ timer = "none"
    /\ pc \in {"send", "sendUpdate"} /\ ~router => "recv" \notin polled
    /\ pc = "send" => "out" \in events
    /\ pc = "recvUpdate" => result = "ok"
    /\ pc = "sendUpdate" => result \in {"ok", "again"}
    /\ pc = "sendUpdate" /\ result = "again" /\ ~router /\ peer => late
    /\ "recv" \in polled => ~ready
    /\ "recv" \in polled /\ ~recvFirst /\ sending => "send" \in polled

\* A future that waits has found nothing, and has left its waker or a timer.
FuturesWait ==
    /\ (pc = "sleep" \/ "recv" \in polled) /\ timer # "set" => waker
    /\ pc = "sleep" /\ timer # "set" => ~ready
    /\ (pc = "sleep" \/ (pc = "poll" /\ "recv" \in polled)) /\ timer # "set" => ~inAct
    /\ sending /\ ~router /\ "send" \in polled => ~ready
    /\ sending /\ (pc = "sleep" \/ (pc = "poll" /\ "send" \in polled)) =>
          IF router THEN timer = "set" ELSE late \/ ~outAct

SocketInv == SocketTyped /\ PipesKnown /\ EventsKnown /\ TaskPlaces /\ FuturesWait

LEMMA WellFormedSeq ==
    ASSUME NEW T, NEW x \in T, NEW l \in Seq(T)
    PROVE  /\ Append(l, x) \in Seq(T) /\ Append(l, x) # <<>>
           /\ l # <<>> => Tail(l) \in Seq(T) /\ Head(l) \in T
OBVIOUS

LEMMA SeenEvents ==
    /\ "in" \in ZS!Seen <=> ZS!Readable /\ inbound # <<>>
    /\ "out" \in ZS!Seen <=> router \/ (ZS!Writable /\ ZS!Room)
BY DEF ZS!Seen, ZS!Kinds

\* A call that takes the commands leaves the pipes marked as they are.
LEMMA CommandsTaken ==
    ASSUME SocketInv, ZS!TakeCommands
    PROVE  /\ commands' = {} /\ edge' = FALSE /\ {inAct', outAct', edge'} \subseteq BOOLEAN
           /\ inAct' <=> inbound # <<>>
           /\ outAct' <=> ZS!Room
           /\ "in" \in ZS!Seen <=> inAct'
           /\ "out" \in ZS!Seen <=> router \/ outAct'
           /\ outAct' => peer /\ outbound < Hwm
<1>1. /\ commands' = {} /\ edge' = FALSE
      /\ inAct' = (ZS!Readable /\ inbound # <<>>) /\ outAct' = (ZS!Writable /\ ZS!Room)
  BY DEF ZS!TakeCommands
<1>2. (inbound # <<>> => ZS!Readable) /\ (ZS!Room => ZS!Writable)
  BY DEF SocketInv, PipesKnown
<1>3. inAct' \in BOOLEAN /\ outAct' \in BOOLEAN
  BY <1>1, Zenon
<1>4. (inAct' <=> inbound # <<>>) /\ (outAct' <=> ZS!Room)
  BY <1>1, <1>2, Zenon
<1>5. /\ "in" \in ZS!Seen <=> inAct'
      /\ "out" \in ZS!Seen <=> router \/ outAct'
  BY <1>2, <1>4, SeenEvents, Zenon
<1>6. outAct' => peer /\ outbound < Hwm
  BY <1>4 DEF ZS!Room
<1>7. QED BY <1>1, <1>3, <1>4, <1>5, <1>6

LEMMA SocketInit ==
    ASSUME SocketSizes, ZS!Init
    PROVE  SocketInv
<1>1. SocketTyped
  <2>1. {router, recvFirst, peer, inAct, outAct, edge, ready, waker, sending, late} \subseteq BOOLEAN
    BY Zenon DEF ZS!Init
  <2>2. inbound \in Seq({TRUE}) /\ outbound \in Nat
    BY EmptyElements DEF ZS!Init
  <2>3. QED BY <2>1, <2>2 DEF ZS!Init, SocketTyped
<1>2. PipesKnown /\ EventsKnown /\ TaskPlaces /\ FuturesWait
  BY DEF ZS!Init, SocketSizes, PipesKnown, ZS!Readable, ZS!Writable, ZS!Room, EventsKnown, TaskPlaces,
         FuturesWait
<1>3. QED BY <1>1, <1>2 DEF SocketInv

LEMMA SocketPeers ==
    ASSUME SocketSizes, SocketInv,
           (\E w \in BOOLEAN : ZS!PeerSends(w)) \/ ZS!PeerReads \/ ZS!PeerLeaves \/ ZS!PeerJoins
    PROVE  SocketInv'
<1> USE DEF SocketInv, SocketSizes, ZS!kind, ZS!counts
<1>1. CASE \E w \in BOOLEAN : ZS!PeerSends(w)
  <2>1. ZS!PeerSends(TRUE)
    BY <1>1 DEF ZS!PeerSends
  <2>2. inbound' \in Seq({TRUE}) /\ inbound' # <<>>
    <3>1. inbound' = Append(inbound, TRUE) /\ inbound \in Seq({TRUE}) /\ TRUE \in {TRUE}
      BY <2>1, Zenon DEF ZS!PeerSends, SocketTyped
    <3>2. QED BY <3>1, WellFormedSeq, Zenon
  <2>3. late' = late
    BY <2>1 DEF ZS!PeerSends, TaskPlaces, SocketTyped
  <2>4. /\ edge' \in BOOLEAN /\ commands' \subseteq {"in", "out"}
        /\ (inAct \/ "in" \in commands') /\ commands \subseteq commands'
        /\ commands' # {} => edge' \/ ready
    BY <2>1 DEF ZS!PeerSends, ZS!Queue, ZS!Readable, SocketTyped, PipesKnown
  <2>5. UNCHANGED <<router, recvFirst, outbound, peer, inAct, outAct, events, ready, waker, timer, pc,
                    polled, result, sending>>
    BY <2>1 DEF ZS!PeerSends
  <2>6. SocketTyped'
    BY <2>2, <2>3, <2>4, <2>5 DEF SocketTyped
  <2>7. PipesKnown'
    BY <2>2, <2>4, <2>5 DEF PipesKnown, ZS!Readable, ZS!Writable, ZS!Room
  <2>8. QED BY <2>2, <2>3, <2>5, <2>6, <2>7 DEF EventsKnown, TaskPlaces, FuturesWait
<1>2. CASE ZS!PeerReads
  <2>1. outbound' = outbound - 1 /\ outbound > 0 /\ peer /\ outbound' \in Nat
    BY <1>2 DEF ZS!PeerReads, SocketTyped
  <2>2. /\ edge' \in BOOLEAN /\ commands' \subseteq {"in", "out"}
        /\ (outAct \/ "out" \in commands') /\ commands \subseteq commands'
        /\ commands' # {} => edge' \/ ready
    BY <1>2 DEF ZS!PeerReads, ZS!Queue, ZS!Writable, SocketTyped, PipesKnown
  <2>3. UNCHANGED <<router, recvFirst, inbound, peer, inAct, outAct, events, ready, waker, timer, pc,
                    polled, result, sending, late>>
    BY <1>2 DEF ZS!PeerReads
  <2>4. SocketTyped' /\ PipesKnown'
    BY <2>1, <2>2, <2>3 DEF SocketTyped, PipesKnown, ZS!Readable, ZS!Writable, ZS!Room
  <2>5. EventsKnown'
    BY <2>1, <2>3 DEF SocketTyped, EventsKnown
  <2>6. QED BY <2>3, <2>4, <2>5 DEF TaskPlaces, FuturesWait
<1>3. CASE ZS!PeerLeaves
  <2>1. /\ peer' = FALSE /\ outbound' = 0 /\ outAct' = FALSE /\ commands' = commands \ {"out"}
        /\ UNCHANGED <<router, recvFirst, inbound, inAct, edge, events, ready, waker, timer, pc, polled,
                       result, sending, late>>
    BY <1>3 DEF ZS!PeerLeaves
  <2>2. SocketTyped' /\ PipesKnown'
    BY <2>1 DEF SocketTyped, PipesKnown, ZS!Readable, ZS!Writable, ZS!Room
  <2>3. EventsKnown'
    BY <2>1 DEF EventsKnown
  <2>4. QED BY <2>1, <2>2, <2>3 DEF TaskPlaces, FuturesWait
<1>4. CASE ZS!PeerJoins
  <2>1. /\ peer' = TRUE /\ commands' = commands \cup {"out"} /\ edge' = (edge \/ commands = {})
        /\ late' = (late \/ (pc = "sendUpdate" /\ result = "again"))
        /\ UNCHANGED <<router, recvFirst, inbound, outbound, inAct, outAct, events, ready, waker, timer,
                       pc, polled, result, sending>>
    BY <1>4 DEF ZS!PeerJoins, ZS!Queue
  <2>2. late' \in BOOLEAN /\ edge' \in BOOLEAN
    BY <2>1, Zenon DEF SocketTyped
  <2>3. SocketTyped' /\ PipesKnown'
    BY <2>1, <2>2 DEF SocketTyped, PipesKnown, ZS!Readable, ZS!Writable, ZS!Room
  <2>4. EventsKnown'
    BY <2>1 DEF EventsKnown
  <2>5. QED BY <2>1, <2>3, <2>4 DEF TaskPlaces, FuturesWait
<1>5. QED BY <1>1, <1>2, <1>3, <1>4

\* Steps of the task and of its reactor that make no call.
LEMMA SocketTurns ==
    ASSUME SocketSizes, SocketInv,
           ZS!SendBegin \/ ZS!Sleep \/ ZS!ReactorEdge \/ ZS!ReactorTimer
    PROVE  SocketInv'
<1> USE DEF SocketInv, SocketSizes, ZS!kind, ZS!counts, ZS!socket
<1>1. UNCHANGED <<router, recvFirst, inbound, outbound, peer, inAct, outAct, commands, events, result>>
  BY DEF ZS!SendBegin, ZS!Sleep, ZS!ReactorEdge, ZS!ReactorTimer
<1>2. CASE ZS!SendBegin
  BY <1>2 DEF ZS!SendBegin, SocketTyped, PipesKnown, ZS!Readable, ZS!Writable, ZS!Room, EventsKnown,
              TaskPlaces, FuturesWait
<1>3. CASE ZS!Sleep
  BY <1>3 DEF ZS!Sleep, ZS!Done, SocketTyped, PipesKnown, ZS!Readable, ZS!Writable, ZS!Room, EventsKnown,
              TaskPlaces, FuturesWait
<1>4. CASE ZS!ReactorEdge
  <2>1. late' \in BOOLEAN
    BY <1>4, Zenon DEF ZS!ReactorEdge
  <2>2. /\ pc = "sleep" /\ edge' = FALSE /\ ready' = TRUE /\ waker' = FALSE
        /\ pc' = (IF waker THEN "poll" ELSE "sleep") /\ (late' <=> late /\ ~waker)
        /\ UNCHANGED <<timer, polled, sending>>
    BY <1>4 DEF ZS!ReactorEdge
  <2>3. SocketTyped' /\ PipesKnown'
    BY <1>1, <2>1, <2>2 DEF SocketTyped, PipesKnown, ZS!Readable, ZS!Writable, ZS!Room
  <2>4. polled = {} /\ (timer # "set" => waker)
    BY <2>2 DEF TaskPlaces, FuturesWait
  <2>5. EventsKnown' /\ TaskPlaces'
    BY <1>1, <2>2, <2>4 DEF EventsKnown, TaskPlaces
  <2>6. FuturesWait'
    <3>1. CASE waker
      BY <1>1, <2>2, <2>4, <3>1 DEF FuturesWait
    <3>2. CASE ~waker
      BY <1>1, <2>2, <2>4, <3>2 DEF FuturesWait, TaskPlaces
    <3>3. QED BY <3>1, <3>2
  <2>7. QED BY <2>3, <2>5, <2>6
<1>5. CASE ZS!ReactorTimer
  BY <1>5 DEF ZS!ReactorTimer, SocketTyped, PipesKnown, ZS!Readable, ZS!Writable, ZS!Room, EventsKnown,
              TaskPlaces, FuturesWait
<1>6. QED BY <1>2, <1>3, <1>4, <1>5

\* update_if_ready, whichever future asks: the events are those of the pipes.
LEMMA SocketUpdate ==
    ASSUME SocketSizes, SocketInv, ZS!update_if_ready, pc = "poll",
           UNCHANGED <<router, inbound, outbound, peer>>
    PROVE  /\ ready' = FALSE /\ commands' \subseteq {"in", "out"}
           /\ {inAct', outAct', edge'} \subseteq BOOLEAN
           /\ PipesKnown'
           /\ "in" \notin events' => ~inAct'
           /\ "out" \notin events' => ~outAct' /\ ~router
           /\ "in" \in events' => inbound # <<>>
           /\ ~router /\ "out" \in events' => outbound < Hwm
           /\ ~ready => UNCHANGED <<events, commands, edge, inAct, outAct>>
<1>1. CASE ready
  <2>1. events' = ZS!Seen /\ ZS!TakeCommands /\ ready' = FALSE
    BY <1>1 DEF ZS!update_if_ready
  <2>2. /\ commands' = {} /\ edge' = FALSE /\ {inAct', outAct', edge'} \subseteq BOOLEAN
        /\ inAct' <=> inbound # <<>>
        /\ outAct' <=> ZS!Room
        /\ "in" \in ZS!Seen <=> inAct'
        /\ "out" \in ZS!Seen <=> router \/ outAct'
        /\ outAct' => peer /\ outbound < Hwm
    BY <2>1, CommandsTaken
  <2>3. PipesKnown'
    BY <2>1, <2>2 DEF SocketInv, PipesKnown, ZS!Readable, ZS!Writable, ZS!Room
  <2>4. QED BY <1>1, <2>1, <2>2, <2>3
<1>2. CASE ~ready
  <2>1. UNCHANGED <<events, commands, edge, inAct, outAct, ready>> /\ ready = FALSE
    BY <1>2 DEF ZS!update_if_ready, SocketInv, SocketTyped
  <2>2. PipesKnown'
    BY <2>1 DEF SocketInv, PipesKnown, ZS!Readable, ZS!Writable, ZS!Room
  <2>3. QED BY <2>1, <2>2 DEF SocketInv, SocketTyped, EventsKnown
<1>3. QED BY <1>1, <1>2

LEMMA SocketPolls ==
    ASSUME SocketSizes, SocketInv, ZS!PollRecv \/ ZS!PollSend
    PROVE  SocketInv'
<1> USE DEF SocketInv, ZS!kind, ZS!counts
<1>1. CASE ZS!PollRecv
  <2>1. /\ pc = "poll" /\ "recv" \notin polled /\ (recvFirst \/ ~sending \/ "send" \in polled)
        /\ waker' = TRUE /\ ZS!update_if_ready /\ polled' = polled \cup {"recv"}
        /\ pc' = IF "in" \in events' THEN "recv" ELSE "poll"
        /\ UNCHANGED <<router, recvFirst, inbound, outbound, peer, timer, result, sending, late>>
    BY <1>1 DEF ZS!PollRecv, ZS!Turn, ZS!Done
  <2>2. /\ ready' = FALSE /\ commands' \subseteq {"in", "out"}
        /\ {inAct', outAct', edge'} \subseteq BOOLEAN
        /\ PipesKnown'
        /\ "in" \notin events' => ~inAct'
        /\ "out" \notin events' => ~outAct' /\ ~router
        /\ "in" \in events' => inbound # <<>>
        /\ ~router /\ "out" \in events' => outbound < Hwm
        /\ ~ready => UNCHANGED <<events, commands, edge, inAct, outAct>>
    BY <2>1, SocketUpdate
  <2>3. SocketTyped'
    BY <2>1, <2>2 DEF SocketTyped
  <2>4. EventsKnown' /\ TaskPlaces'
    BY <2>1, <2>2 DEF EventsKnown, TaskPlaces
  <2>5. FuturesWait'
    BY <2>1, <2>2 DEF FuturesWait, TaskPlaces
  <2>6. QED BY <2>2, <2>3, <2>4, <2>5
<1>2. CASE ZS!PollSend /\ timer = "set"
  <2>1. /\ pc = "poll" /\ pc' = "poll" /\ sending /\ polled' = polled \cup {"send"}
        /\ UNCHANGED <<router, recvFirst, inbound, outbound, peer, timer, result, sending, late, events,
                       commands, edge, inAct, outAct, ready, waker>>
    BY <1>2 DEF ZS!PollSend, ZS!Turn
  <2>2. QED BY <1>2, <2>1 DEF SocketTyped, PipesKnown, ZS!Readable, ZS!Writable, ZS!Room, EventsKnown,
               TaskPlaces, FuturesWait
<1>3. CASE ZS!PollSend /\ timer # "set"
  <2>1. /\ pc = "poll" /\ "send" \notin polled /\ sending /\ (recvFirst => "recv" \in polled)
        /\ timer' = "none" /\ waker' = TRUE /\ ZS!update_if_ready /\ polled' = polled \cup {"send"}
        /\ pc' = IF "out" \in events' THEN "send" ELSE "poll"
        /\ UNCHANGED <<router, recvFirst, inbound, outbound, peer, result, sending, late>>
    BY <1>3 DEF ZS!PollSend, ZS!Turn, ZS!Done
  <2>2. /\ ready' = FALSE /\ commands' \subseteq {"in", "out"}
        /\ {inAct', outAct', edge'} \subseteq BOOLEAN
        /\ PipesKnown'
        /\ "in" \notin events' => ~inAct'
        /\ "out" \notin events' => ~outAct' /\ ~router
        /\ "in" \in events' => inbound # <<>>
        /\ ~router /\ "out" \in events' => outbound < Hwm
        /\ ~ready => UNCHANGED <<events, commands, edge, inAct, outAct>>
    BY <2>1, SocketUpdate
  <2>3. SocketTyped'
    BY <2>1, <2>2 DEF SocketTyped
  <2>4. EventsKnown' /\ TaskPlaces'
    BY <2>1, <2>2 DEF EventsKnown, TaskPlaces
  <2>5. FuturesWait'
    BY <1>3, <2>1, <2>2 DEF FuturesWait, TaskPlaces
  <2>6. QED BY <2>2, <2>3, <2>4, <2>5
<1>4. QED BY <1>1, <1>2, <1>3

LEMMA SocketCalls ==
    ASSUME SocketSizes, SocketInv, ZS!Recv \/ ZS!Send
    PROVE  SocketInv'
<1> USE DEF SocketInv, SocketSizes, ZS!kind, ZS!counts
<1>1. ZS!TakeCommands
  BY DEF ZS!Recv, ZS!Send
<1>2. /\ commands' = {} /\ {inAct', outAct', edge'} \subseteq BOOLEAN
      /\ inAct' <=> inbound # <<>>
      /\ outAct' <=> ZS!Room
      /\ outAct' => peer /\ outbound < Hwm
  BY <1>1, CommandsTaken
<1>3. CASE ZS!Recv
  <2>1. /\ pc = "recv" /\ pc' = "recvUpdate"
        /\ UNCHANGED <<router, recvFirst, outbound, peer, events, ready, waker, timer, polled, sending, late>>
    BY <1>3 DEF ZS!Recv
  <2>2. inbound # <<>> /\ inbound \in Seq({TRUE})
    BY <2>1 DEF TaskPlaces, EventsKnown, SocketTyped
  <2>3. inbound' \in Seq({TRUE}) /\ result' = "ok"
    <3>1. TRUE \in {TRUE}
      BY Zenon
    <3>2. Tail(inbound) \in Seq({TRUE}) /\ Head(inbound) \in {TRUE}
      BY <2>2, <3>1, WellFormedSeq, Zenon
    <3>3. Head(inbound) = TRUE
      BY <3>2, Zenon
    <3>4. inbound' = Tail(inbound) /\ result' = IF Head(inbound) THEN "ok" ELSE "invalid"
      BY <1>3, <2>2 DEF ZS!Recv
    <3>5. QED BY <3>2, <3>3, <3>4, Zenon
  <2>4. SocketTyped'
    BY <1>2, <2>1, <2>3 DEF SocketTyped
  <2>5. PipesKnown'
    BY <1>2, <2>1, <2>2 DEF PipesKnown, ZS!Readable, ZS!Writable, ZS!Room
  <2>6. EventsKnown' /\ TaskPlaces' /\ FuturesWait'
    BY <2>1, <2>3 DEF EventsKnown, TaskPlaces, FuturesWait
  <2>7. QED BY <2>4, <2>5, <2>6
<1>4. CASE ZS!Send
  <2>1. /\ pc = "send" /\ pc' = "sendUpdate"
        /\ UNCHANGED <<router, recvFirst, inbound, peer, events, ready, waker, timer, polled, sending, late>>
    BY <1>4 DEF ZS!Send
  <2>2. \/ ZS!Room /\ result' = "ok" /\ outbound' = outbound + 1
        \/ ~ZS!Room /\ result' = "again" /\ outbound' = outbound
    BY <1>4 DEF ZS!Send, PipesKnown
  <2>3. SocketTyped'
    BY <1>2, <2>1, <2>2 DEF SocketTyped
  <2>4. PipesKnown'
    BY <1>2, <2>1, <2>2 DEF SocketTyped, PipesKnown, ZS!Readable, ZS!Writable, ZS!Room
  <2>5. EventsKnown'
    BY <2>1 DEF EventsKnown
  <2>6. result' = "again" /\ ~router => ~peer
    BY <2>1, <2>2 DEF EventsKnown, TaskPlaces, ZS!Room
  <2>7. TaskPlaces' /\ FuturesWait'
    BY <2>1, <2>2, <2>6 DEF TaskPlaces, FuturesWait
  <2>8. QED BY <2>3, <2>4, <2>5, <2>7
<1>5. QED BY <1>3, <1>4

LEMMA SocketSettles ==
    ASSUME SocketSizes, SocketInv, ZS!RecvUpdate \/ ZS!SendUpdate
    PROVE  SocketInv'
<1> USE DEF SocketInv, SocketSizes, ZS!kind, ZS!counts
<1>1. /\ events' = ZS!Seen /\ ZS!TakeCommands /\ pc' = "poll" /\ pc \in {"recvUpdate", "sendUpdate"}
      /\ UNCHANGED <<router, recvFirst, inbound, outbound, peer, ready, late>>
  BY DEF ZS!RecvUpdate, ZS!SendUpdate, TaskPlaces
<1>2. /\ commands' = {} /\ edge' = FALSE /\ {inAct', outAct', edge'} \subseteq BOOLEAN
      /\ inAct' <=> inbound # <<>>
      /\ outAct' <=> ZS!Room
      /\ "in" \in ZS!Seen <=> inAct'
      /\ "out" \in ZS!Seen <=> router \/ outAct'
      /\ outAct' => peer /\ outbound < Hwm
  BY <1>1, CommandsTaken
<1>3. PipesKnown'
  BY <1>1, <1>2 DEF PipesKnown, ZS!Readable, ZS!Writable, ZS!Room
<1>4. EventsKnown'
  BY <1>1, <1>2 DEF EventsKnown
<1>5. CASE ZS!RecvUpdate
  <2>1. waker' = FALSE /\ polled' = {} /\ UNCHANGED <<timer, sending>>
    BY <1>5 DEF ZS!RecvUpdate, TaskPlaces
  <2>2. SocketTyped' /\ TaskPlaces' /\ FuturesWait'
    BY <1>1, <1>2, <2>1 DEF SocketTyped, TaskPlaces, FuturesWait
  <2>3. QED BY <1>3, <1>4, <2>2
<1>6. CASE ZS!SendUpdate
  <2>1. pc = "sendUpdate"
    BY <1>6 DEF ZS!SendUpdate
  <2>2. CASE /\ result = "ok"
             /\ sending' = FALSE /\ polled' = {} /\ waker' = FALSE
             /\ UNCHANGED timer
    BY <1>1, <1>2, <1>3, <1>4, <2>1, <2>2 DEF SocketTyped, TaskPlaces, FuturesWait
  <2>3. CASE /\ result = "again"
             /\ timer' = IF router THEN "set" ELSE timer
             /\ waker' = ~router
             /\ UNCHANGED <<sending, polled>>
    <3>1. waker' \in BOOLEAN
      BY <2>3, Zenon
    <3>2. ~ready /\ sending /\ timer = "none" /\ (~router /\ peer => late)
      BY <2>1, <2>3 DEF TaskPlaces
    <3>3. SocketTyped' /\ TaskPlaces'
      BY <1>1, <1>2, <2>3, <3>1, <3>2 DEF SocketTyped, TaskPlaces
    <3>4. CASE router
      <4>1. timer' = "set" /\ router' /\ pc' = "poll"
        BY <1>1, <2>3, <3>4
      <4>2. QED BY <1>3, <1>4, <3>3, <4>1 DEF FuturesWait
    <3>5. CASE ~router
      <4>1. waker' /\ ~router' /\ pc' = "poll" /\ ~ready' /\ polled' = polled /\ ~recvFirst'
        BY <1>1, <2>3, <3>2, <3>5 DEF TaskPlaces
      <4>2. late' \/ ~outAct'
        BY <1>1, <1>2, <3>2, <3>5
      <4>3. "recv" \notin polled
        BY <2>1, <2>3, <3>2, <3>5 DEF TaskPlaces
      <4>4. QED BY <1>3, <1>4, <3>3, <4>1, <4>2, <4>3 DEF FuturesWait
    <3>6. QED BY <3>4, <3>5
  <2>4. QED BY <1>6, <2>2, <2>3 DEF ZS!SendUpdate
<1>7. QED BY <1>5, <1>6

\* A future of the ZeroMQ socket waits only after it has found nothing in the
\* pipe, and the pipes, the commands about them, the descriptor's signal and the
\* events that the code keeps agree, for any high-water mark and any traffic of
\* well-formed messages.
THEOREM SocketInvariance ==
    ASSUME SocketSizes
    PROVE  ZS!Spec => []SocketInv
<1>1. ASSUME SocketInv, UNCHANGED ZS!vars PROVE SocketInv'
  <2>1. UNCHANGED <<router, recvFirst, inbound, outbound, peer, inAct, outAct, commands, edge, events,
                    ready, waker, timer, pc, polled, result, sending, late>>
    BY <1>1 DEF ZS!vars, ZS!kind, ZS!socket, ZS!counts
  <2>2. QED BY <1>1, <2>1 DEF SocketInv, SocketTyped, PipesKnown, ZS!Readable, ZS!Writable, ZS!Room,
               EventsKnown, TaskPlaces, FuturesWait
<1>2. SocketInv /\ [ZS!Next]_(ZS!vars) => SocketInv'
  BY <1>1, SocketPeers, SocketTurns, SocketPolls, SocketCalls, SocketSettles DEF ZS!Next
<1>3. QED BY <1>2, SocketInit, PTL DEF ZS!Spec

LEMMA SocketSignals ==
    ASSUME SocketSizes
    PROVE  ZS!Spec => []ZS!NoLostSignal
<1>1. ASSUME SocketInv, pc = "sleep", timer = "none", ~(edge /\ waker), ~late
      PROVE  inbound = <<>> /\ ~(sending /\ ZS!Room)
  <2>1. waker /\ ~ready /\ ~inAct
    BY <1>1 DEF SocketInv, FuturesWait
  <2>2. commands = {}
    BY <1>1, <2>1 DEF SocketInv, PipesKnown
  <2>3. sending => ~outAct
    BY <1>1 DEF SocketInv, FuturesWait
  <2>4. QED BY <1>1, <2>1, <2>2, <2>3 DEF SocketInv, PipesKnown, ZS!Readable, ZS!Writable
<1>2. SocketInv => ZS!NoLostSignal
  BY <1>1 DEF ZS!NoLostSignal
<1>3. QED BY <1>2, SocketInvariance, PTL

-----------------------------------------------------------------------------
(* The services together.  A behaviour of Services is one of the service   *)
(* that its variable part names, so that it has what was proved of it.     *)

LEMMA ListenerRuns ==
    Spec => [](part = "listener" => LI!ConnectionsPlaced /\ LI!TurnsTaken)
<1>1. part = "listener" /\ Init => LI!Init
  BY DEF Init
<1>2. part = "listener" /\ [Next]_vars => [LI!Next]_(LI!vars) /\ (part = "listener")'
  BY DEF Next, vars, shared, listenerOwn, LI!vars
<1>3. ~(part = "listener") /\ [Next]_vars => ~(part = "listener")'
  BY DEF Next, vars
<1>4. LI!Spec => [](LI!ConnectionsPlaced /\ LI!TurnsTaken)
  BY ListenerServes, ServicesAssumption
<1>5. QED BY <1>1, <1>2, <1>3, <1>4, PTL DEF Spec, LI!Spec

LEMMA ManagerRuns ==
    Spec => [](part = "manager" => SM!HandlesServed /\ SM!HandlesFit)
<1>1. part = "manager" /\ Init => SM!Init
  BY DEF Init
<1>2. part = "manager" /\ [Next]_vars => [SM!Next]_(SM!vars) /\ (part = "manager")'
  BY DEF Next, vars, shared, managerOwn, SM!vars, SM!owners, SM!pipes
<1>3. ~(part = "manager") /\ [Next]_vars => ~(part = "manager")'
  BY DEF Next, vars
<1>4. SM!Spec => [](SM!HandlesServed /\ SM!HandlesFit)
  BY ManagerServes, ServicesAssumption
<1>5. QED BY <1>1, <1>2, <1>3, <1>4, PTL DEF Spec, SM!Spec

LEMMA CertsRuns ==
    Spec => [](part = "certs" => IC!ServedIsCurrent)
<1>1. part = "certs" /\ Init => IC!Init
  BY DEF Init
<1>2. part = "certs" /\ [Next]_vars => [IC!Next]_(IC!vars) /\ (part = "certs")'
  BY DEF Next, vars, shared, certsOwn, IC!vars
<1>3. ~(part = "certs") /\ [Next]_vars => ~(part = "certs")'
  BY DEF Next, vars
<1>4. IC!Spec => [](IC!ServedIsCurrent)
  BY CacheServes, ServicesAssumption
<1>5. QED BY <1>1, <1>2, <1>3, <1>4, PTL DEF Spec, IC!Spec

LEMMA ResolverRuns ==
    Spec => [](part = "resolver" => RS!QueriesAnswered)
<1>1. part = "resolver" /\ Init => RS!Init
  BY DEF Init
<1>2. part = "resolver" /\ [Next]_vars => [RS!Next]_(RS!vars) /\ (part = "resolver")'
  BY DEF Next, vars, shared, resolverOwn, RS!vars
<1>3. ~(part = "resolver") /\ [Next]_vars => ~(part = "resolver")'
  BY DEF Next, vars
<1>4. RS!Spec => [](RS!QueriesAnswered)
  BY ResolverAnswers, ServicesAssumption
<1>5. QED BY <1>1, <1>2, <1>3, <1>4, PTL DEF Spec, RS!Spec

LEMMA SyncRuns ==
    Spec => [](part = "sync" => SY!SignalsKept)
<1>1. part = "sync" /\ Init => SY!Init
  BY DEF Init
<1>2. part = "sync" /\ [Next]_vars => [SY!Next]_(SY!vars) /\ (part = "sync")'
  BY DEF Next, vars, shared, syncOwn, SY!vars
<1>3. ~(part = "sync") /\ [Next]_vars => ~(part = "sync")'
  BY DEF Next, vars
<1>4. SY!Spec => [](SY!SignalsKept)
  BY SyncSignals, ServicesAssumption
<1>5. QED BY <1>1, <1>2, <1>3, <1>4, PTL DEF Spec, SY!Spec

LEMMA LocalRuns ==
    Spec => [](part = "local" => LC!SignalsKept)
<1>1. part = "local" /\ Init => LC!Init
  BY DEF Init
<1>2. part = "local" /\ [Next]_vars => [LC!Next]_(LC!vars) /\ (part = "local")'
  BY DEF Next, vars, shared, localOwn, LC!vars
<1>3. ~(part = "local") /\ [Next]_vars => ~(part = "local")'
  BY DEF Next, vars
<1>4. LC!Spec => [](LC!SignalsKept)
  BY LocalSignals, ServicesAssumption
<1>5. QED BY <1>1, <1>2, <1>3, <1>4, PTL DEF Spec, LC!Spec

LEMMA LoopRuns ==
    Spec => [](part = "loop" => EL!SignalsKept)
<1>1. part = "loop" /\ Init => EL!Init
  BY DEF Init
<1>2. part = "loop" /\ [Next]_vars => [EL!Next]_(EL!vars) /\ (part = "loop")'
  BY DEF Next, vars, shared, loopOwn, EL!vars
<1>3. ~(part = "loop") /\ [Next]_vars => ~(part = "loop")'
  BY DEF Next, vars
<1>4. EL!Spec => [](EL!SignalsKept)
  BY LoopSignals, ServicesAssumption
<1>5. QED BY <1>1, <1>2, <1>3, <1>4, PTL DEF Spec, EL!Spec

LEMMA ZmqRuns ==
    Spec => [](part = "zmq" => ZS!NoLostSignal)
<1>1. part = "zmq" /\ Init => ZS!Init
  BY DEF Init
<1>2. part = "zmq" /\ [Next]_vars => [ZS!Next]_(ZS!vars) /\ (part = "zmq")'
  BY DEF Next, vars, shared, zmqOwn, ZS!vars, ZS!kind, ZS!socket, ZS!counts
<1>3. ~(part = "zmq") /\ [Next]_vars => ~(part = "zmq")'
  BY DEF Next, vars
<1>4. ZS!Spec => [](ZS!NoLostSignal)
  BY SocketSignals, ServicesAssumption
<1>5. QED BY <1>1, <1>2, <1>3, <1>4, PTL DEF Spec, ZS!Spec

\* The managers of the connection manager's workers, for every number of
\* workers, sockets, handles and packets: each open handle is given exactly the
\* packets for it, once and in order, while others come, go or are full
\* (zhttpsocket.rs), and each accepted connection goes, in turn, to a worker with
\* room for it (listener.rs).
THEOREM HandlesAlwaysServed == Spec => []HandlesServed
<1>1. HandlesServed <=> /\ part = "manager" => SM!HandlesServed /\ SM!HandlesFit
                        /\ part = "listener" => LI!ConnectionsPlaced /\ LI!TurnsTaken
  BY DEF HandlesServed
<1>2. QED BY <1>1, ManagerRuns, ListenerRuns, PTL

\* What is looked up is what was asked for: a query gets the addresses of its
\* own host and none is forgotten, for every number of threads, slots and
\* connections (resolver.rs), and every handshake gets the certificate that is
\* in the files, for every number of workers, names and writes (tls.rs).
THEOREM QueriesAlwaysAnswered == Spec => []QueriesAnswered
<1>1. QueriesAnswered <=> /\ part = "resolver" => RS!QueriesAnswered
                          /\ part = "certs" => IC!ServedIsCurrent
  BY DEF QueriesAnswered
<1>2. QED BY <1>1, ResolverRuns, CertsRuns, PTL

\* No signal is lost, whatever the bounds: senders and receivers of both kinds
\* of channel hear of room and of values (channel.rs); the event loop runs the
\* callback whose readiness was delivered, for its own registration
\* (eventloop.rs); and a ZeroMQ socket whose messages are well formed hears of a
\* message and of room (zmq.rs).
THEOREM SignalsAlwaysKept == Spec => []SignalsKept
<1>1. SignalsKept <=> /\ part = "local" => LC!SignalsKept
                      /\ part = "sync" => SY!SignalsKept
                      /\ part = "loop" => EL!SignalsKept
                      /\ part = "zmq" => ZS!NoLostSignal
  BY DEF SignalsKept
<1>2. QED BY <1>1, LocalRuns, SyncRuns, LoopRuns, ZmqRuns, PTL
=============================================================================
