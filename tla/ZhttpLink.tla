------------------------------ MODULE ZhttpLink ------------------------------
(***************************************************************************)
(* The ZHTTP link between the server connections and the client            *)
(* connections of the connection manager (src/src/connmgr/connection.rs):  *)
(* packets, sequence numbers, addresses and credits.  A server connection  *)
(* turns each request of its HTTP client into a ZHTTP session; a client    *)
(* connection serves one such session.  Packet bodies are byte counts.     *)
(***************************************************************************)
EXTENDS Integers, Sequences, FiniteSets

CONSTANTS
  BufSize,     \* buffer_size: capacity of the socket buffers, and the block size
  TmpSize,     \* size of the shared tmp_buf a body packet is read into
  QueueMax,    \* packets a sender's channel holds before check_send waits
  SessionMax,  \* bound: ZHTTP sessions, one per request on the connection
  ExpandMax,   \* blocks_max - 2: blocks a buffer may grow by
  LossMax,     \* bound: packets the relay loses
  HandoffMax,  \* bound: handoffs the relay starts
  FaultMax     \* bound: losses and handoffs together

ASSUME LinkAssumption ==
  /\ {BufSize, TmpSize, QueueMax, SessionMax} \subseteq Nat \ {0}
  /\ {ExpandMax, LossMax, HandoffMax, FaultMax} \subseteq Nat

VARIABLES
  toSrv,       \* packets on their way to the server connection
  toCli,       \* per session, packets on their way to the client connection
  relay        \* the handler in between, see Relay

linkVars == <<toSrv, toCli, relay>>

Sessions == 1 .. SessionMax

\* The packet types the connections send each other.
PacketType == {"data", "credit", "keepAlive", "handoffStart", "error", "cancel"}

Packet == [t: PacketType, id: Sessions, n: Nat, more: BOOLEAN, cr: Nat]

NoPacket == [t |-> "none"]

\* The handler between the connections passes packets on.  held is the side
\* whose packets wait while the other one is handed off, id the session, and
\* proceed that the other one agreed, in a packet that the relay keeps.  Each
\* side numbers the packets of a session one by one, so a packet has the number
\* its receiver expects unless one before it was lost: lost holds the receivers
\* and sessions that happened to.  Packets are routed by session: those sent to
\* a server connection that has moved on from the session find nobody.
Relay == [held: {"none", "srv", "cli"}, id: Sessions, proceed: BOOLEAN, current: Sessions,
          handoffs: 0 .. HandoffMax, lost: SUBSET ({"srv", "cli"} \X Sessions)]

LinkInit ==
  /\ toSrv = <<>>
  /\ toCli = [i \in Sessions |-> <<>>]
  /\ relay = [held |-> "none", id |-> 1, proceed |-> FALSE, current |-> 1, handoffs |-> 0,
              lost |-> {}]

Data(n, more, cr) == [t |-> "data", n |-> n, more |-> more, cr |-> cr]
Plain(t) == [t |-> t, n |-> 0, more |-> FALSE, cr |-> 0]
Credit(cr) == [Plain("credit") EXCEPT !.cr = cr]

\* The ids entry a session adds to an outgoing packet.
Stamp(p, id) == [t |-> p.t, id |-> id, n |-> p.n, more |-> p.more, cr |-> p.cr]

\* Errors that the handler caused: no cancel is sent for them.
HandlerCaused == {"BadMessage", "Handler", "HandlerCancel"}

\* select_4 returns at once on these, without a word to the peer.
Silent == {"SessionTimeout", "Stopped"}

\* What handle_other makes of a packet that the current phase does not read:
\* "ok", the start of a handoff, or an error.
HandleOther(p) ==
  CASE p.t \in {"keepAlive", "credit"} -> "ok"
    [] p.t = "handoffStart" -> "handoff"
    [] p.t = "error" -> "Handler"
    [] p.t = "cancel" -> "HandlerCancel"
    [] OTHER -> "BadMessage"

\* The same for a client connection.
ServerHandleOther(p) ==
  CASE p.t \in {"keepAlive", "credit"} -> "ok"
    [] p.t = "handoffStart" -> "handoff"
    [] p.t = "error" -> "Handler"
    [] p.t = "cancel" -> "HandlerCancel"
    [] OTHER -> "BadMessage"

\* BufferBudget::expand_buffer_if_needed on a buffer that holds used of cap
\* bytes: the number of bytes it grows by.
ExpandBufferIfNeeded(used, cap) ==
  IF used = cap /\ cap < BufSize * (1 + ExpandMax) THEN BufSize ELSE 0

\* Room in the channel a connection sends through: check_send resolves.
SrvRoom(id) == relay.held # "srv" /\ Len(toCli[id]) < QueueMax
CliRoom == relay.held # "cli" /\ Len(toSrv) < QueueMax

\* A handoffProceed packet reaches the relay.
SendProceed == relay' = [relay EXCEPT !.proceed = TRUE]

Min(a, b) == IF a < b THEN a ELSE b
=============================================================================
