----------------------------- MODULE TlsStream -----------------------------
(***************************************************************************)
(* AsyncTlsStream (src/connmgr/tls.rs): the four operations of a TLS       *)
(* stream share one socket, of which each may need either direction.  The  *)
(* reactor reports an edge of the socket once, to TlsWaker, which gives it *)
(* to every operation, with a readiness and a waker of its own.            *)
(*                                                                         *)
(* The socket and the TLS library are external.  Bytes count as units: a   *)
(* record is two, of which a read takes one.                               *)
(***************************************************************************)
EXTENDS Naturals, Sequences, SequencesExt

CONSTANTS Flights,     \* the handshakes: what the stream reads and writes in turn
          Renewals,    \* the handshakes a peer may ask for later
          InMax,       \* records the peer sends
          OutMax,      \* room of the socket for what is written
          RenewMax, MoveMax, RoundMax  \* bounds of renewals, moves and operations

Ops == {"handshake", "shutdown", "read", "write"}
Sides == {"r", "w"}

VARIABLES tls,     \* TlsStream: stage, and what the library has left to do
          sock,    \* the socket: records in, eof, room, and the edges not yet reported
          op,      \* TlsOp: readiness and the interest of its waker
          wants,   \* interests_for_handshake, ... _shutdown, ... _read, ... _write
          fut,     \* the futures: "none", "pending" or "woken"
          count    \* of what is bounded

vars == <<tls, sock, op, wants, fut, count>>

NoOp == [ready |-> Sides, waker |-> {}]

\* TlsStream::connect and TlsAcceptor::accept have made a first attempt, in
\* vain; I/O is assumed to be ready.
Init ==
    /\ \E h \in Flights : tls = [stage |-> "mid", hs |-> h, pend |-> 0]
    /\ sock = [in |-> 0, eof |-> FALSE, out |-> OutMax, full |-> FALSE, edge |-> {}]
    /\ op = [o \in Ops |-> NoOp]
    /\ wants = [o \in Ops |-> {}]
    /\ fut = [o \in Ops |-> "none"]
    /\ count = [in |-> 0, renew |-> 0, move |-> 0, round |-> 0]

-----------------------------------------------------------------------------
(* The library: each call goes as far as the socket lets it.               *)

\* One flight of a handshake, if the socket allows it.
Flight(x) ==
    CASE x.tls.hs = <<>> -> x
      [] x.tls.hs # <<>> /\ Head(x.tls.hs) = "read" /\ x.sock.in > 0 ->
            [x EXCEPT !.tls.hs = Tail(@), !.sock.in = @ - 1]
      [] x.tls.hs # <<>> /\ Head(x.tls.hs) = "write" /\ x.sock.out > 0 ->
            [x EXCEPT !.tls.hs = Tail(@), !.sock.out = @ - 1]
      [] OTHER -> x

Advance(x) == FoldLeft(LAMBDA y, f : Flight(y), x, x.tls.hs)

\* The results of a call: done, failed, or an interest it waits for; a socket
\* that had no room tells when it has.
Done(x) == [x EXCEPT !.res = "ok"]
Fail(x) == [x EXCEPT !.res = "err"]
Block(x, side) == [x EXCEPT !.res = "block", !.want = {side},
                            !.sock.full = @ \/ side = "w"]

\* A handshake that has not come to its end.
Stuck(x) ==
    IF Head(x.tls.hs) = "write" THEN Block(x, "w")
    ELSE IF x.sock.eof THEN Fail(x) ELSE Block(x, "r")

\* MidHandshakeSslStream::handshake
handshake(x) ==
    LET y == Advance(x)
    IN  IF y.tls.hs = <<>> THEN Done([y EXCEPT !.tls.stage = "ssl"])
        ELSE LET z == Stuck(y) IN IF z.res = "err" THEN [z EXCEPT !.tls.stage = "none"] ELSE z

ensure_handshake(x) ==
    CASE x.tls.stage = "ssl" -> Done(x)
      [] x.tls.stage = "mid" -> handshake(x)
      [] x.tls.stage = "none" -> Fail(x)

\* SslStream::ssl_read and ssl_write, which also renew keys.
library_read(x) ==
    LET y == Advance(x)
    IN  CASE y.tls.hs # <<>> -> Stuck(y)
          [] y.tls.hs = <<>> /\ y.tls.pend > 0 -> Done([y EXCEPT !.tls.pend = @ - 1])
          [] y.tls.hs = <<>> /\ y.tls.pend = 0 /\ y.sock.in > 0 ->
                Done([y EXCEPT !.sock.in = @ - 1, !.tls.pend = 1])
          [] OTHER -> IF y.sock.eof THEN Done(y) ELSE Block(y, "r")

library_write(x) ==
    LET y == Advance(x)
    IN  IF y.tls.hs # <<>> THEN Stuck(y)
        ELSE IF y.sock.out > 0 THEN Done([y EXCEPT !.sock.out = @ - 1]) ELSE Block(y, "w")

-----------------------------------------------------------------------------
(* TlsStream                                                               *)

\* ssl_read and ssl_write: what the handshake waits for, they wait for.
WithHandshake(x, call(_)) ==
    LET y == ensure_handshake(x) IN IF y.res = "ok" THEN call(y) ELSE y

ssl_read(x) == WithHandshake(x, library_read)
ssl_write(x) == WithHandshake(x, library_write)

shutdown(x) ==
    IF x.tls.stage # "ssl" THEN Fail(x)
    ELSE IF x.sock.out > 0 THEN Done([x EXCEPT !.sock.out = @ - 1]) ELSE Block(x, "w")

Call(o, x) ==
    CASE o = "handshake" -> ensure_handshake(x)
      [] o = "shutdown" -> shutdown(x)
      [] o = "read" -> ssl_read(x)
      [] o = "write" -> ssl_write(x)

\* A call of an operation on the stream as it is.
Called(o) == Call(o, [tls |-> tls, sock |-> sock, want |-> {}, res |-> "ok"])

\* interests_for_read and interests_for_write are taken from the handshake's
\* only by their own calls, which leave the handshake's own interest behind.
WantsAfter(o, x) ==
    LET mid == tls.stage = "mid" /\ x.tls.stage = "mid"
    IN  [p \in Ops |-> IF p = o THEN x.want
                       ELSE IF p = "handshake" /\ o # "shutdown" THEN IF mid THEN x.want ELSE {}
                       ELSE wants[p]]

-----------------------------------------------------------------------------
(* AsyncTlsStream                                                          *)

\* The halves of the stream are used at the same time, each for one thing; the
\* handshake has the stream to itself.
MayStart(o) ==
    /\ fut[o] = "none" /\ fut["handshake"] = "none"
    /\ o = "handshake" => \A p \in Ops : fut[p] = "none"
    /\ o \in {"write", "shutdown"} => fut["write"] = "none" /\ fut["shutdown"] = "none"

Start(o) ==
    /\ MayStart(o) /\ count.round < RoundMax
    /\ fut' = [fut EXCEPT ![o] = "woken"]
    /\ count' = [count EXCEPT !.round = @ + 1]
    /\ UNCHANGED <<tls, sock, op, wants>>

\* TlsOp::clear_readiness
clear_readiness(t, interests) == [t EXCEPT !.ready = @ \ interests]

\* do_poll, of a future that was woken or whose task was woken for another; one
\* that is done is dropped, which takes its waker away.
do_poll(o) ==
    /\ fut[o] # "none"
    /\ IF wants[o] # {} /\ op[o].ready \cap wants[o] = {}
       THEN /\ op' = [op EXCEPT ![o].waker = wants[o]]
            /\ fut' = [fut EXCEPT ![o] = "pending"]
            /\ UNCHANGED <<tls, sock, wants>>
       ELSE LET x == Called(o)
            IN  /\ tls' = x.tls /\ sock' = x.sock
                /\ wants' = WantsAfter(o, x)
                /\ IF x.res = "block"
                   THEN /\ op' = [op EXCEPT ![o] =
                                    [clear_readiness(@, x.want) EXCEPT !.waker = x.want]]
                        /\ fut' = [fut EXCEPT ![o] = "pending"]
                   ELSE /\ fut' = [fut EXCEPT ![o] = "none"]
                        /\ op' = [op EXCEPT ![o].waker = {}]
    /\ UNCHANGED count

\* pull_from_budget_with_waker: the budget is used up, the task wakes itself.
NoBudget(o) ==
    /\ fut[o] # "none"
    /\ wants[o] = {} \/ op[o].ready \cap wants[o] # {}
    /\ fut' = [fut EXCEPT ![o] = "woken"]
    /\ UNCHANGED <<tls, sock, op, wants, count>>

\* AsyncRead::cancel, AsyncWrite::cancel and EnsureHandshakeFuture::drop.
cancel(o) ==
    /\ fut[o] # "none"
    /\ fut' = [fut EXCEPT ![o] = "none"]
    /\ LET cleared == IF o \in {"write", "shutdown"} THEN {"write", "shutdown"} ELSE {o}
       IN  op' = [p \in Ops |-> IF p \in cleared THEN [op[p] EXCEPT !.waker = {}] ELSE op[p]]
    /\ UNCHANGED <<tls, sock, wants, count>>

\* TlsOp::apply_readiness
apply_readiness(o, edge) == [op[o] EXCEPT !.ready = @ \cup edge,
    !.waker = IF (edge \ op[o].ready) \cap @ # {} THEN {} ELSE @]

\* The reactor reports the edges to TlsWaker::wake.
wake ==
    /\ sock.edge # {}
    /\ sock' = [sock EXCEPT !.edge = {}]
    /\ op' = [o \in Ops |-> apply_readiness(o, sock.edge)]
    /\ fut' = [o \in Ops |-> IF fut[o] = "pending" /\ (sock.edge \ op[o].ready) \cap op[o].waker # {}
                             THEN "woken" ELSE fut[o]]
    /\ UNCHANGED <<tls, wants, count>>

\* into_std and from_std: the stream goes to another thread between operations.
\* The new registration is assumed to be ready, and reports what the socket is.
Move ==
    /\ \A o \in Ops : fut[o] = "none"
    /\ count.move < MoveMax /\ count' = [count EXCEPT !.move = @ + 1]
    /\ op' = [o \in Ops |-> NoOp]
    /\ sock' = [sock EXCEPT !.edge = (IF sock.in > 0 \/ sock.eof THEN {"r"} ELSE {})
                                     \cup (IF sock.out > 0 THEN {"w"} ELSE {})]
    /\ UNCHANGED <<tls, wants, fut>>

-----------------------------------------------------------------------------
(* The peer, through the socket                                            *)

PeerSends ==
    /\ ~sock.eof /\ count.in < InMax
    /\ count' = [count EXCEPT !.in = @ + 1]
    /\ sock' = [sock EXCEPT !.in = @ + 1, !.edge = @ \cup {"r"}]
    /\ UNCHANGED <<tls, op, wants, fut>>

PeerCloses ==
    /\ ~sock.eof
    /\ sock' = [sock EXCEPT !.eof = TRUE, !.edge = @ \cup {"r"}]
    /\ UNCHANGED <<tls, op, wants, fut, count>>

\* What was written leaves; an edge only for a writer that found no room.
Drain ==
    /\ sock.out < OutMax
    /\ sock' = [sock EXCEPT !.out = @ + 1, !.full = FALSE,
                            !.edge = IF sock.full THEN @ \cup {"w"} ELSE @]
    /\ UNCHANGED <<tls, op, wants, fut, count>>

\* A record asks for new keys.
Renew ==
    /\ tls.stage = "ssl" /\ tls.hs = <<>> /\ ~sock.eof
    /\ count.renew < RenewMax /\ count' = [count EXCEPT !.renew = @ + 1]
    /\ \E h \in Renewals : tls' = [tls EXCEPT !.hs = h]
    /\ sock' = [sock EXCEPT !.in = @ + 1, !.edge = @ \cup {"r"}]
    /\ UNCHANGED <<op, wants, fut>>

Next ==
    \/ \E o \in Ops : Start(o) \/ do_poll(o) \/ NoBudget(o) \/ cancel(o)
    \/ wake \/ Move
    \/ PeerSends \/ PeerCloses \/ Drain \/ Renew

Spec == Init /\ [][Next]_vars

-----------------------------------------------------------------------------
(* Properties                                                              *)

TypeOK ==
    /\ tls.stage \in {"mid", "ssl", "none"} /\ tls.pend \in 0..1
    /\ sock.in \in 0..(InMax + RenewMax) /\ sock.out \in 0..OutMax /\ sock.edge \subseteq Sides
    /\ op \in [Ops -> [ready : SUBSET Sides, waker : SUBSET Sides]]
    /\ wants \in [Ops -> SUBSET Sides] /\ fut \in [Ops -> {"none", "pending", "woken"}]

\* An operation that waits in vain is about to be told: if a call would get on
\* now, also because another operation did part of the work, the reactor still
\* has an edge for its waker (TlsWaker::wake, do_poll).
NoLostWakeup ==
    \A o \in Ops :
        fut[o] = "pending" =>
            /\ op[o].waker = wants[o] /\ wants[o] # {}
            /\ op[o].waker \cap op[o].ready = {}
            /\ Called(o).res # "block" => sock.edge \cap op[o].waker # {}
=============================================================================
