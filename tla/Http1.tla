------------------------------- MODULE Http1 -------------------------------
(***************************************************************************)
(* HTTP/1 over one connection: core/http1/protocol.rs and the client and   *)
(* the server of core/http1/client.rs and server.rs that drive it.  The    *)
(* client sends requests one after the other; the server answers each one, *)
(* possibly before it has read the request's body.                         *)
(*                                                                         *)
(* Bytes are abstracted to tokens: a header is two tokens, so that it can  *)
(* be cut, a chunk's size line is "sz" "nl", its footer "cr" "lf", and     *)
(* every byte of content is a token of its own.  Each direction has a      *)
(* socket buffer of WireMax tokens and a receive buffer of RbufMax tokens. *)
(***************************************************************************)
EXTENDS Integers, Sequences

CONSTANTS
    ReqMax,     \* requests on the connection
    DataMax,    \* bytes of content of a message, if it has any
    ChunkMax,   \* CHUNK_SIZE_MAX
    WireMax, RbufMax,
    Versions    \* how the peer's request is framed: "11", "11close", "10", "10ka"

VARIABLES
    cl, sv,     \* the client, the server
    c2s, s2c,   \* the socket buffers of the two directions
    crb, srb,   \* the receive buffers of the client and of the server
    slips       \* history: what has gone wrong, of what is known to (see below)
vars == <<cl, sv, c2s, s2c, crb, srb, slips>>

Least(a, b) == IF a < b THEN a ELSE b
Tok(t, v) == [t |-> t, v |-> v]
First(s, n) == SubSeq(s, 1, Least(n, Len(s)))
From(s, n) == SubSeq(s, n + 1, Len(s))
Room(wire) == WireMax - Len(wire)

\* Content: byte i of request n, and of the response to it.
ReqByte(n, i) == 10 * n + i
RespByte(n, i) == -(10 * n + i)
Content(b(_, _), n, from, to) == [i \in 1..(to - from) |-> Tok("d", b(n, from + i))]

NoChunk == [size |-> -1, sent |-> 0]
NoneLeft == -1                          \* chunk_left: None

\* What a sender holds of its message: the bytes in its buffer, whether they
\* are the last ones, the framing, and the chunk it is in the middle of.
Sender(bs, chunked, buf, end) ==
    [bs |-> bs, chunked |-> chunked, buf |-> buf, end |-> end, chunk |-> NoChunk]

----------------------------------------------------------------------------
(* Sending a body.                                                          *)

\* Mutant: a chunk that takes what the buffer has gained since it was begun.
write_chunk_grown(chunk, content, room) ==
    LET c == IF chunk = NoChunk THEN [size |-> Least(Len(content), ChunkMax), sent |-> 0] ELSE chunk
        all == <<Tok("sz", c.size), Tok("nl", 0)>> \o content \o <<Tok("cr", 0), Tok("lf", 0)>>
        out == First(From(all, c.sent), room)
        sent == c.sent + Len(out)
    IN [out |-> out,
        chunk |-> IF sent < Len(all) THEN [c EXCEPT !.sent = sent] ELSE NoChunk,
        size |-> IF sent < Len(all) THEN 0 ELSE Len(content)]

\* write_chunk: the chunk's size is fixed when it is begun; nothing of the
\* content counts as written before the footer is.
write_chunk(chunk, content, room) ==
    LET c == IF chunk = NoChunk THEN [size |-> Least(Len(content), ChunkMax), sent |-> 0] ELSE chunk
        all == <<Tok("sz", c.size), Tok("nl", 0)>> \o First(content, c.size) \o <<Tok("cr", 0), Tok("lf", 0)>>
        out == First(From(all, c.sent), room)
        sent == c.sent + Len(out)
    IN [out |-> out,
        chunk |-> IF sent < Len(all) THEN [c EXCEPT !.sent = sent] ELSE NoChunk,
        size |-> IF sent < Len(all) THEN 0 ELSE c.size]

\* send_body and ClientRequestBody::send, called with some room in the
\* socket: the tokens written, the bytes of content they stand for, the
\* sender's state after it, whether the message is finished, and whether the
\* closing chunk is refused after the content was taken, which is then still
\* in the buffer and sent again behind the closing chunk.
send_body(s, room) ==
    LET n == Len(s.buf)
        first == IF n > 0 THEN write_chunk(s.chunk, s.buf, room)
                 ELSE [out |-> <<>>, chunk |-> s.chunk, size |-> 0]
        closing == s.end /\ first.size >= n
        left == room - Len(first.out)
        last == write_chunk(first.chunk, <<>>, left)
        sent(out, buf, chunk, fin, again) ==
            [out |-> out, s |-> [s EXCEPT !.buf = buf, !.chunk = chunk], fin |-> fin, again |-> again]
    IN IF s.bs = "none" THEN sent(<<>>, <<>>, s.chunk, s.end, FALSE)
       ELSE IF ~s.chunked
       THEN sent(First(s.buf, room), From(s.buf, room), s.chunk, s.end /\ room >= n, FALSE)
       ELSE IF ~closing THEN sent(first.out, From(s.buf, first.size), first.chunk, FALSE, FALSE)
       ELSE IF left = 0 THEN sent(first.out, s.buf, last.chunk, FALSE, TRUE)      \* WouldBlock
       ELSE sent(first.out \o last.out, From(s.buf, first.size), last.chunk, last.chunk = NoChunk, FALSE)

----------------------------------------------------------------------------
(* Receiving a body.                                                        *)

\* What one call of recv_body, or of ClientResponseBody::recv, does with
\* the bytes buf: how many it takes, what it hands out, its state after it
\* and its verdict.
Got(read, data, left, size, res) == [read |-> read, data |-> data, left |-> left, size |-> size, res |-> res]

process_known_size(left, size, buf, dest, end) ==
    LET n == Least(Least(left, Len(buf)), dest)
    IN IF left - n = 0 THEN Got(n, First(buf, n), NoneLeft, size, "complete")
       ELSE Got(n, First(buf, n), left - n, size,
                IF Len(buf) = 0 THEN (IF end THEN "error" ELSE "need") ELSE "read")

\* A body that ends with the connection.
process_unknown_size(left, size, buf, dest, end) ==
    LET n == Least(Len(buf), dest)
    IN Got(n, First(buf, n), left, size,
           IF n = Len(buf) /\ end THEN "complete" ELSE IF Len(buf) = 0 THEN "need" ELSE "read")

\* A chunked body.  A chunk's size line is taken in the same call as what
\* follows it; "read" with nothing handed out makes the caller call again.
process_chunked(left, size, buf, dest, end) ==
    LET starts == left = NoneLeft
        pos == IF starts THEN 2 ELSE 0
        more(p, l, z) == IF end THEN Got(0, <<>>, l, z, "error")
                         ELSE Got(p, <<>>, l, z, IF p > 0 THEN "read" ELSE "need")
        l == IF starts THEN buf[1].v ELSE left
        z == IF starts THEN buf[1].v ELSE size
        rest == From(buf, pos)
        n == Least(Least(l, Len(rest)), dest)
    IN IF starts /\ Len(buf) > 0 /\ buf[1].t # "sz" THEN Got(0, <<>>, left, size, "error")
       ELSE IF starts /\ Len(buf) < 2 THEN more(0, left, size)
       ELSE IF l > 0
       THEN IF rest = <<>> THEN more(pos, l, z) ELSE Got(pos + n, First(rest, n), l - n, z, "read")
       ELSE IF Len(rest) < 2 THEN more(pos, l, z)
       ELSE IF rest[1].t # "cr" THEN Got(0, <<>>, l, z, "error")
       ELSE Got(pos + 2, <<>>, NoneLeft, 0, IF z = 0 THEN "complete" ELSE "read")

\* The server's recv_body takes the same steps, but its caller keeps what a
\* call that needs more bytes has already taken.
recv_body(left, size, buf, dest) ==
    LET g == process_chunked(left, size, buf, dest, FALSE)
    IN IF g.res = "read" /\ g.data = <<>> /\ (g.left # NoneLeft) THEN [g EXCEPT !.read = 0, !.res = "need"] ELSE g

----------------------------------------------------------------------------
(* Headers.                                                                 *)

ReqHeader(q) == [msg |-> q.n, ver |-> IF q.ver \in {"10", "10ka"} THEN 0 ELSE 1, chunked |-> q.bs = "unknown",
                 len |-> IF q.bs = "known" THEN q.len ELSE -1, close |-> q.ver = "11close", ka |-> q.ver = "10ka",
                 code |-> 0]
HeaderToks(h) == <<Tok("h1", 0), Tok("h2", h)>>

\* A header is at the start of buf, whole.
Parsed(buf) == Len(buf) >= 2 /\ buf[1].t = "h1" /\ buf[2].t = "h2"
\* What is at the start of buf can be no header.
Garbage(buf) == \/ Len(buf) > 0 /\ buf[1].t # "h1"
                \/ Len(buf) > 1 /\ buf[2].t # "h2"

\* process_request.
process_request(h) ==
    [bs |-> IF h.chunked THEN "unknown" ELSE IF h.len >= 0 THEN "known" ELSE "none",
     persistent |-> IF h.ver >= 1 THEN ~h.close ELSE h.ka /\ ~h.close]

BodyLess(code) == code \in {204, 304}

\* process_response: only what says where the body ends keeps the connection.
process_response(h) ==
    LET bs == IF h.chunked THEN "unknown" ELSE IF h.len >= 0 THEN "known"
              ELSE IF BodyLess(h.code) THEN "none" ELSE "unknown"
        close_end == bs = "unknown" /\ ~h.chunked
    IN [bs |-> bs, persistent |-> (IF h.ver >= 1 THEN ~h.close ELSE h.ka /\ ~h.close) /\ ~close_end]

\* The header send_response writes, given the state of the protocol.
send_response(s, r) ==
    LET early == s.st = "body"
        bs == IF BodyLess(r.code) THEN "none" ELSE r.bs
        persistent == s.persistent /\ ~early
    IN [msg |-> s.msg, ver |-> s.ver, chunked |-> bs = "unknown" /\ s.ver >= 1,
        len |-> IF bs = "known" THEN r.len ELSE -1, close |-> ~persistent /\ s.ver >= 1,
        ka |-> persistent /\ s.ver = 0, code |-> r.code]

----------------------------------------------------------------------------
(* The client.                                                              *)

Init ==
    /\ cl = [st |-> "idle", n |-> 0, req |-> [n |-> 0, len |-> 0, bs |-> "none", ver |-> "11"], off |-> 0, todo |-> 0,
             s |-> Sender("none", FALSE, <<>>, TRUE), msg |-> 0, bs |-> "none", chunked |-> FALSE, left |-> NoneLeft, size |-> 0,
             persistent |-> TRUE, closed |-> FALSE, got |-> <<>>]
    /\ sv = [st |-> "req", n |-> 0, msg |-> 0, ver |-> 0, bs |-> "none", left |-> NoneLeft, size |-> 0, persistent |-> FALSE,
             got |-> <<>>, resp |-> [code |-> 0, len |-> 0, bs |-> "none"], off |-> 0, todo |-> 0, s |-> Sender("none", FALSE, <<>>, TRUE)]
    /\ c2s = <<>> /\ s2c = <<>> /\ crb = <<>> /\ srb = <<>> /\ slips = {}

CUp == cl.st \notin {"closed", "failed"}
SUp == sv.st \notin {"closed", "failed"}
Framed == {"known", "unknown"} \X {0, DataMax}
Sizes == {<<"none", 0>>} \cup Framed

\* Request::prepare_header: the first k bytes of the body come with it.
StartRequest(size, ver, k) ==
    /\ cl.st = "idle" /\ cl.n < ReqMax
    /\ ver \in {"10", "10ka"} => size[1] # "unknown"
    /\ k \in {0, size[2]}
    /\ LET n == cl.n + 1
       IN cl' = [cl EXCEPT !.st = "header", !.n = n, !.req = [n |-> n, len |-> size[2], bs |-> size[1], ver |-> ver], !.off = 0,
                           !.todo = size[2] - k, !.got = <<>>, !.closed = FALSE, !.left = NoneLeft, !.size = 0, !.persistent = TRUE,
                           !.s = Sender(size[1], size[1] = "unknown", Content(ReqByte, n, 0, k), k = size[2])]
    /\ UNCHANGED <<sv, c2s, s2c, crb, srb, slips>>

\* RequestHeader::send and send_header, a part at a time.
CSendHeader ==
    /\ cl.st = "header" /\ Room(c2s) > 0 /\ SUp
    /\ LET out == First(From(HeaderToks(ReqHeader(cl.req)), cl.off), Room(c2s))
       IN /\ c2s' = c2s \o out
          /\ cl' = [cl EXCEPT !.off = @ + Len(out), !.st = IF cl.off + Len(out) >= 2 THEN "body" ELSE "header"]
    /\ UNCHANGED <<sv, s2c, crb, srb, slips>>

\* RequestBody::prepare.
CPrepare ==
    /\ cl.st = "body" /\ ~cl.s.end
    /\ LET from == cl.req.len - cl.todo
       IN \E k \in 0..cl.todo : \E end \in (IF k = cl.todo THEN {TRUE, FALSE} ELSE {FALSE}) :
             /\ k > 0 \/ end
             /\ cl' = [cl EXCEPT !.todo = @ - k, !.s.buf = @ \o Content(ReqByte, cl.n, from, from + k), !.s.end = end]
    /\ UNCHANGED <<sv, c2s, s2c, crb, srb, slips>>

\* RequestBody::send and process: a byte of the response ends the request
\* early (into_early_response); a connection the server has closed is read
\* once more before the request fails.
CSend ==
    /\ cl.st = "body" /\ (cl.s.buf # <<>> \/ cl.s.end)
    /\ \/ /\ crb # <<>>
          /\ cl' = [cl EXCEPT !.st = "resp", !.s.buf = <<>>, !.persistent = FALSE]
          /\ UNCHANGED <<c2s, s2c, crb, slips>>
       \/ /\ crb = <<>> /\ ~SUp
          /\ IF s2c = <<>> THEN cl' = [cl EXCEPT !.st = "failed"] /\ UNCHANGED <<s2c, crb>>
             ELSE crb' = First(s2c, RbufMax) /\ s2c' = From(s2c, RbufMax) /\ UNCHANGED cl
          /\ UNCHANGED <<c2s, slips>>
       \/ /\ crb = <<>> /\ SUp /\ (Room(c2s) > 0 \/ cl.s.bs = "none")
          /\ LET w == send_body(cl.s, Room(c2s))
             IN /\ c2s' = c2s \o w.out
                /\ cl' = [cl EXCEPT !.s = w.s, !.st = IF w.fin THEN "resp" ELSE "body"]
                /\ slips' = slips \cup (IF w.again THEN {"req"} ELSE {})
          /\ UNCHANGED <<s2c, crb>>
    /\ UNCHANGED <<sv, srb>>

\* recv_nonzero on the client's side: in RequestBody::fill_recv_buffer and
\* process, in Response::recv_header and in ResponseBody::add_to_buffer.
CRead ==
    /\ cl.st \in {"body", "resp", "respbody"} /\ Len(crb) < RbufMax /\ ~cl.closed
    /\ LET n == RbufMax - Len(crb)
       IN \/ s2c # <<>> /\ crb' = crb \o First(s2c, n) /\ s2c' = From(s2c, n) /\ UNCHANGED cl
          \/ /\ s2c = <<>> /\ ~SUp
             /\ cl' = IF cl.st = "respbody" THEN [cl EXCEPT !.closed = TRUE] ELSE [cl EXCEPT !.st = "failed"]
             /\ UNCHANGED <<s2c, crb>>
    /\ UNCHANGED <<sv, c2s, srb, slips>>

\* Response::recv_header and ClientResponse::recv_header.
CRecvHeader ==
    /\ cl.st = "resp"
    /\ \/ /\ Parsed(crb)
          /\ LET h == crb[2].v
                 p == process_response(h)
             IN cl' = [cl EXCEPT !.st = "respbody", !.bs = p.bs, !.chunked = h.chunked, !.persistent = p.persistent, !.msg = h.msg,
                                 !.left = IF p.bs = "known" THEN h.len ELSE NoneLeft]
          /\ crb' = From(crb, 2)
       \/ Garbage(crb) /\ cl' = [cl EXCEPT !.st = "failed"] /\ UNCHANGED crb
    /\ UNCHANGED <<sv, c2s, s2c, srb, slips>>

ClientRecv(dest) ==
    LET end == cl.closed
    IN IF cl.bs = "none" THEN Got(0, <<>>, cl.left, cl.size, "complete")
       ELSE IF cl.bs = "known" THEN process_known_size(cl.left, cl.size, crb, dest, end)
       ELSE IF cl.chunked THEN process_chunked(cl.left, cl.size, crb, dest, end)
       ELSE process_unknown_size(cl.left, cl.size, crb, dest, end)

\* ResponseBody::try_recv; a finished exchange leaves the connection to the
\* next request or closes it.
CTryRecv(dest) ==
    /\ cl.st = "respbody"
    /\ LET g == ClientRecv(dest)
       IN /\ g.res # "need"
          /\ cl' = [cl EXCEPT !.left = g.left, !.size = g.size, !.got = @ \o g.data,
                              !.st = IF g.res = "error" THEN "failed" ELSE IF g.res # "complete" THEN @
                                     ELSE IF cl.persistent THEN "idle" ELSE "closed"]
          /\ crb' = From(crb, g.read)
    /\ UNCHANGED <<sv, c2s, s2c, srb, slips>>

----------------------------------------------------------------------------
(* The server.                                                              *)

\* recv_nonzero on the server's side, while a header or a body is awaited
\* and while the response is sent.
SRead ==
    /\ SUp /\ Len(srb) < RbufMax
    /\ \/ /\ c2s # <<>>
          /\ \E k \in 1..Least(Len(c2s), RbufMax - Len(srb)) :
                srb' = srb \o First(c2s, k) /\ c2s' = From(c2s, k)
          /\ UNCHANGED sv
       \/ c2s = <<>> /\ ~CUp /\ sv' = [sv EXCEPT !.st = "closed"] /\ UNCHANGED <<srb, c2s>>
    /\ UNCHANGED <<cl, s2c, crb, slips>>

\* RequestHeader::recv and recv_request_owned.
SRecvHeader ==
    /\ sv.st = "req"
    /\ \/ /\ Parsed(srb)
          /\ LET h == srb[2].v
                 p == process_request(h)
             IN sv' = [sv EXCEPT !.st = IF p.bs = "none" THEN "await" ELSE "body", !.n = @ + 1, !.msg = h.msg, !.ver = h.ver,
                                 !.bs = p.bs, !.persistent = p.persistent, !.got = <<>>, !.size = 0,
                                 !.left = IF p.bs = "known" THEN h.len ELSE NoneLeft]
          /\ srb' = From(srb, 2)
       \/ Garbage(srb) /\ sv' = [sv EXCEPT !.st = "failed"] /\ UNCHANGED srb
    /\ UNCHANGED <<cl, c2s, s2c, crb, slips>>

\* RequestBody::try_recv.
STryRecv(dest) ==
    /\ sv.st = "body" /\ sv.resp.code = 0
    /\ LET g == IF sv.bs = "known" THEN process_known_size(sv.left, sv.size, srb, dest, FALSE)
                ELSE recv_body(sv.left, sv.size, srb, dest)
       IN /\ g.res # "need" \/ <<g.left, g.size>> # <<sv.left, sv.size>>
          /\ sv' = [sv EXCEPT !.left = g.left, !.size = g.size, !.got = @ \o g.data,
                              !.st = IF g.res = "error" THEN "failed" ELSE IF g.res = "complete" THEN "await" ELSE @]
          /\ srb' = From(srb, g.read)
          /\ slips' = slips \cup (IF g.res = "need" THEN {"line"} ELSE {})
    /\ UNCHANGED <<cl, c2s, s2c, crb>>

\* Response::prepare_header, once the request is read or before it is.
SRespond(code, size) ==
    /\ sv.st \in {"body", "await"} /\ sv.resp.code = 0
    /\ sv' = [sv EXCEPT !.resp = [code |-> code, len |-> size[2], bs |-> size[1]], !.off = 0, !.todo = size[2],
                        !.s = Sender("none", FALSE, <<>>, size[2] = 0)]
    /\ UNCHANGED <<cl, c2s, s2c, crb, srb, slips>>

\* ResponseHeader::send and send_response, a part at a time.
SSendHeader ==
    /\ sv.st \in {"body", "await"} /\ sv.resp.code # 0 /\ Room(s2c) > 0 /\ CUp
    /\ LET h == send_response(sv, sv.resp)
           out == First(From(HeaderToks(h), sv.off), Room(s2c))
           bs == IF BodyLess(sv.resp.code) THEN "none" ELSE sv.resp.bs
       IN /\ s2c' = s2c \o out
          /\ slips' = slips \cup (IF h.ka /\ bs = "unknown" THEN {"unframed"} ELSE {})
          /\ sv' = IF sv.off + Len(out) < 2 THEN [sv EXCEPT !.off = @ + Len(out)]
                   ELSE [sv EXCEPT !.st = "sending", !.off = 2, !.s.bs = bs, !.s.chunked = h.chunked,
                                   !.persistent = IF h.ver >= 1 THEN ~h.close ELSE h.ka]
    /\ UNCHANGED <<cl, c2s, crb, srb>>

\* ResponsePrepareBody::prepare and ResponseBody::prepare.
SPrepare ==
    /\ sv.resp.code # 0 /\ SUp /\ ~sv.s.end
    /\ LET from == sv.resp.len - sv.todo
       IN \E k \in 1..sv.todo :
             sv' = [sv EXCEPT !.todo = @ - k, !.s.buf = @ \o Content(RespByte, sv.msg, from, from + k), !.s.end = k = sv.todo]
    /\ UNCHANGED <<cl, c2s, s2c, crb, srb, slips>>

\* ResponseBody::send and process; when the response is finished the
\* connection waits for the next request or is closed.
SSend ==
    /\ sv.st = "sending" /\ (sv.s.buf # <<>> \/ sv.s.end)
    /\ \/ /\ CUp /\ (Room(s2c) > 0 \/ sv.s.bs = "none")
          /\ LET w == send_body(sv.s, Room(s2c))
             IN /\ s2c' = s2c \o w.out
                /\ slips' = slips \cup (IF w.again THEN {"resp"} ELSE {})
                /\ sv' = IF ~w.fin THEN [sv EXCEPT !.s = w.s]
                         ELSE [sv EXCEPT !.s = w.s, !.st = IF sv.persistent THEN "req" ELSE "closed",
                                         !.resp.code = 0]
       \/ ~CUp /\ sv' = [sv EXCEPT !.st = "closed"] /\ UNCHANGED <<s2c, slips>>
    /\ UNCHANGED <<cl, c2s, crb, srb>>

Next ==
    \/ \E size \in Sizes, ver \in Versions, k \in 0..DataMax : StartRequest(size, ver, k)
    \/ CSendHeader \/ CPrepare \/ CSend \/ CRead \/ CRecvHeader
    \/ \E dest \in 1..2 : CTryRecv(dest)
    \/ SRead \/ SRecvHeader
    \/ \E dest \in 1..2 : STryRecv(dest)
    \/ \E code \in {200, 204}, size \in Framed : SRespond(code, size)
    \/ SSendHeader \/ SPrepare \/ SSend

Spec == Init /\ [][Next]_vars

----------------------------------------------------------------------------
(* What is checked.                                                         *)

TypeOK ==
    /\ cl.st \in {"idle", "header", "body", "resp", "respbody", "closed", "failed"}
    /\ sv.st \in {"req", "body", "await", "sending", "closed", "failed"}
    /\ Len(c2s) <= WireMax /\ Len(s2c) <= WireMax
    /\ Len(crb) <= RbufMax /\ Len(srb) <= RbufMax
    /\ slips \subseteq {"line", "req", "resp", "unframed"}

IsPrefixOf(got, b(_, _), n, len) == Len(got) <= len /\ \A i \in 1..Len(got) : got[i] = Tok("d", b(n, i))

\* Where the code is known to go wrong, which slips records for the connection:
\*   line      the server has decoded a chunk's size line that stays in its buffer
\*             (server.rs:264-272), and decodes it again as content;
\*   req, resp the closing chunk was refused by the socket that had just taken
\*             the content, which is sent again (protocol.rs:1153-1167, 1520-1545);
\*   unframed  an HTTP/1.0 request with keep-alive was answered as persistent,
\*             with a body of no known end (protocol.rs:970).
Spared(slip) == slips \cap slip = {}

RequestWhole ==
    sv.n = cl.n => /\ IsPrefixOf(sv.got, ReqByte, sv.n, cl.req.len)
                   /\ sv.st = "await" => Len(sv.got) = cl.req.len
ResponseWhole ==
    /\ cl.st \in {"respbody", "idle", "closed"} => IsPrefixOf(cl.got, RespByte, cl.n, sv.resp.len)
    /\ cl.st \in {"idle", "closed"} /\ cl.bs # "none" => Len(cl.got) = sv.resp.len

\* However reads and writes are cut, what the server has decoded of a
\* request's body is what the client was given of it, byte for byte, and all
\* of it once the body is complete; and the same for a response (recv_body,
\* ClientResponseBody::recv, send_body, write_chunk).
WholeBody == RequestWhole /\ ResponseWhole

\* The same of what the code gets right: a request is whole unless a size line
\* was decoded twice, a response always, and neither side is left with what it
\* cannot read unless one of the slips put it there.
WholeUnlessSlipped ==
    /\ Spared({"line"}) => RequestWhole
    /\ ResponseWhole
    /\ Spared({"line", "req"}) => sv.st # "failed"
    /\ Spared({"line", "req", "resp"}) => (cl.st = "failed" => ~SUp)

\* A connection that the client may use again is at a message boundary, unless
\* content was left behind by a slip: the request went out whole and was read
\* whole, nothing of the response is left, and the server keeps the connection
\* too; and a server that waits for the next request has left no response that
\* only a close can end, unless it is unframed (into_early_response,
\* send_response, process_request, process_response).
CleanReuse ==
    /\ cl.st = "idle" /\ cl.n > 0 /\ Spared({"line", "req", "resp"}) =>
          /\ cl.msg = cl.n /\ cl.todo = 0 /\ cl.s.buf = <<>>
          /\ c2s = <<>> /\ s2c = <<>> /\ crb = <<>> /\ srb = <<>>
          /\ sv.st \in {"req", "sending"} /\ (sv.st = "sending" => sv.persistent)
    /\ sv.st = "req" /\ cl.st = "respbody" /\ Spared({"unframed"}) =>
          cl.bs # "unknown" \/ cl.chunked

============================================================================
