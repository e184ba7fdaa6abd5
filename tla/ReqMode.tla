------------------------------- MODULE ReqMode -------------------------------
(***************************************************************************)
(* Request mode of the connection manager (src/connmgr/connection.rs): a   *)
(* server connection that reads whole HTTP requests, sends each as one     *)
(* ZHTTP message and waits for one message back (server_req_connection),   *)
(* the client connections that serve such messages at origin servers       *)
(* (client_req_connection), following redirects, and the pool of idle      *)
(* origin connections they share (ConnectionPool over src/connmgr/pool.rs). *)
(*                                                                         *)
(* A request is known by the connection id it was given (cid), a new one   *)
(* for each request of a persistent connection.  The link between the two  *)
(* sides delivers replies in any order and may deliver one twice.          *)
(***************************************************************************)
EXTENDS Naturals, Sequences, FiniteSets

CONSTANTS Requests,       \* cids of the requests the connection makes, 1..n
          Others,         \* ids of requests of other server connections
          Origins,        \* origin connections that can be opened
          Hosts, Denied,  \* hosts, and those the deny list covers
          Posts,          \* whether a request has a body to post, any of these
          PoolMax,        \* capacity of the connection pool
          REDIRECTS_MAX,
          DupMax          \* bound on the replies delivered twice

VARIABLES
    spc,      \* server connection
    cid,      \* id of its current request
    answer,   \* [Requests -> the reply the HTTP client got], NoReply for none
    requests, \* ZHTTP requests on their way
    replies,  \* ZHTTP replies on their way: [id, type, how]
    dups,
    client,   \* [Requests -> client connection]
    origin,   \* [Origins -> [at, host, wire]]
    sent      \* [Requests -> replies sent by the client connection]

Clients == Requests \cup Others
vars == <<spc, cid, answer, requests, replies, dups, client, origin, sent>>

NoClient == [pc |-> "none", host |-> "", post |-> FALSE, get |-> FALSE, use |-> FALSE,
             count |-> 0, conn |-> 0, persist |-> FALSE, redirect |-> "", owed |-> FALSE,
             how |-> "own"]

\* What there is to read on an idle or used connection: nothing, its end, or
\* what the origin sent unasked while the connection was pooled or used.
NoOrigin == [at |-> "none", host |-> "", wire |-> "nothing"]

NoReply == [id |-> 0, type |-> "none", how |-> "own"]

TypeOK ==
    /\ spc \in {"read", "send", "wait", "respond", "error", "close", "done"}
    /\ cid \in Requests
    /\ \A r \in Requests : answer[r] = NoReply \/ answer[r].type = "data"
    /\ requests \subseteq Clients
    /\ \A r \in replies : r.id \in Requests /\ r.how \in {"own", "pooled", "used"}
                          /\ r.type \in {"data", "large", "error"}
    /\ dups \in 0..DupMax
    /\ \A c \in Clients :
          /\ client[c].pc \in {"none", "connect", "exchange", "finish", "closing", "reply",
                               "failed", "done"}
          /\ client[c].conn \in Origins \cup {0} /\ client[c].count \in 0..REDIRECTS_MAX
    /\ \A o \in Origins : origin[o].at \in {"none", "used", "pooled"}
    /\ sent \in [Clients -> 0..2]

Init ==
    /\ spc = "read" /\ cid = 1
    /\ answer = [r \in Requests |-> NoReply]
    /\ requests = {} /\ replies = {} /\ dups = 0
    /\ client = [r \in Clients |-> NoClient]
    /\ origin = [o \in Origins |-> NoOrigin]
    /\ sent = [r \in Clients |-> 0]

clients == <<client, origin, sent>>

-----------------------------------------------------------------------------
(* Server connection                                                       *)

\* server_req_read_header_and_body: a whole request, the end of the stream
\* before one, or one that is refused (malformed, too large, WebSocket).
server_req_read ==
    /\ spc = "read"
    /\ spc' \in {"send", "close", "error"}
    /\ UNCHANGED <<cid, answer, requests, replies, dups, clients>>

\* send_msg to the handle.
SendMsg ==
    /\ spc = "send"
    /\ requests' = requests \cup {cid}
    /\ spc' = "wait"
    /\ UNCHANGED <<cid, answer, replies, dups, clients>>

Delivered(r) == \/ replies' = replies \ {r} /\ UNCHANGED dups
                \/ dups < DupMax /\ dups' = dups + 1 /\ UNCHANGED replies

\* Mutant: the id of the reply is not looked at.
server_req_respond_any(r) ==
    /\ spc = "wait" /\ r \in replies
    /\ Delivered(r)
    /\ IF r.type = "error" THEN UNCHANGED <<spc, answer>>
       ELSE IF r.type = "large" THEN spc' = "error" /\ UNCHANGED answer
       ELSE spc' = "respond" /\ answer' = [answer EXCEPT ![cid] = r]
    /\ UNCHANGED <<cid, requests, clients>>

\* The loop of server_req_respond that waits for the reply: messages for
\* older ids and messages without data are skipped.
server_req_respond(r) ==
    /\ spc = "wait" /\ r \in replies
    /\ Delivered(r)
    /\ IF r.id # cid \/ r.type = "error" THEN UNCHANGED <<spc, answer>>
       ELSE IF r.type = "large" THEN spc' = "error" /\ UNCHANGED answer
       ELSE spc' = "respond" /\ answer' = [answer EXCEPT ![cid] = r]
    /\ UNCHANGED <<cid, requests, clients>>

\* discard_while: a message in any other state is an error; it is answered
\* with an error response while the response has not been begun.
DiscardWhile(r) ==
    /\ spc \in {"read", "send", "respond", "error", "close"} /\ r \in replies
    /\ Delivered(r)
    /\ spc' = IF spc \in {"read", "send"} THEN "error" ELSE "done"
    /\ UNCHANGED <<cid, answer, requests, clients>>

\* The rest of server_req_handler: the response is written, and a persistent
\* connection goes on with a new id (server_req_connection_inner).
Respond ==
    /\ spc = "respond"
    /\ \/ spc' = "close" /\ UNCHANGED cid
       \/ cid + 1 \in Requests /\ cid' = cid + 1 /\ spc' = "read"
    /\ UNCHANGED <<answer, requests, replies, dups, clients>>

\* send_error_response, and the close of the stream.
ServerEnd ==
    /\ spc \in {"error", "close"}
    /\ spc' = "done"
    /\ UNCHANGED <<cid, answer, requests, replies, dups, clients>>

\* The timeout and the token of server_req_connection_inner, and errors of
\* the stream: the handler is dropped wherever it is.
ServerAbort ==
    /\ spc \in {"read", "send", "wait", "respond", "error"}
    /\ spc' = "done"
    /\ UNCHANGED <<cid, answer, requests, replies, dups, clients>>

server == <<spc, cid, answer, dups>>

\* Another server connection sends a request; its reply does not come here.
OtherRequest(c) ==
    /\ c \in Others /\ client[c].pc = "none"
    /\ requests' = requests \cup {c}
    /\ UNCHANGED <<server, replies, clients>>

-----------------------------------------------------------------------------
(* Client connections                                                      *)

Ended(pc) == [NoClient EXCEPT !.pc = pc]
Set(c, rec) == client' = [client EXCEPT ![c] = rec]

\* client_req_connection starts; the request is for some host, with or
\* without a body to post.
Accept(c) ==
    /\ c \in requests
    /\ requests' = requests \ {c}
    /\ \/ \E h \in Hosts, p \in Posts :
             Set(c, [NoClient EXCEPT !.pc = "connect", !.host = h, !.post = p])
       \/ Set(c, Ended("failed"))      \* BadRequest
    /\ UNCHANGED <<server, replies, origin, sent>>

is_allowed(h) == h \notin Denied

Idle(h) == {o \in Origins : origin[o].at = "pooled" /\ origin[o].host = h}

\* ConnectionPool::take: one that would block is usable, another is dropped
\* and the next one tried.
take(c, h) ==
    \E o \in Idle(h) :
        IF origin[o].wire = "nothing"
        THEN /\ origin' = [origin EXCEPT ![o].at = "used"]
             /\ Set(c, [client[c] EXCEPT !.pc = "exchange", !.conn = o])
        ELSE /\ origin' = [origin EXCEPT ![o] = NoOrigin]
             /\ UNCHANGED client

\* client_connect: policy, pool, then a new connection, which may fail.
client_connect(c) ==
    /\ client[c].pc = "connect"
    /\ LET h == client[c].host IN
       \/ /\ ~is_allowed(h)
          /\ Set(c, Ended("failed")) /\ UNCHANGED origin
       \/ is_allowed(h) /\ take(c, h)
       \/ /\ is_allowed(h) /\ Idle(h) = {}
          /\ \/ \E o \in Origins :
                  /\ origin[o].at = "none"
                  /\ origin' = [origin EXCEPT ![o] = [NoOrigin EXCEPT !.at = "used", !.host = h]]
                  /\ Set(c, [client[c] EXCEPT !.pc = "exchange", !.conn = o])
             \/ Set(c, Ended("failed")) /\ UNCHANGED origin
    /\ UNCHANGED <<server, requests, replies, sent>>

\* check_redirect: h is where a valid redirect leads, "" for none; 301 to 303
\* make a GET of a POST (use_get), other codes keep the method.
check_redirect(cl, h, code) ==
    LET use_get == h # "" /\ code = "301" /\ cl.post /\ ~cl.get
    IN [cl EXCEPT !.redirect = h, !.use = use_get, !.owed = @ \/ use_get]

\* client_req_handler: the request goes out (with its body unless a redirect
\* made it a GET) and the response comes back, or the exchange fails.  What the
\* origin sent unasked is taken for the response.
client_req_handler(c) ==
    /\ client[c].pc = "exchange"
    /\ LET cl == client[c] IN
       \/ /\ origin[cl.conn].wire # "closed"
          /\ \E p \in BOOLEAN, h \in Hosts \cup {""}, code \in {"3xx", "301"} :
                Set(c, [check_redirect(cl, h, code) EXCEPT
                          !.pc = "finish", !.persist = p,
                          !.how = IF origin[cl.conn].wire = "nothing" THEN "own" ELSE origin[cl.conn].wire])
          /\ origin' = [origin EXCEPT ![cl.conn].wire = "nothing"]
       \/ /\ origin' = [origin EXCEPT ![cl.conn] = NoOrigin]
          /\ Set(c, Ended("failed"))
    /\ UNCHANGED <<server, requests, replies, sent>>

\* Pool::add refuses a connection beyond the capacity.
PoolHasRoom == Cardinality({x \in Origins : origin[x].at = "pooled"}) < PoolMax

\* ConnectionPool::push after the exchange, or the close of the connection.
push(c) ==
    /\ client[c].pc = "finish"
    /\ LET o == client[c].conn IN
          IF client[c].persist /\ PoolHasRoom
          THEN /\ origin' = [origin EXCEPT ![o].at = "pooled"]
               /\ Set(c, [client[c] EXCEPT !.pc = "closing", !.conn = 0, !.persist = FALSE])
          ELSE /\ origin' = [origin EXCEPT ![o] = NoOrigin]
               /\ \/ Set(c, [client[c] EXCEPT !.pc = "closing", !.conn = 0, !.persist = FALSE])
                  \/ Set(c, Ended("failed"))  \* close failed
    /\ UNCHANGED <<server, requests, replies, sent>>

\* The end of the loop of client_req_connect.
Followed(c) ==
    /\ client[c].pc = "closing"
    /\ LET cl == client[c] IN
       Set(c, IF cl.redirect = "" THEN [Ended("reply") EXCEPT !.how = cl.how]
              ELSE IF cl.count >= REDIRECTS_MAX THEN Ended("failed")
              ELSE [cl EXCEPT !.pc = "connect", !.host = cl.redirect, !.redirect = "",
                              !.get = @ \/ cl.use, !.use = FALSE, !.count = @ + 1])
    /\ UNCHANGED <<server, requests, replies, origin, sent>>

\* client_req_connection_inner sends the response, or the error's condition.
SendReply(c) ==
    /\ client[c].pc \in {"reply", "failed"}
    /\ \E t \in (IF client[c].pc = "reply" THEN {"data", "large"} ELSE {"error"}) :
          replies' = IF c \in Others THEN replies
                     ELSE replies \cup {[id |-> c, type |-> t, how |-> client[c].how]}
    /\ sent' = [sent EXCEPT ![c] = @ + 1]
    /\ Set(c, Ended("done"))
    /\ UNCHANGED <<server, requests, origin>>

Working == {"connect", "exchange", "finish", "closing"}

\* Timeout: an error reply.  Stop: nothing.  The connection in use is dropped.
ClientAbort(c) ==
    /\ client[c].pc \in Working
    /\ \E pc \in {"failed", "done"} : Set(c, Ended(pc))
    /\ origin' = IF client[c].conn = 0 THEN origin
                 ELSE [origin EXCEPT ![client[c].conn] = NoOrigin]
    /\ UNCHANGED <<server, requests, replies, sent>>

\* Pool::expire by the pool's thread.
expire(o) ==
    /\ origin[o].at = "pooled"
    /\ origin' = [origin EXCEPT ![o] = NoOrigin]
    /\ UNCHANGED <<server, requests, replies, client, sent>>

\* External: the origin server closes the connection or sends on it unasked.
OriginSpoils(o) ==
    /\ origin[o].at \in {"used", "pooled"} /\ origin[o].wire = "nothing"
    /\ \E w \in {"closed", origin[o].at} : origin' = [origin EXCEPT ![o].wire = w]
    /\ UNCHANGED <<server, requests, replies, client, sent>>

ServerNext == server_req_read \/ SendMsg \/ Respond \/ ServerEnd \/ ServerAbort
              \/ \E r \in replies : server_req_respond(r) \/ DiscardWhile(r)
ClientNext(c) == Accept(c) \/ client_connect(c) \/ client_req_handler(c) \/ push(c)
                 \/ Followed(c) \/ SendReply(c) \/ ClientAbort(c)

Next == \/ ServerNext
        \/ \E c \in Clients : ClientNext(c) \/ OtherRequest(c)
        \/ \E o \in Origins : expire(o) \/ OriginSpoils(o)

Spec == Init /\ [][Next]_vars

-----------------------------------------------------------------------------
(* Properties                                                              *)

\* A request of a persistent connection is answered, if with data, by what
\* was fetched for it, however late or often the replies to the earlier
\* requests of the connection arrive, and not by what lay on an idle origin
\* connection when it was taken from the pool.  What an origin sends unasked
\* after that (used) is not told from the response: connection.rs:4323-4327.
AnswersOwnRequest ==
    \A r \in Requests : answer[r] = NoReply \/ (answer[r].id = r /\ answer[r].how # "pooled")

\* An origin connection serves one request at a time: it is in the pool or
\* with one client connection, never both, and what is in the pool is within
\* the pool's capacity.
PoolExclusive ==
    /\ \A o \in Origins :
          LET users == {c \in Clients : client[c].conn = o} IN
          origin[o].at = "used" <=> Cardinality(users) = 1 /\ users # {}
    /\ Cardinality({o \in Origins : origin[o].at = "pooled"}) <= PoolMax

\* One request, one reply at most; a POST that a redirect turned into a GET
\* stays one through the redirects that follow, so its body is not sent again;
\* and no denied host is connected to, also when a redirect names it.
ClientSound ==
    \A c \in Clients :
        /\ sent[c] <= 1
        /\ client[c].owed /\ client[c].pc \in {"connect", "exchange"} => client[c].get
        /\ client[c].conn # 0 => is_allowed(origin[client[c].conn].host)
=============================================================================
