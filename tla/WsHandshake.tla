------------------------------ MODULE WsHandshake ------------------------------
(* Opening a WebSocket through the program: the client's upgrade request, read *)
(* by a server connection (server_stream_process_req_header), the proxy, the  *)
(* request a client connection makes of it (client_stream_handler), the       *)
(* origin's answer, and the response the client gets (server_stream_respond). *)
(* Compression is negotiated on each of the two hops by itself.               *)
(*                                                                            *)
(* A header is <<name, value>>; the values of Sec-WebSocket-Extensions are    *)
(* sequences of tokens (words, separators, quotes, spaces), since what may go *)
(* wrong lies in how they are taken apart.  The client and the origin follow  *)
(* the protocol where nothing else is said.                                   *)
EXTENDS Naturals, Sequences, SequencesExt, FiniteSets

CONSTANTS
  Offers,      \* lists of extensions a client offers: [name, params] records
  Styles,      \* how a peer lays a value out: "tight", "spaced", "quoted"
  None

DEFAULT_MAX_WINDOW_BITS == 15

VARIABLES
  opts,     \* allow_compression of both sides, and how the proxy is configured
  offer,    \* the client's request: [exts, style, split, key, version, method, body]
  stage,    \* where the handshake is
  hdrs,     \* the headers on their way
  accept,   \* ws_accept of the server connection
  near,     \* deflate configuration of the server connection
  answer,   \* what the origin answered: [code, configs, right, grip]
  far       \* deflate configuration of the client connection

vars == <<opts, offer, stage, hdrs, accept, near, answer, far>>

(* ---- header values (core/http1/protocol.rs) ---- *)
From(s, k) == SubSeq(s, k, Len(s))
Upto(s, k) == SubSeq(s, 1, k)
find_one_of(s, set) == SelectInSeq(s, LAMBDA c : c \in set)
find_non_space(s) == SelectInSeq(s, LAMBDA c : c # " ")
Part(s, a, b) == IF a = 0 THEN <<>> ELSE SubSeq(s, a, b)
trim(s) == Part(s, find_non_space(s), SelectLastInSeq(s, LAMBDA c : c # " "))
trim_left(s) == Part(s, find_non_space(s), Len(s))
Before(s, pos) == IF pos = 0 THEN s ELSE Upto(s, pos - 1)
Rest(s, pos) == IF pos = 0 THEN <<>> ELSE From(s, pos)

Failed == [ok |-> FALSE]
Value(v, rest) == [ok |-> TRUE, v |-> v, rest |-> rest]

(* The value of a parameter and what follows it: up to the closing quote at     *)
(* close (parse_quoted), or to the separator at end.                           *)
parse_quoted(s, close) ==
  IF close = 0 THEN Failed ELSE Value(SubSeq(s, 2, close), trim_left(From(s, close + 2)))
Unquoted(s, end) == Value(trim(Before(s, end)), Rest(s, end))
ValueAt(s) ==
  IF s # <<>> /\ s[1] = "\"" THEN parse_quoted(s, find_one_of(Tail(s), {"\""}))
  ELSE Unquoted(s, find_one_of(s, {";", ","}))
parse_param_value(t) == ValueAt(trim_left(t))

(* HeaderParamsIterator, driven to its end: the parameters, and what is left,   *)
(* which is empty or starts with a comma.                                      *)
Param(key, val) ==
  IF key = <<>> \/ ~val.ok THEN Failed ELSE Value(<<key, val.v>>, val.rest)
ParamAt(s, pos) ==
  Param(trim(Before(s, pos)),
        IF pos # 0 /\ s[pos] = "=" THEN parse_param_value(From(s, pos + 1))
        ELSE Value(<<>>, Rest(s, pos)))
RECURSIVE MoreParams(_, _)
MoreParams(p, done) ==
  IF ~p.ok THEN Failed
  ELSE IF p.rest # <<>> /\ p.rest[1] = ";"
    THEN MoreParams(ParamAt(Tail(p.rest), find_one_of(Tail(p.rest), {"=", ";", ","})),
                    Append(done, p.v))
  ELSE IF p.rest # <<>> /\ p.rest[1] # "," THEN Failed
  ELSE Value(Append(done, p.v), p.rest)
Params(s) == MoreParams(ParamAt(s, find_one_of(s, {"=", ";", ","})), <<>>)

(* HeaderValueIterator: names with their parameters; a part that cannot be read *)
(* is the last.                                                                *)
Ext(name, ps) ==
  IF name = <<>> \/ ~ps.ok THEN Failed
  ELSE [ok |-> TRUE, name |-> name, params |-> ps.v, rest |-> ps.rest]
ExtAt(s, pos) ==
  Ext(trim(Before(s, pos)),
      IF pos # 0 /\ s[pos] = ";" THEN Params(From(s, pos + 1)) ELSE Value(<<>>, Rest(s, pos)))
RECURSIVE MoreExts(_, _)
MoreExts(e, done) ==
  IF ~e.ok THEN Append(done, Failed)
  ELSE IF e.rest # <<>>
    THEN MoreExts(ExtAt(Tail(e.rest), find_one_of(Tail(e.rest), {";", ","})),
                  Append(done, [ok |-> TRUE, name |-> e.name, params |-> e.params]))
  ELSE Append(done, [ok |-> TRUE, name |-> e.name, params |-> e.params])
parse_header_value(s) == MoreExts(ExtAt(s, find_one_of(s, {";", ","})), <<>>)

(* ---- PerMessageDeflateConfig (connmgr/websocket.rs) ---- *)
Config(c, s, cb, sb) ==
  [client_no_context_takeover |-> c, server_no_context_takeover |-> s,
   client_max_window_bits |-> cb, server_max_window_bits |-> sb]
Default == Config(FALSE, FALSE, DEFAULT_MAX_WINDOW_BITS, DEFAULT_MAX_WINDOW_BITS)
Empties == {"client_no_context_takeover", "server_no_context_takeover"}
Windows == {"client_max_window_bits", "server_max_window_bits"}
BitsOf == [x \in {"8", "10", "15"} |-> CASE x = "8" -> 8 [] x = "10" -> 10 [] x = "15" -> 15]

(* parse_empty, parse_bits: a parameter that is set already, or has a value it  *)
(* may not have, makes the configuration invalid.                              *)
parse_empty(c, k, v) == IF c[k] \/ v # <<>> THEN Failed ELSE [ok |-> TRUE, c |-> [c EXCEPT ![k] = TRUE]]
parse_bits(c, k, v) ==
  IF c[k] # None THEN Failed
  ELSE IF v = <<>> /\ k = "client_max_window_bits"
    THEN [ok |-> TRUE, c |-> [c EXCEPT ![k] = DEFAULT_MAX_WINDOW_BITS]]
  ELSE IF Len(v) = 1 /\ v[1] \in DOMAIN BitsOf
    THEN [ok |-> TRUE, c |-> [c EXCEPT ![k] = BitsOf[v[1]]]]
  ELSE Failed

SetParam(c, k, v) ==
  CASE k \in {<<x>> : x \in Empties} -> parse_empty(c, k[1], v)
    [] k \in {<<x>> : x \in Windows} -> parse_bits(c, k[1], v)
    [] OTHER -> Failed
WithDefaults(all) ==
  IF ~all.ok THEN Failed
  ELSE [ok |-> TRUE,
        c |-> [k \in DOMAIN all.c |-> IF all.c[k] = None THEN DEFAULT_MAX_WINDOW_BITS ELSE all.c[k]]]
from_params(params) ==
  WithDefaults(FoldLeft(LAMBDA acc, p : IF acc.ok THEN SetParam(acc.c, p[1], p[2]) ELSE Failed,
                        [ok |-> TRUE, c |-> Config(FALSE, FALSE, None, None)], params))

create_response_plain(c) == \* mutant: what the client asked of the server is not agreed to
  [ok |-> TRUE, c |-> Config(c.client_no_context_takeover, FALSE,
                             DEFAULT_MAX_WINDOW_BITS, DEFAULT_MAX_WINDOW_BITS)]
create_response(c) ==
  IF c.server_max_window_bits # DEFAULT_MAX_WINDOW_BITS THEN Failed
  ELSE [ok |-> TRUE, c |-> Config(c.client_no_context_takeover, c.server_no_context_takeover,
                                  DEFAULT_MAX_WINDOW_BITS, DEFAULT_MAX_WINDOW_BITS)]
check_response(c) == c.client_max_window_bits = DEFAULT_MAX_WINDOW_BITS

(* PerMessageDeflateConfig::serialize, of a configuration with default windows,  *)
(* as all that is written has.                                                 *)
serialize(c) ==
    (IF c.client_no_context_takeover THEN <<";", " ", "client_no_context_takeover">> ELSE <<>>)
    \o (IF c.server_no_context_takeover THEN <<";", " ", "server_no_context_takeover">> ELSE <<>>)
write_ws_ext_header_value(c) == <<"permessage-deflate">> \o serialize(c)

(* ---- headers ---- *)
EXT == "Sec-WebSocket-Extensions"
Drop(hs, names) == SelectSeq(hs, LAMBDA h : h[1] \notin names)
Named(hs, name) == SelectSeq(hs, LAMBDA h : h[1] = name)
LastOf(hs, name) == IF Named(hs, name) = <<>> THEN None ELSE Last(Named(hs, name))[2]
Extensions(hs) ==
  FoldLeft(LAMBDA acc, h : acc \o parse_header_value(h[2]), <<>>, Named(hs, EXT))
IsDeflate(e) == e.ok /\ e.name = <<"permessage-deflate">>

(* Keys and the answers to them; the client connection makes a key of its own.  *)
gen_ws_key == "k2"
(* A key that is too long to be hashed with the GUID has no answer.            *)
calculate_ws_accept(key) == <<"accept", key>>
Hashable(key) == key # "long"
validate_ws_request(version, key) ==
  /\ offer.method = "GET" /\ offer.body = "empty"
  /\ version = "13" /\ key # None /\ Hashable(key)
validate_ws_response(key, said) == said = calculate_ws_accept(key)

(* What a peer writes (external).                                              *)
Laid(exts, style) ==
  LET sp == IF style = "spaced" THEN <<" ">> ELSE <<>>
      val(v) == IF v = <<>> THEN <<>>
                ELSE sp \o <<"=">> \o sp
                       \o (IF style = "quoted" \/ Len(v) > 1 THEN <<"\"">> \o v \o <<"\"">> ELSE v)
      param(p) == sp \o <<";">> \o sp \o p[1] \o val(p[2])
      ext(e) == FoldLeft(LAMBDA acc, p : acc \o param(p), e.name, e.params)
  IN FoldLeft(LAMBDA acc, e : IF acc = <<>> THEN ext(e) ELSE acc \o <<",">> \o sp \o ext(e), <<>>, exts)

(* The request of the client: an ordinary header, the upgrade, its key and the  *)
(* version, and its offers in one header or one each.                          *)
ClientRequest(o) ==
  <<<<"X", "x">>, <<"Upgrade", "websocket">>, <<"Connection", "Upgrade">>,
    <<"Sec-WebSocket-Version", o.version>>>>
    \o (IF o.key = None THEN <<>> ELSE <<<<"Sec-WebSocket-Key", o.key>>>>)
    \o (IF o.split THEN [i \in 1..Len(o.exts) |-> <<EXT, Laid(<<o.exts[i]>>, o.style)>>]
        ELSE IF o.exts = <<>> THEN <<>> ELSE <<<<EXT, Laid(o.exts, o.style)>>>>)

Init ==
  /\ opts \in [server : BOOLEAN, client : BOOLEAN, grip : BOOLEAN, upstream : BOOLEAN]
  /\ opts.upstream => opts.grip
  /\ \E exts \in Offers, style \in Styles, split \in BOOLEAN,
        kv \in {<<"k1", "13">>, <<None, "13">>, <<"long", "13">>, <<"k1", "8">>},
        rl \in {<<"GET", "empty">>, <<"POST", "empty">>, <<"GET", "some">>} :
       offer = [exts |-> exts, style |-> style, split |-> split, key |-> kv[1], version |-> kv[2],
                method |-> rl[1], body |-> rl[2]]
  /\ stage = "request" /\ hdrs = ClientRequest(offer)
  /\ accept = None /\ near = None /\ answer = None /\ far = None

(* server_stream_process_req_header: the first offer that works is taken.      *)
Reply(c) == IF c.ok THEN create_response(c.c) ELSE Failed
Replies(exts) ==
  LET all == [i \in 1..Len(exts) |->
                IF IsDeflate(exts[i]) THEN Reply(from_params(exts[i].params)) ELSE Failed]
  IN [ok |-> \A i \in 1..Len(exts) : exts[i].ok, usable |-> SelectSeq(all, LAMBDA r : r.ok)]
Upgrade(replies, key) ==
  IF ~replies.ok \/ ~validate_ws_request(LastOf(hdrs, "Sec-WebSocket-Version"), key)
  THEN stage' = "refused" /\ UNCHANGED <<accept, near>>
  ELSE /\ stage' = "proxy"
       /\ accept' = calculate_ws_accept(key)
       /\ near' = IF opts.server /\ replies.usable # <<>> THEN replies.usable[1].c ELSE None
server_stream_process_req_header ==
  /\ stage = "request"
  /\ Upgrade(Replies(Extensions(hdrs)), LastOf(hdrs, "Sec-WebSocket-Key"))
  /\ UNCHANGED <<opts, offer, hdrs, answer, far>>

(* WsProxySession: extensions are not passed on, but for its own.              *)
start ==
  /\ stage = "proxy"
  /\ hdrs' = Drop(hdrs, {EXT}) \o (IF opts.grip THEN <<<<EXT, <<"grip">>>>>> ELSE <<>>)
  /\ stage' = "client"
  /\ UNCHANGED <<opts, offer, accept, near, answer, far>>

(* client_stream_handler up to the request: a key of its own.                  *)
Hop == {"Connection", "Upgrade", "Sec-WebSocket-Version", "Sec-WebSocket-Key"}
prepare_request ==
  /\ stage = "client"
  /\ hdrs' = <<<<"Upgrade", "websocket">>, <<"Connection", "Upgrade">>,
               <<"Sec-WebSocket-Version", "13">>, <<"Sec-WebSocket-Key", gen_ws_key>>>>
               \o (IF opts.client THEN <<<<EXT, write_ws_ext_header_value(Default)>>>> ELSE <<>>)
               \o Drop(hdrs, Hop)
  /\ stage' = "origin"
  /\ UNCHANGED <<opts, offer, accept, near, answer, far>>

(* The origin (external) answers for the key it was given last or for another, *)
(* with a refusal, or with a compression that was offered or not, that the     *)
(* client connection can keep or not, or with two.                             *)
Answered(c) ==
  LET empty(k) == IF c[k] THEN <<<<<<k>>, <<>>>>>> ELSE <<>>
      bits(k) == IF c[k] = DEFAULT_MAX_WINDOW_BITS THEN <<>> ELSE <<<<<<k>>, <<"10">>>>>>
  IN [name |-> <<"permessage-deflate">>,
      params |-> empty("client_no_context_takeover") \o empty("server_no_context_takeover")
                 \o bits("client_max_window_bits") \o bits("server_max_window_bits")]
Narrow == [Default EXCEPT !.client_max_window_bits = 10]
Answers ==
  {<<>>} \cup {<<c, d>> : c, d \in {Default, Narrow}}
    \cup {<<Config(a, b, w[1], w[2])>> : a, b \in BOOLEAN, w \in {<<15, 15>>, <<15, 10>>, <<10, 15>>}}
OriginAnswer ==
  /\ stage = "origin"
  /\ \E code \in {101, 403}, key \in {LastOf(hdrs, "Sec-WebSocket-Key"), "k9"},
        configs \in Answers, g \in BOOLEAN :
       /\ g => \E i \in 1..Len(hdrs) : hdrs[i] = <<EXT, <<"grip">>>>
       /\ LET exts == [i \in 1..Len(configs) |-> Answered(configs[i])]
                         \o (IF g THEN <<[name |-> <<"grip">>, params |-> <<>>]>> ELSE <<>>)
          IN /\ answer' = [code |-> code, configs |-> configs, right |-> key = gen_ws_key, grip |-> g]
             /\ hdrs' = <<<<"Y", "y">>, <<"Upgrade", "websocket">>, <<"Connection", "Upgrade">>,
                          <<"Sec-WebSocket-Accept", calculate_ws_accept(key)>>>>
                          \o (IF exts = <<>> THEN <<>> ELSE <<<<EXT, Laid(exts, offer.style)>>>>)
  /\ stage' = "answered"
  /\ UNCHANGED <<opts, offer, accept, near, far>>

(* client_stream_handler after the response header; a code other than 101 is a  *)
(* rejection, passed on with its headers.                                      *)
Configs(exts) ==
  LET pmd == SelectSeq(exts, IsDeflate)
  IN [ok |-> \A i \in 1..Len(exts) : exts[i].ok,
      all |-> [i \in 1..Len(pmd) |-> from_params(pmd[i].params)]]
Usable(p) == p.ok /\ check_response(p.c)
Answer(ok, all) ==
  IF \/ ~ok
     \/ all # <<>> /\ ~opts.client
     \/ \E i \in 1..Len(all) : i < Len(all) /\ Usable(all[i])
     \/ answer.code = 101
        /\ ~validate_ws_response(gen_ws_key, LastOf(hdrs, "Sec-WebSocket-Accept"))
  THEN stage' = "failed" /\ UNCHANGED far
  ELSE /\ stage' = IF answer.code = 101 THEN "accepted" ELSE "rejected"
       /\ far' = IF answer.code = 101 /\ all # <<>> /\ Usable(Last(all)) THEN Last(all).c ELSE None
receive_response ==
  /\ stage = "answered"
  /\ \E found \in {Configs(Extensions(hdrs))} : Answer(found.ok, found.all)
  /\ UNCHANGED <<opts, offer, hdrs, accept, near, answer>>

(* WsProxySession: out_connected takes the extensions out; grip goes on to an    *)
(* upstream proxy if this one is to leave it to that.                           *)
out_connected ==
  /\ stage = "accepted"
  /\ hdrs' = Drop(hdrs, {EXT})
               \o (IF opts.upstream /\ answer.grip THEN <<<<EXT, <<"grip">>>>>> ELSE <<>>)
  /\ stage' = "respond"
  /\ UNCHANGED <<opts, offer, accept, near, answer, far>>

(* server_stream_respond: an accepted or a rejected WebSocket.                  *)
Own == {"Upgrade", "Connection", "Sec-WebSocket-Accept", EXT}
server_stream_respond ==
  /\ stage \in {"respond", "rejected"}
  /\ IF stage = "rejected"
       THEN hdrs' = Drop(hdrs, Own) /\ stage' = "closed"
       ELSE /\ hdrs' = Drop(hdrs, Own)
                         \o <<<<"Upgrade", "websocket">>, <<"Connection", "Upgrade">>,
                              <<"Sec-WebSocket-Accept", accept>>>>
                         \o (IF near = None THEN <<>> ELSE <<<<EXT, write_ws_ext_header_value(near)>>>>)
            /\ stage' = "open"
  /\ UNCHANGED <<opts, offer, accept, near, answer, far>>

Next == \/ server_stream_process_req_header \/ start \/ prepare_request \/ OriginAnswer
        \/ receive_response \/ out_connected \/ server_stream_respond

Spec == Init /\ [][Next]_vars

(* ---- properties ---- *)
(* What a well formed value says is what is read from it, however it is laid     *)
(* out: in one header or several, with spaces or without, quoted or not.         *)
ValueRead ==
  stage = "request" =>
    LET got == Extensions(hdrs)
    IN got = [i \in 1..Len(offer.exts) |->
                [ok |-> TRUE, name |-> offer.exts[i].name, params |-> offer.exts[i].params]]

(* A well formed offer: known parameters, each once, with a value it may have.  *)
HasParam(e, k) == \E i \in 1..Len(e.params) : e.params[i][1] = <<k>>
ValueOf(e, k) == e.params[CHOOSE i \in 1..Len(e.params) : e.params[i][1] = <<k>>][2]
WellFormed(e) ==
  /\ e.name = <<"permessage-deflate">>
  /\ \A i \in 1..Len(e.params) : \E k \in Empties \cup Windows : e.params[i][1] = <<k>>
  /\ \A i, j \in 1..Len(e.params) : i # j => e.params[i][1] # e.params[j][1]
  /\ \A k \in Empties : HasParam(e, k) => ValueOf(e, k) = <<>>
  /\ HasParam(e, "server_max_window_bits") =>
        ValueOf(e, "server_max_window_bits") \in {<<x>> : x \in DOMAIN BitsOf}
Allows(e, c) ==
  /\ WellFormed(e)
  /\ HasParam(e, "server_no_context_takeover") => c.server_no_context_takeover
  /\ HasParam(e, "server_max_window_bits") => ValueOf(e, "server_max_window_bits") = <<"15">>

(* Both ends of each hop agree, once the WebSocket is open, on whether it is     *)
(* compressed and on whose context is kept: the client reads from the response   *)
(* what the server connection goes by, one of its offers allows it, and no offer *)
(* that would do was passed over for nothing; the client connection goes by what *)
(* the origin answered, which must be an answer to an offer and the only one.    *)
(* But an answer that it cannot keep (a smaller window of the client) is passed   *)
(* over, and the connection opened without: connection.rs:5349-5363.             *)
DeflateAgrees ==
  stage = "open" =>
    /\ LET r == LastOf(hdrs, EXT)
           said(k) == \E i \in 1..Len(r) : r[i] = k
       IN IF near = None THEN r = None
          ELSE /\ \A k \in Empties : near[k] <=> said(k)
               /\ \E i \in 1..Len(offer.exts) : Allows(offer.exts[i], near)
    /\ (opts.server /\ near = None) =>
          \A i \in 1..Len(offer.exts), c \in {Config(a, b, 15, 15) : a, b \in BOOLEAN} :
             ~Allows(offer.exts[i], c)
    /\ answer.configs # <<>> => opts.client
    /\ \/ \E i \in 1..Len(answer.configs) : ~check_response(answer.configs[i])
       \/ answer.configs = (IF far = None THEN <<>> ELSE <<far>>)

(* A WebSocket is open towards the client only when the origin accepted the key  *)
(* it was sent, and each peer sees the upgrade headers of its own hop alone: the *)
(* origin one key that is not the client's, the client one accept, for its key.  *)
HopsApart ==
  /\ stage = "open" =>
        /\ answer.code = 101 /\ answer.right
        /\ Named(hdrs, "Sec-WebSocket-Accept") =
             <<<<"Sec-WebSocket-Accept", calculate_ws_accept(offer.key)>>>>
        /\ Len(Named(hdrs, "Upgrade")) = 1 /\ Len(Named(hdrs, "Connection")) = 1
        /\ Len(Named(hdrs, EXT)) <= 1 /\ Named(hdrs, "Y") # <<>>
  /\ stage = "origin" =>
        /\ Named(hdrs, "Sec-WebSocket-Key") = <<<<"Sec-WebSocket-Key", gen_ws_key>>>>
        /\ Len(Named(hdrs, "Upgrade")) = 1 /\ Named(hdrs, "X") # <<>>
  /\ stage = "closed" => ~\E i \in 1..Len(hdrs) : hdrs[i][1] \in Own

(* "Tell upstream to do the grip stuff": a proxy told to leave GRIP to the proxy *)
(* before it passes the origin's answer to the grip extension on to it. It does  *)
(* not hold: server_stream_handler strips the extensions of the answer.          *)
GripPassed ==
  (stage = "open" /\ opts.upstream /\ answer.grip) =>
     \E i \in 1..Len(hdrs) : hdrs[i] = <<EXT, <<"grip">>>>
================================================================================
