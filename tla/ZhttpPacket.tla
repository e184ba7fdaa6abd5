------------------------------ MODULE ZhttpPacket ------------------------------
(* ZHTTP packets on the wire: the tnetstring codec (core/tnetstring.rs), with *)
(* the Writer that packets are written with, the serde Serializer that        *)
(* published items are written with and the parser that reads both; and the   *)
(* packets (connmgr/zhttppacket.rs), what one of either direction is written  *)
(* as, and the two ways it is read, the ids alone by the socket managers      *)
(* (parse_ids) and everything by the connection (parse).                      *)
(*                                                                            *)
(* A byte is a one-character string; a name is abstracted to one byte.  Sizes *)
(* are written in base Radix (10 in the code; a small radix makes the number  *)
(* of digits of a size change within small values).  A value is a tree        *)
(* [t |-> type, v |-> content].                                               *)
(*                                                                            *)
(* A packet is written by this code, or by a peer (the proxy), whose maps keep *)
(* no order and may hold fields this code does not know.  A data record is a  *)
(* function from field names to values.  The read only fields of a request    *)
(* (connect-host ... follow-redirects) are written by a peer alone.           *)
EXTENDS Integers, Sequences, SequencesExt, FiniteSets

CONSTANTS
  OPS_MAX,                \* operations the Writer holds (1000 in the code)
  IDS_MAX, HEADERS_MAX,   \* capacities of ParseScratch (128, 64 in the code)
  IdLists,                \* id lists a packet may carry: sequences of [id, seq]
  HeaderLists,            \* header lists: sequences of <<name, value>>
  Rooms,                  \* free bytes in the destination
  None                    \* an absent seq, content type or close status

VARIABLES
  dir,       \* "req" or "resp"
  packet,    \* the packet to send: [from, ids, multi, ptype, data]
  peer,      \* written by a peer
  entries,   \* the fields of its map, in order
  msg,       \* the bytes sent (result of serialize)
  parsed,    \* what the connection reads
  ids,       \* what the socket manager reads: [from, ids]
  stage

vars == <<dir, packet, peer, entries, msg, parsed, ids, stage>>

Radix == 4         \* base in which sizes are written

(* ---- values and bytes ---- *)
Text(s) == [t |-> "string", v |-> s]
Num(n) == [t |-> "int", v |-> n]
Flag(b) == [t |-> "bool", v |-> b]
Null == [t |-> "null", v |-> <<>>]
Arr(s) == [t |-> "array", v |-> s]
Dict(pairs) == [t |-> "map", v |-> pairs]     \* <<key, value>> pairs

Digit == <<"0", "1", "2", "3", "4", "5", "6", "7", "8", "9">>
IsDigit(c) == \E i \in 1..Radix : c = Digit[i]
TypeByte == [null |-> "~", bool |-> "!", int |-> "#", float |-> "^",
             string |-> ",", array |-> "]", map |-> "}"]
bool_bytes(b) == IF b THEN <<"t", "r", "u", "e">> ELSE <<"f", "a", "l", "s", "e">>

Decimal[n \in Nat] ==
  IF n < Radix THEN <<Digit[n + 1]>> ELSE Append(Decimal[n \div Radix], Digit[(n % Radix) + 1])

Joined(parts) == FoldLeft(LAMBDA done, part : done \o part, <<>>, parts)

(* usize_len, isize_len: how many bytes a number takes, by repeated division.  *)
Divisions[n \in Nat] == IF n < Radix THEN 0 ELSE 1 + Divisions[n \div Radix]
usize_len(n) == 1 + Divisions[n]
isize_len(n) == IF n < 0 THEN 1 + usize_len(-n) ELSE usize_len(n)
Signed(n) == IF n < 0 THEN <<"-">> \o Decimal[-n] ELSE Decimal[n]

(* ---- Writer: operations are collected, then written with their sizes ---- *)
Op(op, v) == [op |-> op, v |-> v]
Closes(op) == op.op \in {"EndArray", "EndMap"}

(* The calls write_* and start_*/end_* make for a value (append).             *)
RECURSIVE Ops(_)
Ops(x) ==
  CASE x.t = "array" -> <<Op("StartArray", 0)>>
                          \o Joined([i \in 1..Len(x.v) |-> Ops(x.v[i])])
                          \o <<Op("EndArray", 0)>>
    [] x.t = "map" -> <<Op("StartMap", 0)>>
                        \o Joined([i \in 1..Len(x.v) |->
                                        Ops(Text(x.v[i][1])) \o Ops(x.v[i][2])])
                        \o <<Op("EndMap", 0)>>
    [] OTHER -> <<Op(x.t, x.v)>>

(* calc_len: the size of the operation at i with what it contains, and where  *)
(* the next one starts.                                                       *)
RECURSIVE calc_len(_, _)
RECURSIVE Within(_, _, _)
Within(ops, j, total) ==
  IF Closes(ops[j]) THEN [len |-> total, next |-> j + 1]
  ELSE LET add(c) == Within(ops, c.next, total + usize_len(c.len) + c.len + 2)
       IN add(calc_len(ops, j))
OpLen(op) ==
  CASE op.op = "null" -> 0
    [] op.op = "bool" -> Len(bool_bytes(op.v))
    [] op.op = "int" -> isize_len(op.v)
    [] OTHER -> Len(op.v)
calc_len(ops, i) ==
  IF ops[i].op \in {"StartArray", "StartMap"} THEN Within(ops, i + 1, 0)
  ELSE [len |-> OpLen(ops[i]), next |-> i + 1]

(* Op::serialize *)
Op_serialize(ops, i) ==
  LET op == ops[i]
      header == IF Closes(op) THEN <<>> ELSE Decimal[calc_len(ops, i).len] \o <<":">>
      content == CASE op.op = "bool" -> bool_bytes(op.v)
                   [] op.op = "int" -> Signed(op.v)
                   [] op.op = "string" -> op.v
                   [] OTHER -> <<>>
      end == CASE op.op \in {"StartArray", "StartMap"} -> <<>>
               [] op.op = "EndArray" -> <<TypeByte.array>>
               [] op.op = "EndMap" -> <<TypeByte.map>>
               [] OTHER -> <<TypeByte[op.op]>>
  IN header \o content \o end

Failed == [ok |-> FALSE]
Good(v) == [ok |-> TRUE, v |-> v]

(* Writer::append refuses more than OPS_MAX operations; Writer::flush, what   *)
(* does not fit into the destination.                                         *)
Fit(bytes, room) == IF Len(bytes) > room THEN Failed ELSE Good(bytes)
flush(ops, room) ==
  IF Len(ops) > OPS_MAX THEN Failed
  ELSE Fit(Joined([i \in 1..Len(ops) |-> Op_serialize(ops, i)]), room)

(* ---- Serializer: a buffer per open container, added to the one around it *)
add(data, ftype) == Decimal[Len(data)] \o <<":">> \o data \o <<ftype>>

(* SerializeSeq, SerializeTuple..., SerializeMap, SerializeStruct: the items    *)
(* between start_buf and end_buf.                                             *)
Collected(items, ftype) == add(Joined(items), ftype)

(* to_bytes: serialize_bool, _i64, _bytes, _unit, and what starts a container. *)
(* A variant is a map of one entry.                                           *)
RECURSIVE to_bytes(_)
to_bytes(x) ==
  CASE x.t = "bool" -> add(bool_bytes(x.v), TypeByte.bool)
    [] x.t = "int" -> add(Signed(x.v), TypeByte.int)
    [] x.t = "array" -> Collected([i \in 1..Len(x.v) |-> to_bytes(x.v[i])], TypeByte.array)
    [] x.t = "map" -> Collected([i \in 1..Len(x.v) |->
                                    to_bytes(Text(x.v[i][1])) \o to_bytes(x.v[i][2])],
                                TypeByte.map)
    [] OTHER -> add(x.v, TypeByte[x.t])

(* ---- the parser ---- *)
FrameType(c) == CHOOSE t \in DOMAIN TypeByte : TypeByte[t] = c

(* The number a run of digits stands for.                                     *)
Value(digits) ==
  FoldLeft(LAMBDA acc, c : acc * Radix + (CHOOSE i \in 1..Radix : Digit[i] = c) - 1, 0, digits)

(* parse_frame: the frame at the start of src, and its length with header and *)
(* type.                                                                      *)
FrameAt(src, colon, end) ==
  IF end > Len(src) \/ ~\E t \in DOMAIN TypeByte : TypeByte[t] = src[end] THEN Failed
  ELSE [ok |-> TRUE, ftype |-> FrameType(src[end]),
        data |-> SubSeq(src, colon + 1, end - 1), end |-> end]
parse_header_size(src, colon) ==
  IF colon <= 1 THEN Failed
  ELSE IF src[colon] # ":" THEN Failed
  ELSE FrameAt(src, colon, colon + Value(SubSeq(src, 1, colon - 1)) + 1)
parse_frame(src) == parse_header_size(src, SelectInSeq(src, LAMBDA c : ~IsDigit(c)))

(* parse_string, parse_int, parse_bool: the content of a frame of that type.  *)
Content(f, type) == IF f.ok /\ f.ftype = type THEN Good(f.data) ELSE Failed
Parsed(x, Valid(_), Conv(_)) == IF x.ok /\ Valid(x.v) THEN Good(Conv(x.v)) ELSE Failed
parse_string(src) == Content(parse_frame(src), "string")

IsNegative(s) == s # <<>> /\ s[1] = "-"
Magnitude(s) == IF IsNegative(s) THEN Tail(s) ELSE s
parse_int(src) ==
  Parsed(Content(parse_frame(src), "int"),
         LAMBDA s : Magnitude(s) # <<>> /\ \A i \in DOMAIN Magnitude(s) : IsDigit(Magnitude(s)[i]),
         LAMBDA s : Value(Magnitude(s)) * (IF IsNegative(s) THEN -1 ELSE 1))
parse_bool(src) ==
  Parsed(Content(parse_frame(src), "bool"),
         LAMBDA s : \E b \in BOOLEAN : s = bool_bytes(b), LAMBDA s : s = bool_bytes(TRUE))

(* SequenceIterator: the frames of src with their type and whole bytes; a     *)
(* frame that cannot be read is the last item.                                *)
RECURSIVE SequenceItems(_)
SequenceItems(src) ==
  LET items(f) == IF ~f.ok THEN <<Failed>>
                  ELSE <<[ok |-> TRUE, ftype |-> f.ftype, data |-> SubSeq(src, 1, f.end)]>>
                         \o SequenceItems(SubSeq(src, f.end + 1, Len(src)))
  IN IF src = <<>> THEN <<>> ELSE items(parse_frame(src))
Always(x) == TRUE
parse_array(src) == Parsed(Content(parse_frame(src), "array"), Always, SequenceItems)

(* MapIterator: a key must be a string, and a value must follow it.           *)
RECURSIVE MapItems(_)
MapItems(src) ==
  LET entry(k, v, rest) ==
        IF ~v.ok THEN <<Failed>>
        ELSE <<[ok |-> TRUE, key |-> k.data, ftype |-> v.ftype, data |-> SubSeq(rest, 1, v.end)]>>
               \o MapItems(SubSeq(rest, v.end + 1, Len(rest)))
      after(k, rest) == entry(k, parse_frame(rest), rest)
      items(k) == IF ~k.ok THEN <<Failed>>
                  ELSE IF k.ftype # "string" THEN <<Failed>>
                  ELSE after(k, SubSeq(src, k.end + 1, Len(src)))
  IN IF src = <<>> THEN <<>> ELSE items(parse_frame(src))
parse_map(src) == Parsed(Content(parse_frame(src), "map"), Always, MapItems)

(* ---- the fields of data packets and their kinds ---- *)
(* How many values a number of each width has (2^16 and 2^32 in the code).    *)
Size == [u16 |-> 2 ^ 3, u32 |-> 2 ^ 4]

RequestFields ==
  [credits |-> "u32", more |-> "bool", stream |-> "bool", router_resp |-> "bool",
   max_size |-> "u32", timeout |-> "u32", method |-> "string", uri |-> "string",
   headers |-> "headers", content_type |-> "ctype", body |-> "string",
   peer_address |-> "string", peer_port |-> "u16"]
ReadOnlyFields ==
  [connect_host |-> "string", connect_port |-> "u16", ignore_policies |-> "bool",
   trust_connect_host |-> "bool", ignore_tls_errors |-> "bool", client_cert |-> "string",
   client_key |-> "string", follow_redirects |-> "bool"]
ResponseFields ==
  [credits |-> "u32", more |-> "bool", code |-> "u16", reason |-> "string",
   headers |-> "headers", content_type |-> "ctype", body |-> "string"]

Default(kind) ==
  CASE kind \in {"u16", "u32"} -> 0 [] kind = "bool" -> FALSE [] kind = "ctype" -> None [] OTHER -> <<>>

(* content-type: text and binary are names on the wire; anything but binary   *)
(* is read as text.                                                           *)
HeaderValue(h) == Arr(<<Text(<<h[1]>>), Text(h[2])>>)
Written(kind, x) ==
  CASE kind \in {"u16", "u32"} -> Num(x)
    [] kind = "bool" -> Flag(TRUE)
    [] kind = "string" -> Text(x)
    [] kind = "ctype" -> Text(<<x>>)
    [] kind = "headers" -> Arr([i \in 1..Len(x) |-> HeaderValue(x[i])])

Entry(name, v) == <<<<name>>, v>>
(* The entries of the fields named, in that order, that have a value.         *)
Fields(kinds, d, order) ==
  LET set == SelectSeq(order, LAMBDA f : d[f] # Default(kinds[f]))
  IN [i \in 1..Len(set) |-> Entry(set[i], Written(kinds[set[i]], d[set[i]]))]

(* RequestData::serialize: the port goes with the address.                    *)
RequestData_serialize(d) ==
  Fields(RequestFields, d,
         <<"method", "uri", "headers", "content_type", "body", "credits", "more", "stream",
           "router_resp", "max_size", "timeout", "peer_address">>)
    \o (IF d.peer_address # <<>> THEN <<Entry("peer_port", Num(d.peer_port))>> ELSE <<>>)

(* The fields a peer adds to a request for the client side (external).        *)
PeerRequest(d) ==
  Fields(ReadOnlyFields, d,
         <<"connect_host", "connect_port", "ignore_policies", "trust_connect_host",
           "ignore_tls_errors", "client_cert", "client_key", "follow_redirects">>)

(* ResponseData::serialize *)
ResponseData_serialize(d) ==
  Fields(ResponseFields, d,
         <<"code", "reason", "headers", "content_type", "body", "credits", "more">>)

(* RequestErrorData, ResponseErrorData: a rejection carries a response.       *)
ErrorData_serialize(d) ==
  <<Entry("condition", Text(d.condition))>>
    \o (IF d.rejected = None THEN <<>>
        ELSE <<Entry("code", Num(d.rejected.code)), Entry("reason", Text(d.rejected.reason))>>
               \o Fields(ResponseFields, d.rejected, <<"headers">>)
               \o <<Entry("body", Text(d.rejected.body))>>)

(* CloseData::serialize; PingData and PongData write their body alone.        *)
CloseData_serialize(d) ==
  IF d.status = None THEN <<>>
  ELSE <<Entry("code", Num(d.status[1]))>>
         \o (IF d.status[2] # <<>> THEN <<Entry("body", Text(d.status[2]))>> ELSE <<>>)
PingData_serialize(d) == IF d.body # <<>> THEN <<Entry("body", Text(d.body))>> ELSE <<>>

(* CommonData::serialize: one id is written in the root, several as a list.   *)
IdEntries(i) ==
  <<Entry("id", Text(i.id))>> \o (IF i.seq # None THEN <<Entry("seq", Num(i.seq))>> ELSE <<>>)
CommonData_serialize(p) ==
  (IF p.from # <<>> THEN <<Entry("from", Text(p.from))>> ELSE <<>>)
    \o (CASE p.ids = <<>> -> <<>>
          [] Len(p.ids) = 1 -> IdEntries(p.ids[1])
          [] OTHER -> <<Entry("id", Arr([i \in 1..Len(p.ids) |-> Dict(IdEntries(p.ids[i]))]))>>)
    \o (IF p.multi THEN <<Entry("ext", Dict(<<Entry("multi", Flag(TRUE))>>))>> ELSE <<>>)
    \o (IF p.ptype # "data" THEN <<Entry("type", Text(<<p.ptype>>))>> ELSE <<>>)

Data_serialize(d) ==
  IF dir = "req" THEN RequestData_serialize(d) ELSE ResponseData_serialize(d)

(* ---- reading ---- *)
(* The items of a field: all must be readable, and the last one counts.       *)
Items(root, name) == SelectSeq(root, LAMBDA e : e.ok /\ e.key = <<name>>)

(* One header: a list of a name and a value.                                  *)
Values(rs) ==
  IF \E i \in 1..Len(rs) : ~rs[i].ok THEN Failed ELSE Good([i \in 1..Len(rs) |-> rs[i].v])
Header(list) ==
  Parsed(list, LAMBDA v : Len(v) >= 2,
         LAMBDA v : Values([i \in 1..2 |-> IF v[i].ok THEN parse_string(v[i].data) ELSE Failed]))
HeaderPair(h) == IF h.ok /\ h.v.ok THEN Good(<<h.v.v[1][1], h.v.v[2]>>) ELSE Failed
parse_header(item) == HeaderPair(Header(IF item.ok THEN parse_array(item.data) ELSE Failed))

HeaderList(list) ==
  IF ~list.ok THEN Failed
  ELSE IF Len(list.v) > HEADERS_MAX THEN Failed
  ELSE Values([i \in 1..Len(list.v) |-> parse_header(list.v[i])])
parse_headers(data) == HeaderList(parse_array(data))

(* A number is an isize on the wire; what is not negative is cast to the width *)
(* of its field, x as u16 or x as u32.                                        *)
parse_unsigned(data, kind) ==
  Parsed(parse_int(data), LAMBDA v : v >= 0, LAMBDA v : v % Size[kind])

ParseField(kind, data) ==
  CASE kind \in {"u16", "u32"} -> parse_unsigned(data, kind)
    [] kind = "bool" -> parse_bool(data)
    [] kind = "string" -> parse_string(data)
    [] kind = "ctype" -> Parsed(parse_string(data), Always,
                                LAMBDA v : IF v = <<"binary">> THEN "binary" ELSE "text")
    [] kind = "headers" -> parse_headers(data)

LastOr(rs, default) == IF rs = <<>> THEN default ELSE Last(rs)
FieldsRead(kinds, got) ==
  IF \E f \in DOMAIN kinds : ~got[f].ok THEN Failed
  ELSE Good([f \in DOMAIN kinds |-> LastOr(got[f].v, Default(kinds[f]))])
ReadAll(items, kind) == Values([i \in 1..Len(items) |-> ParseField(kind, items[i].data)])
ParseFields(root, kinds) ==
  IF \E i \in 1..Len(root) : ~root[i].ok THEN Failed
  ELSE FieldsRead(kinds, [f \in DOMAIN kinds |-> ReadAll(Items(root, f), kinds[f])])

RequestData_parse(root) == ParseFields(root, RequestFields @@ ReadOnlyFields)
ResponseData_parse(root) == ParseFields(root, ResponseFields)

(* A request's error is its condition alone; the rest is read of a response.   *)
Rejection(d) ==
  [condition |-> d.condition,
   rejected |-> IF d.condition # <<"rejected">> THEN None
                ELSE [f \in DOMAIN d \ {"condition"} |-> d[f]]]
ErrorData_parse(root) ==
  IF dir = "req"
  THEN Parsed(ParseFields(root, [condition |-> "string"]), Always,
              LAMBDA d : [condition |-> d.condition, rejected |-> None])
  ELSE Parsed(ParseFields(root, [condition |-> "string", code |-> "u16", reason |-> "string",
                                 headers |-> "headers", body |-> "string"]), Always, Rejection)

CreditData_parse(root) == ParseFields(root, [credits |-> "u32"])

CloseData_parse(root) ==
  Parsed(ParseFields(root, [code |-> "u16", body |-> "string"]), Always,
         LAMBDA d : [status |-> IF Items(root, "code") = <<>> THEN None ELSE <<d.code, d.body>>])

parse_ping_or_pong(root) == ParseFields(root, [credits |-> "u32", body |-> "string"])

(* One entry of an id list.                                                   *)
IdFrom(root, seq) ==
  Parsed(ParseFields(root, [id |-> "string", seq |-> "u32"]), Always,
         LAMBDA d : [id |-> d.id, seq |-> IF seq THEN d.seq ELSE None])
IdIn(m) == IF m.ok THEN IdFrom(m.v, Items(m.v, "seq") # <<>>) ELSE Failed
parse_id(item) == IdIn(IF item.ok THEN parse_map(item.data) ELSE Failed)

(* What an id field adds to the ids read so far (acc).                        *)
EMPTY_ID == [id |-> <<>>, seq |-> None]
IdList(acc, items) ==
  IF Len(acc) + Len(items) > IDS_MAX THEN Failed
  ELSE Parsed(Values([i \in 1..Len(items) |-> parse_id(items[i])]), Always, LAMBDA v : acc \o v)
First(acc) == IF acc = <<>> THEN <<EMPTY_ID>> ELSE acc
AddId(acc, list, data) ==
  IF list.ok THEN IdList(acc, list.v)
  ELSE Parsed(parse_string(data), Always, LAMBDA v : [First(acc) EXCEPT ![1].id = v])
AddIds(acc, e) == AddId(acc, parse_array(e.data), e.data)
SetSeq_fresh(acc, e) == \* mutant: a seq that precedes its id gets an entry of its own
  Parsed(parse_unsigned(e.data, "u32"), Always, LAMBDA v : Append(acc, [id |-> <<>>, seq |-> v]))
SetSeq(acc, e) ==
  Parsed(parse_unsigned(e.data, "u32"), Always, LAMBDA v : [First(acc) EXCEPT ![1].seq = v])

(* CommonData::parse *)
IdsRead(root) ==
  FoldLeft(LAMBDA acc, e : CASE acc.ok /\ e.key = <<"id">> -> AddIds(acc.v, e)
                             [] acc.ok /\ e.key = <<"seq">> -> SetSeq(acc.v, e)
                             [] OTHER -> acc,
           Good(<<>>), root)
MultiIn(m) == IF m.ok THEN ParseFields(m.v, [multi |-> "bool"]) ELSE Failed
Multis(ext) == Values([i \in 1..Len(ext) |-> MultiIn(parse_map(ext[i].data))])
CommonOf(common, list, multi) ==
  IF ~list.ok \/ ~multi.ok THEN Failed
  ELSE Good([from |-> common.from, ids |-> list.v, type |-> common.type,
             multi |-> LastOr(multi.v, [multi |-> FALSE]).multi])
Common(common, root) ==
  IF ~common.ok THEN Failed
  ELSE CommonOf(common.v, IdsRead(root), Multis(Items(root, "ext")))
CommonData_parse(root) ==
  Common(ParseFields(root, [from |-> "string", type |-> "string"]), root)

Root(src) == IF src = <<>> \/ (src # <<>> /\ src[1] # "T") THEN Failed ELSE parse_map(Tail(src))

(* parse_ids: the sender and the ids alone; seq fields are not looked at.     *)
IdName(m) ==
  IF m.ok THEN Parsed(ParseFields(m.v, [id |-> "string"]), Always, LAMBDA d : d.id) ELSE Failed
Names(list, data) ==
  IF list.ok
  THEN Values([i \in 1..Len(list.v) |->
                 IdName(IF list.v[i].ok THEN parse_map(list.v[i].data) ELSE Failed)])
  ELSE Parsed(parse_string(data), Always, LAMBDA v : <<v>>)
AddNames(acc, new) == IF new.ok THEN (IF Len(acc) + Len(new.v) > IDS_MAX THEN Failed ELSE Good(acc \o new.v))
                      ELSE Failed
AllNames(root) ==
  FoldLeft(LAMBDA acc, e : IF acc.ok /\ e.key = <<"id">>
                             THEN AddNames(acc.v, Names(parse_array(e.data), e.data)) ELSE acc,
           Good(<<>>), root)
FromAndIds(from, list) ==
  IF from.ok /\ list.ok THEN Good([from |-> from.v.from, ids |-> list.v]) ELSE Failed
IdsOf(root) ==
  IF root.ok
  THEN FromAndIds(ParseFields(root.v, [from |-> "string"]),
                  IF \A i \in 1..Len(root.v) : root.v[i].ok THEN AllNames(root.v) ELSE Failed)
  ELSE Failed
parse_ids(src) == IdsOf(Root(src))

(* Request::parse, Response::parse: the type decides which data is read.      *)
Plain == {"keep_alive", "cancel", "handoff_start", "handoff_proceed"}
Data_parse(ptype, root) ==
  CASE ptype = "data" -> IF dir = "req" THEN RequestData_parse(root) ELSE ResponseData_parse(root)
    [] ptype = "error" -> ErrorData_parse(root)
    [] ptype = "credit" -> CreditData_parse(root)
    [] ptype = "close" -> CloseData_parse(root)
    [] ptype \in {"ping", "pong"} -> parse_ping_or_pong(root)
    [] OTHER -> Good(None)
PacketOf(c, ptype, d) ==
  IF d.ok
  THEN Good([from |-> c.from, ids |-> c.ids, multi |-> c.multi, ptype |-> ptype, data |-> d.v])
  ELSE Failed
TypeOf(c) == IF c.type = <<>> THEN "data" ELSE c.type[1]
WithData(c, root) ==
  IF c.ok THEN PacketOf(c.v, TypeOf(c.v), Data_parse(TypeOf(c.v), root)) ELSE Failed
ParseRoot(root) == IF root.ok THEN WithData(CommonData_parse(root.v), root.v) ELSE Failed
parse(src) == ParseRoot(Root(src))

(* ---- the packets a program sends ---- *)
(* A peer may write numbers beyond their width (large).                       *)
Sample(kind, hs, large) ==
  CASE kind \in {"u16", "u32"} -> IF large THEN Size[kind] + 1 ELSE Radix
    [] kind = "bool" -> TRUE [] kind = "ctype" -> "binary"
    [] kind = "headers" -> hs [] OTHER -> <<"1", ":", "}">>
DataOf(kinds, set, hs, large) ==
  [f \in DOMAIN kinds |-> IF f \in set THEN Sample(kinds[f], hs, large) ELSE Default(kinds[f])]

(* Every field alone, and all of them at once; a port goes with an address.    *)
FieldSets(kinds) ==
  {S \in {{f} : f \in DOMAIN kinds} \cup {{}, DOMAIN kinds} :
     "peer_port" \in S => "peer_address" \in S}
DataPackets(kinds, p) ==
  {DataOf(kinds, S, hs, FALSE) : S \in FieldSets(kinds), hs \in HeaderLists}
  \cup (IF p THEN {DataOf(kinds, S, <<>>, TRUE) : S \in FieldSets(kinds)} ELSE {})

Numbers(kind, p) == {Radix} \cup (IF p THEN {Size[kind] + 1} ELSE {})
Datas(d, p) ==
  [data |-> IF d = "req"
              THEN {x @@ DataOf(ReadOnlyFields, {}, <<>>, FALSE) : x \in DataPackets(RequestFields, p)}
                     \cup (IF p THEN {DataOf(RequestFields, {"uri"}, <<>>, FALSE) @@ y :
                                       y \in DataPackets(ReadOnlyFields, p)} ELSE {})
              ELSE DataPackets(ResponseFields, p),
   error |-> {[condition |-> <<"bad">>, rejected |-> None]}
               \cup (IF d = "resp"
                        THEN {[condition |-> <<"rejected">>,
                               rejected |-> [code |-> c, reason |-> <<>>, headers |-> hs, body |-> b]] :
                                hs \in HeaderLists, b \in {<<>>, <<",">>}, c \in Numbers("u16", p)}
                        ELSE {}),
   credit |-> {[credits |-> n] : n \in {0, Radix - 1} \cup Numbers("u32", p)},
   close |-> {[status |-> s] : s \in {None, <<1, <<>>>>} \cup (Numbers("u16", p) \X {<<"]">>})},
   ping |-> {[credits |-> 0, body |-> b] : b \in {<<>>, <<"0", ":">>}},
   pong |-> {[credits |-> 0, body |-> b] : b \in {<<>>, <<"0", ":">>}}]

Packet(from, list, multi, ptype, data) ==
  [from |-> from, ids |-> list, multi |-> multi, ptype |-> ptype, data |-> data]
(* A sequence number of this code is a u32.                                   *)
Lists(p) ==
  {list \in IdLists :
     p \/ \A i \in 1..Len(list) : list[i].seq = None \/ list[i].seq < Size["u32"]}
Packets(d, p) ==
  {Packet(from, list, multi, ptype, None) :
     from \in {<<>>, <<"a", "1">>}, list \in Lists(p), multi \in BOOLEAN, ptype \in Plain}
  \cup UNION {{Packet(<<"a">>, list, FALSE, t, x) : x \in Datas(d, p)[t]} :
               t \in DOMAIN Datas(d, p), list \in {l \in Lists(FALSE) : Len(l) = 1 /\ l[1].seq # None}}

Init ==
  /\ dir \in {"req", "resp"} /\ peer \in BOOLEAN
  /\ packet \in Packets(dir, peer)
  /\ entries = <<>> /\ msg = Failed /\ parsed = Failed /\ ids = Failed
  /\ stage = "new"

(* Request::serialize, Response::serialize: the common fields, then the data. *)
serialize ==
  /\ stage = "new"
  /\ entries' = CommonData_serialize(packet)
        \o (CASE packet.ptype = "data" -> Data_serialize(packet.data)
              [] packet.ptype = "error" -> ErrorData_serialize(packet.data)
              [] packet.ptype = "credit" -> <<Entry("credits", Num(packet.data.credits))>>
              [] packet.ptype = "close" -> CloseData_serialize(packet.data)
              [] packet.ptype \in {"ping", "pong"} -> PingData_serialize(packet.data)
              [] OTHER -> <<>>)
        \o (IF peer /\ dir = "req" /\ packet.ptype = "data" THEN PeerRequest(packet.data) ELSE <<>>)
  /\ stage' = IF peer THEN "loose" ELSE "fields"
  /\ UNCHANGED <<dir, packet, peer, msg, parsed, ids>>

(* A peer writes the fields in any order (the first and another change places *)
(* here), and may add one that is not known here (external).                  *)
Swapped(s, i, j) == [s EXCEPT ![i] = s[j], ![j] = s[i]]
PeerOrder ==
  /\ stage = "loose"
  /\ \E i \in 1..Len(entries), extra \in {<<>>, <<Entry("userdata", Arr(<<Null>>))>>} :
        entries' = extra \o Swapped(entries, 1, i)
  /\ stage' = "fields"
  /\ UNCHANGED <<dir, packet, peer, msg, parsed, ids>>

Flush ==
  /\ stage = "fields"
  /\ \E room \in Rooms :
       msg' = Parsed(flush(Ops(Dict(entries)), room - 1), Always, LAMBDA v : <<"T">> \o v)
  /\ stage' = "sent"
  /\ UNCHANGED <<dir, packet, peer, entries, parsed, ids>>

(* The socket manager reads the ids, the connection the packet.               *)
Receive ==
  /\ stage = "sent" /\ msg.ok
  /\ ids' = parse_ids(msg.v) /\ parsed' = parse(msg.v)
  /\ stage' = "parsed"
  /\ UNCHANGED <<dir, packet, peer, entries, msg>>

Next == serialize \/ PeerOrder \/ Flush \/ Receive

Spec == Init /\ [][Next]_vars

(* ---- properties ---- *)
(* A packet is read as it was written, in whatever order a peer wrote the      *)
(* fields and whatever else it wrote: as a whole, when its numbers are within  *)
(* the width of their fields (those of this code always are), and otherwise    *)
(* with what the casts leave of those numbers and nothing else changed; unless *)
(* there are more ids or headers than the reader has room for, and then it is  *)
(* refused as a whole.                                                         *)
HeadersIn(p) ==
  CASE p.ptype = "data" -> p.data.headers
    [] p.ptype = "error" /\ p.data.rejected # None -> p.data.rejected.headers
    [] OTHER -> <<>>
Widths == RequestFields @@ ReadOnlyFields @@ ResponseFields
InWidth(f, x) ==
  IF f \in DOMAIN Widths /\ Widths[f] \in DOMAIN Size THEN x % Size[Widths[f]] ELSE x
Cast(d) ==
  CASE d = None -> None
    [] "rejected" \in DOMAIN d /\ d.rejected # None -> [d EXCEPT !.rejected.code = InWidth("code", @)]
    [] "status" \in DOMAIN d /\ d.status # None -> [d EXCEPT !.status[1] = InWidth("code", @)]
    [] OTHER -> [f \in DOMAIN d |-> InWidth(f, d[f])]
CastIds(list) ==
  [i \in 1..Len(list) |-> IF list[i].seq = None THEN list[i]
                          ELSE [list[i] EXCEPT !.seq = @ % Size["u32"]]]
RoundTrip ==
  /\ stage = "parsed" =>
       parsed = IF Len(packet.ids) > IDS_MAX \/ Len(HeadersIn(packet)) > HEADERS_MAX
                  THEN Failed
                  ELSE Good([packet EXCEPT !.ids = CastIds(@), !.data = Cast(@)])
  /\ stage = "parsed" /\ ~peer /\ parsed.ok => parsed.v = packet

(* The manager that routes a packet by its ids and the connection that then    *)
(* handles it agree on whose packet it is.                                     *)
IdsAgree ==
  stage = "parsed" /\ parsed.ok =>
    ids = Good([from |-> parsed.v.from,
                ids |-> [i \in 1..Len(parsed.v.ids) |-> parsed.v.ids[i].id]])

(* The two encoders of tnetstrings write the same bytes, so one parser reads   *)
(* both; and nothing shorter than a whole message is taken for one.            *)
EncodersAgree ==
  stage = "sent" /\ msg.ok =>
    /\ msg.v = <<"T">> \o to_bytes(Dict(entries))
    /\ \A k \in 0..(Len(msg.v) - 1) : ~Root(SubSeq(msg.v, 1, k)).ok
================================================================================
