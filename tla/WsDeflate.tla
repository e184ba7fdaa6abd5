------------------------------ MODULE WsDeflate ------------------------------
(* Compressed WebSocket messages between two Protocol objects                  *)
(* (connmgr/websocket.rs): DeflateEncoder, the frames send_message_content     *)
(* writes from its output, masking in place, the receiver's ring buffer, and   *)
(* DeflateDecoder.                                                            *)
(*                                                                            *)
(* The deflate library is abstracted to what the code relies on: a compressed *)
(* datum is one byte, a literal or a reference to a datum the stream had       *)
(* before; a sync flush ends with a block header "z" and the SYNC_MARKER, which *)
(* the encoder keeps back and the decoder puts in again.  A marker anywhere    *)
(* else is not decodable.  A byte is [v, x]: a value, and the mask positions   *)
(* it has been XORed with.                                                     *)
EXTENDS Integers, Sequences, FiniteSets, SequencesExt

CONSTANTS
  Messages,              \* data of each message: a sequence of sequences
  ENC_MIN_OUTPUT_SIZE,   \* least room to compress into (7 in the code)
  EncBufSize,            \* capacity of enc_buf
  RingSize,              \* capacity of the receiver's buffer
  WriteSizes,            \* bytes the socket may take in one write; 0: it would block
  DestSize,              \* room for decoded data in one call
  MaskLen,               \* bytes of a masking key (4 in the code)
  Mask,                  \* frames are masked
  NoTakeover,            \* the receiver drops its context after every message
  None

VARIABLES
  n,         \* message being sent
  src,       \* data not yet taken from the caller's buffer
  msg,       \* sending.message: [end_len, frame_sent, enc_output_end], or None
  enc,       \* [held, seen, syncing, next_buf, flushing]: compressor and encoder
  enc_buf,   \* compressed bytes to be framed
  frame,     \* sending.frame: [header, size, sent], or None
  wire,      \* bytes under way
  rbuf,      \* [start, data]: the receiver's ring buffer
  rframe,    \* receiving.frame: [fin, size, read], or None
  dec,       \* [seen, at, marker_pos]: the decoder
  out,       \* data of the message being received
  got,       \* messages received whole
  broken     \* what went wrong: "error", the decoder reported one; "early", it was
             \* given the marker before the rest of the message (history)

vars == <<n, src, msg, enc, enc_buf, frame, wire, rbuf, rframe, dec, out, got, broken>>
sender == <<n, src, msg, enc, enc_buf, frame>>
receiver == <<rbuf, rframe, dec, out, got, broken>>

Byte(v) == [v |-> v, x |-> {}]
Bytes(s) == [i \in 1..Len(s) |-> Byte(s[i])]
SYNC_MARKER == Bytes(<<<<"m", 1>>, <<"m", 2>>>>)
Small(a, b) == IF a < b THEN a ELSE b
From(s, k) == SubSeq(s, k + 1, Len(s))
Upto(s, k) == SubSeq(s, 1, k)
EndsWith(s, t) == Len(s) >= Len(t) /\ From(s, Len(s) - Len(t)) = t

(* ---- masking ---- *)
(* apply_mask: byte i is XORed with the key byte of its place in the payload.  *)
apply_mask_from(s, offset) == \* mutant: the mask starts again with every buffer
  IF ~Mask THEN s
  ELSE [i \in 1..Len(s) |-> [s[i] EXCEPT !.x = SymDiff(@, {(i - 1) % MaskLen})]]
apply_mask(s, offset) ==
  IF ~Mask THEN s
  ELSE [i \in 1..Len(s) |-> [s[i] EXCEPT !.x = SymDiff(@, {(offset + i - 1) % MaskLen})]]

(* ---- the library ---- *)
Literal(d) == <<"lit", d>>
Reference(d) == <<"ref", d>>
Packed(data, seen) ==
  [i \in 1..Len(data) |->
     Byte(IF data[i] \in seen \/ \E j \in 1..(i - 1) : data[j] = data[i]
            THEN Reference(data[i]) ELSE Literal(data[i]))]

(* deflate_helper: without sync any part of what is held may come out; with    *)
(* sync all that fits, then the block header and the marker.                   *)
Emit(e, held, size, sync) ==
  [enc |-> [e EXCEPT !.held = From(held, size), !.syncing = sync /\ size < Len(held)],
   output |-> Upto(held, size)]
deflate_helper(e, input, room, sync, keep) ==
  LET held == e.held \o Packed(input, e.seen)
                \o (IF sync /\ ~e.syncing THEN <<Byte(<<"z", 0>>)>> \o SYNC_MARKER ELSE <<>>)
      ready == Len(e.held) + Len(input) - Small(keep, Len(e.held) + Len(input))
  IN Emit([e EXCEPT !.seen = @ \cup ToSet(input)], held,
          Small(room, IF sync THEN Len(held) ELSE ready), sync)

(* inflate: reads until the input or the room ends.                            *)
IsData(b) == b.v[1] \in {"lit", "ref"}
Valid(acc, b) ==
  /\ b.x = {}
  /\ acc.at = IF b.v[1] = "m" THEN b.v[2] ELSE 0
  /\ b.v[1] \in {"lit", "ref", "z", "m"}
  /\ b.v[1] = "ref" => b.v[2] \in acc.seen
InflateOne(acc, b, room) ==
  IF acc.full \/ acc.bad THEN acc
  ELSE IF ~Valid(acc, b) THEN [acc EXCEPT !.bad = TRUE]
  ELSE IF ~IsData(b)
    THEN [acc EXCEPT !.read = @ + 1, !.at = (@ + 1) % (Len(SYNC_MARKER) + 1)]
  ELSE IF Len(acc.out) = room THEN [acc EXCEPT !.full = TRUE]
  ELSE [acc EXCEPT !.read = @ + 1, !.out = Append(@, b.v[2]), !.seen = @ \cup {b.v[2]}]
inflate(d, s, room) ==
  FoldLeft(LAMBDA acc, b : InflateOne(acc, b, room),
           [seen |-> d.seen, at |-> d.at, read |-> 0, out |-> <<>>, full |-> FALSE, bad |-> FALSE],
           s)

(* ---- DeflateEncoder ---- *)
ENC_NEXT_BUF_SIZE == Len(SYNC_MARKER) + ENC_MIN_OUTPUT_SIZE
Spare(s) == IF Len(s) > Len(SYNC_MARKER) THEN Len(s) - Len(SYNC_MARKER) ELSE 0

(* encode_step: the last bytes stay in next_buf, since they may be the marker; *)
(* the marker itself is dropped once it is known to be there.                  *)
StepDone(e, flushing, kept, read, output) ==
  LET ack == flushing /\ kept = SYNC_MARKER
  IN [enc |-> [e EXCEPT !.flushing = flushing /\ ~ack, !.next_buf = IF ack THEN <<>> ELSE kept],
      read |-> read, output |-> output, ack |-> ack]
(* What was made is put out but for what may be the marker.                    *)
PutOut(e, flushing, moved, made, size, read) ==
  StepDone(e, flushing, From(made, size), read, moved \o Upto(made, size))
Compressed(r, flushing, moved, kept, room, read) ==
  PutOut(r.enc, flushing, moved, kept \o r.output, Small(Spare(kept \o r.output), room), read)
(* With room enough, all of next_buf and the compressor's output go out; else   *)
(* the compressor writes to next_buf, if that has room.                        *)
Direct(e, s, flushing, room, keep) ==
  Compressed(deflate_helper(e, s, room - Len(e.next_buf), flushing, keep),
             flushing, e.next_buf, <<>>, room, Len(s))
Buffered(e, s, flushing, room, take, keep) ==
  IF \/ flushing /\ EndsWith(e.next_buf, SYNC_MARKER)
     \/ ENC_NEXT_BUF_SIZE - (Len(e.next_buf) - take) < ENC_MIN_OUTPUT_SIZE
  THEN StepDone(e, flushing, From(e.next_buf, take), 0, Upto(e.next_buf, take))
  ELSE Compressed(deflate_helper(e, s, ENC_NEXT_BUF_SIZE - (Len(e.next_buf) - take), flushing, keep),
                  flushing, Upto(e.next_buf, take), From(e.next_buf, take), room - take, Len(s))
Step(e, s, flushing, room, keep) ==
  IF room >= Len(e.next_buf) + ENC_MIN_OUTPUT_SIZE
     /\ ~(flushing /\ EndsWith(e.next_buf, SYNC_MARKER))
  THEN Direct(e, s, flushing, room, keep)
  ELSE Buffered(e, s, flushing, room, Small(Spare(e.next_buf), room), keep)
encode_step(e, s, end, room, keep) == Step(e, s, e.flushing \/ (s = <<>> /\ end), room, keep)

(* encode: a second step when the end was asked for and the input is taken.    *)
Then(a, b) == [b EXCEPT !.read = a.read + b.read, !.output = a.output \o b.output]
SecondStep(a, s, end, room, keep) ==
  IF s # <<>> /\ a.read = Len(s) /\ end /\ ~a.ack
  THEN Then(a, encode_step(a.enc, <<>>, end, room - Len(a.output), keep))
  ELSE a
encode(e, s, end, room, keep) == SecondStep(encode_step(e, s, end, room, keep), s, end, room, keep)

(* encode_to_ringbuffer: into the free bytes up to the end of the ring (span of *)
(* them), then into those at its start.                                        *)
SecondPart(a, s, end, free, span, keep) ==
  IF ~a.ack /\ Len(a.output) = span /\ free > span
  THEN Then(a, encode(a.enc, From(s, a.read), end, free - span, keep))
  ELSE a
encode_to_ringbuffer(e, s, end, free, span, keep) ==
  SecondPart(encode(e, s, end, span, keep), s, end, free, span, keep)

(* ---- sending ---- *)
(* write_header: two bytes here, the flags and the payload size.               *)
write_header(fin, size) == Bytes(<<<<"fin", fin>>, <<"size", size>>>>)

(* send_frame: the rest of the frame's header and payload, masked in place for *)
(* the write and unmasked again where it was not written (k bytes are taken).  *)
Written(f, buf, masked, paid, head, count) ==
  LET skip == IF count > Len(head) THEN count - Len(head) ELSE 0
  IN [bytes |-> Upto(head \o masked, count),
      frame |-> IF f.sent + count = Len(f.header) + f.size THEN None
                ELSE [f EXCEPT !.sent = @ + count],
      rest |-> apply_mask(From(masked, skip), paid + skip) \o From(buf, f.size - paid)]
WriteFrame(f, buf, paid, k) ==
  Written(f, buf, apply_mask(Upto(buf, f.size - paid), paid), paid,
          From(f.header, Small(f.sent, Len(f.header))),
          Small(k, Len(f.header) + f.size - f.sent))
SendFrame(f, buf, k) ==
  WriteFrame(f, buf, IF f.sent > Len(f.header) THEN f.sent - Len(f.header) ELSE 0, k)
send_frame(buf, fin, k) ==
  SendFrame(IF frame # None THEN frame
            ELSE [header |-> write_header(fin, Len(buf)), size |-> Len(buf), sent |-> 0], buf, k)

StartMessage ==
  /\ msg = None /\ n < Len(Messages)
  /\ n' = n + 1 /\ src' = Messages[n + 1]
  /\ msg' = [end_len |-> None, enc_output_end |-> FALSE]
  /\ UNCHANGED <<enc, enc_buf, frame, wire, receiver>>

(* send_message_content with the first avail data of the caller's buffer: data *)
(* is taken, or if none was, compressed bytes are written; not both, so that a *)
(* failed write loses nothing.                                                 *)
Take(e, end) ==
  /\ src' = From(src, e.read)
  /\ enc_buf' = enc_buf \o e.output
  /\ enc' = e.enc
  /\ msg' = [msg EXCEPT !.enc_output_end = e.ack, !.end_len = IF end THEN Len(src) - e.read ELSE None]
  /\ UNCHANGED <<frame, wire>>
Write(e, end, w) ==
  LET done == e.ack /\ w.rest = <<>> /\ w.frame = None
  IN /\ enc_buf' = w.rest /\ frame' = w.frame /\ wire' = wire \o w.bytes
     /\ enc' = IF done /\ NoTakeover THEN [e.enc EXCEPT !.seen = {}] ELSE e.enc
     /\ msg' = IF done THEN None
               ELSE [msg EXCEPT !.enc_output_end = e.ack,
                                !.end_len = IF end THEN Len(src) ELSE None]
     /\ UNCHANGED src
TakeOrWrite(e, end, k) ==
  IF e.read = 0 /\ (enc_buf \o e.output # <<>> \/ e.ack)
  THEN Write(e, end, send_frame(enc_buf \o e.output, e.ack, k))
  ELSE Take(e, end)
send_message_content(avail, end, span, keep, k) ==
  /\ TakeOrWrite(IF msg.enc_output_end
                   THEN [enc |-> enc, read |-> 0, output |-> <<>>, ack |-> TRUE]
                   ELSE encode_to_ringbuffer(enc, Upto(src, avail), end,
                                             EncBufSize - Len(enc_buf), span, keep),
                 end, k)
  /\ UNCHANGED <<n, receiver>>

Send ==
  /\ msg # None
  /\ \E end \in BOOLEAN, keep \in 0..1, k \in WriteSizes :
      \E avail \in 0..Len(src), span \in 0..(EncBufSize - Len(enc_buf)) :
        /\ msg.end_len # None => end
        /\ end => avail = Len(src)
        /\ span = 0 => EncBufSize = Len(enc_buf)
        /\ send_message_content(avail, end, span, keep, k)

(* ---- receiving ---- *)
Contiguous(b) == Small(Len(b.data), RingSize - b.start)
Committed(b, k) ==
  IF k = Len(b.data) THEN [start |-> 0, data |-> <<>>]
  ELSE [start |-> (b.start + k) % RingSize, data |-> From(b.data, k)]

(* add_to_recv_buffer: one read, into contiguous free space.                   *)
add_to_recv_buffer ==
  /\ wire # <<>> /\ Len(rbuf.data) < RingSize
  /\ \E k \in 1..Len(wire) :
      LET end == rbuf.start + Len(rbuf.data)
          space == IF end < RingSize THEN RingSize - end ELSE RingSize - Len(rbuf.data)
      IN /\ k <= space
         /\ rbuf' = [rbuf EXCEPT !.data = @ \o Upto(wire, k)]
         /\ wire' = From(wire, k)
  /\ UNCHANGED <<sender, rframe, dec, out, got, broken>>

(* DeflateDecoder::decode: the input, then, once it is used up and its end was *)
(* announced, the marker.                                                      *)
Decoded(d, pos, read, data, ack, bad) ==
  [dec |-> [seen |-> d.seen, at |-> d.at, marker_pos |-> pos],
   read |-> read, out |-> data, ack |-> ack, bad |-> bad]
AfterMarker(i, m, pos, end, room) ==
  LET ack == pos + m.read = Len(SYNC_MARKER) /\ Len(m.out) < room - Len(i.out)
  IN Decoded(m, IF ack THEN None ELSE pos + m.read, i.read, i.out \o m.out, ack, m.bad \/ ~end)
AfterInput(i, pos, was, end, room) ==
  IF i.bad \/ pos = None \/ (was = None /\ Len(i.out) = room)
  THEN Decoded(i, pos, i.read, i.out, FALSE, i.bad)
  ELSE AfterMarker(i, inflate(i, From(SYNC_MARKER, pos), room - Len(i.out)), pos, end, room)
Decode(i, was, size, end, room) ==
  AfterInput(i, IF was = None /\ i.read = size /\ end THEN 0 ELSE was, was, end, room)
decode(d, s, end, room) ==
  Decode(inflate(d, IF d.marker_pos = None THEN s ELSE <<>>, room), d.marker_pos, Len(s), end, room)

(* decode_from_buffer decodes the contiguous part of the limit alone: what is   *)
(* left of that part is empty whenever the second call would be reached.  The  *)
(* end is announced with it, though there may be more behind the wrap.         *)
decode_from_buffer(limit, end) ==
  decode(dec, apply_mask(Upto(rbuf.data, Small(limit, Contiguous(rbuf))), rframe.read), end, DestSize)

(* read_header, and align when the header is not contiguous.                   *)
read_header ==
  /\ rframe = None /\ Len(rbuf.data) >= 2 /\ "error" \notin broken
  /\ IF Contiguous(rbuf) < 2
       THEN rbuf' = [rbuf EXCEPT !.start = 0] /\ UNCHANGED rframe
       ELSE /\ rframe' = [fin |-> rbuf.data[1].v[2], size |-> rbuf.data[2].v[2], read |-> 0]
            /\ rbuf' = Committed(rbuf, 2)
  /\ UNCHANGED <<sender, wire, dec, out, got, broken>>

(* recv_message_content of a compressed message.  Bytes that were not read are  *)
(* masked again (unmask_and_decode), as they were.                             *)
Received(r, limit) ==
  LET complete == rframe.read + r.read = rframe.size /\ (rframe.fin => r.ack)
      marked == r.ack \/ r.dec.marker_pos # None
  IN /\ broken' = broken \cup (IF r.bad THEN {"error"} ELSE {})
                   \cup (IF marked /\ limit > Contiguous(rbuf) THEN {"early"} ELSE {})
     /\ rbuf' = Committed(rbuf, r.read)
     /\ dec' = IF complete /\ rframe.fin /\ NoTakeover THEN [r.dec EXCEPT !.seen = {}] ELSE r.dec
     /\ rframe' = IF complete THEN None ELSE [rframe EXCEPT !.read = @ + r.read]
     /\ IF complete /\ rframe.fin
          THEN got' = Append(got, out \o r.out) /\ out' = <<>>
          ELSE out' = out \o r.out /\ UNCHANGED got
recv_message_content ==
  /\ rframe # None /\ "error" \notin broken
  /\ rbuf.data # <<>> \/ rframe.size = rframe.read
  /\ LET limit == Small(rframe.size - rframe.read, Len(rbuf.data))
     IN Received(decode_from_buffer(limit, rframe.read + limit = rframe.size /\ rframe.fin), limit)
  /\ UNCHANGED <<sender, wire>>

Init ==
  /\ n = 0 /\ src = <<>> /\ msg = None
  /\ enc = [held |-> <<>>, seen |-> {}, syncing |-> FALSE, next_buf |-> <<>>, flushing |-> FALSE]
  /\ enc_buf = <<>> /\ frame = None /\ wire = <<>>
  /\ rbuf = [start |-> 0, data |-> <<>>] /\ rframe = None
  /\ dec = [seen |-> {}, at |-> 0, marker_pos |-> None]
  /\ out = <<>> /\ got = <<>> /\ broken = {}

Next == StartMessage \/ Send \/ add_to_recv_buffer \/ read_header \/ recv_message_content

Spec == Init /\ [][Next]_vars

(* ---- properties ---- *)
(* What comes out of the receiver is what went into the sender, message by      *)
(* message: however the output of the compressor is cut into frames, the frames *)
(* into reads and the reads by the ring's wrap, no byte is lost, repeated, left  *)
(* masked or decoded with a marker in the wrong place, until the code puts one   *)
(* there itself: when the end of a message lies behind the wrap, the decoder is  *)
(* told of the end with the part before it (websocket.rs:795-805).               *)
CompressedIntact ==
  "early" \notin broken =>
    /\ broken = {}
    /\ IsPrefix(got, Messages)
    /\ out # <<>> => Len(got) < Len(Messages) /\ IsPrefix(out, Messages[Len(got) + 1])

(* A message the sender is done with reaches the receiver whole: nothing of it  *)
(* stays in the encoder, and its last frame is a final one.                     *)
SentIsWhole ==
  msg = None /\ wire = <<>> /\ rbuf.data = <<>> /\ rframe = None /\ broken = {} => Len(got) = n
================================================================================
