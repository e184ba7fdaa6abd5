------------------------------ MODULE RingBuffer ------------------------------
(***************************************************************************)
(* The ring buffers of src/core/buffer.rs, the views of their content the  *)
(* connections read and write through, and the budget from which a         *)
(* connection's two buffers grow.  A buffer is an array with start and end *)
(* (end runs past the array while the content wraps); data is the sequence *)
(* of bytes a reader believes to be in it.  Cells the code considers       *)
(* unreadable hold 0, bytes are 1..Bytes in turn.                          *)
(***************************************************************************)
EXTENDS Naturals, Sequences, FiniteSets

CONSTANTS Base,        \* capacity of a buffer before any expansion
          BlockSize, BlocksMax,
          BlocksTotal, \* blocks of the shared Counter
          Bytes        \* bytes are told apart modulo this

Buffers == {"in", "out"}
VARIABLES
    ring,      \* [Buffers -> [buf, start, end]]
    data,      \* [Buffers -> sequence of bytes]
    byte,      \* the next byte written
    used,      \* BufferBudget.blocks_used of this connection
    others,    \* blocks used by the other connections
    avail      \* the shared Counter

vars == <<ring, data, byte, used, others, avail>>
Cap(r) == Len(r.buf)
Size(r) == r.end - r.start
CapMax == Base + BlockSize * BlocksMax

TypeOK ==
    /\ \A b \in Buffers :
          /\ ring[b].buf \in UNION {[1..c -> 0..Bytes] : c \in 0..CapMax}
          /\ ring[b].start \in 0..Cap(ring[b]) /\ ring[b].end \in ring[b].start..(2 * CapMax)
    /\ byte \in 1..Bytes
    /\ used \in 0..BlocksMax /\ others \in 0..BlocksTotal /\ avail \in 0..BlocksTotal

New(size) == [buf |-> [i \in 1..size |-> 0], start |-> 0, end |-> 0]

Init ==
    /\ ring = [b \in Buffers |-> New(Base)]
    /\ data = [b \in Buffers |-> <<>>]
    /\ byte = 1 /\ used = 0 /\ others = 0 /\ avail = BlocksTotal

MinOf(a, b) == IF a < b THEN a ELSE b

\* buf[from..to], positions counted from 0.
Slice(buf, from, to) == SubSeq(buf, from + 1, to)

\* copy_within / copy_from_slice: src laid over buf at dest.
Copied(buf, src, dest) ==
    [i \in DOMAIN buf |-> IF i - 1 \in dest..(dest + Len(src) - 1) THEN src[i - dest] ELSE buf[i]]

\* The cells outside the content are not readable: they are shown as 0.
Blank(r) ==
    [r EXCEPT !.buf = [i \in 1..Cap(r) |->
        IF \E p \in r.start..(r.end - 1) : p % Cap(r) = i - 1 THEN r.buf[i] ELSE 0]]

\* write_buf: the free cells that follow the content without a gap.
write_buf(r) == IF r.end < Cap(r) THEN [from |-> r.end, to |-> Cap(r)]
                ELSE [from |-> r.end - Cap(r), to |-> r.start]

read_commit(r, n) ==
    LET start == r.start + n IN
    IF start = r.end THEN [r EXCEPT !.start = 0, !.end = 0]
    ELSE IF start >= Cap(r) THEN [r EXCEPT !.start = start - Cap(r), !.end = @ - Cap(r)]
    ELSE [r EXCEPT !.start = start]

\* read_bufs: one slice, or two when the content wraps.
read_bufs(r) ==
    IF r.end > Cap(r)
    THEN <<Slice(r.buf, r.start, Cap(r)), Slice(r.buf, 0, r.end - Cap(r))>>
    ELSE <<Slice(r.buf, r.start, r.end)>>

\* align: content moved to the front.  Unwrapped it is copied down; wrapped
\* without overlap the wrapped part is moved up and the first part down;
\* else the smaller part goes through the shared temporary buffer.
align(r) ==
    IF r.start = 0 THEN r
    ELSE LET size == Size(r)
             left == r.end - Cap(r)
             right == Cap(r) - r.start
             moved ==
                IF r.end <= Cap(r) THEN Copied(r.buf, Slice(r.buf, r.start, Cap(r)), 0)
                ELSE IF size <= r.start
                THEN LET b1 == Copied(r.buf, Slice(r.buf, 0, left), right)
                     IN Copied(b1, Slice(b1, r.start, r.start + right), 0)
                ELSE LET lsrc == IF left < right THEN Slice(r.buf, 0, left) ELSE Slice(r.buf, r.start, Cap(r))
                         hsrc == IF left < right THEN Slice(r.buf, r.start, Cap(r)) ELSE Slice(r.buf, 0, left)
                         b1 == Copied(r.buf, hsrc, IF left < right THEN 0 ELSE right)
                     IN Copied(b1, lsrc, IF left < right THEN right ELSE 0)
         IN [buf |-> moved, start |-> 0, end |-> size]

resize(r, size) ==
    IF size = Cap(r) THEN r
    ELSE LET a == align(r)
         IN [buf |-> [i \in 1..size |-> IF i <= Cap(a) THEN a.buf[i] ELSE 0],
             start |-> 0, end |-> MinOf(a.end, size)]

-----------------------------------------------------------------------------
(* Views: slices of slices, as LimitBufs and write_vectored_offset make    *)
(* them.                                                                   *)

LOCAL SeqExt == INSTANCE SequencesExt
Joined(bufs) == SeqExt!FlattenSeq(bufs)

Before(bufs, i) == Len(Joined(SubSeq(bufs, 1, i - 1)))

\* The slice in which the n-th byte boundary falls: the first one that holds
\* what is left of n (its length at least that).
Cut(bufs, n) == {i \in DOMAIN bufs : Before(bufs, i) + Len(bufs[i]) >= n}
FirstCut(bufs, n) == CHOOSE i \in Cut(bufs, n) : \A j \in Cut(bufs, n) : i <= j

\* skip: slices from the cut on, the first shortened; all of them when the
\* content is shorter than n.
skip(bufs, n) ==
    IF Cut(bufs, n) = {} THEN bufs
    ELSE LET i == FirstCut(bufs, n)
         IN <<SubSeq(bufs[i], n - Before(bufs, i) + 1, Len(bufs[i]))>> \o SubSeq(bufs, i + 1, Len(bufs))

limit(bufs, n) ==
    IF Cut(bufs, n) = {} THEN bufs
    ELSE LET i == FirstCut(bufs, n)
         IN SubSeq(bufs, 1, i - 1) \o <<SubSeq(bufs[i], 1, n - Before(bufs, i))>>

\* write_vectored_offset: what is offered to the writer after offset bytes.
offered(bufs, offset) ==
    LET open == {i \in DOMAIN bufs : Before(bufs, i) + Len(bufs[i]) > offset}
    IN IF open = {} THEN <<>>
       ELSE LET i == CHOOSE x \in open : \A y \in open : x <= y
            IN <<SubSeq(bufs[i], offset - Before(bufs, i) + 1, Len(bufs[i]))>>
                 \o SubSeq(bufs, i + 1, Len(bufs))

-----------------------------------------------------------------------------
(* Operations                                                              *)

budget == <<used, others, avail>>

\* Write::write: as much as fits, in up to two pieces.
Write(b, n) ==
    /\ n \in 1..(Cap(ring[b]) - Size(ring[b]))
    /\ LET r == ring[b]
           src == [i \in 1..n |-> ((byte + i - 2) % Bytes) + 1]
           w == write_buf(r)
           k == MinOf(n, w.to - w.from)
           r1 == [r EXCEPT !.buf = Copied(@, SubSeq(src, 1, k), w.from), !.end = @ + k]
           w1 == write_buf(r1)
           r2 == [r1 EXCEPT !.buf = Copied(@, SubSeq(src, k + 1, n), w1.from), !.end = @ + n - k]
       IN /\ ring' = [ring EXCEPT ![b] = Blank(IF k = n THEN r1 ELSE r2)]
          /\ data' = [data EXCEPT ![b] = @ \o src]
    /\ byte' = ((byte + n - 1) % Bytes) + 1
    /\ UNCHANGED budget

Read(b, n) ==
    /\ n \in 1..Size(ring[b])
    /\ ring' = [ring EXCEPT ![b] = Blank(read_commit(@, n))]
    /\ data' = [data EXCEPT ![b] = SubSeq(@, n + 1, Len(@))]
    /\ UNCHANGED <<byte, budget>>

Align(b) ==
    /\ ring[b].start # 0
    /\ ring' = [ring EXCEPT ![b] = Blank(align(@))]
    /\ UNCHANGED <<data, byte, budget>>

Clear(b) ==
    /\ ring' = [ring EXCEPT ![b] = New(Cap(@))]
    /\ data' = [data EXCEPT ![b] = <<>>]
    /\ UNCHANGED <<byte, budget>>

\* swap_inner, through take_inner and set_inner.
swap_inner ==
    /\ ring' = [b \in Buffers |-> Blank(align(ring[IF b = "in" THEN "out" ELSE "in"]))]
    /\ data' = [b \in Buffers |-> data[IF b = "in" THEN "out" ELSE "in"]]
    /\ UNCHANGED <<byte, budget>>

\* Counter::dec(1) failing leaves everything alone.
expand_buffer_if_needed(b) ==
    /\ Size(ring[b]) = Cap(ring[b]) /\ used < BlocksMax /\ avail > 0
    /\ avail' = avail - 1
    /\ used' = used + 1
    /\ ring' = [ring EXCEPT ![b] = Blank(resize(@, Cap(@) + BlockSize))]
    /\ UNCHANGED <<data, byte, others>>

\* Content beyond the new capacity is cut off; release_blocks.
shrink_buffer(b) ==
    /\ Cap(ring[b]) > Base
    /\ LET freed == MinOf((Cap(ring[b]) - Base) \div BlockSize, used) IN
       /\ used' = used - freed
       /\ avail' = avail + freed
    /\ ring' = [ring EXCEPT ![b] = Blank(resize(@, Base))]
    /\ data' = [data EXCEPT ![b] = SubSeq(@, 1, MinOf(Len(@), Base))]
    /\ UNCHANGED <<byte, others>>

\* The connection ends: BufferBudget::drop, and the next one starts with
\* buffers of its own.
DropBudget ==
    /\ used > 0
    /\ avail' = avail + used /\ used' = 0
    /\ ring' = [b \in Buffers |-> New(Base)]
    /\ data' = [b \in Buffers |-> <<>>]
    /\ UNCHANGED <<byte, others>>

\* The connection goes on with another request, with a new budget: what was
\* read stays, and the write buffer, the only one a connection expands, is
\* cleared and has its first size again.
Reuse ==
    /\ used > 0 /\ Cap(ring["in"]) = Base
    /\ avail' = avail + used /\ used' = 0
    /\ ring' = [ring EXCEPT !["out"] = New(Base)]
    /\ data' = [data EXCEPT !["out"] = <<>>]
    /\ UNCHANGED <<byte, others>>

OtherConnection ==
    /\ \/ avail > 0 /\ avail' = avail - 1 /\ others' = others + 1
       \/ others > 0 /\ avail' = avail + others /\ others' = 0
    /\ UNCHANGED <<ring, data, byte, used>>

Next ==
    \/ \E b \in Buffers, n \in 1..CapMax : Write(b, n) \/ Read(b, n)
    \/ \E b \in Buffers : Align(b) \/ Clear(b) \/ expand_buffer_if_needed(b) \/ shrink_buffer(b)
    \/ swap_inner \/ DropBudget \/ Reuse \/ OtherConnection

Spec == Init /\ [][Next]_vars

-----------------------------------------------------------------------------
(* Properties                                                              *)

\* Whatever wrapped, was aligned, grown, cut or swapped, the slices read are
\* the bytes written, in order, and so are they seen through skip, limit and
\* the remainder a partial vectored write leaves.
ContentKept ==
    \A b \in Buffers :
        LET bufs == read_bufs(ring[b]) IN
        /\ Joined(bufs) = data[b]
        /\ \A n \in 0..Len(data[b]) :
              /\ Joined(skip(bufs, n)) = SubSeq(data[b], n + 1, Len(data[b]))
              /\ Joined(limit(bufs, n)) = SubSeq(data[b], 1, n)
              /\ Joined(offered(bufs, n)) = SubSeq(data[b], n + 1, Len(data[b]))

\* The blocks taken from the shared counter are exactly those the buffers
\* have grown by, so none is lost or given back twice and the expect() of
\* release_blocks and drop holds.
BlocksConserved ==
    /\ avail + used + others = BlocksTotal
    /\ Cap(ring["in"]) + Cap(ring["out"]) = 2 * Base + used * BlockSize
=============================================================================
