------------------------------ MODULE MCParts -------------------------------
(***************************************************************************)
(* The other parts that stand alone, for TLC: those of src/core (executor  *)
(* and reactor, timers, containers, HTTP/1, the specs of ZeroMQ sockets),  *)
(* the TLS stream, and of src/connmgr a connection that is used again, req *)
(* mode, and the codecs.  A behaviour is one of the part named by the      *)
(* variable part.  The parts share the variables v1, v2, ..., in the order *)
(* in which each module declares its own.                                  *)
(***************************************************************************)
EXTENDS Naturals, Sequences

CONSTANT None

\* A task that awaits both directions of the socket (a relay), one of them (the
\* reading and writing of headers) or a receive, with or without a timeout, and
\* one that waits to be cancelled.
SomeWaits ==
    [a |-> {{"read", "write"}, {"read"}, {"write"}, {"recv"}}, b |-> {{"cancelled"}}]
TimedWaits ==
    [a |-> {{"read", "write"}, {"recv", "elapsed"}}, b |-> {{"cancelled"}}]

\* Lists of specs that share paths, with and without a mode, in another order
\* and bound or connected.
SpecOf(path, bind, mode) == [path |-> path, bind |-> bind, mode |-> mode]
SpecLists ==
    {<<>>, <<SpecOf("a", TRUE, 6)>>, <<SpecOf("b", TRUE, 0), SpecOf("a", TRUE, 7)>>,
     <<SpecOf("a", TRUE, 6), SpecOf("b", FALSE, 0)>>}

\* Handshakes of a client and of a server, and new keys that need an answer or
\* are announced.
SomeFlights == {<<"read", "write", "read">>, <<"write", "read">>}
SomeRenewals == {<<"read", "write">>, <<"write">>}

\* Ids with and without a sequence number, which a peer may write beyond its
\* width, up to one more than there is room for, and likewise headers.
Id(id, seq) == [id |-> id, seq |-> seq]
SomeIds ==
    {<<>>, <<Id(<<"x">>, None)>>, <<Id(<<"x", "1">>, 3)>>, <<Id(<<"x">>, 17)>>,
     <<Id(<<"x">>, 1), Id(<<"y">>, None)>>, <<Id(<<"x">>, None), Id(<<"y">>, 18)>>,
     <<Id(<<"x">>, 1), Id(<<"y">>, None), Id(<<"z">>, 2)>>}
SomeHeaders ==
    {<<>>, <<<<"h", <<"v", ":">>>>>>, <<<<"h", <<>>>>, <<"i", <<"w">>>>>>}

\* Offers of permessage-deflate: none, plain, with the parameters that are
\* understood, with a fallback, next to another extension with a quoted value,
\* and with values that are not allowed.
Param(name, value) == <<<<name>>, value>>
Deflate(params) == [name |-> <<"permessage-deflate">>, params |-> params]
ClientNoTakeover == Param("client_no_context_takeover", <<>>)
ServerNoTakeover == Param("server_no_context_takeover", <<>>)
SomeOffers ==
    {<<>>, <<Deflate(<<>>)>>, <<Deflate(<<ServerNoTakeover, ClientNoTakeover>>)>>,
     <<Deflate(<<Param("client_max_window_bits", <<>>)>>)>>,
     <<Deflate(<<Param("server_max_window_bits", <<"10">>), ServerNoTakeover>>),
       Deflate(<<ClientNoTakeover>>)>>,
     <<[name |-> <<"foo">>, params |-> <<Param("a", <<"1", ",", "2">>)>>],
       Deflate(<<Param("client_max_window_bits", <<"10">>)>>)>>,
     <<Deflate(<<Param("client_max_window_bits", <<"7">>)>>), Deflate(<<ServerNoTakeover>>)>>,
     <<Deflate(<<ServerNoTakeover, ServerNoTakeover>>)>>,
     <<Deflate(<<Param("server_max_window_bits", <<>>)>>)>>,
     <<Deflate(<<Param("what", <<>>)>>),
       Deflate(<<ServerNoTakeover, Param("server_max_window_bits", <<"15">>)>>)>>}

VARIABLES part,  \* the part this behaviour is of
          v1, v2, v3, v4, v5, v6, v7, v8, v9, v10, v11, v12, v13

vars == <<part, v1, v2, v3, v4, v5, v6, v7, v8, v9, v10, v11, v12, v13>>

\* The variables after the first n, which a part of n variables does not use.
After9 == <<v10, v11, v12, v13>>
After8 == <<v9, After9>>
After7 == <<v8, After8>>
After6 == <<v7, After7>>
After4 == <<v5, v6, After6>>

Unused9 == v10 = 0 /\ v11 = 0 /\ v12 = 0 /\ v13 = 0
Unused8 == v9 = 0 /\ Unused9
Unused7 == v8 = 0 /\ Unused8
Unused6 == v7 = 0 /\ Unused7
Unused4 == v5 = 0 /\ v6 = 0 /\ Unused6

Runtime == INSTANCE Runtime WITH Tasks <- {"a", "b"}, Waits <- SomeWaits,
    Budget <- 1, LocalBudget <- 1, EventsMax <- 1, SocketMax <- 2,
    SendMax <- 1, TimeMax <- 0, StepMax <- 2, ex <- v1, reg <- v2, ev <- v3,
    world <- v4, budget <- v5, bound <- v6, yields <- v7, dropped <- v8

Timeouts == INSTANCE Runtime WITH Tasks <- {"a", "b"}, Waits <- TimedWaits,
    Budget <- 1, LocalBudget <- 1, EventsMax <- 1, SocketMax <- 1,
    SendMax <- 1, TimeMax <- 1, StepMax <- 2, ex <- v1, reg <- v2, ev <- v3,
    world <- v4, budget <- v5, bound <- v6, yields <- v7, dropped <- v8

Timers == INSTANCE TimerWheel WITH WHEEL_BITS <- 2, WHEEL_NUM <- 2,
    Keys <- {1, 2}, TimeMax <- 20, curtime <- v1, expires <- v2, place <- v3,
    pending <- v4

Slab == INSTANCE SlabList WITH N <- 4, PoolSize <- 2, Lists <- {"a", "b"},
    links <- v1, mem <- v2, held <- v3, order <- v4

Http == INSTANCE Http1 WITH ReqMax <- 2, DataMax <- 2, ChunkMax <- 1,
    WireMax <- 2, RbufMax <- 3, Versions <- {"11", "10", "10ka"}, cl <- v1,
    sv <- v2, c2s <- v3, s2c <- v4, crb <- v5, srb <- v6, slips <- v7

Ring == INSTANCE RingBuffer WITH Base <- 2, BlockSize <- 1, BlocksMax <- 2,
    BlocksTotal <- 2, Bytes <- 3, ring <- v1, data <- v2, byte <- v3,
    used <- v4, others <- v5, avail <- v6

Specs == INSTANCE ZmqSpecs WITH Lists <- SpecLists, Paths <- {"a", "b"},
    DefaultMode <- 5, ApplyMax <- 2, socks <- v1, asked <- v2, outcome <- v3,
    applies <- v4

Tls == INSTANCE TlsStream WITH Flights <- SomeFlights,
    Renewals <- SomeRenewals, InMax <- 3, OutMax <- 1, RenewMax <- 1,
    MoveMax <- 1, RoundMax <- 3, tls <- v1, sock <- v2, op <- v3,
    wants <- v4, fut <- v5, count <- v6

Reuse == INSTANCE StreamPair WITH BufSize <- 1, TmpSize <- 1, QueueMax <- 2,
    SessionMax <- 2, ExpandMax <- 0, LossMax <- 1, HandoffMax <- 0,
    FaultMax <- 1, ReqBodies <- {0}, RespBodies <- {2}, RedirectsMax <- 0,
    toSrv <- v1, toCli <- v2, relay <- v3, srv <- v4, browser <- v5,
    cli <- v6, origin <- v7

Reqs == INSTANCE ReqMode WITH Requests <- {1, 2}, Others <- {3},
    Origins <- {1, 2}, Hosts <- {"a"}, Denied <- {}, Posts <- {FALSE},
    PoolMax <- 1, REDIRECTS_MAX <- 0, DupMax <- 1, spc <- v1, cid <- v2,
    answer <- v3, requests <- v4, replies <- v5, dups <- v6, client <- v7,
    origin <- v8, sent <- v9

Redirects == INSTANCE ReqMode WITH Requests <- {1, 2}, Others <- {},
    Origins <- {1, 2}, Hosts <- {"a", "d"}, Denied <- {"d"},
    Posts <- BOOLEAN, PoolMax <- 1, REDIRECTS_MAX <- 2, DupMax <- 1,
    spc <- v1, cid <- v2, answer <- v3, requests <- v4, replies <- v5,
    dups <- v6, client <- v7, origin <- v8, sent <- v9

Packet == INSTANCE ZhttpPacket WITH OPS_MAX <- 100, IDS_MAX <- 2,
    HEADERS_MAX <- 1, IdLists <- SomeIds, HeaderLists <- SomeHeaders,
    Rooms <- {24, 1000}, dir <- v1, packet <- v2, peer <- v3, entries <- v4,
    msg <- v5, parsed <- v6, ids <- v7, stage <- v8

Compress == INSTANCE WsDeflate WITH Messages <- <<<<1, 2>>, <<1>>>>,
    ENC_MIN_OUTPUT_SIZE <- 3, EncBufSize <- 4, RingSize <- 6,
    WriteSizes <- {0, 1, 4}, DestSize <- 1, MaskLen <- 2, Mask <- TRUE,
    NoTakeover <- TRUE, n <- v1, src <- v2, msg <- v3, enc <- v4,
    enc_buf <- v5, frame <- v6, wire <- v7, rbuf <- v8, rframe <- v9,
    dec <- v10, out <- v11, got <- v12, broken <- v13

Handshake == INSTANCE WsHandshake WITH Offers <- SomeOffers,
    Styles <- {"tight", "spaced", "quoted"}, opts <- v1, offer <- v2,
    stage <- v3, hdrs <- v4, accept <- v5, near <- v6, answer <- v7,
    far <- v8

Init ==
    \/ part = "runtime" /\ Runtime!Init /\ Unused8
    \/ part = "timeouts" /\ Timeouts!Init /\ Unused8
    \/ part = "timers" /\ Timers!Init /\ Unused4
    \/ part = "slab" /\ Slab!Init /\ Unused4
    \/ part = "http" /\ Http!Init /\ Unused7
    \/ part = "ring" /\ Ring!Init /\ Unused6
    \/ part = "specs" /\ Specs!Init /\ Unused4
    \/ part = "tls" /\ Tls!Init /\ Unused6
    \/ part = "reuse" /\ Reuse!Init /\ Unused7
    \/ part = "reqs" /\ Reqs!Init /\ Unused9
    \/ part = "redirects" /\ Redirects!Init /\ Unused9
    \/ part = "packet" /\ Packet!Init /\ Unused8
    \/ part = "compress" /\ Compress!Init
    \/ part = "handshake" /\ Handshake!Init /\ Unused8

Next ==
    \/ part = "runtime" /\ Runtime!Next /\ UNCHANGED <<part, After8>>
    \/ part = "timeouts" /\ Timeouts!Next /\ UNCHANGED <<part, After8>>
    \/ part = "timers" /\ Timers!Next /\ UNCHANGED <<part, After4>>
    \/ part = "slab" /\ Slab!Next /\ UNCHANGED <<part, After4>>
    \/ part = "http" /\ Http!Next /\ UNCHANGED <<part, After7>>
    \/ part = "ring" /\ Ring!Next /\ UNCHANGED <<part, After6>>
    \/ part = "specs" /\ Specs!Next /\ UNCHANGED <<part, After4>>
    \/ part = "tls" /\ Tls!Next /\ UNCHANGED <<part, After6>>
    \/ part = "reuse" /\ Reuse!Next /\ UNCHANGED <<part, After7>>
    \/ part = "reqs" /\ Reqs!Next /\ UNCHANGED <<part, After9>>
    \/ part = "redirects" /\ Redirects!Next /\ UNCHANGED <<part, After9>>
    \/ part = "packet" /\ Packet!Next /\ UNCHANGED <<part, After8>>
    \/ part = "compress" /\ Compress!Next /\ UNCHANGED part
    \/ part = "handshake" /\ Handshake!Next /\ UNCHANGED <<part, After8>>

Spec == Init /\ [][Next]_vars

-----------------------------------------------------------------------------
\* Nobody sleeps on what has happened, and turns are taken in order.  The
\* runtime: no thread sleeps with a task that could go on, but for one that awaits
\* a single direction of a socket and had its waker taken by the other direction
\* (reactor.rs:789); a task is queued once, and one that yields to local events
\* goes on after the tasks of those events (reactor.rs, executor.rs).  TLS: no
\* operation sleeps that could go on, whichever of the four took the edge of the
\* socket that they share (tls.rs, TlsWaker).
NoLostWakeup ==
    /\ part = "runtime" => /\ Runtime!NoLostWakeup /\ Runtime!YieldsResume
                           /\ Runtime!QueuedOnce /\ Runtime!LocalEventsFirst
    /\ part = "timeouts" => /\ Timeouts!NoLostWakeup /\ Timeouts!YieldsResume
                            /\ Timeouts!QueuedOnce /\ Timeouts!LocalEventsFirst
    /\ part = "tls" => Tls!NoLostWakeup

\* The timer wheel expires every timer when its time has come and not before,
\* and the reactor that sleeps for timeout() wakes in time (timer.rs).
TimersOnTime == part = "timers" => Timers!ExpiresOnTime /\ Timers!TimeoutSound

\* What is put into a container is what comes out of it: the linked lists, from
\* either end, which leave no node linked or allocated that nobody refers to
\* (list.rs, memorypool.rs), and the ring buffer with the slices over it, whose
\* blocks of the shared budget are conserved (buffer.rs, connection.rs).
ContentKept ==
    /\ part = "slab" => Slab!ListsAgree /\ Slab!NoLeak
    /\ part = "ring" => Ring!ContentKept /\ Ring!BlocksConserved

\* The bodies that the two HTTP/1 protocols decode are the bodies given to the
\* other side, however reads and writes are cut, and a persistent connection is
\* used again at a message boundary only, by both sides or neither; all this but
\* after one of the slips that Http1 names: a chunk-size line that arrives alone
\* (the run http1_split), a closing chunk that the socket refuses, on either side,
\* and an HTTP/1.0 response without a length on a connection that is kept
\* (http1/protocol.rs, client.rs, server.rs).
BodiesWhole == part = "http" => Http!WholeUnlessSlipped /\ Http!CleanReuse

\* The endpoints a ZeroMQ socket remembers are those it has, after a change of
\* specs that failed half way too (zmq.rs, apply_specs).
SpecsMatch == part = "specs" => Specs!SpecsMatch

\* Nobody gets what is meant for another.  On a connection that is used again
\* after packets were lost, each session gets the response that was sent for it
\* and no message it does not expect (connection.rs).  In req mode a request is
\* answered by what was fetched for it, however late the replies to earlier
\* requests come, and an origin connection serves one request at a time
\* (server.rs, client.rs, pool.rs).
AnswersOwn ==
    /\ part = "reuse" => Reuse!WholeResponse /\ Reuse!ExpectedMessages
    /\ part = "reqs" => Reqs!AnswersOwnRequest /\ Reqs!PoolExclusive /\ Reqs!ClientSound
    /\ part = "redirects" => Redirects!AnswersOwnRequest /\ Redirects!ClientSound

\* A ZHTTP packet is read as it was written, by the connection and by the
\* manager that routes it (zhttppacket.rs, tnetstring.rs).
PacketsRead ==
    part = "packet" => Packet!RoundTrip /\ Packet!IdsAgree /\ Packet!EncodersAgree

\* Compressed WebSocket messages arrive whole and in order, however they are cut
\* into frames and reads and wrapped in the ring buffer, unless the end of one
\* lies behind the wrap, where the decoder is told of it too early (websocket.rs).
CompressedIntact == part = "compress" => Compress!CompressedIntact /\ Compress!SentIsWhole

\* Both ends of each hop agree on the WebSocket they opened: on its compression,
\* and on the headers of that hop alone (connection.rs, websocket.rs).
HopsAgree ==
    part = "handshake" => Handshake!ValueRead /\ Handshake!DeflateAgrees /\ Handshake!HopsApart
=============================================================================
