# A TLA+ development for spdylay

spdylay is a C implementation of SPDY/2 and SPDY/3: a library that turns calls of
an application into frames and frames of the peer into callbacks, without doing any
I/O itself, and on top of it a proxy (`shrpx`), a file server with server push
(`SpdyServer`, `spdyd`) and a client (`spdycat`). This directory models the library,
from the octets of a frame to two sessions against each other, and the three programs
as far as their own state goes; TLC checks the models, and TLAPS proves
27 of the 40 properties of the passing runs for every value of the constants (two of them,
`PooledIsClean` and the assertions of `NoStuckClient`, up to the first request the proxy
refuses while reading).

## 1. Inventory

| Component | State | Operations | Why it is hard |
|---|---|---|---|
| session (`lib/spdylay_session.c`) | streams, two outbound queues, the active frame, the frame under reception, counters, windows, GOAWAY flags, settings of both ends | about 20 public calls, the send loop, ten frame handlers | application, transport and peer interleave between any two steps; frames are checked when they are taken, not when they are queued |
| streams (`lib/spdylay_stream.c`) | state, shut flags, windows, the deferred DATA item | open, shut, close, defer, resume, move the window | two directions end independently; parked DATA needs a wakeup |
| submission (`lib/spdylay_submit.c`) | none of its own | one function per frame type | a submission is valid or not only later |
| outbound queues (`lib/spdylay_pq.c`, `spdylay_outbound_item.c`) | binary heap | push, top, pop | growth, equal priorities |
| stream map (`lib/spdylay_map.c`) | treap with parent pointers | insert, find, remove, two traversals | rotations, traversals without a stack |
| certificate vector (`lib/spdylay_client_cert_vector.c`) | slots, size, capacity, cursor | init, find, put, resize | find stops at the first hole, resize moves the end |
| inbound byte machine (`spdylay_session_mem_recv`) | head bytes, payload offset, inflater, error | one call per read | the stream is cut anywhere; oversized frames still have to be inflated |
| frame codec (`lib/spdylay_frame.c`) | none | sort, count, pack, unpack of blocks and frames | sizes counted in one function and used in another; two versions; joined values |
| NPN selection (`lib/spdylay_npn.c`) | none | scan of the offered protocols | order of preference |
| buffer (`lib/spdylay_buffer.c`) | chunks that are kept over a reset | write, alloc, reset, reader | chunk boundaries, stale chunks |
| header compression (`lib/spdylay_zlib.c`) | zlib contexts | deflate, inflate | context shared by all frames of a direction |
| shrpx, a client connection (`src/shrpx_https_upstream.cc`, `shrpx_spdy_upstream.cc`, `shrpx_downstream*.cc`, `shrpx_client_handler.cc`, `shrpx_io_control.cc`) | requests with their two half-states, backend connections and their pool, reasons not to read, buffers, the session or the parser | read, write and event callbacks of both sides, idle callbacks | back pressure in both directions, ends in any order, failures and timeouts, raw pointers |
| shrpx, listener and workers (`src/shrpx_listen_handler.cc`, `shrpx_worker.cc`, `shrpx_thread_event_receiver.cc`) | workers, round robin, octets in socket pairs | create, accept, read | threads; a stream cut anywhere |
| SpdyServer/spdyd (`src/SpdyServer.cc`) | handlers, epoll, descriptors, requests, streams | poll, execute, delete | descriptors are reused and closed twice; push order |
| spdycat (`src/spdycat.cc`, `ClientCache.cc`) | requests, streams, counters, path cache, client cache | parse, connect, submit, close, push | the number of requests grows while they complete |
| Python binding, http-parser, examples, tests | | | wrappers and third-party code |

The application calls the library (`spdylay_submit_*`, `spdylay_session_send`,
`_recv`/`_mem_recv`, `_resume_data`, ...), the library calls the application back to
write bytes (`send_callback`), to read a body (`read_callback` of a data provider) and
to report events. The session owns the map, the queues and the vector; it inflates
header blocks into the buffer and unpacks frames with the codec. Nothing in the
library runs concurrently, but every call is one step of an interleaving: a frame is
half written while the application resets its stream, and a SETTINGS frame moves the
windows of streams whose DATA is queued, active or parked. Two sessions interact
through two byte streams that delay everything and lose nothing.

In shrpx each client connection is served by one thread, and libevent's callbacks for
the client and for its backends come in any order; the main thread hands clients to the
workers through socket pairs. `spdyd` is one thread with an event loop over all its
clients, `spdycat` one thread with one connection at a time.

What makes the parts correct: an outbound item has one owner; streams are counted,
numbered and closed exactly; parked DATA always wakes up; flow-control credit is
conserved end to end; nothing follows FIN; GOAWAY stops new streams; two endpoints do
not take one another for broken; every exchange ends; frames do not depend on how the
stream was cut, and what is packed is what is unpacked; the heap is the ordered queue and
the treap the set the session takes them for; a proxied request and its backend
connection belong to each other only, responses are complete, in order and neither lost
nor doubled, and nobody waits for an event that cannot come; sockets and files have one
owner; a client that asks for everything it finds stops. `PROJECT.json` lists every
component, the hazards with the line where each one bites and the properties that would
show it.

## 2. The modules

```
CertVector ── SessionState ── Session ──── MCSession
   │              │              └──────── SessionProofs ── SoundProofs
   │              └────────── Connection ── MCConnection
   └── CertStore ──┬─ StoreProofs
     ChunkBuffer ──┤
   PriorityQueue ──┘

MCParts    ── PriorityQueue (implements OrderedQueue)
              StreamMap, CertStore, ChunkBuffer, FrameCodec
              SpdyServer ── ServerProofs
              InboundFrame ── InboundProofs
              ShrpxCore ── HttpsUpstream ── HttpsProofs
MCProgress ── ShrpxCore ── SpdyUpstream ── SpdyProofs
              ShrpxListener ── ListenerProofs
              SpdyCat
```

* **SessionState**: `struct spdylay_session` as a record and one operator, from
  session to session, per function that changes it. It has no variables, so that one
  session (`Session`) and two (`Connection`) use the same definitions.
  A pointer that may be NULL is a set of at most one element; a second element is what
  a violated assertion of the code would look like. `streams` is a function on the IDs
  with state `"NONE"` for the ones that are not in the map; a queue is the set of its
  items, ordered by `(pri, seq)`.
* **Session**: one session. An action is a public call (`AppSynStream` ...
  `AppSetClientCertOrigin`), a step of `spdylay_session_send` (`Prepare` takes and packs
  the next frame, `SendPart` is a `send_callback` that takes some bytes, `SendRest` the
  one that takes the last) or a frame of the peer (`RecvCtrl`, `RecvBadBlock` for header
  blocks that do not decode, `RecvUnparsable`, `RecvHead` and `RecvPayload` for DATA,
  whose payload is handed over in pieces). `finished` is a history variable: the streams
  on which a frame with FLAG_FIN went out. What surrounds the session is its `world`,
  a record chosen initially from the constant `Worlds`: its role, the frames the
  application may submit, the frames the peer may send at any time, legal or not, the
  ones whose header block is rejected, and the answers of the read callbacks.
* **Connection**: two sessions and the frames between them. The calls the two
  applications still have to make, in any order, are `todo`, chosen from the constant
  `Scripts`; bodies have `BodyLen` bytes.
* **CertVector / CertStore**: the operators of the certificate vector, used by the
  session, and the vector on its own under registrations and resizes. `older` is a history
  variable: the pairs of origins of which the first was registered before the second.
* **PriorityQueue / OrderedQueue**: the heap on its array, and what the session takes
  it for. **StreamMap**: the treap on its pointers, for every hash function.
* **ChunkBuffer**: the chunks with what is left in them from before, `write`, the way
  `spdylay_zlib_inflate_hd` fills them, and the reader.
* **InboundFrame**: `mem_recv` as a machine over bytes; frames are reduced to the
  lengths and the outcomes that decide what it does. `Turn` is one turn of its loop.
* **FrameCodec**: a `job` is packed by one endpoint, becomes `wire`, and is unpacked by
  the other: name/value lists through sort, count, pack, count_unpack, unpack and the
  checks; arbitrary octets as a block; every frame of both versions; credentials;
  protocol lists for NPN. Octets have `Radix` values, shifts are divisions.
* **ShrpxCore**: `Downstream`, `DownstreamConnection` and the pool of `ClientHandler`,
  with what the backend may do: answer early or late, in parts, badly, close, fail, time
  out. **HttpsUpstream** and **SpdyUpstream** are the two kinds of clients on top of it,
  one action per callback. Requests of an HTTPS client are tokens, in the order in which
  `http_parser` calls back (`Expected`, `PlaceAfter`, external code); the SPDY session is
  reduced to its streams, queue and active frame as `shrpx` sees them. The loop of
  `spdylay_session_send` is a number of turns (`SendTurn`), as many as a queue can need;
  `SpdyProofs` shows that they are enough.
* **ShrpxListener**: `create_worker_thread`, `accept_connection` and
  `ThreadEventReceiver::on_read`, with the socket pair as octets that arrive piecemeal.
* **SpdyServer**: the event loop (`Poll`, `Dispatch`, `DeleteMarked`), handlers for the
  listener, handshakes and sessions, descriptors that are reused lowest first, requests,
  files and pushes.
* **SpdyCat**: `run`, `communicate` and the callbacks: requests, links found in pages,
  pushes, the cache, GOAWAY and the end.

Definitions marked as mutants in the comments are plausible bugs of the definition that
follows; no specification uses them. They show that each property can fail.

`MCParts` and `MCProgress` put parts side by side that share no state: a behaviour
chooses one of them initially (`part`), and the others stay as they start.

### What is abstracted

Payloads and header blocks are lengths and outcomes outside of the codec; `val`, `arg`
and `pri` of the frame record carry what the session looks at. 32-bit quantities keep
their wrap-around (`ToInt32`) over a smaller word: `Int32Max` for windows, `MaxStreamId`
for stream IDs, `MaxUniqueId` for PING; `FinWord` is the weight of FLAG_FIN in the word
[flags,length]. A SETTINGS frame of a session has one entry. Calls an application makes
inside a callback are made between two steps. The head and the end of an empty DATA
frame are two steps, so the model has interleavings there that the code does not have.
Out of memory, fatal callback errors (the session is unusable afterwards) and frames of
the other protocol version are left out. `pushed_streams` is never filled by the library
and left out with the loops over it.

The order `qsort` leaves equal names in is taken to be that of glibc's merge sort. zlib
gives back what it was given.

In shrpx, header texts are reduced to what they decide (chunked, connection close,
expect, CONNECT), buffers are counted in writes, frames or body parts, and time in events
that may happen. A SPDY client gives all its streams one priority and has room for every
DATA frame (the library's own flow control is in `Connection`). The tunnel of an HTTPS
client is left out. Of what a backend sends, one read callback takes a piece of one response: a second
well-formed response in the same read (a 1xx before the final one, too) is left out, octets behind the end of a response
that begin no other are there for HTTPS clients (`over`) and not for SPDY clients, and a
pooled connection gets no octets, only events. `spdyd`'s clients ask once; `spdycat`'s server chooses how much of a
page it sends before it ends the stream.

## 3. Runs

The bounds are small, but each one is passed in the run: windows of two bytes with
bodies of three stall and reopen, a limit of one stream holds the second request back,
an `Int32Max` of 5 overflows, a heap of capacity two is reallocated twice, buffers of two
octets per chunk are crossed and reused, lists of three names join and sort, words of an
octet of 8 values reach the length limit, output thresholds of one write are exceeded by
bodies of two, descriptors of closed files are given to the next client.
`CHECK_DEADLOCK FALSE` stands in the runs where the system may stop: a session with
nothing to send, a client that is done, a job that is unpacked, or a bound used up.

| Run | Shows |
|---|---|
| `session` | one session in three worlds: a server that answers while WINDOW_UPDATE, SETTINGS, failing and deferring read callbacks, partial writes and RST_STREAM interleave; a server that answers and pushes while the peer opens, half-closes and resets; a client with credentials, PING, GOAWAY, limits, pushed streams and undecodable frames. `TypeOK`, `OneOwner`, `NoLostWakeup`, `ClosingHasRst`, `StreamCounts`, `StreamIdsFresh`, `NoZombieStream`, `NothingAfterFin`, `NoStreamAfterGoaway` (1.4 million states) |
| `connection_flow` | `WindowConservation`: credit adds up over both ends while both move the initial window and one acknowledges by hand; `ExchangesEnd`: every exchange ends although either side may cancel it, flow control stalls it or a limit queues it behind another |
| `connection_push` | `NoProtocolError`: requests, pushes, limits and partial writes never make one endpoint take the other for broken (2.2 million states) |
| `parts` | each of eight parts (640,000 states together), below |
| `progress` | three parts with fairness (360,000 states together), below |

`parts`:

| Part | Bounds | Properties |
|---|---|---|
| queue | eight items of four priorities | `ImplementsOrderedQueue`, a refinement: the heap is the ordered queue the session model uses, across growth |
| map | five keys, all hash functions into four values | `FindsExactly`, `WalksExact` (both traversals, the freeing one too) |
| cert | five origins, sizes up to four | `OriginsFound`, `EvictsOldest` |
| buffer | three chunks of two octets | `BufferReadsBack` |
| inbound | all pairs of 13 kinds of frames, cut in all ways | `ChunkingInvisible`, `NoFrameHeldBack`, `InflaterInStep` |
| codec | lists of up to three pairs, all blocks of seven octets out of four, frames with fields at the ends of their ranges and blocks at the length limit, credentials with lengths that lie | `CountsExact`, `NvRoundTrip`, `AcceptedCanBeForwarded`, `FrameRoundTrip`, `SpdyPreferred` |
| spdyd | two clients, six descriptors, two pushed files, sockets that block or fail after one frame or take all | `SocketOwned`, `FilesClosedOnce`, `PushBeforeData` |
| https | two pipelined requests with and without bodies, chunked, with `Expect`, with long headers and malformed; a backend that does what it likes, or cannot be reached | `HttpsOwnership`, `OneResponseEach`, `PooledIsClean`, `NoStuckClient` |

`progress`:

| Part | Bounds | Properties |
|---|---|---|
| spdy | two streams, uploads longer than the window, a tunnel, malformed requests, resets, two backend connections | `DownstreamPerStream`, `BodyFlows`, `UploadCredit`, `ResponseEnds` |
| listener | up to three workers, some of which cannot be created, four clients | `PassedOnce`, `ClientsServed` |
| cat | repeated URIs and links, two hosts, pushes, with and without the cache | `CatFetchesAll` |

Some properties say what they leave out, because the code does not keep them there:

* `OneResponseEach`, `PooledIsClean` and `NoStuckClient` leave out what follows once a backend was done
  with a request before the client (`early`: its response was complete, or it failed and the proxy
  answered for it, while the upload went on; or it had begun to answer a request that is then refused).
  Then the backend connection goes to the pool with half a request in it, and a client paused for
  NO_BUFFER may stay so. `OneResponseEach` also leaves out a backend that sends more than a
  response (`extra`), which the run `shrpx_reply` is about.
* `on_read` answers with 400, `Connection: close`, when the octets do not parse and also when a callback of the parser
  returned nonzero or the header is too long (`refused`). Well-formed requests meet this too: every chunked
  upload with a body, because `push_upload_data_chunk` returns the number of octets, and every
  request for which no backend connection can be made. `OneResponseEach` counts such a 400 as the response to its request, like any other,
  and holds up to the first response that says `Connection: close`; octets that arrive before
  that one is written get another 400 behind it. `NoStuckClient` says of a
  refused client only that it has output to take and is closed after it, and allows the assertion of
  `http_parser_pause` to fail, which it does (run `shrpx_parser`).
* `FilesClosedOnce` holds as long as no write blocks or fails between the end of a file and the end
  of its stream (`late`): `file_read_callback` closes the descriptor, `~Request` closes the same number again,
  in the meantime it may have become another client's socket or file, and then that is closed. After a failing
  write `~Request` waits for the end of the round, in which a client may be accepted.
  Files of pushed streams that are reset are closed by nobody.
* `SocketOwned` leaves out what follows such a wrong `close()` or `read()` (`Works`; it needs `late`, or the
  `fstat()` below), a handshake that gets EPOLLERR or EPOLLHUP alone (`mark_del` without `fail_`, so that its descriptor
  stays open and in epoll for a deleted handler), a listener that is given up because a socket it accepted cannot be
  made non-blocking (deleted with its descriptor still in epoll), and an `fstat()` that fails for a pushed
  file (the file of the page is closed). The runs contain all four.
* `UploadCredit` names the one frame that may wait while the client could take it: a
  WINDOW_UPDATE that `spdy_downstream_writecb` queues and does not send. It says nothing of a stream for which a RST_STREAM
  waits: the library drops its DATA without a callback, and a SYN_REPLY sent meanwhile makes it
  OPENED again, as in `session_rst`.
* `CatFetchesAll` leaves out requests answered from the cache, which are never counted as
  complete: with `-c` and the same path on two hosts the client waits for ever. And it
  leaves out a link that is known, for which `update_html_parser` submits the last request again.

Seven runs end in a violation, each of something a comment or an assertion promises:

| Run | Property | What happens |
|---|---|---|
| `session_cap` | `OutgoingCap` | with anything else queued, `pop_next_ob_item` sends SYN_STREAM past the peer's limit |
| `session_rst` | `RstStopsData` | SYN_REPLY that was under way sets the state back from CLOSING, and DATA goes before RST_STREAM |
| `session_drop` | `GoawayBeforeDrop` | a failed session without streams never asks to write its GOAWAY |
| `connection_partial` | `WindowConservation` | DATA written in two pieces is charged twice |
| `codec_pri` | `PriorityKept` | a SPDY/3 priority loses its high bit: 4 arrives as 0 |
| `shrpx_parser` | `NeverPausedInError` | the proxy resumes a parser that is in its error state |
| `shrpx_reply` | `ErrorReplyFirst` | octets behind a complete response, in the same read, make the proxy send a 502 for a request it has answered |

More was seen and has no run of its own: the early return behind `session_cap` also lets
a request overtake the CREDENTIAL queued for it; the certificate vector takes the minimum of the
old and the new size when the new one fits its allocation (`Resize` of `CertVector`), so that it does not
grow back after it was shrunk; a header block is found too large to send only after the deflater has seen it; an initial window of 2^31 or more is
stored but not applied to the open streams; `last_ping_unique_id` is overwritten by replies
to the peer's PINGs; a SYN_STREAM received after GOAWAY is not answered; a backend that closes
right after a complete response makes `spdy_downstream_eventcb` reset the stream, which
may cut the response off; on CONNECT_FAIL a backend connection is left behind; a backend
that refuses a connection is answered with 400 although there is a branch for 503; with one worker
(the default) a client whose TLS state cannot be made keeps its descriptor.

`connection_flow` writes frames whole (`MaxWrites = 1`) and stays below
2^31: within these limits credit is conserved, outside of them it is not.

### Fairness

* `connection_flow`: `FairSpec` has weak fairness, for each endpoint, of
  sending, receiving, acknowledging consumed data and answering a request. The first two
  are what an event loop does that calls `spdylay_session_send` when `want_write` and
  `spdylay_session_recv` when data is there; the last two are what an application has to
  do for any exchange to end. No call of the scripts other than the answers has to happen.
* `progress`, `SpdyFairness`: what waits for a client is written, or the client is dropped
  after `upstream_write_timeout`; backends owe nothing.
  `ListenFairness`: octets written to a socket pair arrive, and a callback that is due is
  made, each worker being a thread with a loop of its own.
  `CatFairness`: the client's loop runs, and the server ends every stream in some way;
  without it the client waits, as the code has no timeout of its own by default.

## 4. Proofs

`Spec` stands for the safety part of the specification of each module (`Init /\ [][Next]_vars`).

| Theorem | Module | For all |
|---|---|---|
| `TypeCorrect`: `Spec => []TypeOK` | SessionProofs | limits, windows and worlds (roles, applications, peers, read callbacks) |
| `GoawayStopsStreams`: `Spec => NoStreamAfterGoaway` | SessionProofs | the same |
| `NoStreamIdReused`: `Spec => []StreamIdsFresh` | SessionProofs | the same |
| `ItemsHaveOneOwner`: `Spec => []OneOwner` | SoundProofs | the same |
| `NoWakeupLost`: `Spec => []NoLostWakeup` | SoundProofs | the same |
| `ClosingIsReset`: `Spec => []ClosingHasRst` | SoundProofs | the same |
| `CountersExact`: `Spec => []StreamCounts` | SoundProofs | the same |
| `ShutStreamsLeave`: `Spec => []NoZombieStream` | SoundProofs | the same |
| `FinIsLast`: `Spec => []NothingAfterFin` | SoundProofs | the same |
| `CertTypeCorrect`: `Spec => []CertTypeOK` | StoreProofs | sizes, sets of origins, sequences of calls |
| `OriginsAlwaysFound`: `Spec => []OriginsFound` | StoreProofs | the same |
| `OldestEvicted`: `Spec => EvictsOldest` | StoreProofs | the same |
| `BlocksReadBack`: `BufferSpec => []BufferReadsBack` | StoreProofs | lengths and numbers of chunks, octets, sequences of writes and resets |
| `HeapImplementsQueue`: `QueueSpec => ImplementsOrderedQueue` | StoreProofs | priorities, sequence numbers, capacities, lengths |
| `FramesWhole`: `InboundSpec => []ChunkingInvisible` | InboundProofs | streams of frames, header lengths, limits, ways to cut the stream |
| `FramesOnTime`: `InboundSpec => []NoFrameHeldBack` | InboundProofs | the same |
| `ContextInStep`: `InboundSpec => []InflaterInStep` | InboundProofs | the same |
| `BackendOwned`: `HttpsSpec => []HttpsOwnership` | HttpsProofs | requests, numbers of them, backend behaviours, thresholds and limits |
| `ResponsesInOrder`: `HttpsSpec => []OneResponseEach` | HttpsProofs | the same |
| `PoolIsClean`: `HttpsSpec => [](~hc.refused => PooledIsClean)` | HttpsProofs | the same |
| `ClientNeverStuck`: `HttpsSpec => [](RefusedIsClosed /\ (~hc.refused => NoStuckClient))` | HttpsProofs | the same |
| `DownstreamsPerStream`: `SpdySpec => []DownstreamPerStream` | SpdyProofs | numbers of streams and connections, what a client may send, windows, thresholds, lengths of responses |
| `BodiesFlow`: `SpdySpec => []BodyFlows` | SpdyProofs | the same |
| `CreditKept`: `SpdySpec => []UploadCredit` | SpdyProofs | the same |
| `ClientsPassedOnce`: `ListenSpec => []PassedOnce` | ListenerProofs | numbers of workers and clients, sizes of a `WorkerEvent` |
| `SocketsOwned`: `ServerSpec => []SocketOwned` | ServerProofs | numbers of clients, descriptors, pushed files and parts of a file, what clients ask for and when they fail, how much a socket takes |
| `FilesOwned`: `ServerSpec => []FilesClosedOnce` | ServerProofs | the same |
| `PushesFirst`: `ServerSpec => []PushBeforeData` | ServerProofs | the same |

The assumptions are the named `ASSUME`s of the modules that declare the constants:
positive bounds, worlds made of frames in `Frame`, an initial window that fits an
`int32_t`, frames whose corrupt byte lies within them (`InboundAssumption`), requests that
are sequences of the tokens a request consists of (`RequestsAssumption`), finitely many backend
connections, and not fewer than a client has streams (`ShrpxAssumption`, `SpdyAssumption`),
descriptors that are positive, with one for the listening socket (`ServerAssumption`).
TLC evaluates them in the runs.

**Session, types.** `TypeOK` is inductive as it stands, because the type of the certificate vector includes
that its cursor lies within its size and its size within its capacity; without that
`Put` could write outside of the vector. The proof has one lemma per operator of
`SessionState`, "a well-typed session becomes a well-typed session", and one step per
action. The interesting leaves are the windows: `ToInt32` yields an `int32_t` for every
integer, and the overflow test of `on_window_update_received` covers negative windows too.

**Session, stream IDs.** the second part of `SessionProofs` says of each operator that it `Keeps` the streams: no stream is opened and
no ID spent. The exceptions are SYN_STREAM sent (`OpensMine`: only the stream
`next_stream_id`, which then moves on by two) and received (`OpensTheirs`: only an ID of the
peer above `last_recv_stream_id`, which becomes it), and both are taken only while
`goaway_flags` is empty. `StreamStep` is the disjunction, `NextSteps` shows that every step
of the specification is one, and `NoStreamAfterGoaway` follows from it alone.
`StreamIdsFresh` is not inductive: nothing in it keeps the next ID from being one that was
closed. `FreshInv` adds that `next_stream_id` has the parity of the role and that every ID,
of a stream in the map or of a closed one, lies behind the counter of its initiator. That
`open_stream` counts a stream the map refused, or that `PrepSynStream` spends an ID on a
frame that does not pack, does no harm to it.

**Session, the rest.** The six invariants of `SoundProofs` hold together or not at all. `Sound(s, h, fin)`
speaks of a session `s`, of the items `h` in the hands of the function that is moving them
(empty between two actions), and of the finished streams:

* `Owned`: every item is in one of the two queues, parked in a stream, active or in hand,
  and its `seq` is below `next_seq`. The last part makes a new item differ from all
  others, which `OneOwner` alone does not say.
* `Parking`: a stream parks at most one item, a DATA frame of its own; if flow control parked it
  the window is still shut. This is `NoLostWakeup`, and it needs `Flight`.
* `Flight`: while a DATA frame is active its stream parks nothing, so the window may be
  charged below zero; and the stream of an active frame is not finished. The second part
  gives `NothingAfterFin`, as frames are written from the active item only.
* `Resets`: a CLOSING stream has its RST_STREAM queued, active or in hand.
* `Shuts`: no stream in the map is shut in both directions (`NoZombieStream`), and one that
  is finished is shut for writing: what `PrepData` and `PrepSynReply` check.
* `Counted` and `IdsSpent`: the counters are the cardinalities of the streams of either side. A
  SYN_STREAM counts a stream that was not in the map, as its ID was not spent before.

**Certificate vector.** `OriginsFound` is not inductive. `CertInv` strengthens it: the occupied slots are a prefix
(`Prefix`), which reaches the cursor and not past the size (`CursorInPrefix`), and no
origin has two slots (`NoDuplicates`). `find`, which stops at the first empty slot, then
meets no empty slot before the one it looks for. For `EvictsOldest`, `Aged` adds that going
round from the cursor (`Turn`) the origins come in the order of their registration, so that
the slot after the cursor holds the oldest.

**Buffer.** `Holds(b, w)` says where each octet of `w` is: octet `o` of chunk `c` is octet `Base(c) + o`
of what was written, up to `len`, which is where the last chunk is filled to. What the
chunks keep from an earlier block lies past that point. `BufferReadsBack`, which speaks of readers
only, says nothing of where the next octet goes and is not inductive. A turn of
`spdylay_buffer_write` keeps `Holds` for what it took of the data (`Written`); a turn of
`spdylay_buffer_reader_data` keeps that the reader stands behind the octets it has got (`At`, `Got`), and
takes an octet at least, so that after as many turns as octets there is nothing left.

**Heap.** `HeapInv`: the array is a heap without repetitions, within its allocation. During
`bubble_up` one entry may be smaller than its parent (`Rising`), during `bubble_down` larger
than its children (`Sinking`), and the entries around it are in order without it; at the end
neither is possible. The refinement follows action by action: `push` adds the item and no
other, `pop` takes the root, which is the least item by `RootIsLeast`.

**Byte machine.** `Good(s, R, v)` says of what the loop of `mem_recv` has in hand, `v`, that the frames
processed came to what `Reference` says, and that the bytes of these frames, of the one
under reception and of this call that are not looked at yet add up to the `R` received.
It is either `Between` frames, with less than a header read, or `Within` one, whose state
is what its first `off` bytes make of it (`InFrame`): the inflated size as long as it is below
the limit, FRAME_TOO_LARGE as soon as the whole would be, the inflate error from the corrupt
byte on. `OneTurn` shows that a turn keeps `Good` and takes a byte if there is one, `LoopGood`
that the loop therefore ends with none left. `InStep` is the part about the inflater: it
counts also the bytes of blocks that are thrown away.

**HTTPS client.** `HttpsInv` has five parts besides the types. `Tied`: a request and its backend connection point at
each other, and there is at most one connection; it gives `HttpsOwnership` with `Vacant`,
that the end of the client leaves nothing. `Parsing`: the octets in the input buffer and the
ones not sent yet are what the parser expects at its place, and a parser that stands paused is between two
requests; without it nothing would keep a request line out of a body. `Orderly`: as long as no request was refused
and no backend was done too soon, responses so far are `1..n`, the parser is paused exactly when the request is complete,
and the request and its backend are at the same point (`Served`). `Paused`: each reason not to
read has somebody who will remove it. `Recorded` is what stays true afterwards: the responses up to the first that closes
the connection are `1..final` and are never touched again, a refusal is one of them or comes after one, and
a client of which a request was refused has output to take. It carries `OneResponseEach` over the refusal,
where `Orderly` ends: `Refusable` says that the 400 is the first response to its request. That a pooled connection is clean
and that no other assertion fails after a refusal is only model-checked. Each callback is a chain of operators, and each operator has a lemma
for each part it disturbs; `http_parser_execute` is an induction over the tokens it reads.

**SPDY client.** `SpdyInv` says `Good` of a client that is connected, and of one that is gone that it
has left nothing (`Over`). The parts of `Good`:

* `StreamOK`: a stream has a Downstream exactly while it is OPENING, OPENED or CLOSING. While it is
  OPENING one SYN_REPLY is queued or active if the response has begun and none otherwise; once OPENED its body
  is queued, active or deferred, in one of these and once, until the end is sent. While it is CLOSING a RST_STREAM
  is queued or active, and a SYN_REPLY, which will make it OPENED, only before any DATA. Without the part about SYN_REPLY
  `AfterSent` could queue a second DATA item for a stream, and `BodyFlows` would fail a step later.
* `BackOK`, `ConnOK`: a request and its backend connection point at each other and are at the same
  point of the response (`Served`); reading is off only with a body part in the buffer.
* `Room`: not more connections than streams that ever began, so that `GetDownstreamConnection` finds one.
* `Ledger`: the account of `UploadCredit`. For a stream that is reset or closed it only says "at
  most the window", which keeps the counters bounded when its late DATA frames are dropped.
* `Order`: what has arrived of a stream and is not read yet fits its state: SYN_STREAM first
  and once, nothing after FIN. This keeps a second SYN_STREAM from replacing a Downstream.
* `Sent`: between callbacks the send loop has nothing to do, apart from the WINDOW_UPDATEs
  `spdy_downstream_writecb` queues. It needs that the loop ends: a turn either finds it
  `Stopped` or lessens `Work`, which counts three turns for each frame the output still takes, one for
  each frame queued and one more for each SYN_REPLY, which may become a RST_STREAM.

Each operator touches one stream (`Sets`), and `CoreKept` carries the rest over. The
frames that are read and the frames that are sent are two inductions on top of this, over the input
and over the turns.

**Listener.** `ListenInv` adds to `PassedOnce` that a client nobody accepted is in no socket pair
(`WaitingOutside`), so that passing it on does not double it, and that every worker that
may be made has a slot (`SlotsEnough`). The rest is arithmetic: octets that have arrived
are cut into records where the listener put them together.

**spdyd.** `Inv` has a part about the connections and two about the sockets and the event loop. The latter
hold while nothing went wrong that the server cannot help (`Quiet`; section 3 says what `SocketOwned` leaves
out), and what the first says of files (`FilesBut`) also needs that no write blocked or failed between the end of a file and
the end of its stream (`Plain`).

* `RestOK`: what the client sends fits the stream (`Asking`), the SYN_STREAM of a push that waits is in the
  queue once, and content is sent only after it left (`Announced`); a frame is for a stream of its kind,
  with a file if it is DATA (`Framed`). `FilesBut`: the source of a live stream is a descriptor open on the file
  of this stream, and the file of the request has the number the request remembers, which is the one that is closed a second time.
* `Owns`: a connection that is up has a socket, which is registered for the handler that serves it, and a
  handler. While one handler hands over to the next both exist, and the older is marked for
  deletion; so `Owner` takes the marked handlers as a parameter. `SocketOwned`, which speaks of the time
  between rounds, says nothing of this and is not inductive.
* `Rounds`: the events of a batch are for different handlers that exist and are not
  marked, and each handler is marked once. Without it a handler could be executed after its deletion.

What a session does is `Within` its own connection: it opens and closes its own files only, and
`OthersKept` carries the rest over. The loops that send frames, push files and delete handlers are
inductions over the turns.

**Induction.** The theorems about loops need induction over the number of turns. The library's
induction theorems take a predicate as a parameter, which the provers cannot instantiate;
`LeastNumber`, that a non-empty set of naturals has a least element, takes a set and does
the same work. To use it, the loops of `PriorityQueue`, `ChunkBuffer`, `InboundFrame`, `HttpsUpstream`,
`SpdyUpstream` and `SpdyServer` are written as functions of the number of turns. That a function with such a
definition exists is proved in the same way (`TurnsExist`, `LoopExists`, `RunExists`), the turns being a parameter that is a function.

Only model-checked:

* `PooledIsClean` and what `NoStuckClient` says of assertions, after `on_read` has refused a request;
* liveness (`ExchangesEnd`, `ResponseEnds`, `ClientsServed`, `CatFetchesAll`), which needs fairness
  and ENABLED;
* `WindowConservation` and `NoProtocolError`, which relate two sessions and the frames
  between them; the first sums over queues of unbounded length;
* the treap and the codec, which compute over recursive definitions of trees and
  sequences.

## 5. Not modelled, and the plan

Done: the whole library with its data structures and codec, two sessions against each
other; of the programs, the connections, listener and workers of shrpx, the server behind
spdyd and spdycat. Proved: every safety property of the session, the certificate vector,
the buffer, the heap, the byte machine, both kinds of clients of the proxy (with the two
provisos of section 4), the listener and spdyd. Next would be `NoProtocolError` of
`Connection`: that no SYN_STREAM arrives with an ID the peer has passed, from the order of the
frames in flight and `StreamStep` for either end.

Left out for good:

* zlib, OpenSSL and the vendored http-parser, which are external code (of the parser only
  `http_parser_pause` and the errors the proxy reacts to are modelled);
* the associated content counter of the session, which only commented-out code reads;
  `spdylay_buffer_serialize` and the list of `spdylay_queue.c`, which only tests use;
* option parsing, configuration, daemonising, TLS set-up, logging, error pages and access
  logs of the programs, the statistics and the output of spdycat, and the kqueue back end
  of spdyd, which has the interface of the epoll one: input and output without state of
  their own;
* the Python binding and the examples, wrappers around the library.

`PROJECT.json` gives the reason for each component.
