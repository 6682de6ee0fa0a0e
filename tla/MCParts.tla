------------------------------- MODULE MCParts -------------------------------
(***************************************************************************)
(* Instances of the parts that are checked for invariants: of the          *)
(* library the heap of the outbound queues, the map of the streams, the    *)
(* certificate vector, the buffer for header blocks, the inbound byte      *)
(* machine and the codec; the server of spdyd with its files; and a client *)
(* connection of shrpx that speaks HTTP/1.1.  They share no state, so that *)
(* a behaviour takes one part; the others stay as they start.              *)
(***************************************************************************)
EXTENDS PriorityQueue, StreamMap, CertStore, ChunkBuffer, InboundFrame, FrameCodec,
        SpdyServer, HttpsUpstream

CONSTANT Parts  \* which parts to run

VARIABLE part
-----------------------------------------------------------------------------
(* What the peer may send.                                                 *)

Ctrl(len) == [ctrl |-> TRUE, nv |-> -1, len |-> len, bad |-> 0, grow |-> 1, allowed |-> TRUE]
Nv(nv, len, grow, bad) ==
  [ctrl |-> TRUE, nv |-> nv, len |-> len, bad |-> bad, grow |-> grow, allowed |-> TRUE]
Data(len, ok) ==
  [ctrl |-> FALSE, nv |-> -1, len |-> len, bad |-> 0, grow |-> 1, allowed |-> ok]

Kinds ==
  {Ctrl(0), Ctrl(2), Ctrl(6), Nv(2, 1, 1, 0), Nv(2, 2, 1, 0), Nv(2, 4, 1, 0),
   Nv(2, 5, 2, 0), Nv(2, 7, 1, 0), Nv(2, 5, 3, 5), Nv(2, 4, 1, 3),
   Data(0, TRUE), Data(3, TRUE), Data(2, FALSE)}

MCStreams == {<<a, b>> : a \in Kinds, b \in Kinds}
-----------------------------------------------------------------------------
(* What is packed and unpacked.                                            *)

\* Octets: 0 NUL, 1 a control character, 2 ':', 3 'A', 4 'a', 5 'b', 7 above 0x7e.
MCDowncase == [o \in {3} |-> 4]
MCTable == {<<<<2, 4>>, <<4>>>>}

Names == {<<>>, <<1>>, <<2, 4>>, <<3>>, <<4>>, <<5, 5>>}
Vals == {<<>>, <<4>>, <<5, 1, 4>>, [i \in 1..6 |-> 5]}
Pairs == [name : Names, val : Vals]
Lists(P) == {<<>>} \cup {<<p>> : p \in P} \cup {<<p, r>> : p, r \in P}
SmallPairs == [name : {<<3>>, <<4>>, <<5, 5>>, <<2, 4>>}, val : {<<>>, <<4>>, <<5, 5>>}]

NvJobs == [kind : {"nv"}, version : {2, 3},
           nv : Lists(Pairs) \cup {<<p, r, s>> : p, r, s \in SmallPairs}]

WireOctets == {0, 1, 2, 4}
BlockJobs ==
  [kind : {"block"}, version : {2}, in : UNION {[1..n -> WireOctets] : n \in 0..7}]

Ids == {1, 2047}
Words == {0, 9, 4095}
Hd(type) == [type : {type}, version : {2, 3}, flags : {0, 3}]
And(S, T) == {s @@ t : s \in S, t \in T}
Entries == [settings_id : {1, 9, 511}, flags : {0, 2}, value : {5, 4095}]
Blobs == {<<>>, <<6>>, <<1, 0, 7>>}
FrameSet(pris) ==
  And(Hd("SYN_STREAM"), [stream_id : Ids, assoc_stream_id : {0, 9}, pri : pris,
                         slot : {0, 5}, nvlen : {1, 501, 502}])
  \cup And(Hd("SYN_REPLY"), [stream_id : Ids, nvlen : {1, 505, 507, 508}])
  \cup And(Hd("HEADERS"), [stream_id : Ids, nvlen : {1, 505, 507, 508}])
  \cup And(Hd("PING"), [unique_id : Words])
  \cup And(Hd("GOAWAY"), [last_good_stream_id : Ids, status_code : {0}])
  \cup And([type : {"GOAWAY"}, version : {3}, flags : {0}],
           [last_good_stream_id : Ids, status_code : Words])
  \cup And(Hd("RST_STREAM"), [stream_id : Ids, status_code : Words])
  \cup And(Hd("WINDOW_UPDATE"), [stream_id : Ids, delta_window_size : Ids])
  \cup And(Hd("SETTINGS"), [iv : {<<>>} \cup {<<e, f>> : e, f \in Entries}])
  \cup And([type : {"CREDENTIAL"}, version : {3}, flags : {0}],
           [slot : {1, 60}, proof : Blobs, certs : {<<c>> : c \in Blobs}
                                                     \cup {<<c, d>> : c, d \in Blobs}])
\* In SPDY/2 there is no slot.
FrameJobs == {[kind |-> "frame", f |-> f] :
                f \in {f \in FrameSet(0..3) : f.type = "SYN_STREAM" /\ f.version = 2 => f.slot = 0}}

Fill(n) == [i \in 1..n |-> 5]
CredentialJobs ==
  {[kind |-> "credential", in |-> <<0, 1>> \o PutUint(p, 4) \o Fill(a) \o PutUint(c, 4) \o Fill(b)
                                   \o PutUint(d, 4) \o Fill(e)] :
     p \in 0..5, a \in 0..3, c \in {0, 1, 4, 5, 6, 9}, b \in 0..2, d \in 0..2, e \in 0..2}
  \cup [kind : {"credential"}, in : {Fill(n) : n \in 0..12}]

Protos == {"spdy/2", "spdy/3", "http/1.1", "other"}
NpnJobs == [kind : {"npn"}, offer : UNION {[1..n -> Protos] : n \in 0..3}]

MCJobs == NvJobs \cup BlockJobs \cup FrameJobs \cup CredentialJobs \cup NpnJobs

\* The priorities of SPDY/3, of which there are 8.
PriJobs == {[kind |-> "frame", f |-> f] :
              f \in {f \in FrameSet(0..7) : f.type = "SYN_STREAM" /\ f.version = 3 /\ f.nvlen = 1}}
-----------------------------------------------------------------------------
(* The clients of spdyd.                                                   *)

Page(pushes, pri, fin) == [kind |-> "file", pushes |-> pushes, pri |-> pri, fin |-> fin]
Answer(kind) == [kind |-> kind, pushes |-> 0, pri |-> 3, fin |-> TRUE]

\* A client that asks for a page with files to push, more or less urgent than they
\* are, and another that only connects; two clients that meet the rare failures.
MCVisits ==
  {[asks |-> [c \in Peers |-> IF c = 1 THEN {Page(2, 0, TRUE), Page(1, 7, FALSE)} ELSE {}],
    faults |-> {"nostat"}],
   [asks |-> [c \in Peers |-> {Answer(IF c = 1 THEN "status" ELSE "mute")}],
    faults |-> {"blocks", "hup"}]}
-----------------------------------------------------------------------------
(* The clients of shrpx.                                                   *)

Token(k, last) == [k |-> k, last |-> last]
HeaderEnd(last, chunked, close, expect) ==
  [k |-> "hd", last |-> last, chunked |-> chunked, close |-> close, expect |-> expect]

\* Requests without and with a body, announced or chunked, one that expects
\* 100-continue, one with a long header, and octets that are no request.
MCRequests ==
  {<<Token("beg", FALSE), HeaderEnd(TRUE, FALSE, close, FALSE)>> : close \in BOOLEAN}
  \cup {<<Token("beg", FALSE)>> \o rest : rest \in
         {<<HeaderEnd(FALSE, FALSE, FALSE, TRUE), Token("bd", FALSE), Token("bd", TRUE)>>,
          <<HeaderEnd(FALSE, TRUE, FALSE, FALSE), Token("bd", FALSE), Token("end", TRUE)>>,
          <<HeaderEnd(FALSE, TRUE, FALSE, FALSE), Token("end", TRUE)>>,
          <<Token("pad", FALSE), Token("pad", FALSE), HeaderEnd(TRUE, FALSE, FALSE, FALSE)>>,
          <<Token("bad", FALSE)>>}}
-----------------------------------------------------------------------------
partsVars == <<part, queueVars, mapVars, vars, bufferVars, inboundVars, codecVars, sv, httpsVars>>

\* A part that does not run has nothing to do.
PartsInit ==
  /\ part \in Parts
  /\ QueueInit /\ Init /\ BufferInit /\ ServerInit /\ HttpsInit
  /\ part # "spdyd" => sv.visit.faults = {"nostat"}
  /\ IF part = "map" THEN TreapInit
     ELSE map = MapInit /\ keys = {} /\ hash = [k \in Keys |-> 1]
  /\ IF part = "inbound" THEN InboundInit
     ELSE stream = <<>> /\ iframe = Reset /\ rcvd = 0 /\ log = <<>> /\ fed = 0
  /\ IF part = "codec" THEN CodecInit
     ELSE job = [kind |-> "none"] /\ wire = <<>> /\ got = Pending

QueueRuns ==
  part = "queue" /\ QueueNext
    /\ UNCHANGED <<part, mapVars, vars, bufferVars, inboundVars, codecVars, sv, httpsVars>>
MapRuns ==
  part = "map" /\ TreapNext
    /\ UNCHANGED <<part, queueVars, vars, bufferVars, inboundVars, codecVars, sv, httpsVars>>
CertRuns ==
  part = "cert" /\ Next
    /\ UNCHANGED <<part, queueVars, mapVars, bufferVars, inboundVars, codecVars, sv, httpsVars>>
BufferRuns ==
  part = "buffer" /\ BufferNext
    /\ UNCHANGED <<part, queueVars, mapVars, vars, inboundVars, codecVars, sv, httpsVars>>
InboundRuns ==
  part = "inbound" /\ InboundNext
    /\ UNCHANGED <<part, queueVars, mapVars, vars, bufferVars, codecVars, sv, httpsVars>>
CodecRuns ==
  part = "codec" /\ CodecNext
    /\ UNCHANGED <<part, queueVars, mapVars, vars, bufferVars, inboundVars, sv, httpsVars>>

ServerRuns ==
  part = "spdyd" /\ ServerNext
    /\ UNCHANGED <<part, queueVars, mapVars, vars, bufferVars, inboundVars, codecVars, httpsVars>>
HttpsRuns ==
  part = "https" /\ HttpsNext
    /\ UNCHANGED <<part, queueVars, mapVars, vars, bufferVars, inboundVars, codecVars, sv>>

PartsNext ==
  \/ QueueRuns \/ MapRuns \/ CertRuns \/ BufferRuns \/ InboundRuns \/ CodecRuns
  \/ ServerRuns \/ HttpsRuns

PartsSpec == PartsInit /\ [][PartsNext]_partsVars
=============================================================================
