------------------------------- MODULE Session -------------------------------
(***************************************************************************)
(* One session driven by an application that may call the library between  *)
(* any two steps, by a transport that takes frames whole or in parts, and  *)
(* by a peer that may send any of its frames at any time.  What they may   *)
(* do is the `world' of the session, chosen initially.                     *)
(***************************************************************************)
EXTENDS SessionState

CONSTANT Worlds   \* the surroundings to consider

(* server: the role of the session.  app: frames the application may        *)
(* submit.  peer: frames the peer may send.  bad: frames of the peer whose  *)
(* header block is rejected.  reads: answers of the data providers' read    *)
(* callbacks.  Bounds: writes, send_callback calls per frame; frames, after *)
(* which nothing more is submitted or received.                             *)
World == [server : BOOLEAN, app : SUBSET Frame, peer : SUBSET Frame,
          bad : SUBSET Frame, reads : SUBSET ReadResult, writes : Nat, frames : Nat]

ASSUME WorldsAssumption == Worlds \subseteq World

VARIABLES
  world,     \* the surroundings
  ses,       \* the session
  closed,    \* history: IDs of streams that were removed from the map
  finished   \* history: IDs of streams on which FLAG_FIN was sent

vars == <<world, ses, closed, finished>>

Init ==
  /\ world \in Worlds
  /\ ses = SessionNew(world.server)
  /\ closed = {}
  /\ finished = {}

\* A step of the library: the session becomes t.
Step(t) ==
  /\ ses' = t
  /\ closed' = closed \cup (LiveStreams(ses) \ LiveStreams(t))
  /\ UNCHANGED world

Quiet(t) == Step(t) /\ UNCHANGED finished

Open == ses.next_seq < world.frames
-----------------------------------------------------------------------------
(* The application.                                                        *)

AppSynStream ==
  Open /\ \E f \in world.app :
    f.type = "SYN_STREAM" /\ Quiet(SubmitSynStream(ses, f))

\* spdylay_submit_syn_reply, _response, _headers, _data and _rst_stream.
AppStreamFrame ==
  Open /\ \E f \in world.app :
    f.type \in {"SYN_REPLY", "HEADERS", "DATA", "RST_STREAM"} /\ Quiet(AddFrame(ses, f))

AppSettings ==
  Open /\ \E f \in world.app : f.type = "SETTINGS" /\ Quiet(SubmitSettings(ses, f))

AppWindowUpdate ==
  Open /\ \E f \in world.app :
    f.type = "WINDOW_UPDATE" /\ f.val > 0 /\ Quiet(SubmitWindowUpdate(ses, f.id, f.val))

AppPing ==
  Open /\ (\E f \in world.app : f.type = "PING") /\ Quiet(SubmitPing(ses))

AppGoaway ==
  Open /\ \E f \in world.app : f.type = "GOAWAY" /\ Quiet(SubmitGoaway(ses, f.arg))

AppFailSession ==
  Open /\ (\E f \in world.app : f.type = "GOAWAY") /\ Quiet(FailSession(ses))

AppResumeData == \E id \in LiveStreams(ses) : Quiet(ResumeData(ses, id))

AppSetOption ==
  /\ \E f \in world.app : f.type = "WINDOW_UPDATE"
  /\ Quiet([ses EXCEPT !.auto_window_update = ~@])

AppSetClientCertOrigin ==
  \E o \in CertOrigins : Quiet(SetInitialClientCertOrigin(ses, o))
-----------------------------------------------------------------------------
(* spdylay_session_send, one turn of its loop at a time.                   *)

\* The frames that carry FLAG_FIN.
StreamFrames == {"SYN_STREAM", "SYN_REPLY", "HEADERS", "DATA"}

Prepare ==
  /\ ses.aob.item = {}
  /\ \E item \in PopNextObItem(ses), rd \in world.reads, packs \in BOOLEAN :
       Quiet(PrepFrame(Popped(ses, item), item, rd, packs))

SendPart ==
  /\ ses.aob.item # {}
  /\ ses.aob.writes + 1 < world.writes
  /\ Quiet(PartialWrite(ses))

SendRest ==
  /\ ses.aob.item # {}
  /\ \E rd \in world.reads : Step(CompleteWrite(ses, rd))
  /\ LET w == WireFrame(ses)
     IN  finished' = IF w.fin /\ w.type \in StreamFrames
                     THEN finished \cup {w.id} ELSE finished
-----------------------------------------------------------------------------
(* spdylay_session_mem_recv.                                               *)

RecvCtrl ==
  /\ Open /\ ses.iframe.f = {}
  /\ \E f \in world.peer : f.type # "DATA" /\ Quiet(OnCtrlReceived(ses, f))

RecvBadBlock ==
  /\ Open /\ ses.iframe.f = {}
  /\ \E f \in world.bad : Quiet(OnInvalidHeaderBlock(ses, f))

RecvUnparsable ==
  /\ Open /\ ses.iframe.f = {}
  /\ world.bad # {} /\ Quiet(FailSession(ses))

RecvHead ==
  /\ Open /\ ses.iframe.f = {}
  /\ \E f \in world.peer : f.type = "DATA" /\ Quiet(RecvDataHead(ses, f))

RecvPayload ==
  \E f \in ses.iframe.f : \E n \in 0..f.val :
    /\ n > 0 \/ f.val = 0
    /\ ses.iframe.off + n <= f.val
    /\ Quiet(RecvDataPayload(ses, n))

Next ==
  \/ AppSynStream \/ AppStreamFrame \/ AppSettings \/ AppWindowUpdate
  \/ AppPing \/ AppGoaway \/ AppFailSession \/ AppResumeData \/ AppSetOption
  \/ AppSetClientCertOrigin
  \/ Prepare \/ SendPart \/ SendRest
  \/ RecvCtrl \/ RecvBadBlock \/ RecvUnparsable \/ RecvHead \/ RecvPayload

Spec == Init /\ [][Next]_vars
-----------------------------------------------------------------------------
(* Properties.                                                             *)

\* Every field keeps the C type it has in struct spdylay_session; in
\* particular window_size stays an int32_t and every stream in the map has an
\* ID below 2^31.
TypeOK ==
  /\ world \in Worlds
  /\ ses \in SessionType
  /\ closed \subseteq StreamId
  /\ finished \subseteq StreamId

Mine == {i \in LiveStreams(ses) : IsMyStreamId(ses, i)}
Theirs == LiveStreams(ses) \ Mine

\* num_outgoing_streams and num_incoming_streams, which the concurrency limits
\* are compared with, count exactly the streams in the map: no path opens or
\* closes a stream without its counter (spdylay_session_open_stream counts
\* even when the map refuses the stream).
StreamCounts ==
  /\ ses.num_outgoing_streams = Cardinality(Mine)
  /\ ses.num_incoming_streams = Cardinality(Theirs)

\* A stream ID is never used twice: every stream in the map is older than the
\* next ID of its initiator, and a closed stream never comes back.
StreamIdsFresh ==
  /\ \A i \in Mine : i < ses.next_stream_id
  /\ \A i \in Theirs : i <= ses.last_recv_stream_id
  /\ closed \cap LiveStreams(ses) = {}

\* A stream that is shut in both directions is closed at once; it never stays
\* in the map, where it would count against the concurrency limit for ever.
NoZombieStream == \A i \in LiveStreams(ses) : ses.streams[i].shut # {"RD", "WR"}

Deferred == UNION {ses.streams[i].deferred : i \in LiveStreams(ses)}
Queued == ses.ob_pq \cup ses.ob_ss_pq

\* An outbound item has one owner: the queues, the active slot or the stream
\* that deferred it; nothing can be freed or sent twice.  At most one DATA item is
\* deferred per stream, and it belongs to the stream (the assertion in
\* spdylay_stream_defer_data).
OneOwner ==
  /\ ses.ob_pq \cap ses.ob_ss_pq = {}
  /\ \A i, j \in Queued \cup Deferred \cup ses.aob.item : i.seq = j.seq => i = j
  /\ Queued \cap Deferred = {}
  /\ ses.aob.item \cap (Queued \cup Deferred) = {}
  /\ \A i \in LiveStreams(ses) :
       /\ \A d \in ses.streams[i].deferred : d.f.type = "DATA" /\ d.f.id = i
       /\ \A d, e \in ses.streams[i].deferred : d = e

\* DATA that flow control deferred is back in the queue as soon as the window
\* is open: no WINDOW_UPDATE and no SETTINGS is a lost wakeup.
NoLostWakeup ==
  \A i \in LiveStreams(ses) :
    ses.streams[i].deferred_flow =>
      ses.streams[i].deferred # {} /\ ses.streams[i].window_size <= 0

\* A stream that was marked CLOSING still has its RST_STREAM on the way: the
\* handlers that ignore frames "because it will eventually be sent" are right.
ClosingHasRst ==
  \A i \in LiveStreams(ses) :
    ses.streams[i].state = "CLOSING" =>
      \E r \in ses.ob_pq \cup ses.aob.item : r.f.type = "RST_STREAM" /\ r.f.id = i

\* Once FLAG_FIN was sent on a stream no SYN_REPLY, HEADERS or DATA is put on
\* the wire for it, however the frames were queued.
NothingAfterFin ==
  \A i \in ses.aob.item :
    i.f.type \in {"SYN_REPLY", "HEADERS", "DATA"} => i.f.id \notin finished

\* From the moment GOAWAY is sent or received, or the session failed, no stream
\* is opened in either direction.
NoStreamAfterGoaway ==
  [][ses.goaway_flags # {} => LiveStreams(ses') \subseteq LiveStreams(ses)]_vars
-----------------------------------------------------------------------------
(* What the comments of the library promise and its code does not keep.    *)

\* spdylay_session.h: num_outgoing_streams "will be capped by
\* remote_settings[SPDYLAY_SETTINGS_MAX_CONCURRENT_STREAMS]".  A step that adds
\* an outgoing stream starts below the limit the peer set.
OutgoingCap ==
  [][ses'.num_outgoing_streams > ses.num_outgoing_streams =>
       ses.num_outgoing_streams < ses.remote.max]_vars

\* spdylay_session_predicate_data_send: once RST_STREAM was queued "we won't
\* send DATA frames": no DATA frame becomes active behind its stream's
\* RST_STREAM.
RstStopsData ==
  [][\A i \in ses'.aob.item :
       i.f.type = "DATA" /\ ses.aob.item # ses'.aob.item =>
         \A r \in ses.ob_pq : r.f.type = "RST_STREAM" => r.f.id # i.f.id]_vars

\* spdylay_session_fail_session is for when "the connection should be
\* terminated after sending GOAWAY", and the application drops the connection
\* when the session wants neither to read nor to write: until the GOAWAY is out
\* the session has to want to write.
GoawayBeforeDrop ==
  "FAIL_ON_SEND" \in ses.goaway_flags /\ "SEND" \notin ses.goaway_flags
    => WantWrite(ses)
=============================================================================
