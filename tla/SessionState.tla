---------------------------- MODULE SessionState ----------------------------
(***************************************************************************)
(* One endpoint of a SPDY connection as lib/spdylay_session.c keeps it: a  *)
(* record per struct spdylay_session and one operator, from session to     *)
(* session, per function of the library that changes it.                   *)
(*                                                                         *)
(* A NULL-able pointer to an outbound item is a set with at most one       *)
(* element; a priority queue is the set of its items, ordered by (pri,     *)
(* seq).  Frame contents are reduced to what the session looks at.         *)
(*                                                                         *)
(* A definition marked `mutant' is a plausible bug in the definition after *)
(* it; no specification uses it.                                           *)
(***************************************************************************)
EXTENDS Integers, FiniteSets, CertVector

CONSTANTS
  Int32Max,          \* INT32_MAX where windows are concerned
  MaxStreamId,       \* INT32_MAX where stream IDs are concerned
  MaxUniqueId,       \* SPDYLAY_MAX_UNIQUE_ID
  DataPayloadLength, \* SPDYLAY_DATA_PAYLOAD_LENGTH
  FinWord,           \* FLAG_FIN seen as part of the 32 bit word [flags,length]
  FlowControl,       \* TRUE for SPDY/3, FALSE for SPDY/2
  PriLowest,         \* 3 for SPDY/2, 7 for SPDY/3
  InitialWindow,     \* SPDYLAY_INITIAL_WINDOW_SIZE
  InitialMaxConcurrent, \* SPDYLAY_INITIAL_MAX_CONCURRENT_STREAMS
  CertVectorLength,  \* SPDYLAY_INITIAL_CLIENT_CERT_VECTOR_LENGTH
  CertOrigins        \* origins for which get_credential_ncerts returns > 0

ASSUME BoundsAssumption ==
  /\ Int32Max \in Nat \ {0}
  /\ MaxStreamId \in Nat \ {0}
  /\ MaxUniqueId \in Nat \ {0}
  /\ DataPayloadLength \in Nat \ {0}
  /\ FinWord \in Nat
  /\ FlowControl \in BOOLEAN
  /\ PriLowest \in Nat
  /\ InitialWindow \in 0..Int32Max
  /\ InitialMaxConcurrent \in Nat
  /\ CertVectorLength \in 0..MaxSlots
  /\ EmptySlot \notin CertOrigins

StreamId == 0..MaxStreamId
Int32 == (-Int32Max - 1)..Int32Max

\* The value an out of range integer has in an int32_t: two's complement.
ToInt32(x) == ((x + Int32Max + 1) % (2 * (Int32Max + 1))) - (Int32Max + 1)

FrameTypes == {"SYN_STREAM", "SYN_REPLY", "RST_STREAM", "SETTINGS", "PING",
               "GOAWAY", "HEADERS", "WINDOW_UPDATE", "CREDENTIAL", "DATA"}

StatusCodes == {"PROTOCOL_ERROR", "INVALID_STREAM", "REFUSED_STREAM",
                "INTERNAL_ERROR", "FLOW_CONTROL_ERROR", "STREAM_IN_USE",
                "FRAME_TOO_LARGE", "CANCEL"}
SettingsIds == {"MAX_CONCURRENT_STREAMS", "INITIAL_WINDOW_SIZE",
                "CLIENT_CERTIFICATE_VECTOR_SIZE"}

(* val: unique ID, last good stream ID, window delta, settings value or     *)
(* payload length.  arg: status code, settings ID or the origin of a        *)
(* request that has a certificate, "" otherwise.  prd: a data provider is   *)
(* attached (it never leaves the endpoint).                                 *)
Args == {""} \cup StatusCodes \cup SettingsIds \cup CertOrigins

Frame == [type : FrameTypes, id : StreamId, fin : BOOLEAN, uni : BOOLEAN,
          pri : 0..PriLowest, assoc : StreamId, prd : BOOLEAN, val : Nat,
          arg : Args]

MkFrame(type, id) ==
  [type |-> type, id |-> id, fin |-> FALSE, uni |-> FALSE, pri |-> 0,
   assoc |-> 0, prd |-> FALSE, val |-> 0, arg |-> ""]

Item == [f : Frame, pri : Int, seq : Nat]

\* "NONE": there is no stream with the ID in the map.
States == {"NONE", "INITIAL", "OPENING", "OPENED", "CLOSING"}

Stream == [pri : 0..PriLowest, state : States, shut : SUBSET {"RD", "WR"},
           deferred : SUBSET Item, deferred_flow : BOOLEAN,
           window_size : Int32, recv_window_size : Nat]

NoStream == [pri |-> 0, state |-> "NONE", shut |-> {}, deferred |-> {},
             deferred_flow |-> FALSE, window_size |-> 0, recv_window_size |-> 0]

\* Active outbound item: writes counts the send_callback calls made for it,
\* len and eof describe the packed DATA frame.
NoAob == [item |-> {}, writes |-> 0, len |-> 0, eof |-> FALSE]

\* Inbound DATA frame under reception; ign is SPDYLAY_RECV_PAYLOAD_IGN.
NoIframe == [f |-> {}, ign |-> FALSE, off |-> 0]

Settings == [max : Nat, win : Nat]

AobType == [item : SUBSET Item, writes : Nat, len : Nat, eof : BOOLEAN]
IframeType == [f : SUBSET Frame, ign : BOOLEAN, off : Nat]
CertVectorType ==
  {cv \in [size : 0..MaxSlots, capacity : 0..MaxSlots, last_slot : 0..MaxSlots,
           vector : [1..MaxSlots -> CertOrigins \cup {EmptySlot}]] :
     cv.last_slot <= cv.size /\ cv.size <= cv.capacity}

SessionType ==
  [server : BOOLEAN, next_stream_id : Nat, last_recv_stream_id : StreamId,
   next_unique_id : Nat, next_seq : Nat, streams : [StreamId -> Stream],
   num_outgoing_streams : Int, num_incoming_streams : Int,
   ob_pq : SUBSET Item, ob_ss_pq : SUBSET Item, aob : AobType,
   iframe : IframeType, last_ping_unique_id : Nat,
   goaway_flags : SUBSET {"SEND", "RECV", "FAIL_ON_SEND"},
   last_good_stream_id : Nat, remote : Settings, local : Settings,
   auto_window_update : BOOLEAN, certvec : CertVectorType]

SessionNew(server) ==
  [server |-> server,
   next_stream_id |-> IF server THEN 2 ELSE 1,
   last_recv_stream_id |-> 0,
   next_unique_id |-> IF server THEN 2 ELSE 1,
   next_seq |-> 0,
   streams |-> [i \in StreamId |-> NoStream],
   num_outgoing_streams |-> 0,
   num_incoming_streams |-> 0,
   ob_pq |-> {}, ob_ss_pq |-> {}, aob |-> NoAob, iframe |-> NoIframe,
   last_ping_unique_id |-> 0,
   goaway_flags |-> {},
   last_good_stream_id |-> 0,
   remote |-> [max |-> InitialMaxConcurrent, win |-> InitialWindow],
   local |-> [max |-> InitialMaxConcurrent, win |-> InitialWindow],
   auto_window_update |-> TRUE,
   certvec |-> CertVectorInit(IF server THEN 0 ELSE CertVectorLength)]
-----------------------------------------------------------------------------
(* Streams.                                                                *)

IsMyStreamId(s, id) == id # 0 /\ (IF s.server THEN id % 2 = 0 ELSE id % 2 = 1)

HasStream(s, id) == s.streams[id].state # "NONE"
LiveStreams(s) == {i \in StreamId : HasStream(s, i)}

OutgoingMax(s) == s.remote.max <= s.num_outgoing_streams
IncomingMax(s) == s.local.max <= s.num_incoming_streams

StreamInit(s, pri, state) ==
  [pri |-> pri, state |-> state, shut |-> {}, deferred |-> {},
   deferred_flow |-> FALSE, window_size |-> ToInt32(s.remote.win),
   recv_window_size |-> 0]

PutStream(s, id, str) == [s EXCEPT !.streams[id] = str]

CountStream(s, id, n) ==
  IF IsMyStreamId(s, id) THEN [s EXCEPT !.num_outgoing_streams = @ + n]
                         ELSE [s EXCEPT !.num_incoming_streams = @ + n]

\* A duplicate ID leaves the map alone; the counter is incremented anyway.
OpenStream(s, id, pri, state) ==
  CountStream(IF HasStream(s, id) THEN s
              ELSE PutStream(s, id, StreamInit(s, pri, state)), id, 1)

\* Mutant: the counter is decremented for unknown streams too.
CloseStreamUnguarded(s, id) == CountStream(PutStream(s, id, NoStream), id, -1)

CloseStream(s, id) ==
  IF HasStream(s, id) THEN CountStream(PutStream(s, id, NoStream), id, -1) ELSE s

Shutdown(s, id, flags) ==
  PutStream(s, id, [s.streams[id] EXCEPT !.shut = @ \cup flags])

\* Mutant: one direction is enough.
CloseStreamIfShutEither(s, id) ==
  IF s.streams[id].shut # {} THEN CloseStream(s, id) ELSE s

CloseStreamIfShutRdwr(s, id) ==
  IF s.streams[id].shut = {"RD", "WR"} THEN CloseStream(s, id) ELSE s

SetState(s, id, st) == PutStream(s, id, [s.streams[id] EXCEPT !.state = st])
-----------------------------------------------------------------------------
(* Queueing frames.                                                        *)

FramePri(s, f) ==
  CASE f.type = "SYN_STREAM" -> f.pri
    [] f.type = "SETTINGS"   -> -1
    [] f.type = "PING"       -> -10
    [] f.type = "CREDENTIAL" -> -2
    [] f.type = "GOAWAY"     -> PriLowest
    [] OTHER -> IF HasStream(s, f.id) THEN s.streams[f.id].pri ELSE PriLowest

AddFrame(s, f) ==
  LET item == [f |-> f, pri |-> FramePri(s, f), seq |-> s.next_seq]
      syn  == f.type = "SYN_STREAM"
      q    == [s EXCEPT !.next_seq = @ + 1,
                        !.ob_ss_pq = IF syn THEN @ \cup {item} ELSE @,
                        !.ob_pq = IF syn THEN @ ELSE @ \cup {item}]
  IN  IF f.type = "RST_STREAM" /\ HasStream(s, f.id)
      THEN SetState(q, f.id, "CLOSING") ELSE q

AddRstStream(s, id, code) ==
  AddFrame(s, [MkFrame("RST_STREAM", id) EXCEPT !.arg = code])

AddPing(s, uid) == AddFrame(s, [MkFrame("PING", 0) EXCEPT !.val = uid])

AddWindowUpdate(s, id, delta) ==
  AddFrame(s, [MkFrame("WINDOW_UPDATE", id) EXCEPT !.val = delta])

\* last_good_stream_id is read when the frame is queued, not when it is sent.
SubmitGoaway(s, code) ==
  AddFrame(s, [MkFrame("GOAWAY", 0) EXCEPT !.val = s.last_recv_stream_id,
                                           !.arg = code])

FailSession(s) ==
  SubmitGoaway([s EXCEPT !.goaway_flags = @ \cup {"FAIL_ON_SEND"}],
               "PROTOCOL_ERROR")

SubmitData(s, id, fin) ==
  AddFrame(s, [MkFrame("DATA", id) EXCEPT !.fin = fin])
-----------------------------------------------------------------------------
(* What may be sent now.                                                   *)

\* Mutant: the write side is not looked at.
StreamForSendShut(s, id) == HasStream(s, id)

StreamForSend(s, id) == HasStream(s, id) /\ "WR" \notin s.streams[id].shut

\* Mutant: GOAWAY is forgotten.
SynStreamSendableAfterGoaway(s, f) ==
  s.next_stream_id <= MaxStreamId /\ (f.assoc # 0 => HasStream(s, f.assoc))

SynStreamSendable(s, f) ==
  /\ s.goaway_flags = {}
  /\ s.next_stream_id <= MaxStreamId
  /\ f.assoc # 0 => HasStream(s, f.assoc)

SynReplySendable(s, id) ==
  /\ StreamForSend(s, id)
  /\ ~IsMyStreamId(s, id)
  /\ s.streams[id].state = "OPENING"

\* HEADERS and DATA share the state test.
HeadersSendable(s, id) ==
  /\ StreamForSend(s, id)
  /\ IF IsMyStreamId(s, id) THEN s.streams[id].state # "CLOSING"
                            ELSE s.streams[id].state = "OPENED"

WindowUpdateSendable(s, id) ==
  HasStream(s, id) /\ s.streams[id].state # "CLOSING"

DataSendable(s, id) == HeadersSendable(s, id) /\ s.streams[id].deferred = {}

NextDataRead(s, id) ==
  LET w == s.streams[id].window_size
  IN  IF ~FlowControl THEN DataPayloadLength
      ELSE IF w <= 0 THEN 0
      ELSE IF w < DataPayloadLength THEN w ELSE DataPayloadLength
-----------------------------------------------------------------------------
(* The outbound queues.                                                    *)

Before(i, j) == i.pri < j.pri \/ (i.pri = j.pri /\ i.seq <= j.seq)

\* The item at the top of a queue, as a set: empty when the queue is.
Top(q) == {i \in q : \A j \in q : Before(i, j)}

NextObItem(s) ==
  IF s.ob_ss_pq = {} \/ OutgoingMax(s) THEN Top(s.ob_pq)
  ELSE IF s.ob_pq # {} /\ \A i \in Top(s.ob_pq), j \in Top(s.ob_ss_pq) : Before(i, j)
  THEN Top(s.ob_pq)
  ELSE Top(s.ob_ss_pq)

\* Unlike NextObItem, SYN_STREAM goes first whenever both queues hold frames,
\* whatever its priority and the concurrency limit.
PopNextObItem(s) ==
  IF s.ob_ss_pq = {} \/ (s.ob_pq = {} /\ OutgoingMax(s)) THEN Top(s.ob_pq)
  ELSE Top(s.ob_ss_pq)

Popped(s, item) ==
  [s EXCEPT !.ob_pq = @ \ {item}, !.ob_ss_pq = @ \ {item}]
-----------------------------------------------------------------------------
(* spdylay_session_send: preparing the frame that was popped.              *)

\* What the read callback of a data provider may answer.
ReadResult == [r : {"DATA", "DEFERRED", "TEMPORAL_FAILURE"}, n : Nat, eof : BOOLEAN]

\* The code asserts that nothing is deferred yet; a second item would show up
\* as a second element.
DeferData(s, item, flow) ==
  PutStream(s, item.f.id,
            [s.streams[item.f.id] EXCEPT !.deferred = @ \cup {item},
                                         !.deferred_flow = flow])

\* Reads the next DATA frame of item into the buffer, or parks the item.  The
\* callback never returns more than it was asked for.
ReadData(s, item, rd) ==
  LET max == NextDataRead(s, item.f.id)
  IN  CASE max = 0 -> DeferData(s, item, TRUE)
        [] max # 0 /\ rd.r = "DEFERRED" -> DeferData(s, item, FALSE)
        [] max # 0 /\ rd.r = "TEMPORAL_FAILURE" ->
             AddRstStream(s, item.f.id, "INTERNAL_ERROR")
        [] OTHER ->
             [s EXCEPT !.aob = [item |-> {item}, writes |-> 0, eof |-> rd.eof,
                                len |-> IF rd.n < max THEN rd.n ELSE max]]

Activate(s, item) == [s EXCEPT !.aob = [NoAob EXCEPT !.item = {item}]]

\* SPDY/3 clients send a CREDENTIAL before the first request to an origin.
NeedsCredential(s, o) ==
  FlowControl /\ ~s.server /\ s.certvec.size > 0 /\ o \in CertOrigins
    /\ Find(s.certvec, o) = 0

\* The CREDENTIAL is queued and the SYN_STREAM goes back to its queue.
PrepCredential(s, item) ==
  LET o  == item.f.arg
      cv == Put(s.certvec, o)
      c  == [MkFrame("CREDENTIAL", 0) EXCEPT !.arg = o, !.val = cv.last_slot]
  IN  [AddFrame([s EXCEPT !.certvec = cv], c)
         EXCEPT !.ob_ss_pq = @ \cup {[item EXCEPT !.pri = -1]}]

\* packs: the header block fits; otherwise the frame is dropped, but the
\* stream ID is spent.
PrepSynStream(s, item, packs) ==
  LET id   == s.next_stream_id
      slot == IF s.server \/ ~FlowControl \/ CertOrigins = {} THEN 0
              ELSE Find(s.certvec, item.f.arg)
      t    == [s EXCEPT !.next_stream_id = @ + 2]
  IN  IF ~SynStreamSendable(s, item.f) THEN s
      ELSE IF NeedsCredential(s, item.f.arg) THEN PrepCredential(s, item)
      ELSE IF ~packs THEN t
      ELSE Activate(OpenStream(t, id, item.f.pri, "INITIAL"),
                    [item EXCEPT !.f = [@ EXCEPT !.id = id, !.val = slot]])

\* Mutant: every frame needs a stream that is open for writing.
CtrlSendableIfOpen(s, f, packs) == packs /\ StreamForSend(s, f.id)

\* The frames other than SYN_STREAM and DATA.
CtrlSendable(s, f, packs) ==
  CASE f.type = "SYN_REPLY"     -> packs /\ SynReplySendable(s, f.id)
    [] f.type = "HEADERS"       -> packs /\ HeadersSendable(s, f.id)
    [] f.type = "WINDOW_UPDATE" -> WindowUpdateSendable(s, f.id)
    [] f.type = "GOAWAY"        -> "SEND" \notin s.goaway_flags
    [] OTHER -> TRUE

\* s without the item: an item that cannot be sent is freed.
PrepFrame(s, item, rd, packs) ==
  CASE item.f.type = "SYN_STREAM" -> PrepSynStream(s, item, packs)
    [] item.f.type = "DATA" ->
         IF DataSendable(s, item.f.id) THEN ReadData(s, item, rd) ELSE s
    [] OTHER -> IF CtrlSendable(s, item.f, packs) THEN Activate(s, item) ELSE s
-----------------------------------------------------------------------------
(* spdylay_session_send: after send_callback took some bytes.              *)

Aob(s) == CHOOSE i \in s.aob.item : TRUE

\* Every successful send_callback call takes the whole word [flags,length]
\* of the DATA frame off the window.
ChargeWindow(s) ==
  LET f == Aob(s).f
      word == s.aob.len + (IF s.aob.eof /\ f.fin THEN FinWord ELSE 0)
  IN  IF FlowControl /\ f.type = "DATA" /\ HasStream(s, f.id)
      THEN PutStream(s, f.id, [s.streams[f.id] EXCEPT !.window_size = ToInt32(@ - word)])
      ELSE s

PartialWrite(s) ==
  [ChargeWindow(s) EXCEPT !.aob = [@ EXCEPT !.writes = s.aob.writes + 1]]

\* Mutant: the stream is not closed when both directions are shut.
AfterStreamFrameLeft(t, f, state) ==
  IF ~HasStream(t, f.id) THEN t
  ELSE Shutdown(SetState(t, f.id, state), f.id, IF f.fin THEN {"WR"} ELSE {})

\* SYN_STREAM, SYN_REPLY and HEADERS; t is the session without the frame.
AfterStreamFrame(t, f, state) ==
  LET flags == (IF f.fin THEN {"WR"} ELSE {})
                 \cup (IF f.type = "SYN_STREAM" /\ f.uni THEN {"RD"} ELSE {})
      u == CloseStreamIfShutRdwr(Shutdown(SetState(t, f.id, state), f.id, flags),
                                 f.id)
  IN  IF ~HasStream(t, f.id) THEN t
      ELSE IF f.prd /\ f.type # "HEADERS" THEN SubmitData(u, f.id, TRUE) ELSE u

AfterData(t, item, eof, rd) ==
  LET id == item.f.id
      u  == IF eof /\ item.f.fin /\ HasStream(t, id)
            THEN CloseStreamIfShutRdwr(Shutdown(t, id, {"WR"}), id) ELSE t
  IN  IF eof \/ ~DataSendable(u, id) THEN u
      ELSE IF \A next \in NextObItem(u) : item.pri <= next.pri
      THEN ReadData(u, item, rd)
      ELSE [u EXCEPT !.ob_pq = @ \cup {item}]

AfterFrameSent(s, rd) ==
  LET item == Aob(s)
      f == item.f
      t == [s EXCEPT !.aob = NoAob]
  IN  CASE f.type = "SYN_STREAM" -> AfterStreamFrame(t, f, "OPENING")
        [] f.type = "SYN_REPLY"  -> AfterStreamFrame(t, f, "OPENED")
        [] f.type = "HEADERS"    ->
             IF HasStream(t, f.id)
             THEN AfterStreamFrame(t, f, t.streams[f.id].state) ELSE t
        [] f.type = "RST_STREAM" -> CloseStream(t, f.id)
        [] f.type = "PING"       -> [t EXCEPT !.last_ping_unique_id = f.val]
        [] f.type = "GOAWAY"     -> [t EXCEPT !.goaway_flags = @ \cup {"SEND"}]
        [] f.type = "DATA"       -> AfterData(t, item, s.aob.eof, rd)
        [] OTHER -> t

CompleteWrite(s, rd) == AfterFrameSent(ChargeWindow(s), rd)

\* The frame as the peer sees it once the last byte is out.
WireFrame(s) ==
  LET f == Aob(s).f
  IN  IF f.type = "DATA"
      THEN [f EXCEPT !.val = s.aob.len, !.fin = @ /\ s.aob.eof]
      ELSE [f EXCEPT !.prd = FALSE]
-----------------------------------------------------------------------------
(* Control frames from the peer, complete and of the session's version.    *)

\* Mutant: any ID of the peer will do.
IsNewPeerStreamIdAny(s, id) == id # 0 /\ ~IsMyStreamId(s, id)

IsNewPeerStreamId(s, id) ==
  id # 0 /\ ~IsMyStreamId(s, id) /\ s.last_recv_stream_id < id

\* "" or the status code of the stream error.
ValidateSynStream(s, f) ==
  CASE s.server /\ f.assoc # 0 -> "PROTOCOL_ERROR"
    [] ~s.server /\ f.assoc = 0 -> "INVALID_STREAM"
    [] ~s.server /\ f.assoc # 0
         /\ (~f.uni \/ f.assoc % 2 = 0 \/ ~HasStream(s, f.assoc)) -> "PROTOCOL_ERROR"
    [] OTHER -> IF IncomingMax(s) THEN "REFUSED_STREAM" ELSE ""

AcceptSynStream(s, f) ==
  IF f.fin /\ f.uni THEN s   \* reported closed without being opened
  ELSE Shutdown(OpenStream(s, f.id, f.pri, "OPENING"), f.id,
                (IF f.fin THEN {"RD"} ELSE {}) \cup (IF f.uni THEN {"WR"} ELSE {}))

OnSynStreamReceived(s, f) ==
  LET t    == [s EXCEPT !.last_recv_stream_id = f.id]
      code == ValidateSynStream(t, f)
  IN  IF s.goaway_flags # {} THEN s
      ELSE IF s.last_recv_stream_id = f.id
      THEN AddRstStream(s, f.id, "PROTOCOL_ERROR")
      ELSE IF ~IsNewPeerStreamId(s, f.id) THEN FailSession(s)
      ELSE IF code # "" THEN AddRstStream(t, f.id, code)
      ELSE AcceptSynStream(t, f)

ShutRead(s, id) == CloseStreamIfShutRdwr(Shutdown(s, id, {"RD"}), id)

Readable(s, id) == HasStream(s, id) /\ "RD" \notin s.streams[id].shut

OnSynReplyReceived(s, f) ==
  LET mine == Readable(s, f.id) /\ IsMyStreamId(s, f.id)
      st   == s.streams[f.id].state
      t    == SetState(s, f.id, "OPENED")
  IN  IF mine /\ st = "OPENING" THEN IF f.fin THEN ShutRead(t, f.id) ELSE t
      ELSE IF mine /\ st = "CLOSING" THEN s
      ELSE AddRstStream(s, f.id, IF mine /\ FlowControl THEN "STREAM_IN_USE"
                                                         ELSE "PROTOCOL_ERROR")

OnHeadersReceived(s, f) ==
  LET st == s.streams[f.id].state
      ok == Readable(s, f.id)
              /\ (st \in {"OPENED", "CLOSING"} \/ ~IsMyStreamId(s, f.id))
  IN  IF ~ok THEN AddRstStream(s, f.id, "PROTOCOL_ERROR")
      ELSE IF st # "CLOSING" /\ f.fin THEN ShutRead(s, f.id) ELSE s

\* pushed_streams is always empty: nothing in the library fills it.
OnRstStreamReceived(s, f) == CloseStream(s, f.id)

\* Mutant: the window has to take a full frame.
ReopenedWide(str) ==
  str.window_size > DataPayloadLength /\ str.deferred # {} /\ str.deferred_flow

\* DATA deferred by flow control goes back to the queue when its window opens.
Reopened(str) == str.window_size > 0 /\ str.deferred # {} /\ str.deferred_flow

Detach(str) == [str EXCEPT !.deferred = {}, !.deferred_flow = FALSE]

Requeue(s, moved, ids) ==
  LET freed == {i \in ids : Reopened(moved[i])}
  IN  [s EXCEPT !.ob_pq = @ \cup UNION {moved[i].deferred : i \in freed},
                !.streams = [i \in StreamId |->
                               IF i \in freed THEN Detach(moved[i]) ELSE moved[i]]]

\* Mutant: what was sent already is forgotten.
MovedWindowsAfresh(s, new) ==
  [i \in StreamId |-> IF ~HasStream(s, i) THEN NoStream
                      ELSE [s.streams[i] EXCEPT !.window_size = new]]

MovedWindows(s, new) ==
  [i \in StreamId |->
     IF ~HasStream(s, i) THEN NoStream
     ELSE [s.streams[i] EXCEPT !.window_size =
             ToInt32(new - ToInt32(ToInt32(s.remote.win) - @))]]

\* Mutant: deferred DATA is not looked for.
UpdateInitialWindowSizeAsleep(s, new) == Requeue(s, MovedWindows(s, new), {})

UpdateInitialWindowSize(s, new) == Requeue(s, MovedWindows(s, new), LiveStreams(s))

\* One entry of a SETTINGS frame.
OnSettingsReceived(s, f) ==
  CASE f.arg = "MAX_CONCURRENT_STREAMS" ->
         [s EXCEPT !.remote = [@ EXCEPT !.max = f.val]]
    [] f.arg = "INITIAL_WINDOW_SIZE" ->
         LET t == IF FlowControl /\ f.val <= Int32Max
                  THEN UpdateInitialWindowSize(s, f.val) ELSE s
         IN  [t EXCEPT !.remote = [@ EXCEPT !.win = f.val]]
    [] f.arg = "CLIENT_CERTIFICATE_VECTOR_SIZE" /\ ~s.server ->
         [s EXCEPT !.certvec = Resize(@, IF f.val < MaxSlots
                                         THEN f.val ELSE MaxSlots)]
    [] OTHER -> s

OnPingReceived(s, f) ==
  IF f.val = 0 THEN s
  ELSE IF s.last_ping_unique_id = f.val THEN [s EXCEPT !.last_ping_unique_id = 0]
  ELSE IF s.server = (f.val % 2 = 1) THEN AddPing(s, f.val)
  ELSE s

OnGoawayReceived(s, f) ==
  [s EXCEPT !.last_good_stream_id = f.val, !.goaway_flags = @ \cup {"RECV"}]

\* Mutant: no test for overflow.
OnWindowUpdateUnchecked(s, f) ==
  IF ~FlowControl \/ ~HasStream(s, f.id) THEN s
  ELSE LET w == s.streams[f.id].window_size + f.val
       IN  Requeue(s, [s.streams EXCEPT ![f.id] = [@ EXCEPT !.window_size = w]],
                   {f.id})

OnWindowUpdateReceived(s, f) ==
  IF ~FlowControl \/ ~HasStream(s, f.id) THEN s
  ELSE IF Int32Max - f.val < s.streams[f.id].window_size
  THEN AddRstStream(s, f.id, "FLOW_CONTROL_ERROR")
  ELSE LET w == s.streams[f.id].window_size + f.val
       IN  Requeue(s, [s.streams EXCEPT ![f.id] = [@ EXCEPT !.window_size = w]],
                   {f.id})

\* A CREDENTIAL is only handed to the application.
OnCtrlReceived(s, f) ==
  CASE f.type = "SYN_STREAM"    -> OnSynStreamReceived(s, f)
    [] f.type = "SYN_REPLY"     -> OnSynReplyReceived(s, f)
    [] f.type = "HEADERS"       -> OnHeadersReceived(s, f)
    [] f.type = "RST_STREAM"    -> OnRstStreamReceived(s, f)
    [] f.type = "SETTINGS"      -> OnSettingsReceived(s, f)
    [] f.type = "PING"          -> OnPingReceived(s, f)
    [] f.type = "GOAWAY"        -> OnGoawayReceived(s, f)
    [] f.type = "WINDOW_UPDATE" -> OnWindowUpdateReceived(s, f)
    [] OTHER -> s

\* The header block does not decode, or is too large to be buffered.
OnInvalidHeaderBlock(s, f) ==
  AddRstStream(s, f.id, IF f.arg = "FRAME_TOO_LARGE" THEN f.arg ELSE "PROTOCOL_ERROR")
-----------------------------------------------------------------------------
(* DATA frames: mem_recv hands the payload over as it arrives.             *)

DataRecvAllowed(s, id) ==
  /\ Readable(s, id)
  /\ IF IsMyStreamId(s, id) THEN s.streams[id].state = "OPENED"
                            ELSE s.streams[id].state # "CLOSING"

OnDataReceived(s, f) ==
  IF ~HasStream(s, f.id) THEN AddRstStream(s, f.id, "INVALID_STREAM")
  ELSE IF ~Readable(s, f.id) THEN AddRstStream(s, f.id, "PROTOCOL_ERROR")
  ELSE IF s.streams[f.id].state = "CLOSING" THEN s
  ELSE IF ~DataRecvAllowed(s, f.id) THEN AddRstStream(s, f.id, "PROTOCOL_ERROR")
  ELSE IF f.fin THEN ShutRead(s, f.id) ELSE s

UpdateRecvWindowSize(s, id, n) ==
  LET sum  == s.streams[id].recv_window_size + n
      recv == IF sum > Int32Max THEN Int32Max ELSE sum
      left(k) == PutStream(s, id, [s.streams[id] EXCEPT !.recv_window_size = k])
  IN  IF ~HasStream(s, id) THEN s
      ELSE IF s.auto_window_update /\ recv * 2 >= s.local.win
      THEN AddWindowUpdate(left(0), id, recv) ELSE left(recv)

RecvDataHead(s, f) ==
  [s EXCEPT !.iframe = [f |-> {f}, ign |-> ~DataRecvAllowed(s, f.id), off |-> 0]]

\* n more bytes of the payload; the last ones end the frame.
RecvDataPayload(s, n) ==
  LET f    == CHOOSE g \in s.iframe.f : TRUE
      off  == s.iframe.off + n
      last == off = f.val
      t    == IF FlowControl /\ ~s.iframe.ign /\ n > 0 /\ ~(last /\ f.fin)
              THEN UpdateRecvWindowSize(s, f.id, n) ELSE s
  IN  IF last THEN [OnDataReceived(t, f) EXCEPT !.iframe = NoIframe]
      ELSE [t EXCEPT !.iframe = [@ EXCEPT !.off = off]]
-----------------------------------------------------------------------------
(* Calls of the application.                                               *)

\* Pushed streams are unidirectional; only servers name an associated stream.
SubmitSynStream(s, f) ==
  IF s.server /\ IsMyStreamId(s, f.assoc) THEN s
  ELSE AddFrame(s, [f EXCEPT !.id = 0, !.assoc = IF s.server THEN @ ELSE 0])

SubmitPing(s) ==
  LET uid == IF s.next_unique_id > MaxUniqueId
             THEN IF s.server THEN 2 ELSE 1 ELSE s.next_unique_id
  IN  AddPing([s EXCEPT !.next_unique_id = uid + 2], uid)

SubmitSettings(s, f) ==
  LET t == AddFrame(s, f)
  IN  CASE f.arg = "MAX_CONCURRENT_STREAMS" ->
             [t EXCEPT !.local = [@ EXCEPT !.max = f.val]]
        [] f.arg = "INITIAL_WINDOW_SIZE"->
             [t EXCEPT !.local = [@ EXCEPT !.win = f.val]]
        [] OTHER -> t

SubmitWindowUpdate(s, id, delta) ==
  IF ~HasStream(s, id) THEN s
  ELSE AddWindowUpdate(
         PutStream(s, id, [s.streams[id] EXCEPT !.recv_window_size =
                             IF @ < delta THEN 0 ELSE @ - delta]), id, delta)

\* Mutant: the stream keeps the item.
ResumeDataNotDetached(s, id) ==
  IF ~HasStream(s, id) \/ s.streams[id].deferred_flow THEN s
  ELSE [s EXCEPT !.ob_pq = @ \cup s.streams[id].deferred]

ResumeData(s, id) ==
  IF ~HasStream(s, id) \/ s.streams[id].deferred_flow THEN s
  ELSE [PutStream(s, id, Detach(s.streams[id]))
          EXCEPT !.ob_pq = @ \cup s.streams[id].deferred]

SetInitialClientCertOrigin(s, o) ==
  IF s.server \/ s.certvec.size = 0 \/ s.certvec.last_slot # 0 THEN s
  ELSE [s EXCEPT !.certvec = Put(@, o)]

Terminated(s) == {"FAIL_ON_SEND", "SEND"} \subseteq s.goaway_flags

WantRead(s) ==
  ~Terminated(s) /\ (s.goaway_flags = {} \/ LiveStreams(s) # {})

WantWrite(s) ==
  /\ ~Terminated(s)
  /\ s.aob.item # {} \/ s.ob_pq # {} \/ (s.ob_ss_pq # {} /\ ~OutgoingMax(s))
  /\ s.goaway_flags = {} \/ LiveStreams(s) # {}
=============================================================================
