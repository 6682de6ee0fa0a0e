---------------------------- MODULE SpdyUpstream -----------------------------
(***************************************************************************)
(* shrpx_spdy_upstream.cc: a client of shrpx that speaks SPDY.  Every      *)
(* stream is a request with a Downstream and a backend connection of its   *)
(* own; the response body waits in a buffer between the backend and the    *)
(* session.  The session is the library's, as far as shrpx sees it; the    *)
(* client gives its streams one priority, so that the queue is first in    *)
(* first out, and has room for every DATA frame.                           *)
(* A definition marked `mutant' is a plausible bug in the one after it.    *)
(***************************************************************************)
EXTENDS ShrpxCore

CONSTANTS
  Ids,        \* bound: the streams a client opens, 1..n in that order
  Plans,      \* what a client may do: the SYN_STREAMs it may send (id, fin, connect,
              \* ok: no header is missing), how many DATA frames per stream, and
              \* whether it may send a bad frame (extra)
  SpdyThres,  \* SHRPX_SPDY_UPSTREAM_OUTPUT_UPPER_THRES, in frames or body parts
  Window,     \* initial_window_size_, in DATA frames
  MaxFrames   \* SHRPX_READ_WARTER_MARK, in frames

Syns == [k : {"syn"}, id : Ids, fin : BOOLEAN, connect : BOOLEAN, ok : BOOLEAN]

ASSUME SpdyAssumption ==
  /\ Ids = 1..Cardinality(Ids) /\ 1 \in Ids /\ Ids \subseteq Conns
  /\ \A p \in Plans : p.syns \subseteq Syns /\ p.upload \in Nat
  /\ SpdyThres \in Nat /\ Window \in Nat \ {0} /\ MaxFrames \in Nat

VARIABLES
  sc,     \* the client connection and all that belongs to it
  cplan,  \* the client: what it does
  cst,    \* the client: stream id -> none, open, fin (FIN sent) or reset
  cup,    \* the client: stream id -> DATA frames it has sent
  cwin    \* the client: stream id -> DATA frames it may still send

spdyVars == <<sc, cplan, cst, cup, cwin>>

NoItem == [k |-> "none", id |-> 0, n |-> 0]
NewStream == [st |-> "none", rfin |-> FALSE, lfin |-> FALSE, deferred |-> FALSE]

(* in, out, rcb: as for HTTPS.  str: the session's streams, OPENING until   *)
(* SYN_REPLY is sent, OPENED then, CLOSING when RST_STREAM is queued.  q,   *)
(* aob: the frames queued and the one being sent.  goaway: GOAWAY was sent. *)
(* credit: WINDOW_UPDATEs on their way.  History: made, sent: body parts of *)
(* the streams that are open; abort.                                        *)
SpdyState ==
  LET items == [k : {"none", "reply", "data", "fin", "wu", "rst", "goaway"}, id : Ids \cup {0},
                n : 0..Window]
  IN  [up : {"open", "gone"}, ds : [Ids -> {NullObj} \cup DownstreamType], conn : [Conns -> ConnType(Ids)],
       in : Seq(Syns \cup [k : {"data", "bad"}, id : Ids, fin : BOOLEAN] \cup [k : {"rst"}, id : Ids]),
       out : Nat, rcb : BOOLEAN,
       str : [Ids -> [st : {"none", "OPENING", "OPENED", "CLOSING", "closed"}, rfin : BOOLEAN,
                      lfin : BOOLEAN, deferred : BOOLEAN]],
       q : Seq(items), aob : items, goaway : BOOLEAN, credit : [Ids -> Nat], made : [Ids -> Nat],
       sent : [Ids -> Nat],
       abort : {"none", "read of a deleted downstream"}]

\* SpdyUpstream::SpdyUpstream
SpdyInit ==
  /\ sc = [up |-> "open", ds |-> [id \in Ids |-> NullObj], conn |-> [c \in Conns |-> NewConn],
           in |-> <<>>, out |-> 0, rcb |-> FALSE, str |-> [id \in Ids |-> NewStream],
           q |-> <<>>, aob |-> NoItem, goaway |-> FALSE, credit |-> [id \in Ids |-> 0],
           made |-> [id \in Ids |-> 0], sent |-> [id \in Ids |-> 0],
           abort |-> "none"]
  /\ cplan \in Plans
  /\ cst = [id \in Ids |-> "none"]
  /\ cup = [id \in Ids |-> 0]
  /\ cwin = [id \in Ids |-> Window]

Active(w, id) == w.str[id].st \in {"OPENING", "OPENED", "CLOSING"}
Sendable(w, id) == w.str[id].st = "OPENED" /\ ~w.str[id].lfin
Item(k, id, n) == [k |-> k, id |-> id, n |-> n]

\* spdylay_submit_rst_stream, as rst_stream calls it.
RstStream(w, id) ==
  [w EXCEPT !.q = Append(@, Item("rst", id, 0)),
            !.str[id].st = IF Active(w, id) THEN "CLOSING" ELSE @]

\* spdylay_session_resume_data
ResumeData(w, id) ==
  IF w.str[id].deferred
  THEN [w EXCEPT !.q = Append(@, Item("data", id, 0)), !.str[id].deferred = FALSE] ELSE w

\* Mutant: every response is taken for one that is over.
OnStreamClosePools(w, id) ==
  IF ~Exists(w, id) THEN w
  ELSE DeleteDownstream(IF w.ds[id].dconn # NoConn THEN DetachDownstream(w, id) ELSE w, id)

\* on_stream_close_callback
OnStreamClose(w, id) ==
  IF ~Exists(w, id) THEN w
  ELSE LET keep == /\ w.ds[id].req # "CONNECT_FAIL" /\ w.ds[id].res = "MSG_COMPLETE"
                   /\ ~w.ds[id].tunnel /\ ~w.ds[id].res_close /\ w.ds[id].dconn # NoConn
       IN  DeleteDownstream(IF keep THEN DetachDownstream(w, id) ELSE w, id)

\* spdylay_session_close_stream
CloseStream(w, id) ==
  IF Active(w, id)
  THEN OnStreamClose([w EXCEPT !.str[id] = [NewStream EXCEPT !.st = "closed"], !.made[id] = 0,
                               !.sent[id] = 0], id)
  ELSE w

\* SpdyUpstream::error_reply
SpdyErrorReply(w, id) ==
  [w EXCEPT !.ds[id].body = @ + 1, !.made[id] = @ + 1, !.ds[id].res = "MSG_COMPLETE",
            !.q = Append(@, Item("reply", id, 0))]
-----------------------------------------------------------------------------
(* spdylay_session_send with the callbacks it makes.                       *)

\* Mutant: the backend is not read again when the buffer has run empty.
TakeBodyQuietly(w, id) == [w EXCEPT !.ds[id].body = @ - 1]

\* evbuffer_remove and body_buf_cb
TakeBody(w, id) ==
  LET v == [w EXCEPT !.ds[id].body = @ - 1]
  IN  IF v.ds[id].body = 0 THEN ResumeRead(v, id, "NO_BUFFER") ELSE v

\* Mutant: the end of the body is taken for a pause.
ReadDataEndless(w, id) ==
  IF ~Exists(w, id) THEN [w EXCEPT !.abort = "read of a deleted downstream"]
  ELSE IF w.ds[id].body > 0 THEN [TakeBody(w, id) EXCEPT !.aob = Item("data", id, 1)]
  ELSE [w EXCEPT !.str[id].deferred = TRUE]

\* spdy_data_read_callback: a part of the body, the end, or nothing for now.
ReadData(w, id) ==
  IF ~Exists(w, id) THEN [w EXCEPT !.abort = "read of a deleted downstream"]
  ELSE IF w.ds[id].body > 0 THEN [TakeBody(w, id) EXCEPT !.aob = Item("data", id, 1)]
  ELSE IF ~w.ds[id].tunnel /\ w.ds[id].res = "MSG_COMPLETE"
  THEN [w EXCEPT !.aob = Item("fin", id, 0)]
  ELSE [w EXCEPT !.str[id].deferred = TRUE]

\* spdylay_session_prep_frame; a SYN_REPLY that cannot be sent resets the stream
\* (on_ctrl_not_send_callback).
Prepare(w, i) ==
  CASE i.k = "reply" -> IF w.str[i.id].st = "OPENING" THEN [w EXCEPT !.aob = i]
                        ELSE IF Exists(w, i.id) THEN RstStream(w, i.id) ELSE w
    [] i.k = "data"  -> IF Sendable(w, i.id) THEN ReadData(w, i.id) ELSE w
    [] i.k = "wu"    -> IF w.str[i.id].st \in {"OPENING", "OPENED"} THEN [w EXCEPT !.aob = i] ELSE w
    [] i.k \in {"rst", "goaway"} -> [w EXCEPT !.aob = i]

\* spdylay_session_after_frame_sent.  SYN_REPLY makes the stream OPENED, also one that
\* is CLOSING because RST_STREAM was queued while SYN_REPLY waited for the client.
AfterSent(w, i) ==
  CASE i.k = "reply" -> IF ~Active(w, i.id) THEN w
                        ELSE [w EXCEPT !.str[i.id].st = "OPENED", !.q = Append(@, Item("data", i.id, 0))]
    [] i.k = "data"  -> LET v == [w EXCEPT !.sent[i.id] = @ + 1]
                        IN  IF Sendable(v, i.id) THEN ReadData(v, i.id) ELSE v
    [] i.k = "fin"   -> LET v == [w EXCEPT !.str[i.id].lfin = TRUE]
                        IN  IF v.str[i.id].rfin THEN CloseStream(v, i.id) ELSE v
    [] i.k = "wu"    -> [w EXCEPT !.credit[i.id] = @ + i.n]
    [] i.k = "rst"   -> CloseStream(w, i.id)
    [] i.k = "goaway" -> [w EXCEPT !.goaway = TRUE]

\* One turn of the loop of spdylay_session_send, which leaves things as they are
\* once nothing is queued or send_callback would block.
SendTurn(w) ==
  IF w.abort # "none" THEN w
  ELSE IF w.aob # NoItem
  THEN IF w.out > SpdyThres THEN w ELSE AfterSent([w EXCEPT !.out = @ + 1, !.aob = NoItem], w.aob)
  ELSE IF w.q # <<>> THEN Prepare([w EXCEPT !.q = Tail(@)], Head(w.q))
  ELSE w

\* spdylay_session_send: a frame of the queue takes a turn, or two when it comes
\* to another one, and one that is sent three with the one that it may come to.
SessionSend(w) ==
  LET turns == 2 * Len(w.q) + 3 * (SpdyThres + 1)
      run[i \in 0..turns] == IF i = 0 THEN w ELSE SendTurn(run[i - 1])
  IN  run[turns]

\* SpdyUpstream::send and its callers: the session may be over.
Send(w) == LET v == SessionSend(w) IN IF v.goaway THEN DeleteHandler(v) ELSE v
-----------------------------------------------------------------------------
(* Frames of the client; fail: a new backend connection cannot be made.    *)

\* on_ctrl_recv_callback for SYN_STREAM
OnSynStream(w, f, fail) ==
  LET v == [w EXCEPT !.ds[f.id] = [NewDownstream EXCEPT !.connect = f.connect]]
      g == GetDownstreamConnection(v)
      a == PushRequestHeaders(AttachDownstream(v, f.id, g.c), f.id)
      h == [a EXCEPT !.ds[f.id].req = "HEADER_COMPLETE"]
  IN  IF ~f.ok THEN RstStream(v, f.id)
      ELSE IF g.new /\ fail
      THEN [RstStream(v, f.id) EXCEPT !.ds[f.id].req = "CONNECT_FAIL", !.conn[g.c].st = "lost"]
      ELSE IF f.fin THEN RequestComplete(h, f.id) ELSE h

\* Mutant: what is received is not counted.
OnDataChunkUncounted(w, f) ==
  IF ~Exists(w, f.id) THEN w
  ELSE LET v == PushUpload(w, f.id) IN IF f.fin THEN RequestComplete(v, f.id) ELSE v

\* on_data_chunk_recv_callback
OnDataChunk(w, f) ==
  IF ~Exists(w, f.id) THEN w
  ELSE LET v == [PushUpload(w, f.id) EXCEPT !.ds[f.id].window = @ + 1]
       IN  IF PushUploadFails(w, f.id) \/ v.ds[f.id].window > Window THEN RstStream(v, f.id)
           ELSE IF f.fin THEN RequestComplete(v, f.id) ELSE v

\* What the session makes of a frame.
RecvFrame(w, f, fail) ==
  CASE f.k = "syn"  -> OnSynStream([w EXCEPT !.str[f.id] = [NewStream EXCEPT !.st = "OPENING",
                                                                        !.rfin = f.fin]], f, fail)
    [] f.k = "data" ->
         IF w.str[f.id].st \notin {"OPENING", "OPENED"} \/ w.str[f.id].rfin
         THEN IF Active(w, f.id) THEN w ELSE RstStream(w, f.id)
         ELSE LET v == OnDataChunk(w, f)
                  u == [v EXCEPT !.str[f.id].rfin = f.fin /\ v.str[f.id].st # "CLOSING"]
              IN  IF u.str[f.id].rfin /\ u.str[f.id].lfin THEN CloseStream(u, f.id) ELSE u
    [] f.k = "rst"  -> CloseStream(w, f.id)
    [] f.k = "bad"  -> [w EXCEPT !.q = Append(@, Item("goaway", 1, 0))]

RecvNext(w, fail) ==
  IF w.in = <<>> THEN w ELSE RecvFrame([w EXCEPT !.in = Tail(@)], Head(w.in), fail)

\* SpdyUpstream::on_read
SpdyOnRead(w, fail) ==
  LET run[i \in 0..Len(w.in)] == IF i = 0 THEN [w EXCEPT !.rcb = FALSE] ELSE RecvNext(run[i - 1], fail)
  IN  Send(run[Len(w.in)])
-----------------------------------------------------------------------------
(* The backend of stream id.                                               *)

\* on_downstream_header_complete, _body and _body_complete
SpdyParse(w, id, t) ==
  CASE t.k = "hd"  -> [ResponseFields(w, id, t) EXCEPT !.ds[id].tunnel = w.ds[id].connect,
                                                      !.q = Append(@, Item("reply", id, 0))]
    [] t.k = "bd"  -> LET v == ResumeData([w EXCEPT !.ds[id].body = @ + 1, !.made[id] = @ + 1], id)
                      IN  IF v.ds[id].body > SpdyThres THEN PauseRead(v, id, "NO_BUFFER") ELSE v
    [] t.k = "end" -> ResumeData([w EXCEPT !.ds[id].res = "MSG_COMPLETE"], id)

\* spdy_downstream_readcb
SpdyDownstreamRead(w, id, t) ==
  IF t.k # "bad" THEN Send(SpdyParse(w, id, t))
  ELSE LET v == IF w.ds[id].res = "HEADER_COMPLETE" THEN RstStream(w, id) ELSE SpdyErrorReply(w, id)
       IN  Send(DeleteConn([v EXCEPT !.ds[id].res = "MSG_COMPLETE"], w.ds[id].dconn))

\* spdy_downstream_writecb; window_update
SpdyDownstreamWrite(w, id) ==
  IF w.ds[id].window >= Window \div 2
  THEN [w EXCEPT !.q = Append(@, Item("wu", id, w.ds[id].window)), !.ds[id].window = 0]
  ELSE w

\* spdy_downstream_eventcb
SpdyDownstreamEvent(w, id, e) ==
  LET v == DeleteConn(w, w.ds[id].dconn)
      complete(u) == [u EXCEPT !.ds[id].res = "MSG_COMPLETE"]
  IN  Send(CASE w.ds[id].res = "MSG_COMPLETE" -> RstStream(v, id)
             [] w.ds[id].res = "INITIAL" -> SpdyErrorReply(v, id)
             [] w.ds[id].res = "HEADER_COMPLETE" ->
                  IF e = "eof" /\ ~w.ds[id].tunnel THEN ResumeData(complete(v), id)
                  ELSE complete(RstStream(v, id)))
-----------------------------------------------------------------------------
(* The client, the backends and the event loop.                            *)

SpdyRunning == sc.up = "open" /\ sc.abort = "none"

ClientFrames ==
  LET new == {id \in Ids : cst[id] = "none" /\ \A j \in Ids : j < id => cst[j] # "none"}
      open == {id \in Ids : cst[id] = "open" /\ cwin[id] > 0 /\ cup[id] < cplan.upload}
  IN  {f \in cplan.syns : f.id \in new}
      \cup [k : {"data"}, id : open, fin : BOOLEAN]
      \cup [k : {"rst"}, id : {id \in Ids : cst[id] \in {"open", "fin"}}]
      \cup [k : {"bad"} \cap cplan.extra, id : {1}, fin : {FALSE}]

\* A frame of a client that keeps to the protocol until it sends a bad one.
SpdyClientSend ==
  /\ SpdyRunning /\ Len(sc.in) < MaxFrames
  /\ \A i \in 1..Len(sc.in) : sc.in[i].k # "bad"
  /\ \A i \in 1..Len(sc.q) : sc.q[i].k # "goaway"
  /\ sc.aob.k # "goaway"
  /\ \E f \in ClientFrames :
       /\ sc' = [sc EXCEPT !.in = Append(@, f), !.rcb = TRUE]
       /\ cst' = [cst EXCEPT ![f.id] = CASE f.k = "rst" -> "reset" [] f.k = "bad" -> @
                                         [] OTHER -> IF f.fin THEN "fin" ELSE "open"]
       /\ cup' = IF f.k = "data" THEN [cup EXCEPT ![f.id] = @ + 1] ELSE cup
       /\ cwin' = IF f.k = "data" THEN [cwin EXCEPT ![f.id] = @ - 1] ELSE cwin
  /\ UNCHANGED cplan

SpdyUpstreamReadcb ==
  /\ SpdyRunning /\ sc.rcb
  /\ \E fail \in BOOLEAN : sc' = SpdyOnRead(sc, fail)
  /\ UNCHANGED <<cplan, cst, cup, cwin>>

\* Output goes to the client; once all is written, upstream_writecb and on_write.
SpdyUpstreamWritecb ==
  /\ SpdyRunning /\ sc.out > 0
  /\ LET v == [sc EXCEPT !.out = @ - 1]
         u == [v EXCEPT !.credit = [id \in Ids |-> 0]]
     IN  /\ sc' = IF v.out > 0 THEN v ELSE Send(u)
         /\ cwin' = IF v.out > 0 THEN cwin ELSE [id \in Ids |-> cwin[id] + sc.credit[id]]
  /\ UNCHANGED <<cplan, cst, cup>>

\* upstream_eventcb
SpdyUpstreamEventcb ==
  /\ SpdyRunning
  /\ sc' = DeleteHandler(sc)
  /\ UNCHANGED <<cplan, cst, cup, cwin>>

Backed == {id \in Ids : Exists(sc, id) /\ sc.ds[id].dconn # NoConn}

SpdyDownstreamReadcb ==
  /\ SpdyRunning
  /\ \E id \in Backed : \E t \in Answers(sc, sc.ds[id].dconn) :
       /\ Conn(sc, id).on
       /\ t.k = "end" => ~sc.ds[id].tunnel
       /\ sc' = SpdyDownstreamRead(Answered(sc, sc.ds[id].dconn, t), id, t)
  /\ UNCHANGED <<cplan, cst, cup, cwin>>

SpdyDownstreamWritecb ==
  /\ SpdyRunning
  /\ \E id \in Backed :
       /\ Conn(sc, id).out > 0 /\ Conn(sc, id).wr
       /\ sc' = SpdyDownstreamWrite(Flush(sc, sc.ds[id].dconn), id)
  /\ UNCHANGED <<cplan, cst, cup, cwin>>

SpdyDownstreamEventcb ==
  /\ SpdyRunning
  /\ \E id \in Backed, e \in Events, side \in EventSides :
       /\ CanEvent(sc, sc.ds[id].dconn, e, side)
       /\ sc' = SpdyDownstreamEvent(AfterEvent(sc, sc.ds[id].dconn, side), id, e)
  /\ UNCHANGED <<cplan, cst, cup, cwin>>

SpdyIdleEventcb ==
  /\ SpdyRunning
  /\ \E c \in Pool(sc) : sc' = IdleEvent(sc, c)
  /\ UNCHANGED <<cplan, cst, cup, cwin>>

SpdyNext ==
  \/ SpdyClientSend \/ SpdyUpstreamReadcb \/ SpdyUpstreamWritecb \/ SpdyUpstreamEventcb
  \/ SpdyDownstreamReadcb \/ SpdyDownstreamWritecb \/ SpdyDownstreamEventcb \/ SpdyIdleEventcb
-----------------------------------------------------------------------------
(* Correctness.                                                            *)

\* Type invariant.
SpdyTypeOK ==
  /\ sc \in SpdyState /\ cst \in [Ids -> {"none", "open", "fin", "reset"}]
  /\ cwin \in [Ids -> 0..Window]
  /\ \A id \in Ids : Exists(sc, id) => sc.ds[id].window <= Window

\* A stream of the session has a Downstream from SYN_STREAM to
\* on_stream_close_callback and no longer, the library never calls back for a
\* deleted one, and the pointers between it and its backend connection agree.
DownstreamPerStream ==
  /\ SpdyTypeOK /\ PointersAgree(sc) /\ sc.abort = "none"
  /\ SpdyRunning => \A id \in Ids : Exists(sc, id) <=> Active(sc, id)
  /\ sc.up = "gone" => \A c \in Conns : sc.conn[c].st \in {"none", "lost"}
  /\ Pool(sc) \subseteq {c \in Conns : sc.conn[c].resp = "none"}

Waiting(k, id) ==
  Cardinality({i \in 1..Len(sc.q) : sc.q[i].k = k /\ sc.q[i].id = id})
    + (IF sc.aob.k = k /\ sc.aob.id = id THEN 1 ELSE 0)

\* Parts of response bodies are neither lost nor doubled on the way through the
\* buffer, spdy_data_read_callback and the frame that waits for the client.  The
\* body of an answered stream is being sent exactly once, and it is put off
\* (SPDYLAY_ERR_DEFERRED) only when there is nothing to send: no
\* spdylay_session_resume_data is missing or superfluous.  A backend that is not
\* read from has filled the buffer of its stream, so that emptying it (body_buf_cb)
\* resumes it; otherwise it is read from.
BodyFlows ==
  \A id \in Ids :
    /\ SpdyRunning /\ Exists(sc, id) =>
         sc.made[id] = sc.sent[id] + sc.ds[id].body
                         + (IF sc.aob = Item("data", id, 1) THEN 1 ELSE 0)
    /\ SpdyRunning /\ Sendable(sc, id) =>
         /\ Waiting("data", id) + Waiting("fin", id) + (IF sc.str[id].deferred THEN 1 ELSE 0) = 1
         /\ sc.str[id].deferred =>
              sc.ds[id].body = 0 /\ (sc.ds[id].res # "MSG_COMPLETE" \/ sc.ds[id].tunnel)
    /\ Exists(sc, id) /\ sc.ds[id].dconn # NoConn =>
         (sc.ds[id].rd # {} => sc.ds[id].body > 0) /\ (sc.ds[id].rd = {} <=> Conn(sc, id).on)

\* The WINDOW_UPDATEs for the stream among the frames of s.
CreditIn(s, id) ==
  LET sum[i \in 0..Len(s)] ==
        IF i = 0 THEN 0 ELSE sum[i - 1] + (IF s[i].k = "wu" /\ s[i].id = id THEN s[i].n ELSE 0)
  IN  sum[Len(s)]

Credit(id) == CreditIn(Append(sc.q, sc.aob), id)

\* With SPDYLAY_OPT_NO_AUTO_WINDOW_UPDATE the window is shrpx's own business: what
\* the client may send, what it has sent, what is counted in recv_window_size_
\* and the WINDOW_UPDATEs on their way always add up to the initial window, as long
\* as no RST_STREAM waits for the stream.  (Once one does, the library drops the
\* stream's DATA without a callback, and counts it nowhere; SYN_REPLY may make such a
\* stream OPENED again.)  Between callbacks the only frame that waits though the client
\* could take it is a WINDOW_UPDATE, which spdy_downstream_writecb queues without a
\* send(); every other handler leaves the queue empty or the client's output full.
UploadCredit ==
  SpdyRunning =>
    /\ \A id \in Ids : sc.str[id].st \in {"OPENING", "OPENED"} /\ Waiting("rst", id) = 0 =>
         cwin[id] + sc.credit[id] + Credit(id) + sc.ds[id].window
           + Cardinality({i \in 1..Len(sc.in) : sc.in[i].k = "data" /\ sc.in[i].id = id}) = Window
    /\ \A i \in 1..Len(sc.q) : sc.q[i].k = "wu" \/ (sc.aob # NoItem /\ sc.out > 0)

\* Weak fairness of the event loop: it writes what a client takes, and one that
\* takes nothing is dropped after upstream_write_timeout.  (Written without
\* ENABLED, which the guard of the action stands for.)
SpdyFairness ==
  []<>~(SpdyRunning /\ sc.out > 0) \/ []<><<SpdyUpstreamWritecb \/ SpdyUpstreamEventcb>>_spdyVars

\* Once a response is over, the client gets all of it with the end of the stream,
\* or a reset, or is gone.
ResponseEnds ==
  \A id \in Ids :
    (SpdyRunning /\ Exists(sc, id) /\ sc.ds[id].res = "MSG_COMPLETE")
      ~> (~SpdyRunning \/ ~Exists(sc, id) \/ sc.str[id].lfin)
=============================================================================
