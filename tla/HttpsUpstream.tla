---------------------------- MODULE HttpsUpstream ----------------------------
(***************************************************************************)
(* shrpx_https_upstream.cc: a client of shrpx that speaks HTTP/1.1.  Its   *)
(* requests, pipelined, are parsed one at a time; each is forwarded over a *)
(* backend connection and its response is forwarded back.  libevent calls  *)
(* the handlers, later than the event they are for (BEV_OPT_DEFER_         *)
(* CALLBACKS).  The octets of a request are the tokens                     *)
(* beg pad* hd bd* [end]; `bad' stands for octets that do not parse.       *)
(* A definition marked `mutant' is a plausible bug in the one after it.    *)
(***************************************************************************)
EXTENDS ShrpxCore

CONSTANTS
  Requests,   \* what a client may ask: sequences of tokens
  MaxReq,     \* bound: requests of a client
  MaxHeader,  \* SHRPX_HTTPS_MAX_HEADER_LENGTH, in tokens
  OutThres,   \* SHRPX_HTTPS_UPSTREAM_OUTPUT_UPPER_THRES, in writes
  MaxIn       \* SHRPX_READ_WARTER_MARK, in tokens

Tokens ==
  [k : {"beg", "pad", "bd", "end", "bad"}, last : BOOLEAN] \cup
  [k : {"hd"}, last : BOOLEAN, chunked : BOOLEAN, close : BOOLEAN, expect : BOOLEAN]

\* Where the parser is after a token, and which tokens may come there.
PlaceAfter(t) ==
  CASE t.k \in {"beg", "pad"} -> "head" [] t.k \in {"hd", "bd"} /\ ~t.last -> "body" [] OTHER -> "start"
Expected(place) ==
  CASE place = "start" -> {"beg"} [] place = "head" -> {"pad", "hd", "bad"}
    [] place = "body" -> {"bd", "end", "bad"}
Chained(q) == \A i \in 1..(Len(q) - 1) : q[i + 1].k \in Expected(PlaceAfter(q[i]))

ASSUME RequestsAssumption ==
  /\ Requests \subseteq {q \in Seq(Tokens) : q # <<>>} /\ MaxReq \in Nat /\ MaxIn \in Nat /\ OutThres \in Nat
  /\ \A q \in Requests : q[1].k = "beg" /\ Chained(q) /\ PlaceAfter(q[Len(q)]) = "start"

VARIABLES
  hc,      \* the client connection and all that belongs to it
  htodo,   \* what the client has begun to send and not sent yet
  hsent    \* requests the client has begun

httpsVars == <<hc, htodo, hsent>>

(* in, out: the client's input and output buffers.  rcb: a read callback is *)
(* due.  rd: ioctrl_.rdbits_.  htp: http_errno of the request parser; dead: *)
(* it met a request after which the connection closes.  hdr:                *)
(* current_header_length_.  close: should_close_after_write_.  n: requests  *)
(* begun.  History: heads, the requests that the responses begun are for;   *)
(* final, the first of these responses that says Connection: close, or 0;   *)
(* refused, on_read has answered a request with 400; early, a backend was   *)
(* done with a request before the client, or had begun to answer one that   *)
(* is refused; extra, a backend sent octets after the end of a response;    *)
(* abort, what stopped the process.                                         *)
HttpsState ==
  [up : {"open", "gone"}, ds : [{0} -> {NullObj} \cup DownstreamType], conn : [Conns -> ConnType({0})],
   in : Seq(Tokens), out : Nat, rcb : BOOLEAN, rd : SUBSET Reasons,
   htp : {"ok", "paused", "error"}, dead : BOOLEAN, hdr : Nat, close : BOOLEAN, n : Nat,
   heads : Seq(Nat), final : Nat, refused : BOOLEAN, early : BOOLEAN, extra : BOOLEAN,
   abort : {"none", "pause in error state", "downstream attached", "no backend connection",
            "no downstream", "response not complete"}]

\* HttpsUpstream::HttpsUpstream
HttpsInit ==
  /\ hc = [up |-> "open", ds |-> [id \in {0} |-> NullObj], conn |-> [c \in Conns |-> NewConn],
           in |-> <<>>, out |-> 0, rcb |-> FALSE, rd |-> {}, htp |-> "ok", dead |-> FALSE,
           hdr |-> 0, close |-> FALSE, n |-> 0, heads |-> <<>>, final |-> 0, refused |-> FALSE,
           early |-> FALSE, extra |-> FALSE, abort |-> "none"]
  /\ htodo = <<>>
  /\ hsent = 0

D(w) == w.ds[0]
Running(w) == w.up = "open" /\ w.abort = "none"
Abort(w, why) == [w EXCEPT !.abort = why]

\* The head of a response to request n is written; closing: with Connection: close.
WriteHead(w, closing) ==
  [w EXCEPT !.out = @ + 1, !.heads = Append(@, w.n),
            !.final = IF closing /\ @ = 0 THEN Len(w.heads) + 1 ELSE @]

\* HttpsUpstream::error_reply
ErrorReply(w) ==
  [WriteHead(w, w.close) EXCEPT !.ds = IF Exists(w, 0) THEN [@ EXCEPT ![0].res = "MSG_COMPLETE"] ELSE @]

\* http_parser_pause: only a parser without an error may be paused or not.
ParserPause(w, paused) ==
  IF w.htp = "error" THEN Abort(w, "pause in error state")
  ELSE [w EXCEPT !.htp = IF paused THEN "paused" ELSE "ok"]
-----------------------------------------------------------------------------
(* The callbacks of the request parser.                                    *)

\* htp_msg_begin and attach_downstream; after the last request the parser calls neither.
MsgBegin(w) ==
  IF w.dead THEN [w EXCEPT !.htp = "error", !.n = @ + 1]
  ELSE IF Exists(w, 0) THEN Abort(w, "downstream attached")
  ELSE [w EXCEPT !.hdr = 0, !.n = @ + 1, !.ds[0] = NewDownstream]

\* htp_hdrs_completecb; fail: a new connection to the backend cannot be made.
HdrsComplete(w, t, fail) ==
  LET v == [RequestFields(w, 0, t) EXCEPT !.out = IF t.expect THEN @ + 1 ELSE @]
      g == GetDownstreamConnection(w)
  IN  IF g.new /\ fail
      THEN [v EXCEPT !.ds[0].req = "CONNECT_FAIL", !.htp = "error"]
      ELSE LET a == PushRequestHeaders(AttachDownstream(v, 0, g.c), 0)
           IN  [a EXCEPT !.ds[0].req = "HEADER_COMPLETE"]

\* htp_msg_completecb and end_upload_data; the parser has decided what follows.
MsgComplete(w) ==
  LET v == RequestComplete(PushUpload(w, 0), 0)
      u == RequestComplete(w, 0)
      z == IF D(w).chunked THEN v ELSE u
  IN  IF D(w).chunked /\ D(w).dconn = NoConn THEN Abort(w, "no backend connection")
      ELSE ParserPause([z EXCEPT !.dead = D(w).req_close], TRUE)

\* htp_bodycb
BodyCb(w) ==
  IF PushUploadFails(w, 0) THEN [PushUpload(w, 0) EXCEPT !.htp = "error"] ELSE PushUpload(w, 0)

HtpToken(w, t, fail) ==
  LET b == BodyCb(w)
      h == HdrsComplete(w, t, fail)
  IN  CASE t.k = "beg" -> MsgBegin(w)
        [] t.k = "pad" -> w
        [] t.k = "hd"  -> IF h.htp = "ok" /\ t.last THEN MsgComplete(h) ELSE h
        [] t.k = "bd"  -> IF b.htp = "ok" /\ t.last THEN MsgComplete(b) ELSE b
        [] t.k = "end" -> MsgComplete(w)
        [] t.k = "bad" -> [w EXCEPT !.htp = "error"]

\* One token of the input, unless the parser has stopped.
ParseToken(w, fail) ==
  LET u == HtpToken([w EXCEPT !.in = Tail(@)], Head(w.in), fail)
  IN  IF w.in # <<>> /\ w.htp = "ok" /\ w.abort = "none" THEN [u EXCEPT !.hdr = @ + 1] ELSE w

\* http_parser_execute on the input, and the draining of what it read.
Execute(w, fail) ==
  LET run[i \in 0..Len(w.in)] == IF i = 0 THEN w ELSE ParseToken(run[i - 1], fail)
  IN  run[Len(w.in)]

\* The 400 of on_read: the octets do not parse, or a callback of the parser has
\* returned nonzero, or the header is too long.
BadRequest(w) ==
  ErrorReply([w EXCEPT !.close = TRUE, !.refused = TRUE,
                       !.early = @ \/ (Exists(w, 0) /\ D(w).res = "HEADER_COMPLETE")])

\* HttpsUpstream::on_read
OnRead(w, fail) ==
  LET v == Execute(w, fail)
  IN  IF w.in = <<>> \/ v.abort # "none" THEN v
      ELSE IF v.htp = "paused"
      THEN IF ~Exists(v, 0) THEN Abort(v, "no downstream")
           ELSE IF D(v).dconn = NoConn
           THEN IF D(v).res = "MSG_COMPLETE" THEN DeleteDownstream(v, 0)
                ELSE Abort(v, "response not complete")
           ELSE [v EXCEPT !.rd = @ \cup {"MSG_BLOCK"}]
      ELSE IF v.htp = "error" THEN BadRequest(v)
      ELSE IF ~Exists(v, 0) THEN v
      ELSE IF D(v).req = "INITIAL" /\ v.hdr > MaxHeader THEN BadRequest(v)
      ELSE IF OutputBufferFull(v, 0) THEN [v EXCEPT !.rd = @ \cup {"NO_BUFFER"}]
      ELSE v

\* Mutant: what is left in the input buffer waits for the next octet.
ResumeUpstreamOnly(w, reason, fail) ==
  LET v == [w EXCEPT !.rd = @ \ {reason}] IN IF v.rd = {} THEN ParserPause(v, FALSE) ELSE v

\* HttpsUpstream::resume_read
ResumeUpstream(w, reason, fail) ==
  LET v == [w EXCEPT !.rd = @ \ {reason}]
      p == ParserPause(v, FALSE)
  IN  IF v.rd # {} THEN v ELSE IF p.abort # "none" THEN p ELSE OnRead(p, fail)

\* Mutant: the backend connection is kept, whatever state it is in.
NextRequestPools(w, fail) ==
  LET v == IF D(w).dconn = NoConn THEN w ELSE DetachDownstream(w, 0)
  IN  IF D(w).req = "MSG_COMPLETE" THEN ResumeUpstream(DeleteDownstream(v, 0), "MSG_BLOCK", fail)
      ELSE [w EXCEPT !.early = TRUE]

\* What follows when the backend is done: the next request, if the client is too.
NextRequest(w, fail) ==
  IF D(w).req = "MSG_COMPLETE" THEN ResumeUpstream(DeleteDownstream(w, 0), "MSG_BLOCK", fail)
  ELSE [w EXCEPT !.early = TRUE]
-----------------------------------------------------------------------------
(* The callbacks of the response parser; t is one token of the response.   *)

\* htp_hdrs_completecb of shrpx_downstream.cc and on_downstream_header_complete
ResponseHead(w, t) ==
  WriteHead(ResponseFields(w, 0, t), D(w).req_close \/ t.close)

\* on_downstream_body_complete: the last chunk, and whether to close.
BodyComplete(w) ==
  [w EXCEPT !.close = @ \/ D(w).req_close \/ D(w).res_close]

\* on_downstream_body
ResponseBody(w) == [w EXCEPT !.out = @ + 1]

\* Downstream::parse_http_response, as far as the octets parse.
ParseResponse(w, t) ==
  LET end == BodyComplete([w EXCEPT !.ds[0].res = "MSG_COMPLETE"])
  IN  CASE t.k = "hd"   -> ResponseHead(w, t)
        [] t.k = "bd"   -> ResponseBody(w)
        [] t.k = "end"  -> end
        [] t.k = "over" -> [end EXCEPT !.extra = TRUE]
        [] t.k = "bad"  -> w

\* https_downstream_readcb after a complete response.
AfterResponse(w, fail) ==
  LET v == IF D(w).res_close THEN DeleteConn(w, D(w).dconn) ELSE DetachDownstream(w, 0)
  IN  IF D(v).req = "MSG_COMPLETE" /\ v.close /\ v.out = 0 THEN DeleteHandler(v)
      ELSE NextRequest(v, fail)

\* Mutant: octets that do not parse end a request without an answer.
DownstreamReadSilent(w, t, fail) ==
  LET v == ParseResponse(w, t)
  IN  IF t.k \in {"bad", "over"} THEN NextRequest(v, fail)
      ELSE IF D(v).res = "MSG_COMPLETE" THEN AfterResponse(v, fail) ELSE v

\* https_downstream_readcb
DownstreamRead(w, t, fail) ==
  LET v == ParseResponse(w, t)
  IN  IF t.k \in {"bad", "over"}
      THEN IF D(v).res = "HEADER_COMPLETE" THEN DeleteHandler(v) ELSE NextRequest(ErrorReply(v), fail)
      ELSE IF D(v).res = "MSG_COMPLETE" THEN AfterResponse(v, fail)
      ELSE IF v.out > OutThres THEN PauseRead(v, 0, "NO_BUFFER")
      ELSE v

\* https_downstream_eventcb
DownstreamEvent(w, e, fail) ==
  IF e = "eof"
  THEN LET v == [BodyComplete(w) EXCEPT !.ds[0].res = "MSG_COMPLETE"]
       IN  IF D(w).res = "HEADER_COMPLETE"
           THEN IF v.close /\ v.out = 0 THEN DeleteHandler(v) ELSE NextRequest(v, fail)
           ELSE NextRequest(IF D(w).res = "MSG_COMPLETE" THEN w ELSE ErrorReply(w), fail)
  ELSE NextRequest(IF D(w).res = "INITIAL" THEN ErrorReply(w) ELSE w, fail)

\* What a backend may send; over: the end of the response and more octets, which do
\* not begin another.
HttpsAnswers(w, c) ==
  Answers(w, c) \cup (IF w.conn[c].resp = "body" THEN {[k |-> "over"]} ELSE {})
-----------------------------------------------------------------------------
(* The client, the backend and the event loop.                             *)

\* Octets of the client arrive: EV_READ is on and there is room.
ClientSend ==
  /\ Running(hc) /\ hc.rd = {} /\ Len(hc.in) < MaxIn
  /\ \E q \in IF htodo # <<>> THEN {htodo} ELSE IF hsent < MaxReq THEN Requests ELSE {} :
       /\ hc' = [hc EXCEPT !.in = Append(@, Head(q)), !.rcb = TRUE]
       /\ htodo' = Tail(q)
       /\ hsent' = IF htodo = <<>> THEN hsent + 1 ELSE hsent

\* upstream_readcb
UpstreamReadcb ==
  /\ Running(hc) /\ hc.rcb
  /\ \E fail \in BOOLEAN : hc' = OnRead([hc EXCEPT !.rcb = FALSE], fail)
  /\ UNCHANGED <<htodo, hsent>>

\* HttpsUpstream::on_write
OnWrite(w) == IF Exists(w, 0) THEN ResumeRead(w, 0, "NO_BUFFER") ELSE w

\* Output goes to the client; once all is written, upstream_writecb.
UpstreamWritecb ==
  /\ Running(hc) /\ hc.out > 0
  /\ LET v == [hc EXCEPT !.out = @ - 1]
     IN  hc' = IF v.out > 0 THEN v
               ELSE IF v.close THEN DeleteHandler(v) ELSE OnWrite(v)
  /\ UNCHANGED <<htodo, hsent>>

\* upstream_eventcb: the client is gone, or has not read or sent for too long.
UpstreamEventcb ==
  /\ Running(hc) /\ (hc.rd = {} \/ hc.out > 0)
  /\ hc' = DeleteHandler(hc)
  /\ UNCHANGED <<htodo, hsent>>

DownstreamReadcb ==
  /\ Running(hc) /\ Exists(hc, 0) /\ D(hc).dconn # NoConn /\ Conn(hc, 0).on
  /\ \E fail \in BOOLEAN, t \in HttpsAnswers(hc, D(hc).dconn) :
       LET b == IF t.k = "over" THEN [k |-> "bad"] ELSE t
       IN  hc' = DownstreamRead(Answered(hc, D(hc).dconn, b), t, fail)
  /\ UNCHANGED <<htodo, hsent>>

\* https_downstream_writecb, once all output has gone to the backend.
DownstreamWritecb ==
  /\ Running(hc) /\ Exists(hc, 0) /\ D(hc).dconn # NoConn
  /\ Conn(hc, 0).out > 0 /\ Conn(hc, 0).wr
  /\ \E fail \in BOOLEAN :
       hc' = ResumeUpstream(Flush(hc, D(hc).dconn), "NO_BUFFER", fail)
  /\ UNCHANGED <<htodo, hsent>>

DownstreamEventcb ==
  /\ Running(hc) /\ Exists(hc, 0) /\ D(hc).dconn # NoConn
  /\ \E fail \in BOOLEAN, e \in Events, side \in EventSides :
       /\ CanEvent(hc, D(hc).dconn, e, side)
       /\ hc' = DownstreamEvent(AfterEvent(hc, D(hc).dconn, side), e, fail)
  /\ UNCHANGED <<htodo, hsent>>

IdleEventcb ==
  /\ Running(hc)
  /\ \E c \in Pool(hc) : hc' = IdleEvent(hc, c)
  /\ UNCHANGED <<htodo, hsent>>

HttpsNext ==
  \/ ClientSend \/ UpstreamReadcb \/ UpstreamWritecb \/ UpstreamEventcb
  \/ DownstreamReadcb \/ DownstreamWritecb \/ DownstreamEventcb \/ IdleEventcb
-----------------------------------------------------------------------------
(* Correctness.                                                            *)

\* Type invariant.
HttpsTypeOK ==
  /\ hc \in HttpsState /\ Len(hc.in) <= MaxIn /\ hsent \in 0..MaxReq
  /\ Exists(hc, 0) => D(hc).req # "STREAM_CLOSED"

\* Whatever order the callbacks come in, a request and its backend connection
\* (shrpx_downstream_connection.cc) point at each other or not at all, a client
\* never has two, and the end of the client leaves none behind.
HttpsOwnership ==
  /\ HttpsTypeOK /\ PointersAgree(hc)
  /\ Cardinality({c \in Conns : hc.conn[c].st # "none"}) <= 1
  /\ hc.up = "gone" => \A c \in Conns : hc.conn[c].st = "none"

\* The responses that the client reads: none after one that says Connection: close.
ReadHeads(w) == 1..(IF w.final = 0 THEN Len(w.heads) ELSE w.final)

\* Pipelined requests get exactly one response each, in their order, however many of
\* them are refused or fail: up to the response after which the connection closes,
\* error replies of on_read, https_downstream_readcb and https_downstream_eventcb
\* double none and skip none.  Not so once a backend has answered or failed before
\* the request was complete, or had begun to answer one that is then refused (early),
\* or has sent more than a response (extra).
OneResponseEach ==
  Running(hc) /\ ~hc.early /\ ~hc.extra =>
    LET due == IF Exists(hc, 0) /\ D(hc).res = "INITIAL" THEN hc.n - 1 ELSE hc.n
    IN  /\ \A i \in ReadHeads(hc) : hc.heads[i] = i
        /\ hc.final = 0 => Len(hc.heads) = due

\* A connection that detach_downstream puts in the pool is between requests,
\* and no request is ever sent into the body of another.
PooledIsClean ==
  ~hc.early => \A c \in Conns :
    /\ ~hc.conn[c].mixed
    /\ hc.conn[c].st = "idle" => ~hc.conn[c].open /\ hc.conn[c].resp = "none"

\* A client whose request on_read has refused has output to take and is closed after it.
RefusedIsClosed == Running(hc) /\ hc.refused => hc.close /\ hc.out > 0

\* A client that is not read from (pause_read) is waiting for an event that can
\* still come and resumes it: a backend that may answer, or a client that has
\* yet to take output, or output for the backend.  One that is read from has an
\* open parser, and no octets that no callback is due for.  None of the
\* assertions in on_read, attach_downstream and http_parser_pause fails and no null
\* pointer is followed, except that http_parser_pause may fail for a client of which
\* a request was refused; such a client has output to take and is closed after it.
NoStuckClient ==
  /\ RefusedIsClosed
  /\ ~hc.early =>
       /\ hc.abort = "none" \/ (hc.refused /\ hc.abort = "pause in error state")
       /\ Running(hc) /\ ~hc.refused =>
            /\ "MSG_BLOCK" \in hc.rd =>
                 /\ Exists(hc, 0) /\ D(hc).req = "MSG_COMPLETE" /\ D(hc).dconn # NoConn
                 /\ Conn(hc, 0).on \/ ("NO_BUFFER" \in D(hc).rd /\ hc.out > 0)
            /\ "NO_BUFFER" \in hc.rd =>
                 Exists(hc, 0) /\ D(hc).dconn # NoConn /\ Conn(hc, 0).wr /\ Conn(hc, 0).out > 0
            /\ hc.rd = {} => hc.htp = "ok" /\ (hc.in # <<>> => hc.rcb)

\* What http_parser_pause asserts of its callers, for every exchange.
NeverPausedInError == hc.abort # "pause in error state"

\* What https_downstream_readcb says of its error reply: no response to the request
\* was sent before.  The 400s of on_read do not claim that.
ErrorReplyFirst ==
  ~hc.refused => \A i, j \in 1..Len(hc.heads) : i # j => hc.heads[i] # hc.heads[j]
=============================================================================
