------------------------------ MODULE ShrpxCore ------------------------------
(***************************************************************************)
(* What the two kinds of client connection of shrpx share: Downstream      *)
(* (shrpx_downstream.cc), one request and its response, and                *)
(* DownstreamConnection (shrpx_downstream_connection.cc), a connection to  *)
(* the backend, which ClientHandler (shrpx_client_handler.cc) keeps in a   *)
(* pool between requests.  The operators take and give the state w of one  *)
(* client connection: w.up, w.ds (Downstreams by stream id), w.conn        *)
(* (backend connections).  Running out of memory is not modelled.          *)
(* A definition marked `mutant' is a plausible bug in the one after it.    *)
(***************************************************************************)
EXTENDS Integers, Sequences, SequencesExt, FiniteSets, FiniteSetsExt

CONSTANTS
  Conns,     \* bound: backend connections one client may have had, 1..n
  ConnFull,  \* DOWNSTREAM_OUTPUT_UPPER_THRES, in writes
  MaxBody    \* bound: body parts of a response

ASSUME ShrpxAssumption ==
  IsFiniteSet(Conns) /\ Conns = 1..Cardinality(Conns) /\ 1 \in Conns /\ ConnFull \in Nat \ {0}

NullObj == [none |-> TRUE]
NoConn == 0

RequestStates == {"INITIAL", "HEADER_COMPLETE", "MSG_COMPLETE", "STREAM_CLOSED", "CONNECT_FAIL"}
ResponseStates == {"INITIAL", "HEADER_COMPLETE", "MSG_COMPLETE"}

Reasons == {"NO_BUFFER", "MSG_BLOCK"}

\* rd is ioctrl_.rdbits_; body the response octets not given to the session yet;
\* window is recv_window_size_; connect: the method is CONNECT; tunnel is
\* tunnel_established().
DownstreamType ==
  [req : RequestStates, res : ResponseStates, dconn : {NoConn} \cup Conns, chunked : BOOLEAN,
   req_close : BOOLEAN, res_close : BOOLEAN, connect : BOOLEAN, tunnel : BOOLEAN,
   rd : SUBSET Reasons, body : Nat, window : Nat]

\* Downstream::Downstream
NewDownstream ==
  [req |-> "INITIAL", res |-> "INITIAL", dconn |-> NoConn, chunked |-> FALSE,
   req_close |-> FALSE, res_close |-> FALSE, connect |-> FALSE, tunnel |-> FALSE, rd |-> {},
   body |-> 0, window |-> 0]

(* A backend connection.  st: none (no such object), busy (attached), idle  *)
(* (pooled) or lost (no pointer to it is left).  on, wr: EV_READ, EV_WRITE. *)
(* out: what its output buffer holds.  The rest is the backend's side: open *)
(* (it has not got the end of a request), mixed (it got a new request       *)
(* before that end), resp (none, sent, wait: it may answer, body), got      *)
(* (body parts of this response sent so far).                               *)
ConnType(ids) ==
  [st : {"none", "busy", "idle", "lost"}, ds : ids \cup {0}, on : BOOLEAN, wr : BOOLEAN, out : Nat,
   open : BOOLEAN, mixed : BOOLEAN, resp : {"none", "sent", "wait", "body", "bad"}, got : Nat]

\* DownstreamConnection::DownstreamConnection
NewConn == [st |-> "none", ds |-> 0, on |-> FALSE, wr |-> FALSE, out |-> 0, open |-> FALSE,
            mixed |-> FALSE, resp |-> "none", got |-> 0]

Exists(w, id) == w.ds[id] # NullObj
Conn(w, id) == w.conn[w.ds[id].dconn]

\* What the header fields of a request and of a response set: chunked_request_,
\* request_connection_close_ and response_connection_close_.
RequestFields(w, id, t) ==
  [w EXCEPT !.ds[id].req_close = t.close, !.ds[id].chunked = t.chunked]
ResponseFields(w, id, t) ==
  [w EXCEPT !.ds[id].res = "HEADER_COMPLETE", !.ds[id].res_close = t.close]

\* IOControl::pause_read and resume_read of a Downstream; resuming turns
\* EV_READ of the backend connection, if there is one, on.
PauseRead(w, id, reason) ==
  [w EXCEPT !.ds[id].rd = @ \cup {reason},
            !.conn = IF w.ds[id].dconn = NoConn THEN @
                     ELSE [@ EXCEPT ![w.ds[id].dconn].on = FALSE]]

ResumeRead(w, id, reason) ==
  LET rd == w.ds[id].rd \ {reason}
  IN  [w EXCEPT !.ds[id].rd = rd,
                !.conn = IF rd # {} \/ w.ds[id].dconn = NoConn THEN @
                         ELSE [@ EXCEPT ![w.ds[id].dconn].on = TRUE]]

\* ~DownstreamConnection
DeleteConn(w, c) ==
  [w EXCEPT !.conn[c] = NewConn,
            !.ds = IF w.conn[c].st = "busy" /\ w.ds[w.conn[c].ds] # NullObj
                   THEN [@ EXCEPT ![w.conn[c].ds].dconn = NoConn] ELSE @]

\* ~Downstream, with the removal of the pointer to it.
DeleteDownstream(w, id) ==
  LET c == w.ds[id].dconn
      v == IF c = NoConn THEN w ELSE DeleteConn(w, c)
  IN  [v EXCEPT !.ds[id] = NullObj]

Pool(w) == {c \in Conns : w.conn[c].st = "idle"}

\* ClientHandler::get_downstream_connection: the connection and whether it is
\* new.  The pool is ordered by address.
GetDownstreamConnection(w) ==
  IF Pool(w) # {} THEN [c |-> Min(Pool(w)), new |-> FALSE]
  ELSE [c |-> Min({c \in Conns : w.conn[c].st = "none"}), new |-> TRUE]

\* DownstreamConnection::attach_downstream, when it connects.
AttachDownstream(w, id, c) ==
  [w EXCEPT !.conn[c] = [@ EXCEPT !.st = "busy", !.ds = id, !.on = TRUE,
                                  !.wr = w.conn[c].st = "none" \/ w.conn[c].wr],
            !.ds[id].dconn = c]

\* Mutant: the request keeps its pointer to the pooled connection.
DetachOneSide(w, id) ==
  [w EXCEPT !.conn[w.ds[id].dconn] = [@ EXCEPT !.st = "idle", !.ds = 0, !.on = TRUE]]

\* DownstreamConnection::detach_downstream
DetachDownstream(w, id) ==
  [w EXCEPT !.conn[w.ds[id].dconn] = [@ EXCEPT !.st = "idle", !.ds = 0, !.on = TRUE],
            !.ds[id].dconn = NoConn]

\* Downstream::push_request_headers
PushRequestHeaders(w, id) ==
  LET k == Conn(w, id)
  IN  [w EXCEPT !.conn[w.ds[id].dconn] =
         [k EXCEPT !.out = k.out + 1, !.mixed = k.mixed \/ k.open, !.open = TRUE,
                   !.resp = "sent", !.got = 0]]

\* Downstream::push_upload_data_chunk: what it adds and what it returns, which
\* is not zero for a chunked request.
PushUpload(w, id) ==
  IF w.ds[id].dconn = NoConn THEN w ELSE [w EXCEPT !.conn[w.ds[id].dconn].out = @ + 1]
PushUploadFails(w, id) == w.ds[id].dconn # NoConn /\ w.ds[id].chunked

\* The request is complete: set_request_state(MSG_COMPLETE).
RequestComplete(w, id) ==
  [w EXCEPT !.ds[id].req = "MSG_COMPLETE",
            !.conn = IF w.ds[id].dconn = NoConn THEN @
                     ELSE [@ EXCEPT ![w.ds[id].dconn].open = FALSE]]

OutputBufferFull(w, id) == w.ds[id].dconn # NoConn /\ Conn(w, id).out >= ConnFull

\* idle_eventcb of a pooled connection.
IdleEvent(w, c) == DeleteConn(w, c)

\* ~ClientHandler: the upstream with its Downstreams and the pool are deleted.
DeleteHandler(w) ==
  [w EXCEPT !.up = "gone",
            !.conn = [c \in Conns |-> IF @[c].st = "lost" THEN @[c] ELSE NewConn],
            !.ds = [id \in DOMAIN @ |-> NullObj]]

\* The backend, as far as the proxy's writes reach it: what may come next.
Flush(w, c) == [w EXCEPT !.conn[c].out = 0,
                         !.conn[c].resp = IF @ = "sent" THEN "wait" ELSE @]

\* What the backend may send next; after octets that do not parse, no others do.
Answers(w, c) ==
  LET hd == {[k |-> "hd", close |-> b] : b \in BOOLEAN}
      more(k) == IF w.conn[c].got < MaxBody THEN {[k |-> k]} ELSE {}
  IN  CASE w.conn[c].resp = "wait" -> hd \cup {[k |-> "bad"]}
        [] w.conn[c].resp = "body" -> more("bd") \cup {[k |-> "end"], [k |-> "bad"]}
        [] w.conn[c].resp = "bad"  -> more("bad")
        [] OTHER -> {}

Answered(w, c, t) ==
  [w EXCEPT !.conn[c].resp = CASE t.k = "hd" -> "body" [] t.k = "end" -> "none"
                                  [] t.k = "bad" -> "bad" [] OTHER -> @,
            !.conn[c].got = IF t.k \in {"bd", "bad"} THEN @ + 1 ELSE @]

\* What the events of a bufferevent need and turn off.
Events == {"eof", "error", "timeout"}
EventSides == {"read", "write"}
CanEvent(w, c, e, side) ==
  IF side = "read" THEN w.conn[c].on ELSE e # "eof" /\ w.conn[c].wr /\ w.conn[c].out > 0
AfterEvent(w, c, side) ==
  IF side = "read" THEN [w EXCEPT !.conn[c].on = FALSE] ELSE [w EXCEPT !.conn[c].wr = FALSE]

\* Each object has the pointers to it that its state says.
PointersAgree(w) ==
  /\ \A c \in Conns : w.conn[c].st = "busy" => /\ Exists(w, w.conn[c].ds)
                                               /\ w.ds[w.conn[c].ds].dconn = c
  /\ \A id \in DOMAIN w.ds : Exists(w, id) /\ w.ds[id].dconn # NoConn =>
       Conn(w, id).st = "busy" /\ Conn(w, id).ds = id
=============================================================================
