----------------------------- MODULE SpdyServer ------------------------------
(***************************************************************************)
(* SpdyServer.cc, the server behind spdyd: one thread, an event loop over  *)
(* handlers (a listener, TLS handshakes, SPDY sessions), files that are    *)
(* sent as responses, and files that are pushed with them.  What matters   *)
(* is who owns a file descriptor: numbers are reused, lowest first, and    *)
(* close() takes a number.  A client asks once on its connection; the      *)
(* library is modelled as far as the order of frames and the life of       *)
(* streams go.  A definition marked `mutant' is a plausible bug in the one *)
(* after it.                                                               *)
(***************************************************************************)
EXTENDS Integers, Sequences, SequencesExt, FiniteSets, FiniteSetsExt

CONSTANTS
  Fds,       \* bound: the descriptors the process may have, 1..n
  Peers,     \* bound: clients that connect, 1..n
  MaxPush,   \* bound: files that belong to a page
  MaxParts,  \* DATA frames a file takes
  Visits,    \* what may happen: asks, client -> requests (kind: file, status for
             \* 400 or 404, or mute; pushes; pri; fin: all in one frame), and the
             \* rare faults to expect (blocks, hup, nostat)
  Writes     \* frames the socket takes before it would block, one of these

WebRequest == [kind : {"mute", "status", "file"}, pushes : 0..MaxPush, pri : Nat, fin : BOOLEAN]

ASSUME ServerAssumption ==
  /\ Fds \subseteq Nat \ {0} /\ 1 \in Fds /\ Peers \subseteq Nat
  /\ MaxPush \in Nat /\ MaxParts \in Nat /\ Writes \subseteq Nat
  /\ Visits \subseteq [asks : [Peers -> SUBSET WebRequest], faults : SUBSET {"blocks", "hup", "nostat"}]

VARIABLE sv

\* Descriptors are open on nothing, the listening socket, the socket of a client
\* or the file of a stream; stream 0 is the request, the others are pushed.
Free == <<"free", 0, 0>>
ListenSocket == <<"listen", 0, 0>>
Socket(c) == <<"sock", c, 0>>
File(c, s) == <<"file", c, s>>

NoHandler == <<"none", 0>>
ListenHd == <<"listen", 0>>
AcceptHd(c) == <<"accept", c>>
SpdyHd(c) == <<"spdy", c>>

Ids0 == 0..MaxPush
NoFrame == [k |-> "none", s |-> 0]

\* A frame of the client: syn, fin, rst or goaway.
Input(k, fin, s) == [k |-> k, fin |-> fin, s |-> s]
NoInput == Input("none", FALSE, 0)

PushPri == 3

\* st: none, queued (SYN_STREAM of a push), opening, opened, closing or closed.
\* src, left: descriptor of the data provider and parts it still has to give.
NewServerStream == [st |-> "none", rfin |-> FALSE, lfin |-> FALSE, src |-> 0, left |-> 0, begun |-> FALSE]

StreamType ==
  [st : {"none", "queued", "opening", "opened", "closing", "closed"}, rfin : BOOLEAN, lfin : BOOLEAN,
   src : {0} \cup Fds, left : Nat, begun : BOOLEAN]
QueuedType == [k : {"syn", "reply", "data", "rst"}, s : Ids0]

(* A connection.  st: none, backlog, up (has a handler), gone.  in: the     *)
(* frame that has arrived; eof: the client has closed.  fail: fail_ of the       *)
(* handshake.  req: descriptor of Request::file, 0 for -1, and -1 when      *)
(* there is no Request.                                                     *)
PeerType ==
  [st : {"none", "backlog", "up", "gone"}, fd : {0} \cup Fds, fail : BOOLEAN,
   in : [k : {"none", "syn", "fin", "rst", "goaway"}, fin : BOOLEAN, s : Ids0],
   eof : BOOLEAN, sent : {"none", "syn", "fin"}, ask : WebRequest, req : {-1, 0} \cup Fds,
   str : [Ids0 -> StreamType], q : Seq(QueuedType),
   aob : {NoFrame} \cup [k : {"syn", "reply", "data", "fin", "rst"}, s : Ids0], goaway : BOOLEAN]

\* SpdyEventHandler::SpdyEventHandler and SSLAcceptEventHandler.
NewPeer ==
  [st |-> "none", fd |-> 0, fail |-> FALSE, in |-> NoInput, eof |-> FALSE,
   sent |-> "none", ask |-> [kind |-> "mute", pushes |-> 0, pri |-> 0, fin |-> TRUE], req |-> -1,
   str |-> [s \in Ids0 |-> NewServerStream], q |-> <<>>, aob |-> NoFrame, goaway |-> FALSE]

(* fds, reg: the descriptors and the handlers epoll has for them.  hds: the *)
(* handlers that exist.  batch: events of this round still to be looked at. *)
(* dels: del_list.  History: late, a write blocked or failed after the end  *)
(* of a file was read and before its stream was over; odd, the rare         *)
(* failures that were met; abort, what went wrong for good: another's       *)
(* descriptor was closed or read, or an event was for a handler that is     *)
(* gone.                                                                    *)
ServerInit ==
  \E visit \in Visits :
    sv = [visit |-> visit, fds |-> [f \in Fds |-> IF f = 1 THEN ListenSocket ELSE Free],
          reg |-> [f \in Fds |-> IF f = 1 THEN ListenHd ELSE NoHandler],
          hds |-> {ListenHd}, batch |-> <<>>, dels |-> <<>>, con |-> [c \in Peers |-> NewPeer],
          late |-> FALSE, odd |-> {}, abort |-> "none"]

FreeFds(w) == {f \in Fds : w.fds[f] = Free}
Open(w, o) == [w EXCEPT !.fds[Min(FreeFds(w))] = o]

\* Sessions::add_poll or mod_poll, and add_handler.
AddHandler(w, f, h) == [w EXCEPT !.reg[f] = h, !.hds = @ \cup {h}]

\* close(f) by the owner of what o was; the kernel drops f from epoll.
CloseFd(w, f, o) ==
  LET v == [w EXCEPT !.fds[f] = Free, !.reg[f] = NoHandler]
  IN  IF w.fds[f] = Free THEN w
      ELSE IF w.fds[f] = o THEN v ELSE [v EXCEPT !.abort = "wrong_close"]

\* Mutant: a Request leaves its file to the data provider.
DeleteRequestOnly(w, c) == [w EXCEPT !.con[c].req = -1]

\* ~Request
DeleteRequest(w, c) ==
  LET v == IF w.con[c].req > 0 THEN CloseFd(w, w.con[c].req, File(c, 0)) ELSE w
  IN  [v EXCEPT !.con[c].req = -1]
-----------------------------------------------------------------------------
(* The session: streams, the queue and the data provider.                  *)

Lives(w, c, s) == w.con[c].str[s].st \in {"opening", "opened", "closing"}
CanSend(w, c, s) == w.con[c].str[s].st = "opened" /\ ~w.con[c].str[s].lfin
Enqueue(w, c, k, s) == [w EXCEPT !.con[c].q = Append(@, [k |-> k, s |-> s])]

\* on_stream_close_callback and remove_stream: pushed streams have no Request.
StreamClosed(w, c, s) ==
  LET v == [w EXCEPT !.con[c].str[s] = [NewServerStream EXCEPT !.st = "closed", !.begun = w.con[c].str[s].begun]]
  IN  IF ~Lives(w, c, s) THEN w ELSE IF s = 0 THEN DeleteRequest(v, c) ELSE v

ClosedIfShut(w, c, s) ==
  IF w.con[c].str[s].rfin /\ w.con[c].str[s].lfin THEN StreamClosed(w, c, s) ELSE w

ResetStream(w, c, s) ==
  Enqueue(IF Lives(w, c, s) THEN [w EXCEPT !.con[c].str[s].st = "closing"] ELSE w, c, "rst", s)

\* file_read_callback: a part, the end with close(), or an error, which resets
\* the stream.
FileRead(w, c, s) ==
  LET x == w.con[c].str[s]
  IN  IF w.fds[x.src] = Free THEN ResetStream(w, c, s)
      ELSE IF w.fds[x.src] # File(c, s) THEN [w EXCEPT !.abort = "wrong_read"]
      ELSE IF x.left > 0
      THEN [w EXCEPT !.con[c].str[s].left = @ - 1, !.con[c].aob = [k |-> "data", s |-> s]]
      ELSE [CloseFd(w, x.src, File(c, s)) EXCEPT !.con[c].aob = [k |-> "fin", s |-> s]]

PriOf(w, c, i) == IF i.s = 0 THEN w.con[c].ask.pri ELSE PushPri

\* Mutant: the queues are merged by priority.
NextFrameByPri(w, c) ==
  LET q == w.con[c].q
  IN  Min({i \in 1..Len(q) : \A j \in 1..Len(q) : PriOf(w, c, q[i]) <= PriOf(w, c, q[j])})

\* spdylay_session_pop_next_ob_item: SYN_STREAMs first, then by priority.
NextFrame(w, c) ==
  LET q == w.con[c].q
      syns == {i \in 1..Len(q) : q[i].k = "syn"}
  IN  IF syns # {} THEN Min(syns)
      ELSE Min({i \in 1..Len(q) : \A j \in 1..Len(q) : PriOf(w, c, q[i]) <= PriOf(w, c, q[j])})

\* spdylay_session_prep_frame; a push whose page is gone is dropped.
PrepareFrame(w, c, i) ==
  LET now == [w EXCEPT !.con[c].aob = i]
      x == w.con[c].str[i.s]
  IN  CASE i.k = "syn"   -> IF ~w.con[c].goaway /\ Lives(w, c, 0)
                            THEN [now EXCEPT !.con[c].str[i.s].st = "opening"]
                            ELSE [w EXCEPT !.con[c].str[i.s].st = "closed"]
        [] i.k = "reply" -> IF x.st = "opening" THEN now ELSE w
        [] i.k = "data"  -> IF CanSend(w, c, i.s) THEN FileRead(w, c, i.s) ELSE w
        [] i.k = "rst"   -> now

\* spdylay_session_after_frame_sent
FrameSent(w, c, i) ==
  LET x == w.con[c].str[i.s]
      v == [w EXCEPT !.con[c].str[i.s].begun = TRUE]
      opened == [w EXCEPT !.con[c].str[i.s].st = IF Lives(w, c, i.s) THEN "opened" ELSE @]
      over == [opened EXCEPT !.con[c].str[i.s].lfin = TRUE]
      first == \A j \in 1..Len(w.con[c].q) : PriOf(w, c, i) <= PriOf(w, c, w.con[c].q[j])
  IN  CASE i.k \in {"syn", "reply"} ->
             IF x.src > 0 THEN Enqueue(opened, c, "data", i.s) ELSE ClosedIfShut(over, c, i.s)
        [] i.k = "data" -> IF ~CanSend(w, c, i.s) THEN v ELSE IF first THEN FileRead(v, c, i.s)
                           ELSE [v EXCEPT !.con[c].q = <<i>> \o @]
        [] i.k = "fin"  -> IF Lives(w, c, i.s)
                           THEN ClosedIfShut([v EXCEPT !.con[c].str[i.s].lfin = TRUE], c, i.s) ELSE w
        [] i.k = "rst"  -> StreamClosed(w, c, i.s)

\* A turn of the loop of spdylay_session_send, which ends when a write would block
\* or fails or nothing is left; v.n frames can be written.
SendTurn(v, c) ==
  LET w == v.w
      x == w.con[c]
      next == NextFrame(w, c)
  IN  IF w.abort # "none" \/ (x.aob # NoFrame /\ v.n = 0) \/ (x.aob = NoFrame /\ x.q = <<>>) THEN v
      ELSE IF x.aob # NoFrame
      THEN [w |-> FrameSent([w EXCEPT !.con[c].aob = NoFrame], c, x.aob), n |-> v.n - 1]
      ELSE [w |-> PrepareFrame([w EXCEPT !.con[c].q = RemoveAt(@, next)], c, x.q[next]), n |-> v.n]

\* spdylay_session_send until the socket has taken n frames.  A frame written may
\* queue another, which takes two turns at most if it turns into a RST_STREAM.
ServerSend(w, c, n) ==
  LET turns == 3 * n + 2 * Len(w.con[c].q)
      run[i \in 0..turns] == IF i = 0 THEN [w |-> w, n |-> n] ELSE SendTurn(run[i - 1], c)
      u == run[turns].w
  IN  [u EXCEPT !.late = @ \/ (u.abort = "none" /\ u.con[c].aob.k = "fin")]
-----------------------------------------------------------------------------
(* Responses.  env: whether the page can be opened, how many of the files   *)
(* that belong to it can be, and how the next one fails.                    *)

Envs(w, c) ==
  IF w.con[c].in.k \in {"syn", "fin"}
  THEN [main : BOOLEAN, good : 0..w.con[c].ask.pushes,
        how : {"missing"} \cup ({"nostat"} \cap w.visit.faults)]
  ELSE {[main |-> TRUE, good |-> 0, how |-> "missing"]}

\* submit_file_response and submit_response
SubmitResponse(w, c) == Enqueue(w, c, "reply", 0)

\* prepare_status_response: the page is written into a pipe, whose writing end
\* is closed at once.
StatusResponse(w, c) ==
  LET v == Open(w, File(c, 0))
      f == Min(FreeFds(w))
  IN  SubmitResponse(IF Cardinality(FreeFds(w)) < 2 THEN w
                     ELSE [v EXCEPT !.con[c].req = f, !.con[c].str[0].src = f,
                                    !.con[c].str[0].left = 1], c)

\* One pushed file: spdylay_submit_server_push.
PushFile(w, c, s) ==
  LET f == Min(FreeFds(w))
      v == [Open(w, File(c, s)) EXCEPT
              !.con[c].str[s] = [@ EXCEPT !.st = "queued", !.rfin = TRUE, !.src = f, !.left = MaxParts]]
  IN  Enqueue(v, c, "syn", s)

\* The loop over the associated content stops at the first file that fails; when
\* fstat() fails it closes the wrong descriptor.
PushFiles(w, c, env) ==
  LET n == w.con[c].ask.pushes
      run[s \in 0..n] == IF s = 0 THEN w
                         ELSE IF FreeFds(run[s - 1]) = {} \/ s > env.good THEN run[s - 1]
                         ELSE PushFile(run[s - 1], c, s)
      v == run[n]
  IN  IF n > env.good /\ env.how = "nostat" /\ FreeFds(v) # {}
      THEN [CloseFd(Open(v, File(c, env.good + 1)), v.con[c].req, File(c, 0))
              EXCEPT !.odd = @ \cup {"nostat"}]
      ELSE v

\* prepare_response
PrepareResponse(w, c, env) ==
  LET f == Min(FreeFds(w))
      v == [Open(w, File(c, 0)) EXCEPT !.con[c].req = f, !.con[c].str[0].src = f,
                                       !.con[c].str[0].left = MaxParts]
  IN  CASE w.con[c].ask.kind = "mute"   -> w
        [] w.con[c].ask.kind = "status" -> StatusResponse(w, c)
        [] w.con[c].ask.kind = "file"   -> IF ~env.main \/ FreeFds(w) = {} THEN StatusResponse(w, c)
                                           ELSE PushFiles(SubmitResponse(v, c), c, env)

\* hd_on_ctrl_recv_callback, htdocs_on_request_recv_callback and what the session
\* does with other frames.
ReceiveFrame(w, c, f, env) ==
  LET syn == [w EXCEPT !.con[c].str[0] = [@ EXCEPT !.st = "opening", !.rfin = f.fin], !.con[c].req = 0]
      fin == [w EXCEPT !.con[c].str[0].rfin = TRUE]
  IN  CASE f.k = "syn"    -> IF f.fin THEN PrepareResponse(syn, c, env) ELSE syn
        [] f.k = "fin"    -> IF Lives(w, c, 0) THEN PrepareResponse(fin, c, env) ELSE w
        [] f.k = "rst"    -> StreamClosed(w, c, f.s)
        [] f.k = "goaway" -> [w EXCEPT !.con[c].goaway = TRUE]
        [] f.k = "none"   -> w
-----------------------------------------------------------------------------
(* Handlers.  Each execute gives the state and whether the handler is to be *)
(* deleted after this round.                                                *)

\* ListenEventHandler::execute and add_next_handler.
Accepts(w, how) ==
  LET back == {c \in Peers : w.con[c].st = "backlog"}
      c == Min(back)
      f == Min(FreeFds(w))
      up == [AddHandler(Open(w, Socket(c)), f, AcceptHd(c)) EXCEPT !.con[c].st = "up", !.con[c].fd = f]
      shut == [w EXCEPT !.con[c].st = "gone"]
  IN  IF back = {} \/ FreeFds(w) = {} THEN [w |-> w, del |-> FALSE]
      ELSE CASE how = "ok" -> [w |-> up, del |-> FALSE]
             [] how = "fails" -> [w |-> shut, del |-> FALSE]
             [] how = "blocks" -> [w |-> [shut EXCEPT !.odd = @ \cup {"blocks"}], del |-> TRUE]

\* ~SpdyEventHandler
DeleteSpdy(w, c) ==
  LET v == DeleteRequest(w, c)
  IN  [CloseFd(v, w.con[c].fd, Socket(c)) EXCEPT !.hds = @ \ {SpdyHd(c)},
                                                 !.con[c] = [NewPeer EXCEPT !.st = "gone"]]

\* SSLAcceptEventHandler::execute and add_next_handler: the handshake goes on, or
\* ends with a version of SPDY and a handler for it, or fails.
Handshakes(w, c, how) ==
  CASE how = "again" -> [w |-> w, del |-> FALSE]
    [] how = "ok"    -> [w |-> AddHandler(w, w.con[c].fd, SpdyHd(c)), del |-> TRUE]
    [] how = "fails" -> [w |-> [w EXCEPT !.con[c].fail = TRUE], del |-> TRUE]
    [] how = "nopoll" -> [w |-> DeleteSpdy(w, c), del |-> TRUE]

\* Mutant: its socket is left to the one who takes over.
DeleteAcceptQuietly(w, c) == [w EXCEPT !.hds = @ \ {AcceptHd(c)}]

\* ~SSLAcceptEventHandler
DeleteAccept(w, c) ==
  LET v == [w EXCEPT !.hds = @ \ {AcceptHd(c)}]
  IN  IF w.con[c].fail
      THEN [CloseFd(v, w.con[c].fd, Socket(c)) EXCEPT !.con[c] = [NewPeer EXCEPT !.st = "gone"]]
      ELSE v

WantRead(w, c) == ~w.con[c].goaway \/ \E s \in Ids0 : Lives(w, c, s)
WantWrite(w, c) == (w.con[c].q # <<>> \/ w.con[c].aob # NoFrame) /\ WantRead(w, c)

\* SpdyEventHandler::execute: recv, then send; the end of input is an error, and so
\* is a write that hd_send_callback finds to fail and not to block.  The frame that
\* was not written stays, and the handler until the round is over.
Executes(w, c, env, n, fails) ==
  LET v == ReceiveFrame([w EXCEPT !.con[c].in = NoInput], c, w.con[c].in, env)
      u == ServerSend(v, c, n)
      error == fails /\ u.con[c].aob # NoFrame
  IN  IF w.con[c].eof THEN [w |-> v, del |-> TRUE]
      ELSE [w |-> u, del |-> error \/ (~WantRead(u, c) /\ ~WantWrite(u, c))]

\* on_close
DeleteHd(w, h) ==
  CASE h[1] = "listen" -> [w EXCEPT !.hds = @ \ {h}]
    [] h[1] = "accept" -> DeleteAccept(w, h[2])
    [] h[1] = "spdy"   -> DeleteSpdy(w, h[2])
-----------------------------------------------------------------------------
(* The loop of SpdyServer::run, and clients.                               *)

Works(w) == w.abort = "none"

\* Clients act between rounds: what arrives in a round is read in it by a handler
\* still to be called, as if it had come before, or in the next one.
Between(w) == Works(w) /\ w.batch = <<>> /\ w.dels = <<>>

\* An event that epoll may report for the handler h; "hup" stands for EPOLLERR and
\* EPOLLHUP without any other event.
Ready(w, h) ==
  CASE h[1] = "listen" -> IF \E c \in Peers : w.con[c].st = "backlog" THEN {"io"} ELSE {}
    [] h[1] = "accept" -> {"io"} \cup ({"hup"} \cap w.visit.faults)
    [] h[1] = "spdy"   ->
         (IF w.con[h[2]].in # NoInput \/ w.con[h[2]].eof \/ WantWrite(w, h[2]) THEN {"io"} ELSE {})
         \cup (IF w.con[h[2]].eof THEN {"hup"} ELSE {})

\* EventPoll::poll: any of the events that are ready, in any order.
Poll ==
  /\ Between(sv)
  /\ LET events == UNION {{<<sv.reg[f], e>> : e \in Ready(sv, sv.reg[f])} :
                            f \in {g \in Fds : sv.reg[g] # NoHandler}}
     IN  \E b \in SeqOf(events, Cardinality(Fds)) :
           /\ b # <<>> /\ \A i, j \in 1..Len(b) : b[i][1] = b[j][1] => i = j
           /\ sv' = [sv EXCEPT !.batch = b]

\* One event of the round.
Dispatch ==
  /\ Works(sv) /\ sv.batch # <<>>
  /\ LET h == Head(sv.batch)[1]
         w == [sv EXCEPT !.batch = Tail(@)]
         after(r) == IF r.del THEN [r.w EXCEPT !.dels = Append(@, h)] ELSE r.w
     IN  IF h \notin sv.hds THEN sv' = [w EXCEPT !.abort = "dead_handler"]
         ELSE IF Head(sv.batch)[2] = "hup"
         THEN sv' = after([w |-> IF h[1] = "accept" THEN [w EXCEPT !.odd = @ \cup {"hup"}] ELSE w,
                           del |-> TRUE])
         ELSE \/ /\ h[1] = "listen"
                 /\ \E how \in {"ok", "fails"} \cup ({"blocks"} \cap w.visit.faults) : sv' = after(Accepts(w, how))
              \/ /\ h[1] = "accept"
                 /\ \E how \in {"again", "ok", "fails", "nopoll"} :
                      sv' = after(Handshakes(w, h[2], how))
              \/ /\ h[1] = "spdy"
                 /\ \E env \in Envs(w, h[2]), n \in Writes, fails \in BOOLEAN :
                      sv' = after(Executes(w, h[2], env, n, fails))

DeleteTurn(w) ==
  IF w.dels = <<>> THEN w ELSE DeleteHd([w EXCEPT !.dels = Tail(@)], Head(w.dels))

\* After the round the handlers of del_list are deleted.
DeleteMarked ==
  /\ Works(sv) /\ sv.batch = <<>> /\ sv.dels # <<>>
  /\ LET run[i \in 0..Len(sv.dels)] == IF i = 0 THEN sv ELSE DeleteTurn(run[i - 1])
     IN  sv' = run[Len(sv.dels)]

PeerConnects(c) ==
  /\ Between(sv) /\ sv.con[c].st = "none" /\ \A b \in Peers : b < c => sv.con[b].st # "none"
  /\ sv' = [sv EXCEPT !.con[c].st = "backlog"]

\* The client asks, finishes its request, resets a stream it knows of or says GOAWAY.
PeerSends(c) ==
  /\ Between(sv) /\ SpdyHd(c) \in sv.hds /\ ~sv.con[c].eof /\ sv.con[c].in = NoInput
  /\ \/ /\ sv.con[c].sent = "none"
        /\ \E a \in sv.visit.asks[c] :
             sv' = [sv EXCEPT !.con[c].ask = a, !.con[c].sent = IF a.fin THEN "fin" ELSE "syn",
                              !.con[c].in = Input("syn", a.fin, 0)]
     \/ /\ sv.con[c].sent = "syn"
        /\ sv' = [sv EXCEPT !.con[c].sent = "fin", !.con[c].in = Input("fin", FALSE, 0)]
     \/ \E s \in Ids0 :
          /\ sv.con[c].str[s].st \in IF s = 0 THEN {"opening", "opened"} ELSE {"opened"}
          /\ sv' = [sv EXCEPT !.con[c].sent = IF s = 0 THEN "fin" ELSE @,
                              !.con[c].in = Input("rst", FALSE, s)]
     \/ /\ ~sv.con[c].goaway /\ sv.con[c].sent # "none"
        /\ sv' = [sv EXCEPT !.con[c].sent = "fin", !.con[c].in = Input("goaway", FALSE, 0)]

PeerCloses(c) ==
  /\ Between(sv) /\ SpdyHd(c) \in sv.hds /\ ~sv.con[c].eof
  /\ sv' = [sv EXCEPT !.con[c].eof = TRUE]

ServerNext ==
  \/ Poll \/ Dispatch \/ DeleteMarked
  \/ \E c \in Peers : PeerConnects(c) \/ PeerSends(c) \/ PeerCloses(c)
-----------------------------------------------------------------------------
(* Correctness.                                                            *)

\* Type invariant.
ServerTypeOK ==
  LET handlers == {ListenHd} \cup {AcceptHd(c) : c \in Peers} \cup {SpdyHd(c) : c \in Peers}
  IN  /\ sv.hds \subseteq handlers /\ Range(sv.dels) \subseteq handlers
      /\ sv.reg \in [Fds -> handlers \cup {NoHandler}]
      /\ sv.con \in [Peers -> PeerType]

\* None of three rare failures was met, after which the server goes on with a handler
\* deleted and its descriptor open, or the wrong descriptor closed: the listener is
\* given up because a socket it accepted cannot be made non-blocking, a handshake gets
\* EPOLLERR or EPOLLHUP alone, fstat() fails for a pushed file.
Ordinary == sv.odd = {}

\* Between rounds every client that is connected has one handler, a socket of its
\* own and a place in epoll, through handshake, hand-over and deletion; no socket is
\* left open without a handler, and epoll never reports one that was deleted.  It is
\* so until the ~Request of another client closes a socket as its file (Works), for
\* which FilesClosedOnce says what must have come before.
SocketOwned ==
  /\ ServerTypeOK
  /\ Ordinary => sv.abort # "dead_handler"
  /\ Ordinary /\ Works(sv) /\ sv.batch = <<>> /\ sv.dels = <<>> => \A c \in Peers :
       LET mine == {AcceptHd(c), SpdyHd(c)} \cap sv.hds
           f == sv.con[c].fd
       IN  /\ IF sv.con[c].st = "up"
              THEN Cardinality(mine) = 1 /\ sv.fds[f] = Socket(c) /\ sv.reg[f] \in mine
              ELSE mine = {} /\ Socket(c) \notin {sv.fds[g] : g \in Fds}
           /\ Cardinality({g \in Fds : sv.fds[g] = Socket(c)}) <= 1

\* A descriptor is closed twice on every complete response (file_read_callback and
\* ~Request), which does no harm as long as the number is not reused in between:
\* only when a write blocks or fails between the two (late) can it be another's, and
\* then it may be.  Until one does, a Request exists as long as its stream, and the
\* file of a request is open only as long as the Request that closes it, whichever
\* way the stream or the client ends.
FilesClosedOnce ==
  Ordinary /\ ~sv.late =>
    /\ Works(sv)
    /\ \A c \in Peers :
         /\ SpdyHd(c) \in sv.hds =>
              (sv.con[c].req >= 0 <=> sv.con[c].str[0].st \in {"opening", "opened", "closing"})
         /\ \A f \in Fds : sv.fds[f] = File(c, 0) => sv.con[c].req = f

\* All files that belong to a page are announced (SYN_STREAM) before any of its
\* content is sent and before its stream is closed, whatever its priority.
PushBeforeData ==
  \A c \in Peers : SpdyHd(c) \in sv.hds /\ sv.con[c].str[0].begun =>
    \A s \in 1..MaxPush : sv.con[c].str[s].st # "queued"
=============================================================================
