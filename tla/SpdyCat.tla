------------------------------- MODULE SpdyCat -------------------------------
(***************************************************************************)
(* The command line client (src/spdycat.cc): run() collects the URIs of a  *)
(* host, communicate() asks for them over one connection, and the links    *)
(* found in what comes back are asked for too.  When every request has     *)
(* completed the client sends GOAWAY, and leaves once no stream is open.   *)
(* The session is reduced to its queue of SYN_STREAMs, its open streams    *)
(* and its GOAWAY flags; SYN_STREAMs go first (pop_next_ob_item).          *)
(* A definition marked `mutant' is a plausible bug in the one after it.    *)
(***************************************************************************)
EXTENDS Integers, Sequences, FiniteSets, SequencesExt

CONSTANTS
  Trips,      \* calls of spdycat: [uris, cache, links, pushes]
  MaxStreams  \* bound: streams of one connection

\* uris    what the command line names, a sequence of [host, path]
\* cache   -c: ClientCache is enabled
\* links   path -> the links on that page, in order (-a or -p)
\* pushes  the paths the server may push

VARIABLE cat

CatPaths(c) == DOMAIN c.trip.links
CatRequest(c) == [path : CatPaths(c), level : {0, 1}]

\* Connections, SpdySession and the session under it.  A stream that was
\* answered has a parser, if its page has one; left are the links it will find.
CatType(c) ==
  [trip : {c.trip}, next : 1..(Len(c.trip.uris) + 1), host : {u.host : u \in Range(c.trip.uris)} \cup {""},
   phase : {"parse", "connect", "talk", "left", "done"}, ok : BOOLEAN, failures : Nat,
   reqvec : Seq(CatRequest(c)), complete : Nat, cache : SUBSET CatPaths(c),
   queue : Seq(1..Len(c.reqvec)), streams : Seq(1..Len(c.reqvec)),
   open : SUBSET (1..Len(c.streams)), answered : SUBSET (1..Len(c.streams)),
   left : Seq(Seq(CatPaths(c))), pushed : SUBSET CatPaths(c),
   goaway : SUBSET {"queued", "sent", "received"}, cached : SUBSET (1..Len(c.reqvec))]

\* SpdySession() and a new session: what a connection starts with.  The
\* entries of ClientCache are static and stay.
NewSession(c) ==
  [c EXCEPT !.reqvec = <<>>, !.complete = 0, !.queue = <<>>, !.streams = <<>>,
            !.open = {}, !.answered = {}, !.left = <<>>, !.pushed = {},
            !.goaway = {}, !.cached = {}, !.ok = TRUE]

CatStart(t) ==
  [trip |-> t, next |-> 1, host |-> "", phase |-> "parse", ok |-> TRUE, failures |-> 0,
   reqvec |-> <<>>, complete |-> 0, cache |-> {}, queue |-> <<>>, streams |-> <<>>,
   open |-> {}, answered |-> {}, left |-> <<>>, pushed |-> {}, goaway |-> {}, cached |-> {}]

CatInit == \E t \in Trips : cat = CatStart(t)

\* SpdySession::add_request; path_cache holds the paths of reqvec.
AddRequest(c, path, level) ==
  IF \E r \in Range(c.reqvec) : r.path = path THEN c
  ELSE [c EXCEPT !.reqvec = Append(@, [path |-> path, level |-> level])]

HasFreshCopy(c, path) == c.trip.cache /\ path \in c.cache
CacheAdd(c, path) == IF c.trip.cache THEN [c EXCEPT !.cache = @ \cup {path}] ELSE c

\* Spdylay::submit_request
QueueSyn(c, i) == [c EXCEPT !.queue = Append(@, i)]

\* submit_request.  `cached' notes the requests that were never sent because
\* their path was known.
SubmitRequest(c, i) ==
  LET path == c.reqvec[i].path
  IN  IF HasFreshCopy(c, path)
      THEN IF i \in Range(c.queue) \cup Range(c.streams) THEN c ELSE [c EXCEPT !.cached = @ \cup {i}]
      ELSE CacheAdd(QueueSyn(c, i), path)

\* update_html_parser: each link is added, and then the last request of reqvec
\* is submitted, whether or not it was added for the link.
UpdateHtmlParser(c, links) ==
  FoldLeft(LAMBDA d, l : LET e == AddRequest(d, l, 1) IN SubmitRequest(e, Len(e.reqvec)), c, links)

\* The links that the parser of stream s finds in what comes next.
Found(c, s, n) == IF s \in c.answered THEN SubSeq(c.left[s], 1, n) ELSE <<>>
-----------------------------------------------------------------------------
(* run()                                                                   *)

UriHere(c) == c.trip.uris[c.next]
SameHost(c) == c.next <= Len(c.trip.uris) /\ (UriHere(c).host = c.host \/ c.reqvec = <<>>)

ParseUri ==
  /\ cat.phase = "parse" /\ SameHost(cat)
  /\ cat' = AddRequest([cat EXCEPT !.host = UriHere(cat).host, !.next = @ + 1], UriHere(cat).path, 0)

Communicate ==
  /\ cat.phase = "parse" /\ cat.reqvec # <<>> /\ ~SameHost(cat)
  /\ cat' = [cat EXCEPT !.phase = "connect"]

\* communicate() returned.
NextHost ==
  /\ cat.phase = "left"
  /\ cat' = [NewSession(cat) EXCEPT !.failures = IF cat.ok THEN @ ELSE @ + 1,
                                    !.phase = IF cat.next > Len(cat.trip.uris) THEN "done" ELSE "parse"]
-----------------------------------------------------------------------------
(* communicate()                                                           *)

CatLeave(c, ok) == [c EXCEPT !.phase = "left", !.ok = ok]

\* What nonblock_connect_to and ssl_nonblock_handshake return.
TcpResults == {"connected", "failed", "timed out"}
TlsResults == {"done", "failed", "timed out"}

\* communicate() up to its loop: with a connection all requests are submitted.
CatConnect ==
  /\ cat.phase = "connect"
  /\ \E tcp \in TcpResults, tls \in TlsResults :
       cat' = IF tcp = "connected" /\ tls = "done"
              THEN FoldLeft(SubmitRequest, [cat EXCEPT !.phase = "talk"],
                            [i \in 1..Len(cat.reqvec) |-> i])
              ELSE CatLeave(cat, FALSE)

Talking == cat.phase = "talk"
GoawayDone(c) == c.goaway \cap {"sent", "received"} # {}
NoStreams(c) == c.open = {} /\ c.pushed = {}

\* spdylay_session_send takes the next SYN_STREAM: after GOAWAY it is dropped,
\* else on_ctrl_send_callback2 notes which request the stream is for.
SendRequest ==
  /\ Talking /\ cat.queue # <<>> /\ (GoawayDone(cat) => ~NoStreams(cat))
  /\ GoawayDone(cat) \/ Len(cat.streams) < MaxStreams
  /\ LET i == Head(cat.queue)
         r == cat.reqvec[i]
         c == [cat EXCEPT !.queue = Tail(@)]
     IN  cat' = IF GoawayDone(cat) THEN c
                ELSE [c EXCEPT !.streams = Append(@, i), !.open = @ \cup {Len(cat.streams) + 1},
                               !.left = Append(@, IF r.level = 0 THEN c.trip.links[r.path] ELSE <<>>)]

SendGoaway ==
  /\ Talking /\ cat.queue = <<>> /\ "queued" \in cat.goaway /\ (GoawayDone(cat) => ~NoStreams(cat))
  /\ cat' = [cat EXCEPT !.goaway = (@ \ {"queued"}) \cup {"sent"}]

\* SYN_REPLY: check_response_header makes the parser of a page.
RecvReply(s) ==
  /\ Talking /\ s \in cat.open \ cat.answered
  /\ cat' = [cat EXCEPT !.answered = @ \cup {s}]

\* on_data_chunk_recv_callback with the next n links in the chunk
RecvData(s, n) ==
  /\ Talking /\ s \in cat.open \cap cat.answered /\ n \in 1..Len(cat.left[s])
  /\ cat' = UpdateHtmlParser([cat EXCEPT !.left[s] = SubSeq(@, n + 1, Len(@))], Found(cat, s, n))

\* Mutant: a stream that was reset before it was answered is not counted.
CountCompleteAnswered(c, s) ==
  LET n == c.complete + (IF s \in c.answered THEN 1 ELSE 0)
  IN  [c EXCEPT !.complete = n, !.goaway = IF n = Len(c.reqvec) THEN @ \cup {"queued"} ELSE @]

\* The end of on_stream_close_callback: GOAWAY after the last request.
CountComplete(c, s) ==
  LET n == c.complete + 1
  IN  [c EXCEPT !.complete = n, !.goaway = IF n = Len(c.reqvec) THEN @ \cup {"queued"} ELSE @]

\* on_stream_close_callback: the server finishes the response or resets the
\* stream; the parser gives n more links.  The stream stays in `streams'.
StreamClose(s, n) ==
  /\ Talking /\ s \in cat.open /\ n \in 0..Len(cat.left[s])
  /\ cat' = CountComplete(UpdateHtmlParser([cat EXCEPT !.open = @ \ {s}, !.left[s] = <<>>],
                                           Found(cat, s, n)), s)

\* on_ctrl_recv_callback2, SYN_STREAM: a push.  One that is known is refused, and
\* its stream is closed when RST_STREAM is sent; it is no request's.
RecvPush(path) ==
  /\ Talking /\ cat.open # {} /\ ~GoawayDone(cat)
  /\ path \in cat.trip.pushes \ cat.pushed
  /\ cat' = CacheAdd([cat EXCEPT !.pushed = @ \cup {path}], path)

\* The server has pushed all of it, or the refusal is sent.
PushClose(path) ==
  /\ Talking /\ path \in cat.pushed
  /\ cat' = [cat EXCEPT !.pushed = @ \ {path}]

RecvGoaway ==
  /\ Talking /\ "received" \notin cat.goaway
  /\ cat' = [cat EXCEPT !.goaway = @ \cup {"received"}]

\* The loop of communicate() ends: recv() or send() failed, the peer hung up or
\* the time is over.
CatBreak == Talking /\ cat' = CatLeave(cat, FALSE)

\* Spdylay::finish
CatFinish == Talking /\ GoawayDone(cat) /\ NoStreams(cat) /\ cat' = CatLeave(cat, TRUE)

CatStreams == 1..MaxStreams
CatSends == SendRequest \/ SendGoaway \/ CatFinish
CatRuns == ParseUri \/ Communicate \/ NextHost \/ CatConnect

CatNext ==
  \/ CatRuns \/ CatSends
  \/ \E s \in CatStreams : RecvReply(s) \/ \E n \in 0..2 : RecvData(s, n) \/ StreamClose(s, n)
  \/ \E p \in CatPaths(cat) : RecvPush(p) \/ PushClose(p)
  \/ RecvGoaway \/ CatBreak

\* The loop runs, and the server ends every stream, its own too, in some way.
CatFairness ==
  /\ WF_cat(CatRuns) /\ WF_cat(CatSends)
  /\ \A s \in CatStreams : WF_cat(\E n \in 0..2 : StreamClose(s, n))
  /\ WF_cat(\E p \in CatPaths(cat) : PushClose(p))
-----------------------------------------------------------------------------
\* A request that was refused as known makes spdycat submit another one again.
Twice(c) == Cardinality(Range(c.streams)) # Len(c.streams)

\* Nothing was left undone, unless the server said GOAWAY.
AllFetched(c) ==
  c.ok /\ ~Twice(c) /\ "received" \notin c.goaway =>
    c.complete = Len(c.reqvec) /\ Range(c.streams) = 1..Len(c.reqvec)

\* spdycat leaves a server that ends its streams, whatever links it finds, whatever
\* is pushed and however streams end: the count of completed requests meets the
\* number of requests, which grows meanwhile, and not before every request has had
\* its stream.  Not so when a request was answered from the cache, which nothing
\* counts, and a link found again (Twice), for which another request is submitted a
\* second time, can leave a later one unfetched.
CatFetchesAll ==
  /\ [](cat \in CatType(cat) /\ (cat.phase = "left" => AllFetched(cat)))
  /\ (cat.phase = "talk" ~> (cat.phase = "left" \/ cat.cached # {}))
=============================================================================
