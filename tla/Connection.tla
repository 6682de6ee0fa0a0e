------------------------------ MODULE Connection ------------------------------
(***************************************************************************)
(* Two sessions of SessionState joined by a reliable, ordered byte stream  *)
(* in each direction (the TLS connection the library is used over).  The   *)
(* applications behave: they make the calls of a script, each at most once *)
(* and at any moment, name only streams they were told about, and their    *)
(* data providers deliver a body of BodyLen bytes and then end it.         *)
(***************************************************************************)
EXTENDS SessionState, Sequences, SequencesExt

CONSTANTS
  Scripts,    \* scripts of the applications: the frames endpoint e may submit
  Auto,       \* Auto[e]: e left the automatic WINDOW_UPDATE on
  BodyLen,    \* bytes every data provider delivers
  MaxWrites   \* bound: send_callback calls per frame

Endpoints == {"client", "server"}
Peer(e) == IF e = "client" THEN "server" ELSE "client"

ASSUME ConnectionAssumption ==
  /\ Scripts \subseteq [Endpoints -> SUBSET Frame]
  /\ Auto \in [Endpoints -> BOOLEAN]
  /\ BodyLen \in Nat
  /\ MaxWrites \in Nat \ {0}

VARIABLES
  ses,    \* ses[e]: the session of e
  net,    \* net[e]: the frames e has sent and its peer has not received
  left,   \* left[e][id]: bytes of the body of stream id that e has not read yet
  todo    \* todo[e]: the calls the application of e has not made yet

vars == <<ses, net, left, todo>>

Init ==
  /\ ses = [e \in Endpoints |->
              [SessionNew(e = "server") EXCEPT !.auto_window_update = Auto[e]]]
  /\ net = [e \in Endpoints |-> <<>>]
  /\ left = [e \in Endpoints |-> [i \in StreamId |-> BodyLen]]
  /\ todo \in Scripts
-----------------------------------------------------------------------------
(* The applications.                                                       *)

Submit(s, f) ==
  CASE f.type = "SYN_STREAM" -> SubmitSynStream(s, f)
    [] f.type = "SETTINGS"   -> SubmitSettings(s, f)
    [] f.type = "PING"       -> SubmitPing(s)
    [] f.type = "GOAWAY"     -> SubmitGoaway(s, f.arg)
    [] OTHER                 -> AddFrame(s, f)

\* Frames on a stream are submitted once the stream was reported.
Known(s, f) ==
  /\ f.type \in {"SYN_REPLY", "HEADERS", "RST_STREAM"} => HasStream(s, f.id)
  /\ f.assoc # 0 => HasStream(s, f.assoc)

Call(e, f) ==
  /\ Known(ses[e], f)
  /\ ses' = [ses EXCEPT ![e] = Submit(@, f)]
  /\ todo' = [todo EXCEPT ![e] = @ \ {f}]
  /\ UNCHANGED <<net, left>>

\* An application that turned the automatic WINDOW_UPDATE off gives back what
\* it has received.
Consume(e, id) ==
  LET n == ses[e].streams[id].recv_window_size
  IN  /\ ~ses[e].auto_window_update /\ n > 0
      /\ ses' = [ses EXCEPT ![e] = SubmitWindowUpdate(@, id, n)]
      /\ UNCHANGED <<net, left, todo>>
-----------------------------------------------------------------------------
(* spdylay_session_send at endpoint e.                                     *)

\* The read callback hands over as much as it is asked for.
Answer(e, s, id) ==
  LET max == NextDataRead(s, id)
      n   == IF left[e][id] < max THEN left[e][id] ELSE max
  IN  [r |-> "DATA", n |-> n, eof |-> n = left[e][id]]

\* The session becomes t; a DATA frame packed on the way came out of the body.
Packs(e, t) ==
  /\ ses' = [ses EXCEPT ![e] = t]
  /\ left' = IF t.aob.item # {} /\ Aob(t).f.type = "DATA"
             THEN [left EXCEPT ![e][Aob(t).f.id] = @ - t.aob.len] ELSE left
  /\ UNCHANGED todo

Prepare(e) ==
  /\ ses[e].aob.item = {}
  /\ \E item \in PopNextObItem(ses[e]) :
       LET s == Popped(ses[e], item)
       IN  Packs(e, PrepFrame(s, item, Answer(e, s, item.f.id), TRUE))
  /\ UNCHANGED net

SendPart(e) ==
  /\ ses[e].aob.item # {} /\ ses[e].aob.writes + 1 < MaxWrites
  /\ ses' = [ses EXCEPT ![e] = PartialWrite(@)]
  /\ UNCHANGED <<net, left, todo>>

SendRest(e) ==
  /\ ses[e].aob.item # {}
  /\ Packs(e, CompleteWrite(ses[e], Answer(e, ChargeWindow(ses[e]), Aob(ses[e]).f.id)))
  /\ net' = [net EXCEPT ![e] = Append(@, WireFrame(ses[e]))]
-----------------------------------------------------------------------------
(* spdylay_session_mem_recv at endpoint e.                                 *)

Receive(e) ==
  /\ net[Peer(e)] # <<>> /\ ses[e].iframe.f = {}
  /\ LET f == Head(net[Peer(e)])
     IN  ses' = [ses EXCEPT ![e] = IF f.type = "DATA" THEN RecvDataHead(@, f)
                                                      ELSE OnCtrlReceived(@, f)]
  /\ net' = [net EXCEPT ![Peer(e)] = Tail(@)]
  /\ UNCHANGED <<left, todo>>

ReceivePayload(e) ==
  /\ \E f \in ses[e].iframe.f : \E n \in 0..(f.val - ses[e].iframe.off) :
       /\ n > 0 \/ f.val = 0
       /\ ses' = [ses EXCEPT ![e] = RecvDataPayload(@, n)]
  /\ UNCHANGED <<net, left, todo>>

Next ==
  \E e \in Endpoints :
    \/ \E f \in todo[e] : Call(e, f)
    \/ \E id \in StreamId : Consume(e, id)
    \/ Prepare(e) \/ SendPart(e) \/ SendRest(e)
    \/ Receive(e) \/ ReceivePayload(e)

Spec == Init /\ [][Next]_vars

Send(e) == Prepare(e) \/ SendRest(e)
Recv(e) == Receive(e) \/ ReceivePayload(e)
Acknowledge(e) == \E id \in StreamId : Consume(e, id)
Reply(e) == \E f \in todo[e] : f.type = "SYN_REPLY" /\ Call(e, f)

\* Both event loops keep calling spdylay_session_send and _recv, the server
\* answers the requests it is told about and consumed data is acknowledged.
Fairness ==
  \A e \in Endpoints :
    WF_vars(Send(e)) /\ WF_vars(Recv(e)) /\ WF_vars(Acknowledge(e)) /\ WF_vars(Reply(e))

FairSpec == Spec /\ Fairness
-----------------------------------------------------------------------------
(* Properties.                                                             *)

Total(e, id, type) ==
  FoldSeq(LAMBDA f, n : IF f.type = type /\ f.id = id THEN n + f.val ELSE n,
          0, net[e])

\* The DATA frame of the stream that e has begun to write.
Partial(e, id) ==
  ses[e].aob.writes > 0 /\ \E i \in ses[e].aob.item : i.f.type = "DATA" /\ i.f.id = id

\* Bytes e has sent on the stream that its peer has not taken in yet.
InFlight(e, id) ==
  LET p == ses[Peer(e)]
  IN  (IF Partial(e, id) THEN ses[e].aob.len ELSE 0)
      + Total(e, id, "DATA")
      + (IF \E f \in p.iframe.f : f.id = id
         THEN (CHOOSE f \in p.iframe.f : TRUE).val - p.iframe.off ELSE 0)

\* WINDOW_UPDATEs for the stream that e has queued or sent.
Granted(e, id) ==
  LET q == {i \in ses[e].ob_pq \cup ses[e].aob.item :
              i.f.type = "WINDOW_UPDATE" /\ i.f.id = id}
  IN  MapThenSumSet(LAMBDA i : i.f.val, q) + Total(e, id, "WINDOW_UPDATE")

\* e has an RST_STREAM for the stream to send.
Resetting(e, id) ==
  \E i \in ses[e].ob_pq \cup ses[e].aob.item : i.f.type = "RST_STREAM" /\ i.f.id = id

\* e may still send DATA on the stream and its peer still takes it.
Flowing(e, id) ==
  /\ Partial(e, id) => ~ses[e].aob.eof
  /\ StreamForSend(ses[e], id) /\ ~Resetting(e, id)
  /\ Readable(ses[Peer(e)], id) /\ ~Resetting(Peer(e), id)

\* Credit is conserved: the sender's window, the bytes under way, the bytes the
\* receiver has not acknowledged and the WINDOW_UPDATEs under way always add up
\* to the initial window the sender knows of, across SETTINGS that move it in
\* mid-stream.  Otherwise a stream would stall or overrun its receiver.
WindowConservation ==
  \A e \in Endpoints, id \in StreamId :
    Flowing(e, id) =>
      ses[e].streams[id].window_size + InFlight(e, id)
        + ses[Peer(e)].streams[id].recv_window_size + Granted(Peer(e), id)
      = ses[e].remote.win

\* As long as no application resets a stream, two endpoints of this library
\* never take one another's frames for errors: no session fails, and the only
\* RST_STREAM a handler queues refuses a stream over the limit.
NoProtocolError ==
  \A e \in Endpoints :
    /\ "FAIL_ON_SEND" \notin ses[e].goaway_flags
    /\ \A i \in ses[e].ob_pq \cup ses[e].aob.item :
         i.f.type = "RST_STREAM" => i.f.arg = "REFUSED_STREAM"

\* Every stream that was opened is closed in the end and every queued request
\* gets its turn, at both endpoints: neither flow control nor the priorities
\* nor the concurrency limit leaves an exchange hanging.  (The script is
\* finite, so there is a moment with no stream left.)
ExchangesEnd ==
  \A e \in Endpoints : []<>(LiveStreams(ses[e]) = {} /\ ses[e].ob_ss_pq = {})
=============================================================================
