------------------------------ MODULE MCSession ------------------------------
(***************************************************************************)
(* Small instances of Session for TLC: a server and a client, each with    *)
(* the frames that make its streams start, stall, end and collide.         *)
(***************************************************************************)
EXTENDS Session

F(type, id) == MkFrame(type, id)
Fin(f) == [f EXCEPT !.fin = TRUE]
Val(f, v) == [f EXCEPT !.val = v]
Arg(f, a) == [f EXCEPT !.arg = a]
Prd(f) == [f EXCEPT !.prd = TRUE]

Data(n, eof) == [r |-> "DATA", n |-> n, eof |-> eof]
Deferral == [r |-> "DEFERRED", n |-> 0, eof |-> FALSE]
Failure == [r |-> "TEMPORAL_FAILURE", n |-> 0, eof |-> FALSE]

MCReads == {Data(2, FALSE), Data(1, TRUE), Deferral, Failure}
PlainReads == {Data(1, FALSE), Data(1, TRUE)}

\* A server that answers stream 1 while the peer moves the window.
FlowApp == {Prd(F("SYN_REPLY", 1)), F("DATA", 1), F("RST_STREAM", 1),
            Val(F("WINDOW_UPDATE", 1), 1)}
FlowPeer ==
  {F("SYN_STREAM", 1), Fin(Val(F("DATA", 1), 1)), Val(F("WINDOW_UPDATE", 1), 2),
   Arg(Val(F("SETTINGS", 0), 0), "INITIAL_WINDOW_SIZE"),
   Arg(Val(F("SETTINGS", 0), 3), "INITIAL_WINDOW_SIZE")}

\* A server that pushes a stream with stream 1 and may get stream 3 too.
PushApp ==
  {[F("SYN_STREAM", 0) EXCEPT !.uni = TRUE, !.assoc = 1, !.prd = TRUE],
   Prd(F("SYN_REPLY", 1)), Fin(F("HEADERS", 1))}
PushPeer ==
  {F("SYN_STREAM", 1), Fin(F("SYN_STREAM", 3)), Fin(F("HEADERS", 1)),
   F("RST_STREAM", 1), Val(F("GOAWAY", 0), 0)}

\* A client with two requests, one of them to an origin with a certificate.
ClientApp ==
  {Fin(Arg(F("SYN_STREAM", 0), "a")), Prd(F("SYN_STREAM", 0)),
   F("PING", 0), F("GOAWAY", 0),
   Arg(Val(F("SETTINGS", 0), 1), "MAX_CONCURRENT_STREAMS")}
ClientPeer ==
  {Fin(F("SYN_REPLY", 1)), F("SYN_REPLY", 3), F("HEADERS", 1),
   Fin(Val(F("DATA", 3), 2)), Val(F("PING", 0), 1), Val(F("PING", 0), 2),
   [F("SYN_STREAM", 2) EXCEPT !.uni = TRUE, !.assoc = 1],
   Arg(Val(F("SETTINGS", 0), 1), "MAX_CONCURRENT_STREAMS"),
   Arg(Val(F("SETTINGS", 0), 0), "CLIENT_CERTIFICATE_VECTOR_SIZE")}
ClientBad == {F("SYN_REPLY", 1), Arg(F("SYN_STREAM", 2), "FRAME_TOO_LARGE")}

\* The calls and frames of the violation runs.
CapApp == {Fin(F("SYN_STREAM", 0)), F("PING", 0)}
RstApp == {F("SYN_REPLY", 1), F("DATA", 1), F("RST_STREAM", 1)}
RstPeer == {F("SYN_STREAM", 1)}

\* No application, no peer, a cooperative data provider.
NoWorld == [server |-> FALSE, app |-> {}, peer |-> {}, bad |-> {},
            reads |-> PlainReads, writes |-> 1, frames |-> 4]

SessionWorlds ==
  {[server |-> TRUE, app |-> FlowApp, peer |-> FlowPeer, bad |-> {},
    reads |-> MCReads, writes |-> 2, frames |-> 3],
   [server |-> TRUE, app |-> PushApp, peer |-> PushPeer, bad |-> {},
    reads |-> PlainReads, writes |-> 2, frames |-> 4],
   [server |-> FALSE, app |-> ClientApp, peer |-> ClientPeer, bad |-> ClientBad,
    reads |-> PlainReads, writes |-> 1, frames |-> 3]}
CapWorlds == {[NoWorld EXCEPT !.app = CapApp]}
RstWorlds == {[NoWorld EXCEPT !.server = TRUE, !.app = RstApp, !.peer = RstPeer,
                              !.writes = 2, !.frames = 3]}
DropWorlds == {[NoWorld EXCEPT !.server = TRUE, !.peer = RstPeer, !.bad = ClientBad]}
=============================================================================
