---------------------------- MODULE MCConnection ----------------------------
(***************************************************************************)
(* Small instances of Connection: scripts of calls for both applications.  *)
(***************************************************************************)
EXTENDS Connection

F(type, id) == MkFrame(type, id)
Fin(f) == [f EXCEPT !.fin = TRUE]
Prd(f) == [f EXCEPT !.prd = TRUE]
Setting(id, v) == [F("SETTINGS", 0) EXCEPT !.arg = id, !.val = v]

Request(pri) == [Fin(F("SYN_STREAM", 0)) EXCEPT !.pri = pri]
Upload == Prd(F("SYN_STREAM", 0))

AutoBoth == [e \in Endpoints |-> TRUE]
AutoClient == [e \in Endpoints |-> e = "client"]

\* An upload and its response while both sides move the initial window.
WindowCalls ==
  [client |-> {Upload, Setting("INITIAL_WINDOW_SIZE", 3)},
   server |-> {Prd(F("SYN_REPLY", 1)), Setting("INITIAL_WINDOW_SIZE", 1)}]

\* Two requests of different priority over a limit of one stream, a pushed stream and a PING.
PushCalls ==
  [client |-> {Request(0), Request(1), F("PING", 0),
               Setting("MAX_CONCURRENT_STREAMS", 1)},
   server |-> {Prd(F("SYN_REPLY", 1)), Fin(F("SYN_REPLY", 3)),
               [Prd(F("SYN_STREAM", 0)) EXCEPT !.uni = TRUE, !.assoc = 1]}]

\* A response that either side may cancel.
CancelCalls ==
  [client |-> {Request(0), [F("RST_STREAM", 1) EXCEPT !.arg = "CANCEL"]},
   server |-> {Prd(F("SYN_REPLY", 1)), [F("RST_STREAM", 1) EXCEPT !.arg = "CANCEL"]}]

\* A request that has to wait until another one is answered or cancelled.
QueueCalls ==
  [client |-> {Request(0), Request(1), [F("RST_STREAM", 1) EXCEPT !.arg = "CANCEL"]},
   server |-> {Fin(F("SYN_REPLY", 1)), Fin(F("SYN_REPLY", 3))}]

FlowScripts == {WindowCalls, CancelCalls, QueueCalls}
WindowScripts == {WindowCalls}
PushScripts == {PushCalls}
=============================================================================
