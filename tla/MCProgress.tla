------------------------------ MODULE MCProgress ------------------------------
(***************************************************************************)
(* Instances of the parts about which something is to happen eventually:   *)
(* of shrpx a client connection that speaks SPDY and the listener with its *)
(* workers, and spdycat.  They share no state, so that a behaviour takes   *)
(* one; the others stay as they start.                                     *)
(***************************************************************************)
EXTENDS SpdyUpstream, ShrpxListener, SpdyCat

CONSTANT Parts  \* which of them to run

VARIABLE part

Syn(id, fin, ok, connect) ==
  [k |-> "syn", id |-> id, fin |-> fin, ok |-> ok, connect |-> connect]

\* An upload longer than the window; a tunnel, and a request without its
\* headers; an upload after such a request, so that its SYN_REPLY waits behind
\* RST_STREAM and WINDOW_UPDATE; two streams at once.
MCPlans ==
  {[upload |-> 3, extra |-> {"bad"}, syns |-> {Syn(1, FALSE, TRUE, FALSE)}],
   [upload |-> 1, extra |-> {"bad"},
    syns |-> {Syn(1, FALSE, TRUE, TRUE), Syn(1, FALSE, FALSE, FALSE)}],
   [upload |-> 2, extra |-> {}, syns |-> {Syn(1, TRUE, FALSE, FALSE), Syn(2, FALSE, TRUE, FALSE)}],
   [upload |-> 0, extra |-> {}, syns |-> {Syn(1, TRUE, TRUE, FALSE), Syn(2, TRUE, TRUE, FALSE)}]}

At(h, p) == [host |-> h, path |-> p]
NoLinks == [p \in {"p", "q", "x", "y"} |-> <<>>]
Trip(uris, cache, links, pushes) ==
  [uris |-> uris, cache |-> cache, links |-> [NoLinks EXCEPT !["p"] = links], pushes |-> pushes]

\* A URI twice, a link twice, a link that is pushed, two hosts; with and
\* without the cache.
MCTrips ==
  {Trip(<<At("a", "p"), At("a", "q"), At("a", "p")>>, FALSE, <<"x", "y">>, {"x"}),
   Trip(<<At("a", "p")>>, FALSE, <<"x", "y", "x">>, {}),
   Trip(<<At("a", "p")>>, TRUE, <<"x", "y", "x">>, {"x", "q"}),
   Trip(<<At("a", "p"), At("b", "p")>>, FALSE, <<"x">>, {}),
   Trip(<<At("a", "p"), At("b", "p")>>, TRUE, <<>>, {})}
-----------------------------------------------------------------------------
vars == <<part, spdyVars, listenVars, cat>>

\* One that does not run has nothing to do.
Init ==
  /\ part \in Parts
  /\ SpdyInit /\ ListenInit
  /\ part # "spdy" => cplan = CHOOSE p \in Plans : TRUE
  /\ part # "listener" => attempts = 0
  /\ IF part = "cat" THEN CatInit
     ELSE cat = [CatStart(CHOOSE t \in Trips : TRUE) EXCEPT !.phase = "done"]

Next ==
  /\ UNCHANGED part
  /\ \/ part = "spdy" /\ SpdyNext /\ UNCHANGED <<listenVars, cat>>
     \/ part = "listener" /\ ListenNext /\ UNCHANGED <<spdyVars, cat>>
     \/ part = "cat" /\ CatNext /\ UNCHANGED <<spdyVars, listenVars>>

Spec == Init /\ [][Next]_vars /\ SpdyFairness /\ ListenFairness /\ CatFairness
=============================================================================
