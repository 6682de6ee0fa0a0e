---------------------------- MODULE HttpsProofs ----------------------------
(***************************************************************************)
(* Proofs about HttpsUpstream, for every set of requests, every number of  *)
(* them, of backend connections and of response parts, and every           *)
(* threshold.  The state of a client is a record of many fields that       *)
(* the operators pass on, so most lemmas say what one operator does to it: *)
(* which fields it keeps (Same, Kept, Like, Later) and which part of the   *)
(* invariant (Tied, Parsing, Orderly, Paused, Recorded).                   *)
(***************************************************************************)
EXTENDS HttpsUpstream, FiniteSetTheorems, WellFoundedInduction, TLAPS

\* The safety part of what the client, the backend and the event loop do.
HttpsSpec == HttpsInit /\ [][HttpsNext]_httpsVars

Down == {NullObj} \cup DownstreamType
Backend == [Conns -> ConnType({0})]

Same(v, w) ==
  /\ v.up = w.up /\ v.in = w.in /\ v.rcb = w.rcb /\ v.rd = w.rd /\ v.htp = w.htp /\ v.dead = w.dead
  /\ v.hdr = w.hdr /\ v.close = w.close /\ v.n = w.n /\ v.heads = w.heads /\ v.final = w.final
  /\ v.refused = w.refused /\ v.early = w.early /\ v.extra = w.extra /\ v.abort = w.abort

LEMMA NullNotDownstream == \A d \in DownstreamType : d # NullObj
<1> TAKE d \in DownstreamType
<1>1. "req" \in DOMAIN d
  BY DEF DownstreamType
<1>2. "req" \notin DOMAIN NullObj
  BY DEF NullObj
<1>3. QED
  BY <1>1, <1>2

LEMMA StateParts ==
  ASSUME NEW w \in HttpsState
  PROVE  /\ D(w) \in Down /\ w.conn \in Backend /\ w.out \in Nat /\ w.n \in Nat /\ w.hdr \in Nat
         /\ (Exists(w, 0) <=> D(w) \in DownstreamType) /\ (Exists(w, 0) <=> D(w) # NullObj)
<1>1. D(w) \in Down /\ w.conn \in Backend /\ w.out \in Nat /\ w.n \in Nat /\ w.hdr \in Nat
  BY DEF HttpsState, D, Down, Backend
<1>2. QED
  BY <1>1, NullNotDownstream DEF Down, Exists, D

\* w with the request d, the backend connections k and o writes in the output buffer.
Put(w, d, k, o) == [w EXCEPT !.ds = [i \in {0} |-> d], !.conn = k, !.out = o]

LEMMA PutShape ==
  ASSUME NEW w \in HttpsState, NEW d \in Down, NEW k \in Backend, NEW o \in Nat
  PROVE  LET v == Put(w, d, k, o)
         IN  v \in HttpsState /\ Same(v, w) /\ D(v) = d /\ v.conn = k /\ v.out = o
<1> DEFINE v == Put(w, d, k, o)
<1>1. v \in HttpsState
  BY DEF Put, HttpsState, Down, Backend
<1>2. Same(v, w) /\ v.ds = [i \in {0} |-> d] /\ v.conn = k /\ v.out = o
  BY DEF Put, HttpsState, Same
<1>3. QED
  BY <1>1, <1>2 DEF D

LEMMA PutIs ==
  ASSUME NEW w \in HttpsState, NEW e, NEW k, NEW d, e \in [{0} -> Down], e[0] = d
  PROVE  /\ [w EXCEPT !.ds = e, !.conn = k] = Put(w, d, k, w.out)
         /\ [w EXCEPT !.conn = k, !.ds = e] = Put(w, d, k, w.out)
         /\ [w EXCEPT !.ds = e] = Put(w, d, w.conn, w.out)
<1>1. e = [i \in {0} |-> d]
  OBVIOUS
<1>2. QED
  BY <1>1 DEF Put, HttpsState

LEMMA PutConnIs ==
  ASSUME NEW w \in HttpsState, NEW k
  PROVE  [w EXCEPT !.conn = k] = Put(w, D(w), k, w.out)
<1>1. w.ds = [i \in {0} |-> D(w)]
  BY DEF HttpsState, D
<1>2. QED
  BY <1>1 DEF Put, HttpsState

LEMMA DeleteConnIs ==
  ASSUME NEW w \in HttpsState, NEW c \in Conns
  PROVE  DeleteConn(w, c) =
           Put(w, IF w.conn[c].st = "busy" /\ Exists(w, 0) THEN [D(w) EXCEPT !.dconn = NoConn] ELSE D(w),
               [w.conn EXCEPT ![c] = NewConn], w.out)
<1>1. w.conn[c].ds = 0 /\ w.ds = [i \in {0} |-> D(w)]
  BY DEF HttpsState, ConnType, D
<1>2. QED
  BY <1>1 DEF DeleteConn, Exists, D, Put, HttpsState

LEMMA AttachIs ==
  ASSUME NEW w \in HttpsState, NEW c \in Conns
  PROVE  AttachDownstream(w, 0, c) =
           Put(w, [D(w) EXCEPT !.dconn = c],
               [w.conn EXCEPT ![c] = [@ EXCEPT !.st = "busy", !.ds = 0, !.on = TRUE,
                                             !.wr = w.conn[c].st = "none" \/ w.conn[c].wr]], w.out)
<1>1. w.ds = [i \in {0} |-> D(w)]
  BY DEF HttpsState, D
<1>2. QED
  BY <1>1 DEF AttachDownstream, D, Put, HttpsState

LEMMA DetachIs ==
  ASSUME NEW w \in HttpsState
  PROVE  DetachDownstream(w, 0) =
           Put(w, [D(w) EXCEPT !.dconn = NoConn],
               [w.conn EXCEPT ![D(w).dconn] = [@ EXCEPT !.st = "idle", !.ds = 0, !.on = TRUE]], w.out)
<1>1. w.ds = [i \in {0} |-> D(w)]
  BY DEF HttpsState, D
<1>2. QED
  BY <1>1 DEF DetachDownstream, D, Put, HttpsState

LEMMA PushHeadersIs ==
  ASSUME NEW w \in HttpsState
  PROVE  PushRequestHeaders(w, 0) =
           Put(w, D(w),
               [w.conn EXCEPT ![D(w).dconn] =
                  [Conn(w, 0) EXCEPT !.out = Conn(w, 0).out + 1, !.mixed = Conn(w, 0).mixed \/ Conn(w, 0).open,
                                     !.open = TRUE, !.resp = "sent", !.got = 0]], w.out)
<1>1. w.ds = [i \in {0} |-> D(w)]
  BY DEF HttpsState, D
<1>2. QED
  BY <1>1 DEF PushRequestHeaders, D, Conn, Put, HttpsState

LEMMA PushUploadIs ==
  ASSUME NEW w \in HttpsState
  PROVE  PushUpload(w, 0) =
           Put(w, D(w), IF D(w).dconn = NoConn THEN w.conn ELSE [w.conn EXCEPT ![D(w).dconn].out = @ + 1], w.out)
<1>1. w.ds = [i \in {0} |-> D(w)]
  BY DEF HttpsState, D
<1>2. QED
  BY <1>1 DEF PushUpload, D, Put, HttpsState

LEMMA RequestCompleteIs ==
  ASSUME NEW w \in HttpsState
  PROVE  RequestComplete(w, 0) =
           Put(w, [D(w) EXCEPT !.req = "MSG_COMPLETE"],
               IF D(w).dconn = NoConn THEN w.conn ELSE [w.conn EXCEPT ![D(w).dconn].open = FALSE], w.out)
<1>1. w.ds = [i \in {0} |-> D(w)]
  BY DEF HttpsState, D
<1>2. QED
  BY <1>1 DEF RequestComplete, D, Put, HttpsState

LEMMA PauseReadIs ==
  ASSUME NEW w \in HttpsState, NEW r
  PROVE  PauseRead(w, 0, r) =
           Put(w, [D(w) EXCEPT !.rd = @ \cup {r}],
               IF D(w).dconn = NoConn THEN w.conn ELSE [w.conn EXCEPT ![D(w).dconn].on = FALSE], w.out)
<1>1. w.ds = [i \in {0} |-> D(w)]
  BY DEF HttpsState, D
<1>2. QED
  BY <1>1 DEF PauseRead, D, Put, HttpsState

LEMMA ResumeReadIs ==
  ASSUME NEW w \in HttpsState, NEW r
  PROVE  ResumeRead(w, 0, r) =
           Put(w, [D(w) EXCEPT !.rd = @ \ {r}],
               IF D(w).rd \ {r} # {} \/ D(w).dconn = NoConn THEN w.conn
               ELSE [w.conn EXCEPT ![D(w).dconn].on = TRUE], w.out)
<1>1. w.ds = [i \in {0} |-> D(w)]
  BY DEF HttpsState, D
<1>2. QED
  BY <1>1 DEF ResumeRead, D, Put, HttpsState

LEMMA RequestFieldsIs ==
  ASSUME NEW w \in HttpsState, NEW t
  PROVE  RequestFields(w, 0, t) =
           Put(w, [D(w) EXCEPT !.req_close = t.close, !.chunked = t.chunked], w.conn, w.out)
<1>1. w.ds = [i \in {0} |-> D(w)]
  BY DEF HttpsState, D
<1>2. QED
  BY <1>1 DEF RequestFields, D, Put, HttpsState
-----------------------------------------------------------------------------
(* The invariant.                                                          *)

\* A request d and the backend connections k: at most one connection exists, and
\* one that does not is as new; it is attached to d or pooled.
Tied(d, k) ==
  /\ \A c \in Conns : /\ k[c].st # "lost" /\ (k[c].st = "none" => k[c] = NewConn)
                      /\ k[c].st = "busy" => d # NullObj /\ d.dconn = c
  /\ \A b, c \in Conns : k[b].st # "none" /\ k[c].st # "none" => b = c
  /\ d # NullObj => /\ d.req # "STREAM_CLOSED"
                    /\ d.dconn # NoConn => k[d.dconn].st = "busy"
                    /\ d.req \in {"INITIAL", "CONNECT_FAIL"} => d.dconn = NoConn

Vacant(d, k) == d = NullObj /\ \A c \in Conns : k[c].st = "none"

\* Where the request parser is, and where it will be at the end of the input.
PlaceOf(d) ==
  IF d = NullObj THEN "start"
  ELSE IF d.req = "INITIAL" THEN "head" ELSE IF d.req = "HEADER_COMPLETE" THEN "body" ELSE "start"
Place(w) == PlaceOf(D(w))
EndPlace(w) == IF w.in = <<>> THEN Place(w) ELSE PlaceAfter(w.in[Len(w.in)])

\* What the parser finds next is what it expects there, up to what the client
\* has not sent yet.
Agreed(w) == (w.in # <<>> => w.in[1].k \in Expected(Place(w))) /\ Chained(w.in)
Going(w, todo) ==
  IF todo = <<>> THEN EndPlace(w) = "start" ELSE todo[1].k \in Expected(EndPlace(w))
Parsing(w, todo) ==
  /\ Running(w) /\ w.htp # "error" => Agreed(w) /\ Going(w, todo)
  /\ w.htp = "paused" => Place(w) = "start"
Unsent(todo) ==
  todo \in Seq(Tokens) /\ (todo # <<>> => Chained(todo) /\ PlaceAfter(todo[Len(todo)]) = "start")

Clean(k) == \A c \in Conns :
  ~k[c].mixed /\ (k[c].st = "idle" => ~k[c].open /\ k[c].resp = "none" /\ k[c].wr)

Count(n) == [i \in 1..n |-> i]

\* A request d that goes on in order, its backend connection b and the number
\* of writes in the client's output buffer.
Served(d, b, out) ==
  /\ d.res # "MSG_COMPLETE" /\ (d.res = "INITIAL" <=> b.resp \in {"sent", "wait"})
  /\ d.res = "HEADER_COMPLETE" <=> b.resp = "body"
  /\ b.wr /\ (b.on <=> d.rd = {}) /\ d.rd \subseteq {"NO_BUFFER"} /\ (d.rd # {} => out > 0)
  /\ d.req = "MSG_COMPLETE" => ~b.open

\* As long as nothing is out of order: a request without a backend connection
\* has just begun, the parser stops at its end, and each request before has its
\* response, and one only unless a backend has sent more than it.
Orderly(w) ==
  /\ w.abort = "none" /\ w.htp # "error" /\ Clean(w.conn)
  /\ D(w) = NullObj => w.htp = "ok" /\ (w.extra \/ w.heads = Count(w.n))
  /\ D(w) # NullObj =>
       /\ w.n > 0 /\ (w.extra \/ w.heads = Count(IF D(w).res = "INITIAL" THEN w.n - 1 ELSE w.n))
       /\ w.htp = "paused" <=> D(w).req = "MSG_COMPLETE"
       /\ D(w).req = "INITIAL" => D(w).res = "INITIAL" /\ D(w).rd = {}
       /\ D(w).req # "INITIAL" => D(w).dconn # NoConn /\ Served(D(w), w.conn[D(w).dconn], w.out)

\* Why the client is not read from.
Paused(w) ==
  /\ "MSG_BLOCK" \in w.rd <=> w.htp = "paused"
  /\ "NO_BUFFER" \in w.rd =>
       /\ w.in = <<>> /\ D(w) # NullObj /\ D(w).req = "HEADER_COMPLETE"
       /\ D(w).dconn # NoConn /\ w.conn[D(w).dconn].out > 0

InOrderly(w) == ~w.early /\ ~w.refused

\* The responses up to the first that closes the connection, which stay as they are.
Fixed(w) ==
  w.final <= Len(w.heads) /\ (~w.early /\ ~w.extra => \A i \in 1..w.final : w.heads[i] = i)

\* A refusal is such a response, or comes after one, and closes the connection
\* once the client has taken it.
Refusal(w) == w.refused => w.final # 0 /\ w.close
Waits(w) == w.refused /\ w.up = "open" => w.out > 0

Recorded(w) == Fixed(w) /\ Refusal(w) /\ Waits(w)

Regular(w) ==
  InOrderly(w) => /\ w.abort = "none" /\ Clean(w.conn)
                  /\ w.up = "open" => Orderly(w) /\ Paused(w) /\ (w.in # <<>> /\ w.rd = {} => w.rcb)

HttpsInv ==
  /\ hc \in HttpsState /\ Len(hc.in) <= MaxIn /\ hsent \in 0..MaxReq /\ Unsent(htodo)
  /\ Tied(D(hc), hc.conn) /\ (hc.up = "gone" => Vacant(D(hc), hc.conn))
  /\ Parsing(hc, htodo) /\ Regular(hc) /\ Recorded(hc)

\* Nothing is answered on the way from w to v.
Later(w, v) ==
  /\ v.heads = w.heads /\ v.final = w.final /\ v.refused = w.refused /\ v.up = w.up
  /\ (w.early => v.early) /\ (w.extra => v.extra) /\ (w.close => v.close)
  /\ w.refused /\ w.out > 0 => v.out > 0

LEMMA LaterRecorded ==
  ASSUME NEW w, NEW v, Later(w, v)
  PROVE  Recorded(w) => Recorded(v)
BY DEF Later, Recorded, Fixed, Refusal, Waits

\* The head of one more response, which closes the connection or not (z).
LEMMA HeadRecorded ==
  ASSUME NEW w \in HttpsState, NEW v, Fixed(w), NEW z \in BOOLEAN, v.heads = Append(w.heads, w.n),
         v.final = IF z /\ w.final = 0 THEN Len(w.heads) + 1 ELSE w.final,
         w.early => v.early, w.extra => v.extra,
         z /\ w.final = 0 /\ ~v.early /\ ~v.extra => w.n > 0 /\ w.heads = Count(w.n - 1)
  PROVE  Fixed(v) /\ (z \/ w.final # 0 => v.final # 0)
<1>1. w.heads \in Seq(Nat) /\ w.n \in Nat /\ w.final \in Nat
  BY DEF HttpsState
<1>2. Len(w.heads) \in Nat /\ Len(v.heads) = Len(w.heads) + 1
      /\ (\A i \in 1..Len(w.heads) : v.heads[i] = w.heads[i]) /\ v.heads[Len(w.heads) + 1] = w.n
  BY <1>1
<1>3. w.final <= Len(w.heads)
  BY DEF Fixed
<1>4. CASE z /\ w.final = 0
  <2>1. v.final = Len(w.heads) + 1
    BY <1>4
  <2>2. ASSUME ~v.early, ~v.extra, NEW i \in 1..v.final PROVE v.heads[i] = i
    <3>1. w.n > 0 /\ w.heads = Count(w.n - 1)
      BY <1>4, <2>2
    <3>2. Len(w.heads) = w.n - 1 /\ \A j \in 1..(w.n - 1) : w.heads[j] = j
      BY <1>1, <3>1 DEF Count
    <3>3. QED
      BY <1>1, <1>2, <2>1, <2>2, <3>1, <3>2
  <2>3. QED
    BY <1>2, <2>1, <2>2 DEF Fixed
<1>5. CASE ~(z /\ w.final = 0)
  <2>1. v.final = w.final
    BY <1>5
  <2>2. ASSUME ~v.early, ~v.extra, NEW i \in 1..v.final PROVE v.heads[i] = i
    <3>1. i \in 1..Len(w.heads) /\ i \in 1..w.final
      BY <1>1, <1>2, <1>3, <2>1
    <3>2. w.heads[i] = i
      BY <2>2, <3>1 DEF Fixed
    <3>3. QED
      BY <1>2, <3>1, <3>2
  <2>3. QED
    BY <1>1, <1>2, <1>3, <1>5, <2>1, <2>2 DEF Fixed
<1>6. QED
  BY <1>4, <1>5
-----------------------------------------------------------------------------
(* The request parser.                                                     *)

LEMMA LeastNumber ==
  ASSUME NEW T, T \subseteq Nat, T # {}
  PROVE  \E x \in T : \A y \in T : ~(y < x)
<1> DEFINE R == OpToRel(<, Nat)
<1>1. IsWellFoundedOn(R, Nat)
  BY NatLessThanWellFounded, Zenon
<1>2. \E x \in T : \A y \in T : ~(<<y, x>> \in R)
  <2> HIDE DEF R
  <2> QED
    BY <1>1, WFMin
<1>3. QED
  BY <1>2 DEF OpToRel

LEMMA ConnsAreNumbers == Conns \subseteq Nat /\ NoConn \notin Conns /\ 1 \in Conns
<1>1. Conns = 1..Cardinality(Conns) /\ 1 \in Conns
  BY ShrpxAssumption
<1> DEFINE m == Cardinality(Conns)
<1> HIDE DEF m
<1>2. Conns = 1..m
  BY <1>1 DEF m
<1>3. QED
  BY <1>1, <1>2 DEF NoConn

LEMMA MinIsMember ==
  ASSUME NEW T, T \subseteq Conns, T # {}
  PROVE  Min(T) \in T
<1>1. T \subseteq Nat
  BY ConnsAreNumbers
<1>2. PICK x \in T : \A y \in T : ~(y < x)
  BY <1>1, LeastNumber
<1>3. \A y \in T : x <= y
  BY <1>1, <1>2
<1>4. QED
  BY <1>3, Zenon DEF Min

\* What get_downstream_connection finds when no connection is attached.
LEMMA GetConnection ==
  ASSUME NEW w \in HttpsState, Tied(D(w), w.conn), D(w) # NullObj, D(w).dconn = NoConn
  PROVE  LET g == GetDownstreamConnection(w)
         IN  /\ g.c \in Conns /\ g.new \in BOOLEAN
             /\ w.conn[g.c].st = IF g.new THEN "none" ELSE "idle"
             /\ \A c \in Conns : c # g.c => w.conn[c].st = "none"
<1> DEFINE g == GetDownstreamConnection(w)
           N == {c \in Conns : w.conn[c].st = "none"}
<1>1. \A c \in Conns : w.conn[c].st \in {"none", "idle"}
  <2>1. \A c \in Conns : w.conn[c].st \in {"none", "busy", "idle", "lost"}
    BY DEF HttpsState, ConnType
  <2>2. QED
    BY <2>1, ConnsAreNumbers DEF Tied
<1>2. CASE Pool(w) # {}
  <2>1. g = [c |-> Min(Pool(w)), new |-> FALSE]
    BY <1>2 DEF GetDownstreamConnection
  <2>2. Min(Pool(w)) \in Pool(w)
    BY <1>2, MinIsMember DEF Pool
  <2>3. g.c \in Conns /\ g.new = FALSE /\ w.conn[g.c].st = "idle"
    BY <2>1, <2>2 DEF Pool
  <2>4. \A c \in Conns : c # g.c => w.conn[c].st = "none"
    BY <2>3 DEF Tied
  <2>5. QED
    BY <2>3, <2>4
<1>3. CASE Pool(w) = {}
  <2>1. g = [c |-> Min(N), new |-> TRUE]
    BY <1>3 DEF GetDownstreamConnection
  <2>2. \A c \in Conns : w.conn[c].st = "none"
    BY <1>1, <1>3 DEF Pool
  <2>3. N # {}
    BY <2>2, ConnsAreNumbers
  <2>4. Min(N) \in N
    BY <2>3, MinIsMember
  <2>5. g.c \in Conns /\ g.new = TRUE
    BY <2>1, <2>4
  <2>6. QED
    BY <2>2, <2>5
<1>4. QED
  BY <1>2, <1>3

\* What no callback of the request parser touches.
Kept(v, w) ==
  /\ v.up = w.up /\ v.rcb = w.rcb /\ v.rd = w.rd /\ v.close = w.close /\ v.early = w.early
  /\ v.extra = w.extra /\ v.refused = w.refused /\ v.heads = w.heads /\ v.final = w.final
  /\ w.out > 0 => v.out > 0

\* A 400 for this request would be the first response to it, but for one whose
\* response has begun.
Refusable(w) ==
  \/ w.extra \/ (w.n > 0 /\ w.heads = Count(w.n - 1))
  \/ D(w) # NullObj /\ D(w).res = "HEADER_COMPLETE"

LEMMA OrderlyRefusable ==
  ASSUME NEW w \in HttpsState, Orderly(w), D(w) # NullObj
  PROVE  Refusable(w)
<1>1. D(w).res \in {"INITIAL", "HEADER_COMPLETE", "MSG_COMPLETE"}
  BY StateParts DEF DownstreamType, ResponseStates
<1>2. D(w).res # "MSG_COMPLETE"
  BY DEF Orderly, Served
<1>3. QED
  BY <1>1, <1>2 DEF Orderly, Refusable

\* A callback that takes the parser to a place.
Parsed(w, u, place) ==
  /\ u \in HttpsState /\ Kept(u, w) /\ u.in = w.in /\ Tied(D(u), u.conn)
  /\ u.htp # "error" /\ u.abort = "none" => Place(u) = place
  /\ u.htp = "paused" => Place(u) = "start"
  /\ u.htp = "error" => u.abort = "none"
  /\ Orderly(w) => IF u.htp = "error" THEN Refusable(u) ELSE Orderly(u)

LEMMA HeaderError ==
  ASSUME NEW w \in HttpsState, Tied(D(w), w.conn), w.abort = "none", NEW y, Kept(w, y), w.in = y.in,
         Orderly(y) => Refusable(w), NEW place
  PROVE  LET u == [w EXCEPT !.htp = "error"]
         IN  Parsed(y, u, place) /\ u.htp = "error" /\ u.abort = "none"
<1> DEFINE u == [w EXCEPT !.htp = "error"]
<1>1. u \in HttpsState /\ u.in = w.in /\ D(u) = D(w) /\ u.conn = w.conn /\ u.htp = "error"
      /\ u.abort = "none" /\ u.n = w.n /\ Kept(u, w)
  BY DEF HttpsState, Kept, D
<1> HIDE DEF u
<1>2. Kept(u, y)
  BY <1>1 DEF Kept
<1>3. Refusable(w) => Refusable(u)
  BY <1>1 DEF Refusable, Kept
<1>4. QED
  BY <1>1, <1>2, <1>3 DEF Parsed, u

LEMMA MsgBeginParses ==
  ASSUME NEW w \in HttpsState, Tied(D(w), w.conn), w.htp = "ok", w.abort = "none", Place(w) = "start"
  PROVE  Parsed(w, MsgBegin(w), "head")
<1> DEFINE u == MsgBegin(w)
<1>1. Exists(w, 0) => ~Orderly(w)
  BY StateParts DEF Orderly, Place, PlaceOf, Tied, DownstreamType, RequestStates
<1>2. CASE w.dead
  <2>1. w.n \in Nat /\ w.n + 1 \in Nat
    BY StateParts
  <2>2. u = [w EXCEPT !.htp = "error", !.n = w.n + 1]
    BY <1>2 DEF MsgBegin
  <2>3. u \in HttpsState /\ Kept(u, w) /\ u.in = w.in /\ D(u) = D(w) /\ u.conn = w.conn /\ u.htp = "error"
        /\ u.abort = "none" /\ u.n = w.n + 1
    BY <2>1, <2>2 DEF HttpsState, Kept, D
  <2> HIDE DEF u
  <2>4. ASSUME Orderly(w) PROVE Refusable(u)
    <3>1. D(w) = NullObj /\ (w.extra \/ w.heads = Count(w.n))
      BY <1>1, <2>4, StateParts DEF Orderly
    <3>2. u.n > 0 /\ u.n - 1 = w.n
      BY <2>1, <2>3
    <3>3. QED
      BY <2>3, <3>1, <3>2 DEF Refusable, Kept
  <2>5. QED
    BY <2>3, <2>4 DEF Parsed, u
<1>3. CASE ~w.dead /\ Exists(w, 0)
  <2>1. u = [w EXCEPT !.abort = "downstream attached"]
    BY <1>3 DEF MsgBegin, Abort
  <2>2. u \in HttpsState /\ Kept(u, w) /\ u.in = w.in /\ D(u) = D(w) /\ u.conn = w.conn /\ u.htp = "ok"
        /\ u.abort # "none"
    BY <2>1 DEF HttpsState, Kept, D
  <2>3. ~Orderly(w)
    BY <1>1, <1>3
  <2> HIDE DEF u
  <2>4. QED
    BY <2>2, <2>3 DEF Parsed, u
<1>4. CASE ~w.dead /\ ~Exists(w, 0)
  <2>1. u = [w EXCEPT !.hdr = 0, !.n = @ + 1, !.ds[0] = NewDownstream]
    BY <1>4 DEF MsgBegin
  <2>2. NewDownstream \in DownstreamType /\ NewDownstream # NullObj
    <3>1. NewDownstream \in DownstreamType
      BY DEF NewDownstream, DownstreamType, RequestStates, ResponseStates
    <3>2. QED
      BY <3>1, NullNotDownstream
  <2>3. u \in HttpsState
    <3>1. [w.ds EXCEPT ![0] = NewDownstream] \in [{0} -> {NullObj} \cup DownstreamType]
      BY <2>2 DEF HttpsState
    <3>2. w.n + 1 \in Nat
      BY StateParts
    <3>3. u = [w EXCEPT !.hdr = 0, !.n = w.n + 1, !.ds = [w.ds EXCEPT ![0] = NewDownstream]]
      BY <2>1
    <3> HIDE DEF u
    <3>4. QED
      BY <3>1, <3>2, <3>3 DEF HttpsState
  <2>4. /\ Kept(u, w) /\ u.in = w.in /\ D(u) = NewDownstream /\ u.conn = w.conn /\ u.htp = "ok"
        /\ u.abort = "none" /\ u.n = w.n + 1
    BY <2>1 DEF HttpsState, Kept, D
  <2> HIDE DEF u
  <2>5. D(w) = NullObj
    BY <1>4, StateParts
  <2>6. Tied(D(u), u.conn)
    BY <2>2, <2>4, <2>5 DEF Tied, NewDownstream
  <2>7. Place(u) = "head"
    BY <2>2, <2>4 DEF Place, PlaceOf, NewDownstream
  <2>8. Orderly(w) => Orderly(u)
    <3>1. w.n \in Nat /\ w.heads = u.heads /\ u.extra = w.extra
      BY <2>4, StateParts DEF Kept
    <3>2. u.n > 0 /\ u.n - 1 = w.n
      BY <3>1, <2>4
    <3>3. NewDownstream.req = "INITIAL" /\ NewDownstream.res = "INITIAL" /\ NewDownstream.rd = {}
      BY DEF NewDownstream
    <3>4. QED
      BY <3>1, <3>2, <3>3, <2>2, <2>4, <2>5 DEF Orderly
  <2>9. QED
    BY <2>3, <2>4, <2>6, <2>7, <2>8 DEF Parsed, u
<1>5. QED
  BY <1>2, <1>3, <1>4

LEMMA UploadFacts ==
  ASSUME NEW w \in HttpsState, Tied(D(w), w.conn), D(w) # NullObj
  PROVE  LET p == PushUpload(w, 0)
         IN  /\ p \in HttpsState /\ Same(p, w) /\ D(p) = D(w) /\ p.out = w.out /\ Tied(D(p), p.conn)
             /\ Orderly(w) => Orderly(p)
<1> DEFINE p == PushUpload(w, 0)
           k == IF D(w).dconn = NoConn THEN w.conn ELSE [w.conn EXCEPT ![D(w).dconn].out = @ + 1]
<1>1. D(w) \in DownstreamType
  BY StateParts
<1>2. p = Put(w, D(w), k, w.out) /\ D(w) \in Down /\ w.out \in Nat /\ w.conn \in Backend
  BY PushUploadIs, StateParts
<1>3. D(w).dconn \in {NoConn} \cup Conns
  BY <1>1 DEF DownstreamType
<1>4. k \in Backend /\ \A c \in Conns : /\ k[c].st = w.conn[c].st /\ k[c].open = w.conn[c].open
           /\ k[c].mixed = w.conn[c].mixed /\ k[c].resp = w.conn[c].resp /\ k[c].on = w.conn[c].on
           /\ k[c].wr = w.conn[c].wr /\ (c # D(w).dconn => k[c] = w.conn[c])
  BY <1>2, <1>3 DEF Backend, ConnType
<1> HIDE DEF k
<1>5. p \in HttpsState /\ Same(p, w) /\ D(p) = D(w) /\ p.conn = k /\ p.out = w.out
  BY <1>2, <1>4, PutShape
<1>6. Tied(D(w), k)
  <2>1. D(w).dconn # NoConn => w.conn[D(w).dconn].st = "busy"
    BY DEF Tied
  <2>2. \A c \in Conns : k[c].st = "none" => k[c] = w.conn[c]
    BY <1>3, <1>4, <2>1, ConnsAreNumbers
  <2>3. QED
    BY <1>1, <1>3, <1>4, <2>1, <2>2 DEF Tied
<1> HIDE DEF p
<1>7. Orderly(w) => Orderly(p)
  BY <1>1, <1>3, <1>4, <1>5 DEF Orderly, Clean, Served, Same, Tied
<1>8. QED
  BY <1>5, <1>6, <1>7 DEF p

LEMMA BodyParses ==
  ASSUME NEW w \in HttpsState, Tied(D(w), w.conn), w.htp = "ok", w.abort = "none", Place(w) = "body"
  PROVE  Parsed(w, BodyCb(w), "body") /\ BodyCb(w).abort = "none"
<1> DEFINE p == PushUpload(w, 0)
           u == BodyCb(w)
<1>1. D(w) # NullObj
  BY DEF Place, PlaceOf
<1>2. p \in HttpsState /\ Same(p, w) /\ D(p) = D(w) /\ p.out = w.out /\ Tied(D(p), p.conn)
      /\ (Orderly(w) => Orderly(p))
  BY <1>1, UploadFacts
<1>3. u = IF PushUploadFails(w, 0) THEN [p EXCEPT !.htp = "error"] ELSE p
  BY DEF BodyCb
<1> HIDE DEF p, u
<1>4. Kept(p, w) /\ p.in = w.in /\ p.abort = "none" /\ p.htp = "ok" /\ Place(p) = "body"
  BY <1>2 DEF Same, Kept, Place
<1>5. CASE PushUploadFails(w, 0)
  <2>1. u = [p EXCEPT !.htp = "error"]
    BY <1>3, <1>5
  <2>2. Orderly(w) => Refusable(p)
    BY <1>1, <1>2, OrderlyRefusable
  <2>3. QED
    BY <1>2, <1>4, <2>1, <2>2, HeaderError DEF u
<1>6. CASE ~PushUploadFails(w, 0)
  BY <1>2, <1>3, <1>4, <1>6 DEF Parsed, u
<1>7. QED
  BY <1>5, <1>6

LEMMA CompleteFacts ==
  ASSUME NEW w \in HttpsState, Tied(D(w), w.conn), D(w) # NullObj, D(w).req = "HEADER_COMPLETE"
  PROVE  LET v == RequestComplete(w, 0)
         IN  /\ v \in HttpsState /\ Same(v, w) /\ v.out = w.out /\ Tied(D(v), v.conn) /\ D(v) # NullObj
             /\ D(v).req = "MSG_COMPLETE" /\ D(v).dconn = D(w).dconn /\ D(v).res = D(w).res
             /\ Clean(w.conn) => Clean(v.conn)
             /\ D(w).dconn # NoConn /\ Served(D(w), w.conn[D(w).dconn], w.out)
                  => Served(D(v), v.conn[D(v).dconn], v.out)
<1> DEFINE v == RequestComplete(w, 0)
           d == [D(w) EXCEPT !.req = "MSG_COMPLETE"]
           k == IF D(w).dconn = NoConn THEN w.conn ELSE [w.conn EXCEPT ![D(w).dconn].open = FALSE]
<1>1. D(w) \in DownstreamType
  BY StateParts
<1>2. v = Put(w, d, k, w.out) /\ w.out \in Nat /\ w.conn \in Backend
  BY RequestCompleteIs, StateParts
<1>3. D(w).dconn \in {NoConn} \cup Conns
  BY <1>1 DEF DownstreamType
<1>4. k \in Backend
  BY <1>2, <1>3 DEF Backend, ConnType
<1>5. \A c \in Conns : /\ k[c].st = w.conn[c].st
           /\ k[c].mixed = w.conn[c].mixed /\ k[c].resp = w.conn[c].resp /\ k[c].on = w.conn[c].on
           /\ k[c].wr = w.conn[c].wr /\ (c = D(w).dconn => ~k[c].open)
           /\ (c # D(w).dconn => k[c] = w.conn[c])
  BY <1>2, <1>3, ConnsAreNumbers DEF Backend, ConnType
<1>6. d \in DownstreamType /\ d # NullObj /\ d.req = "MSG_COMPLETE" /\ d.dconn = D(w).dconn
      /\ d.res = D(w).res /\ d.rd = D(w).rd
  <2>1. d \in DownstreamType
    BY <1>1 DEF DownstreamType, RequestStates
  <2>2. QED
    BY <1>1, <2>1, NullNotDownstream DEF DownstreamType
<1> HIDE DEF k, d
<1>7. v \in HttpsState /\ Same(v, w) /\ D(v) = d /\ v.conn = k /\ v.out = w.out
  BY <1>2, <1>4, <1>6, PutShape DEF Down
<1> HIDE DEF v
<1>8. Tied(d, k)
  <2>1. D(w).dconn # NoConn => w.conn[D(w).dconn].st = "busy"
    BY DEF Tied
  <2>2. \A c \in Conns : k[c].st = "none" => k[c] = w.conn[c]
    BY <1>3, <1>5, <2>1, ConnsAreNumbers
  <2>3. QED
    BY <1>1, <1>3, <1>5, <1>6, <2>1, <2>2 DEF Tied
<1>9. Clean(w.conn) => Clean(k)
  BY <1>3, <1>5 DEF Clean
<1>10. D(w).dconn # NoConn /\ Served(D(w), w.conn[D(w).dconn], w.out) => Served(d, k[d.dconn], w.out)
  BY <1>3, <1>5, <1>6 DEF Served
<1>11. QED
  BY <1>6, <1>7, <1>8, <1>9, <1>10 DEF v

LEMMA MsgCompleteParses ==
  ASSUME NEW w \in HttpsState, Tied(D(w), w.conn), w.htp = "ok", w.abort = "none", Place(w) = "body"
  PROVE  Parsed(w, MsgComplete(w), "start")
<1> DEFINE p == IF D(w).chunked THEN PushUpload(w, 0) ELSE w
           z == RequestComplete(p, 0)
           y == [z EXCEPT !.dead = D(w).req_close]
           u == MsgComplete(w)
<1>1. D(w) # NullObj /\ D(w).req = "HEADER_COMPLETE" /\ D(w) \in DownstreamType
  BY StateParts DEF Place, PlaceOf
<1>2. CASE D(w).chunked /\ D(w).dconn = NoConn
  <2>1. u = [w EXCEPT !.abort = "no backend connection"]
    BY <1>2 DEF MsgComplete, Abort
  <2>2. u \in HttpsState /\ Kept(u, w) /\ u.in = w.in /\ D(u) = D(w) /\ u.conn = w.conn /\ u.htp = "ok"
        /\ u.abort # "none"
    BY <2>1 DEF HttpsState, Kept, D
  <2>3. ~Orderly(w)
    BY <1>1, <1>2 DEF Orderly
  <2> HIDE DEF u
  <2>4. QED
    BY <2>2, <2>3 DEF Parsed, u
<1>3. CASE ~(D(w).chunked /\ D(w).dconn = NoConn)
  <2>1. p \in HttpsState /\ Same(p, w) /\ D(p) = D(w) /\ p.out = w.out /\ Tied(D(p), p.conn)
        /\ (Orderly(w) => Orderly(p))
    BY <1>1, UploadFacts DEF Same
  <2>2. u = ParserPause(y, TRUE)
    BY <1>3 DEF MsgComplete
  <2> HIDE DEF p
  <2>3. /\ z \in HttpsState /\ Same(z, p) /\ z.out = p.out /\ Tied(D(z), z.conn) /\ D(z) # NullObj
        /\ D(z).req = "MSG_COMPLETE" /\ D(z).dconn = D(p).dconn /\ D(z).res = D(p).res
        /\ Clean(p.conn) => Clean(z.conn)
        /\ D(p).dconn # NoConn /\ Served(D(p), p.conn[D(p).dconn], p.out)
                  => Served(D(z), z.conn[D(z).dconn], z.out)
    BY <1>1, <2>1, CompleteFacts
  <2> HIDE DEF z
  <2>4. D(w).req_close \in BOOLEAN
    BY <1>1 DEF DownstreamType
  <2>5. z.htp = "ok"
    BY <2>1, <2>3 DEF Same
  <2>6. u = [z EXCEPT !.dead = D(w).req_close, !.htp = "paused"]
    BY <2>2, <2>3, <2>5 DEF ParserPause, HttpsState
  <2> HIDE DEF u
  <2>7. u \in HttpsState /\ D(u) = D(z) /\ u.conn = z.conn /\ u.out = z.out /\ u.htp = "paused"
        /\ u.abort = z.abort /\ u.in = z.in /\ u.n = z.n /\ Kept(u, z)
    BY <2>3, <2>4, <2>6 DEF HttpsState, D, Kept
  <2>8. Kept(u, w) /\ u.in = w.in /\ u.n = w.n /\ u.abort = "none"
    BY <2>1, <2>3, <2>7 DEF Same, Kept
  <2>9. Place(u) = "start"
    BY <2>3, <2>7 DEF Place, PlaceOf
  <2>10. Orderly(w) => Orderly(u)
    BY <1>1, <2>1, <2>3, <2>7, <2>8 DEF Orderly, Kept
  <2>11. QED
    BY <2>3, <2>7, <2>8, <2>9, <2>10 DEF Parsed, u
<1>4. QED
  BY <1>2, <1>3

LEMMA SentConnType ==
  ASSUME NEW x \in ConnType({0}), NEW m \in BOOLEAN
  PROVE  [x EXCEPT !.out = x.out + 1, !.mixed = m, !.open = TRUE, !.resp = "sent", !.got = 0] \in ConnType({0})
<1>1. x.out + 1 \in Nat
  BY DEF ConnType
<1>2. QED
  BY <1>1 DEF ConnType

\* What attach_downstream and push_request_headers make of a free connection.
LEMMA AttachFacts ==
  ASSUME NEW w \in HttpsState, Tied(D(w), w.conn), D(w) # NullObj, D(w).req = "INITIAL",
         NEW c \in Conns, w.conn[c].st \in {"none", "idle"}, \A b \in Conns : b # c => w.conn[b].st = "none"
  PROVE  LET u == [PushRequestHeaders(AttachDownstream(w, 0, c), 0) EXCEPT !.ds[0].req = "HEADER_COMPLETE"]
         IN  /\ u \in HttpsState /\ Same(u, w) /\ u.out = w.out /\ Tied(D(u), u.conn) /\ D(u) # NullObj
             /\ D(u).req = "HEADER_COMPLETE" /\ D(u).dconn = c /\ D(u).res = D(w).res /\ D(u).rd = D(w).rd
             /\ Clean(w.conn) => /\ Clean(u.conn) /\ u.conn[c].wr /\ u.conn[c].on
                                 /\ u.conn[c].resp = "sent"
<1> DEFINE d1 == [D(w) EXCEPT !.dconn = c]
           k1 == [w.conn EXCEPT ![c] = [@ EXCEPT !.st = "busy", !.ds = 0, !.on = TRUE,
                                           !.wr = w.conn[c].st = "none" \/ w.conn[c].wr]]
           a == AttachDownstream(w, 0, c)
           k2 == [a.conn EXCEPT ![D(a).dconn] =
                    [Conn(a, 0) EXCEPT !.out = Conn(a, 0).out + 1, !.mixed = Conn(a, 0).mixed \/ Conn(a, 0).open,
                                       !.open = TRUE, !.resp = "sent", !.got = 0]]
           p == PushRequestHeaders(a, 0)
           d2 == [D(p) EXCEPT !.req = "HEADER_COMPLETE"]
           u == [p EXCEPT !.ds[0].req = "HEADER_COMPLETE"]
<1>1. D(w) \in DownstreamType /\ w.out \in Nat /\ w.conn \in Backend
  BY StateParts
<1>2. a = Put(w, d1, k1, w.out)
  BY AttachIs
<1>3. d1 \in DownstreamType /\ d1.dconn = c /\ d1.req = "INITIAL" /\ d1.res = D(w).res /\ d1.rd = D(w).rd
  BY <1>1 DEF DownstreamType
<1> DEFINE x1 == [w.conn[c] EXCEPT !.st = "busy", !.ds = 0, !.on = TRUE,
                     !.wr = w.conn[c].st = "none" \/ w.conn[c].wr]
           m == x1.mixed \/ x1.open
           x2 == [x1 EXCEPT !.out = x1.out + 1, !.mixed = m, !.open = TRUE, !.resp = "sent", !.got = 0]
<1>4. w.conn[c] \in ConnType({0})
  BY <1>1 DEF Backend
<1>5. x1 \in ConnType({0})
  BY <1>4 DEF ConnType
<1>6. /\ x1.st = "busy" /\ x1.on /\ (x1.wr <=> (w.conn[c].st = "none" \/ w.conn[c].wr))
       /\ x1.open = w.conn[c].open /\ x1.mixed = w.conn[c].mixed
  BY <1>4 DEF ConnType
<1> HIDE DEF x1
<1>7. m \in BOOLEAN
  OBVIOUS
<1> HIDE DEF m
<1>8. x2 \in ConnType({0})
  BY <1>5, <1>7, SentConnType
<1>9. x2.st = x1.st /\ x2.on = x1.on /\ x2.wr = x1.wr /\ x2.mixed = m /\ x2.resp = "sent"
  BY <1>5 DEF ConnType
<1>10. k1 = [w.conn EXCEPT ![c] = x1]
  BY DEF x1
<1>11. k1 \in Backend
  BY <1>1, <1>10, <1>5 DEF Backend
<1>12. /\ \A b \in Conns : b # c => k1[b] = w.conn[b]
      /\ k1[c].st = "busy" /\ k1[c].on /\ (k1[c].wr <=> (w.conn[c].st = "none" \/ w.conn[c].wr))
      /\ k1[c].open = w.conn[c].open /\ k1[c].mixed = w.conn[c].mixed /\ k1[c] = x1
  BY <1>1, <1>10, <1>6 DEF Backend
<1> HIDE DEF d1, k1
<1>13. a \in HttpsState /\ Same(a, w) /\ D(a) = d1 /\ a.conn = k1 /\ a.out = w.out
  BY <1>1, <1>2, <1>3, <1>11, PutShape DEF Down
<1>14. p = Put(a, D(a), k2, a.out)
  BY <1>13, PushHeadersIs
<1>15. k2 = [k1 EXCEPT ![c] = x2]
  <2>1. Conn(a, 0) = x1
    BY <1>3, <1>12, <1>13 DEF Conn, D
  <2>2. QED
    BY <1>3, <1>13, <2>1 DEF m
<1> HIDE DEF a, k2, x2
<1>16. k2 \in Backend
  BY <1>11, <1>15, <1>8 DEF Backend
<1>17. /\ \A b \in Conns : b # c => k2[b] = w.conn[b]
       /\ k2[c].st = "busy" /\ k2[c].on /\ (k2[c].wr <=> (w.conn[c].st = "none" \/ w.conn[c].wr))
       /\ (k2[c].mixed <=> (w.conn[c].mixed \/ w.conn[c].open)) /\ k2[c].resp = "sent"
  BY <1>11, <1>12, <1>15, <1>6, <1>9 DEF Backend, m
<1>18. p \in HttpsState /\ Same(p, a) /\ D(p) = d1 /\ p.conn = k2 /\ p.out = w.out
  BY <1>1, <1>3, <1>13, <1>14, <1>16, PutShape DEF Down
<1> HIDE DEF p
<1>19. u = Put(p, d2, p.conn, p.out)
  <2>1. p.ds = [i \in {0} |-> D(p)]
    BY <1>18 DEF HttpsState, D
  <2>2. QED
    BY <1>18, <2>1 DEF Put, HttpsState, D
<1>20. d2 \in DownstreamType /\ d2.dconn = c /\ d2.req = "HEADER_COMPLETE" /\ d2.res = D(w).res /\ d2.rd = D(w).rd
  BY <1>3, <1>18 DEF DownstreamType, RequestStates
<1>21. d2 # NullObj
  BY <1>20, NullNotDownstream
<1> HIDE DEF d2
<1>22. u \in HttpsState /\ Same(u, p) /\ D(u) = d2 /\ u.conn = k2 /\ u.out = w.out
  BY <1>1, <1>16, <1>18, <1>19, <1>20, PutShape DEF Down
<1> HIDE DEF u
<1>23. Same(u, w)
  BY <1>13, <1>18, <1>22 DEF Same
<1>24. Tied(d2, k2)
  BY <1>17, <1>20, <1>21, ConnsAreNumbers DEF Tied
<1>25. ASSUME Clean(w.conn) PROVE Clean(k2) /\ k2[c].wr
  <2>1. w.conn[c].st = "none" => w.conn[c] = NewConn
    BY DEF Tied
  <2>2. ~w.conn[c].mixed /\ ~w.conn[c].open /\ (w.conn[c].st = "none" \/ w.conn[c].wr)
    BY <1>25, <2>1 DEF Clean, NewConn
  <2>3. QED
    BY <1>17, <1>25, <2>2 DEF Clean
<1>26. QED
  BY <1>17, <1>20, <1>21, <1>22, <1>23, <1>24, <1>25 DEF u, p, a

LEMMA HdrsParses ==
  ASSUME NEW w \in HttpsState, Tied(D(w), w.conn), w.htp = "ok", w.abort = "none", Place(w) = "head",
         NEW t \in Tokens, t.k = "hd", NEW fail \in BOOLEAN
  PROVE  Parsed(w, HdrsComplete(w, t, fail), "body") /\ HdrsComplete(w, t, fail).abort = "none"
<1> DEFINE f == RequestFields(w, 0, t)
           o == IF t.expect THEN w.out + 1 ELSE w.out
           d == [D(w) EXCEPT !.req_close = t.close, !.chunked = t.chunked]
           v == [f EXCEPT !.out = IF t.expect THEN @ + 1 ELSE @]
           g == GetDownstreamConnection(w)
           u == HdrsComplete(w, t, fail)
<1>1. t.close \in BOOLEAN /\ t.chunked \in BOOLEAN /\ t.expect \in BOOLEAN
  BY DEF Tokens
<1>2. D(w) # NullObj /\ D(w) \in DownstreamType /\ D(w).req = "INITIAL" /\ D(w).dconn = NoConn
      /\ w.out \in Nat /\ w.conn \in Backend
  BY StateParts DEF Place, PlaceOf, Tied
<1>3. d \in DownstreamType /\ d.req = "INITIAL" /\ d.dconn = NoConn /\ d.res = D(w).res /\ d.rd = D(w).rd
  BY <1>1, <1>2 DEF DownstreamType
<1>4. d # NullObj
  BY <1>3, NullNotDownstream
<1>5. f = Put(w, d, w.conn, w.out)
  BY RequestFieldsIs
<1>6. v = Put(w, d, w.conn, o)
  BY <1>2, <1>5 DEF Put, HttpsState
<1>7. o \in Nat /\ (w.out > 0 => o > 0)
  BY <1>2
<1> HIDE DEF d, o, v
<1>8. v \in HttpsState /\ Same(v, w) /\ D(v) = d /\ v.conn = w.conn /\ v.out = o
  BY <1>2, <1>3, <1>6, <1>7, PutShape DEF Down
<1>9. Tied(D(v), v.conn)
  BY <1>2, <1>3, <1>4, <1>8 DEF Tied
<1>10. /\ g.c \in Conns /\ g.new \in BOOLEAN
       /\ w.conn[g.c].st = IF g.new THEN "none" ELSE "idle"
       /\ \A c \in Conns : c # g.c => w.conn[c].st = "none"
  BY <1>2, GetConnection
<1> HIDE DEF g
<1>11. CASE g.new /\ fail
  <2>1. u = [v EXCEPT !.ds[0].req = "CONNECT_FAIL", !.htp = "error"]
    BY <1>11 DEF HdrsComplete, v, f, g
  <2>2. v.ds = [i \in {0} |-> d]
    BY <1>8 DEF HttpsState, D
  <2> DEFINE e == [d EXCEPT !.req = "CONNECT_FAIL"]
  <2>3. e \in DownstreamType /\ e.req = "CONNECT_FAIL" /\ e.dconn = NoConn
    BY <1>3 DEF DownstreamType, RequestStates
  <2>4. u = [Put(v, e, v.conn, v.out) EXCEPT !.htp = "error"]
    <3>1. [v.ds EXCEPT ![0].req = "CONNECT_FAIL"] = [i \in {0} |-> e]
      BY <2>2
    <3>2. u = [v EXCEPT !.ds = [v.ds EXCEPT ![0].req = "CONNECT_FAIL"], !.htp = "error"]
      BY <1>8, <2>1 DEF HttpsState
    <3> HIDE DEF u, e
    <3>3. QED
      BY <1>8, <3>1, <3>2 DEF Put, HttpsState
  <2> HIDE DEF e, u
  <2> DEFINE y == Put(v, e, v.conn, v.out)
  <2>5. y \in HttpsState /\ Same(y, v) /\ D(y) = e /\ y.conn = v.conn /\ y.out = v.out
    BY <1>2, <1>7, <1>8, <2>3, PutShape DEF Down
  <2> HIDE DEF y
  <2>6. Tied(e, v.conn)
    BY <1>4, <1>8, <1>9, <1>3, <2>3, <1>10, NullNotDownstream DEF Tied
  <2>7. Kept(y, w) /\ y.in = w.in /\ y.abort = "none" /\ y.n = w.n
    BY <1>7, <1>8, <2>5 DEF Same, Kept
  <2>8. Orderly(w) => Refusable(y)
    BY <1>2, <2>7 DEF Orderly, Refusable, Kept
  <2>9. QED
    BY <2>4, <2>5, <2>6, <2>7, <2>8, HeaderError DEF y, u
<1>12. CASE ~(g.new /\ fail)
  <2>1. u = [PushRequestHeaders(AttachDownstream(v, 0, g.c), 0) EXCEPT !.ds[0].req = "HEADER_COMPLETE"]
    BY <1>12 DEF HdrsComplete, v, f, g
  <2> HIDE DEF u
  <2>2. /\ u \in HttpsState /\ Same(u, v) /\ u.out = v.out /\ Tied(D(u), u.conn) /\ D(u) # NullObj
        /\ D(u).req = "HEADER_COMPLETE" /\ D(u).dconn = g.c /\ D(u).res = D(v).res /\ D(u).rd = D(v).rd
        /\ Clean(v.conn) => /\ Clean(u.conn) /\ u.conn[g.c].wr /\ u.conn[g.c].on
                            /\ u.conn[g.c].resp = "sent"
    <3>1. v.conn[g.c].st \in {"none", "idle"} /\ \A b \in Conns : b # g.c => v.conn[b].st = "none"
      BY <1>8, <1>10
    <3>2. D(v) # NullObj /\ D(v).req = "INITIAL" /\ g.c \in Conns
      BY <1>3, <1>4, <1>8, <1>10
    <3>3. QED
      BY <1>8, <1>9, <2>1, <3>1, <3>2, AttachFacts
  <2>3. Kept(u, w) /\ u.in = w.in /\ u.abort = "none" /\ u.htp = "ok" /\ u.n = w.n
    BY <1>7, <1>8, <2>2 DEF Same, Kept
  <2>4. Place(u) = "body"
    BY <2>2 DEF Place, PlaceOf
  <2>5. ASSUME Orderly(w) PROVE Orderly(u)
    <3>1. Clean(u.conn) /\ u.conn[g.c].wr /\ u.conn[g.c].on /\ u.conn[g.c].resp = "sent"
      BY <1>8, <2>2, <2>5 DEF Orderly
    <3>2. D(u).res = "INITIAL" /\ D(u).rd = {} /\ D(w).res = "INITIAL"
      BY <1>2, <1>3, <1>8, <2>2, <2>5 DEF Orderly
    <3>3. Served(D(u), u.conn[D(u).dconn], u.out)
      BY <2>2, <3>1, <3>2 DEF Served
    <3>4. g.c # NoConn
      BY <1>10, ConnsAreNumbers
    <3>5. QED
      BY <1>2, <2>2, <2>3, <2>5, <3>1, <3>2, <3>3, <3>4 DEF Orderly, Kept
  <2>6. QED
    BY <2>2, <2>3, <2>4, <2>5 DEF Parsed, u
<1>13. QED
  BY <1>11, <1>12

\* Every token takes the parser where it leads, or stops it.
LEMMA TokenParses ==
  ASSUME NEW w \in HttpsState, Tied(D(w), w.conn), w.htp = "ok", w.abort = "none",
         NEW t \in Tokens, t.k \in Expected(Place(w)), NEW fail \in BOOLEAN
  PROVE  Parsed(w, HtpToken(w, t, fail), PlaceAfter(t))
<1> DEFINE h == HdrsComplete(w, t, fail)
           b == BodyCb(w)
           u == HtpToken(w, t, fail)
<1>1. Place(w) \in {"start", "head", "body"} /\ t.last \in BOOLEAN
  BY DEF Place, PlaceOf, Tokens
<1>2. \/ t.k = "beg" /\ Place(w) = "start"
      \/ t.k \in {"pad", "hd"} /\ Place(w) = "head"
      \/ t.k \in {"bd", "end"} /\ Place(w) = "body"
      \/ t.k = "bad" /\ Place(w) # "start"
  BY <1>1 DEF Expected
<1>3. CASE t.k = "beg" /\ Place(w) = "start"
  <2>1. u = MsgBegin(w) /\ PlaceAfter(t) = "head"
    BY <1>3 DEF HtpToken, PlaceAfter
  <2>2. QED
    BY <1>3, <2>1, MsgBeginParses
<1>4. CASE t.k = "pad" /\ Place(w) = "head"
  <2>1. u = w /\ PlaceAfter(t) = "head"
    BY <1>4 DEF HtpToken, PlaceAfter
  <2>2. Parsed(w, w, "head")
    BY <1>4 DEF Parsed, Kept
  <2>3. QED
    BY <2>1, <2>2
<1>5. CASE t.k = "hd" /\ Place(w) = "head"
  <2>1. u = IF h.htp = "ok" /\ t.last THEN MsgComplete(h) ELSE h
    BY <1>5 DEF HtpToken
  <2>2. PlaceAfter(t) = IF t.last THEN "start" ELSE "body"
    BY <1>1, <1>5 DEF PlaceAfter
  <2>3. Parsed(w, h, "body") /\ h.abort = "none"
    BY <1>5, HdrsParses
  <2> HIDE DEF h, u
  <2>4. CASE h.htp = "ok" /\ t.last
    <3>1. h \in HttpsState /\ Tied(D(h), h.conn) /\ Place(h) = "body"
      BY <2>3, <2>4 DEF Parsed
    <3>2. Parsed(h, MsgComplete(h), "start")
      BY <2>3, <2>4, <3>1, MsgCompleteParses
    <3>3. QED
      BY <2>1, <2>2, <2>3, <2>4, <3>2 DEF Parsed, Kept, u
  <2>5. CASE h.htp # "ok" /\ t.last
    <3>1. h.htp = "error"
      BY <2>3, <2>5 DEF Parsed, HttpsState, Place
    <3>2. QED
      BY <2>1, <2>3, <2>5, <3>1 DEF Parsed, u
  <2>6. CASE ~t.last
    BY <2>1, <2>2, <2>3, <2>6 DEF u
  <2>7. QED
    BY <2>4, <2>5, <2>6
<1>6. CASE t.k = "bd" /\ Place(w) = "body"
  <2>1. u = IF b.htp = "ok" /\ t.last THEN MsgComplete(b) ELSE b
    BY <1>6 DEF HtpToken
  <2>2. PlaceAfter(t) = IF t.last THEN "start" ELSE "body"
    BY <1>1, <1>6 DEF PlaceAfter
  <2>3. Parsed(w, b, "body") /\ b.abort = "none"
    BY <1>6, BodyParses
  <2> HIDE DEF b, u
  <2>4. CASE b.htp = "ok" /\ t.last
    <3>1. b \in HttpsState /\ Tied(D(b), b.conn) /\ Place(b) = "body"
      BY <2>3, <2>4 DEF Parsed
    <3>2. Parsed(b, MsgComplete(b), "start")
      BY <2>3, <2>4, <3>1, MsgCompleteParses
    <3>3. QED
      BY <2>1, <2>2, <2>3, <2>4, <3>2 DEF Parsed, Kept, u
  <2>5. CASE b.htp # "ok" /\ t.last
    <3>1. b.htp = "error"
      BY <2>3, <2>5 DEF Parsed, HttpsState, Place
    <3>2. QED
      BY <2>1, <2>3, <2>5, <3>1 DEF Parsed, u
  <2>6. CASE ~t.last
    BY <2>1, <2>2, <2>3, <2>6 DEF u
  <2>7. QED
    BY <2>4, <2>5, <2>6
<1>7. CASE t.k = "end" /\ Place(w) = "body"
  <2>1. u = MsgComplete(w) /\ PlaceAfter(t) = "start"
    BY <1>7 DEF HtpToken, PlaceAfter
  <2>2. QED
    BY <1>7, <2>1, MsgCompleteParses
<1>8. CASE t.k = "bad" /\ Place(w) # "start"
  <2>1. u = [w EXCEPT !.htp = "error"]
    BY <1>8 DEF HtpToken
  <2>2. D(w) # NullObj
    BY <1>8 DEF Place, PlaceOf
  <2>3. (Orderly(w) => Refusable(w)) /\ Kept(w, w)
    BY <2>2, OrderlyRefusable DEF Kept
  <2> HIDE DEF u
  <2>4. QED
    BY <2>1, <2>3, HeaderError DEF u
<1>9. QED
  BY <1>2, <1>3, <1>4, <1>5, <1>6, <1>7, <1>8

\* The parser on its way through the input of w, i tokens later.
Midway(w, i, v) ==
  /\ v \in HttpsState /\ Kept(v, w) /\ Tied(D(v), v.conn) /\ Len(v.in) <= Len(w.in)
  /\ v.htp # "error" /\ v.abort = "none" => Agreed(v) /\ EndPlace(v) = EndPlace(w)
  /\ v.htp = "ok" /\ v.abort = "none" => Len(v.in) = Len(w.in) - i
  /\ v.htp = "paused" => Place(v) = "start"
  /\ v.htp = "error" => v.abort = "none"
  /\ w.htp = "error" => v.htp = "error"
  /\ Orderly(w) => IF v.htp = "error" THEN Refusable(v) ELSE Orderly(v)

LEMMA TailFacts ==
  ASSUME NEW s \in Seq(Tokens), s # <<>>, Chained(s)
  PROVE  /\ Len(s) \in Nat /\ Len(s) > 0 /\ Tail(s) \in Seq(Tokens) /\ Len(Tail(s)) = Len(s) - 1
         /\ Head(s) = s[1] /\ s[1] \in Tokens
         /\ Chained(Tail(s))
         /\ Tail(s) # <<>> => /\ Tail(s)[1].k \in Expected(PlaceAfter(s[1]))
                              /\ Tail(s)[Len(Tail(s))] = s[Len(s)]
         /\ Tail(s) = <<>> => Len(s) = 1
<1>1. Len(s) \in Nat /\ Len(s) > 0 /\ Tail(s) \in Seq(Tokens) /\ Len(Tail(s)) = Len(s) - 1
      /\ Head(s) = s[1] /\ s[1] \in Tokens
  OBVIOUS
<1>2. \A i \in 1..(Len(s) - 1) : Tail(s)[i] = s[i + 1]
  OBVIOUS
<1>3. Chained(Tail(s))
  <2> SUFFICES ASSUME NEW i \in 1..(Len(Tail(s)) - 1)
               PROVE  Tail(s)[i + 1].k \in Expected(PlaceAfter(Tail(s)[i]))
    BY DEF Chained
  <2>1. i \in 1..(Len(s) - 1) /\ i + 1 \in 1..(Len(s) - 1)
    BY <1>1
  <2>2. QED
    BY <1>2, <2>1 DEF Chained
<1>4. ASSUME Tail(s) # <<>>
      PROVE  Tail(s)[1].k \in Expected(PlaceAfter(s[1])) /\ Tail(s)[Len(Tail(s))] = s[Len(s)]
  <2>1. Len(s) - 1 > 0
    BY <1>1, <1>4
  <2>2. 1 \in 1..(Len(s) - 1) /\ Len(s) - 1 \in 1..(Len(s) - 1)
    BY <1>1, <2>1
  <2>3. Tail(s)[1] = s[1 + 1] /\ Tail(s)[Len(Tail(s))] = s[Len(s)]
    BY <1>1, <1>2, <2>2
  <2>4. s[1 + 1].k \in Expected(PlaceAfter(s[1]))
    BY <2>2 DEF Chained
  <2>5. QED
    BY <2>3, <2>4
<1>5. Tail(s) = <<>> => Len(s) = 1
  <2>1. Len(<<>>) = 0
    OBVIOUS
  <2>2. Tail(s) = <<>> => Len(s) - 1 = 0
    BY <1>1, <2>1
  <2>3. QED
    BY <1>1, <2>2
<1>6. QED
  BY <1>1, <1>3, <1>4, <1>5

LEMMA ParseTokenKeeps ==
  ASSUME NEW w \in HttpsState, NEW v, NEW i \in 1..Len(w.in), Midway(w, i - 1, v), NEW fail \in BOOLEAN
  PROVE  Midway(w, i, ParseToken(v, fail))
<1> DEFINE u == ParseToken(v, fail)
<1>1. v \in HttpsState
  BY DEF Midway
<1>2. Len(w.in) \in Nat /\ v \in HttpsState /\ v.in \in Seq(Tokens) /\ Len(v.in) \in Nat
  <2>1. w.in \in Seq(Tokens) /\ v.in \in Seq(Tokens)
    BY <1>1 DEF HttpsState
  <2>2. QED
    BY <1>1, <2>1
<1>3. CASE ~(v.htp = "ok" /\ v.abort = "none")
  <2>1. u = v
    BY <1>3 DEF ParseToken
  <2>2. QED
    BY <1>3, <2>1 DEF Midway
<1>4. CASE v.htp = "ok" /\ v.abort = "none"
  <2> DEFINE x == [v EXCEPT !.in = Tail(@)]
             t == Head(v.in)
             y == HtpToken(x, t, fail)
  <2>1. Len(v.in) = Len(w.in) - (i - 1) /\ Agreed(v) /\ EndPlace(v) = EndPlace(w)
    BY <1>4 DEF Midway
  <2>2. v.in # <<>>
    BY <1>2, <2>1
  <2>3. u = [y EXCEPT !.hdr = @ + 1]
    BY <1>4, <2>2 DEF ParseToken
  <2>4. Chained(v.in) /\ v.in[1].k \in Expected(Place(v))
    BY <2>1, <2>2 DEF Agreed
  <2>5. /\ Tail(v.in) \in Seq(Tokens) /\ Len(Tail(v.in)) = Len(v.in) - 1
        /\ t = v.in[1] /\ t \in Tokens /\ Chained(Tail(v.in))
        /\ Tail(v.in) # <<>> => /\ Tail(v.in)[1].k \in Expected(PlaceAfter(t))
                                /\ Tail(v.in)[Len(Tail(v.in))] = v.in[Len(v.in)]
        /\ Tail(v.in) = <<>> => Len(v.in) = 1
    BY <1>2, <2>2, <2>4, TailFacts
  <2>6. x \in HttpsState /\ Same([x EXCEPT !.in = v.in], v) /\ x.in = Tail(v.in) /\ D(x) = D(v) /\ x.conn = v.conn
        /\ x.htp = "ok" /\ x.abort = "none" /\ Kept(x, v) /\ x.n = v.n /\ x.out = v.out
    BY <1>2, <1>4, <2>5 DEF HttpsState, Same, Kept, D
  <2> HIDE DEF x, t
  <2>7. Parsed(x, y, PlaceAfter(t))
    <3>1. Tied(D(x), x.conn) /\ t.k \in Expected(Place(x))
      BY <2>4, <2>5, <2>6 DEF Midway, Place
    <3>2. QED
      BY <2>5, <2>6, <3>1, TokenParses
  <2> HIDE DEF y
  <2>8. y \in HttpsState /\ y.hdr + 1 \in Nat
    BY <2>7, StateParts DEF Parsed
  <2>9. u \in HttpsState /\ Kept(u, y) /\ u.in = y.in /\ D(u) = D(y) /\ u.conn = y.conn
        /\ u.htp = y.htp /\ u.abort = y.abort /\ u.n = y.n /\ u.out = y.out
    BY <2>3, <2>8 DEF HttpsState, Kept, D
  <2> HIDE DEF u
  <2>10. Kept(u, w) /\ Tied(D(u), u.conn) /\ u.in = Tail(v.in)
    BY <2>6, <2>7, <2>9 DEF Midway, Kept, Parsed
  <2>11. Len(u.in) = Len(w.in) - i /\ Len(u.in) <= Len(w.in)
    <3>1. Len(u.in) = Len(v.in) - 1
      BY <2>5, <2>10
    <3>2. i \in Nat
      BY <1>2
    <3>3. QED
      BY <1>2, <2>1, <3>1, <3>2
  <2>12. ASSUME u.htp # "error", u.abort = "none" PROVE Agreed(u) /\ EndPlace(u) = EndPlace(w)
    <3>1. Place(u) = PlaceAfter(t)
      BY <2>7, <2>9, <2>12 DEF Parsed, Place
    <3>2. Agreed(u)
      BY <2>5, <2>10, <3>1 DEF Agreed
    <3>3. EndPlace(v) = PlaceAfter(v.in[Len(v.in)])
      BY <2>2 DEF EndPlace
    <3>4. EndPlace(u) = PlaceAfter(v.in[Len(v.in)])
      BY <2>5, <2>10, <3>1 DEF EndPlace
    <3>5. QED
      BY <2>1, <3>2, <3>3, <3>4
  <2>13. u.htp = "paused" => Place(u) = "start"
    BY <2>7, <2>9 DEF Parsed, Place
  <2>14. u.htp = "error" => u.abort = "none"
    BY <2>7, <2>9 DEF Parsed
  <2>15. w.htp # "error"
    BY <1>4 DEF Midway
  <2>16. ASSUME Orderly(w) PROVE IF u.htp = "error" THEN Refusable(u) ELSE Orderly(u)
    <3>1. Orderly(v)
      BY <1>4, <2>16 DEF Midway
    <3>2. Orderly(x)
      BY <1>4, <2>6, <3>1 DEF Orderly, Kept
    <3>3. IF y.htp = "error" THEN Refusable(y) ELSE Orderly(y)
      BY <2>7, <3>2 DEF Parsed
    <3>4. QED
      BY <2>9, <3>3 DEF Orderly, Refusable, Kept
  <2>17. QED
    BY <2>9, <2>10, <2>11, <2>12, <2>13, <2>14, <2>15, <2>16 DEF Midway, u
<1>5. QED
  BY <1>3, <1>4

RunTo(w, fail, n, f) == f = [i \in 0..n |-> IF i = 0 THEN w ELSE ParseToken(f[i - 1], fail)]

LEMMA RunExists ==
  ASSUME NEW w, NEW fail, NEW n \in Nat
  PROVE  \E f : RunTo(w, fail, n, f)
<1> DEFINE T == {k \in Nat : ~\E f : RunTo(w, fail, k, f)}
<1> SUFFICES ASSUME T # {} PROVE FALSE
  OBVIOUS
<1>1. PICK m \in T : \A k \in T : ~(k < m)
  <2>1. T \subseteq Nat
    OBVIOUS
  <2> HIDE DEF T
  <2>2. QED
    BY <2>1, LeastNumber
<1>2. m # 0
  <2> DEFINE f == [i \in 0..0 |-> w]
  <2>1. f = [i \in 0..0 |-> IF i = 0 THEN w ELSE ParseToken(f[i - 1], fail)]
    OBVIOUS
  <2>2. RunTo(w, fail, 0, f)
    BY <2>1 DEF RunTo
  <2>3. QED
    BY <2>2
<1>3. m \in Nat /\ m - 1 \in Nat /\ m - 1 < m
  BY <1>1, <1>2
<1>4. PICK f : RunTo(w, fail, m - 1, f)
  BY <1>1, <1>3
<1>5. f = [i \in 0..(m - 1) |-> IF i = 0 THEN w ELSE ParseToken(f[i - 1], fail)]
  BY <1>4 DEF RunTo
<1> DEFINE g == [i \in 0..m |-> IF i = m THEN ParseToken(f[m - 1], fail) ELSE f[i]]
<1>6. ASSUME NEW i \in 0..m PROVE g[i] = IF i = 0 THEN w ELSE ParseToken(g[i - 1], fail)
  <2>1. CASE i = m
    <3>1. g[m - 1] = f[m - 1]
      BY <1>3
    <3>2. QED
      BY <2>1, <3>1, <1>2
  <2>2. CASE i # m
    <3>1. i \in 0..(m - 1)
      BY <2>2, <1>3
    <3>2. f[i] = IF i = 0 THEN w ELSE ParseToken(f[i - 1], fail)
      BY <3>1, <1>5
    <3>3. i # 0 => i - 1 \in 0..m /\ i - 1 # m
      BY <1>3, <3>1
    <3>4. QED
      BY <2>2, <3>2, <3>3
  <2>3. QED
    BY <2>1, <2>2
<1>7. g = [i \in 0..m |-> IF i = 0 THEN w ELSE ParseToken(g[i - 1], fail)]
  BY <1>6
<1>8. RunTo(w, fail, m, g)
  BY <1>7 DEF RunTo
<1>9. QED
  BY <1>1, <1>8

\* Induction over the tokens that http_parser_execute reads: G[i] holds what may
\* be reached after i of them.
LEMMA ExecuteInduction ==
  ASSUME NEW w \in HttpsState, NEW fail, NEW G, w \in G[0],
         \A i \in 1..Len(w.in) : \A v \in G[i - 1] : ParseToken(v, fail) \in G[i]
  PROVE  Execute(w, fail) \in G[Len(w.in)]
<1> DEFINE n == Len(w.in)
<1>1. n \in Nat
  <2>1. w.in \in Seq(Tokens)
    BY DEF HttpsState
  <2>2. QED
    BY <2>1
<1> DEFINE run == CHOOSE f : RunTo(w, fail, n, f)
<1>2. RunTo(w, fail, n, run)
  BY <1>1, RunExists
<1>3. Execute(w, fail) = run[n]
  BY Zenon DEF Execute, RunTo
<1> HIDE DEF run, n
<1> DEFINE T == {k \in 0..n : run[k] \notin G[k]}
<1> SUFFICES ASSUME T # {} PROVE FALSE
  BY <1>1, <1>3 DEF n
<1>4. PICK m \in T : \A k \in T : ~(k < m)
  <2>1. T \subseteq Nat
    BY <1>1
  <2> HIDE DEF T
  <2>2. QED
    BY <2>1, LeastNumber
<1>5. \A i \in 0..n : run[i] = IF i = 0 THEN w ELSE ParseToken(run[i - 1], fail)
  BY <1>2 DEF RunTo
<1>6. m # 0
  BY <1>1, <1>4, <1>5
<1>7. m \in 1..n /\ m - 1 \in 0..n /\ m - 1 < m
  BY <1>1, <1>6
<1>8. run[m - 1] \in G[m - 1]
  BY <1>4, <1>7
<1>9. run[m] = ParseToken(run[m - 1], fail)
  BY <1>5, <1>6, <1>7
<1>10. QED
  BY <1>7, <1>8, <1>9 DEF n

\* A parser that has stopped, or has no input, leaves everything as it is.
LEMMA ExecuteStops ==
  ASSUME NEW w \in HttpsState, NEW fail, w.htp # "ok" \/ w.in = <<>>
  PROVE  Execute(w, fail) = w
<1> DEFINE n == Len(w.in)
           G == [i \in 0..n |-> {w}]
<1>1. n \in Nat
  <2>1. w.in \in Seq(Tokens)
    BY DEF HttpsState
  <2>2. QED
    BY <2>1
<1>2. ParseToken(w, fail) = w
  BY DEF ParseToken
<1>3. w \in G[0]
  BY <1>1
<1>4. ASSUME NEW i \in 1..n, NEW v \in G[i - 1] PROVE ParseToken(v, fail) \in G[i]
  BY <1>1, <1>2
<1> HIDE DEF G
<1>5. Execute(w, fail) \in G[n]
  BY <1>3, <1>4, ExecuteInduction
<1>6. QED
  BY <1>1, <1>5 DEF G

LEMMA ExecuteKeeps ==
  ASSUME NEW w \in HttpsState, NEW fail \in BOOLEAN, Tied(D(w), w.conn), w.abort = "none",
         w.htp # "error" => Agreed(w), w.htp = "paused" => Place(w) = "start"
  PROVE  Midway(w, IF w.htp = "ok" THEN Len(w.in) ELSE 0, Execute(w, fail))
<1>1. Len(w.in) \in Nat
  <2>1. w.in \in Seq(Tokens)
    BY DEF HttpsState
  <2>2. QED
    BY <2>1
<1>2. Midway(w, 0, w)
  BY <1>1 DEF Midway, Kept, Orderly
<1> DEFINE n == Len(w.in)
           G == [i \in 0..n |-> {v \in HttpsState : Midway(w, i, v)}]
<1>3. w \in G[0]
  BY <1>1, <1>2
<1>4. ASSUME NEW i \in 1..n, NEW v \in G[i - 1] PROVE ParseToken(v, fail) \in G[i]
  <2>1. i \in 0..n /\ i - 1 \in 0..n
    BY <1>1
  <2>2. Midway(w, i - 1, v)
    BY <2>1
  <2>3. Midway(w, i, ParseToken(v, fail))
    BY <2>2, ParseTokenKeeps
  <2>4. ParseToken(v, fail) \in HttpsState
    BY <2>3 DEF Midway
  <2>5. QED
    BY <2>1, <2>3, <2>4
<1> HIDE DEF G
<1>5. Execute(w, fail) \in G[n]
  BY <1>3, <1>4, ExecuteInduction
<1>6. Midway(w, n, Execute(w, fail))
  BY <1>1, <1>5 DEF G
<1>7. CASE w.htp # "ok"
  <2>1. Execute(w, fail) = w
    BY <1>7, ExecuteStops
  <2>2. QED
    BY <1>2, <1>7, <2>1
<1>8. QED
  BY <1>6, <1>7
-----------------------------------------------------------------------------
(* error_reply, on_read and resume_read of HttpsUpstream.                  *)

LEMMA ErrorReplyFacts ==
  ASSUME NEW w \in HttpsState
  PROVE  LET e == ErrorReply(w)
         IN  /\ e \in HttpsState /\ e.conn = w.conn /\ e.out = w.out + 1 /\ e.heads = Append(w.heads, w.n)
             /\ D(e) = IF D(w) = NullObj THEN NullObj ELSE [D(w) EXCEPT !.res = "MSG_COMPLETE"]
             /\ e.final = IF w.close /\ w.final = 0 THEN Len(w.heads) + 1 ELSE w.final
             /\ e.up = w.up /\ e.in = w.in /\ e.rcb = w.rcb /\ e.rd = w.rd /\ e.htp = w.htp
             /\ e.close = w.close /\ e.n = w.n /\ e.early = w.early /\ e.refused = w.refused
             /\ e.extra = w.extra /\ e.abort = w.abort
<1> DEFINE d == IF D(w) = NullObj THEN NullObj ELSE [D(w) EXCEPT !.res = "MSG_COMPLETE"]
           e == ErrorReply(w)
           h == Append(w.heads, w.n)
           f == IF w.close /\ w.final = 0 THEN Len(w.heads) + 1 ELSE w.final
<1>1. w.ds = [i \in {0} |-> D(w)] /\ w.heads \in Seq(Nat) /\ w.n \in Nat /\ w.out \in Nat
      /\ w.final \in Nat
  BY DEF HttpsState, D
<1>2. h \in Seq(Nat) /\ w.out + 1 \in Nat /\ f \in Nat
  BY <1>1
<1>3. d \in {NullObj} \cup DownstreamType
  <2>1. CASE D(w) # NullObj
    <3>1. D(w) \in DownstreamType
      BY <2>1, StateParts
    <3>2. QED
      BY <2>1, <3>1 DEF DownstreamType, ResponseStates
  <2>2. QED
    BY <2>1
<1>4. (IF Exists(w, 0) THEN [w.ds EXCEPT ![0].res = "MSG_COMPLETE"] ELSE w.ds) = [i \in {0} |-> d]
  BY <1>1 DEF Exists, D
<1>5. WriteHead(w, w.close) = [w EXCEPT !.out = w.out + 1, !.heads = h, !.final = f]
  BY DEF WriteHead
<1> DEFINE q == WriteHead(w, w.close)
<1>6. q.ds = w.ds
  BY <1>5 DEF HttpsState
<1>7. e = [q EXCEPT !.ds = [i \in {0} |-> d]]
  BY <1>4, <1>6 DEF ErrorReply
<1> HIDE DEF d, h, e, f, q
<1>8. e = [w EXCEPT !.out = w.out + 1, !.heads = h, !.final = f, !.ds = [i \in {0} |-> d]]
  BY <1>5, <1>7 DEF HttpsState, q
<1>9. e \in HttpsState
  BY <1>2, <1>3, <1>8 DEF HttpsState
<1>10. e.ds = [i \in {0} |-> d] /\ e.conn = w.conn /\ e.out = w.out + 1 /\ e.heads = h /\ e.final = f
      /\ e.up = w.up /\ e.in = w.in /\ e.rcb = w.rcb /\ e.rd = w.rd /\ e.htp = w.htp
      /\ e.close = w.close /\ e.n = w.n /\ e.early = w.early /\ e.refused = w.refused
      /\ e.extra = w.extra /\ e.abort = w.abort
  BY <1>8 DEF HttpsState
<1>11. D(e) = d
  BY <1>10 DEF D
<1>12. QED
  BY <1>9, <1>10, <1>11 DEF d, h, e, f

\* A response that ends leaves the request and its pointers alone.
LEMMA ErrorReplyKeeps ==
  ASSUME NEW w \in HttpsState, Tied(D(w), w.conn)
  PROVE  LET e == ErrorReply(w)
         IN  /\ Tied(D(e), e.conn) /\ Place(e) = Place(w) /\ (D(e) = NullObj <=> D(w) = NullObj)
             /\ D(w) # NullObj => /\ D(e).res = "MSG_COMPLETE" /\ D(e).req = D(w).req
                                  /\ D(e).dconn = D(w).dconn
<1> DEFINE e == ErrorReply(w)
<1>1. D(e) = (IF D(w) = NullObj THEN NullObj ELSE [D(w) EXCEPT !.res = "MSG_COMPLETE"]) /\ e.conn = w.conn
      /\ e \in HttpsState
  BY ErrorReplyFacts
<1> HIDE DEF e
<1>2. CASE D(w) = NullObj
  BY <1>1, <1>2 DEF Place, e
<1>3. CASE D(w) # NullObj
  <2>1. D(w) \in DownstreamType
    BY <1>3, StateParts
  <2>2. D(e) \in DownstreamType /\ D(e).res = "MSG_COMPLETE" /\ D(e).req = D(w).req /\ D(e).dconn = D(w).dconn
    BY <1>1, <1>3, <2>1 DEF DownstreamType, ResponseStates
  <2>3. D(e) # NullObj
    BY <2>2, NullNotDownstream
  <2>4. Tied(D(e), e.conn)
    BY <1>1, <1>3, <2>2, <2>3 DEF Tied
  <2>5. Place(e) = Place(w)
    BY <1>3, <2>2, <2>3 DEF Place, PlaceOf
  <2>6. QED
    BY <1>3, <2>2, <2>3, <2>4, <2>5 DEF e
<1>4. QED
  BY <1>2, <1>3

\* What everything that may call the parser keeps.
Carried(w, v) ==
  /\ v \in HttpsState /\ Tied(D(v), v.conn) /\ v.up = w.up /\ (w.early => v.early)
  /\ Len(v.in) <= Len(w.in) /\ (w.refused => v.refused)
  /\ v.htp # "error" /\ v.abort = "none" => Agreed(v) /\ EndPlace(v) = EndPlace(w)
  /\ v.htp = "paused" => Place(v) = "start"
  /\ w.htp = "error" => v.htp = "error"

\* on_read has refused what the parser has met, or has read all it may.
Settled(v) == v.refused \/ (Orderly(v) /\ Paused(v) /\ (v.in # <<>> => v.rd # {}))

Resumed(w, v) ==
  /\ Carried(w, v) /\ (Orderly(w) /\ Paused(w) => Settled(v))
  /\ Recorded(w) /\ (InOrderly(w) => Orderly(w)) => Recorded(v)

LEMMA BadRequestResumes ==
  ASSUME NEW w \in HttpsState, NEW x \in HttpsState, NEW i, Midway(w, i, x), Orderly(w) => Refusable(x)
  PROVE  Resumed(w, BadRequest(x))
<1> DEFINE a == x.early \/ (Exists(x, 0) /\ D(x).res = "HEADER_COMPLETE")
           y == [x EXCEPT !.close = TRUE, !.refused = TRUE, !.early = a]
           v == ErrorReply(y)
<1>1. BadRequest(x) = v
  BY DEF BadRequest
<1>2. a \in BOOLEAN /\ (x.early => a) /\ (D(x) # NullObj /\ D(x).res = "HEADER_COMPLETE" => a)
  BY StateParts DEF HttpsState
<1> HIDE DEF a
<1>3. y \in HttpsState /\ D(y) = D(x) /\ y.conn = x.conn /\ y.refused = TRUE /\ y.up = x.up /\ y.early = a
      /\ y.rcb = x.rcb /\ y.in = x.in /\ y.htp = x.htp /\ y.abort = x.abort /\ y.close = TRUE
      /\ y.heads = x.heads /\ y.final = x.final /\ y.n = x.n /\ y.extra = x.extra /\ y.out = x.out
  BY <1>2 DEF HttpsState, D
<1> HIDE DEF y
<1>4. Tied(D(y), y.conn)
  BY <1>3 DEF Midway
<1>5. v \in HttpsState /\ v.up = y.up /\ v.in = y.in /\ v.rcb = y.rcb /\ v.htp = y.htp
      /\ v.early = y.early /\ v.refused = y.refused /\ v.abort = y.abort /\ v.close = y.close
      /\ v.out = y.out + 1 /\ v.heads = Append(y.heads, y.n) /\ v.extra = y.extra
      /\ v.final = IF y.close /\ y.final = 0 THEN Len(y.heads) + 1 ELSE y.final
  BY <1>3, ErrorReplyFacts
<1>6. Tied(D(v), v.conn) /\ Place(v) = Place(y)
  BY <1>3, <1>4, ErrorReplyKeeps
<1> HIDE DEF v
<1>7. Place(v) = Place(x)
  BY <1>3, <1>6 DEF Place
<1>8. v.htp # "error" /\ v.abort = "none" => Agreed(v) /\ EndPlace(v) = EndPlace(w)
  <2>1. v.in = x.in /\ v.htp = x.htp /\ v.abort = x.abort
    BY <1>3, <1>5
  <2>2. x.htp # "error" /\ x.abort = "none" => Agreed(x) /\ EndPlace(x) = EndPlace(w)
    BY DEF Midway
  <2>3. EndPlace(v) = EndPlace(x) /\ (Agreed(x) => Agreed(v))
    BY <1>7, <2>1 DEF EndPlace, Agreed
  <2>4. QED
    BY <2>1, <2>2, <2>3
<1>9. v.htp = "paused" => Place(v) = "start"
  BY <1>3, <1>5, <1>7 DEF Midway
<1>10. Carried(w, v) /\ Settled(v)
  BY <1>2, <1>3, <1>5, <1>6, <1>8, <1>9 DEF Carried, Settled, Midway, Kept
<1>11. ASSUME Recorded(w), InOrderly(w) => Orderly(w) PROVE Recorded(v)
  <2>1. x.heads = w.heads /\ x.final = w.final /\ x.early = w.early /\ x.extra = w.extra
    BY DEF Midway, Kept
  <2>2. Fixed(y)
    BY <1>2, <1>3, <1>11, <2>1 DEF Recorded, Fixed
  <2>3. ASSUME y.final = 0, ~v.early, ~v.extra PROVE y.n > 0 /\ y.heads = Count(y.n - 1)
    <3>1. ~w.early /\ ~w.refused
      BY <1>2, <1>3, <1>5, <1>11, <2>1, <2>3 DEF Recorded, Refusal
    <3>2. Refusable(x)
      BY <1>11, <3>1 DEF InOrderly
    <3>3. QED
      BY <1>2, <1>3, <1>5, <2>3, <3>2 DEF Refusable
  <2>4. Fixed(v) /\ v.final # 0
    BY <1>3, <1>5, <2>2, <2>3, HeadRecorded
  <2>5. v.out > 0
    BY <1>3, <1>5, StateParts
  <2>6. QED
    BY <1>3, <1>5, <2>4, <2>5 DEF Recorded, Refusal, Waits
<1>12. QED
  BY <1>1, <1>10, <1>11 DEF Resumed

\* ~Downstream deletes the connection that is attached; one in the pool stays.
LEMMA DeleteDownstreamFacts ==
  ASSUME NEW w \in HttpsState, Tied(D(w), w.conn), D(w) # NullObj
  PROVE  LET v == DeleteDownstream(w, 0)
         IN  /\ v \in HttpsState /\ Same(v, w) /\ v.out = w.out /\ D(v) = NullObj /\ Tied(D(v), v.conn)
             /\ Clean(w.conn) => Clean(v.conn)
<1> DEFINE c == D(w).dconn
           x == IF c = NoConn THEN w ELSE DeleteConn(w, c)
           v == [x EXCEPT !.ds[0] = NullObj]
           k == IF c = NoConn THEN w.conn ELSE [w.conn EXCEPT ![c] = NewConn]
<1>1. DeleteDownstream(w, 0) = v
  BY DEF DeleteDownstream, D
<1>2. D(w) \in DownstreamType /\ w.conn \in Backend /\ w.out \in Nat
  BY StateParts
<1>3. c \in {NoConn} \cup Conns
  BY <1>2 DEF DownstreamType
<1>4. NewConn \in ConnType({0}) /\ NewConn.st = "none" /\ ~NewConn.mixed
  BY DEF NewConn, ConnType
<1>5. k \in Backend
  BY <1>2, <1>3, <1>4 DEF Backend
<1>6. x \in HttpsState /\ Same(x, w) /\ x.conn = k /\ x.out = w.out
  <2>1. CASE c = NoConn
    BY <2>1 DEF Same
  <2>2. CASE c # NoConn
    <3> DEFINE d == IF w.conn[c].st = "busy" /\ Exists(w, 0) THEN [D(w) EXCEPT !.dconn = NoConn] ELSE D(w)
    <3>1. c \in Conns
      BY <1>3, <2>2
    <3>2. x = Put(w, d, k, w.out)
      BY <2>2, <3>1, DeleteConnIs
    <3>3. d \in Down
      BY <1>2 DEF Down, DownstreamType
    <3> HIDE DEF d, k, x
    <3>4. QED
      BY <1>2, <1>5, <3>2, <3>3, PutShape
  <2>3. QED
    BY <2>1, <2>2
<1> HIDE DEF x, k
<1>7. v = Put(x, NullObj, x.conn, x.out)
  <2>1. x.ds = [i \in {0} |-> D(x)]
    BY <1>6 DEF HttpsState, D
  <2>2. QED
    BY <1>6, <2>1 DEF Put, HttpsState
<1>8. v \in HttpsState /\ Same(v, x) /\ D(v) = NullObj /\ v.conn = k /\ v.out = w.out
  <2>1. NullObj \in Down /\ x.conn \in Backend /\ x.out \in Nat
    BY <1>2, <1>5, <1>6 DEF Down
  <2> HIDE DEF v
  <2>2. QED
    BY <1>6, <1>7, <2>1, PutShape
<1> HIDE DEF v
<1>9. Same(v, w)
  BY <1>6, <1>8 DEF Same
<1>10. \A b \in Conns : (b # c => k[b] = w.conn[b]) /\ (b = c => k[b] = NewConn)
  BY <1>2, <1>3, ConnsAreNumbers DEF k, Backend
<1>11. Tied(NullObj, k)
  <2>1. \A b \in Conns : w.conn[b].st = "busy" => b = c
    BY DEF Tied
  <2> HIDE DEF c
  <2>2. QED
    BY <1>4, <1>10, <2>1 DEF Tied
<1>12. Clean(w.conn) => Clean(k)
  <2> HIDE DEF c
  <2>1. QED
    BY <1>4, <1>10 DEF Clean
<1>13. QED
  BY <1>1, <1>8, <1>9, <1>11, <1>12

LEMMA OnReadResumes ==
  ASSUME NEW w \in HttpsState, NEW fail \in BOOLEAN, Tied(D(w), w.conn), w.abort = "none",
         w.htp # "error" => Agreed(w), w.htp = "paused" => Place(w) = "start"
  PROVE  Resumed(w, OnRead(w, fail))
<1> DEFINE x == Execute(w, fail)
           v == OnRead(w, fail)
<1>1. Midway(w, IF w.htp = "ok" THEN Len(w.in) ELSE 0, x)
  BY ExecuteKeeps
<1>2. x \in HttpsState /\ Kept(x, w) /\ Tied(D(x), x.conn) /\ Len(x.in) <= Len(w.in)
      /\ (x.htp # "error" /\ x.abort = "none" => Agreed(x) /\ EndPlace(x) = EndPlace(w))
      /\ (x.htp = "paused" => Place(x) = "start") /\ (x.htp = "error" => x.abort = "none")
      /\ (w.htp = "error" => x.htp = "error")
      /\ (Orderly(w) => IF x.htp = "error" THEN Refusable(x) ELSE Orderly(x))
  BY <1>1 DEF Midway
<1>3. Recorded(w) => Recorded(x)
  <2>1. Later(w, x)
    BY <1>2 DEF Kept, Later
  <2>2. QED
    BY <2>1, LaterRecorded
<1>4. w.htp # "ok" => x = w
  BY ExecuteStops
<1>5. x.htp = "ok" /\ x.abort = "none" => x.in = <<>>
  <2>1. w.in \in Seq(Tokens) /\ x.in \in Seq(Tokens)
    BY <1>2 DEF HttpsState
  <2>2. ASSUME x.htp = "ok", x.abort = "none" PROVE Len(x.in) = 0
    <3>1. w.htp = "ok"
      BY <1>4, <2>2
    <3>2. Len(x.in) = Len(w.in) - Len(w.in)
      BY <1>1, <2>2, <3>1 DEF Midway
    <3>3. Len(w.in) \in Nat
      BY <2>1
    <3>4. QED
      BY <3>2, <3>3
  <2>3. QED
    BY <2>1, <2>2
<1>6. w.in = <<>> => x = w
  BY ExecuteStops
<1>7. w.htp \in {"ok", "paused", "error"} /\ x.htp \in {"ok", "paused", "error"}
  BY <1>2 DEF HttpsState
<1>8. CASE w.in = <<>>
  <2>1. v = w
    BY <1>6, <1>8 DEF OnRead
  <2> HIDE DEF v
  <2>2. Len(w.in) <= Len(w.in)
    BY <1>8
  <2>3. QED
    BY <1>8, <2>1, <2>2 DEF Resumed, Carried, Settled, v
<1>9. CASE w.in # <<>> /\ x.abort # "none"
  <2>1. v = x
    BY <1>9 DEF OnRead
  <2>2. ~Orderly(w)
    BY <1>2, <1>9 DEF Orderly
  <2> HIDE DEF v, x
  <2>3. QED
    BY <1>2, <1>3, <1>9, <2>1, <2>2 DEF Resumed, Carried, Settled, v, Kept
<1>10. CASE w.in # <<>> /\ x.abort = "none" /\ x.htp = "paused"
  <2>1. CASE ~Exists(x, 0)
    <3>1. v = [x EXCEPT !.abort = "no downstream"]
      BY <1>10, <2>1 DEF OnRead, Abort
    <3>2. ~Orderly(w)
      <4>1. D(x) = NullObj
        BY <1>2, <2>1, StateParts
      <4>2. QED
        BY <1>2, <1>10, <4>1 DEF Orderly
    <3> HIDE DEF x, v
    <3>3. v \in HttpsState /\ D(v) = D(x) /\ v.conn = x.conn /\ Kept(v, x) /\ v.in = x.in /\ v.htp = x.htp
          /\ v.abort # "none"
      BY <1>2, <3>1 DEF HttpsState, D, Kept
    <3>4. Later(x, v)
      BY <3>3 DEF Later, Kept
    <3>5. Recorded(w) => Recorded(v)
      BY <1>3, <3>4, LaterRecorded
    <3>6. QED
      BY <1>2, <3>2, <3>3, <3>5 DEF Resumed, Carried, Settled, v, Kept, Place
  <2>2. CASE Exists(x, 0) /\ D(x).dconn = NoConn /\ D(x).res = "MSG_COMPLETE"
    <3>1. v = DeleteDownstream(x, 0)
      BY <1>10, <2>2 DEF OnRead
    <3>2. D(x) # NullObj
      BY <1>2, <2>2, StateParts
    <3>3. ~Orderly(w)
      BY <1>2, <1>10, <2>2, <3>2 DEF Orderly
    <3>4. v \in HttpsState /\ Same(v, x) /\ v.out = x.out /\ D(v) = NullObj /\ Tied(D(v), v.conn)
      BY <1>2, <3>1, <3>2, DeleteDownstreamFacts
    <3> HIDE DEF x, v
    <3>5. Place(v) = "start" /\ Place(x) = "start"
      BY <1>2, <1>10, <3>4 DEF Place, PlaceOf
    <3>6. EndPlace(v) = EndPlace(w) /\ Agreed(v)
      BY <1>2, <1>10, <3>4, <3>5 DEF EndPlace, Agreed, Same
    <3>7. Later(x, v)
      BY <3>4 DEF Later, Same
    <3>8. Recorded(w) => Recorded(v)
      BY <1>3, <3>7, LaterRecorded
    <3>9. QED
      BY <1>2, <3>3, <3>4, <3>5, <3>6, <3>8 DEF Resumed, Carried, Settled, v, Kept, Same
  <2>3. CASE Exists(x, 0) /\ D(x).dconn = NoConn /\ D(x).res # "MSG_COMPLETE"
    <3>1. v = [x EXCEPT !.abort = "response not complete"]
      BY <1>10, <2>3 DEF OnRead, Abort
    <3>2. D(x) # NullObj
      BY <1>2, <2>3, StateParts
    <3>3. ~Orderly(w)
      BY <1>2, <1>10, <2>3, <3>2 DEF Orderly
    <3> HIDE DEF x, v
    <3>4. v \in HttpsState /\ D(v) = D(x) /\ v.conn = x.conn /\ Kept(v, x) /\ v.in = x.in /\ v.htp = x.htp
          /\ v.abort # "none"
      BY <1>2, <3>1 DEF HttpsState, D, Kept
    <3>5. Later(x, v)
      BY <3>4 DEF Later, Kept
    <3>6. Recorded(w) => Recorded(v)
      BY <1>3, <3>5, LaterRecorded
    <3>7. QED
      BY <1>2, <3>3, <3>4, <3>6 DEF Resumed, Carried, Settled, v, Kept, Place
  <2>4. CASE Exists(x, 0) /\ D(x).dconn # NoConn
    <3>1. v = [x EXCEPT !.rd = @ \cup {"MSG_BLOCK"}]
      BY <1>10, <2>4 DEF OnRead
    <3> HIDE DEF x, v
    <3>2. x.rd \cup {"MSG_BLOCK"} \in SUBSET Reasons
      BY <1>2 DEF HttpsState, Reasons
    <3>3. v \in HttpsState /\ D(v) = D(x) /\ v.conn = x.conn /\ v.in = x.in /\ v.htp = x.htp
          /\ v.abort = x.abort /\ v.up = x.up /\ v.rcb = x.rcb /\ v.early = x.early /\ v.refused = x.refused
          /\ v.heads = x.heads /\ v.n = x.n /\ v.out = x.out /\ v.extra = x.extra /\ Later(x, v)
          /\ v.rd = x.rd \cup {"MSG_BLOCK"}
      BY <1>2, <3>1, <3>2 DEF HttpsState, D, Later
    <3>4. Place(v) = Place(x) /\ EndPlace(v) = EndPlace(x) /\ (Agreed(v) <=> Agreed(x))
      BY <3>3 DEF Place, EndPlace, Agreed
    <3>5. ASSUME Orderly(w), Paused(w) PROVE Orderly(v) /\ Paused(v) /\ v.rd # {}
      <4>1. Orderly(x)
        BY <1>2, <1>10, <3>5
      <4>2. Orderly(v)
        BY <3>3, <4>1 DEF Orderly
      <4>3. "NO_BUFFER" \notin v.rd
        BY <1>2, <1>10, <3>3, <3>5 DEF Paused, Kept
      <4>4. QED
        BY <1>10, <3>3, <4>2, <4>3 DEF Paused
    <3>6. Recorded(w) => Recorded(v)
      BY <1>3, <3>3, LaterRecorded
    <3>7. QED
      BY <1>2, <1>10, <3>3, <3>4, <3>5, <3>6 DEF Resumed, Carried, Settled, v, Kept
  <2>5. QED
    BY <2>1, <2>2, <2>3, <2>4
<1>11. CASE w.in # <<>> /\ x.abort = "none" /\ x.htp = "error"
  <2>1. v = BadRequest(x)
    BY <1>11 DEF OnRead
  <2>2. QED
    BY <1>1, <1>2, <1>11, <2>1, BadRequestResumes
<1>12. CASE w.in # <<>> /\ x.abort = "none" /\ x.htp = "ok"
  <2>1. x.in = <<>> /\ w.htp = "ok"
    BY <1>4, <1>5, <1>12
  <2>2. ASSUME Orderly(w), Paused(w) PROVE Orderly(x) /\ x.rd = {}
    <3>1. w.rd \subseteq {"NO_BUFFER", "MSG_BLOCK"}
      BY DEF HttpsState, Reasons
    <3>2. w.rd = {}
      BY <1>12, <2>1, <2>2, <3>1 DEF Paused
    <3>3. QED
      BY <1>2, <1>12, <2>2, <3>2 DEF Kept
  <2>3. Resumed(w, x)
    <3> HIDE DEF x
    <3>1. Orderly(w) /\ Paused(w) => Orderly(x) /\ Paused(x)
      BY <1>12, <2>2 DEF Paused
    <3>2. QED
      BY <1>2, <1>3, <1>12, <2>1, <3>1 DEF Resumed, Carried, Settled, Kept
  <2>4. CASE Exists(x, 0) /\ D(x).req = "INITIAL" /\ x.hdr > MaxHeader
    <3>1. v = BadRequest(x)
      BY <1>12, <2>4 DEF OnRead
    <3>2. D(x) # NullObj
      BY <1>2, <2>4, StateParts
    <3>3. Orderly(w) => Refusable(x)
      BY <1>2, <1>12, <3>2, OrderlyRefusable
    <3>4. QED
      BY <1>1, <1>2, <3>1, <3>3, BadRequestResumes
  <2>5. CASE Exists(x, 0) /\ ~(D(x).req = "INITIAL" /\ x.hdr > MaxHeader) /\ OutputBufferFull(x, 0)
    <3>1. v = [x EXCEPT !.rd = @ \cup {"NO_BUFFER"}]
      BY <1>12, <2>5 DEF OnRead
    <3>2. D(x).dconn # NoConn /\ x.conn[D(x).dconn].out >= ConnFull
      BY <2>5 DEF OutputBufferFull, Conn, D
    <3>3. D(x) # NullObj /\ D(x) \in DownstreamType /\ x.conn \in Backend
      BY <1>2, <2>5, StateParts
    <3>4. x.conn[D(x).dconn].out > 0
      <4>1. D(x).dconn \in Conns
        BY <3>2, <3>3 DEF DownstreamType
      <4>2. x.conn[D(x).dconn].out \in Nat
        BY <3>3, <4>1 DEF Backend, ConnType
      <4>3. ConnFull \in Nat \ {0}
        BY ShrpxAssumption
      <4>4. QED
        BY <3>2, <4>2, <4>3
    <3> HIDE DEF x, v
    <3>5. x.rd \cup {"NO_BUFFER"} \in SUBSET Reasons
      BY <1>2 DEF HttpsState, Reasons
    <3>6. v \in HttpsState /\ D(v) = D(x) /\ v.conn = x.conn /\ v.in = x.in /\ v.htp = x.htp
          /\ v.abort = x.abort /\ v.up = x.up /\ v.rcb = x.rcb /\ v.early = x.early /\ v.refused = x.refused
          /\ v.heads = x.heads /\ v.n = x.n /\ v.out = x.out /\ v.extra = x.extra /\ Later(x, v)
          /\ v.rd = x.rd \cup {"NO_BUFFER"}
      BY <1>2, <3>1, <3>5 DEF HttpsState, D, Later
    <3>7. Place(v) = Place(x) /\ EndPlace(v) = EndPlace(x) /\ (Agreed(v) <=> Agreed(x))
      BY <3>6 DEF Place, EndPlace, Agreed
    <3>8. ASSUME Orderly(w), Paused(w) PROVE Orderly(v) /\ Paused(v)
      <4>1. Orderly(v)
        BY <2>2, <3>6, <3>8 DEF Orderly
      <4>2. D(x).req = "HEADER_COMPLETE"
        BY <1>2, <1>12, <2>2, <3>2, <3>3, <3>8 DEF Orderly, Tied, DownstreamType, RequestStates
      <4>3. Paused(v)
        BY <1>12, <2>1, <2>2, <3>2, <3>3, <3>4, <3>6, <3>8, <4>2 DEF Paused
      <4>4. QED
        BY <4>1, <4>3
    <3>9. Recorded(w) => Recorded(v)
      BY <1>3, <3>6, LaterRecorded
    <3>10. QED
      BY <1>2, <1>12, <2>1, <3>6, <3>7, <3>8, <3>9 DEF Resumed, Carried, Settled, v, Kept
  <2>6. CASE ~Exists(x, 0) \/ (~(D(x).req = "INITIAL" /\ x.hdr > MaxHeader) /\ ~OutputBufferFull(x, 0))
    <3>1. v = x
      BY <1>12, <2>6 DEF OnRead
    <3>2. QED
      BY <2>3, <3>1
  <2>7. QED
    BY <2>4, <2>5, <2>6
<1>13. QED
  BY <1>7, <1>8, <1>9, <1>10, <1>11, <1>12

\* http_parser_pause(0) when nothing keeps the client from being read.
Unblocked(w) == [w EXCEPT !.rd = {}, !.htp = "ok"]

LEMMA ResumeUpstreamKeeps ==
  ASSUME NEW w \in HttpsState, NEW r, NEW fail \in BOOLEAN, Tied(D(w), w.conn), w.abort = "none",
         w.htp # "error" => Agreed(w), w.htp = "paused" => Place(w) = "start"
  PROVE  LET v == ResumeUpstream(w, r, fail)
         IN  /\ Carried(w, v)
             /\ w.rd \ {r} # {} => v = [w EXCEPT !.rd = @ \ {r}]
             /\ w.rd \ {r} = {} /\ w.htp # "error" /\ Orderly(Unblocked(w)) => Settled(v)
             /\ Recorded(w) /\ (InOrderly(w) /\ w.rd \ {r} = {} => w.htp # "error" /\ Orderly(Unblocked(w)))
                  => Recorded(v)
<1> DEFINE v == ResumeUpstream(w, r, fail)
           x == [w EXCEPT !.rd = @ \ {r}]
           p == ParserPause(x, FALSE)
<1>1. v = IF x.rd # {} THEN x ELSE IF p.abort # "none" THEN p ELSE OnRead(p, fail)
  BY DEF ResumeUpstream
<1>2. w.rd \ {r} \in SUBSET Reasons /\ w.in \in Seq(Tokens)
  BY DEF HttpsState
<1>3. x \in HttpsState /\ D(x) = D(w) /\ x.conn = w.conn /\ x.rd = w.rd \ {r} /\ x.htp = w.htp /\ x.abort = "none"
      /\ x.in = w.in /\ x.up = w.up /\ x.early = w.early /\ x.refused = w.refused /\ Later(w, x)
  BY <1>2 DEF HttpsState, D, Later
<1>4. Len(w.in) <= Len(w.in)
  BY <1>2
<1>5. Place(x) = Place(w) /\ EndPlace(x) = EndPlace(w) /\ (Agreed(x) <=> Agreed(w))
  BY <1>3 DEF Place, EndPlace, Agreed
<1>6. CASE w.rd \ {r} # {}
  <2>1. v = x
    BY <1>1, <1>3, <1>6
  <2> HIDE DEF v, x
  <2>2. Carried(w, v)
    BY <1>3, <1>4, <1>5, <2>1 DEF Carried
  <2>3. Recorded(w) => Recorded(v)
    BY <1>3, <2>1, LaterRecorded
  <2>4. QED
    BY <1>6, <2>1, <2>2, <2>3 DEF v, x
<1>7. CASE w.rd \ {r} = {} /\ w.htp = "error"
  <2>1. p = [x EXCEPT !.abort = "pause in error state"]
    BY <1>3, <1>7 DEF ParserPause, Abort
  <2>2. p \in HttpsState /\ D(p) = D(w) /\ p.conn = w.conn /\ p.abort # "none" /\ p.htp = "error"
        /\ p.in = w.in /\ p.up = w.up /\ p.early = w.early /\ p.refused = w.refused /\ Later(w, p)
    BY <1>3, <1>7, <2>1 DEF HttpsState, D, Later
  <2>3. v = p
    BY <1>1, <1>3, <1>7, <2>2
  <2> HIDE DEF v, p
  <2>4. Carried(w, v)
    BY <1>4, <2>2, <2>3 DEF Carried
  <2>5. Recorded(w) => Recorded(v)
    BY <2>2, <2>3, LaterRecorded
  <2>6. QED
    BY <1>7, <2>4, <2>5 DEF v
<1>8. CASE w.rd \ {r} = {} /\ w.htp # "error"
  <2>1. p = [x EXCEPT !.htp = "ok"]
    BY <1>3, <1>8 DEF ParserPause
  <2>2. p \in HttpsState /\ D(p) = D(w) /\ p.conn = w.conn /\ p.abort = "none" /\ p.htp = "ok"
        /\ p.in = w.in /\ p.up = w.up /\ p.early = w.early /\ p.refused = w.refused /\ p.rd = {}
        /\ Later(w, p)
    <3> HIDE DEF x, p
    <3>1. /\ p \in HttpsState /\ D(p) = D(x) /\ p.conn = x.conn /\ p.abort = x.abort /\ p.htp = "ok"
          /\ p.in = x.in /\ p.up = x.up /\ p.early = x.early /\ p.refused = x.refused /\ p.rd = x.rd
          /\ p.heads = x.heads /\ p.final = x.final /\ p.extra = x.extra /\ p.close = x.close /\ p.out = x.out
      BY <1>3, <2>1 DEF HttpsState, D
    <3>2. QED
      BY <1>3, <1>8, <3>1 DEF Later
  <2>3. p = Unblocked(w)
    BY <1>3, <1>8, <2>1 DEF Unblocked, HttpsState
  <2>4. v = OnRead(p, fail)
    BY <1>1, <1>3, <1>8, <2>2
  <2> HIDE DEF v, p
  <2>5. Place(p) = Place(w) /\ EndPlace(p) = EndPlace(w) /\ (Agreed(p) <=> Agreed(w))
    BY <2>2 DEF Place, EndPlace, Agreed
  <2>6. Resumed(p, v)
    BY <1>8, <2>2, <2>4, <2>5, OnReadResumes
  <2>7. Paused(p)
    BY <2>2 DEF Paused
  <2>8. Carried(w, v)
    BY <1>4, <1>8, <2>2, <2>5, <2>6 DEF Resumed, Carried
  <2>9. Orderly(Unblocked(w)) => Settled(v)
    BY <2>3, <2>6, <2>7 DEF Resumed
  <2>10. Recorded(w) /\ (InOrderly(w) => Orderly(Unblocked(w))) => Recorded(v)
    BY <2>2, <2>3, <2>6, LaterRecorded DEF Resumed, InOrderly
  <2>11. QED
    BY <1>8, <2>8, <2>9, <2>10 DEF v
<1>9. QED
  BY <1>6, <1>7, <1>8

\* The response is over, or will not come, and so is the request.
Over(w) ==
  /\ D(w).req = "MSG_COMPLETE" /\ Clean(w.conn) /\ (w.extra \/ w.heads = Count(w.n)) /\ w.htp # "error"
  /\ w.rd \subseteq {"MSG_BLOCK"}

LEMMA NextRequestKeeps ==
  ASSUME NEW w \in HttpsState, NEW fail \in BOOLEAN, Tied(D(w), w.conn), w.abort = "none", D(w) # NullObj,
         w.htp # "error" => Agreed(w), w.htp = "paused" => Place(w) = "start"
  PROVE  LET v == NextRequest(w, fail)
         IN  /\ Carried(w, v) /\ (D(w).req # "MSG_COMPLETE" => v.early)
             /\ Over(w) => Settled(v)
             /\ Recorded(w) /\ (InOrderly(w) /\ D(w).req = "MSG_COMPLETE" => Over(w)) => Recorded(v)
<1> DEFINE v == NextRequest(w, fail)
           y == DeleteDownstream(w, 0)
<1>1. w.in \in Seq(Tokens)
  BY DEF HttpsState
<1>2. Len(w.in) <= Len(w.in)
  BY <1>1
<1>3. CASE D(w).req # "MSG_COMPLETE"
  <2>1. v = [w EXCEPT !.early = TRUE]
    BY <1>3 DEF NextRequest
  <2>2. v \in HttpsState /\ D(v) = D(w) /\ v.conn = w.conn /\ v.early /\ v.up = w.up /\ v.in = w.in
        /\ v.refused = w.refused /\ v.htp = w.htp /\ v.abort = w.abort /\ Later(w, v)
    BY <2>1 DEF HttpsState, D, Later
  <2> HIDE DEF v
  <2>3. Place(v) = Place(w) /\ EndPlace(v) = EndPlace(w) /\ (Agreed(v) <=> Agreed(w))
    BY <2>2 DEF Place, EndPlace, Agreed
  <2>4. Carried(w, v)
    BY <1>2, <2>2, <2>3 DEF Carried
  <2>5. Recorded(w) => Recorded(v)
    BY <2>2, LaterRecorded
  <2>6. QED
    BY <1>3, <2>2, <2>4, <2>5 DEF Over, v
<1>4. CASE D(w).req = "MSG_COMPLETE"
  <2>1. v = ResumeUpstream(y, "MSG_BLOCK", fail)
    BY <1>4 DEF NextRequest
  <2>2. /\ y \in HttpsState /\ Same(y, w) /\ y.out = w.out /\ D(y) = NullObj /\ Tied(D(y), y.conn)
        /\ Clean(w.conn) => Clean(y.conn)
    BY DeleteDownstreamFacts
  <2> HIDE DEF y, v
  <2>3. Place(w) = "start" /\ Place(y) = "start"
    BY <1>4, <2>2 DEF Place, PlaceOf
  <2>4. EndPlace(y) = EndPlace(w) /\ (Agreed(y) <=> Agreed(w))
    BY <2>2, <2>3 DEF EndPlace, Agreed, Same
  <2>5. y.abort = "none" /\ y.htp = w.htp
    BY <2>2 DEF Same
  <2>6. /\ Carried(y, v)
        /\ y.rd \ {"MSG_BLOCK"} = {} /\ y.htp # "error" /\ Orderly(Unblocked(y)) => Settled(v)
        /\ Recorded(y) /\ (InOrderly(y) /\ y.rd \ {"MSG_BLOCK"} = {} => y.htp # "error" /\ Orderly(Unblocked(y)))
             => Recorded(v)
    BY <2>1, <2>2, <2>3, <2>4, <2>5, ResumeUpstreamKeeps
  <2>7. Carried(w, v)
    BY <2>2, <2>4, <2>6 DEF Carried, Same
  <2>8. ASSUME Over(w) PROVE y.rd \ {"MSG_BLOCK"} = {} /\ y.htp # "error" /\ Orderly(Unblocked(y))
    <3> DEFINE u == Unblocked(y)
    <3>1. D(u) = NullObj /\ u.conn = y.conn /\ u.htp = "ok" /\ u.abort = "none" /\ u.heads = y.heads /\ u.n = y.n
          /\ u.extra = y.extra
      BY <2>2, <2>5 DEF Unblocked, HttpsState, D
    <3> HIDE DEF u
    <3>2. Orderly(u)
      BY <2>2, <2>8, <3>1 DEF Orderly, Over, Same
    <3>3. QED
      BY <2>2, <2>8, <3>2 DEF Over, Same, u
  <2>9. Later(w, y) /\ (InOrderly(y) <=> InOrderly(w))
    BY <2>2 DEF Later, Same, InOrderly
  <2>10. Recorded(w) => Recorded(y)
    BY <2>9, LaterRecorded
  <2>11. QED
    BY <1>4, <2>6, <2>7, <2>8, <2>9, <2>10 DEF v
<1>5. QED
  BY <1>3, <1>4
-----------------------------------------------------------------------------
(* The steps of the event loop.                                            *)

LEMMA StepCloses ==
  ASSUME HttpsInv, Running(hc), NEW v, Carried(hc, v), Recorded(v),
         InOrderly(hc) /\ InOrderly(v)
           => Orderly(v) /\ Paused(v) /\ (v.in # <<>> /\ v.rd = {} => v.rcb),
         hc' = v, UNCHANGED <<htodo, hsent>>
  PROVE  HttpsInv'
<1>1. hc \in HttpsState /\ Len(hc.in) <= MaxIn /\ hsent \in 0..MaxReq /\ Unsent(htodo) /\ Parsing(hc, htodo)
  BY DEF HttpsInv
<1>2. v \in HttpsState
  BY DEF Carried
<1>3. Len(v.in) <= MaxIn
  <2>1. Len(hc.in) \in Nat /\ Len(v.in) \in Nat /\ MaxIn \in Nat
    <3>1. hc.in \in Seq(Tokens) /\ v.in \in Seq(Tokens)
      BY <1>1, <1>2 DEF HttpsState
    <3>2. QED
      BY <3>1, RequestsAssumption
  <2>2. Len(v.in) <= Len(hc.in)
    BY DEF Carried
  <2>3. QED
    BY <1>1, <2>1, <2>2
<1>4. v.up = "open"
  BY DEF Carried, Running
<1>5. Tied(D(v), v.conn)
  BY DEF Carried
<1>6. Parsing(v, htodo)
  <2>1. ASSUME Running(v), v.htp # "error" PROVE Agreed(v) /\ Going(v, htodo)
    <3>1. v.abort = "none" /\ hc.htp # "error"
      BY <2>1 DEF Running, Carried
    <3>2. Agreed(v) /\ EndPlace(v) = EndPlace(hc)
      BY <2>1, <3>1 DEF Carried
    <3>3. Going(hc, htodo)
      BY <1>1, <3>1 DEF Parsing
    <3>4. QED
      BY <3>2, <3>3 DEF Going
  <2>2. v.htp = "paused" => Place(v) = "start"
    BY DEF Carried
  <2>3. QED
    BY <2>1, <2>2 DEF Parsing
<1>7. Regular(v)
  <2> SUFFICES ASSUME InOrderly(v)
               PROVE  /\ v.abort = "none" /\ Clean(v.conn)
                      /\ Orderly(v) /\ Paused(v) /\ (v.in # <<>> /\ v.rd = {} => v.rcb)
    BY DEF Regular
  <2>1. InOrderly(hc)
    BY DEF InOrderly, Carried
  <2>2. QED
    BY <2>1 DEF Orderly
<1>8. QED
  BY <1>1, <1>2, <1>3, <1>4, <1>5, <1>6, <1>7 DEF HttpsInv

LEMMA DeleteHandlerFacts ==
  ASSUME NEW w \in HttpsState, Tied(D(w), w.conn)
  PROVE  LET v == DeleteHandler(w)
         IN  /\ v \in HttpsState /\ v.up = "gone" /\ D(v) = NullObj /\ v.conn = [c \in Conns |-> NewConn]
             /\ v.in = w.in /\ v.abort = w.abort /\ v.heads = w.heads /\ v.final = w.final
             /\ v.refused = w.refused /\ v.close = w.close /\ v.early = w.early /\ v.extra = w.extra
<1> DEFINE k == [c \in Conns |-> IF w.conn[c].st = "lost" THEN w.conn[c] ELSE NewConn]
           n == [c \in Conns |-> NewConn]
           v == DeleteHandler(w)
<1>1. k = n
  BY DEF Tied
<1>2. NewConn \in ConnType({0})
  BY DEF NewConn, ConnType
<1>3. n \in Backend
  BY <1>2 DEF Backend
<1>4. v = Put([w EXCEPT !.up = "gone"], NullObj, n, w.out)
  <2>1. DOMAIN w.ds = {0}
    BY DEF HttpsState
  <2>2. v = [w EXCEPT !.up = "gone", !.conn = k, !.ds = [id \in {0} |-> NullObj]]
    BY <2>1 DEF DeleteHandler
  <2>3. QED
    BY <1>1, <2>2 DEF Put, HttpsState
<1> DEFINE x == [w EXCEPT !.up = "gone"]
<1>5. x \in HttpsState /\ x.up = "gone" /\ x.in = w.in /\ x.abort = w.abort /\ x.heads = w.heads
      /\ x.final = w.final /\ x.refused = w.refused /\ x.close = w.close /\ x.early = w.early
      /\ x.extra = w.extra
  BY DEF HttpsState
<1>6. w.out \in Nat /\ NullObj \in Down
  BY StateParts DEF Down
<1> HIDE DEF x, n, v
<1>7. v \in HttpsState /\ Same(v, x) /\ D(v) = NullObj /\ v.conn = n
  BY <1>3, <1>4, <1>5, <1>6, PutShape DEF x
<1>8. QED
  BY <1>5, <1>7 DEF Same, n, v

\* The end of the client: nothing is left.
LEMMA GoneCloses ==
  ASSUME HttpsInv, Running(hc), NEW w \in HttpsState, Tied(D(w), w.conn), w.in = hc.in, w.abort = "none",
         Fixed(w), Refusal(w), hc' = DeleteHandler(w), UNCHANGED <<htodo, hsent>>
  PROVE  HttpsInv'
<1> DEFINE v == DeleteHandler(w)
<1>1. Len(hc.in) <= MaxIn /\ hsent \in 0..MaxReq /\ Unsent(htodo)
  BY DEF HttpsInv
<1>2. /\ v \in HttpsState /\ v.up = "gone" /\ D(v) = NullObj /\ v.conn = [c \in Conns |-> NewConn]
      /\ v.in = hc.in /\ v.abort = "none" /\ v.heads = w.heads /\ v.final = w.final
      /\ v.refused = w.refused /\ v.close = w.close /\ v.early = w.early /\ v.extra = w.extra
  BY DeleteHandlerFacts
<1>3. hc' = v
  OBVIOUS
<1> HIDE DEF v
<1>4. NewConn.st = "none" /\ ~NewConn.mixed
  BY DEF NewConn
<1>5. Tied(D(v), v.conn) /\ Vacant(D(v), v.conn) /\ Clean(v.conn)
  BY <1>2, <1>4 DEF Tied, Vacant, Clean
<1>6. Parsing(v, htodo)
  BY <1>2 DEF Parsing, Running, Place, PlaceOf
<1>7. Regular(v)
  BY <1>2, <1>5 DEF Regular
<1>8. Recorded(v)
  BY <1>2 DEF Recorded, Fixed, Refusal, Waits
<1>9. QED
  BY <1>1, <1>2, <1>3, <1>5, <1>6, <1>7, <1>8 DEF HttpsInv

LEMMA UpstreamReadCloses == HttpsInv /\ UpstreamReadcb => HttpsInv'
<1> SUFFICES ASSUME HttpsInv, UpstreamReadcb PROVE HttpsInv'
  OBVIOUS
<1> DEFINE w == [hc EXCEPT !.rcb = FALSE]
<1>1. PICK fail \in BOOLEAN : hc' = OnRead(w, fail)
  BY DEF UpstreamReadcb
<1> DEFINE v == OnRead(w, fail)
<1>2. Running(hc) /\ hc \in HttpsState /\ Tied(D(hc), hc.conn) /\ Parsing(hc, htodo) /\ Regular(hc)
      /\ Recorded(hc) /\ UNCHANGED <<htodo, hsent>>
  BY DEF HttpsInv, UpstreamReadcb
<1>3. w \in HttpsState /\ D(w) = D(hc) /\ w.conn = hc.conn /\ w.out = hc.out /\ w.up = hc.up /\ w.in = hc.in
      /\ w.rd = hc.rd /\ w.htp = hc.htp /\ w.n = hc.n /\ w.heads = hc.heads /\ w.refused = hc.refused
      /\ w.abort = hc.abort /\ w.early = hc.early /\ w.extra = hc.extra /\ Later(hc, w)
  BY <1>2 DEF HttpsState, D, Later
<1> HIDE DEF w, v
<1>4. Place(w) = Place(hc) /\ EndPlace(w) = EndPlace(hc) /\ (Agreed(w) <=> Agreed(hc))
  BY <1>3 DEF Place, EndPlace, Agreed
<1>5. w.abort = "none" /\ (w.htp # "error" => Agreed(w)) /\ (w.htp = "paused" => Place(w) = "start")
  BY <1>2, <1>3, <1>4 DEF Parsing, Running
<1>6. Resumed(w, v)
  BY <1>2, <1>3, <1>5, OnReadResumes DEF v
<1>7. Carried(hc, v)
  BY <1>3, <1>4, <1>6 DEF Resumed, Carried
<1>8. InOrderly(hc) => Orderly(w) /\ Paused(w)
  <2>1. InOrderly(hc) => Orderly(hc) /\ Paused(hc)
    BY <1>2 DEF Regular, Running
  <2>2. QED
    BY <1>3, <2>1 DEF Orderly, Paused
<1>9. InOrderly(hc) /\ InOrderly(v) => Orderly(v) /\ Paused(v) /\ (v.in # <<>> /\ v.rd = {} => v.rcb)
  BY <1>6, <1>8 DEF Resumed, Settled, InOrderly
<1>10. Recorded(v)
  <2>1. Recorded(w) /\ (InOrderly(w) <=> InOrderly(hc))
    BY <1>2, <1>3, LaterRecorded DEF InOrderly
  <2>2. QED
    BY <1>6, <1>8, <2>1 DEF Resumed
<1>11. QED
  BY <1>1, <1>2, <1>7, <1>9, <1>10, StepCloses DEF v

LEMMA UpstreamEventCloses == HttpsInv /\ UpstreamEventcb => HttpsInv'
<1> SUFFICES ASSUME HttpsInv, UpstreamEventcb PROVE HttpsInv'
  OBVIOUS
<1>1. Running(hc) /\ hc' = DeleteHandler(hc) /\ UNCHANGED <<htodo, hsent>> /\ hc \in HttpsState
      /\ Tied(D(hc), hc.conn) /\ Fixed(hc) /\ Refusal(hc)
  BY DEF HttpsInv, UpstreamEventcb, Recorded
<1>2. hc.abort = "none"
  BY <1>1 DEF Running
<1>3. QED
  BY <1>1, <1>2, GoneCloses

\* A callback of the backend connection leaves the request where it is.
Like(w, x) ==
  /\ x \in HttpsState /\ D(x) # NullObj /\ D(x).req = D(w).req /\ Tied(D(x), x.conn)
  /\ x.in = w.in /\ x.up = w.up /\ x.early = w.early /\ x.refused = w.refused /\ x.htp = w.htp /\ x.rd = w.rd
  /\ x.rcb = w.rcb /\ x.n = w.n /\ x.abort = w.abort /\ (w.extra => x.extra) /\ (w.close => x.close)
  /\ w.refused /\ w.out > 0 => x.out > 0

LEMMA LikeRecorded ==
  ASSUME NEW w, NEW x, Like(w, x), x.heads = w.heads, x.final = w.final
  PROVE  Recorded(w) => Recorded(x)
<1>1. Later(w, x)
  BY DEF Like, Later
<1>2. QED
  BY <1>1, LaterRecorded

LEMMA LikePlace ==
  ASSUME NEW w, NEW x, D(w) # NullObj, Like(w, x)
  PROVE  Place(x) = Place(w) /\ EndPlace(x) = EndPlace(w) /\ (Agreed(x) <=> Agreed(w))
<1>1. Place(x) = Place(w)
  BY DEF Like, Place, PlaceOf
<1>2. QED
  BY <1>1 DEF Like, EndPlace, Agreed

LEMMA LikeCloses ==
  ASSUME HttpsInv, Running(hc), D(hc) # NullObj, NEW x, Like(hc, x), Recorded(x),
         InOrderly(hc) => Orderly(x) /\ Paused(x), hc' = x, UNCHANGED <<htodo, hsent>>
  PROVE  HttpsInv'
<1>1. hc \in HttpsState /\ Parsing(hc, htodo) /\ Regular(hc) /\ hc.abort = "none" /\ hc.up = "open"
  BY DEF HttpsInv, Running
<1>2. Place(x) = Place(hc) /\ EndPlace(x) = EndPlace(hc) /\ (Agreed(x) <=> Agreed(hc))
  BY LikePlace
<1>3. Len(hc.in) <= Len(hc.in)
  <2>1. hc.in \in Seq(Tokens)
    BY <1>1 DEF HttpsState
  <2>2. QED
    BY <2>1
<1>4. Carried(hc, x)
  BY <1>1, <1>2, <1>3 DEF Carried, Like, Parsing, Running
<1>5. InOrderly(hc) => Orderly(x) /\ Paused(x) /\ (x.in # <<>> /\ x.rd = {} => x.rcb)
  BY <1>1 DEF Regular, Like
<1>6. QED
  BY <1>4, <1>5, StepCloses

\* The request is over for the backend: the next one, if it is for the client.
LEMMA NextCloses ==
  ASSUME HttpsInv, Running(hc), D(hc) # NullObj, NEW x, Like(hc, x), Recorded(x), NEW fail \in BOOLEAN,
         InOrderly(hc) /\ D(hc).req = "MSG_COMPLETE" => Clean(x.conn) /\ (x.extra \/ x.heads = Count(x.n)),
         hc' = NextRequest(x, fail), UNCHANGED <<htodo, hsent>>
  PROVE  HttpsInv'
<1> DEFINE v == NextRequest(x, fail)
<1>1. hc \in HttpsState /\ Parsing(hc, htodo) /\ Regular(hc) /\ hc.abort = "none" /\ hc.up = "open"
  BY DEF HttpsInv, Running
<1>2. Place(x) = Place(hc) /\ EndPlace(x) = EndPlace(hc) /\ (Agreed(x) <=> Agreed(hc))
  BY LikePlace
<1>3. x \in HttpsState /\ Tied(D(x), x.conn) /\ x.abort = "none" /\ D(x) # NullObj
      /\ (x.htp # "error" => Agreed(x)) /\ (x.htp = "paused" => Place(x) = "start")
  BY <1>1, <1>2 DEF Like, Parsing, Running
<1>4. /\ Carried(x, v) /\ (D(x).req # "MSG_COMPLETE" => v.early) /\ (Over(x) => Settled(v))
      /\ Recorded(x) /\ (InOrderly(x) /\ D(x).req = "MSG_COMPLETE" => Over(x)) => Recorded(v)
  BY <1>3, NextRequestKeeps
<1> HIDE DEF v
<1>5. Carried(hc, v)
  BY <1>2, <1>4 DEF Carried, Like
<1>6. ASSUME InOrderly(hc), D(hc).req = "MSG_COMPLETE" PROVE Over(x)
  <2>1. Orderly(hc) /\ Paused(hc)
    BY <1>1, <1>6 DEF Regular
  <2>2. hc.rd \subseteq {"MSG_BLOCK"}
    <3>1. hc.rd \subseteq {"NO_BUFFER", "MSG_BLOCK"}
      BY <1>1 DEF HttpsState, Reasons
    <3>2. QED
      BY <1>6, <2>1, <3>1 DEF Paused
  <2>3. QED
    BY <1>6, <2>1, <2>2 DEF Over, Like, Orderly
<1>7. (InOrderly(x) <=> InOrderly(hc)) /\ D(x).req = D(hc).req
  BY DEF Like, InOrderly
<1>8. Recorded(v)
  BY <1>4, <1>6, <1>7
<1>9. InOrderly(hc) /\ InOrderly(v) => Orderly(v) /\ Paused(v) /\ (v.in # <<>> /\ v.rd = {} => v.rcb)
  BY <1>4, <1>6, <1>7 DEF InOrderly, Settled
<1>10. QED
  BY <1>5, <1>8, <1>9, StepCloses DEF v

\* One write to the request and to its connection.
LEMMA ConnChange ==
  ASSUME NEW w \in HttpsState, Tied(D(w), w.conn), D(w) # NullObj, D(w).dconn # NoConn,
         NEW b \in ConnType({0}), b.st = "busy", NEW o \in Nat, w.out > 0 => o > 0,
         NEW d \in DownstreamType, d.req = D(w).req, d.dconn = D(w).dconn
  PROVE  LET c == D(w).dconn
             x == Put(w, d, [w.conn EXCEPT ![c] = b], o)
         IN  /\ c \in Conns /\ w.conn[c] \in ConnType({0}) /\ w.conn[c].st = "busy"
             /\ Like(w, x) /\ D(x) = d /\ x.conn[c] = b /\ x.out = o /\ x.heads = w.heads /\ x.final = w.final
             /\ Clean(w.conn) /\ ~b.mixed => Clean(x.conn)
<1> DEFINE c == D(w).dconn
           k == [w.conn EXCEPT ![c] = b]
           x == Put(w, d, k, o)
<1>1. c \in Conns /\ w.conn \in Backend
  BY StateParts DEF DownstreamType
<1>2. k \in Backend /\ k[c] = b /\ \A i \in Conns : i # c => k[i] = w.conn[i]
  BY <1>1 DEF Backend
<1>3. w.conn[c] \in ConnType({0}) /\ w.conn[c].st = "busy"
  BY <1>1 DEF Backend, Tied
<1>4. d # NullObj /\ d \in Down
  BY NullNotDownstream DEF Down
<1> HIDE DEF k, c
<1>5. x \in HttpsState /\ Same(x, w) /\ D(x) = d /\ x.conn = k /\ x.out = o
  BY <1>2, <1>4, PutShape
<1> HIDE DEF x
<1>6. Tied(d, k)
  BY <1>1, <1>2, <1>3, <1>4 DEF Tied, c
<1>7. Clean(w.conn) /\ ~b.mixed => Clean(k)
  BY <1>2 DEF Clean
<1>8. Like(w, x) /\ x.heads = w.heads /\ x.final = w.final
  BY <1>4, <1>5, <1>6 DEF Like, Same
<1>9. QED
  BY <1>1, <1>2, <1>3, <1>5, <1>7, <1>8 DEF x, k, c

LEMMA CountAppend ==
  ASSUME NEW n \in Nat, n > 0
  PROVE  Append(Count(n - 1), n) = Count(n) /\ Count(n) \in Seq(Nat)
<1>1. n - 1 \in Nat /\ Count(n - 1) \in Seq(Nat) /\ Len(Count(n - 1)) = n - 1
  BY DEF Count
<1>2. Append(Count(n - 1), n) = [i \in 1..n |-> IF i = n THEN n ELSE Count(n - 1)[i]]
  BY <1>1
<1>3. \A i \in 1..n : i # n => Count(n - 1)[i] = i
  BY <1>1 DEF Count
<1>4. Append(Count(n - 1), n) = Count(n)
  BY <1>2, <1>3 DEF Count
<1>5. QED
  BY <1>4 DEF Count

-----------------------------------------------------------------------------
(* One lemma for each handler: it takes HttpsInv to HttpsInv.              *)

LEMMA ClientSendCloses == HttpsInv /\ ClientSend => HttpsInv'
<1> SUFFICES ASSUME HttpsInv, ClientSend PROVE HttpsInv'
  OBVIOUS
<1>1. hc \in HttpsState /\ Len(hc.in) <= MaxIn /\ hsent \in 0..MaxReq /\ Unsent(htodo) /\ Tied(D(hc), hc.conn)
      /\ Parsing(hc, htodo) /\ Regular(hc) /\ Recorded(hc) /\ MaxIn \in Nat /\ MaxReq \in Nat
  BY RequestsAssumption DEF HttpsInv
<1>2. Running(hc) /\ hc.rd = {} /\ Len(hc.in) < MaxIn
  BY DEF ClientSend
<1>3. PICK q \in IF htodo # <<>> THEN {htodo} ELSE IF hsent < MaxReq THEN Requests ELSE {} :
        /\ hc' = [hc EXCEPT !.in = Append(@, Head(q)), !.rcb = TRUE]
        /\ htodo' = Tail(q)
        /\ hsent' = IF htodo = <<>> THEN hsent + 1 ELSE hsent
  BY DEF ClientSend
<1>4. q \in Seq(Tokens) /\ q # <<>> /\ Chained(q) /\ PlaceAfter(q[Len(q)]) = "start"
  BY <1>1, <1>3, RequestsAssumption DEF Unsent
<1>5. hsent' \in 0..MaxReq
  BY <1>1, <1>3
<1>6. /\ Tail(q) \in Seq(Tokens) /\ Head(q) = q[1] /\ q[1] \in Tokens /\ Chained(Tail(q))
      /\ Tail(q) # <<>> => /\ Tail(q)[1].k \in Expected(PlaceAfter(q[1]))
                           /\ Tail(q)[Len(Tail(q))] = q[Len(q)]
      /\ Tail(q) = <<>> => Len(q) = 1
  BY <1>4, TailFacts
<1>7. Unsent(htodo')
  BY <1>3, <1>4, <1>6 DEF Unsent
<1>8. hc.in \in Seq(Tokens) /\ Len(hc.in) \in Nat
  <2>1. hc.in \in Seq(Tokens)
    BY <1>1 DEF HttpsState
  <2>2. QED
    BY <2>1
<1> DEFINE s == Append(hc.in, q[1])
<1>9. s \in Seq(Tokens) /\ Len(s) = Len(hc.in) + 1 /\ s[Len(s)] = q[1] /\ s # <<>>
      /\ \A i \in 1..Len(hc.in) : s[i] = hc.in[i]
  BY <1>6, <1>8
<1> HIDE DEF s
<1>10. hc' = [hc EXCEPT !.in = s, !.rcb = TRUE]
  BY <1>3, <1>6 DEF s
<1>11. hc' \in HttpsState /\ D(hc') = D(hc) /\ hc'.conn = hc.conn /\ hc'.out = hc.out /\ hc'.up = hc.up
       /\ hc'.in = s /\ hc'.rcb = TRUE /\ hc'.rd = {} /\ hc'.htp = hc.htp /\ hc'.n = hc.n
       /\ hc'.heads = hc.heads /\ hc'.refused = hc.refused /\ hc'.abort = hc.abort /\ hc'.early = hc.early
       /\ hc'.extra = hc.extra /\ Later(hc, hc')
  BY <1>1, <1>2, <1>9, <1>10 DEF HttpsState, D, Later
<1>12. Len(hc'.in) <= MaxIn
  BY <1>1, <1>2, <1>8, <1>9, <1>11
<1>13. Place(hc') = Place(hc)
  BY <1>11 DEF Place
<1>14. ASSUME hc.htp # "error" PROVE Agreed(hc') /\ Going(hc', htodo')
  <2>1. Agreed(hc) /\ Going(hc, htodo)
    BY <1>1, <1>2, <1>14 DEF Parsing
  <2>2. q[1].k \in Expected(EndPlace(hc))
    <3>1. CASE htodo # <<>>
      BY <1>3, <2>1, <3>1 DEF Going
    <3>2. CASE htodo = <<>>
      <4>1. EndPlace(hc) = "start" /\ q \in Requests
        BY <1>3, <2>1, <3>2 DEF Going
      <4>2. QED
        BY <4>1, RequestsAssumption DEF Expected
    <3>3. QED
      BY <3>1, <3>2
  <2>3. CASE hc.in = <<>>
    <3>1. Len(hc.in) = 0
      BY <2>3
    <3>2. Len(s) = 1 /\ s[1] = q[1]
      BY <1>9, <3>1
    <3>3. Chained(s)
      BY <3>2 DEF Chained
    <3>4. EndPlace(hc) = Place(hc)
      BY <2>3 DEF EndPlace
    <3>5. Agreed(hc')
      BY <1>11, <1>13, <2>2, <3>2, <3>3, <3>4 DEF Agreed
    <3>6. EndPlace(hc') = PlaceAfter(q[1])
      BY <1>9, <1>11 DEF EndPlace
    <3>7. Tail(q) = <<>> => PlaceAfter(q[1]) = "start"
      BY <1>4, <1>6
    <3>8. Going(hc', htodo')
      BY <1>3, <1>6, <3>6, <3>7 DEF Going
    <3>9. QED
      BY <3>5, <3>8
  <2>4. CASE hc.in # <<>>
    <3>1. Len(hc.in) > 0 /\ 1 \in 1..Len(hc.in)
      BY <1>8, <2>4
    <3>2. s[1] = hc.in[1] /\ EndPlace(hc) = PlaceAfter(hc.in[Len(hc.in)])
      BY <1>9, <2>4, <3>1 DEF EndPlace
    <3>3. Chained(s)
      <4> SUFFICES ASSUME NEW i \in 1..(Len(s) - 1) PROVE s[i + 1].k \in Expected(PlaceAfter(s[i]))
        BY DEF Chained
      <4>1. i \in 1..Len(hc.in)
        BY <1>8, <1>9
      <4>2. CASE i = Len(hc.in)
        BY <1>8, <1>9, <2>2, <3>2, <4>1, <4>2
      <4>3. CASE i # Len(hc.in)
        <5>1. i \in 1..(Len(hc.in) - 1) /\ i + 1 \in 1..Len(hc.in)
          BY <1>8, <4>1, <4>3
        <5>2. hc.in[i + 1].k \in Expected(PlaceAfter(hc.in[i]))
          BY <2>1, <5>1 DEF Agreed, Chained
        <5>3. QED
          BY <1>9, <4>1, <5>1, <5>2
      <4>4. QED
        BY <4>2, <4>3
    <3>4. s[1].k \in Expected(Place(hc))
      BY <2>1, <2>4, <3>2 DEF Agreed
    <3>5. Agreed(hc')
      BY <1>11, <1>13, <3>3, <3>4 DEF Agreed
    <3>6. EndPlace(hc') = PlaceAfter(q[1])
      BY <1>9, <1>11, <3>1 DEF EndPlace
    <3>7. Tail(q) = <<>> => PlaceAfter(q[1]) = "start"
      BY <1>4, <1>6
    <3>8. Going(hc', htodo')
      BY <1>3, <1>6, <3>6, <3>7 DEF Going
    <3>9. QED
      BY <3>5, <3>8
  <2>5. QED
    BY <2>3, <2>4
<1>15. Parsing(hc', htodo')
  BY <1>1, <1>11, <1>13, <1>14 DEF Parsing
<1>16. Regular(hc')
  <2>1. hc.up = "open"
    BY <1>2 DEF Running
  <2>2. QED
    BY <1>1, <1>2, <1>11, <2>1 DEF Regular, InOrderly, Orderly, Paused
<1>17. hc'.up = "open" /\ Tied(D(hc'), hc'.conn)
  BY <1>1, <1>2, <1>11 DEF Running
<1>18. Recorded(hc')
  BY <1>1, <1>11, LaterRecorded
<1>19. QED
  BY <1>5, <1>7, <1>11, <1>12, <1>15, <1>16, <1>17, <1>18 DEF HttpsInv

LEMMA IdleEventCloses == HttpsInv /\ IdleEventcb => HttpsInv'
<1> SUFFICES ASSUME HttpsInv, IdleEventcb PROVE HttpsInv'
  OBVIOUS
<1>1. PICK c \in Conns : hc.conn[c].st = "idle" /\ hc' = DeleteConn(hc, c)
  BY DEF IdleEventcb, Pool, IdleEvent
<1>2. hc \in HttpsState /\ Tied(D(hc), hc.conn) /\ Parsing(hc, htodo) /\ Regular(hc) /\ Running(hc)
      /\ Recorded(hc) /\ UNCHANGED <<htodo, hsent>>
  BY DEF HttpsInv, IdleEventcb
<1> DEFINE k == [hc.conn EXCEPT ![c] = NewConn]
<1>3. hc' = Put(hc, D(hc), k, hc.out)
  BY <1>1, <1>2, DeleteConnIs
<1>4. NewConn \in ConnType({0}) /\ NewConn.st = "none" /\ ~NewConn.mixed
  BY DEF NewConn, ConnType
<1>5. D(hc) \in Down /\ hc.out \in Nat /\ hc.conn \in Backend
  BY <1>2, StateParts
<1>6. k \in Backend /\ k[c] = NewConn /\ \A b \in Conns : b # c => k[b] = hc.conn[b]
  BY <1>4, <1>5 DEF Backend
<1> HIDE DEF k
<1>7. hc' \in HttpsState /\ Same(hc', hc) /\ D(hc') = D(hc) /\ hc'.conn = k /\ hc'.out = hc.out
  BY <1>2, <1>3, <1>5, <1>6, PutShape
<1>8. D(hc) # NullObj => D(hc).dconn = NoConn
  BY <1>1, <1>2, <1>5, ConnsAreNumbers DEF Tied, Down, DownstreamType
<1>9. Tied(D(hc'), k)
  BY <1>2, <1>4, <1>6, <1>7, <1>8 DEF Tied
<1>10. Clean(hc.conn) => Clean(k)
  BY <1>4, <1>6 DEF Clean
<1>11. Len(hc.in) <= Len(hc.in)
  <2>1. hc.in \in Seq(Tokens)
    BY <1>2 DEF HttpsState
  <2>2. QED
    BY <2>1
<1>12. Place(hc') = Place(hc) /\ EndPlace(hc') = EndPlace(hc) /\ (Agreed(hc') <=> Agreed(hc))
  BY <1>7 DEF Place, EndPlace, Agreed, Same
<1>13. Carried(hc, hc')
  BY <1>2, <1>7, <1>9, <1>11, <1>12 DEF Carried, Same, Parsing, Running
<1>14. ASSUME InOrderly(hc) PROVE Orderly(hc') /\ Paused(hc') /\ (hc'.in # <<>> /\ hc'.rd = {} => hc'.rcb)
  <2>1. Orderly(hc) /\ Paused(hc) /\ (hc.in # <<>> /\ hc.rd = {} => hc.rcb)
    BY <1>2, <1>14 DEF Regular, Running
  <2>2. Orderly(hc')
    BY <1>7, <1>8, <1>10, <2>1 DEF Orderly, Same
  <2>3. Paused(hc')
    BY <1>7, <1>8, <2>1 DEF Paused, Same
  <2>4. QED
    BY <1>7, <2>1, <2>2, <2>3 DEF Same
<1>15. Recorded(hc')
  <2>1. Later(hc, hc')
    BY <1>7 DEF Same, Later
  <2>2. QED
    BY <1>2, <2>1, LaterRecorded
<1>16. QED
  BY <1>2, <1>13, <1>14, <1>15, StepCloses

LEMMA UpstreamWriteCloses == HttpsInv /\ UpstreamWritecb => HttpsInv'
<1> SUFFICES ASSUME HttpsInv, UpstreamWritecb PROVE HttpsInv'
  OBVIOUS
<1> DEFINE w == [hc EXCEPT !.out = @ - 1]
<1>1. hc \in HttpsState /\ Tied(D(hc), hc.conn) /\ Parsing(hc, htodo) /\ Regular(hc) /\ Running(hc)
      /\ Recorded(hc) /\ UNCHANGED <<htodo, hsent>> /\ hc.out > 0
      /\ hc' = IF w.out > 0 THEN w ELSE IF w.close THEN DeleteHandler(w) ELSE OnWrite(w)
  BY DEF HttpsInv, UpstreamWritecb
<1>2. hc.out \in Nat /\ hc.out - 1 \in Nat
  <2>1. hc.out \in Nat
    BY <1>1, StateParts
  <2>2. QED
    BY <1>1, <2>1
<1>3. w \in HttpsState /\ D(w) = D(hc) /\ w.conn = hc.conn /\ w.out = hc.out - 1 /\ Same(w, hc) /\ w.ds = hc.ds
  BY <1>1, <1>2 DEF HttpsState, D, Same
<1> HIDE DEF w
<1>4. w.in = hc.in /\ w.abort = "none"
  BY <1>1, <1>3 DEF Same, Running
<1>5. Len(hc.in) <= Len(hc.in)
  <2>1. hc.in \in Seq(Tokens)
    BY <1>1 DEF HttpsState
  <2>2. QED
    BY <2>1
<1>6. Place(w) = Place(hc) /\ EndPlace(w) = EndPlace(hc) /\ (Agreed(w) <=> Agreed(hc))
  BY <1>3 DEF Place, EndPlace, Agreed, Same
<1>7. Carried(hc, w)
  BY <1>1, <1>3, <1>5, <1>6 DEF Carried, Same, Parsing, Running
<1>8. Fixed(w) /\ Refusal(w) /\ (w.out > 0 \/ ~w.close => Recorded(w))
  BY <1>1, <1>3 DEF Same, Recorded, Fixed, Refusal, Waits
<1>9. InOrderly(hc) => Orderly(hc) /\ Paused(hc) /\ (hc.in # <<>> /\ hc.rd = {} => hc.rcb)
  BY <1>1 DEF Regular, Running
<1>10. CASE hc' = w /\ (w.out > 0 \/ (~w.close /\ D(w) = NullObj))
  <2>1. ASSUME InOrderly(hc) PROVE Orderly(w) /\ Paused(w) /\ (w.in # <<>> /\ w.rd = {} => w.rcb)
    <3>1. Orderly(w)
      BY <1>3, <1>9, <1>10, <2>1 DEF Orderly, Served, Same
    <3>2. Paused(w) /\ (w.in # <<>> /\ w.rd = {} => w.rcb)
      BY <1>3, <1>9, <2>1 DEF Paused, Same
    <3>3. QED
      BY <3>1, <3>2
  <2>2. Recorded(w)
    BY <1>8, <1>10
  <2>3. QED
    BY <1>1, <1>7, <1>10, <2>1, <2>2, StepCloses
<1>11. CASE hc' = DeleteHandler(w)
  BY <1>1, <1>3, <1>4, <1>8, <1>11, GoneCloses
<1>12. CASE ~(w.out > 0) /\ ~w.close /\ hc' = OnWrite(w) /\ D(w) # NullObj
  <2> DEFINE d == [D(w) EXCEPT !.rd = @ \ {"NO_BUFFER"}]
             k == IF D(w).rd \ {"NO_BUFFER"} # {} \/ D(w).dconn = NoConn THEN w.conn
                  ELSE [w.conn EXCEPT ![D(w).dconn].on = TRUE]
  <2>1. Exists(w, 0) /\ D(w) \in DownstreamType /\ w.conn \in Backend /\ w.out \in Nat
    BY <1>3, <1>12, StateParts
  <2>2. hc' = Put(w, d, k, w.out)
    BY <1>3, <1>12, <2>1, ResumeReadIs DEF OnWrite
  <2>3. D(w).dconn \in {NoConn} \cup Conns
    BY <2>1 DEF DownstreamType
  <2>4. d \in DownstreamType /\ d.rd = D(w).rd \ {"NO_BUFFER"} /\ d.req = D(w).req /\ d.res = D(w).res
        /\ d.dconn = D(w).dconn
    BY <2>1 DEF DownstreamType
  <2>5. k \in Backend
    <3>1. CASE D(w).rd \ {"NO_BUFFER"} # {} \/ D(w).dconn = NoConn
      BY <2>1, <3>1
    <3>2. CASE ~(D(w).rd \ {"NO_BUFFER"} # {} \/ D(w).dconn = NoConn)
      <4>1. k = [w.conn EXCEPT ![D(w).dconn] = [w.conn[D(w).dconn] EXCEPT !.on = TRUE]] /\ D(w).dconn \in Conns
        BY <2>3, <3>2
      <4> HIDE DEF k, d
      <4>2. w.conn[D(w).dconn] \in ConnType({0})
        BY <2>1, <4>1 DEF Backend
      <4>3. [w.conn[D(w).dconn] EXCEPT !.on = TRUE] \in ConnType({0})
        BY <4>2 DEF ConnType
      <4>4. QED
        BY <2>1, <4>1, <4>3 DEF Backend
    <3>3. QED
      BY <3>1, <3>2
  <2>6. \A c \in Conns : /\ k[c].st = w.conn[c].st /\ k[c].open = w.conn[c].open /\ k[c].out = w.conn[c].out
           /\ k[c].mixed = w.conn[c].mixed /\ k[c].resp = w.conn[c].resp
           /\ k[c].wr = w.conn[c].wr /\ (c # D(w).dconn => k[c] = w.conn[c])
           /\ (c = D(w).dconn /\ d.rd = {} => k[c].on)
    <3>1. CASE D(w).rd \ {"NO_BUFFER"} # {} \/ D(w).dconn = NoConn
      BY <2>3, <2>4, <3>1, ConnsAreNumbers
    <3>2. CASE ~(D(w).rd \ {"NO_BUFFER"} # {} \/ D(w).dconn = NoConn)
      <4>1. k = [w.conn EXCEPT ![D(w).dconn].on = TRUE] /\ D(w).dconn \in Conns
        BY <2>3, <3>2
      <4>2. k = [w.conn EXCEPT ![D(w).dconn] = [w.conn[D(w).dconn] EXCEPT !.on = TRUE]]
        BY <4>1
      <4>3. \A c \in Conns : w.conn[c] \in ConnType({0})
        BY <2>1 DEF Backend
      <4> HIDE DEF k, d
      <4>4. \A c \in Conns : k[c] = IF c = D(w).dconn THEN [w.conn[c] EXCEPT !.on = TRUE] ELSE w.conn[c]
        BY <2>1, <4>1, <4>2 DEF Backend
      <4>5. QED
        BY <4>3, <4>4 DEF ConnType
    <3>3. QED
      BY <3>1, <3>2
  <2> HIDE DEF d, k
  <2>7. d # NullObj
    BY <2>4, NullNotDownstream
  <2>8. hc' \in HttpsState /\ Same(hc', w) /\ D(hc') = d /\ hc'.conn = k /\ hc'.out = w.out
    BY <1>3, <2>1, <2>2, <2>4, <2>5, PutShape DEF Down
  <2>9. Tied(d, k)
    <3>1. D(w).dconn # NoConn => w.conn[D(w).dconn].st = "busy"
      BY <1>1, <1>3, <1>12 DEF Tied
    <3>2. \A c \in Conns : k[c].st = "none" => k[c] = w.conn[c]
      BY <2>3, <2>6, <3>1, ConnsAreNumbers
    <3>3. QED
      BY <1>1, <1>3, <1>12, <2>3, <2>4, <2>6, <2>7, <3>1, <3>2 DEF Tied
  <2>10. Like(hc, hc') /\ Recorded(hc')
    <3>1. ~hc.refused
      BY <1>1, <1>3, <1>12 DEF Recorded, Refusal, Same
    <3>2. Like(hc, hc') /\ Later(w, hc')
      BY <1>3, <2>4, <2>7, <2>8, <2>9, <3>1 DEF Like, Later, Same
    <3>3. QED
      BY <1>8, <1>12, <3>2, LaterRecorded
  <2>11. ASSUME InOrderly(hc) PROVE Orderly(hc') /\ Paused(hc')
    <3>1. Orderly(hc) /\ Paused(hc)
      BY <1>9, <2>11
    <3>2. D(hc) # NullObj /\ (D(hc).req # "INITIAL" => d.rd = {})
      BY <1>3, <1>12, <2>4, <3>1 DEF Orderly, Served
    <3>3. Clean(k)
      BY <1>3, <2>6, <3>1 DEF Orderly, Clean
    <3>4. D(hc).req # "INITIAL" => D(hc).dconn # NoConn /\ Served(d, k[d.dconn], w.out)
      BY <1>3, <2>3, <2>4, <2>6, <3>1, <3>2 DEF Orderly, Served
    <3>5. D(hc).req = "INITIAL" => d.rd = {} /\ d.res = "INITIAL"
      BY <1>3, <2>4, <3>1, <3>2 DEF Orderly
    <3>6. Orderly(hc')
      BY <1>3, <2>4, <2>7, <2>8, <3>1, <3>2, <3>3, <3>4, <3>5 DEF Orderly, Same
    <3>7. Paused(hc')
      BY <1>3, <2>3, <2>4, <2>6, <2>7, <2>8, <3>1 DEF Paused, Same
    <3>8. QED
      BY <3>6, <3>7
  <2>12. D(hc) # NullObj
    BY <1>3, <1>12
  <2>13. QED
    BY <1>1, <2>10, <2>11, <2>12, LikeCloses
<1>13. QED
  <2>1. OnWrite(w) = w \/ D(w) # NullObj
    BY <1>3, StateParts DEF OnWrite
  <2>2. CASE w.out > 0
    BY <1>1, <1>10, <2>2
  <2>3. CASE ~(w.out > 0) /\ w.close
    BY <1>1, <1>11, <2>3
  <2>4. CASE ~(w.out > 0) /\ ~w.close
    <3>1. hc' = OnWrite(w)
      BY <1>1, <2>4
    <3>2. D(w) = NullObj => hc' = w
      BY <2>1, <3>1
    <3>3. QED
      BY <1>10, <1>12, <2>4, <3>1, <3>2
  <2>5. QED
    BY <2>2, <2>3, <2>4

\* A client whose request has a backend connection.
LEMMA BusyFacts ==
  ASSUME HttpsInv, Running(hc), Exists(hc, 0), D(hc).dconn # NoConn
  PROVE  /\ hc \in HttpsState /\ D(hc) \in DownstreamType /\ D(hc) # NullObj /\ D(hc).dconn \in Conns
         /\ hc.conn \in Backend /\ hc.out \in Nat /\ hc.n \in Nat /\ hc.abort = "none" /\ hc.up = "open"
         /\ Conn(hc, 0) = hc.conn[D(hc).dconn] /\ Conn(hc, 0) \in ConnType({0}) /\ Conn(hc, 0).st = "busy"
         /\ Tied(D(hc), hc.conn) /\ Parsing(hc, htodo) /\ Recorded(hc)
         /\ D(hc).req \in {"HEADER_COMPLETE", "MSG_COMPLETE"}
         /\ InOrderly(hc) => /\ Orderly(hc) /\ Paused(hc) /\ Clean(hc.conn) /\ ~Conn(hc, 0).mixed
                             /\ Served(D(hc), Conn(hc, 0), hc.out) /\ hc.n > 0
                             /\ hc.extra \/ hc.heads = Count(IF D(hc).res = "INITIAL" THEN hc.n - 1 ELSE hc.n)
<1>1. hc \in HttpsState /\ Tied(D(hc), hc.conn) /\ Parsing(hc, htodo) /\ Regular(hc) /\ Recorded(hc)
      /\ hc.abort = "none" /\ hc.up = "open"
  BY DEF HttpsInv, Running
<1>2. D(hc) \in DownstreamType /\ D(hc) # NullObj /\ hc.conn \in Backend /\ hc.out \in Nat /\ hc.n \in Nat
  BY <1>1, StateParts
<1>3. D(hc).dconn \in Conns /\ D(hc).req \in RequestStates
  BY <1>2 DEF DownstreamType
<1>4. Conn(hc, 0) = hc.conn[D(hc).dconn]
  BY DEF Conn, D
<1>5. Conn(hc, 0) \in ConnType({0}) /\ Conn(hc, 0).st = "busy"
  BY <1>1, <1>2, <1>3, <1>4 DEF Backend, Tied
<1>6. D(hc).req \in {"HEADER_COMPLETE", "MSG_COMPLETE"}
  BY <1>1, <1>2, <1>3 DEF Tied, RequestStates
<1>7. ASSUME InOrderly(hc)
      PROVE  /\ Orderly(hc) /\ Paused(hc) /\ Clean(hc.conn) /\ ~Conn(hc, 0).mixed
             /\ Served(D(hc), Conn(hc, 0), hc.out) /\ hc.n > 0
             /\ hc.extra \/ hc.heads = Count(IF D(hc).res = "INITIAL" THEN hc.n - 1 ELSE hc.n)
  <2>1. Orderly(hc) /\ Paused(hc) /\ Clean(hc.conn)
    BY <1>1, <1>7 DEF Regular
  <2>2. ~Conn(hc, 0).mixed
    BY <1>3, <1>4, <2>1 DEF Clean
  <2>3. QED
    BY <1>2, <1>4, <1>6, <2>1, <2>2 DEF Orderly
<1>8. QED
  BY <1>1, <1>2, <1>3, <1>4, <1>5, <1>6, <1>7

\* Only the connection of the request has changed, to b.
Touched(w, b) == Put(w, D(w), [w.conn EXCEPT ![D(w).dconn] = b], w.out)

LEMMA TouchedFacts ==
  ASSUME HttpsInv, Running(hc), Exists(hc, 0), D(hc).dconn # NoConn, NEW b \in ConnType({0}), b.st = "busy"
  PROVE  LET x == Touched(hc, b)
         IN  /\ x \in HttpsState /\ Like(hc, x) /\ D(x) = D(hc) /\ Conn(x, 0) = b /\ x.conn[D(hc).dconn] = b
             /\ x.out = hc.out /\ x.heads = hc.heads /\ x.final = hc.final /\ Recorded(x)
             /\ InOrderly(hc) /\ b.mixed = Conn(hc, 0).mixed => Clean(x.conn)
<1> DEFINE x == Touched(hc, b)
<1>1. hc \in HttpsState /\ D(hc) \in DownstreamType /\ D(hc) # NullObj /\ hc.out \in Nat /\ Tied(D(hc), hc.conn)
      /\ D(hc).dconn \in Conns /\ hc.conn \in Backend /\ Recorded(hc)
      /\ (InOrderly(hc) => Clean(hc.conn) /\ ~Conn(hc, 0).mixed)
  BY BusyFacts
<1>2. /\ Like(hc, x) /\ D(x) = D(hc) /\ x.conn[D(hc).dconn] = b /\ x.out = hc.out /\ x.heads = hc.heads
      /\ x.final = hc.final
      /\ Clean(hc.conn) /\ ~b.mixed => Clean(x.conn)
  BY <1>1, ConnChange DEF Touched
<1>3. Recorded(x)
  BY <1>1, <1>2, LikeRecorded
<1>4. Conn(x, 0) = b
  BY <1>2 DEF Conn, D
<1>5. QED
  BY <1>1, <1>2, <1>3, <1>4 DEF Like

LEMMA DownstreamWriteCloses == HttpsInv /\ DownstreamWritecb => HttpsInv'
<1> SUFFICES ASSUME HttpsInv, DownstreamWritecb PROVE HttpsInv'
  OBVIOUS
<1> DEFINE c == D(hc).dconn
           w == Flush(hc, c)
           b == [Conn(hc, 0) EXCEPT !.out = 0, !.resp = IF Conn(hc, 0).resp = "sent" THEN "wait" ELSE Conn(hc, 0).resp]
<1>1. Running(hc) /\ Exists(hc, 0) /\ D(hc).dconn # NoConn /\ UNCHANGED <<htodo, hsent>>
  BY DEF DownstreamWritecb
<1>2. PICK fail \in BOOLEAN : hc' = ResumeUpstream(w, "NO_BUFFER", fail)
  BY DEF DownstreamWritecb
<1>3. /\ hc \in HttpsState /\ D(hc) # NullObj /\ Conn(hc, 0) = hc.conn[c] /\ Conn(hc, 0) \in ConnType({0})
      /\ Conn(hc, 0).st = "busy" /\ Parsing(hc, htodo) /\ hc.abort = "none" /\ c \in Conns /\ hc.conn \in Backend
      /\ InOrderly(hc) => Orderly(hc) /\ Paused(hc) /\ Served(D(hc), Conn(hc, 0), hc.out)
  BY <1>1, BusyFacts
<1>4. b \in ConnType({0}) /\ b.st = "busy" /\ b.mixed = Conn(hc, 0).mixed
  BY <1>3 DEF ConnType
<1>5. w = Touched(hc, b)
  <2>1. w = [hc EXCEPT !.conn = [hc.conn EXCEPT ![c] = b]]
    BY <1>3 DEF Flush, HttpsState, Backend, ConnType
  <2>2. QED
    BY <1>3, <2>1, PutConnIs DEF Touched
<1>6. Served(D(hc), Conn(hc, 0), hc.out) => Served(D(hc), b, hc.out)
  BY <1>3 DEF Served, ConnType
<1> HIDE DEF w, b, c
<1>7. /\ w \in HttpsState /\ Like(hc, w) /\ D(w) = D(hc) /\ w.conn[D(hc).dconn] = b
      /\ w.out = hc.out /\ w.heads = hc.heads /\ Recorded(w) /\ (InOrderly(hc) => Clean(w.conn))
  BY <1>1, <1>4, <1>5, TouchedFacts
<1>8. Place(w) = Place(hc) /\ EndPlace(w) = EndPlace(hc) /\ (Agreed(w) <=> Agreed(hc))
  BY <1>3, <1>7, LikePlace
<1>9. Tied(D(w), w.conn) /\ w.abort = "none" /\ (w.htp # "error" => Agreed(w))
      /\ (w.htp = "paused" => Place(w) = "start")
  BY <1>1, <1>3, <1>7, <1>8 DEF Like, Parsing
<1> DEFINE v == ResumeUpstream(w, "NO_BUFFER", fail)
<1>10. /\ Carried(w, v)
       /\ w.rd \ {"NO_BUFFER"} # {} => v = [w EXCEPT !.rd = @ \ {"NO_BUFFER"}]
       /\ w.rd \ {"NO_BUFFER"} = {} /\ w.htp # "error" /\ Orderly(Unblocked(w)) => Settled(v)
       /\ Recorded(w) /\ (InOrderly(w) /\ w.rd \ {"NO_BUFFER"} = {} => w.htp # "error" /\ Orderly(Unblocked(w)))
            => Recorded(v)
  BY <1>7, <1>9, ResumeUpstreamKeeps
<1> HIDE DEF v
<1>11. Carried(hc, v)
  BY <1>7, <1>8, <1>10 DEF Carried, Like
<1>12. ASSUME InOrderly(hc) PROVE Orderly(w) /\ Paused(hc)
  <2>1. Orderly(hc) /\ Paused(hc) /\ Served(D(hc), b, hc.out)
    BY <1>3, <1>6, <1>12
  <2>2. QED
    BY <1>3, <1>7, <1>12, <2>1 DEF Orderly, Like
<1>13. w.rd = hc.rd /\ w.htp = hc.htp /\ w.rd \subseteq Reasons /\ w.htp \in {"ok", "paused", "error"}
  BY <1>7 DEF Like, HttpsState
<1>14. ASSUME InOrderly(hc), w.rd \ {"NO_BUFFER"} = {} PROVE w.htp # "error" /\ Orderly(Unblocked(w))
  <2>1. w.htp = "ok"
    BY <1>12, <1>13, <1>14 DEF Paused, Orderly
  <2>2. Unblocked(w).htp = w.htp /\ Unblocked(w).ds = w.ds /\ Unblocked(w).conn = w.conn
        /\ Unblocked(w).out = w.out /\ Unblocked(w).n = w.n /\ Unblocked(w).heads = w.heads
        /\ Unblocked(w).abort = w.abort /\ Unblocked(w).extra = w.extra
    BY <1>7, <2>1 DEF Unblocked, HttpsState
  <2>3. D(Unblocked(w)) = D(w)
    BY <2>2 DEF D
  <2>4. QED
    BY <1>12, <1>14, <2>1, <2>2, <2>3 DEF Orderly
<1>15. ASSUME InOrderly(hc), InOrderly(v)
       PROVE  Orderly(v) /\ Paused(v) /\ (v.in # <<>> /\ v.rd = {} => v.rcb)
  <2>1. CASE w.rd \ {"NO_BUFFER"} # {}
    <3>1. v = [w EXCEPT !.rd = @ \ {"NO_BUFFER"}]
      BY <1>10, <2>1
    <3>2. v.rd = w.rd \ {"NO_BUFFER"} /\ v.ds = w.ds /\ v.conn = w.conn /\ v.out = w.out /\ v.htp = w.htp
          /\ v.n = w.n /\ v.heads = w.heads /\ v.abort = w.abort /\ v.extra = w.extra
      BY <1>7, <3>1 DEF HttpsState
    <3>3. D(v) = D(w)
      BY <3>2 DEF D
    <3>4. Orderly(v)
      BY <1>12, <1>15, <3>2, <3>3 DEF Orderly
    <3>5. "MSG_BLOCK" \in v.rd <=> "MSG_BLOCK" \in w.rd
      BY <3>2
    <3>6. Paused(v)
      BY <1>12, <1>13, <1>15, <3>2, <3>5 DEF Paused
    <3>7. QED
      BY <2>1, <3>2, <3>4, <3>6
  <2>2. CASE w.rd \ {"NO_BUFFER"} = {}
    BY <1>10, <1>14, <1>15, <2>2 DEF Settled, InOrderly
  <2>3. QED
    BY <2>1, <2>2
<1>16. Recorded(v)
  <2>1. InOrderly(w) <=> InOrderly(hc)
    BY <1>7 DEF Like, InOrderly
  <2>2. QED
    BY <1>7, <1>10, <1>14, <2>1
<1>17. QED
  BY <1>1, <1>2, <1>11, <1>15, <1>16, StepCloses DEF v

LEMMA LikeChain ==
  ASSUME NEW u, NEW w, NEW x, Like(u, w), Like(w, x)
  PROVE  Like(u, x)
BY DEF Like

\* error_reply to a request whose response has not begun, or was followed by more.
LEMMA ReplyCloses ==
  ASSUME HttpsInv, Running(hc), Exists(hc, 0), D(hc).dconn # NoConn, NEW w, Like(hc, w), Recorded(w),
         w.heads = hc.heads, w.final = hc.final, NEW fail \in BOOLEAN,
         InOrderly(hc) => Clean(w.conn) /\ (w.extra \/ D(hc).res = "INITIAL"),
         hc' = NextRequest(ErrorReply(w), fail), UNCHANGED <<htodo, hsent>>
  PROVE  HttpsInv'
<1> DEFINE x == ErrorReply(w)
<1>1. D(hc) # NullObj /\ hc.n \in Nat
      /\ (InOrderly(hc) => /\ hc.n > 0
                           /\ hc.extra \/ hc.heads = Count(IF D(hc).res = "INITIAL" THEN hc.n - 1 ELSE hc.n))
  BY BusyFacts
<1>2. w \in HttpsState /\ Tied(D(w), w.conn) /\ D(w) # NullObj /\ w.close \in BOOLEAN /\ w.out \in Nat
  BY DEF Like, HttpsState
<1>3. /\ x \in HttpsState /\ x.conn = w.conn /\ x.heads = Append(w.heads, w.n) /\ x.out = w.out + 1
      /\ x.final = IF w.close /\ w.final = 0 THEN Len(w.heads) + 1 ELSE w.final
      /\ x.up = w.up /\ x.in = w.in /\ x.rcb = w.rcb /\ x.rd = w.rd /\ x.htp = w.htp /\ x.close = w.close
      /\ x.n = w.n /\ x.early = w.early /\ x.refused = w.refused /\ x.extra = w.extra /\ x.abort = w.abort
  BY <1>2, ErrorReplyFacts
<1>4. Tied(D(x), x.conn) /\ D(x) # NullObj /\ D(x).req = D(w).req
  BY <1>2, ErrorReplyKeeps
<1> HIDE DEF x
<1>5. x.out > 0
  BY <1>2, <1>3
<1>6. Like(hc, x)
  BY <1>3, <1>4, <1>5 DEF Like
<1>7. ASSUME InOrderly(hc), ~w.extra PROVE w.n > 0 /\ w.heads = Count(w.n - 1)
  BY <1>1, <1>7 DEF Like
<1>8. Recorded(x)
  <2>1. ASSUME w.final = 0, ~x.early, ~x.extra PROVE w.n > 0 /\ w.heads = Count(w.n - 1)
    <3>1. InOrderly(hc)
      BY <1>3, <2>1 DEF Like, InOrderly, Recorded, Refusal
    <3>2. QED
      BY <1>3, <1>7, <2>1, <3>1
  <2>2. Fixed(x) /\ (w.final # 0 => x.final # 0)
    BY <1>2, <1>3, <2>1, HeadRecorded DEF Recorded
  <2>3. QED
    BY <1>3, <1>5, <2>2 DEF Recorded, Refusal, Waits
<1>9. ASSUME InOrderly(hc) PROVE Clean(x.conn) /\ (x.extra \/ x.heads = Count(x.n))
  <2>1. w.n \in Nat
    BY <1>2, StateParts
  <2>2. w.n > 0 /\ w.heads = Count(w.n - 1) => x.heads = Count(x.n)
    BY <1>3, <2>1, CountAppend
  <2>3. QED
    BY <1>3, <1>7, <1>9, <2>2
<1>10. QED
  BY <1>1, <1>6, <1>8, <1>9, NextCloses DEF x

\* The response is over: on_downstream_body_complete.
LEMMA FinishedFacts ==
  ASSUME NEW w \in HttpsState, Tied(D(w), w.conn), D(w) # NullObj, NEW v,
         v \in {[BodyComplete(w) EXCEPT !.ds[0].res = "MSG_COMPLETE"],
                BodyComplete([w EXCEPT !.ds[0].res = "MSG_COMPLETE"])}
  PROVE  /\ Like(w, v) /\ D(v) = [D(w) EXCEPT !.res = "MSG_COMPLETE"] /\ v.conn = w.conn /\ v.out = w.out
         /\ v.heads = w.heads /\ v.final = w.final
<1> DEFINE d == [D(w) EXCEPT !.res = "MSG_COMPLETE"]
           e == [w.ds EXCEPT ![0].res = "MSG_COMPLETE"]
<1>1. D(w) \in DownstreamType /\ w.ds = [i \in {0} |-> D(w)]
  BY StateParts DEF HttpsState, D, Exists
<1>2. d \in DownstreamType /\ d.req = D(w).req /\ d.dconn = D(w).dconn /\ d.req_close = D(w).req_close
      /\ d.res_close = D(w).res_close
  BY <1>1 DEF DownstreamType, ResponseStates
<1>3. e = [i \in {0} |-> d] /\ e[0] = d
  BY <1>1
<1> HIDE DEF d, e
<1>4. e \in [{0} -> {NullObj} \cup DownstreamType]
  BY <1>2, <1>3
<1> DEFINE z == w.close \/ D(w).req_close \/ D(w).res_close
<1>5. D(w).req_close \in BOOLEAN /\ D(w).res_close \in BOOLEAN /\ w.close \in BOOLEAN
  BY <1>1 DEF DownstreamType, HttpsState
<1>6. z \in BOOLEAN /\ (w.close => z)
  OBVIOUS
<1> HIDE DEF z
<1>7. [BodyComplete(w) EXCEPT !.ds[0].res = "MSG_COMPLETE"] = [w EXCEPT !.close = z, !.ds = e]
  BY DEF BodyComplete, z, e, HttpsState
<1>8. BodyComplete([w EXCEPT !.ds[0].res = "MSG_COMPLETE"]) = [w EXCEPT !.ds = e, !.close = z]
  <2> DEFINE y == [w EXCEPT !.ds[0].res = "MSG_COMPLETE"]
  <2>1. y = [w EXCEPT !.ds = e]
    BY DEF e
  <2> HIDE DEF y
  <2>2. D(y) = d /\ y.close = w.close
    BY <1>3, <2>1 DEF D, HttpsState
  <2>3. BodyComplete(y) = [y EXCEPT !.close = z]
    BY <1>2, <2>2 DEF BodyComplete, z
  <2>4. QED
    BY <2>1, <2>3 DEF y
<1>9. v = [w EXCEPT !.close = z, !.ds = e]
  BY <1>7, <1>8 DEF HttpsState
<1>10. v \in HttpsState /\ D(v) = d /\ v.conn = w.conn /\ v.out = w.out /\ v.heads = w.heads
       /\ v.in = w.in /\ v.up = w.up /\ v.early = w.early /\ v.refused = w.refused /\ v.htp = w.htp
       /\ v.rd = w.rd /\ v.rcb = w.rcb /\ v.n = w.n /\ v.abort = w.abort /\ v.final = w.final
       /\ v.extra = w.extra /\ v.close = z
  BY <1>3, <1>4, <1>6, <1>9 DEF HttpsState, D
<1>11. d # NullObj
  BY <1>2, NullNotDownstream
<1>12. Tied(d, w.conn)
  BY <1>2, <1>11 DEF Tied
<1>13. QED
  BY <1>2, <1>6, <1>10, <1>11, <1>12 DEF Like, d

LEMMA DownstreamEventCloses == HttpsInv /\ DownstreamEventcb => HttpsInv'
<1> SUFFICES ASSUME HttpsInv, DownstreamEventcb PROVE HttpsInv'
  OBVIOUS
<1>1. Running(hc) /\ Exists(hc, 0) /\ D(hc).dconn # NoConn /\ UNCHANGED <<htodo, hsent>>
  BY DEF DownstreamEventcb
<1> DEFINE c == D(hc).dconn
<1>2. PICK fail \in BOOLEAN, e \in Events, side \in EventSides :
        CanEvent(hc, c, e, side) /\ hc' = DownstreamEvent(AfterEvent(hc, c, side), e, fail)
  BY DEF DownstreamEventcb
<1> DEFINE w == AfterEvent(hc, c, side)
           k == Conn(hc, 0)
           b == IF side = "read" THEN [k EXCEPT !.on = FALSE] ELSE [k EXCEPT !.wr = FALSE]
<1>3. /\ hc \in HttpsState /\ D(hc) # NullObj /\ k = hc.conn[c] /\ k \in ConnType({0}) /\ k.st = "busy"
      /\ hc.abort = "none" /\ c \in Conns /\ hc.conn \in Backend /\ D(hc) \in DownstreamType
      /\ InOrderly(hc) => /\ Served(D(hc), k, hc.out)
                          /\ hc.extra \/ hc.heads = Count(IF D(hc).res = "INITIAL" THEN hc.n - 1 ELSE hc.n)
  BY <1>1, BusyFacts
<1>4. b \in ConnType({0}) /\ b.st = "busy" /\ b.mixed = k.mixed
  BY <1>3 DEF ConnType
<1>5. w = Touched(hc, b)
  <2>1. w = [hc EXCEPT !.conn = [hc.conn EXCEPT ![c] = b]]
    <3>1. CASE side = "read"
      BY <1>3, <3>1 DEF AfterEvent
    <3>2. CASE side # "read"
      BY <1>3, <3>2 DEF AfterEvent
    <3>3. QED
      BY <3>1, <3>2
  <2>2. QED
    BY <1>3, <2>1, PutConnIs DEF Touched
<1> HIDE DEF w, b, k
<1>6. /\ w \in HttpsState /\ Like(hc, w) /\ D(w) = D(hc) /\ w.heads = hc.heads /\ w.final = hc.final
      /\ Recorded(w) /\ (InOrderly(hc) => Clean(w.conn))
  BY <1>1, <1>4, <1>5, TouchedFacts DEF k
<1>7. D(hc).res \in {"INITIAL", "HEADER_COMPLETE", "MSG_COMPLETE"}
  BY <1>3 DEF DownstreamType, ResponseStates
<1>8. CASE hc' = NextRequest(ErrorReply(w), fail) /\ D(hc).res = "INITIAL"
  BY <1>1, <1>6, <1>8, ReplyCloses
<1>9. CASE hc' = NextRequest(w, fail) /\ D(hc).res # "INITIAL"
  <2>1. InOrderly(hc) => Clean(w.conn) /\ (w.extra \/ w.heads = Count(w.n))
    BY <1>3, <1>6, <1>9 DEF Like
  <2>2. QED
    BY <1>1, <1>3, <1>6, <1>9, <2>1, NextCloses
<1> DEFINE v == [BodyComplete(w) EXCEPT !.ds[0].res = "MSG_COMPLETE"]
<1>10. CASE D(hc).res = "HEADER_COMPLETE" /\ hc' \in {DeleteHandler(v), NextRequest(v, fail)}
  <2>1. Like(w, v) /\ v.conn = w.conn /\ v.heads = w.heads /\ v.final = w.final
    BY <1>6, FinishedFacts DEF Like
  <2> HIDE DEF v
  <2>2. Like(hc, v)
    BY <1>6, <2>1, LikeChain
  <2>3. Recorded(v)
    BY <1>6, <2>1, LikeRecorded
  <2>4. CASE hc' = DeleteHandler(v)
    BY <1>1, <1>3, <2>2, <2>3, <2>4, GoneCloses DEF Like, Recorded
  <2>5. CASE hc' = NextRequest(v, fail)
    <3>1. InOrderly(hc) => Clean(v.conn) /\ (v.extra \/ v.heads = Count(v.n))
      BY <1>3, <1>6, <1>10, <2>1, <2>2 DEF Like
    <3>2. QED
      BY <1>1, <1>3, <2>2, <2>3, <2>5, <3>1, NextCloses
  <2>6. QED
    BY <1>10, <2>4, <2>5
<1>11. hc' = DownstreamEvent(w, e, fail)
  BY <1>2 DEF w
<1>12. CASE e = "eof"
  <2>1. CASE D(hc).res = "HEADER_COMPLETE"
    <3>1. hc' = IF v.close /\ v.out = 0 THEN DeleteHandler(v) ELSE NextRequest(v, fail)
      BY <1>6, <1>11, <1>12, <2>1 DEF DownstreamEvent
    <3> HIDE DEF v
    <3>2. QED
      BY <1>10, <2>1, <3>1 DEF v
  <2>2. CASE D(hc).res = "MSG_COMPLETE"
    BY <1>6, <1>9, <1>11, <1>12, <2>2 DEF DownstreamEvent
  <2>3. CASE D(hc).res = "INITIAL"
    BY <1>6, <1>8, <1>11, <1>12, <2>3 DEF DownstreamEvent
  <2>4. QED
    BY <1>7, <2>1, <2>2, <2>3
<1>13. CASE e # "eof"
  BY <1>6, <1>8, <1>9, <1>11, <1>13 DEF DownstreamEvent
<1>14. QED
  BY <1>12, <1>13

LEMMA AnswersFacts ==
  ASSUME NEW w, NEW c, NEW t \in HttpsAnswers(w, c)
  PROVE  \/ t.k = "hd" /\ t.close \in BOOLEAN /\ w.conn[c].resp = "wait"
         \/ t.k \in {"bd", "end", "over"} /\ w.conn[c].resp = "body"
         \/ t.k = "bad"
<1>1. CASE w.conn[c].resp = "wait"
  BY <1>1 DEF Answers, HttpsAnswers
<1>2. CASE w.conn[c].resp = "body"
  BY <1>2 DEF Answers, HttpsAnswers
<1>3. CASE w.conn[c].resp = "bad"
  BY <1>3 DEF Answers, HttpsAnswers
<1>4. CASE w.conn[c].resp \notin {"wait", "body", "bad"}
  BY <1>4 DEF Answers, HttpsAnswers
<1>5. QED
  BY <1>1, <1>2, <1>3, <1>4

\* A complete response: the backend connection is deleted or pooled.
LEMMA AfterResponseCloses ==
  ASSUME HttpsInv, Running(hc), Exists(hc, 0), D(hc).dconn # NoConn, NEW v, Like(hc, v),
         D(v).dconn = D(hc).dconn, D(v).res = "MSG_COMPLETE", Recorded(v), NEW fail \in BOOLEAN,
         InOrderly(hc) => /\ Clean(v.conn) /\ (v.extra \/ v.heads = Count(v.n))
                          /\ D(hc).req = "MSG_COMPLETE" =>
                               ~Conn(v, 0).open /\ Conn(v, 0).resp = "none" /\ Conn(v, 0).wr,
         hc' = AfterResponse(v, fail), UNCHANGED <<htodo, hsent>>
  PROVE  HttpsInv'
<1> DEFINE c == D(v).dconn
           k == v.conn[c]
           n == IF D(v).res_close THEN NewConn ELSE [k EXCEPT !.st = "idle", !.ds = 0, !.on = TRUE]
           u == IF D(v).res_close THEN DeleteConn(v, c) ELSE DetachDownstream(v, 0)
           d == [D(v) EXCEPT !.dconn = NoConn]
           m == [v.conn EXCEPT ![c] = n]
<1>1. v \in HttpsState /\ D(v) # NullObj /\ D(v).req = D(hc).req /\ Tied(D(v), v.conn) /\ D(hc) # NullObj
      /\ hc.abort = "none"
  BY StateParts DEF Like, HttpsInv, Running
<1>2. D(v) \in DownstreamType /\ v.conn \in Backend /\ v.out \in Nat /\ Exists(v, 0)
  BY <1>1, StateParts
<1>3. c \in Conns /\ k \in ConnType({0}) /\ k.st = "busy" /\ Conn(v, 0) = k
  <2>1. c \in Conns
    BY <1>2 DEF DownstreamType
  <2>2. QED
    BY <1>1, <1>2, <2>1 DEF Backend, Tied, Conn, D
<1>4. n \in ConnType({0}) /\ n.st \in {"none", "idle"} /\ (n.st = "none" => n = NewConn)
  BY <1>3 DEF ConnType, NewConn
<1>5. d \in DownstreamType /\ d.dconn = NoConn /\ d.req = D(v).req /\ d.res = D(v).res
  BY <1>2 DEF DownstreamType
<1>6. m \in Backend /\ m[c] = n /\ \A i \in Conns : i # c => m[i] = v.conn[i]
  BY <1>2, <1>3, <1>4 DEF Backend
<1>7. u = Put(v, d, m, v.out)
  BY <1>1, <1>2, <1>3, DeleteConnIs, DetachIs
<1>8. InOrderly(hc) /\ D(hc).req = "MSG_COMPLETE" => ~n.mixed /\ (n.st = "idle" => ~n.open /\ n.resp = "none" /\ n.wr)
  <2> SUFFICES ASSUME InOrderly(hc), D(hc).req = "MSG_COMPLETE"
               PROVE  ~n.mixed /\ (n.st = "idle" => ~n.open /\ n.resp = "none" /\ n.wr)
    OBVIOUS
  <2>1. ~k.mixed /\ ~k.open /\ k.resp = "none" /\ k.wr
    BY <1>3 DEF Clean
  <2>2. CASE D(v).res_close
    BY <2>2 DEF NewConn
  <2>3. CASE ~D(v).res_close
    BY <1>3, <2>1, <2>3 DEF ConnType
  <2>4. QED
    BY <2>2, <2>3
<1>9. hc' = IF D(u).req = "MSG_COMPLETE" /\ u.close /\ u.out = 0 THEN DeleteHandler(u) ELSE NextRequest(u, fail)
  BY DEF AfterResponse
<1> HIDE DEF u, n, d, m, k, c
<1>10. d # NullObj /\ d \in Down
  BY <1>5, NullNotDownstream DEF Down
<1>11. u \in HttpsState /\ Same(u, v) /\ D(u) = d /\ u.conn = m /\ u.out = v.out
  BY <1>1, <1>2, <1>6, <1>7, <1>10, PutShape
<1>12. Tied(d, m)
  <2>1. \A i \in Conns : i # c => m[i].st = "none" /\ m[i] = NewConn
    BY <1>1, <1>3, <1>6 DEF Tied, k
  <2>2. \A i \in Conns : m[i].st \notin {"lost", "busy"} /\ (m[i].st = "none" => m[i] = NewConn)
    BY <1>4, <1>6, <2>1
  <2>3. \A i, j \in Conns : m[i].st # "none" /\ m[j].st # "none" => i = j
    BY <2>1
  <2>4. d.req # "STREAM_CLOSED"
    BY <1>1, <1>5 DEF Tied
  <2>5. QED
    BY <1>5, <2>2, <2>3, <2>4 DEF Tied
<1>13. Like(v, u)
  BY <1>5, <1>10, <1>11, <1>12 DEF Like, Same
<1>14. Like(hc, u)
  BY <1>13, LikeChain
<1>15. Recorded(u)
  BY <1>11, <1>13, LikeRecorded DEF Same
<1>16. ASSUME InOrderly(hc), D(hc).req = "MSG_COMPLETE" PROVE Clean(u.conn) /\ (u.extra \/ u.heads = Count(u.n))
  <2>1. Clean(v.conn) /\ (v.extra \/ v.heads = Count(v.n))
    BY <1>16
  <2>2. Clean(m)
    BY <1>6, <1>8, <1>16, <2>1 DEF Clean
  <2>3. QED
    BY <1>11, <2>1, <2>2 DEF Same
<1>17. CASE hc' = DeleteHandler(u)
  BY <1>1, <1>14, <1>15, <1>17, GoneCloses DEF Like, Recorded
<1>18. CASE hc' = NextRequest(u, fail)
  BY <1>1, <1>14, <1>15, <1>16, <1>18, NextCloses
<1>19. QED
  BY <1>9, <1>17, <1>18

\* pause_read of the backend connection, when the client has output to take.
LEMMA PauseReadFacts ==
  ASSUME NEW v \in HttpsState, Tied(D(v), v.conn), D(v) # NullObj, D(v).dconn # NoConn, v.out > 0
  PROVE  LET x == PauseRead(v, 0, "NO_BUFFER")
         IN  /\ Like(v, x) /\ x.heads = v.heads /\ x.final = v.final
             /\ Orderly(v) /\ Paused(v) => Orderly(x) /\ Paused(x)
<1> DEFINE x == PauseRead(v, 0, "NO_BUFFER")
           c == D(v).dconn
           k == v.conn[c]
           b == [k EXCEPT !.on = FALSE]
           d == [D(v) EXCEPT !.rd = @ \cup {"NO_BUFFER"}]
<1>1. D(v) \in DownstreamType /\ v.conn \in Backend /\ v.out \in Nat
  BY StateParts
<1>2. c \in Conns /\ D(v).req \notin {"INITIAL", "CONNECT_FAIL"}
  BY <1>1 DEF DownstreamType, Tied
<1>3. k \in ConnType({0}) /\ k.st = "busy"
  BY <1>1, <1>2 DEF Backend, Tied
<1>4. b \in ConnType({0}) /\ b.st = "busy" /\ ~b.on /\ b.wr = k.wr /\ b.open = k.open /\ b.resp = k.resp
      /\ b.out = k.out /\ b.mixed = k.mixed
  BY <1>3 DEF ConnType
<1>5. d \in DownstreamType /\ d.req = D(v).req /\ d.dconn = c /\ d.res = D(v).res
      /\ d.rd = D(v).rd \cup {"NO_BUFFER"}
  BY <1>1 DEF DownstreamType, Reasons
<1>6. x = Put(v, d, [v.conn EXCEPT ![c] = b], v.out)
  BY <1>1, <1>2, PauseReadIs
<1> HIDE DEF x, d, b, k
<1>7. /\ Like(v, x) /\ D(x) = d /\ x.conn[c] = b /\ x.out = v.out /\ x.heads = v.heads /\ x.final = v.final
      /\ Clean(v.conn) /\ ~b.mixed => Clean(x.conn)
  BY <1>1, <1>4, <1>5, <1>6, ConnChange
<1> HIDE DEF c
<1>8. ASSUME Orderly(v), Paused(v) PROVE Orderly(x) /\ Paused(x)
  <2>1. Served(D(v), k, v.out) /\ Clean(v.conn) /\ ~k.mixed
    BY <1>2, <1>8 DEF Orderly, Clean, k, c
  <2>2. Served(d, b, x.out)
    BY <1>4, <1>5, <1>7, <2>1 DEF Served
  <2>3. Clean(x.conn)
    BY <1>4, <1>7, <2>1
  <2>4. D(x) # NullObj /\ D(x).dconn = c /\ D(x).dconn # NoConn /\ D(x).req = D(v).req /\ D(x).res = D(v).res
    BY <1>5, <1>7 DEF Like, c
  <2>5. Orderly(x)
    BY <1>2, <1>7, <1>8, <2>2, <2>3, <2>4 DEF Orderly, Like
  <2>6. Paused(x)
    BY <1>4, <1>7, <1>8, <2>4 DEF Paused, Like, k, c
  <2>7. QED
    BY <2>5, <2>6
<1>9. QED
  BY <1>7, <1>8 DEF x

\* A response that goes on, and the pause when the client's output is too long.
LEMMA GoingOnCloses ==
  ASSUME HttpsInv, Running(hc), Exists(hc, 0), D(hc).dconn # NoConn, NEW v, Like(hc, v),
         D(v).dconn = D(hc).dconn, v.out > 0, Recorded(v), InOrderly(hc) => Orderly(v) /\ Paused(v),
         hc' \in {v, PauseRead(v, 0, "NO_BUFFER")}, UNCHANGED <<htodo, hsent>>
  PROVE  HttpsInv'
<1> DEFINE x == PauseRead(v, 0, "NO_BUFFER")
<1>1. v \in HttpsState /\ Tied(D(v), v.conn) /\ D(v) # NullObj /\ D(hc) # NullObj
  BY StateParts DEF Like, HttpsInv
<1>2. /\ Like(v, x) /\ x.heads = v.heads /\ x.final = v.final
      /\ Orderly(v) /\ Paused(v) => Orderly(x) /\ Paused(x)
  BY <1>1, PauseReadFacts
<1> HIDE DEF x
<1>3. Like(hc, x) /\ Recorded(x)
  BY <1>2, LikeChain, LikeRecorded
<1>4. CASE hc' = v
  BY <1>1, <1>4, LikeCloses
<1>5. CASE hc' = x
  BY <1>1, <1>2, <1>3, <1>5, LikeCloses
<1>6. QED
  BY <1>4, <1>5 DEF x

LEMMA ResponseHeadFacts ==
  ASSUME NEW w \in HttpsState, Tied(D(w), w.conn), D(w) # NullObj, NEW t, t.close \in BOOLEAN
  PROVE  LET v == ResponseHead(w, t)
         IN  /\ Like(w, v) /\ v.conn = w.conn /\ v.out = w.out + 1 /\ v.heads = Append(w.heads, w.n)
             /\ D(v).res = "HEADER_COMPLETE" /\ D(v).dconn = D(w).dconn /\ D(v).rd = D(w).rd
             /\ v.final = IF (D(w).req_close \/ t.close) /\ w.final = 0 THEN Len(w.heads) + 1 ELSE w.final
<1> DEFINE v == ResponseHead(w, t)
           z == D(w).req_close \/ t.close
           f == IF z /\ w.final = 0 THEN Len(w.heads) + 1 ELSE w.final
           q == ResponseFields(w, 0, t)
           d == [D(w) EXCEPT !.res = "HEADER_COMPLETE", !.res_close = t.close]
           h == Append(w.heads, w.n)
<1>1. D(w) \in DownstreamType /\ w.ds = [i \in {0} |-> D(w)] /\ w.out \in Nat
  BY StateParts DEF HttpsState, D, Exists
<1>2. d \in DownstreamType /\ d.req = D(w).req /\ d.dconn = D(w).dconn /\ d.rd = D(w).rd
      /\ d.res = "HEADER_COMPLETE"
  BY <1>1 DEF DownstreamType, ResponseStates
<1>3. h \in Seq(Nat) /\ f \in Nat
  <2>1. w.heads \in Seq(Nat) /\ w.n \in Nat /\ w.final \in Nat
    BY DEF HttpsState
  <2>2. QED
    BY <2>1
<1> DEFINE e == [i \in {0} |-> d]
<1>4. e \in [{0} -> {NullObj} \cup DownstreamType] /\ e[0] = d
  BY <1>2
<1>5. [w.ds EXCEPT ![0] = d] = e
  BY <1>1
<1>6. q = [w EXCEPT !.ds = e]
  BY <1>5 DEF ResponseFields, D, HttpsState
<1>7. q.out = w.out /\ q.heads = w.heads /\ q.n = w.n /\ q.final = w.final
  BY <1>6 DEF HttpsState
<1> DEFINE o == w.out + 1
<1>8. o \in Nat /\ o > 0
  BY <1>1
<1>9. v = WriteHead(q, z)
  BY DEF ResponseHead
<1> HIDE DEF v, d, h, e, q, z
<1>10. v = [q EXCEPT !.out = o, !.heads = h, !.final = f]
  BY <1>7, <1>9 DEF WriteHead, h
<1> HIDE DEF f, o
<1>11. v = [w EXCEPT !.ds = e, !.out = o, !.heads = h, !.final = f]
  BY <1>6, <1>10
<1>12. v \in HttpsState /\ D(v) = d /\ v.conn = w.conn /\ v.out = o /\ v.heads = h
       /\ v.in = w.in /\ v.up = w.up /\ v.early = w.early /\ v.refused = w.refused /\ v.htp = w.htp
       /\ v.rd = w.rd /\ v.rcb = w.rcb /\ v.n = w.n /\ v.abort = w.abort /\ v.final = f
       /\ v.extra = w.extra /\ v.close = w.close
  BY <1>3, <1>4, <1>8, <1>11 DEF HttpsState, D
<1>13. d # NullObj
  BY <1>2, NullNotDownstream
<1>14. Tied(d, w.conn)
  BY <1>2, <1>13 DEF Tied
<1>15. QED
  BY <1>2, <1>8, <1>12, <1>13, <1>14 DEF Like, v, h, o, f, z

LEMMA DownstreamReadCloses == HttpsInv /\ DownstreamReadcb => HttpsInv'
<1> SUFFICES ASSUME HttpsInv, DownstreamReadcb PROVE HttpsInv'
  OBVIOUS
<1>1. Running(hc) /\ Exists(hc, 0) /\ D(hc).dconn # NoConn /\ Conn(hc, 0).on /\ UNCHANGED <<htodo, hsent>>
  BY DEF DownstreamReadcb
<1> DEFINE c == D(hc).dconn
<1>2. PICK fail \in BOOLEAN, t \in HttpsAnswers(hc, c) :
        hc' = DownstreamRead(Answered(hc, c, IF t.k = "over" THEN [k |-> "bad"] ELSE t), t, fail)
  BY DEF DownstreamReadcb
<1> DEFINE a == IF t.k = "over" THEN [k |-> "bad"] ELSE t
           w == Answered(hc, c, a)
           k == Conn(hc, 0)
           r == CASE a.k = "hd" -> "body" [] a.k = "end" -> "none" [] a.k = "bad" -> "bad" [] OTHER -> k.resp
           g == IF a.k \in {"bd", "bad"} THEN k.got + 1 ELSE k.got
           b == [k EXCEPT !.resp = r, !.got = g]
<1>3. /\ hc \in HttpsState /\ D(hc) # NullObj /\ k = hc.conn[c] /\ k \in ConnType({0}) /\ k.st = "busy"
      /\ hc.abort = "none" /\ c \in Conns /\ hc.conn \in Backend /\ D(hc) \in DownstreamType
      /\ hc.n \in Nat /\ hc.out \in Nat
  BY <1>1, BusyFacts
<1>4. InOrderly(hc) => /\ Served(D(hc), k, hc.out) /\ Orderly(hc) /\ Paused(hc) /\ hc.n > 0
                       /\ hc.extra \/ hc.heads = Count(IF D(hc).res = "INITIAL" THEN hc.n - 1 ELSE hc.n)
  BY <1>1, BusyFacts
<1>5. \/ t.k = "hd" /\ t.close \in BOOLEAN /\ k.resp = "wait"
      \/ t.k \in {"bd", "end", "over"} /\ k.resp = "body"
      \/ t.k = "bad"
  BY <1>2, <1>3, AnswersFacts
<1>6. r \in {"none", "sent", "wait", "body", "bad"} /\ g \in Nat
      /\ (t.k = "hd" => r = "body") /\ (t.k = "end" => r = "none") /\ (t.k = "bd" => r = k.resp)
  BY <1>3, <1>5 DEF ConnType
<1>7. w = Touched(hc, b)
  <2>1. w = [hc EXCEPT !.conn = [hc.conn EXCEPT ![c] = b]]
    BY <1>3 DEF Answered, Backend, ConnType
  <2>2. QED
    BY <1>3, <2>1, PutConnIs DEF Touched
<1> HIDE DEF r, g, a
<1>8. b \in ConnType({0}) /\ b.st = "busy" /\ b.mixed = k.mixed /\ b.on = k.on /\ b.wr = k.wr
      /\ b.open = k.open /\ b.out = k.out /\ b.resp = r
  BY <1>3, <1>6 DEF ConnType
<1> HIDE DEF w, b, k
<1>9. /\ w \in HttpsState /\ Like(hc, w) /\ D(w) = D(hc) /\ w.conn[c] = b
      /\ w.out = hc.out /\ w.heads = hc.heads /\ w.final = hc.final /\ Recorded(w)
      /\ (InOrderly(hc) => Clean(w.conn))
  BY <1>1, <1>7, <1>8, TouchedFacts DEF k
<1>10. Tied(D(w), w.conn) /\ D(w) # NullObj /\ w.in = hc.in /\ w.abort = "none" /\ w.n = hc.n
  BY <1>3, <1>9 DEF Like
<1>11. hc' = DownstreamRead(w, t, fail)
  BY <1>2 DEF w, a
<1>12. CASE t.k = "bad"
  <2>1. ParseResponse(w, t) = w
    BY <1>12 DEF ParseResponse
  <2>2. CASE D(hc).res = "HEADER_COMPLETE"
    <3>1. hc' = DeleteHandler(w)
      BY <1>9, <1>11, <1>12, <2>1, <2>2 DEF DownstreamRead
    <3>2. QED
      BY <1>1, <1>9, <1>10, <3>1, GoneCloses DEF Recorded
  <2>3. CASE D(hc).res # "HEADER_COMPLETE"
    <3>1. hc' = NextRequest(ErrorReply(w), fail)
      BY <1>9, <1>11, <1>12, <2>1, <2>3 DEF DownstreamRead
    <3>2. InOrderly(hc) => D(hc).res = "INITIAL"
      BY <1>3, <1>4, <2>3 DEF Served, DownstreamType, ResponseStates
    <3>3. QED
      BY <1>1, <1>9, <3>1, <3>2, ReplyCloses
  <2>4. QED
    BY <2>2, <2>3
<1>13. CASE t.k = "over"
  <2> DEFINE x == BodyComplete([w EXCEPT !.ds[0].res = "MSG_COMPLETE"])
             v == [x EXCEPT !.extra = TRUE]
  <2>1. /\ Like(w, x) /\ D(x) = [D(w) EXCEPT !.res = "MSG_COMPLETE"] /\ x.conn = w.conn /\ x.out = w.out
        /\ x.heads = w.heads /\ x.final = w.final
    BY <1>9, <1>10, FinishedFacts
  <2>2. ParseResponse(w, t) = v
    BY <1>13 DEF ParseResponse
  <2> HIDE DEF x
  <2>3. x \in HttpsState
    BY <2>1 DEF Like
  <2>4. v \in HttpsState /\ D(v) = D(x) /\ v.conn = x.conn /\ v.out = x.out /\ v.heads = x.heads
        /\ v.final = x.final /\ v.extra = TRUE /\ v.in = x.in /\ v.up = x.up /\ v.early = x.early
        /\ v.refused = x.refused /\ v.htp = x.htp /\ v.rd = x.rd /\ v.rcb = x.rcb /\ v.n = x.n
        /\ v.abort = x.abort /\ v.close = x.close
    BY <2>3 DEF HttpsState, D
  <2> HIDE DEF v
  <2>5. D(v).res = "MSG_COMPLETE"
    BY <1>3, <1>9, <2>1, <2>4 DEF DownstreamType
  <2>6. hc' = NextRequest(ErrorReply(v), fail)
    BY <1>11, <1>13, <2>2, <2>5 DEF DownstreamRead
  <2>7. Like(w, v)
    BY <2>1, <2>4 DEF Like
  <2>8. Like(hc, v)
    BY <1>9, <2>7, LikeChain
  <2>9. Recorded(v)
    BY <1>9, <2>1, <2>4, <2>7, LikeRecorded
  <2>10. QED
    BY <1>1, <1>9, <2>1, <2>4, <2>6, <2>8, <2>9, ReplyCloses
<1>14. InOrderly(hc) => k.on /\ D(hc).rd = {} /\ b.on /\ b.wr /\ (D(hc).req = "MSG_COMPLETE" => ~b.open)
  BY <1>1, <1>4, <1>8 DEF Served, k
<1>15. CASE t.k = "hd"
  <2> DEFINE v == ResponseHead(w, t)
  <2>1. /\ Like(w, v) /\ v.conn = w.conn /\ v.out = w.out + 1 /\ v.heads = Append(w.heads, w.n)
        /\ D(v).res = "HEADER_COMPLETE" /\ D(v).dconn = D(w).dconn /\ D(v).rd = D(w).rd
        /\ v.final = IF (D(w).req_close \/ t.close) /\ w.final = 0 THEN Len(w.heads) + 1 ELSE w.final
    BY <1>5, <1>9, <1>10, <1>15, ResponseHeadFacts
  <2>2. hc' \in {v, PauseRead(v, 0, "NO_BUFFER")}
    BY <1>11, <1>15, <2>1 DEF DownstreamRead, ParseResponse
  <2> HIDE DEF v
  <2>3. Like(hc, v) /\ v.out > 0 /\ D(v).dconn = c
    BY <1>3, <1>9, <2>1, LikeChain
  <2>4. ASSUME InOrderly(hc) PROVE Orderly(v) /\ Paused(v)
    <3>1. D(hc).res = "INITIAL" /\ (hc.extra \/ hc.heads = Count(hc.n - 1))
      BY <1>4, <1>5, <1>15, <2>4 DEF Served
    <3>2. v.extra \/ v.heads = Count(v.n)
      BY <1>3, <1>4, <1>9, <1>10, <2>1, <2>3, <2>4, <3>1, CountAppend DEF Like
    <3>3. Served(D(v), b, v.out)
      BY <1>6, <1>8, <1>9, <1>14, <1>15, <2>1, <2>3, <2>4 DEF Served, Like
    <3>4. D(v) # NullObj /\ D(v).req = D(hc).req /\ D(v).req # "INITIAL" /\ v.conn[c] = b /\ Clean(v.conn)
          /\ v.htp = hc.htp /\ v.rd = hc.rd /\ v.in = hc.in /\ v.n = hc.n /\ v.abort = hc.abort
      BY <1>1, <1>9, <2>1, <2>3, <2>4 DEF Like, Tied
    <3>5. Orderly(v)
      BY <1>1, <1>3, <1>4, <2>1, <2>3, <2>4, <3>2, <3>3, <3>4 DEF Orderly
    <3>6. Paused(v)
      BY <1>1, <1>3, <1>4, <1>8, <2>3, <2>4, <3>4 DEF Paused, k
    <3>7. QED
      BY <3>5, <3>6
  <2>5. Recorded(v)
    <3> DEFINE z == D(w).req_close \/ t.close
    <3>1. z \in BOOLEAN
      OBVIOUS
    <3>2. w.early = v.early /\ (w.extra => v.extra) /\ v.refused = w.refused /\ (w.close => v.close)
      BY <2>1 DEF Like
    <3>3. ASSUME w.final = 0, ~v.early, ~v.extra PROVE w.n > 0 /\ w.heads = Count(w.n - 1)
      <4>1. InOrderly(hc) /\ ~hc.extra
        BY <1>9, <2>1, <3>3 DEF Like, InOrderly, Recorded, Refusal
      <4>2. QED
        BY <1>4, <1>5, <1>9, <1>10, <1>15, <4>1 DEF Served
    <3> HIDE DEF z
    <3>4. v.final = IF z /\ w.final = 0 THEN Len(w.heads) + 1 ELSE w.final
      BY <2>1 DEF z
    <3>5. Fixed(v) /\ (w.final # 0 => v.final # 0)
      BY <1>9, <2>1, <3>1, <3>2, <3>3, <3>4, HeadRecorded DEF Recorded
    <3>6. QED
      BY <1>9, <2>3, <3>2, <3>5 DEF Recorded, Refusal, Waits
  <2>6. QED
    BY <1>1, <2>2, <2>3, <2>4, <2>5, GoingOnCloses
<1>16. CASE t.k = "bd"
  <2> DEFINE v == ResponseBody(w)
  <2>1. v \in HttpsState /\ D(v) = D(w) /\ v.conn = w.conn /\ v.out = w.out + 1 /\ v.heads = w.heads
        /\ v.final = w.final /\ Like(w, v)
    <3> DEFINE o == w.out + 1
    <3>1. o \in Nat /\ o > 0 /\ v = [w EXCEPT !.out = o]
      BY <1>3, <1>9 DEF ResponseBody
    <3> HIDE DEF o, v
    <3>2. v \in HttpsState /\ D(v) = D(w) /\ v.conn = w.conn /\ v.out = o /\ v.heads = w.heads
          /\ v.in = w.in /\ v.up = w.up /\ v.early = w.early /\ v.refused = w.refused /\ v.htp = w.htp
          /\ v.rd = w.rd /\ v.rcb = w.rcb /\ v.n = w.n /\ v.abort = w.abort /\ v.final = w.final
          /\ v.extra = w.extra /\ v.close = w.close
      BY <1>9, <3>1 DEF HttpsState, D
    <3>3. QED
      BY <1>10, <3>1, <3>2 DEF Like, o
  <2>2. IF D(v).res = "MSG_COMPLETE" THEN hc' = AfterResponse(v, fail)
        ELSE hc' \in {v, PauseRead(v, 0, "NO_BUFFER")}
    BY <1>11, <1>16 DEF DownstreamRead, ParseResponse
  <2> HIDE DEF v
  <2>3. Like(hc, v) /\ v.out > 0 /\ D(v).dconn = c /\ D(v) = D(hc) /\ v.conn[c] = b /\ Recorded(v)
    BY <1>3, <1>9, <2>1, LikeChain, LikeRecorded
  <2>4. InOrderly(hc) => D(v).res # "MSG_COMPLETE"
    BY <1>4, <2>3 DEF Served
  <2>5. ASSUME InOrderly(hc) PROVE Orderly(v) /\ Paused(v)
    <3>1. Served(D(v), b, v.out)
      BY <1>4, <1>6, <1>8, <1>14, <1>16, <2>3, <2>5 DEF Served
    <3>2. D(v) # NullObj /\ Clean(v.conn) /\ v.heads = hc.heads
          /\ v.htp = hc.htp /\ v.rd = hc.rd /\ v.in = hc.in /\ v.n = hc.n /\ v.abort = hc.abort
          /\ (hc.extra => v.extra)
      BY <1>9, <2>1, <2>3, <2>5 DEF Like
    <3>3. Orderly(v)
      BY <1>1, <1>4, <2>3, <2>5, <3>1, <3>2 DEF Orderly
    <3>4. Paused(v)
      BY <1>1, <1>3, <1>4, <1>8, <2>3, <2>5, <3>2 DEF Paused, k
    <3>5. QED
      BY <3>3, <3>4
  <2>6. CASE D(v).res = "MSG_COMPLETE"
    BY <1>1, <2>2, <2>3, <2>4, <2>6, AfterResponseCloses
  <2>7. CASE D(v).res # "MSG_COMPLETE"
    BY <1>1, <2>2, <2>3, <2>5, <2>7, GoingOnCloses
  <2>8. QED
    BY <2>6, <2>7
<1>17. CASE t.k = "end"
  <2> DEFINE v == BodyComplete([w EXCEPT !.ds[0].res = "MSG_COMPLETE"])
  <2>1. /\ Like(w, v) /\ D(v) = [D(w) EXCEPT !.res = "MSG_COMPLETE"] /\ v.conn = w.conn /\ v.heads = w.heads
        /\ v.final = w.final
    BY <1>9, <1>10, FinishedFacts
  <2>2. D(v).res = "MSG_COMPLETE" /\ D(v).dconn = c
    BY <1>3, <1>9, <2>1 DEF DownstreamType
  <2>3. hc' = AfterResponse(v, fail)
    BY <1>11, <1>17, <2>2 DEF DownstreamRead, ParseResponse
  <2> HIDE DEF v
  <2>4. Like(hc, v) /\ Recorded(v)
    BY <1>9, <2>1, LikeChain, LikeRecorded
  <2>5. Conn(v, 0) = b
    BY <1>9, <2>1, <2>2 DEF Conn, D
  <2>6. ASSUME InOrderly(hc)
        PROVE  /\ Clean(v.conn) /\ (v.extra \/ v.heads = Count(v.n))
               /\ D(hc).req = "MSG_COMPLETE" =>
                    ~Conn(v, 0).open /\ Conn(v, 0).resp = "none" /\ Conn(v, 0).wr
    <3>1. D(hc).res # "INITIAL"
      BY <1>4, <1>5, <1>17, <2>6 DEF Served
    <3>2. (v.extra \/ v.heads = Count(v.n)) /\ Clean(v.conn)
      BY <1>4, <1>9, <2>1, <2>4, <2>6, <3>1 DEF Like
    <3>3. QED
      BY <1>6, <1>8, <1>14, <1>17, <2>5, <2>6, <3>2
  <2>7. QED
    BY <1>1, <2>2, <2>3, <2>4, <2>6, AfterResponseCloses
<1>18. QED
  BY <1>5, <1>12, <1>13, <1>15, <1>16, <1>17
-----------------------------------------------------------------------------
(* The theorems.                                                           *)

LEMMA HttpsStart == HttpsInit => HttpsInv
<1> SUFFICES ASSUME HttpsInit PROVE HttpsInv
  OBVIOUS
<1>1. NewConn \in ConnType({0}) /\ NewConn.st = "none" /\ ~NewConn.mixed
  BY DEF NewConn, ConnType
<1>2. hc \in HttpsState
  <2>1. [id \in {0} |-> NullObj] \in [{0} -> {NullObj} \cup DownstreamType]
        /\ [c \in Conns |-> NewConn] \in [Conns -> ConnType({0})]
    BY <1>1
  <2>2. <<>> \in Seq(Tokens) /\ <<>> \in Seq(Nat)
    OBVIOUS
  <2>3. QED
    BY <2>1, <2>2 DEF HttpsInit, HttpsState
<1>3. D(hc) = NullObj /\ hc.up = "open" /\ hc.conn = [c \in Conns |-> NewConn] /\ hc.in = <<>> /\ hc.rd = {}
      /\ hc.htp = "ok" /\ hc.n = 0 /\ hc.heads = <<>> /\ hc.abort = "none" /\ hc.final = 0 /\ ~hc.refused
  BY DEF HttpsInit, D
<1>4. htodo = <<>> /\ hsent \in 0..MaxReq /\ Len(hc.in) <= MaxIn
  BY <1>3, RequestsAssumption DEF HttpsInit
<1>5. Unsent(htodo)
  BY <1>4 DEF Unsent
<1>6. Tied(D(hc), hc.conn) /\ Clean(hc.conn)
  BY <1>1, <1>3 DEF Tied, Clean
<1>7. Parsing(hc, htodo)
  <2>1. Place(hc) = "start" /\ EndPlace(hc) = "start"
    BY <1>3 DEF Place, PlaceOf, EndPlace
  <2>2. Chained(hc.in)
    BY <1>3 DEF Chained
  <2>3. QED
    BY <1>3, <1>4, <2>1, <2>2 DEF Parsing, Agreed, Going
<1>8. Orderly(hc) /\ Paused(hc)
  <2>1. Count(0) = <<>>
    BY DEF Count
  <2>2. QED
    BY <1>3, <1>6, <2>1 DEF Orderly, Paused
<1>9. Recorded(hc)
  BY <1>3 DEF Recorded, Fixed, Refusal, Waits
<1>10. QED
  BY <1>2, <1>3, <1>4, <1>5, <1>6, <1>7, <1>8, <1>9 DEF HttpsInv, Regular

LEMMA HttpsStep == HttpsInv /\ [HttpsNext]_httpsVars => HttpsInv'
<1> SUFFICES ASSUME HttpsInv, [HttpsNext]_httpsVars PROVE HttpsInv'
  OBVIOUS
<1>1. CASE UNCHANGED httpsVars
  BY <1>1 DEF httpsVars, HttpsInv
<1>2. QED
  BY <1>1, ClientSendCloses, UpstreamReadCloses, UpstreamWriteCloses, UpstreamEventCloses,
     DownstreamReadCloses, DownstreamWriteCloses, DownstreamEventCloses, IdleEventCloses DEF HttpsNext

LEMMA HttpsAlways == HttpsSpec => []HttpsInv
BY HttpsStart, HttpsStep, PTL DEF HttpsSpec

\* Whatever order libevent calls the handlers in, and whether or not the client
\* keeps to HTTP, a request and its backend connection point at each other or not
\* at all, a client never has two connections, and ~ClientHandler leaves none.
THEOREM BackendOwned == HttpsSpec => []HttpsOwnership
<1>1. HttpsInv => HttpsOwnership
  <2> SUFFICES ASSUME HttpsInv PROVE HttpsOwnership
    OBVIOUS
  <2>1. hc \in HttpsState /\ Len(hc.in) <= MaxIn /\ hsent \in 0..MaxReq /\ Tied(D(hc), hc.conn)
        /\ (hc.up = "gone" => Vacant(D(hc), hc.conn))
    BY DEF HttpsInv
  <2>2. (Exists(hc, 0) <=> D(hc) # NullObj) /\ hc.conn \in Backend /\ DOMAIN hc.ds = {0}
    BY <2>1, StateParts DEF HttpsState
  <2>3. HttpsTypeOK
    BY <2>1, <2>2 DEF HttpsTypeOK, Tied
  <2>4. \A c \in Conns : hc.conn[c].ds = 0
    BY <2>2 DEF Backend, ConnType
  <2>5. PointersAgree(hc)
    <3>1. \A c \in Conns : hc.conn[c].st = "busy" => Exists(hc, hc.conn[c].ds) /\ hc.ds[hc.conn[c].ds].dconn = c
      BY <2>1, <2>2, <2>4 DEF Tied, D
    <3>2. ASSUME Exists(hc, 0), hc.ds[0].dconn # NoConn PROVE Conn(hc, 0).st = "busy" /\ Conn(hc, 0).ds = 0
      <4>1. D(hc).dconn \in Conns
        BY <2>1, <3>2, StateParts DEF DownstreamType, D
      <4>2. QED
        BY <2>1, <2>2, <2>4, <3>2, <4>1 DEF Tied, Conn, D
    <3>3. QED
      BY <2>2, <3>1, <3>2 DEF PointersAgree
  <2>6. Cardinality({c \in Conns : hc.conn[c].st # "none"}) <= 1
    <3> DEFINE S == {c \in Conns : hc.conn[c].st # "none"}
    <3>1. CASE S = {}
      BY <3>1, FS_EmptySet
    <3>2. CASE S # {}
      <4>1. PICK c \in S : TRUE
        BY <3>2
      <4>2. S = {c}
        BY <2>1, <4>1 DEF Tied
      <4>3. Cardinality({c}) = 1
        BY FS_Singleton
      <4> HIDE DEF S
      <4>4. Cardinality(S) = 1
        BY <4>2, <4>3
      <4>5. QED
        BY <4>4 DEF S
    <3>3. QED
      BY <3>1, <3>2
  <2>7. QED
    BY <2>1, <2>3, <2>5, <2>6 DEF HttpsOwnership, Vacant
<1>2. QED
  BY <1>1, HttpsAlways, PTL

\* Pipelined requests get one response each, in their order, up to the response
\* that closes the connection: no error reply of on_read, https_downstream_readcb
\* or https_downstream_eventcb doubles a response, and no request is passed over,
\* however many are refused or fail.  Not when a backend has answered too soon
\* (early) or too much (extra).
THEOREM ResponsesInOrder == HttpsSpec => []OneResponseEach
<1>1. HttpsInv => OneResponseEach
  <2> DEFINE due == IF Exists(hc, 0) /\ D(hc).res = "INITIAL" THEN hc.n - 1 ELSE hc.n
  <2> SUFFICES ASSUME HttpsInv, Running(hc), ~hc.early, ~hc.extra
               PROVE  /\ \A i \in ReadHeads(hc) : hc.heads[i] = i
                      /\ hc.final = 0 => Len(hc.heads) = due
    BY DEF OneResponseEach
  <2>1. hc \in HttpsState /\ Regular(hc) /\ Fixed(hc) /\ Refusal(hc)
    BY DEF HttpsInv, Recorded
  <2>2. CASE hc.final # 0
    <3>1. ReadHeads(hc) = 1..hc.final
      BY <2>2 DEF ReadHeads
    <3>2. QED
      BY <2>1, <2>2, <3>1 DEF Fixed
  <2>3. CASE hc.final = 0
    <3>1. Orderly(hc)
      BY <2>1, <2>3 DEF Refusal, Regular, InOrderly, Running
    <3>2. (Exists(hc, 0) <=> D(hc) # NullObj) /\ hc.n \in Nat
      BY <2>1, StateParts
    <3>3. hc.heads = Count(due) /\ due \in Nat
      BY <3>1, <3>2 DEF Orderly
    <3> HIDE DEF due
    <3>4. Len(hc.heads) = due /\ \A i \in 1..due : hc.heads[i] = i
      BY <3>3 DEF Count
    <3>5. ReadHeads(hc) = 1..due
      BY <2>3, <3>4 DEF ReadHeads
    <3>6. QED
      BY <3>4, <3>5 DEF due
  <2>4. QED
    BY <2>2, <2>3
<1>2. QED
  BY <1>1, HttpsAlways, PTL

\* Until on_read refuses a request, a backend connection in the pool is between
\* requests, and no request is sent into the body of another.
THEOREM PoolIsClean == HttpsSpec => [](~hc.refused => PooledIsClean)
<1>1. HttpsInv => (~hc.refused => PooledIsClean)
  BY DEF HttpsInv, Regular, InOrderly, Clean, PooledIsClean
<1>2. QED
  BY <1>1, HttpsAlways, PTL

\* A client of which on_read has refused a request has output to take and is closed
\* after it.  Before that, one that is not read from waits for an event that can
\* still come and resumes it, one that is read from has no octets that no callback
\* is due for, and no assertion of on_read, attach_downstream or
\* http_parser_pause fails.
THEOREM ClientNeverStuck == HttpsSpec => [](RefusedIsClosed /\ (~hc.refused => NoStuckClient))
<1>1. HttpsInv => RefusedIsClosed /\ (~hc.refused => NoStuckClient)
  <2> SUFFICES ASSUME HttpsInv PROVE RefusedIsClosed /\ (~hc.refused => NoStuckClient)
    OBVIOUS
  <2>1. hc \in HttpsState /\ Regular(hc) /\ Refusal(hc) /\ Waits(hc)
    BY DEF HttpsInv, Recorded
  <2>2. RefusedIsClosed
    BY <2>1 DEF RefusedIsClosed, Refusal, Waits, Running
  <2>3. ASSUME ~hc.refused, ~hc.early
        PROVE  /\ hc.abort = "none"
               /\ Running(hc) =>
                    /\ "MSG_BLOCK" \in hc.rd =>
                         /\ Exists(hc, 0) /\ D(hc).req = "MSG_COMPLETE" /\ D(hc).dconn # NoConn
                         /\ Conn(hc, 0).on \/ ("NO_BUFFER" \in D(hc).rd /\ hc.out > 0)
                    /\ "NO_BUFFER" \in hc.rd =>
                         Exists(hc, 0) /\ D(hc).dconn # NoConn /\ Conn(hc, 0).wr /\ Conn(hc, 0).out > 0
                    /\ hc.rd = {} => hc.htp = "ok" /\ (hc.in # <<>> => hc.rcb)
    <3>1. hc.abort = "none" /\ InOrderly(hc)
      BY <2>1, <2>3 DEF Regular, InOrderly
    <3>2. SUFFICES ASSUME Running(hc)
                   PROVE  /\ "MSG_BLOCK" \in hc.rd =>
                               /\ Exists(hc, 0) /\ D(hc).req = "MSG_COMPLETE" /\ D(hc).dconn # NoConn
                               /\ Conn(hc, 0).on \/ ("NO_BUFFER" \in D(hc).rd /\ hc.out > 0)
                          /\ "NO_BUFFER" \in hc.rd =>
                               Exists(hc, 0) /\ D(hc).dconn # NoConn /\ Conn(hc, 0).wr /\ Conn(hc, 0).out > 0
                          /\ hc.rd = {} => hc.htp = "ok" /\ (hc.in # <<>> => hc.rcb)
      BY <3>1
    <3>3. Orderly(hc) /\ Paused(hc) /\ (hc.in # <<>> /\ hc.rd = {} => hc.rcb)
      BY <2>1, <3>1, <3>2 DEF Regular, Running
    <3>4. (Exists(hc, 0) <=> D(hc) # NullObj) /\ Conn(hc, 0) = hc.conn[D(hc).dconn]
          /\ hc.htp \in {"ok", "paused", "error"}
      BY <2>1, StateParts DEF HttpsState, Conn, D
    <3>5. ASSUME D(hc) # NullObj, D(hc).req # "INITIAL"
          PROVE  D(hc).dconn # NoConn /\ Conn(hc, 0).wr /\ (Conn(hc, 0).on \/ ("NO_BUFFER" \in D(hc).rd /\ hc.out > 0))
      BY <3>3, <3>4, <3>5 DEF Orderly, Served
    <3>6. "MSG_BLOCK" \in hc.rd => D(hc) # NullObj /\ D(hc).req = "MSG_COMPLETE"
      BY <3>3 DEF Paused, Orderly
    <3>7. "NO_BUFFER" \in hc.rd => D(hc) # NullObj /\ D(hc).req = "HEADER_COMPLETE" /\ Conn(hc, 0).out > 0
      BY <3>3, <3>4 DEF Paused
    <3>8. hc.rd = {} => hc.htp = "ok"
      BY <3>3, <3>4 DEF Paused, Orderly
    <3>9. QED
      BY <3>3, <3>4, <3>5, <3>6, <3>7, <3>8
  <2>4. QED
    BY <2>2, <2>3 DEF NoStuckClient
<1>2. QED
  BY <1>1, HttpsAlways, PTL
=============================================================================
