----------------------------- MODULE ServerProofs -----------------------------
(***************************************************************************)
(* Proofs about SpdyServer: for every number of clients, descriptors and   *)
(* pushed files, whatever the clients ask for and however little the       *)
(* sockets take, handlers and sockets belong together, files are closed by *)
(* their owners, and pushes are announced before the page is sent.         *)
(***************************************************************************)
EXTENDS SpdyServer, FiniteSetTheorems, WellFoundedInduction, TLAPS

\* The safety part of what the server and its clients do.
ServerSpec == ServerInit /\ [][ServerNext]_sv

LEMMA LeastNumber ==
  ASSUME NEW T, T \subseteq Nat, T # {}
  PROVE  \E x \in T : \A y \in T : x <= y
<1> DEFINE R == OpToRel(<, Nat)
<1>1. IsWellFoundedOn(R, Nat)
  BY NatLessThanWellFounded, Zenon
<1>2. \E x \in T : \A y \in T : ~(<<y, x>> \in R)
  <2> HIDE DEF R
  <2> QED
    BY <1>1, WFMin
<1>3. \E x \in T : \A y \in T : ~(y < x)
  BY <1>2 DEF OpToRel
<1>4. \A x, y \in T : ~(y < x) => x <= y
  OBVIOUS
<1>5. QED
  BY <1>3, <1>4

LEMMA MinIn ==
  ASSUME NEW T, T \subseteq Nat, T # {}
  PROVE  Min(T) \in T /\ \A y \in T : Min(T) <= y
<1>1. \E x \in T : \A y \in T : x <= y
  BY LeastNumber
<1>2. QED
  BY <1>1 DEF Min

LEMMA UpTo ==
  ASSUME NEW n \in Nat, NEW T, 0 \in T, \A i \in 0..(n - 1) : i \in T => i + 1 \in T
  PROVE  \A i \in 0..n : i \in T
<1> DEFINE U == {i \in 0..n : i \notin T}
<1> SUFFICES ASSUME U # {} PROVE FALSE
  OBVIOUS
<1>1. U \subseteq Nat
  OBVIOUS
<1>2. PICK x \in U : \A y \in U : x <= y
  <2> HIDE DEF U
  <2> QED
    BY <1>1, LeastNumber
<1>3. x # 0 /\ x \in 0..n /\ x \notin T
  BY <1>2
<1>4. x - 1 \in 0..(n - 1) /\ ~(x <= x - 1)
  BY <1>3
<1>5. x - 1 \in T
  BY <1>2, <1>4
<1>6. (x - 1) + 1 \in T
  BY <1>4, <1>5
<1>7. QED
  BY <1>3, <1>6

\* f is the states before and after each of n turns of a loop; G[i] is the i-th turn.
Run(n, w, G, f) == f[0] = w /\ \A i \in 1..n : f[i] = G[i][f[i - 1]]

LEMMA RunExists ==
  ASSUME NEW n \in Nat, NEW S, NEW w \in S, NEW G \in [1..n -> [S -> S]]
  PROVE  \E f : f \in [0..n -> S] /\ Run(n, w, G, f)
<1> DEFINE P(m, f) == f[0] = w /\ \A i \in 1..m : f[i] = G[i][f[i - 1]]
           T == {m \in 0..n : \E f \in [0..m -> S] : P(m, f)}
<1>1. 0 \in T
  <2> DEFINE f == [i \in 0..0 |-> w]
  <2>1. f \in [0..0 -> S] /\ f[0] = w /\ 1..0 = {}
    OBVIOUS
  <2> HIDE DEF f
  <2>2. P(0, f)
    BY <2>1
  <2>3. QED
    BY <2>1, <2>2
<1>2. ASSUME NEW m \in 0..(n - 1), m \in T PROVE m + 1 \in T
  <2>1. PICK f \in [0..m -> S] : P(m, f)
    BY <1>2
  <2> DEFINE e == G[m + 1][f[m]]
             g == [i \in 0..(m + 1) |-> IF i = m + 1 THEN e ELSE f[i]]
  <2>2. m \in 0..m /\ m + 1 \in 1..n /\ m \in Nat /\ m # m + 1 /\ 0 # m + 1
    OBVIOUS
  <2>10. f[m] \in S /\ G[m + 1] \in [S -> S]
    BY <2>2
  <2>11. e \in S
    BY <2>10
  <2>3. \A i \in 0..(m + 1) : i # m + 1 => i \in 0..m
    OBVIOUS
  <2> HIDE DEF e
  <2>4. g \in [0..(m + 1) -> S]
    BY <2>3, <2>11
  <2>5. g[0] = w /\ g[m + 1] = e /\ \A i \in 0..m : g[i] = f[i]
    BY <2>1, <2>2
  <2> HIDE DEF g
  <2>6. ASSUME NEW i \in 1..(m + 1) PROVE g[i] = G[i][g[i - 1]]
    <3>1. CASE i = m + 1
      BY <2>2, <2>5, <3>1 DEF e
    <3>2. CASE i # m + 1
      <4>1. i \in 1..m /\ i \in 0..m /\ i - 1 \in 0..m
        BY <2>2, <3>2
      <4>2. QED
        BY <2>1, <2>5, <4>1
    <3>3. QED
      BY <3>1, <3>2
  <2>7. P(m + 1, g)
    BY <2>5, <2>6
  <2>8. m + 1 \in 0..n
    OBVIOUS
  <2> HIDE DEF P
  <2>9. QED
    BY <2>4, <2>7, <2>8
<1>3. n \in T
  <2> HIDE DEF T
  <2>1. \A m \in 0..n : m \in T
    BY <1>1, <1>2, UpTo
  <2>2. QED
    BY <2>1
<1>4. QED
  BY <1>3 DEF Run
-----------------------------------------------------------------------------
(* Names.                                                                  *)

Handlers == {ListenHd} \cup {AcceptHd(c) : c \in Peers} \cup {SpdyHd(c) : c \in Peers}
FilesOf(c) == {File(c, s) : s \in Ids0}
Things == {Free, ListenSocket} \cup {Socket(c) : c \in Peers} \cup UNION {FilesOf(c) : c \in Peers}
Faults == {"blocks", "hup", "nostat"}

\* What is open on a descriptor is one thing.
LEMMA ThingsDiffer ==
  /\ \A c, d : (Socket(c) = Socket(d) => c = d) /\ Socket(c) # Free /\ Socket(c) # ListenSocket
  /\ \A c, s, d, t : File(c, s) = File(d, t) => c = d /\ s = t
  /\ \A c, s, d : File(c, s) # Socket(d) /\ File(c, s) # Free /\ File(c, s) # ListenSocket
  /\ ListenSocket # Free
  BY DEF Socket, File, Free, ListenSocket

LEMMA HandlersDiffer ==
  /\ \A c, d : AcceptHd(c) = AcceptHd(d) => c = d
  /\ \A c, d : SpdyHd(c) = SpdyHd(d) => c = d
  /\ \A c, d : AcceptHd(c) # SpdyHd(d)
  /\ \A c : AcceptHd(c) # ListenHd /\ SpdyHd(c) # ListenHd /\ AcceptHd(c) # NoHandler /\ SpdyHd(c) # NoHandler
  /\ ListenHd # NoHandler
  BY DEF AcceptHd, SpdyHd, ListenHd, NoHandler

LEMMA HandlerParts ==
  /\ ListenHd[1] = "listen"
  /\ \A c : AcceptHd(c)[1] = "accept" /\ AcceptHd(c)[2] = c /\ SpdyHd(c)[1] = "spdy" /\ SpdyHd(c)[2] = c
  BY DEF AcceptHd, SpdyHd, ListenHd

LEMMA FilesAreThings ==
  ASSUME NEW c \in Peers, NEW s \in Ids0
  PROVE  File(c, s) \in Things /\ Socket(c) \in Things /\ File(c, s) \in FilesOf(c)
  BY DEF Things, FilesOf
-----------------------------------------------------------------------------
(* Types.                                                                  *)

ServerType ==
  [visit : Visits, fds : [Fds -> Things], reg : [Fds -> Handlers \cup {NoHandler}], hds : SUBSET Handlers,
   batch : Seq(Handlers \X {"io", "hup"}), dels : Seq(Handlers), con : [Peers -> PeerType],
   late : BOOLEAN, odd : SUBSET Faults,
   abort : {"none", "wrong_close", "wrong_read", "dead_handler"}]

\* v is w with x for the connection c.
LEMMA ConSet ==
  ASSUME NEW w \in ServerType, NEW c \in Peers, NEW x \in PeerType
  PROVE  LET v == [w EXCEPT !.con[c] = x]
         IN  /\ v \in ServerType /\ v.con[c] = x /\ \A d \in Peers : d # c => v.con[d] = w.con[d]
             /\ v.visit = w.visit /\ v.fds = w.fds /\ v.reg = w.reg /\ v.hds = w.hds /\ v.batch = w.batch
             /\ v.dels = w.dels /\ v.late = w.late /\ v.odd = w.odd /\ v.abort = w.abort
<1> DEFINE k == [w.con EXCEPT ![c] = x]
           v == [w EXCEPT !.con = k]
<1>1. w.con \in [Peers -> PeerType]
  BY DEF ServerType
<1>2. k \in [Peers -> PeerType] /\ k[c] = x /\ \A d \in Peers : d # c => k[d] = w.con[d]
  BY <1>1
<1> HIDE DEF k
<1>3. v \in ServerType /\ v.con = k
      /\ v.visit = w.visit /\ v.fds = w.fds /\ v.reg = w.reg /\ v.hds = w.hds /\ v.batch = w.batch
      /\ v.dels = w.dels /\ v.late = w.late /\ v.odd = w.odd /\ v.abort = w.abort
  BY <1>2 DEF ServerType
<1>4. QED
  BY <1>2, <1>3 DEF k

\* y is x with z for the stream s.
LEMMA StreamSet ==
  ASSUME NEW x \in PeerType, NEW s \in Ids0, NEW z \in StreamType
  PROVE  LET y == [x EXCEPT !.str[s] = z]
         IN  /\ y \in PeerType /\ y.str[s] = z /\ \A t \in Ids0 : t # s => y.str[t] = x.str[t]
             /\ y.st = x.st /\ y.fd = x.fd /\ y.fail = x.fail /\ y.in = x.in /\ y.eof = x.eof
             /\ y.sent = x.sent /\ y.ask = x.ask /\ y.req = x.req /\ y.q = x.q /\ y.aob = x.aob
             /\ y.goaway = x.goaway
<1> DEFINE k == [x.str EXCEPT ![s] = z]
           y == [x EXCEPT !.str = k]
<1>1. x.str \in [Ids0 -> StreamType]
  BY DEF PeerType
<1>2. k \in [Ids0 -> StreamType] /\ k[s] = z /\ \A t \in Ids0 : t # s => k[t] = x.str[t]
  BY <1>1
<1> HIDE DEF k
<1>3. y \in PeerType /\ y.str = k
      /\ y.st = x.st /\ y.fd = x.fd /\ y.fail = x.fail /\ y.in = x.in /\ y.eof = x.eof
      /\ y.sent = x.sent /\ y.ask = x.ask /\ y.req = x.req /\ y.q = x.q /\ y.aob = x.aob
      /\ y.goaway = x.goaway
  BY <1>2 DEF PeerType
<1>4. QED
  BY <1>2, <1>3 DEF k

LEMMA TypeParts ==
  ASSUME NEW w \in ServerType, NEW c \in Peers, NEW s \in Ids0
  PROVE  /\ w.con[c] \in PeerType /\ w.con[c].str[s] \in StreamType /\ w.con[c].q \in Seq(QueuedType)
         /\ w.con[c].req \in {-1, 0} \cup Fds /\ w.con[c].fd \in {0} \cup Fds
         /\ w.con[c].str[s].src \in {0} \cup Fds
  BY DEF ServerType, PeerType, StreamType

\* close() of any number.
LEMMA CloseFdType ==
  ASSUME NEW w \in ServerType, NEW f, NEW o
  PROVE  LET v == CloseFd(w, f, o)
         IN  /\ v \in ServerType /\ v.con = w.con
             /\ v.visit = w.visit /\ v.hds = w.hds /\ v.batch = w.batch
             /\ v.dels = w.dels /\ v.late = w.late /\ v.odd = w.odd
             /\ v.abort \in {w.abort, "wrong_close"}
             /\ v.abort = w.abort =>
                  \A g \in Fds : \/ v.fds[g] = w.fds[g] /\ v.reg[g] = w.reg[g]
                                 \/ g = f /\ v.fds[f] = Free /\ v.reg[f] = NoHandler
                                    /\ (w.fds[f] = o \/ w.abort = "wrong_close")
             /\ f \in Fds /\ w.fds[f] = Free => v = w
             /\ f \in Fds /\ w.fds[f] = o => v.abort = w.abort /\ v.fds[f] = Free
<1> DEFINE a == [w.fds EXCEPT ![f] = Free]
           b == [w.reg EXCEPT ![f] = NoHandler]
           u == [w EXCEPT !.fds = a, !.reg = b]
           t == [u EXCEPT !.abort = "wrong_close"]
           v == CloseFd(w, f, o)
<1>1. w.fds \in [Fds -> Things] /\ w.reg \in [Fds -> Handlers \cup {NoHandler}] /\ Free \in Things
  BY DEF ServerType, Things
<1>2. a \in [Fds -> Things] /\ b \in [Fds -> Handlers \cup {NoHandler}]
      /\ (\A g \in Fds : g # f => a[g] = w.fds[g] /\ b[g] = w.reg[g])
      /\ (f \in Fds => a[f] = Free /\ b[f] = NoHandler)
  BY <1>1
<1> HIDE DEF a, b
<1>3. u \in ServerType /\ u.con = w.con /\ u.visit = w.visit /\ u.hds = w.hds /\ u.batch = w.batch
      /\ u.dels = w.dels /\ u.late = w.late /\ u.odd = w.odd /\ u.abort = w.abort /\ u.fds = a /\ u.reg = b
  BY <1>2 DEF ServerType
<1> HIDE DEF u
<1>10. t \in ServerType
  BY <1>3 DEF ServerType
<1>4. t \in ServerType /\ t.con = w.con /\ t.visit = w.visit /\ t.hds = w.hds /\ t.batch = w.batch
      /\ t.dels = w.dels /\ t.late = w.late /\ t.odd = w.odd /\ t.abort = "wrong_close"
      /\ t.fds = a /\ t.reg = b
  BY <1>3, <1>10 DEF ServerType
<1>5. v = IF w.fds[f] = Free THEN w ELSE IF w.fds[f] = o THEN u ELSE t
  BY DEF CloseFd, u, a, b
<1> HIDE DEF t, v
<1>6. CASE w.fds[f] = Free
  <2>1. v = w
    BY <1>5, <1>6
  <2>2. QED
    BY <1>6, <2>1 DEF v
<1>7. CASE w.fds[f] # Free /\ w.fds[f] = o
  <2>1. v = u
    BY <1>5, <1>7
  <2>2. QED
    BY <1>2, <1>3, <1>7, <2>1 DEF v
<1>8. CASE w.fds[f] # Free /\ w.fds[f] # o
  <2>1. v = t
    BY <1>5, <1>8
  <2>2. QED
    BY <1>2, <1>4, <1>8, <2>1 DEF v
<1>9. QED
  BY <1>6, <1>7, <1>8
-----------------------------------------------------------------------------
(* A connection.                                                           *)

Pushed == 1..MaxPush
Active == {"queued", "opening", "opened", "closing"}
Syn(s) == [k |-> "syn", s |-> s]
NoSyn(q) == \A i \in 1..Len(q) : q[i].k # "syn"

\* No response was prepared yet.
Fresh(x) == x.str[0].st = "none" \/ (x.str[0].st = "opening" /\ ~x.str[0].rfin)

Unasked(x) ==
  Fresh(x) => /\ x.q = <<>> /\ x.aob = NoFrame /\ ~x.str[0].begun /\ x.str[0].src = 0
              /\ \A s \in Pushed : x.str[s].st = "none"

\* What the client sends fits the stream.
Asking(x) ==
  /\ x.in.k = "syn" => x.str[0].st = "none" /\ (x.in.fin => x.sent = "fin")
  /\ x.in.k = "fin" => x.str[0].st = "opening" /\ ~x.str[0].rfin /\ x.sent = "fin"
  /\ x.in.k = "rst" /\ x.in.s = 0 => x.sent = "fin"
  /\ x.sent = "syn" /\ x.in.k # "syn" => x.str[0].st = "opening" /\ ~x.str[0].rfin
  /\ x.sent = "none" => x.in.k = "none" /\ x.str[0].st = "none"

\* A push that waits is in the queue, once; no content is sent before it.
Announced(x) ==
  /\ \A s \in Pushed : x.str[s].st = "queued" => \E i \in 1..Len(x.q) : x.q[i] = Syn(s)
  /\ \A i \in 1..Len(x.q) : x.q[i].k = "syn" =>
       x.str[x.q[i].s].st = "queued" /\ \A j \in 1..Len(x.q) : x.q[j] = x.q[i] => i = j
  /\ x.str[0].begun \/ x.aob.k \in {"data", "fin"} => NoSyn(x.q)

\* The client is done with a stream on which the server sends.
Shut(x) ==
  \A s \in Ids0 :
    x.str[s].st \in {"opened", "closing"} \/ (s # 0 /\ x.str[s].st \in {"queued", "opening"}) => x.str[s].rfin

\* A SYN_STREAM is for a push and a SYN_REPLY for the request; DATA needs a file.
FrameOK(x, i) ==
  /\ (i.k = "syn" => i.s # 0) /\ (i.k = "reply" => i.s = 0)
  /\ i.k \in {"data", "fin"} /\ x.str[i.s].st \in Active => x.str[i.s].src > 0

Framed(x) == FrameOK(x, x.aob) /\ \A i \in 1..Len(x.q) : FrameOK(x, x.q[i])

ConOK(x) == Unasked(x) /\ Asking(x) /\ Announced(x) /\ Shut(x) /\ Framed(x)

\* The same once a response was prepared and while no frame is read.
Serving(x) ==
  /\ ~Fresh(x) /\ x.sent = "fin" /\ x.in.k \notin {"syn", "fin"}
  /\ Announced(x) /\ Shut(x) /\ Framed(x)

LEMMA ServingOK ==
  ASSUME NEW x, Serving(x)
  PROVE  ConOK(x)
  BY DEF Serving, ConOK, Unasked, Asking

LEMMA OKServing ==
  ASSUME NEW x \in PeerType, ConOK(x), ~Fresh(x), x.in.k \notin {"syn", "fin"}
  PROVE  Serving(x)
<1>1. x.sent \in {"none", "syn", "fin"}
  BY DEF PeerType
<1>2. QED
  BY <1>1 DEF Serving, ConOK, Asking, Fresh

LEMMA ZeroId == 0 \in Ids0 /\ Pushed \subseteq Ids0 /\ \A s \in Ids0 : s # 0 => s \in Pushed
  BY ServerAssumption DEF Ids0, Pushed

LEMMA PeerParts ==
  ASSUME NEW x \in PeerType
  PROVE  /\ x.q \in Seq(QueuedType) /\ Len(x.q) \in Nat /\ x.str \in [Ids0 -> StreamType]
         /\ \A i \in 1..Len(x.q) : x.q[i] \in QueuedType
         /\ x.aob.s \in Ids0 /\ x.req \in {-1, 0} \cup Fds /\ x.in.s \in Ids0
         /\ x.aob = NoFrame \/ x.aob \in [k : {"syn", "reply", "data", "fin", "rst"}, s : Ids0]
<1>1. x.q \in Seq(QueuedType) /\ x.str \in [Ids0 -> StreamType] /\ x.req \in {-1, 0} \cup Fds
      /\ x.in.s \in Ids0
      /\ (x.aob = NoFrame \/ x.aob \in [k : {"syn", "reply", "data", "fin", "rst"}, s : Ids0])
  BY DEF PeerType
<1>2. x.aob.s \in Ids0
  BY <1>1, ZeroId DEF NoFrame
<1>3. QED
  BY <1>1, <1>2

LEMMA QueuedParts ==
  ASSUME NEW i \in QueuedType
  PROVE  i.k \in {"syn", "reply", "data", "rst"} /\ i.s \in Ids0 /\ (i.k = "syn" => i = Syn(i.s))
  BY DEF QueuedType, Syn

\* x and y have the same frames but those of the server.
SameInput(x, y) == y.sent = x.sent /\ y.in = x.in

\* A stream changes: it may not begin or end to wait.
LEMMA StreamChanges ==
  ASSUME NEW x \in PeerType, NEW y \in PeerType, Serving(x), SameInput(x, y), y.q = x.q, y.aob = x.aob,
         NEW s \in Ids0, NEW z \in StreamType, y.str[s] = z, \A t \in Ids0 : t # s => y.str[t] = x.str[t],
         (z.st = "queued") <=> (x.str[s].st = "queued"),
         s = 0 => z.st # "none" /\ (z.st = "opening" => z.rfin),
         z.st \in {"opened", "closing"} \/ (s # 0 /\ z.st \in {"queued", "opening"}) => z.rfin,
         z.begun => x.str[s].begun \/ NoSyn(x.q),
         z.st \in Active => x.str[s].st \in Active /\ z.src = x.str[s].src
  PROVE  Serving(y)
<1>1. ~Fresh(y) /\ y.sent = "fin" /\ y.in.k \notin {"syn", "fin"}
  BY ZeroId DEF Serving, Fresh, SameInput
<1>2. \A t \in Ids0 : (y.str[t].st = "queued") <=> (x.str[t].st = "queued")
  <2>1. SUFFICES ASSUME NEW t \in Ids0 PROVE (y.str[t].st = "queued") <=> (x.str[t].st = "queued")
    OBVIOUS
  <2>2. CASE t = s
    BY <2>2
  <2>3. CASE t # s
    BY <2>3, Zenon
  <2>4. QED
    BY <2>2, <2>3
<1>3. \A i \in 1..Len(x.q) : x.q[i] \in QueuedType /\ x.q[i].s \in Ids0
  BY PeerParts, QueuedParts
<1>4. y.str[0].begun => x.str[0].begun \/ NoSyn(x.q)
  BY ZeroId
<1>5. Announced(y)
  BY <1>2, <1>3, <1>4, ZeroId DEF Serving, Announced
<1>6. Shut(y)
  BY DEF Serving, Shut
<1>7. ASSUME NEW i, i.s \in Ids0, FrameOK(x, i) PROVE FrameOK(y, i)
  BY <1>7 DEF FrameOK
<1>8. x.aob.s \in Ids0
  BY PeerParts
<1>9. Framed(y)
  BY <1>3, <1>7, <1>8 DEF Serving, Framed
<1>10. QED
  BY <1>1, <1>5, <1>6, <1>9 DEF Serving

\* The active frame changes.
LEMMA ActiveChanges ==
  ASSUME NEW x \in PeerType, NEW y \in PeerType, Serving(x), SameInput(x, y), y.q = x.q, y.str = x.str,
         FrameOK(x, y.aob), y.aob.k \in {"data", "fin"} => NoSyn(x.q)
  PROVE  Serving(y)
<1>1. ~Fresh(y) /\ y.sent = "fin" /\ y.in.k \notin {"syn", "fin"}
  BY DEF Serving, Fresh, SameInput
<1>2. Announced(y) /\ Shut(y)
  BY DEF Serving, Announced, Shut
<1>3. Framed(y)
  BY DEF Serving, Framed, FrameOK
<1>4. QED
  BY <1>1, <1>2, <1>3 DEF Serving

\* A frame that is no SYN_STREAM goes to the front or the end of the queue.
LEMMA QueueGrows ==
  ASSUME NEW x \in PeerType, NEW y \in PeerType, Serving(x), SameInput(x, y), y.aob = x.aob, y.str = x.str,
         NEW i \in QueuedType, i.k # "syn", FrameOK(x, i), y.q = Append(x.q, i) \/ y.q = <<i>> \o x.q
  PROVE  Serving(y)
<1> DEFINE n == Len(x.q)
<1>1. x.q \in Seq(QueuedType) /\ n \in Nat
  BY PeerParts
<1>2. ~Fresh(y) /\ y.sent = "fin" /\ y.in.k \notin {"syn", "fin"} /\ Shut(y)
  BY DEF Serving, Fresh, SameInput, Shut
<1>3. PICK o \in {0, 1} : /\ Len(y.q) = n + 1 /\ \A j \in 1..n : y.q[j + o] = x.q[j]
                          /\ \A j \in 1..(n + 1) : y.q[j] = i \/ (j - o \in 1..n /\ y.q[j] = x.q[j - o])
  <2>1. CASE y.q = Append(x.q, i)
    <3>1. Len(y.q) = n + 1 /\ y.q[n + 1] = i /\ \A j \in 1..n : y.q[j] = x.q[j]
      BY <1>1, <2>1
    <3>2. /\ \A j \in 1..n : y.q[j + 0] = x.q[j]
          /\ \A j \in 1..(n + 1) : y.q[j] = i \/ (j - 0 \in 1..n /\ y.q[j] = x.q[j - 0])
      BY <1>1, <3>1
    <3>3. QED
      BY <3>1, <3>2
  <2>2. CASE y.q = <<i>> \o x.q
    <3>1. Len(y.q) = n + 1 /\ y.q[1] = i /\ \A j \in 1..n : y.q[1 + j] = x.q[j]
      BY <1>1, <2>2
    <3>2. \A j \in 1..(n + 1) : j # 1 => j - 1 \in 1..n /\ 1 + (j - 1) = j
      BY <1>1
    <3>3. \A j \in 1..n : y.q[j + 1] = x.q[j]
      BY <1>1, <3>1
    <3>4. \A j \in 1..(n + 1) : y.q[j] = i \/ (j - 1 \in 1..n /\ y.q[j] = x.q[j - 1])
      BY <3>1, <3>2
    <3>5. QED
      BY <3>1, <3>3, <3>4
  <2>3. QED
    BY <2>1, <2>2
<1> HIDE DEF n
<1>4. \A j \in 1..(n + 1) : y.q[j].k = "syn" => j - o \in 1..n /\ y.q[j] = x.q[j - o]
  BY <1>3
<1>5. Announced(y)
  <2>1. ASSUME NEW s \in Pushed, y.str[s].st = "queued" PROVE \E j \in 1..Len(y.q) : y.q[j] = Syn(s)
    <3>1. PICK j \in 1..n : x.q[j] = Syn(s)
      BY <2>1 DEF Serving, Announced, n
    <3>2. j + o \in 1..(n + 1) /\ y.q[j + o] = Syn(s)
      BY <1>1, <1>3, <3>1
    <3>3. QED
      BY <1>3, <3>2
  <2>2. ASSUME NEW j \in 1..(n + 1), y.q[j].k = "syn"
        PROVE  y.str[y.q[j].s].st = "queued" /\ \A l \in 1..(n + 1) : y.q[l] = y.q[j] => j = l
    <3>1. j - o \in 1..n /\ y.q[j] = x.q[j - o]
      BY <1>4, <2>2
    <3>2. x.str[x.q[j - o].s].st = "queued" /\ \A l \in 1..n : x.q[l] = x.q[j - o] => j - o = l
      BY <2>2, <3>1 DEF Serving, Announced, n
    <3>3. ASSUME NEW l \in 1..(n + 1), y.q[l] = y.q[j] PROVE j = l
      <4>1. l - o \in 1..n /\ y.q[l] = x.q[l - o]
        BY <1>4, <2>2, <3>3
      <4>2. j - o = l - o
        BY <3>1, <3>2, <3>3, <4>1
      <4>3. QED
        BY <1>1, <4>2
    <3>4. QED
      BY <3>1, <3>2, <3>3
  <2>3. ASSUME NoSyn(x.q) PROVE NoSyn(y.q)
    BY <1>3, <1>4, <2>3 DEF NoSyn, n
  <2>4. y.str[0].begun \/ y.aob.k \in {"data", "fin"} => NoSyn(y.q)
    BY <2>3 DEF Serving, Announced
  <2>5. QED
    BY <1>3, <2>1, <2>2, <2>4 DEF Announced
<1>6. Framed(y)
  <2>1. \A j \in 1..n : FrameOK(x, x.q[j])
    BY DEF Serving, Framed, n
  <2>2. \A j \in 1..(n + 1) : FrameOK(x, y.q[j])
    BY <1>3, <2>1
  <2>3. FrameOK(x, y.aob)
    BY DEF Serving, Framed
  <2>4. QED
    BY <1>3, <2>2, <2>3 DEF Framed, FrameOK
<1>7. QED
  BY <1>2, <1>5, <1>6 DEF Serving

LEMMA Removed ==
  ASSUME NEW T, NEW q \in Seq(T), NEW n \in 1..Len(q)
  PROVE  LET r == RemoveAt(q, n)
         IN  /\ r \in Seq(T) /\ Len(r) = Len(q) - 1
             /\ \A j \in 1..(Len(q) - 1) : r[j] = q[IF j < n THEN j ELSE j + 1]
<1> DEFINE a == SubSeq(q, 1, n - 1)
           b == SubSeq(q, n + 1, Len(q))
           m == Len(q)
           r == a \o b
<1>1. m \in Nat /\ n \in 1..m /\ q \in Seq(T)
  OBVIOUS
<1>2. a \in Seq(T) /\ Len(a) = n - 1 /\ \A j \in 1..(n - 1) : a[j] = q[j]
  BY <1>1
<1>3. b \in Seq(T) /\ Len(b) = m - n /\ \A j \in 1..(m - n) : b[j] = q[n + j]
  <2>1. \A j \in 1..(m - n) : (n + 1) + (j - 1) = n + j
    BY <1>1
  <2>2. QED
    BY <1>1, <2>1
<1> HIDE DEF a, b, m
<1>4. r \in Seq(T) /\ Len(r) = m - 1
  <2>0. a \in Seq(T) /\ b \in Seq(T)
    BY <1>2, <1>3
  <2>1. r \in Seq(T) /\ Len(r) = Len(a) + Len(b)
    BY <2>0
  <2>2. QED
    BY <1>1, <1>2, <1>3, <2>1
<1>5. ASSUME NEW j \in 1..(m - 1) PROVE r[j] = q[IF j < n THEN j ELSE j + 1]
  <2>1. CASE j < n
    <3>1. j \in 1..(n - 1)
      BY <1>1, <2>1
    <3>2. QED
      BY <1>2, <1>3, <2>1, <3>1
  <2>2. CASE ~(j < n)
    <3>1. j - (n - 1) \in 1..(m - n) /\ n + (j - (n - 1)) = j + 1 /\ j = (n - 1) + (j - (n - 1))
      BY <1>1, <2>2
    <3>2. r[j] = b[j - (n - 1)]
      BY <1>1, <1>2, <1>3, <3>1
    <3>3. QED
      BY <1>3, <2>2, <3>1, <3>2
  <2>3. QED
    BY <2>1, <2>2
<1>6. RemoveAt(q, n) = r
  BY DEF RemoveAt, a, b
<1>7. QED
  BY <1>4, <1>5, <1>6 DEF m

\* Each SYN_STREAM is in q once.
Once(q) == \A i, j \in 1..Len(q) : q[i].k = "syn" /\ q[j] = q[i] => i = j

\* r is q without the frame n.
Without(q, n, r) ==
  /\ r \in Seq(QueuedType) /\ (NoSyn(q) => NoSyn(r)) /\ (Once(q) => Once(r))
  /\ \A j \in 1..Len(r) : \E i \in 1..Len(q) : i # n /\ r[j] = q[i]
  /\ \A i \in 1..Len(q) : i # n => \E j \in 1..Len(r) : r[j] = q[i]

LEMMA Taken ==
  ASSUME NEW q \in Seq(QueuedType), NEW n \in 1..Len(q)
  PROVE  Without(q, n, RemoveAt(q, n))
<1> DEFINE m == Len(q)
           I(j) == IF j < n THEN j ELSE j + 1
           r == RemoveAt(q, n)
<1>1. m \in Nat /\ n \in 1..m
  OBVIOUS
<1>2. r \in Seq(QueuedType) /\ Len(r) = m - 1 /\ \A j \in 1..(m - 1) : r[j] = q[I(j)]
  BY Removed
<1> HIDE DEF m, r
<1>3. \A j \in 1..(m - 1) : I(j) \in 1..m /\ I(j) # n
  BY <1>1
<1>4. \A j, l \in 1..(m - 1) : I(j) = I(l) => j = l
  BY <1>1
<1>5. ASSUME NEW i \in 1..m, i # n PROVE \E j \in 1..(m - 1) : I(j) = i
  <2>1. CASE i < n
    <3>1. i \in 1..(m - 1) /\ I(i) = i
      BY <1>1, <2>1
    <3>2. QED
      BY <3>1
  <2>2. CASE ~(i < n)
    <3>1. i - 1 \in 1..(m - 1) /\ I(i - 1) = i
      BY <1>1, <1>5, <2>2
    <3>2. QED
      BY <3>1
  <2>3. QED
    BY <2>1, <2>2
<1> HIDE DEF I
<1>6. NoSyn(q) => NoSyn(r)
  BY <1>2, <1>3 DEF NoSyn, m
<1>7. ASSUME Once(q) PROVE Once(r)
  <2>1. SUFFICES ASSUME NEW i \in 1..(m - 1), NEW j \in 1..(m - 1), r[i].k = "syn", r[j] = r[i]
                 PROVE  i = j
    BY <1>2 DEF Once
  <2>2. q[I(i)].k = "syn" /\ q[I(j)] = q[I(i)]
    BY <1>2, <2>1
  <2>3. I(i) = I(j)
    BY <1>3, <1>7, <2>2 DEF Once, m
  <2>4. QED
    BY <1>4, <2>3
<1>8. \A j \in 1..Len(r) : \E i \in 1..m : i # n /\ r[j] = q[i]
  BY <1>2, <1>3
<1>9. \A i \in 1..m : i # n => \E j \in 1..Len(r) : r[j] = q[i]
  BY <1>2, <1>5
<1>10. QED
  BY <1>2, <1>6, <1>7, <1>8, <1>9 DEF m, r, Without

\* A frame is taken from the queue.  If it announces a push the push is no longer
\* waiting.
LEMMA QueueShrinks ==
  ASSUME NEW x \in PeerType, NEW y \in PeerType, Serving(x), SameInput(x, y), NEW n \in 1..Len(x.q),
         y.q = RemoveAt(x.q, n), y.aob = x.aob \/ (y.aob = x.q[n] /\ y.aob.k \notin {"data", "fin"}),
         NEW s \in Ids0, s = x.q[n].s, NEW z \in StreamType, y.str[s] = z,
         \A t \in Ids0 : t # s => y.str[t] = x.str[t],
         z.rfin = x.str[s].rfin /\ z.src = x.str[s].src /\ z.begun = x.str[s].begun,
         IF x.q[n].k = "syn" THEN z.st \in {"opening", "closed"} ELSE z = x.str[s]
  PROVE  Serving(y)
<1> DEFINE i == x.q[n]
<1>1. x.q \in Seq(QueuedType) /\ i \in QueuedType /\ i.s \in Ids0 /\ (i.k = "syn" => i = Syn(s))
  BY PeerParts, QueuedParts
<1>2. y.q \in Seq(QueuedType) /\ (NoSyn(x.q) => NoSyn(y.q)) /\ (Once(x.q) => Once(y.q))
      /\ (\A j \in 1..Len(y.q) : \E l \in 1..Len(x.q) : l # n /\ y.q[j] = x.q[l])
      /\ (\A l \in 1..Len(x.q) : l # n => \E j \in 1..Len(y.q) : y.q[j] = x.q[l])
  <2>1. Without(x.q, n, y.q)
    BY <1>1, Taken
  <2>2. QED
    BY <2>1 DEF Without
<1>3. i.k = "syn" => s # 0 /\ x.str[s].st = "queued" /\ x.str[s].rfin
  BY <1>1, ZeroId DEF Serving, Announced, Shut, Framed, FrameOK
<1>4. ~Fresh(y) /\ y.sent = "fin" /\ y.in.k \notin {"syn", "fin"}
  BY <1>3, ZeroId DEF Serving, Fresh, SameInput
<1>5. Shut(y)
  BY <1>3 DEF Serving, Shut
<1>6. y.str[0].begun = x.str[0].begun
  BY ZeroId
<1>7. Once(x.q)
  BY SMTT(20) DEF Serving, Announced, Once
<1>8. Announced(y)
  <2>1. ASSUME NEW t \in Pushed, y.str[t].st = "queued" PROVE \E j \in 1..Len(y.q) : y.q[j] = Syn(t)
    <3>1. t \in Ids0 /\ x.str[t].st = "queued" /\ (i.k = "syn" => t # s)
      BY <2>1, ZeroId
    <3>2. PICK l \in 1..Len(x.q) : x.q[l] = Syn(t)
      BY <3>1 DEF Serving, Announced
    <3>3. Syn(t).k = "syn" /\ Syn(t).s = t
      BY DEF Syn
    <3>4. l # n
      BY <1>1, <3>1, <3>2, <3>3
    <3>5. \E j \in 1..Len(y.q) : y.q[j] = x.q[l]
      BY <1>2, <3>4
    <3>6. QED
      BY <3>2, <3>5
  <2>2. ASSUME NEW j \in 1..Len(y.q), y.q[j].k = "syn" PROVE y.str[y.q[j].s].st = "queued"
    <3>1. PICK l \in 1..Len(x.q) : l # n /\ y.q[j] = x.q[l]
      BY <1>2
    <3>2. x.q[l] \in QueuedType /\ x.q[l].k = "syn" /\ x.q[l] # i
      BY <1>7, <2>2, <3>1, PeerParts DEF Once
    <3>3. x.q[l].s \in Ids0 /\ x.q[l] = Syn(x.q[l].s) /\ x.str[x.q[l].s].st = "queued"
      BY <3>2, QueuedParts DEF Serving, Announced
    <3>4. x.q[l].s # s \/ i.k # "syn"
      BY <1>1, <3>2, <3>3
    <3>5. QED
      BY <3>1, <3>3, <3>4
  <2>3. y.str[0].begun \/ y.aob.k \in {"data", "fin"} => NoSyn(y.q)
    BY <1>2, <1>6 DEF Serving, Announced
  <2>4. QED
    BY <1>2, <1>7, <2>1, <2>2, <2>3 DEF Announced, Once
<1>9. Framed(y)
  <2>1. ASSUME NEW j, j.s \in Ids0, FrameOK(x, j) PROVE FrameOK(y, j)
    <3>1. x.str[s].st \in Active \/ z.st \notin Active
      BY <1>3 DEF Active
    <3>2. QED
      BY <2>1, <3>1 DEF FrameOK
  <2>2. FrameOK(x, y.aob) /\ y.aob.s \in Ids0
    BY PeerParts DEF Serving, Framed
  <2>3. ASSUME NEW j \in 1..Len(y.q) PROVE FrameOK(y, y.q[j])
    <3>1. PICK l \in 1..Len(x.q) : y.q[j] = x.q[l]
      BY <1>2
    <3>2. FrameOK(x, x.q[l]) /\ x.q[l].s \in Ids0
      BY PeerParts, QueuedParts DEF Serving, Framed
    <3>3. QED
      BY <2>1, <3>1, <3>2
  <2>4. QED
    BY <2>1, <2>2, <2>3 DEF Framed
<1>10. QED
  BY <1>4, <1>5, <1>8, <1>9 DEF Serving
-----------------------------------------------------------------------------
(* Descriptors.                                                            *)

Quiet(w) == w.odd = {} /\ w.abort = "none"
Plain(w) == w.odd = {} /\ ~w.late

\* From w to v only files of c were opened and closed.
Only(w, v, c) ==
  \A f \in Fds :
    \/ v.fds[f] = w.fds[f] /\ v.reg[f] = w.reg[f]
    \/ /\ w.fds[f] \in FilesOf(c) \cup {Free} /\ v.fds[f] \in FilesOf(c) \cup {Free}
       /\ v.reg[f] \in {NoHandler, w.reg[f]}

Kept(x, y) == y.st = x.st /\ y.fd = x.fd /\ y.fail = x.fail /\ y.eof = x.eof /\ y.ask = x.ask

\* What a handler may do for the session of c.
Within(w, v, c) ==
  /\ v \in ServerType /\ v.visit = w.visit /\ v.hds = w.hds /\ v.batch = w.batch /\ v.dels = w.dels
  /\ (w.late => v.late) /\ w.odd \subseteq v.odd /\ (w.abort # "dead_handler" => v.abort # "dead_handler")
  /\ (\A d \in Peers : d # c => v.con[d] = w.con[d]) /\ Kept(w.con[c], v.con[c])
  /\ Quiet(v) => Quiet(w) /\ Only(w, v, c)

LEMMA WithinRefl ==
  ASSUME NEW w \in ServerType, NEW c \in Peers
  PROVE  Within(w, w, c)
  BY DEF Within, Kept, Only

LEMMA WithinTrans ==
  ASSUME NEW u, NEW v, NEW w, NEW c \in Peers, Within(u, v, c), Within(v, w, c)
  PROVE  Within(u, w, c)
<1>1. Kept(u.con[c], w.con[c])
  BY DEF Within, Kept
<1>2. Quiet(w) => Quiet(u) /\ Only(u, w, c)
  <2>1. SUFFICES ASSUME Quiet(w) PROVE Quiet(u) /\ Only(u, w, c)
    OBVIOUS
  <2>2. Quiet(u) /\ Only(u, v, c) /\ Only(v, w, c)
    BY <2>1 DEF Within
  <2>3. QED
    BY <2>2 DEF Only
<1>3. QED
  BY <1>1, <1>2 DEF Within

Put(w, c, y) == [w EXCEPT !.con[c] = y]

LEMMA ConWithin ==
  ASSUME NEW w \in ServerType, NEW c \in Peers, NEW y \in PeerType, Kept(w.con[c], y)
  PROVE  LET v == Put(w, c, y)
         IN  /\ Within(w, v, c) /\ v \in ServerType /\ v.con[c] = y /\ v.fds = w.fds
             /\ v.abort = w.abort /\ v.odd = w.odd /\ v.late = w.late
<1> DEFINE v == Put(w, c, y)
<1>1. /\ v \in ServerType /\ v.con[c] = y /\ \A d \in Peers : d # c => v.con[d] = w.con[d]
      /\ v.visit = w.visit /\ v.fds = w.fds /\ v.reg = w.reg /\ v.hds = w.hds /\ v.batch = w.batch
      /\ v.dels = w.dels /\ v.late = w.late /\ v.odd = w.odd /\ v.abort = w.abort
  BY ConSet DEF Put
<1> HIDE DEF v
<1>2. Within(w, v, c)
  BY <1>1 DEF Within, Quiet, Only
<1>3. QED
  BY <1>1, <1>2 DEF v

\* The files of a connection belong to its streams; the one of the stream e may be
\* closed already.
Live == {"opening", "opened", "closing"}
FilesBut(fds, x, c, e) ==
  /\ (x.req >= 0) <=> (x.str[0].st \in Live)
  /\ x.str[0].st \in Live => x.req = x.str[0].src
  /\ \A s \in Ids0 : x.str[s].st \in Active /\ x.str[s].src > 0 =>
       fds[x.str[s].src] = File(c, s) \/ (s = e /\ fds[x.str[s].src] = Free)
  /\ \A f \in Fds : fds[f] = File(c, 0) => x.req = f

Good(w, c, e) ==
  /\ Serving(w.con[c])
  /\ Plain(w) => w.abort = "none" /\ FilesBut(w.fds, w.con[c], c, e)

\* Streams that go on keep their files.
SameFiles(x, y) ==
  /\ y.req = x.req
  /\ (y.str[0].st \in Live) <=> (x.str[0].st \in Live)
  /\ \A s \in Ids0 : y.str[s].src = x.str[s].src /\ (y.str[s].st \in Active => x.str[s].st \in Active)

LEMMA FilesSame ==
  ASSUME NEW fds, NEW x, NEW y, NEW c, NEW e, SameFiles(x, y), FilesBut(fds, x, c, e)
  PROVE  FilesBut(fds, y, c, e)
  BY ZeroId DEF FilesBut, SameFiles

LEMMA ConGood ==
  ASSUME NEW w \in ServerType, NEW c \in Peers, NEW y \in PeerType, Kept(w.con[c], y),
         NEW e, Good(w, c, e), Serving(y), SameFiles(w.con[c], y)
  PROVE  LET v == Put(w, c, y)
         IN  Within(w, v, c) /\ v \in ServerType /\ v.con[c] = y /\ Good(v, c, e) /\ v.fds = w.fds
             /\ v.abort = w.abort /\ v.odd = w.odd /\ v.late = w.late
<1> DEFINE v == Put(w, c, y)
<1>1. /\ Within(w, v, c) /\ v \in ServerType /\ v.con[c] = y /\ v.fds = w.fds /\ v.abort = w.abort
      /\ v.odd = w.odd /\ v.late = w.late
  BY ConWithin
<1> HIDE DEF v
<1>2. Good(v, c, e)
  BY <1>1, FilesSame DEF Good, Plain
<1>3. QED
  BY <1>1, <1>2 DEF v

\* ~Request closes its file and nothing else.
LEMMA DeleteRequestType ==
  ASSUME NEW w \in ServerType, NEW c \in Peers
  PROVE  LET v == DeleteRequest(w, c)
             f == w.con[c].req
         IN  /\ Within(w, v, c) /\ v.con[c] = [w.con[c] EXCEPT !.req = -1] /\ v.odd = w.odd
             /\ w.abort = "none" /\ (f > 0 => w.fds[f] \in {File(c, 0), Free}) =>
                  /\ v.abort = "none" /\ (f > 0 => v.fds[f] = Free)
                  /\ \A g \in Fds : g # f => v.fds[g] = w.fds[g]
<1> DEFINE v == DeleteRequest(w, c)
           f == w.con[c].req
           o == File(c, 0)
           x == w.con[c]
           y == [x EXCEPT !.req = -1]
           u == IF f > 0 THEN CloseFd(w, f, o) ELSE w
<1>1. x \in PeerType /\ f \in {-1, 0} \cup Fds /\ y \in PeerType /\ Kept(x, y) /\ o \in FilesOf(c)
  <2>1. x \in PeerType /\ f \in {-1, 0} \cup Fds /\ o \in FilesOf(c)
    BY TypeParts, FilesAreThings, ZeroId
  <2>2. y \in PeerType /\ Kept(x, y)
    <3> HIDE DEF x
    <3>1. QED
      BY <2>1 DEF PeerType, Kept
  <2>3. QED
    BY <2>1, <2>2
<1>2. f > 0 => f \in Fds
  BY <1>1
<1>3. /\ Within(w, u, c) /\ u.con = w.con /\ u.odd = w.odd
      /\ w.abort = "none" /\ (f > 0 => w.fds[f] \in {o, Free}) =>
           /\ u.abort = "none" /\ (f > 0 => u.fds[f] = Free)
           /\ \A g \in Fds : g # f => u.fds[g] = w.fds[g]
  <2>1. CASE ~(f > 0)
    BY <2>1, WithinRefl
  <2>2. CASE f > 0
    <3> DEFINE t == CloseFd(w, f, o)
    <3>1. /\ t \in ServerType /\ t.con = w.con
          /\ t.visit = w.visit /\ t.hds = w.hds /\ t.batch = w.batch
          /\ t.dels = w.dels /\ t.late = w.late /\ t.odd = w.odd
          /\ t.abort \in {w.abort, "wrong_close"}
          /\ t.abort = w.abort =>
               \A g \in Fds : \/ t.fds[g] = w.fds[g] /\ t.reg[g] = w.reg[g]
                              \/ g = f /\ t.fds[f] = Free /\ t.reg[f] = NoHandler
                                 /\ (w.fds[f] = o \/ w.abort = "wrong_close")
          /\ f \in Fds /\ w.fds[f] = Free => t = w
          /\ f \in Fds /\ w.fds[f] = o => t.abort = w.abort /\ t.fds[f] = Free
      BY CloseFdType
    <3>2. u = t
      BY <2>2
    <3> HIDE DEF t, u, f, o
    <3>3. Quiet(t) => Quiet(w) /\ Only(w, t, c)
      BY <1>1, <3>1 DEF Quiet, Only
    <3>4. Within(w, t, c)
      BY <3>1, <3>3 DEF Within, Kept
    <3>5. w.abort = "none" /\ w.fds[f] \in {o, Free} =>
            t.abort = "none" /\ t.fds[f] = Free /\ \A g \in Fds : g # f => t.fds[g] = w.fds[g]
      BY <1>2, <2>2, <3>1
    <3>6. QED
      BY <2>2, <3>1, <3>2, <3>4, <3>5
  <2>3. QED
    BY <2>1, <2>2
<1>4. v = [u EXCEPT !.con[c].req = -1]
  BY DEF DeleteRequest
<1>5. v = Put(u, c, y)
  BY <1>3, <1>4 DEF Put
<1> HIDE DEF u, v, y
<1>6. u \in ServerType /\ u.con[c] = x
  BY <1>3 DEF Within
<1>7. /\ Within(u, v, c) /\ v \in ServerType /\ v.con[c] = y /\ v.fds = u.fds /\ v.abort = u.abort
      /\ v.odd = u.odd /\ v.late = u.late
  BY <1>1, <1>5, <1>6, ConWithin
<1>8. Within(w, v, c)
  BY <1>3, <1>7, WithinTrans
<1>9. QED
  BY <1>3, <1>7, <1>8 DEF v, y
-----------------------------------------------------------------------------
(* The session.                                                            *)

LEMMA EnqueueGood ==
  ASSUME NEW w \in ServerType, NEW c \in Peers, NEW k \in {"reply", "data", "rst"}, NEW s \in Ids0,
         NEW e, Good(w, c, e), FrameOK(w.con[c], [k |-> k, s |-> s])
  PROVE  LET v == Enqueue(w, c, k, s)
         IN  /\ Within(w, v, c) /\ Good(v, c, e) /\ v.con[c].aob = w.con[c].aob
             /\ v.con[c].str = w.con[c].str /\ v.con[c].q = Append(w.con[c].q, [k |-> k, s |-> s])
<1> DEFINE x == w.con[c]
           i == [k |-> k, s |-> s]
           y == [x EXCEPT !.q = Append(x.q, i)]
           v == Enqueue(w, c, k, s)
<1>1. v = Put(w, c, y)
  BY DEF Enqueue, Put
<1>2. x \in PeerType /\ Serving(x) /\ i \in QueuedType /\ i.k # "syn" /\ x.q \in Seq(QueuedType)
  BY TypeParts DEF Good, QueuedType
<1>3. FrameOK(x, i)
  OBVIOUS
<1> HIDE DEF x, i, v
<1>4. Append(x.q, i) \in Seq(QueuedType)
  BY <1>2
<1>5. /\ y \in PeerType /\ Kept(x, y) /\ SameInput(x, y) /\ y.aob = x.aob /\ y.str = x.str
      /\ y.q = Append(x.q, i) /\ y.req = x.req
  BY <1>2, <1>4 DEF PeerType, Kept, SameInput
<1> HIDE DEF y
<1>6. Serving(y)
  BY <1>2, <1>3, <1>5, QueueGrows
<1>7. SameFiles(x, y)
  BY <1>5 DEF SameFiles
<1>8. Within(w, v, c) /\ v.con[c] = y /\ Good(v, c, e)
  BY <1>1, <1>5, <1>6, <1>7, ConGood DEF x
<1>9. QED
  BY <1>5, <1>8 DEF v, x, i

LEMMA StreamClosedGood ==
  ASSUME NEW w \in ServerType, NEW c \in Peers, NEW s \in Ids0, NEW e, e = -1 \/ (e = s /\ Lives(w, c, s)),
         Good(w, c, e)
  PROVE  LET v == StreamClosed(w, c, s)
         IN  Within(w, v, c) /\ Good(v, c, -1) /\ v.con[c].aob = w.con[c].aob /\ v.con[c].q = w.con[c].q
<1> DEFINE x == w.con[c]
           z == [NewServerStream EXCEPT !.st = "closed", !.begun = x.str[s].begun]
           y == [x EXCEPT !.str[s] = z]
           u == Put(w, c, y)
           v == StreamClosed(w, c, s)
<1>1. CASE ~Lives(w, c, s)
  BY <1>1, WithinRefl DEF StreamClosed
<1>2. CASE Lives(w, c, s)
  <2>1. v = IF s = 0 THEN DeleteRequest(u, c) ELSE u
    BY <1>2 DEF StreamClosed, Put
  <2>2. x \in PeerType /\ Serving(x) /\ x.str[s].begun \in BOOLEAN /\ x.str[s].st \in Live
    BY <1>2, TypeParts DEF Good, StreamType, Lives, Live
  <2> HIDE DEF x
  <2>3. z \in StreamType /\ z.st = "closed" /\ ~z.rfin /\ z.begun = x.str[s].begun
    BY <2>2 DEF NewServerStream, StreamType
  <2> HIDE DEF z
  <2>4. /\ y \in PeerType /\ y.str[s] = z /\ (\A t \in Ids0 : t # s => y.str[t] = x.str[t])
        /\ Kept(x, y) /\ SameInput(x, y) /\ y.req = x.req /\ y.q = x.q /\ y.aob = x.aob
    BY <2>2, <2>3, StreamSet DEF Kept, SameInput
  <2> HIDE DEF y
  <2>5. Serving(y)
    BY <2>2, <2>3, <2>4, StreamChanges DEF Live, Active
  <2>6. /\ Within(w, u, c) /\ u \in ServerType /\ u.con[c] = y /\ u.fds = w.fds
        /\ u.abort = w.abort /\ u.odd = w.odd /\ u.late = w.late
    BY <2>4, ConWithin DEF x
  <2> HIDE DEF u
  <2>7. Plain(w) => u.abort = "none" /\ FilesBut(w.fds, x, c, e)
    BY <2>6 DEF Good, x
  <2>8. CASE s # 0
    <3>1. ASSUME FilesBut(w.fds, x, c, e) PROVE FilesBut(w.fds, y, c, -1)
      BY <1>2, <2>3, <2>4, <2>8, <3>1, ZeroId DEF FilesBut, Active, Live
    <3>2. v = u
      BY <2>1, <2>8
    <3>3. Good(v, c, -1)
      BY <2>5, <2>6, <2>7, <3>1, <3>2 DEF Good, Plain
    <3>4. QED
      BY <2>4, <2>6, <3>2, <3>3 DEF v, x
  <2>9. CASE s = 0
    <3> DEFINE f == x.req
               a == [y EXCEPT !.req = -1]
    <3>1. /\ Within(u, v, c) /\ v.con[c] = a /\ v.odd = u.odd
          /\ u.abort = "none" /\ (f > 0 => w.fds[f] \in {File(c, 0), Free}) =>
               /\ v.abort = "none" /\ (f > 0 => v.fds[f] = Free)
               /\ \A g \in Fds : g # f => v.fds[g] = w.fds[g]
      BY <2>1, <2>4, <2>6, <2>9, DeleteRequestType
    <3>2. a \in PeerType /\ SameInput(y, a) /\ a.q = y.q /\ a.str = y.str /\ a.aob = y.aob /\ a.req = -1
      BY <2>4 DEF PeerType, SameInput
    <3> HIDE DEF v, a
    <3>3. Serving(a)
      <4>1. FrameOK(y, a.aob) /\ (a.aob.k \in {"data", "fin"} => NoSyn(y.q))
        BY <2>5, <3>2 DEF Serving, Framed, Announced
      <4>2. QED
        BY <2>4, <2>5, <3>2, <4>1, ActiveChanges
    <3>4. Within(w, v, c)
      BY <2>6, <3>1, WithinTrans
    <3>5. ASSUME Plain(w) PROVE v.abort = "none" /\ FilesBut(v.fds, a, c, -1)
      <4>1. FilesBut(w.fds, x, c, e) /\ u.abort = "none"
        BY <2>7, <3>5
      <4>2. x.str[0].st \in Live /\ x.str[0].st \in Active /\ f = x.str[0].src
        BY <1>2, <2>2, <2>9, <4>1 DEF FilesBut, Live, Active
      <4>3. f > 0 => w.fds[f] \in {File(c, 0), Free}
        BY <4>1, <4>2, ZeroId DEF FilesBut
      <4>4. v.abort = "none" /\ (f > 0 => v.fds[f] = Free) /\ \A g \in Fds : g # f => v.fds[g] = w.fds[g]
        BY <3>1, <4>1, <4>3
      <4>5. a.str[0].st = "closed" /\ a.req = -1 /\ \A t \in Ids0 : t # 0 => a.str[t] = x.str[t]
        BY <2>3, <2>4, <2>9, <3>2
      <4>6. ASSUME NEW t \in Ids0, a.str[t].st \in Active, a.str[t].src > 0
            PROVE  v.fds[a.str[t].src] = File(c, t)
        <5>1. t # 0
          BY <4>5, <4>6 DEF Active
        <5>2. a.str[t] = x.str[t] /\ x.str[t].src \in Fds
          <6>1. w.con[c].str[t].src \in {0} \cup Fds
            BY TypeParts
          <6>2. a.str[t] = x.str[t]
            BY <4>5, <5>1
          <6>3. QED
            BY <4>6, <6>1, <6>2 DEF x
        <5>7. t # e
          BY <2>9, <5>1 DEF Ids0
        <5>3. w.fds[x.str[t].src] = File(c, t)
          BY <4>1, <4>6, <5>2, <5>7 DEF FilesBut
        <5>4. File(c, t) # File(c, 0) /\ File(c, t) # Free
          BY <5>1, ThingsDiffer
        <5>5. x.str[t].src # f
          BY <4>3, <4>6, <5>2, <5>3, <5>4
        <5>6. QED
          BY <4>4, <5>2, <5>3, <5>5
      <4>7. ASSUME NEW g \in Fds, v.fds[g] = File(c, 0) PROVE FALSE
        <5>1. g > 0 /\ File(c, 0) # Free
          BY ServerAssumption, ThingsDiffer
        <5>2. g # f
          BY <4>4, <4>7, <5>1
        <5>3. w.fds[g] = File(c, 0)
          BY <4>4, <4>7, <5>2
        <5>4. QED
          BY <4>1, <5>2, <5>3 DEF FilesBut
      <4>8. ~(-1 >= 0) /\ "closed" \notin Live
        BY DEF Live
      <4>9. FilesBut(v.fds, a, c, -1)
        BY <4>5, <4>6, <4>7, <4>8 DEF FilesBut
      <4>10. QED
        BY <4>4, <4>9
    <3>6. Plain(v) => Plain(w)
      BY <2>6, <3>1 DEF Plain, Within
    <3>7. Good(v, c, -1)
      BY <3>1, <3>3, <3>5, <3>6 DEF Good
    <3>8. QED
      BY <2>4, <3>1, <3>2, <3>4, <3>7 DEF v, x
  <2>10. QED
    BY <2>8, <2>9
<1>3. QED
  BY <1>1, <1>2

\* A stream changes and keeps its file.
LEMMA StreamGood ==
  ASSUME NEW w \in ServerType, NEW c \in Peers, NEW s \in Ids0, NEW z \in StreamType, NEW e, Good(w, c, e),
         (z.st = "queued") <=> (w.con[c].str[s].st = "queued"),
         s = 0 => z.st # "none" /\ (z.st = "opening" => z.rfin),
         z.st \in {"opened", "closing"} \/ (s # 0 /\ z.st \in {"queued", "opening"}) => z.rfin,
         z.begun => w.con[c].str[s].begun \/ NoSyn(w.con[c].q),
         z.src = w.con[c].str[s].src, (z.st \in Live) <=> (w.con[c].str[s].st \in Live),
         NEW v, v = Put(w, c, [w.con[c] EXCEPT !.str[s] = z])
  PROVE  /\ Within(w, v, c) /\ v \in ServerType /\ Good(v, c, e) /\ v.fds = w.fds /\ v.abort = w.abort
         /\ v.con[c].str[s] = z /\ v.con[c].q = w.con[c].q /\ v.con[c].aob = w.con[c].aob
         /\ v.odd = w.odd /\ v.late = w.late /\ v.con[c].ask = w.con[c].ask
<1> DEFINE x == w.con[c]
           y == [x EXCEPT !.str[s] = z]
<1>1. x \in PeerType /\ Serving(x)
  BY TypeParts DEF Good
<1>2. /\ y \in PeerType /\ y.str[s] = z /\ (\A t \in Ids0 : t # s => y.str[t] = x.str[t])
      /\ Kept(x, y) /\ SameInput(x, y) /\ y.req = x.req /\ y.q = x.q /\ y.aob = x.aob
  <2> HIDE DEF x
  <2>1. QED
    BY <1>1, StreamSet DEF Kept, SameInput
<1>0. v = Put(w, c, y)
  OBVIOUS
<1> HIDE DEF y
<1>3. (z.st \in Active) <=> (x.str[s].st \in Active)
  BY DEF Active, Live
<1>4. Serving(y)
  BY <1>1, <1>2, <1>3, StreamChanges
<1>5. SameFiles(x, y)
  BY <1>2, <1>3, ZeroId DEF SameFiles
<1>6. Within(w, v, c) /\ v \in ServerType /\ v.con[c] = y /\ Good(v, c, e) /\ v.fds = w.fds
      /\ v.abort = w.abort /\ v.odd = w.odd /\ v.late = w.late
  BY <1>0, <1>2, <1>4, <1>5, ConGood
<1>7. QED
  BY <1>2, <1>6 DEF Kept

\* The active frame changes.
LEMMA ActiveGood ==
  ASSUME NEW w \in ServerType, NEW c \in Peers, NEW a, NEW e, Good(w, c, e), FrameOK(w.con[c], a),
         a = NoFrame \/ a \in [k : {"syn", "reply", "data", "fin", "rst"}, s : Ids0],
         a.k \in {"data", "fin"} => NoSyn(w.con[c].q)
  PROVE  LET v == Put(w, c, [w.con[c] EXCEPT !.aob = a])
         IN  /\ Within(w, v, c) /\ v \in ServerType /\ Good(v, c, e) /\ v.fds = w.fds /\ v.abort = w.abort
             /\ v.con[c].str = w.con[c].str /\ v.con[c].q = w.con[c].q /\ v.con[c].aob = a
             /\ v.odd = w.odd /\ v.late = w.late
<1> DEFINE x == w.con[c]
           y == [x EXCEPT !.aob = a]
           v == Put(w, c, y)
<1>1. x \in PeerType /\ Serving(x)
  BY TypeParts, ZeroId DEF Good
<1>2. /\ y \in PeerType /\ y.str = x.str
      /\ Kept(x, y) /\ SameInput(x, y) /\ y.req = x.req /\ y.q = x.q /\ y.aob = a
  <2> HIDE DEF x
  <2>1. QED
    BY <1>1 DEF Kept, SameInput, PeerType
<1> HIDE DEF y
<1>4. Serving(y)
  BY <1>1, <1>2, ActiveChanges
<1>5. SameFiles(x, y)
  BY <1>2 DEF SameFiles
<1>6. Within(w, v, c) /\ v \in ServerType /\ v.con[c] = y /\ Good(v, c, e) /\ v.fds = w.fds
      /\ v.abort = w.abort /\ v.odd = w.odd /\ v.late = w.late
  BY <1>2, <1>4, <1>5, ConGood
<1> HIDE DEF v
<1>7. QED
  BY <1>2, <1>6 DEF v, y

\* The stream whose last frame is active; its file is closed.
Hole(x) == IF x.aob.k = "fin" THEN x.aob.s ELSE -1
SendOK(w, c) ==
  /\ Good(w, c, Hole(w.con[c]))
  /\ Plain(w) /\ w.con[c].aob.k = "fin" => w.con[c].str[w.con[c].aob.s].st = "opened"

LEMMA FinParts ==
  ASSUME NEW s \in Ids0, NEW k \in {"syn", "reply", "data", "fin", "rst"}
  PROVE  LET i == [k |-> k, s |-> s]
         IN  i \in [k : {"syn", "reply", "data", "fin", "rst"}, s : Ids0] /\ i.k = k /\ i.s = s
  OBVIOUS

LEMMA ResetStreamGood ==
  ASSUME NEW w \in ServerType, NEW c \in Peers, NEW s \in Ids0, Good(w, c, -1), w.con[c].str[s].st = "opened"
  PROVE  LET v == ResetStream(w, c, s)
         IN  Within(w, v, c) /\ Good(v, c, -1) /\ v.con[c].aob = w.con[c].aob
<1> DEFINE x == w.con[c]
           z == [x.str[s] EXCEPT !.st = "closing"]
           u == Put(w, c, [x EXCEPT !.str[s] = z])
           v == ResetStream(w, c, s)
<1>1. v = Enqueue(u, c, "rst", s)
  BY DEF ResetStream, Put, Lives
<1>2. x.str[s] \in StreamType /\ x.str[s].rfin
  BY TypeParts DEF Good, Serving, Shut
<1>3. z \in StreamType /\ z.st = "closing" /\ z.rfin /\ z.src = x.str[s].src /\ z.begun = x.str[s].begun
  <2> HIDE DEF x
  <2>1. QED
    BY <1>2 DEF StreamType
<1> HIDE DEF z
<1>0. u = Put(w, c, [w.con[c] EXCEPT !.str[s] = z])
  OBVIOUS
<1> HIDE DEF u
<1>4. /\ Within(w, u, c) /\ u \in ServerType /\ Good(u, c, -1) /\ u.con[c].aob = x.aob
  BY <1>0, <1>2, <1>3, StreamGood DEF Live
<1>5. FrameOK(u.con[c], [k |-> "rst", s |-> s])
  BY DEF FrameOK
<1>6. Within(u, v, c) /\ Good(v, c, -1) /\ v.con[c].aob = u.con[c].aob
  BY <1>1, <1>4, <1>5, EnqueueGood
<1>7. QED
  BY <1>4, <1>6, WithinTrans

\* close() of a file of c.
LEMMA CloseFileWithin ==
  ASSUME NEW w \in ServerType, NEW c \in Peers, NEW s \in Ids0, NEW f \in Fds, w.fds[f] = File(c, s)
  PROVE  LET v == CloseFd(w, f, File(c, s))
         IN  /\ Within(w, v, c) /\ v.con = w.con /\ v.abort = w.abort /\ v.odd = w.odd /\ v.late = w.late
             /\ v.fds[f] = Free /\ \A g \in Fds : g # f => v.fds[g] = w.fds[g]
<1> DEFINE t == CloseFd(w, f, File(c, s))
<1>1. /\ t \in ServerType /\ t.con = w.con
      /\ t.visit = w.visit /\ t.hds = w.hds /\ t.batch = w.batch
      /\ t.dels = w.dels /\ t.late = w.late /\ t.odd = w.odd
      /\ t.abort = w.abort /\ t.fds[f] = Free
      /\ \A g \in Fds : \/ t.fds[g] = w.fds[g] /\ t.reg[g] = w.reg[g]
                        \/ g = f /\ t.fds[f] = Free /\ t.reg[f] = NoHandler
  BY CloseFdType
<1> HIDE DEF t
<1>2. File(c, s) \in FilesOf(c)
  BY FilesAreThings
<1>3. Quiet(t) => Quiet(w) /\ Only(w, t, c)
  BY <1>1, <1>2 DEF Quiet, Only
<1>4. Within(w, t, c)
  BY <1>1, <1>3 DEF Within, Kept
<1>5. \A g \in Fds : g # f => t.fds[g] = w.fds[g]
  BY <1>1
<1>6. QED
  BY <1>1, <1>4, <1>5 DEF t

\* file_read_callback gives a part, or the end of the file, which it closes.
LEMMA FileReadGood ==
  ASSUME NEW w \in ServerType, NEW c \in Peers, NEW s \in Ids0, Good(w, c, -1), w.con[c].aob = NoFrame,
         NoSyn(w.con[c].q), w.con[c].str[s].st = "opened", w.con[c].str[s].src > 0
  PROVE  LET v == FileRead(w, c, s) IN Within(w, v, c) /\ SendOK(v, c)
<1> DEFINE x == w.con[c]
           y == x.str[s]
           f == y.src
           v == FileRead(w, c, s)
<1>1. x \in PeerType /\ y \in StreamType /\ f \in Fds /\ y.rfin /\ y.left \in Nat
  <2>1. x \in PeerType /\ y \in StreamType /\ f \in {0} \cup Fds /\ y.rfin
    BY TypeParts DEF Good, Serving, Shut
  <2>2. QED
    BY <2>1 DEF StreamType
<1>2. NoFrame.k = "none"
  BY DEF NoFrame
<1>3. CASE w.fds[f] = Free
  <2>1. v = ResetStream(w, c, s)
    BY <1>3 DEF FileRead
  <2>2. Within(w, v, c) /\ Good(v, c, -1) /\ v.con[c].aob = x.aob
    BY <2>1, ResetStreamGood
  <2> HIDE DEF v
  <2>3. SendOK(v, c)
    BY <1>2, <2>2 DEF SendOK, Hole
  <2>4. QED
    BY <2>2, <2>3 DEF v
<1>4. CASE w.fds[f] # Free /\ w.fds[f] # File(c, s)
  <2>1. v = [w EXCEPT !.abort = "wrong_read"]
    BY <1>4 DEF FileRead
  <2>2. ~Plain(w)
    BY <1>1, <1>4 DEF Good, FilesBut, Active, Ids0
  <2>3. /\ v \in ServerType /\ v.visit = w.visit /\ v.hds = w.hds /\ v.batch = w.batch /\ v.dels = w.dels
        /\ v.late = w.late /\ v.odd = w.odd /\ v.abort = "wrong_read" /\ v.con = w.con
    BY <2>1 DEF ServerType
  <2> HIDE DEF v
  <2>4. Within(w, v, c)
    BY <2>3 DEF Within, Kept, Quiet
  <2>5. SendOK(v, c)
    BY <2>2, <2>3 DEF SendOK, Good, Plain
  <2>6. QED
    BY <2>4, <2>5 DEF v
<1>5. CASE w.fds[f] # Free /\ w.fds[f] = File(c, s) /\ y.left > 0
  <2> DEFINE z == [y EXCEPT !.left = y.left - 1]
             i == [k |-> "data", s |-> s]
             u == Put(w, c, [x EXCEPT !.str[s] = z])
  <2>1. v = Put(u, c, [u.con[c] EXCEPT !.aob = i])
    BY <1>1, <1>5 DEF FileRead, Put, ServerType, PeerType
  <2>2. z \in StreamType /\ z.st = "opened" /\ z.rfin /\ z.src = f /\ z.begun = y.begun
    <3> DEFINE m == y.left
               n == m - 1
    <3>1. m \in Nat /\ m > 0
      BY <1>1, <1>5
    <3> HIDE DEF m
    <3>2. n \in Nat
      BY <3>1
    <3> HIDE DEF n
    <3>3. z = [y EXCEPT !.left = n] /\ y \in StreamType /\ y.rfin /\ y.st = "opened" /\ y.src = f
      BY <1>1 DEF n, m
    <3> HIDE DEF y, z, f
    <3>4. QED
      BY <3>2, <3>3 DEF StreamType
  <2> HIDE DEF z, i
  <2>0. u = Put(w, c, [w.con[c] EXCEPT !.str[s] = z])
    OBVIOUS
  <2> HIDE DEF u
  <2>3. /\ Within(w, u, c) /\ u \in ServerType /\ Good(u, c, -1)
        /\ u.con[c].str[s] = z /\ u.con[c].q = x.q
    BY <1>1, <2>0, <2>2, StreamGood DEF Live
  <2>4. i \in [k : {"syn", "reply", "data", "fin", "rst"}, s : Ids0] /\ i.k = "data" /\ i.s = s
    BY FinParts DEF i
  <2>5. FrameOK(u.con[c], i)
    BY <2>2, <2>3, <2>4 DEF FrameOK
  <2>6. Within(u, v, c) /\ Good(v, c, -1) /\ v.con[c].aob = i
    BY <2>1, <2>3, <2>4, <2>5, ActiveGood
  <2>7. Within(w, v, c)
    BY <2>3, <2>6, WithinTrans
  <2> HIDE DEF v
  <2>8. SendOK(v, c)
    BY <2>4, <2>6 DEF SendOK, Hole
  <2>9. QED
    BY <2>7, <2>8 DEF v
<1>6. CASE w.fds[f] # Free /\ w.fds[f] = File(c, s) /\ ~(y.left > 0)
  <2> DEFINE i == [k |-> "fin", s |-> s]
             u == CloseFd(w, f, File(c, s))
  <2>2. /\ Within(w, u, c) /\ u.con = w.con /\ u.abort = w.abort /\ u.odd = w.odd /\ u.late = w.late
        /\ u.fds[f] = Free /\ \A g \in Fds : g # f => u.fds[g] = w.fds[g]
    BY <1>1, <1>6, CloseFileWithin
  <2>1. v = Put(u, c, [u.con[c] EXCEPT !.aob = i])
    BY <1>6, <2>2 DEF FileRead, Put
  <2> HIDE DEF u, i
  <2>3. Good(u, c, s)
    <3>1. ASSUME Plain(w) PROVE FilesBut(u.fds, x, c, s)
      <4>1. FilesBut(w.fds, x, c, -1)
        BY <3>1 DEF Good
      <4>2. ASSUME NEW t \in Ids0, x.str[t].st \in Active, x.str[t].src > 0
            PROVE  u.fds[x.str[t].src] = File(c, t) \/ (t = s /\ u.fds[x.str[t].src] = Free)
        <5>1. x.str[t].src \in Fds /\ t # -1
          <6>1. x.str[t].src \in {0} \cup Fds
            BY TypeParts
          <6>2. QED
            BY <4>2, <6>1 DEF Ids0
        <5>2. w.fds[x.str[t].src] = File(c, t)
          BY <4>1, <4>2, <5>1 DEF FilesBut
        <5>3. t # s => x.str[t].src # f
          BY <1>6, <5>2, ThingsDiffer
        <5>4. QED
          BY <2>2, <5>1, <5>2, <5>3
      <4>3. \A g \in Fds : u.fds[g] = File(c, 0) => w.fds[g] = File(c, 0)
        BY <2>2, ThingsDiffer
      <4>4. QED
        BY <4>1, <4>2, <4>3 DEF FilesBut
    <3>2. QED
      BY <2>2, <3>1 DEF Good, Plain
  <2>4. i \in [k : {"syn", "reply", "data", "fin", "rst"}, s : Ids0] /\ i.k = "fin" /\ i.s = s
    BY FinParts DEF i
  <2>5. FrameOK(u.con[c], i) /\ NoSyn(u.con[c].q) /\ u \in ServerType
    BY <2>2, <2>4 DEF FrameOK, Within
  <2>6. Within(u, v, c) /\ Good(v, c, s) /\ v.con[c].aob = i /\ v.con[c].str = u.con[c].str
    BY <2>1, <2>3, <2>4, <2>5, ActiveGood
  <2>7. Within(w, v, c)
    BY <2>2, <2>6, WithinTrans
  <2> HIDE DEF v
  <2>8. SendOK(v, c)
    BY <2>2, <2>4, <2>6 DEF SendOK, Hole
  <2>9. QED
    BY <2>7, <2>8 DEF v
<1>7. QED
  BY <1>3, <1>4, <1>5, <1>6

\* The library sends a SYN_STREAM as long as there is one.
LEMMA NextFrameIn ==
  ASSUME NEW w \in ServerType, NEW c \in Peers, w.con[c].q # <<>>
  PROVE  LET n == NextFrame(w, c)
             q == w.con[c].q
         IN  n \in 1..Len(q) /\ (NoSyn(q) \/ q[n].k = "syn")
<1> DEFINE q == w.con[c].q
           P(i) == PriOf(w, c, q[i])
           syns == {i \in 1..Len(q) : q[i].k = "syn"}
           least == {i \in 1..Len(q) : \A j \in 1..Len(q) : P(i) <= P(j)}
           n == NextFrame(w, c)
<1>1. n = IF syns # {} THEN Min(syns) ELSE Min(least)
  BY DEF NextFrame
<1>2. q \in Seq(QueuedType) /\ w.con[c].ask.pri \in Nat
  <2>1. w.con[c] \in PeerType
    BY TypeParts, ZeroId
  <2>2. QED
    BY <2>1 DEF PeerType, WebRequest
<1>3. \A i : P(i) \in Nat
  BY <1>2 DEF PriOf, PushPri
<1> HIDE DEF P, q, n
<1>4. Len(q) \in Nat /\ 1 \in 1..Len(q)
  BY <1>2 DEF q
<1>5. CASE syns # {}
  <2>1. syns \subseteq Nat
    OBVIOUS
  <2>2. Min(syns) \in syns
    <3> HIDE DEF syns
    <3> QED
      BY <1>5, <2>1, MinIn
  <2>3. n \in syns
    BY <1>1, <1>5, <2>2
  <2>4. QED
    BY <2>3 DEF n, q
<1>6. CASE syns = {}
  <2> DEFINE T == {P(i) : i \in 1..Len(q)}
  <2>1. T \subseteq Nat /\ T # {}
    BY <1>3, <1>4
  <2>2. PICK x \in T : \A y \in T : x <= y
    <3> HIDE DEF T
    <3> QED
      BY <2>1, LeastNumber
  <2>3. least # {} /\ least \subseteq Nat
    BY <2>2
  <2>4. Min(least) \in least
    <3> HIDE DEF least
    <3> QED
      BY <2>3, MinIn
  <2>5. n \in 1..Len(q)
    BY <1>1, <1>6, <2>4
  <2>6. NoSyn(q)
    BY <1>6 DEF NoSyn
  <2>7. QED
    BY <2>5, <2>6 DEF n, q
<1>7. QED
  BY <1>5, <1>6

\* What is known of a stream while responses are sent.
LEMMA StreamKept ==
  ASSUME NEW x, Serving(x), NEW s \in Ids0
  PROVE  /\ s = 0 => x.str[s].st # "none" /\ (x.str[s].st = "opening" => x.str[s].rfin)
         /\ x.str[s].st \in {"opened", "closing"} \/ (s # 0 /\ x.str[s].st \in {"queued", "opening"}) => x.str[s].rfin
         /\ x.str[s].st \in Live => x.str[s].rfin
  BY DEF Serving, Fresh, Shut, Live

\* An active frame.
FrameType == {NoFrame} \cup [k : {"syn", "reply", "data", "fin", "rst"}, s : Ids0]

\* x with other frames and z for the stream s.
Took(x, r, a, s, z) == [x EXCEPT !.q = r, !.aob = a, !.str[s] = z]

LEMMA TakeSet ==
  ASSUME NEW x \in PeerType, NEW r \in Seq(QueuedType), NEW a \in FrameType,
         NEW s \in Ids0, NEW z \in StreamType
  PROVE  LET y == Took(x, r, a, s, z)
         IN  /\ y \in PeerType /\ y.str[s] = z /\ (\A t \in Ids0 : t # s => y.str[t] = x.str[t])
             /\ Kept(x, y) /\ SameInput(x, y) /\ y.req = x.req /\ y.q = r /\ y.aob = a
<1> DEFINE b == [x EXCEPT !.q = r, !.aob = a]
           d == [b EXCEPT !.str[s] = z]
           y == Took(x, r, a, s, z)
<1>1. /\ b \in PeerType /\ b.str = x.str
      /\ Kept(x, b) /\ SameInput(x, b) /\ b.req = x.req /\ b.q = r /\ b.aob = a
  BY DEF PeerType, Kept, SameInput, FrameType
<1>2. y = d
  BY DEF Took
<1> HIDE DEF b
<1>3. /\ d \in PeerType /\ d.str[s] = z /\ (\A t \in Ids0 : t # s => d.str[t] = b.str[t])
      /\ d.st = b.st /\ d.fd = b.fd /\ d.fail = b.fail /\ d.in = b.in /\ d.eof = b.eof
      /\ d.sent = b.sent /\ d.ask = b.ask /\ d.req = b.req /\ d.q = b.q /\ d.aob = b.aob
  BY <1>1, StreamSet
<1> HIDE DEF d
<1>4. QED
  <2> HIDE DEF y
  <2>1. QED
    BY <1>1, <1>2, <1>3 DEF Kept, SameInput, y

\* What becomes of a stream s when the frame i for it is taken from the queue.
Moved(i, s, y, z) ==
  /\ s = i.s /\ z.rfin = y.rfin /\ z.src = y.src /\ z.begun = y.begun
  /\ IF i.k = "syn" THEN z.st \in {"opening", "closed"} ELSE z = y

\* The connection c is x, and the frame n of its queue is i, for the stream s; r is
\* what remains.
Takes(w, c, x, n, i, s, r) ==
  /\ x = w.con[c] /\ x.aob = NoFrame /\ n \in 1..Len(x.q) /\ i = x.q[n] /\ s = i.s
  /\ r = RemoveAt(x.q, n) /\ Good(w, c, -1)

\* v follows w, with the active frame a and z for the stream s.
TakeResult(w, v, c, a, s, z) ==
  /\ Within(w, v, c) /\ v \in ServerType /\ Good(v, c, -1) /\ v.con[c].aob = a
  /\ (NoSyn(w.con[c].q) => NoSyn(v.con[c].q)) /\ v.con[c].str[s] = z

\* A frame is taken from the queue, and may be the active one.
LEMMA TakeGood ==
  ASSUME NEW w \in ServerType, NEW c \in Peers, NEW x \in PeerType, NEW n, NEW i \in QueuedType, NEW s \in Ids0,
         NEW r, Takes(w, c, x, n, i, s, r), NEW a \in {NoFrame, i}, a.k \notin {"data", "fin"},
         NEW z \in StreamType, Moved(i, s, x.str[s], z)
  PROVE  TakeResult(w, Put(w, c, Took(x, r, a, s, z)), c, a, s, z)
<1> DEFINE y == Took(x, r, a, s, z)
           v == Put(w, c, y)
<1>1. Serving(x) /\ x.q \in Seq(QueuedType) /\ n \in 1..Len(x.q) /\ i = x.q[n]
  <2>1. Serving(x) /\ n \in 1..Len(x.q) /\ i = x.q[n]
    BY DEF Good, Takes
  <2>2. QED
    BY <2>1, PeerParts
<1>2. Without(x.q, n, r)
  BY <1>1, Taken DEF Takes
<1>3. r \in Seq(QueuedType) /\ (NoSyn(x.q) => NoSyn(r))
  BY <1>2 DEF Without
<1>4. a \in FrameType
  BY DEF QueuedType, FrameType
<1>5. z.st # x.str[s].st => s # 0 /\ x.str[s].st = "queued"
  <2>1. z.st # x.str[s].st => i.k = "syn" /\ s = i.s
    BY DEF Moved
  <2>2. i.k = "syn" => i.s # 0 /\ x.str[i.s].st = "queued"
    BY <1>1 DEF Serving, Announced, Framed, FrameOK
  <2>3. QED
    BY <2>1, <2>2
<1>6. x.aob = NoFrame /\ r = RemoveAt(x.q, n) /\ s = x.q[n].s
  BY DEF Takes
<1>11. IF x.q[n].k = "syn" THEN z.st \in {"opening", "closed"} ELSE z = x.str[s]
  BY <1>1 DEF Moved
<1>12. z.rfin = x.str[s].rfin /\ z.src = x.str[s].src /\ z.begun = x.str[s].begun
  BY DEF Moved
<1>7. /\ y \in PeerType /\ y.str[s] = z /\ (\A t \in Ids0 : t # s => y.str[t] = x.str[t])
      /\ Kept(x, y) /\ SameInput(x, y) /\ y.req = x.req /\ y.q = r /\ y.aob = a
  BY <1>3, <1>4, TakeSet
<1> HIDE DEF y
<1>8. Serving(y)
  BY <1>1, <1>6, <1>7, <1>11, <1>12, QueueShrinks
<1>9. SameFiles(x, y)
  BY <1>5, <1>7, <1>12, ZeroId DEF SameFiles, Active, Live
<1>10. Within(w, v, c) /\ v \in ServerType /\ v.con[c] = y /\ Good(v, c, -1)
  BY <1>1, <1>7, <1>8, <1>9, ConGood DEF Takes
<1> HIDE DEF v
<1>14. QED
  BY <1>3, <1>7, <1>10 DEF v, y, TakeResult, Takes

LEMMA PutPut ==
  ASSUME NEW w \in ServerType, NEW c \in Peers, NEW y, NEW z
  PROVE  Put(Put(w, c, y), c, z) = Put(w, c, z) /\ Put(w, c, y).con[c] = y
  BY DEF Put, ServerType

SetQueue(x, r) == [x EXCEPT !.q = r]
SetFrames(x, r, a) == [x EXCEPT !.q = r, !.aob = a]
SetState(x, s, k) == [x EXCEPT !.str[s].st = k]
InState(y, k) == [y EXCEPT !.st = k]

LEMMA TookSame ==
  ASSUME NEW x \in PeerType, NEW r, NEW a, NEW s \in Ids0
  PROVE  /\ Took(x, r, a, s, x.str[s]) = SetFrames(x, r, a)
         /\ x.aob = a => Took(x, r, a, s, x.str[s]) = SetQueue(x, r)
<1> DEFINE y == [x EXCEPT !.q = r]
           z == [x EXCEPT !.q = r, !.aob = a]
<1>1. [x.str EXCEPT ![s] = x.str[s]] = x.str
  BY DEF PeerType
<1>2. z.str = x.str /\ [z EXCEPT !.str = x.str] = z
  BY DEF PeerType
<1>3. x.aob = a => z = y
  BY DEF PeerType
<1>4. Took(x, r, a, s, x.str[s]) = [z EXCEPT !.str = [z.str EXCEPT ![s] = x.str[s]]]
  BY DEF Took
<1>5. QED
  BY <1>1, <1>2, <1>3, <1>4 DEF SetFrames, SetQueue

LEMMA TookState ==
  ASSUME NEW x \in PeerType, NEW r, NEW a, NEW s \in Ids0, NEW k
  PROVE  /\ Took(x, r, a, s, InState(x.str[s], k)) = SetState(SetFrames(x, r, a), s, k)
         /\ x.aob = a => SetFrames(x, r, a) = SetQueue(x, r)
<1> DEFINE y == [x EXCEPT !.q = r]
           z == [x EXCEPT !.q = r, !.aob = a]
           b == [x.str[s] EXCEPT !.st = k]
<1>1. z.str = x.str
  BY DEF PeerType
<1>2. x.aob = a => z = y
  BY DEF PeerType
<1>3. Took(x, r, a, s, b) = [z EXCEPT !.str = [z.str EXCEPT ![s] = b]]
  BY DEF Took
<1>4. [z EXCEPT !.str[s].st = k] = [z EXCEPT !.str = [z.str EXCEPT ![s] = b]]
  BY <1>1
<1>5. QED
  BY <1>2, <1>3, <1>4 DEF SetFrames, SetQueue, SetState, InState

\* spdylay_session_prep_frame
LEMMA PrepareTaken ==
  ASSUME NEW w \in ServerType, NEW c \in Peers, NEW x \in PeerType, NEW n, NEW i \in QueuedType, NEW s \in Ids0,
         NEW r, Takes(w, c, x, n, i, s, r), NoSyn(x.q) \/ i.k = "syn"
  PROVE  LET v == PrepareFrame(Put(w, c, SetQueue(x, r)), c, i) IN Within(w, v, c) /\ SendOK(v, c)
<1> DEFINE y == x.str[s]
           y1 == SetQueue(x, r)
           y2 == SetFrames(x, r, i)
           w1 == Put(w, c, y1)
           now == [w1 EXCEPT !.con[c].aob = i]
           T(a, z) == Put(w, c, Took(x, r, a, s, z))
           v == PrepareFrame(w1, c, i)
<1>1. y \in StreamType /\ i.s = s /\ i.k \in {"syn", "reply", "data", "rst"} /\ NoFrame.k = "none" /\ x.aob = NoFrame
  <2>1. y \in StreamType
    BY PeerParts
  <2>2. QED
    BY <2>1, QueuedParts DEF Takes, NoFrame
<1>2. \A a \in {NoFrame, i}, z \in StreamType :
        a.k \notin {"data", "fin"} /\ Moved(i, s, y, z) => TakeResult(w, T(a, z), c, a, s, z)
  BY TakeGood
<1>3. w1.con[c] = y1 /\ now = Put(w, c, y2) /\ now.con[c] = y2
  <2>1. w1.con[c] = y1
    BY PutPut
  <2>2. now = Put(w1, c, y2)
    <3>1. now = Put(w1, c, [w1.con[c] EXCEPT !.aob = i])
      <4> HIDE DEF w1
      <4>1. QED
        BY DEF Put
    <3> HIDE DEF w1, now
    <3>2. QED
      BY <2>1, <3>1 DEF SetQueue, SetFrames
  <2> HIDE DEF now
  <2> HIDE DEF y1, y2
  <2>3. QED
    BY <2>1, <2>2, PutPut
<1>4. \A k : /\ [now EXCEPT !.con[c].str[s].st = k] = Put(w, c, SetState(y2, s, k))
            /\ [w1 EXCEPT !.con[c].str[s].st = k] = Put(w, c, SetState(y1, s, k))
  <2> TAKE k
  <2>1. /\ [now EXCEPT !.con[c].str[s].st = k] = Put(now, c, SetState(now.con[c], s, k))
        /\ [w1 EXCEPT !.con[c].str[s].st = k] = Put(w1, c, SetState(w1.con[c], s, k))
    <3> HIDE DEF w1, now
    <3>1. QED
      BY DEF Put, SetState
  <2> DEFINE z1 == SetState(y1, s, k)
             z2 == SetState(y2, s, k)
  <2>2. /\ [now EXCEPT !.con[c].str[s].st = k] = Put(Put(w, c, y2), c, z2)
        /\ [w1 EXCEPT !.con[c].str[s].st = k] = Put(Put(w, c, y1), c, z1)
    <3> HIDE DEF now, w1, y1, y2
    <3>1. QED
      BY <1>3, <2>1 DEF w1
  <2> HIDE DEF z1, z2, y1, y2, w1, now
  <2>3. QED
    BY <2>2, PutPut DEF z1, z2
<1>5. ASSUME NEW u, NEW a, NEW z, TakeResult(w, u, c, a, s, z), a.k # "fin"
      PROVE  Within(w, u, c) /\ SendOK(u, c)
  BY <1>5 DEF SendOK, Hole, TakeResult
<1>6. CASE i.k = "syn"
  <2> DEFINE o == InState(y, "opening")
             e == InState(y, "closed")
  <2>1. o \in StreamType /\ e \in StreamType /\ Moved(i, s, y, o) /\ Moved(i, s, y, e)
    <3> HIDE DEF y
    <3>1. QED
      BY <1>1, <1>6 DEF StreamType, Moved, InState
  <2>2. v = [now EXCEPT !.con[c].str[s].st = "opening"] \/ v = [w1 EXCEPT !.con[c].str[s].st = "closed"]
    <3> HIDE DEF w1
    <3>1. QED
      BY <1>1, <1>6 DEF PrepareFrame
  <2>3. Took(x, r, i, s, o) = SetState(y2, s, "opening") /\ Took(x, r, NoFrame, s, e) = SetState(y1, s, "closed")
    <3>1. Took(x, r, i, s, o) = SetState(y2, s, "opening")
      BY TookState
    <3>2. Took(x, r, NoFrame, s, e) = SetState(SetFrames(x, r, NoFrame), s, "closed")
      BY TookState
    <3>4. SetFrames(x, r, NoFrame) = y1
      BY <1>1, TookState
    <3>3. QED
      BY <3>1, <3>2, <3>4
  <2>4. v = T(i, o) \/ v = T(NoFrame, e)
    <3> HIDE DEF v, now, w1, y1, y2, o, e
    <3>1. QED
      BY <1>4, <2>2, <2>3
  <2>5. TakeResult(w, T(i, o), c, i, s, o) /\ TakeResult(w, T(NoFrame, e), c, NoFrame, s, e)
    <3> HIDE DEF T, o, e
    <3>1. QED
      BY <1>1, <1>2, <1>6, <2>1
  <2> HIDE DEF T, o, e, v
  <2>6. QED
    BY <1>1, <1>5, <1>6, <2>4, <2>5 DEF v
<1>7. i.k # "syn" => Moved(i, s, y, y)
  BY <1>1 DEF Moved
<1>8. i.k # "syn" => TakeResult(w, w1, c, NoFrame, s, y)
  <2>1. T(NoFrame, y) = w1
    BY <1>1, TookSame
  <2> HIDE DEF T, w1
  <2>2. QED
    BY <1>1, <1>2, <1>7, <2>1
<1>9. CASE i.k \in {"reply", "rst"}
  <2>1. v = now \/ v = w1
    <3> HIDE DEF w1
    <3>1. QED
      BY <1>9 DEF PrepareFrame
  <2>2. T(i, y) = now
    <3>1. Took(x, r, i, s, y) = y2
      BY TookSame
    <3> HIDE DEF now, y2, y
    <3>2. QED
      BY <1>3, <3>1
  <2> HIDE DEF T, w1, now, v
  <2>3. TakeResult(w, now, c, i, s, y)
    BY <1>1, <1>2, <1>7, <1>9, <2>2
  <2>4. QED
    BY <1>1, <1>5, <1>8, <1>9, <2>1, <2>3 DEF v, w1
<1>10. CASE i.k = "data"
  <2>1. v = IF CanSend(w1, c, s) THEN FileRead(w1, c, s) ELSE w1
    BY <1>1, <1>10 DEF PrepareFrame
  <2> HIDE DEF w1
  <2>2. TakeResult(w, w1, c, NoFrame, s, y)
    BY <1>8, <1>10
  <2>3. y.st = "opened" => y.src > 0
    <3>1. FrameOK(x, i)
      BY DEF Takes, Good, Serving, Framed
    <3>2. QED
      BY <1>1, <1>10, <3>1 DEF FrameOK, Active
  <2>4. NoSyn(w.con[c].q)
    BY <1>10 DEF Takes
  <2>5. CASE CanSend(w1, c, s)
    <3> HIDE DEF y
    <3>1. w1 \in ServerType /\ Good(w1, c, -1) /\ w1.con[c].aob = NoFrame
          /\ NoSyn(w1.con[c].q) /\ w1.con[c].str[s] = y /\ Within(w, w1, c)
      BY <2>2, <2>4 DEF TakeResult
    <3>2. y.st = "opened"
      BY <2>5, <3>1 DEF CanSend
    <3>3. Within(w1, v, c) /\ SendOK(v, c)
      BY <2>1, <2>3, <2>5, <3>1, <3>2, FileReadGood
    <3>4. QED
      BY <3>1, <3>3, WithinTrans DEF v, w1
  <2>6. CASE ~CanSend(w1, c, s)
    <3>1. v = w1
      BY <2>1, <2>6
    <3>2. QED
      BY <1>1, <1>5, <2>2, <3>1 DEF v, w1
  <2>7. QED
    BY <2>5, <2>6
<1>11. QED
  BY <1>1, <1>6, <1>9, <1>10

LEMMA PrepareFrameOK ==
  ASSUME NEW w \in ServerType, NEW c \in Peers, SendOK(w, c), w.con[c].aob = NoFrame, w.con[c].q # <<>>
  PROVE  LET n == NextFrame(w, c)
             v == PrepareFrame([w EXCEPT !.con[c].q = RemoveAt(@, n)], c, w.con[c].q[n])
         IN  Within(w, v, c) /\ SendOK(v, c)
<1> DEFINE x == w.con[c]
           n == NextFrame(w, c)
           i == x.q[n]
           s == i.s
           r == RemoveAt(x.q, n)
           w1 == [w EXCEPT !.con[c].q = r]
           v == PrepareFrame(w1, c, i)
<1>1. n \in 1..Len(x.q) /\ (NoSyn(x.q) \/ i.k = "syn")
  BY NextFrameIn
<1> HIDE DEF n
<1>2. x \in PeerType /\ i \in QueuedType
  <2>1. x \in PeerType
    BY TypeParts, ZeroId
  <2>2. QED
    BY <1>1, <2>1, PeerParts
<1>3. s \in Ids0 /\ NoFrame.k = "none"
  BY <1>2, QueuedParts DEF NoFrame
<1>4. Good(w, c, -1)
  BY <1>3 DEF SendOK, Hole
<1>5. Takes(w, c, x, n, i, s, r)
  BY <1>1, <1>4 DEF Takes
<1>6. w1 = Put(w, c, SetQueue(x, r))
  BY DEF Put, SetQueue
<1>7. Within(w, v, c) /\ SendOK(v, c)
  <2> HIDE DEF x, i, s, r, w1
  <2>1. QED
    BY <1>1, <1>2, <1>3, <1>5, <1>6, PrepareTaken
<1>8. QED
  BY <1>7 DEF n

\* ClosedIfShut; the file of the stream may be closed already.
LEMMA ClosedIfShutGood ==
  ASSUME NEW w \in ServerType, NEW c \in Peers, NEW s \in Ids0, NEW e, Good(w, c, e),
         e = -1 \/ (e = s /\ Lives(w, c, s) /\ w.con[c].str[s].lfin)
  PROVE  LET v == ClosedIfShut(w, c, s)
         IN  Within(w, v, c) /\ Good(v, c, -1) /\ v.con[c].aob = w.con[c].aob
<1> DEFINE y == w.con[c].str[s]
           v == ClosedIfShut(w, c, s)
<1>1. CASE y.rfin /\ y.lfin
  BY <1>1, StreamClosedGood DEF ClosedIfShut
<1>2. CASE ~(y.rfin /\ y.lfin)
  <2>1. v = w
    BY <1>2 DEF ClosedIfShut
  <2>2. Lives(w, c, s) => y.rfin
    BY StreamKept DEF Good, Lives, Live
  <2>3. e = -1
    BY <1>2, <2>2
  <2>4. QED
    BY <2>1, <2>3, WithinRefl
<1>3. QED
  BY <1>1, <1>2

\* The rest of a file goes before the other frames.
LEMMA RequeueGood ==
  ASSUME NEW w \in ServerType, NEW c \in Peers, NEW i \in QueuedType, i.k = "data", Good(w, c, -1),
         FrameOK(w.con[c], i)
  PROVE  LET v == [w EXCEPT !.con[c].q = <<i>> \o @]
         IN  Within(w, v, c) /\ Good(v, c, -1) /\ v.con[c].aob = w.con[c].aob
<1> DEFINE x == w.con[c]
           y == [x EXCEPT !.q = <<i>> \o x.q]
           v == [w EXCEPT !.con[c].q = <<i>> \o @]
<1>1. v = Put(w, c, y)
  BY DEF Put
<1>2. x \in PeerType /\ Serving(x) /\ x.q \in Seq(QueuedType) /\ FrameOK(x, i)
  BY TypeParts, ZeroId DEF Good
<1> HIDE DEF x, v
<1>3. <<i>> \in Seq(QueuedType)
  OBVIOUS
<1>4. <<i>> \o x.q \in Seq(QueuedType)
  BY <1>2, <1>3
<1>5. /\ y \in PeerType /\ Kept(x, y) /\ SameInput(x, y) /\ y.aob = x.aob /\ y.str = x.str
      /\ y.q = <<i>> \o x.q /\ y.req = x.req
  BY <1>2, <1>4 DEF PeerType, Kept, SameInput
<1> HIDE DEF y
<1>6. Serving(y)
  BY <1>2, <1>5, QueueGrows
<1>7. SameFiles(x, y)
  BY <1>5 DEF SameFiles
<1>8. Within(w, v, c) /\ v.con[c] = y /\ Good(v, c, -1)
  BY <1>1, <1>5, <1>6, <1>7, ConGood DEF x
<1>9. QED
  BY <1>5, <1>8 DEF v, x

\* A stream as it is but for the flags that tell what was sent on it.
SetStream(w, c, s, z) == Put(w, c, [w.con[c] EXCEPT !.str[s] = z])
StreamResult(w, v, c, s, z, e) ==
  /\ Within(w, v, c) /\ v \in ServerType /\ Good(v, c, e) /\ v.odd = w.odd /\ v.late = w.late
  /\ v.con[c].str[s] = z /\ v.con[c].q = w.con[c].q /\ v.con[c].aob = w.con[c].aob

\* z follows y: a stream is opened, and what was sent is remembered; noSyn tells
\* that no push waits.
Sends(y, z, noSyn) ==
  /\ z.st = y.st \/ (y.st \in Live /\ z.st = "opened")
  /\ z.rfin = y.rfin /\ z.src = y.src /\ (z.begun => y.begun \/ noSyn)

LEMMA SendsGood ==
  ASSUME NEW w \in ServerType, NEW c \in Peers, NEW s \in Ids0, NEW z \in StreamType, NEW e, Good(w, c, e),
         Sends(w.con[c].str[s], z, NoSyn(w.con[c].q))
  PROVE  StreamResult(w, SetStream(w, c, s, z), c, s, z, e)
<1> DEFINE y == w.con[c].str[s]
           q == w.con[c].q
           v == SetStream(w, c, s, z)
<1>1. /\ s = 0 => y.st # "none" /\ (y.st = "opening" => y.rfin)
      /\ y.st \in {"opened", "closing"} \/ (s # 0 /\ y.st \in {"queued", "opening"}) => y.rfin
  BY StreamKept DEF Good
<1>2. /\ z.st = y.st \/ (y.st \in Live /\ z.st = "opened")
      /\ z.rfin = y.rfin /\ z.src = y.src /\ (z.begun => y.begun \/ NoSyn(q))
  BY DEF Sends
<1> HIDE DEF y, q
<1>3. /\ (z.st = "queued") <=> (y.st = "queued")
      /\ s = 0 => z.st # "none" /\ (z.st = "opening" => z.rfin)
      /\ z.st \in {"opened", "closing"} \/ (s # 0 /\ z.st \in {"queued", "opening"}) => z.rfin
      /\ (z.st \in Live) <=> (y.st \in Live)
  <2>1. CASE z.st = y.st
    BY <1>1, <1>2, <2>1
  <2>2. CASE y.st \in Live /\ z.st = "opened"
    BY <1>1, <1>2, <2>2 DEF Live
  <2>3. QED
    BY <1>2, <2>1, <2>2
<1>4. /\ (z.st = "queued") <=> (w.con[c].str[s].st = "queued")
      /\ z.begun => w.con[c].str[s].begun \/ NoSyn(w.con[c].q)
      /\ z.src = w.con[c].str[s].src
      /\ (z.st \in Live) <=> (w.con[c].str[s].st \in Live)
  BY <1>2, <1>3 DEF y, q
<1>0. v = Put(w, c, [w.con[c] EXCEPT !.str[s] = z])
  BY DEF SetStream
<1> HIDE DEF v
<1>5. /\ Within(w, v, c) /\ v \in ServerType /\ Good(v, c, e)
      /\ v.con[c].str[s] = z /\ v.con[c].q = w.con[c].q /\ v.con[c].aob = w.con[c].aob
      /\ v.odd = w.odd /\ v.late = w.late
  BY <1>0, <1>3, <1>4, StreamGood
<1>6. QED
  BY <1>5 DEF StreamResult, v

LEMMA FlagTypes ==
  ASSUME NEW y \in StreamType
  PROVE  /\ [y EXCEPT !.lfin = TRUE] \in StreamType /\ \A b : Sends(y, [y EXCEPT !.lfin = TRUE], b)
         /\ [y EXCEPT !.begun = TRUE] \in StreamType /\ Sends(y, [y EXCEPT !.begun = TRUE], TRUE)
         /\ [y EXCEPT !.lfin = TRUE].lfin /\ [y EXCEPT !.lfin = TRUE].st = y.st
         /\ [y EXCEPT !.begun = TRUE].st = y.st /\ [y EXCEPT !.begun = TRUE].src = y.src
  BY DEF StreamType, Sends

LEMMA OpenedType ==
  ASSUME NEW y \in StreamType
  PROVE  LET z == [y EXCEPT !.st = IF y.st \in Live THEN "opened" ELSE @]
         IN  z \in StreamType /\ (\A b : Sends(y, z, b)) /\ z.src = y.src
<1> DEFINE k == IF y.st \in Live THEN "opened" ELSE y.st
           z == [y EXCEPT !.st = k]
<1>1. k \in {"none", "queued", "opening", "opened", "closing", "closed"}
      /\ (k = y.st \/ (y.st \in Live /\ k = "opened"))
  BY DEF StreamType
<1> HIDE DEF k
<1>2. z \in StreamType /\ (\A b : Sends(y, z, b)) /\ z.src = y.src
  BY <1>1 DEF StreamType, Sends
<1>3. QED
  BY <1>2 DEF k

\* The frame i was written, and is the active one no longer.
Written(w, c, i, e) ==
  /\ w.con[c].aob = NoFrame /\ Good(w, c, e) /\ FrameOK(w.con[c], i)
  /\ IF i.k = "fin" THEN e = i.s /\ (Plain(w) => Lives(w, c, i.s)) ELSE e = -1
  /\ i.k \in {"data", "fin"} => NoSyn(w.con[c].q)

LEMMA Rested ==
  ASSUME NEW w, NEW c, Good(w, c, -1), w.con[c].aob = NoFrame
  PROVE  SendOK(w, c)
<1>1. NoFrame.k # "fin"
  BY DEF NoFrame
<1>2. QED
  BY <1>1 DEF SendOK, Hole

\* A SYN_STREAM or a SYN_REPLY was sent.
LEMMA HeadSent ==
  ASSUME NEW w \in ServerType, NEW c \in Peers, NEW i \in [k : {"syn", "reply"}, s : Ids0], Written(w, c, i, -1)
  PROVE  LET v == FrameSent(w, c, i) IN Within(w, v, c) /\ SendOK(v, c)
<1> DEFINE s == i.s
           y == w.con[c].str[s]
           z == [y EXCEPT !.st = IF y.st \in Live THEN "opened" ELSE @]
           opened == SetStream(w, c, s, z)
           a == [z EXCEPT !.lfin = TRUE]
           over == SetStream(opened, c, s, a)
           v == FrameSent(w, c, i)
<1>1. s \in Ids0 /\ y \in StreamType /\ Good(w, c, -1) /\ w.con[c].aob = NoFrame
  <2>1. s \in Ids0
    OBVIOUS
  <2>2. QED
    BY <2>1, TypeParts DEF Written
<1>2. z \in StreamType /\ Sends(y, z, NoSyn(w.con[c].q)) /\ z.src = y.src
  <2> HIDE DEF y
  <2>1. QED
    BY <1>1, OpenedType
<1> HIDE DEF z
<1>3. StreamResult(w, opened, c, s, z, -1)
  <2> HIDE DEF s
  <2>1. QED
    BY <1>1, <1>2, SendsGood
<1>4. a \in StreamType /\ Sends(z, a, NoSyn(opened.con[c].q))
  <2> HIDE DEF opened
  <2>1. QED
    BY <1>2, FlagTypes
<1> HIDE DEF a
<1>5. /\ opened \in ServerType /\ Good(opened, c, -1) /\ opened.con[c].str[s] = z /\ Within(w, opened, c)
      /\ opened.con[c].aob = NoFrame
  BY <1>1, <1>3 DEF StreamResult
<1>6. v = IF y.src > 0 THEN Enqueue(opened, c, "data", s) ELSE ClosedIfShut(over, c, s)
  <2> DEFINE b == [w EXCEPT !.con[c].str[s].st = IF Lives(w, c, s) THEN "opened" ELSE @]
  <2>1. opened = b
    BY DEF SetStream, Put, z, Lives, Live
  <2>2. over = [opened EXCEPT !.con[c].str[s].lfin = TRUE]
    <3> HIDE DEF opened
    <3>1. over = [opened EXCEPT !.con[c].str[s] = a]
      BY DEF SetStream, Put
    <3>2. QED
      BY <1>5, <3>1 DEF a
  <2>3. i.k \in {"syn", "reply"}
    BY SMTT(20)
  <2>4. v = IF y.src > 0 THEN Enqueue(b, c, "data", s) ELSE ClosedIfShut([b EXCEPT !.con[c].str[s].lfin = TRUE], c, s)
    BY <2>3 DEF FrameSent
  <2> HIDE DEF opened, over, b, v
  <2>5. QED
    BY <2>1, <2>2, <2>4
<1>7. CASE y.src > 0
  <2> HIDE DEF opened, over
  <2>1. v = Enqueue(opened, c, "data", s)
    BY <1>6, <1>7
  <2>2. FrameOK(opened.con[c], [k |-> "data", s |-> s])
    <3> HIDE DEF y, s
    <3>1. z.src > 0
      BY <1>2, <1>7
    <3>2. QED
      BY <1>5, <3>1 DEF FrameOK
  <2>3. Within(opened, v, c) /\ Good(v, c, -1) /\ v.con[c].aob = NoFrame
    <3> HIDE DEF s
    <3>1. QED
      BY <1>1, <1>5, <2>1, <2>2, EnqueueGood
  <2>4. QED
    BY <1>5, <2>3, Rested, WithinTrans
<1>8. CASE ~(y.src > 0)
  <2>1. StreamResult(opened, over, c, s, a, -1)
    <3> HIDE DEF opened, s
    <3>1. QED
      BY <1>1, <1>4, <1>5, SendsGood
  <2> HIDE DEF opened, over
  <2>2. over \in ServerType /\ Good(over, c, -1) /\ Within(opened, over, c) /\ over.con[c].aob = NoFrame
    BY <1>5, <2>1 DEF StreamResult
  <2>3. v = ClosedIfShut(over, c, s)
    BY <1>6, <1>8
  <2>4. Within(over, v, c) /\ Good(v, c, -1) /\ v.con[c].aob = NoFrame
    <3> HIDE DEF s
    <3>1. QED
      BY <1>1, <2>2, <2>3, ClosedIfShutGood
  <2>5. Within(w, over, c)
    BY <1>5, <2>2, WithinTrans
  <2>6. QED
    BY <2>4, <2>5, Rested, WithinTrans
<1>9. QED
  BY <1>7, <1>8

\* DATA was sent, and not the last of a file.
LEMMA DataSent ==
  ASSUME NEW w \in ServerType, NEW c \in Peers, NEW i \in [k : {"data"}, s : Ids0], Written(w, c, i, -1)
  PROVE  LET v == FrameSent(w, c, i) IN Within(w, v, c) /\ SendOK(v, c)
<1> DEFINE s == i.s
           y == w.con[c].str[s]
           z == [y EXCEPT !.begun = TRUE]
           b == [w EXCEPT !.con[c].str[s].begun = TRUE]
           v == FrameSent(w, c, i)
<1>1. s \in Ids0 /\ y \in StreamType /\ Good(w, c, -1) /\ w.con[c].aob = NoFrame /\ NoSyn(w.con[c].q)
      /\ FrameOK(w.con[c], i) /\ i.k = "data" /\ i \in QueuedType
  <2>1. s \in Ids0 /\ i.k = "data" /\ i \in QueuedType
    BY DEF QueuedType
  <2>2. QED
    BY <2>1, TypeParts DEF Written
<1>2. z \in StreamType /\ Sends(y, z, TRUE) /\ z.st = y.st /\ z.src = y.src
  <2> HIDE DEF y
  <2>1. QED
    BY <1>1, FlagTypes
<1>3. b = SetStream(w, c, s, z)
  BY DEF SetStream, Put
<1>4. v \in {b, FileRead(b, c, s), [b EXCEPT !.con[c].q = <<i>> \o @]}
      /\ (v = FileRead(b, c, s) => v = b \/ CanSend(w, c, s))
  BY <1>1 DEF FrameSent
<1> HIDE DEF z, b
<1>5. StreamResult(w, b, c, s, z, -1)
  <2>1. NoSyn(w.con[c].q) = TRUE
    BY <1>1 DEF NoSyn
  <2> HIDE DEF s, y
  <2>2. Sends(y, z, NoSyn(w.con[c].q))
    BY <1>2, <2>1
  <2>3. QED
    BY <1>1, <1>2, <1>3, <2>2, SendsGood DEF y
<1>6. /\ b \in ServerType /\ Good(b, c, -1) /\ b.con[c].str[s] = z /\ Within(w, b, c)
      /\ b.con[c].aob = NoFrame /\ NoSyn(b.con[c].q)
  BY <1>1, <1>5 DEF StreamResult
<1>7. y.st \in Active => y.src > 0
  BY <1>1 DEF FrameOK
<1>8. CASE v = b
  <2>1. SendOK(b, c)
    BY <1>6, Rested
  <2>2. QED
    BY <1>6, <1>8, <2>1
<1>9. CASE v = FileRead(b, c, s) /\ CanSend(w, c, s)
  <2>1. z.st = "opened" /\ z.src > 0
    BY <1>2, <1>7, <1>9 DEF CanSend, Active
  <2> HIDE DEF s, v
  <2>2. Within(b, v, c) /\ SendOK(v, c)
    BY <1>1, <1>6, <1>9, <2>1, FileReadGood
  <2>3. QED
    BY <1>6, <2>2, WithinTrans DEF v
<1>10. CASE v = [b EXCEPT !.con[c].q = <<i>> \o @]
  <2>1. FrameOK(b.con[c], i)
    <3>1. z.st \in Active => z.src > 0
      BY <1>2, <1>7
    <3>2. QED
      BY <1>1, <1>6, <3>1 DEF FrameOK
  <2> HIDE DEF v
  <2>2. Within(b, v, c) /\ Good(v, c, -1) /\ v.con[c].aob = NoFrame
    BY <1>1, <1>6, <1>10, <2>1, RequeueGood
  <2>3. QED
    BY <1>6, <2>2, Rested, WithinTrans DEF v
<1>11. QED
  BY <1>4, <1>8, <1>9, <1>10

\* The last of a file was sent.
LEMMA LastSent ==
  ASSUME NEW w \in ServerType, NEW c \in Peers, NEW i \in [k : {"fin"}, s : Ids0], Written(w, c, i, i.s)
  PROVE  LET v == FrameSent(w, c, i) IN Within(w, v, c) /\ SendOK(v, c)
<1> DEFINE s == i.s
           y == w.con[c].str[s]
           z == [y EXCEPT !.begun = TRUE]
           a == [z EXCEPT !.lfin = TRUE]
           b == [w EXCEPT !.con[c].str[s].begun = TRUE]
           d == [b EXCEPT !.con[c].str[s].lfin = TRUE]
           v == FrameSent(w, c, i)
<1>1. s \in Ids0 /\ y \in StreamType /\ Good(w, c, s) /\ w.con[c].aob = NoFrame /\ NoSyn(w.con[c].q)
      /\ i.k = "fin" /\ (Plain(w) => Lives(w, c, s))
  <2>1. s \in Ids0 /\ i.k = "fin"
    OBVIOUS
  <2>2. QED
    BY <2>1, TypeParts DEF Written
<1>2. z \in StreamType /\ Sends(y, z, TRUE) /\ z.st = y.st
  <2> HIDE DEF y
  <2>1. QED
    BY <1>1, FlagTypes
<1>3. b = SetStream(w, c, s, z)
  BY DEF SetStream, Put
<1>4. v = IF Lives(w, c, s) THEN ClosedIfShut(d, c, s) ELSE w
  BY <1>1 DEF FrameSent
<1> HIDE DEF z, b
<1>5. StreamResult(w, b, c, s, z, s)
  <2>1. NoSyn(w.con[c].q) = TRUE
    BY <1>1 DEF NoSyn
  <2> HIDE DEF s, y
  <2>2. Sends(y, z, NoSyn(w.con[c].q))
    BY <1>2, <2>1
  <2>3. QED
    BY <1>1, <1>2, <1>3, <2>2, SendsGood DEF y
<1>6. /\ b \in ServerType /\ Good(b, c, s) /\ b.con[c].str[s] = z /\ Within(w, b, c)
      /\ b.con[c].aob = NoFrame
  BY <1>1, <1>5 DEF StreamResult
<1>7. CASE Lives(w, c, s)
  <2>1. a \in StreamType /\ Sends(z, a, NoSyn(b.con[c].q)) /\ a.lfin /\ a.st = y.st
    BY <1>2, FlagTypes
  <2>2. d = SetStream(b, c, s, a)
    <3>1. d = [b EXCEPT !.con[c].str[s] = [@ EXCEPT !.lfin = TRUE]]
      OBVIOUS
    <3>2. QED
      BY <1>6, <3>1 DEF SetStream, Put
  <2> HIDE DEF a, d
  <2>3. StreamResult(b, d, c, s, a, s)
    <3> HIDE DEF s
    <3>1. QED
      BY <1>1, <1>6, <2>1, <2>2, SendsGood
  <2>4. d \in ServerType /\ Good(d, c, s) /\ Within(b, d, c) /\ d.con[c].aob = NoFrame /\ d.con[c].str[s] = a
    BY <1>6, <2>3 DEF StreamResult
  <2>5. Lives(d, c, s) /\ d.con[c].str[s].lfin
    BY <1>7, <2>1, <2>4 DEF Lives
  <2>6. v = ClosedIfShut(d, c, s)
    BY <1>4, <1>7
  <2>7. Within(d, v, c) /\ Good(v, c, -1) /\ v.con[c].aob = NoFrame
    <3> HIDE DEF s, v
    <3>1. QED
      BY <1>1, <2>4, <2>5, <2>6, ClosedIfShutGood
  <2>8. Within(w, d, c)
    BY <1>6, <2>4, WithinTrans
  <2>9. QED
    BY <2>7, <2>8, Rested, WithinTrans
<1>8. CASE ~Lives(w, c, s)
  <2>1. v = w
    BY <1>4, <1>8
  <2>2. Good(w, c, -1)
    BY <1>1, <1>8 DEF Good
  <2>3. QED
    BY <1>1, <2>1, <2>2, Rested, WithinRefl
<1>9. QED
  BY <1>7, <1>8

LEMMA FrameSentOK ==
  ASSUME NEW w \in ServerType, NEW c \in Peers, SendOK(w, c), w.con[c].aob # NoFrame
  PROVE  LET v == FrameSent([w EXCEPT !.con[c].aob = NoFrame], c, w.con[c].aob)
         IN  Within(w, v, c) /\ SendOK(v, c)
<1> DEFINE x == w.con[c]
           i == x.aob
           e == Hole(x)
           u == [w EXCEPT !.con[c].aob = NoFrame]
           v == FrameSent(u, c, i)
<1>1. x \in PeerType /\ i \in [k : {"syn", "reply", "data", "fin", "rst"}, s : Ids0]
  <2>1. x \in PeerType
    BY TypeParts, ZeroId
  <2>2. QED
    BY <2>1, PeerParts
<1>2. u = Put(w, c, [x EXCEPT !.aob = NoFrame])
  BY DEF Put
<1>3. Good(w, c, e) /\ FrameOK(x, i) /\ (i.k \in {"data", "fin"} => NoSyn(x.q)) /\ NoFrame.k = "none"
      /\ (Plain(w) /\ i.k = "fin" => x.str[i.s].st = "opened")
  BY DEF SendOK, Good, Serving, Framed, Announced, NoFrame
<1>4. FrameOK(x, NoFrame)
  BY DEF FrameOK, NoFrame
<1> HIDE DEF u, e
<1>5. /\ Within(w, u, c) /\ u \in ServerType /\ Good(u, c, e)
      /\ u.con[c].str = x.str /\ u.con[c].q = x.q /\ u.con[c].aob = NoFrame
      /\ u.odd = w.odd /\ u.late = w.late
  BY <1>2, <1>3, <1>4, ActiveGood
<1>6. e = IF i.k = "fin" THEN i.s ELSE -1
  BY DEF e, Hole
<1>7. Written(u, c, i, e)
  <2> HIDE DEF x, i
  <2>1. FrameOK(u.con[c], i)
    BY <1>3, <1>5 DEF FrameOK
  <2>2. Plain(u) /\ i.k = "fin" => Lives(u, c, i.s)
    BY <1>3, <1>5 DEF Plain, Lives
  <2>3. QED
    BY <1>3, <1>5, <1>6, <2>1, <2>2 DEF Written
<1> HIDE DEF x, i
<1>8. Within(u, v, c) /\ SendOK(v, c)
  <2>1. CASE i.k \in {"syn", "reply"}
    <3>1. i \in [k : {"syn", "reply"}, s : Ids0] /\ e = -1
      BY <1>1, <1>6, <2>1
    <3>2. QED
      BY <1>5, <1>7, <3>1, HeadSent
  <2>2. CASE i.k = "data"
    <3>1. i \in [k : {"data"}, s : Ids0] /\ e = -1
      BY <1>1, <1>6, <2>2
    <3>2. QED
      BY <1>5, <1>7, <3>1, DataSent
  <2>3. CASE i.k = "fin"
    <3>1. i \in [k : {"fin"}, s : Ids0] /\ e = i.s
      BY <1>1, <1>6, <2>3
    <3>2. QED
      BY <1>5, <1>7, <3>1, LastSent
  <2>4. CASE i.k = "rst"
    <3>1. i.s \in Ids0 /\ e = -1 /\ v = StreamClosed(u, c, i.s)
      BY <1>1, <1>6, <2>4 DEF FrameSent
    <3>2. Good(u, c, -1)
      BY <1>5, <3>1
    <3>3. Within(u, v, c) /\ Good(v, c, -1) /\ v.con[c].aob = NoFrame
      BY <1>5, <3>1, <3>2, StreamClosedGood
    <3>4. QED
      BY <3>3, Rested
  <2>5. QED
    BY <1>1, <2>1, <2>2, <2>3, <2>4
<1>9. QED
  BY <1>5, <1>8, WithinTrans DEF u, x, i

Idle(x) == x.q = <<>> /\ x.aob = NoFrame

\* What the loop of spdylay_session_send goes through when it starts with w.
SendStates(w, c) ==
  {v \in [w : ServerType, n : Nat] : Within(w, v.w, c) /\ (SendOK(v.w, c) \/ (v.w = w /\ Idle(w.con[c])))}

LEMMA SendTurnIn ==
  ASSUME NEW w \in ServerType, NEW c \in Peers, NEW v \in SendStates(w, c)
  PROVE  SendTurn(v, c) \in SendStates(w, c)
<1> DEFINE a == v.w
           m == v.n
           x == a.con[c]
           n == NextFrame(a, c)
           u == SendTurn(v, c)
           sent == FrameSent([a EXCEPT !.con[c].aob = NoFrame], c, x.aob)
           taken == PrepareFrame([a EXCEPT !.con[c].q = RemoveAt(@, n)], c, x.q[n])
<1>1. v \in [w : ServerType, n : Nat] /\ a \in ServerType /\ m \in Nat /\ Within(w, a, c)
      /\ (SendOK(a, c) \/ (a = w /\ Idle(w.con[c])))
  BY DEF SendStates
<1>2. \/ u = v
      \/ u = [w |-> sent, n |-> m - 1] /\ x.aob # NoFrame /\ m # 0
      \/ u = [w |-> taken, n |-> m] /\ x.aob = NoFrame /\ x.q # <<>>
  BY DEF SendTurn
<1> HIDE DEF a, m, u, sent, taken
<1>3. CASE u = v
  BY <1>3 DEF u
<1>4. ASSUME NEW b, NEW l, l \in Nat, Within(a, b, c), SendOK(b, c), u = [w |-> b, n |-> l]
      PROVE  u \in SendStates(w, c)
  <2>1. Within(w, b, c) /\ b \in ServerType
    BY <1>1, <1>4, WithinTrans DEF Within
  <2>2. u.w = b /\ u \in [w : ServerType, n : Nat]
    BY <1>4, <2>1
  <2>3. QED
    BY <1>4, <2>1, <2>2 DEF SendStates
<1>5. CASE u = [w |-> sent, n |-> m - 1] /\ x.aob # NoFrame /\ m # 0
  <2>1. SendOK(a, c)
    BY <1>1, <1>5 DEF Idle
  <2>2. Within(a, sent, c) /\ SendOK(sent, c)
    BY <1>1, <1>5, <2>1, FrameSentOK DEF sent
  <2>3. m - 1 \in Nat
    BY <1>1, <1>5
  <2>4. QED
    BY <1>4, <1>5, <2>2, <2>3 DEF u
<1>6. CASE u = [w |-> taken, n |-> m] /\ x.aob = NoFrame /\ x.q # <<>>
  <2>1. SendOK(a, c)
    BY <1>1, <1>6 DEF Idle
  <2>2. Within(a, taken, c) /\ SendOK(taken, c)
    BY <1>1, <1>6, <2>1, PrepareFrameOK DEF taken
  <2>3. QED
    BY <1>1, <1>4, <1>6, <2>2 DEF u
<1>7. QED
  BY <1>2, <1>3, <1>5, <1>6

SendRun(w, c, n, turns, f) ==
  f = [i \in 0..turns |-> IF i = 0 THEN [w |-> w, n |-> n] ELSE SendTurn(f[i - 1], c)]

\* A connection between the rounds.
RestOK(w, c) ==
  /\ ConOK(w.con[c])
  /\ Plain(w) => w.abort = "none" /\ FilesBut(w.fds, w.con[c], c, -1) /\ w.con[c].aob.k # "fin"

LEMMA ServerSendOK ==
  ASSUME NEW w \in ServerType, NEW c \in Peers, NEW n \in Nat, RestOK(w, c), w.con[c].in.k \notin {"syn", "fin"}
  PROVE  LET v == ServerSend(w, c, n) IN Within(w, v, c) /\ RestOK(v, c)
<1> DEFINE l == Len(w.con[c].q)
           turns == 3 * n + 2 * l
           S == SendStates(w, c)
           G == [i \in 1..turns |-> [v \in S |-> SendTurn(v, c)]]
           o == [w |-> w, n |-> n]
           run == CHOOSE f : SendRun(w, c, n, turns, f)
           x == w.con[c]
<1>1. x \in PeerType /\ l \in Nat
  <2>1. x \in PeerType
    BY TypeParts, ZeroId
  <2>2. QED
    BY <2>1, PeerParts
<1>2. turns \in Nat
  <2> HIDE DEF l
  <2>1. QED
    BY <1>1
<1>3. o \in S
  <2>1. Idle(x) \/ SendOK(w, c)
    <3>1. CASE Fresh(x)
      BY <3>1 DEF RestOK, ConOK, Unasked, Idle
    <3>2. CASE ~Fresh(x)
      <4>1. Serving(x)
        BY <1>1, <3>2, OKServing DEF RestOK
      <4>2. Plain(w) => Hole(x) = -1
        BY DEF RestOK, Hole
      <4>3. QED
        BY <4>1, <4>2 DEF SendOK, Good, RestOK
    <3>3. QED
      BY <3>1, <3>2
  <2>2. Within(w, w, c) /\ o \in [w : ServerType, n : Nat] /\ o.w = w
    BY WithinRefl
  <2>3. QED
    BY <2>1, <2>2 DEF SendStates
<1>4. \A v \in S : SendTurn(v, c) \in S
  BY SendTurnIn
<1> HIDE DEF S, turns, o
<1>5. G \in [1..turns -> [S -> S]] /\ \A i \in 1..turns : \A v \in S : G[i][v] = SendTurn(v, c)
  BY <1>4
<1> HIDE DEF G
<1>6. PICK f : f \in [0..turns -> S] /\ Run(turns, o, G, f)
  BY <1>2, <1>3, <1>5, RunExists
<1>7. SendRun(w, c, n, turns, f)
  <2>1. ASSUME NEW i \in 0..turns, i # 0 PROVE f[i] = SendTurn(f[i - 1], c)
    <3>1. i \in 1..turns /\ i - 1 \in 0..turns
      BY <1>2, <2>1
    <3>2. f[i] = G[i][f[i - 1]]
      BY <1>6, <3>1 DEF Run
    <3>3. QED
      BY <1>5, <1>6, <3>1, <3>2
  <2>2. f[0] = [w |-> w, n |-> n]
    BY <1>6 DEF Run, o
  <2>3. f \in [0..turns -> S]
    BY <1>6
  <2>4. QED
    BY <2>1, <2>2, <2>3 DEF SendRun
<1>8. SendRun(w, c, n, turns, run)
  BY <1>7
<1> DEFINE u == run[turns].w
<1>9. ServerSend(w, c, n) = [u EXCEPT !.late = @ \/ (u.abort = "none" /\ u.con[c].aob.k = "fin")]
  BY Zenon DEF ServerSend, SendRun, turns, l
<1> HIDE DEF run
<1>10. run[turns] \in S
  <2> DEFINE T == {i \in 0..turns : run[i] \in S}
  <2>1. run[0] = o /\ 0 \in 0..turns /\ \A i \in 0..turns : i # 0 => run[i] = SendTurn(run[i - 1], c)
    BY <1>2, <1>8 DEF SendRun, o
  <2>2. 0 \in T
    BY <1>3, <2>1
  <2>3. ASSUME NEW i \in 0..(turns - 1), i \in T PROVE i + 1 \in T
    <3>1. i + 1 \in 0..turns /\ i + 1 # 0 /\ (i + 1) - 1 = i
      BY <1>2
    <3>2. run[i + 1] = SendTurn(run[i], c)
      BY <2>1, <3>1
    <3>3. QED
      BY <1>4, <2>3, <3>1, <3>2
  <2>4. \A i \in 0..turns : i \in T
    <3> HIDE DEF T
    <3> QED
      BY <1>2, <2>2, <2>3, UpTo
  <2>5. QED
    BY <1>2, <2>4
<1>11. u \in ServerType /\ Within(w, u, c) /\ (SendOK(u, c) \/ u = w)
  BY <1>10 DEF S, SendStates
<1> DEFINE late == u.late \/ (u.abort = "none" /\ u.con[c].aob.k = "fin")
           v == [u EXCEPT !.late = late]
<1> HIDE DEF u
<1>12. v \in ServerType /\ v.con = u.con /\ v.fds = u.fds /\ v.reg = u.reg /\ v.abort = u.abort /\ v.odd = u.odd
       /\ v.visit = u.visit /\ v.hds = u.hds /\ v.batch = u.batch /\ v.dels = u.dels /\ v.late = late
  <2>1. late \in BOOLEAN
    BY <1>11 DEF ServerType
  <2> HIDE DEF late
  <2>2. QED
    BY <1>11, <2>1 DEF ServerType
<1> HIDE DEF v
<1>13. Within(w, v, c)
  <2>1. v.late = u.late \/ v.late = TRUE
    BY <1>11, <1>12 DEF ServerType
  <2>2. Only(w, u, c) => Only(w, v, c)
    BY <1>12 DEF Only
  <2>3. QED
    BY <1>11, <1>12, <2>1, <2>2 DEF Within, Quiet
<1>14. RestOK(v, c)
  <2>1. CASE SendOK(u, c)
    <3>1. ConOK(v.con[c])
      BY <1>12, <2>1, ServingOK DEF SendOK, Good
    <3>2. ASSUME Plain(v) PROVE v.abort = "none" /\ FilesBut(v.fds, v.con[c], c, -1) /\ v.con[c].aob.k # "fin"
      <4>1. Plain(u) /\ (u.abort = "none" => u.con[c].aob.k # "fin")
        BY <1>11, <1>12, <3>2 DEF Plain, ServerType
      <4>2. u.abort = "none" /\ FilesBut(u.fds, u.con[c], c, Hole(u.con[c]))
        BY <2>1, <4>1 DEF SendOK, Good
      <4>3. Hole(u.con[c]) = -1
        BY <4>1, <4>2 DEF Hole
      <4>4. QED
        BY <1>12, <4>1, <4>2, <4>3
    <3>3. QED
      BY <3>1, <3>2 DEF RestOK
  <2>2. CASE u = w
    BY <1>11, <1>12, <2>2 DEF RestOK, Plain, ServerType
  <2>3. QED
    BY <1>11, <2>1, <2>2
<1>15. QED
  BY <1>9, <1>13, <1>14 DEF v
-----------------------------------------------------------------------------
(* Responses.                                                              *)

\* open() gives the lowest number that is free.
LEMMA OpenType ==
  ASSUME NEW w \in ServerType, NEW o \in Things, FreeFds(w) # {}
  PROVE  LET v == Open(w, o)
             f == Min(FreeFds(w))
         IN  /\ f \in Fds /\ f > 0 /\ w.fds[f] = Free /\ v \in ServerType
             /\ v.fds[f] = o /\ (\A g \in Fds : g # f => v.fds[g] = w.fds[g])
             /\ v.con = w.con /\ v.reg = w.reg /\ v.visit = w.visit /\ v.hds = w.hds /\ v.batch = w.batch
             /\ v.dels = w.dels /\ v.late = w.late /\ v.odd = w.odd /\ v.abort = w.abort
<1> DEFINE f == Min(FreeFds(w))
           a == [w.fds EXCEPT ![f] = o]
           v == [w EXCEPT !.fds = a]
<1>1. FreeFds(w) \subseteq Nat
  BY ServerAssumption DEF FreeFds
<1>2. f \in FreeFds(w)
  BY <1>1, MinIn
<1>3. f \in Fds /\ w.fds[f] = Free
  BY <1>2 DEF FreeFds
<1> HIDE DEF f
<1>4. f > 0
  BY <1>3, ServerAssumption
<1>5. a \in [Fds -> Things] /\ a[f] = o /\ \A g \in Fds : g # f => a[g] = w.fds[g]
  BY <1>3 DEF ServerType
<1> HIDE DEF a
<1>6. v \in ServerType /\ v.fds = a
      /\ v.con = w.con /\ v.reg = w.reg /\ v.visit = w.visit /\ v.hds = w.hds /\ v.batch = w.batch
      /\ v.dels = w.dels /\ v.late = w.late /\ v.odd = w.odd /\ v.abort = w.abort
  BY <1>5 DEF ServerType
<1>7. Open(w, o) = v
  BY DEF Open, f, a
<1> HIDE DEF v
<1>8. QED
  BY <1>3, <1>4, <1>5, <1>6, <1>7 DEF f

LEMMA OpenWithin ==
  ASSUME NEW w \in ServerType, NEW c \in Peers, NEW s \in Ids0, FreeFds(w) # {}
  PROVE  LET v == Open(w, File(c, s))
             f == Min(FreeFds(w))
         IN  /\ Within(w, v, c) /\ v \in ServerType /\ v.con = w.con /\ v.abort = w.abort /\ v.odd = w.odd
             /\ v.late = w.late
             /\ f \in Fds /\ f > 0 /\ w.fds[f] = Free /\ v.fds[f] = File(c, s)
             /\ \A g \in Fds : g # f => v.fds[g] = w.fds[g]
<1> DEFINE v == Open(w, File(c, s))
           f == Min(FreeFds(w))
<1>1. File(c, s) \in Things /\ File(c, s) \in FilesOf(c)
  BY FilesAreThings
<1>2. /\ f \in Fds /\ f > 0 /\ w.fds[f] = Free /\ v \in ServerType
      /\ v.fds[f] = File(c, s) /\ (\A g \in Fds : g # f => v.fds[g] = w.fds[g])
      /\ v.con = w.con /\ v.reg = w.reg /\ v.visit = w.visit /\ v.hds = w.hds /\ v.batch = w.batch
      /\ v.dels = w.dels /\ v.late = w.late /\ v.odd = w.odd /\ v.abort = w.abort
  BY <1>1, OpenType
<1> HIDE DEF v, f
<1>3. Only(w, v, c)
  BY <1>1, <1>2 DEF Only
<1>4. Within(w, v, c)
  BY <1>2, <1>3 DEF Within, Kept, Quiet
<1>5. QED
  BY <1>2, <1>4 DEF v, f

\* A request is complete, and nothing is sent on it yet.
Asked(x) ==
  /\ x.str[0].st = "opening" /\ x.str[0].rfin /\ ~x.str[0].begun /\ Idle(x)
  /\ x.sent = "fin" /\ x.in.k \notin {"syn", "fin"} /\ \A s \in Pushed : x.str[s].st = "none"

LEMMA AskedServing ==
  ASSUME NEW x \in PeerType, Asked(x)
  PROVE  Serving(x)
<1>1. Len(x.q) = 0 /\ x.aob = NoFrame
  BY DEF Asked, Idle
<1>2. Announced(x)
  BY <1>1 DEF Asked, Announced, NoSyn
<1>3. Shut(x)
  BY ZeroId DEF Asked, Shut
<1>4. Framed(x)
  BY <1>1 DEF Framed, FrameOK, NoFrame
<1>5. QED
  BY <1>2, <1>3, <1>4 DEF Asked, Serving, Fresh

\* A request gets its file, of m parts.
Filled(x, f, m) == [x EXCEPT !.req = f, !.str[0].src = f, !.str[0].left = m]

LEMMA FilledType ==
  ASSUME NEW x \in PeerType, NEW f \in Fds, NEW m \in Nat
  PROVE  LET y == Filled(x, f, m)
         IN  /\ y \in PeerType /\ Kept(x, y) /\ SameInput(x, y) /\ y.q = x.q /\ y.aob = x.aob /\ y.req = f
             /\ y.str[0].src = f /\ y.str[0].st = x.str[0].st /\ y.str[0].rfin = x.str[0].rfin
             /\ y.str[0].begun = x.str[0].begun /\ \A s \in Ids0 : s # 0 => y.str[s] = x.str[s]
<1> DEFINE a == [x EXCEPT !.req = f]
           z == [x.str[0] EXCEPT !.src = f]
           b == [a EXCEPT !.str[0] = z]
           d == [z EXCEPT !.left = m]
           e == [b EXCEPT !.str[0] = d]
           y == Filled(x, f, m)
<1>1. a \in PeerType /\ Kept(x, a) /\ SameInput(x, a) /\ a.q = x.q /\ a.aob = x.aob /\ a.req = f /\ a.str = x.str
  BY DEF PeerType, Kept, SameInput
<1>2. x.str[0] \in StreamType
  BY ZeroId, PeerParts
<1>3. z \in StreamType /\ d \in StreamType /\ d.src = f /\ d.st = x.str[0].st /\ d.rfin = x.str[0].rfin
      /\ d.begun = x.str[0].begun
  BY <1>2 DEF StreamType
<1> HIDE DEF a, z, d
<1>4. b \in PeerType /\ b.str[0] = z /\ (\A s \in Ids0 : s # 0 => b.str[s] = a.str[s])
      /\ b.st = a.st /\ b.fd = a.fd /\ b.fail = a.fail /\ b.in = a.in /\ b.eof = a.eof
      /\ b.sent = a.sent /\ b.ask = a.ask /\ b.req = a.req /\ b.q = a.q /\ b.aob = a.aob
  BY <1>1, <1>3, ZeroId, StreamSet
<1>5. [a EXCEPT !.str[0].src = f] = b
  BY <1>1 DEF z
<1>6. y = [[a EXCEPT !.str[0].src = f] EXCEPT !.str[0].left = m]
  BY DEF Filled, a
<1> HIDE DEF b
<1>7. e \in PeerType /\ e.str[0] = d /\ (\A s \in Ids0 : s # 0 => e.str[s] = b.str[s])
      /\ e.st = b.st /\ e.fd = b.fd /\ e.fail = b.fail /\ e.in = b.in /\ e.eof = b.eof
      /\ e.sent = b.sent /\ e.ask = b.ask /\ e.req = b.req /\ e.q = b.q /\ e.aob = b.aob
  BY <1>3, <1>4, ZeroId, StreamSet
<1>8. [b EXCEPT !.str[0].left = m] = e
  BY <1>4 DEF d
<1> HIDE DEF e, y
<1>9. y = e
  BY <1>5, <1>6, <1>8
<1>10. QED
  BY <1>1, <1>3, <1>4, <1>7, <1>9 DEF Kept, SameInput, y

Fill(u, c, f, m) == [u EXCEPT !.con[c].req = f, !.con[c].str[0].src = f, !.con[c].str[0].left = m]

LEMMA FilledPut ==
  ASSUME NEW u \in ServerType, NEW c \in Peers, NEW f, NEW m
  PROVE  Fill(u, c, f, m) = Put(u, c, Filled(u.con[c], f, m))
<1> DEFINE x == u.con[c]
           y1 == [x EXCEPT !.req = f]
           y2 == [y1 EXCEPT !.str[0].src = f]
           y3 == [y2 EXCEPT !.str[0].left = m]
           u1 == [u EXCEPT !.con[c].req = f]
           u2 == [u1 EXCEPT !.con[c].str[0].src = f]
           u3 == [u2 EXCEPT !.con[c].str[0].left = m]
<1>1. y3 = Filled(x, f, m)
  BY DEF Filled
<1>2. u1 = Put(u, c, y1)
  BY DEF Put
<1> HIDE DEF y1, u1
<1>3. u1.con[c] = y1
  BY <1>2, PutPut
<1>4. u2 = Put(u1, c, [u1.con[c] EXCEPT !.str[0].src = f])
  BY DEF Put
<1>5. u2 = Put(Put(u, c, y1), c, y2)
  BY <1>2, <1>3, <1>4
<1> HIDE DEF y2
<1>6. u2 = Put(u, c, y2) /\ u2.con[c] = y2
  <2> HIDE DEF u2
  <2>1. QED
    BY <1>5, PutPut
<1> HIDE DEF u2
<1>7. u3 = Put(u2, c, [u2.con[c] EXCEPT !.str[0].left = m])
  BY DEF Put
<1>8. u3 = Put(Put(u, c, y2), c, y3)
  BY <1>6, <1>7
<1> HIDE DEF y3
<1>9. u3 = Put(u, c, y3)
  <2> HIDE DEF u3
  <2>1. QED
    BY <1>8, PutPut
<1>10. QED
  BY <1>1, <1>9 DEF u3, u2, u1, Fill

\* The page of c is opened as the file of its request.
LEMMA PageOpened ==
  ASSUME NEW w \in ServerType, NEW c \in Peers, Good(w, c, -1), Asked(w.con[c]), w.con[c].str[0].src = 0,
         FreeFds(w) # {}, NEW m \in Nat
  PROVE  LET f == Min(FreeFds(w))
             v == Fill(Open(w, File(c, 0)), c, f, m)
         IN  Within(w, v, c) /\ v \in ServerType /\ Good(v, c, -1) /\ Asked(v.con[c])
<1> DEFINE x == w.con[c]
           f == Min(FreeFds(w))
           u == Open(w, File(c, 0))
           y == Filled(x, f, m)
           v == Fill(u, c, f, m)
<1>1. x \in PeerType
  BY TypeParts, ZeroId
<1>2. /\ Within(w, u, c) /\ u \in ServerType /\ u.con = w.con /\ u.abort = w.abort /\ u.odd = w.odd
      /\ u.late = w.late
      /\ f \in Fds /\ f > 0 /\ w.fds[f] = Free /\ u.fds[f] = File(c, 0)
      /\ \A g \in Fds : g # f => u.fds[g] = w.fds[g]
  BY ZeroId, OpenWithin
<1> HIDE DEF f, u
<1>3. v = Put(u, c, y)
  <2>1. v = Put(u, c, Filled(u.con[c], f, m))
    BY <1>2, FilledPut
  <2> HIDE DEF v
  <2>2. QED
    BY <1>2, <2>1
<1>4. /\ y \in PeerType /\ Kept(x, y) /\ SameInput(x, y) /\ y.q = x.q /\ y.aob = x.aob /\ y.req = f
      /\ y.str[0].src = f /\ y.str[0].st = x.str[0].st /\ y.str[0].rfin = x.str[0].rfin
      /\ y.str[0].begun = x.str[0].begun /\ \A s \in Ids0 : s # 0 => y.str[s] = x.str[s]
  <2> HIDE DEF x
  <2>1. QED
    BY <1>1, <1>2, FilledType
<1>5. Asked(x)
  OBVIOUS
<1> HIDE DEF y, v
<1>6. Asked(y)
  <2>1. \A s \in Pushed : s \in Ids0 /\ s # 0
    BY ZeroId DEF Pushed
  <2> HIDE DEF x
  <2>2. QED
    BY <1>4, <1>5, <2>1 DEF Asked, Idle, SameInput
<1>7. Serving(y)
  BY <1>4, <1>6, AskedServing
<1>8. /\ Within(u, v, c) /\ v \in ServerType /\ v.con[c] = y /\ v.fds = u.fds
      /\ v.abort = u.abort /\ v.odd = u.odd /\ v.late = u.late
  <2>1. Kept(u.con[c], y)
    BY <1>2, <1>4
  <2>2. QED
    BY <1>2, <1>3, <1>4, <2>1, ConWithin
<1>9. Within(w, v, c)
  BY <1>2, <1>8, WithinTrans
<1>10. ASSUME Plain(v) PROVE v.abort = "none" /\ FilesBut(v.fds, y, c, -1)
  <2>1. w.abort = "none" /\ FilesBut(w.fds, x, c, -1)
    BY <1>2, <1>8, <1>10 DEF Good, Plain
  <2>2. x.req = 0
    <3>1. x.str[0].st \in Live
      BY <1>5 DEF Asked, Live
    <3>2. QED
      BY <2>1, <3>1 DEF FilesBut
  <2>3. ASSUME NEW g \in Fds, v.fds[g] = File(c, 0) PROVE g = f
    <3>1. g > 0 /\ (w.fds[g] = File(c, 0) => x.req = g)
      BY <2>1, ServerAssumption DEF FilesBut
    <3>2. QED
      BY <1>2, <1>8, <2>2, <2>3, <3>1
  <2>4. ASSUME NEW s \in Ids0, y.str[s].st \in Active PROVE s = 0
    <3>1. s # 0 => y.str[s].st = "none"
      BY <1>6, ZeroId DEF Asked
    <3>2. QED
      BY <2>4, <3>1 DEF Active
  <2>5. f >= 0 /\ y.str[0].st \in Live
    <3>1. f \in Nat
      BY <1>2, ServerAssumption
    <3>2. QED
      BY <1>6, <3>1 DEF Asked, Live
  <2>6. FilesBut(v.fds, y, c, -1)
    BY <1>2, <1>4, <1>8, <2>3, <2>4, <2>5 DEF FilesBut
  <2>7. QED
    BY <1>2, <1>8, <2>1, <2>6
<1>11. Good(v, c, -1)
  BY <1>7, <1>8, <1>10 DEF Good
<1>12. QED
  BY <1>6, <1>8, <1>9, <1>11 DEF v, u, f

\* A response was prepared.
Answered(w, v, c) ==
  /\ Within(w, v, c) /\ v \in ServerType /\ Good(v, c, -1) /\ v.con[c].aob = NoFrame

\* submit_response and submit_file_response
LEMMA SubmitGood ==
  ASSUME NEW w \in ServerType, NEW c \in Peers, Good(w, c, -1), w.con[c].aob = NoFrame
  PROVE  LET v == SubmitResponse(w, c)
         IN  Answered(w, v, c) /\ v.con[c].str = w.con[c].str
<1> DEFINE v == SubmitResponse(w, c)
<1>1. FrameOK(w.con[c], [k |-> "reply", s |-> 0])
  BY DEF FrameOK
<1>2. v = Enqueue(w, c, "reply", 0)
  BY DEF SubmitResponse
<1> HIDE DEF v
<1>3. Within(w, v, c) /\ Good(v, c, -1) /\ v.con[c].aob = w.con[c].aob /\ v.con[c].str = w.con[c].str
  BY <1>1, <1>2, ZeroId, EnqueueGood
<1>4. QED
  BY <1>3 DEF Answered, Within, v

LEMMA StatusResponseGood ==
  ASSUME NEW w \in ServerType, NEW c \in Peers, Good(w, c, -1), Asked(w.con[c]), w.con[c].str[0].src = 0
  PROVE  Answered(w, StatusResponse(w, c), c)
<1> DEFINE f == Min(FreeFds(w))
           u == Fill(Open(w, File(c, 0)), c, f, 1)
           a == IF Cardinality(FreeFds(w)) < 2 THEN w ELSE u
           v == StatusResponse(w, c)
<1>1. v = SubmitResponse(a, c)
  BY DEF StatusResponse, Fill
<1>2. Within(w, a, c) /\ a \in ServerType /\ Good(a, c, -1) /\ Asked(a.con[c])
  <2>1. CASE Cardinality(FreeFds(w)) < 2
    BY <2>1, WithinRefl
  <2>2. CASE ~(Cardinality(FreeFds(w)) < 2)
    <3>1. FreeFds(w) # {}
      BY <2>2, FS_EmptySet
    <3>2. Within(w, u, c) /\ u \in ServerType /\ Good(u, c, -1) /\ Asked(u.con[c])
      BY <3>1, PageOpened
    <3>3. a = u
      BY <2>2
    <3> HIDE DEF a, u
    <3>4. QED
      BY <3>2, <3>3
  <2>3. QED
    BY <2>1, <2>2
<1> HIDE DEF a
<1>3. a.con[c].aob = NoFrame
  BY <1>2 DEF Asked, Idle
<1>4. Answered(a, v, c)
  BY <1>1, <1>2, <1>3, SubmitGood
<1> HIDE DEF v
<1>5. QED
  BY <1>2, <1>4, WithinTrans DEF Answered, v

\* A push is queued: its SYN_STREAM goes to the end of the queue.
LEMMA PushQueued ==
  ASSUME NEW x \in PeerType, NEW y \in PeerType, Serving(x), SameInput(x, y), y.aob = x.aob, x.aob = NoFrame,
         ~x.str[0].begun, NEW s \in Pushed, x.str[s].st = "none", y.q = Append(x.q, Syn(s)),
         y.str[s].st = "queued", y.str[s].rfin, y.str[s].src > 0, \A t \in Ids0 : t # s => y.str[t] = x.str[t]
  PROVE  Serving(y)
<1> DEFINE n == Len(x.q)
<1>1. x.q \in Seq(QueuedType) /\ n \in Nat /\ s \in Ids0 /\ s # 0 /\ Syn(s) \in QueuedType
      /\ Syn(s).k = "syn" /\ Syn(s).s = s /\ NoFrame.k = "none"
  <2>1. s \in Ids0 /\ s # 0
    BY ZeroId DEF Pushed
  <2>2. QED
    BY <2>1, PeerParts DEF QueuedType, Syn, NoFrame
<1>2. Len(y.q) = n + 1 /\ y.q[n + 1] = Syn(s) /\ \A i \in 1..n : y.q[i] = x.q[i]
  BY <1>1
<1> HIDE DEF n
<1>3. y.str[0] = x.str[0]
  BY <1>1, ZeroId
<1>4. ~Fresh(y) /\ y.sent = "fin" /\ y.in.k \notin {"syn", "fin"}
  BY <1>3 DEF Serving, Fresh, SameInput
<1>5. Shut(y)
  BY DEF Serving, Shut
<1>6. \A i \in 1..n : x.q[i] \in QueuedType /\ x.q[i].s \in Ids0
  BY PeerParts, QueuedParts DEF n
<1>7. \A i \in 1..n : x.q[i].k = "syn" => x.q[i].s # s /\ x.q[i] # Syn(s)
  BY <1>1 DEF Serving, Announced, n
<1>8. \A i \in 1..(n + 1) : i = n + 1 \/ i \in 1..n
  BY <1>1
<1>9. Announced(y)
  <2>1. ASSUME NEW t \in Pushed, y.str[t].st = "queued" PROVE \E i \in 1..Len(y.q) : y.q[i] = Syn(t)
    <3>1. CASE t = s
      <4>1. n + 1 \in 1..Len(y.q)
        BY <1>1, <1>2
      <4>2. QED
        BY <1>2, <3>1, <4>1
    <3>2. CASE t # s
      <4>1. x.str[t].st = "queued"
        BY <2>1, <3>2, ZeroId
      <4>2. PICK i \in 1..n : x.q[i] = Syn(t)
        BY <4>1 DEF Serving, Announced, n
      <4>3. i \in 1..Len(y.q)
        BY <1>1, <1>2
      <4>4. QED
        BY <1>2, <4>2, <4>3
    <3>3. QED
      BY <3>1, <3>2
  <2>2. ASSUME NEW i \in 1..(n + 1), y.q[i].k = "syn"
        PROVE  y.str[y.q[i].s].st = "queued" /\ \A j \in 1..(n + 1) : y.q[j] = y.q[i] => i = j
    <3>1. CASE i = n + 1
      <4>1. y.q[i] = Syn(s)
        BY <1>2, <3>1
      <4>2. ASSUME NEW j \in 1..n, y.q[j] = Syn(s) PROVE FALSE
        BY <1>1, <1>2, <1>7, <4>2
      <4>3. QED
        BY <1>1, <1>8, <3>1, <4>1, <4>2
    <3>2. CASE i \in 1..n
      <4>1. y.q[i] = x.q[i] /\ x.q[i].k = "syn" /\ x.q[i].s # s /\ x.q[i] # Syn(s)
        BY <1>2, <1>7, <2>2, <3>2
      <4>2. x.str[x.q[i].s].st = "queued" /\ \A j \in 1..n : x.q[j] = x.q[i] => i = j
        BY <3>2, <4>1 DEF Serving, Announced, n
      <4>3. y.str[y.q[i].s].st = "queued"
        BY <1>6, <3>2, <4>1, <4>2
      <4>4. \A j \in 1..(n + 1) : y.q[j] = y.q[i] => i = j
        BY <1>2, <1>8, <4>1, <4>2
      <4>5. QED
        BY <4>3, <4>4
    <3>3. QED
      BY <1>8, <3>1, <3>2
  <2>3. ~(y.str[0].begun \/ y.aob.k \in {"data", "fin"})
    BY <1>1, <1>3
  <2>4. QED
    BY <1>2, <2>1, <2>2, <2>3 DEF Announced
<1>10. ASSUME NEW i, i.s \in Ids0, FrameOK(x, i) PROVE FrameOK(y, i)
  <2>1. CASE i.s = s
    BY <1>10, <2>1 DEF FrameOK
  <2>2. CASE i.s # s
    BY <1>10, <2>2 DEF FrameOK
  <2>3. QED
    BY <2>1, <2>2
<1>11. Framed(y)
  <2>1. FrameOK(y, y.aob)
    BY <1>1 DEF FrameOK
  <2>2. FrameOK(y, Syn(s))
    BY <1>1 DEF FrameOK
  <2>3. \A i \in 1..n : FrameOK(y, x.q[i])
    BY <1>6, <1>10 DEF Serving, Framed, n
  <2>4. QED
    BY <1>2, <1>8, <2>1, <2>2, <2>3 DEF Framed
<1>12. QED
  BY <1>4, <1>5, <1>9, <1>11 DEF Serving

\* w with x for the connection c and z for its stream s.
StrPut(w, c, x, s, z) == Put(w, c, [x EXCEPT !.str[s] = z])

\* PushFile opens the file, and then it changes the stream and the queue.
Waiting(y, f) == [y EXCEPT !.st = "queued", !.rfin = TRUE, !.src = f, !.left = MaxParts]

LEMMA PushFileIs ==
  ASSUME NEW w \in ServerType, NEW c \in Peers, NEW s \in Ids0, FreeFds(w) # {}
  PROVE  LET x == w.con[c]
             f == Min(FreeFds(w))
         IN  PushFile(w, c, s) = Enqueue(StrPut(Open(w, File(c, s)), c, x, s, Waiting(x.str[s], f)), c, "syn", s)
<1> DEFINE x == w.con[c]
           f == Min(FreeFds(w))
           u == Open(w, File(c, s))
           z == Waiting(x.str[s], f)
           v == [u EXCEPT !.con[c].str[s] = z]
<1>1. u.con = w.con
  BY OpenWithin
<1>2. PushFile(w, c, s) = Enqueue([u EXCEPT !.con[c].str[s] = Waiting(@, f)], c, "syn", s)
  BY DEF PushFile, Waiting
<1> HIDE DEF f, u
<1>3. [u EXCEPT !.con[c].str[s] = Waiting(@, f)] = v
  BY <1>1
<1> HIDE DEF z
<1>4. v = StrPut(u, c, x, s, z)
  BY <1>1 DEF StrPut, Put
<1> HIDE DEF v
<1>5. QED
  BY <1>2, <1>3, <1>4 DEF z, f, u

LEMMA WaitingType ==
  ASSUME NEW y \in StreamType, NEW f \in Fds
  PROVE  LET z == Waiting(y, f)
         IN  z \in StreamType /\ z.st = "queued" /\ z.rfin /\ z.src = f
  BY ServerAssumption DEF Waiting, StreamType

\* The loop over the files of a page: the pushes from s on are still to come.
Pushing(w, c, s) ==
  /\ w \in ServerType /\ Good(w, c, -1) /\ w.con[c].aob = NoFrame /\ ~w.con[c].str[0].begun
  /\ \A t \in Pushed : t >= s => w.con[c].str[t].st = "none"

LEMMA PushFileGood ==
  ASSUME NEW w, NEW c \in Peers, NEW s \in Pushed, FreeFds(w) # {}, Pushing(w, c, s)
  PROVE  LET v == PushFile(w, c, s) IN Within(w, v, c) /\ Pushing(v, c, s + 1)
<1> DEFINE x == w.con[c]
           f == Min(FreeFds(w))
           u == Open(w, File(c, s))
           z == Waiting(x.str[s], f)
           x1 == [x EXCEPT !.str[s] = z]
           a == Put(u, c, x1)
           y == SetQueue(x1, Append(x1.q, Syn(s)))
           v == PushFile(w, c, s)
<1>1. w \in ServerType /\ s \in Ids0 /\ s # 0 /\ x \in PeerType /\ x.str[s] \in StreamType
  <2>1. w \in ServerType /\ s \in Ids0 /\ s # 0
    BY ZeroId DEF Pushing, Pushed
  <2>2. QED
    BY <2>1, TypeParts
<1>2. /\ Within(w, u, c) /\ u \in ServerType /\ u.con = w.con /\ u.abort = w.abort /\ u.odd = w.odd
      /\ u.late = w.late
      /\ f \in Fds /\ f > 0 /\ w.fds[f] = Free /\ u.fds[f] = File(c, s)
      /\ \A g \in Fds : g # f => u.fds[g] = w.fds[g]
  BY <1>1, OpenWithin
<1>3. v = Enqueue(a, c, "syn", s)
  BY <1>1, PushFileIs DEF StrPut
<1>4. x.str[s].st = "none"
  BY DEF Pushing, Pushed
<1>5. ~x.str[0].begun /\ x.aob = NoFrame /\ Serving(x)
  BY DEF Pushing, Good
<1> HIDE DEF f, u
<1>6. z \in StreamType /\ z.st = "queued" /\ z.rfin /\ z.src = f
  BY <1>1, <1>2, WaitingType
<1> HIDE DEF z
<1>7. /\ x1 \in PeerType /\ x1.str[s] = z /\ (\A t \in Ids0 : t # s => x1.str[t] = x.str[t])
      /\ Kept(x, x1) /\ SameInput(x, x1) /\ x1.req = x.req /\ x1.q = x.q /\ x1.aob = x.aob
  <2> HIDE DEF x
  <2>1. QED
    BY <1>1, <1>6, StreamSet DEF Kept, SameInput
<1> HIDE DEF x1
<1>8. v = Put(u, c, y)
  <2>1. a.con[c] = x1
    BY <1>2, PutPut
  <2>2. Enqueue(a, c, "syn", s) = Put(a, c, SetQueue(a.con[c], Append(a.con[c].q, Syn(s))))
    BY DEF Enqueue, Put, SetQueue, Syn
  <2>3. v = Put(Put(u, c, x1), c, y)
    BY <1>3, <2>1, <2>2
  <2> HIDE DEF v, y
  <2>4. QED
    BY <1>2, <2>3, PutPut
<1>9. x1.q \in Seq(QueuedType) /\ Syn(s) \in QueuedType
  BY <1>1, <1>7, PeerParts DEF QueuedType, Syn
<1>10. Append(x1.q, Syn(s)) \in Seq(QueuedType)
  BY <1>9
<1>11. /\ y \in PeerType /\ y.str = x1.str /\ Kept(x1, y) /\ SameInput(x1, y) /\ y.req = x1.req
       /\ y.q = Append(x1.q, Syn(s)) /\ y.aob = x1.aob
  BY <1>7, <1>10 DEF PeerType, SetQueue, Kept, SameInput
<1> HIDE DEF y, v, a
<1>12. /\ y \in PeerType /\ y.str[s] = z /\ (\A t \in Ids0 : t # s => y.str[t] = x.str[t])
       /\ Kept(x, y) /\ SameInput(x, y) /\ y.req = x.req /\ y.q = Append(x.q, Syn(s)) /\ y.aob = x.aob
  <2> HIDE DEF x
  <2>1. QED
    BY <1>7, <1>11 DEF Kept, SameInput
<1>13. Serving(y)
  <2> HIDE DEF x
  <2>1. QED
    BY <1>1, <1>2, <1>4, <1>5, <1>6, <1>12, PushQueued
<1>14. /\ Within(u, v, c) /\ v \in ServerType /\ v.con[c] = y /\ v.fds = u.fds
       /\ v.abort = u.abort /\ v.odd = u.odd /\ v.late = u.late
  <2>1. Kept(u.con[c], y)
    BY <1>2, <1>12
  <2>2. QED
    BY <1>2, <1>8, <1>12, <2>1, ConWithin
<1>15. Within(w, v, c)
  BY <1>2, <1>14, WithinTrans
<1>16. y.str[0] = x.str[0]
  BY <1>1, <1>12, ZeroId
<1>17. ASSUME Plain(v) PROVE v.abort = "none" /\ FilesBut(v.fds, y, c, -1)
  <2>1. w.abort = "none" /\ FilesBut(w.fds, x, c, -1)
    BY <1>2, <1>14, <1>17 DEF Pushing, Good, Plain
  <2>2. ASSUME NEW g \in Fds, v.fds[g] = File(c, 0) PROVE y.req = g
    <3>1. g # f
      BY <1>1, <1>2, <1>14, <2>2, ThingsDiffer
    <3>2. QED
      BY <1>2, <1>12, <1>14, <2>1, <2>2, <3>1 DEF FilesBut
  <2>3. ASSUME NEW t \in Ids0, y.str[t].st \in Active, y.str[t].src > 0
        PROVE  v.fds[y.str[t].src] = File(c, t)
    <3>1. CASE t = s
      BY <1>2, <1>6, <1>12, <1>14, <3>1
    <3>2. CASE t # s
      <4>1. y.str[t] = x.str[t]
        BY <1>12, <3>2
      <4>2. w.fds[x.str[t].src] = File(c, t)
        <5>1. t # -1
          BY DEF Ids0
        <5>2. QED
          BY <2>1, <2>3, <4>1, <5>1 DEF FilesBut
      <4>3. x.str[t].src \in Fds
        BY <1>1, <2>3, <4>1, TypeParts
      <4>4. x.str[t].src # f
        BY <1>2, <4>2, ThingsDiffer
      <4>5. QED
        BY <1>2, <1>14, <4>1, <4>2, <4>3, <4>4
    <3>3. QED
      BY <3>1, <3>2
  <2>4. FilesBut(v.fds, y, c, -1)
    <3>1. ((y.req >= 0) <=> (y.str[0].st \in Live)) /\ (y.str[0].st \in Live => y.req = y.str[0].src)
      BY <1>12, <1>16, <2>1 DEF FilesBut
    <3>2. QED
      BY <2>2, <2>3, <3>1 DEF FilesBut
  <2>5. QED
    BY <1>2, <1>14, <2>1, <2>4
<1>18. ASSUME NEW t \in Pushed, t >= s + 1 PROVE y.str[t].st = "none"
  <2>1. t \in Ids0 /\ t # s /\ t >= s
    BY <1>18, ZeroId DEF Pushed
  <2>2. QED
    BY <1>12, <2>1 DEF Pushing
<1>19. Pushing(v, c, s + 1)
  BY <1>5, <1>12, <1>13, <1>14, <1>16, <1>17, <1>18 DEF Pushing, Good
<1>20. QED
  BY <1>15, <1>19 DEF v

PushStep(w, c, env, s) == IF FreeFds(w) = {} \/ s > env.good THEN w ELSE PushFile(w, c, s)

LEMMA PushStepGood ==
  ASSUME NEW w, NEW c \in Peers, NEW env, NEW s \in Pushed, Pushing(w, c, s)
  PROVE  LET v == PushStep(w, c, env, s) IN Within(w, v, c) /\ Pushing(v, c, s + 1)
<1>1. CASE FreeFds(w) = {} \/ s > env.good
  <2>1. PushStep(w, c, env, s) = w
    BY <1>1 DEF PushStep
  <2>2. \A t \in Pushed : t >= s + 1 => t >= s
    BY DEF Pushed
  <2>3. Pushing(w, c, s + 1) /\ Within(w, w, c)
    BY <2>2, WithinRefl DEF Pushing
  <2>4. QED
    BY <2>1, <2>3
<1>2. CASE ~(FreeFds(w) = {} \/ s > env.good)
  <2>1. PushStep(w, c, env, s) = PushFile(w, c, s)
    BY <1>2 DEF PushStep
  <2>2. QED
    BY <1>2, <2>1, PushFileGood
<1>3. QED
  BY <1>1, <1>2

PushRun(w, c, env, n, f) ==
  f = [s \in 0..n |-> IF s = 0 THEN w
                      ELSE IF FreeFds(f[s - 1]) = {} \/ s > env.good THEN f[s - 1]
                      ELSE PushFile(f[s - 1], c, s)]

\* The files that were pushed when the loop ends.
LEMMA PushLoop ==
  ASSUME NEW w, NEW c \in Peers, NEW env, NEW n \in 0..MaxPush, Pushing(w, c, 1), NEW f,
         PushRun(w, c, env, n, f)
  PROVE  Within(w, f[n], c) /\ Pushing(f[n], c, n + 1)
<1> DEFINE T == {i \in 0..n : Within(w, f[i], c) /\ Pushing(f[i], c, i + 1)}
<1>1. n \in Nat /\ 0 \in 0..n
  BY ServerAssumption
<1>2. f[0] = w /\ \A i \in 0..n : i # 0 => f[i] = PushStep(f[i - 1], c, env, i)
  BY <1>1 DEF PushRun, PushStep
<1>3. 0 \in T
  <2>1. Within(w, w, c)
    BY WithinRefl DEF Pushing
  <2>2. QED
    BY <1>1, <1>2, <2>1
<1>4. ASSUME NEW i \in 0..(n - 1), i \in T PROVE i + 1 \in T
  <2>1. i + 1 \in 0..n /\ i + 1 # 0 /\ (i + 1) - 1 = i /\ i + 1 \in Pushed
    BY <1>1, ServerAssumption DEF Pushed
  <2>2. f[i + 1] = PushStep(f[i], c, env, i + 1)
    BY <1>2, <2>1
  <2>3. Within(w, f[i], c) /\ Pushing(f[i], c, i + 1)
    BY <1>4
  <2>4. Within(f[i], f[i + 1], c) /\ Pushing(f[i + 1], c, (i + 1) + 1)
    BY <2>1, <2>2, <2>3, PushStepGood
  <2>5. Within(w, f[i + 1], c)
    BY <2>3, <2>4, WithinTrans
  <2>6. QED
    BY <2>1, <2>4, <2>5
<1>5. \A i \in 0..n : i \in T
  <2> HIDE DEF T
  <2>1. QED
    BY <1>1, <1>3, <1>4, UpTo
<1>6. QED
  BY <1>1, <1>5

LEMMA PushRunExists ==
  ASSUME NEW w, NEW c \in Peers, NEW env, NEW n \in 0..MaxPush, Pushing(w, c, 1)
  PROVE  \E f : PushRun(w, c, env, n, f)
<1> DEFINE S == ServerType
           Step(v, s) == IF Pushing(v, c, s) THEN PushStep(v, c, env, s) ELSE v
           G == [s \in 1..n |-> [v \in S |-> Step(v, s)]]
<1>1. n \in Nat /\ w \in S /\ 1..n \subseteq Pushed
  BY ServerAssumption DEF Pushing, Pushed
<1>2. \A s \in 1..n, v \in S : Step(v, s) \in S /\ (Pushing(v, c, s) => Pushing(Step(v, s), c, s + 1))
  <2> TAKE s \in 1..n, v \in S
  <2>1. CASE Pushing(v, c, s)
    <3>1. s \in Pushed
      BY <1>1
    <3>2. Pushing(PushStep(v, c, env, s), c, s + 1)
      BY <2>1, <3>1, PushStepGood
    <3>3. QED
      BY <2>1, <3>2 DEF Pushing
  <2>2. CASE ~Pushing(v, c, s)
    BY <2>2
  <2>3. QED
    BY <2>1, <2>2
<1>3. \A s \in 1..n, v \in S : Pushing(v, c, s) => Step(v, s) = PushStep(v, c, env, s)
  OBVIOUS
<1> HIDE DEF S, Step
<1>4. G \in [1..n -> [S -> S]] /\ \A s \in 1..n : \A v \in S : G[s][v] = Step(v, s)
  BY <1>2
<1> HIDE DEF G
<1>5. PICK f : f \in [0..n -> S] /\ Run(n, w, G, f)
  BY <1>1, <1>4, RunExists
<1> DEFINE T == {i \in 0..n : Pushing(f[i], c, i + 1)}
<1>6. f[0] = w /\ \A i \in 1..n : f[i] = Step(f[i - 1], i) /\ f[i - 1] \in S
  <2>1. ASSUME NEW i \in 1..n PROVE f[i] = Step(f[i - 1], i) /\ f[i - 1] \in S
    <3>1. i - 1 \in 0..n
      BY <1>1
    <3>2. QED
      BY <1>4, <1>5, <3>1 DEF Run
  <2>2. QED
    BY <1>5, <2>1 DEF Run
<1>7. 0 \in T
  BY <1>1, <1>6
<1>8. ASSUME NEW i \in 0..(n - 1), i \in T PROVE i + 1 \in T
  <2>1. i + 1 \in 1..n /\ i + 1 \in 0..n /\ (i + 1) - 1 = i
    BY <1>1
  <2>2. f[i + 1] = Step(f[i], i + 1) /\ f[i] \in S
    BY <1>6, <2>1
  <2>3. Pushing(f[i + 1], c, (i + 1) + 1)
    BY <1>2, <1>8, <2>1, <2>2
  <2>4. QED
    BY <2>1, <2>3
<1>9. \A i \in 0..n : i \in T
  <2> HIDE DEF T
  <2>1. QED
    BY <1>1, <1>7, <1>8, UpTo
<1>10. ASSUME NEW i \in 0..n, i # 0 PROVE f[i] = PushStep(f[i - 1], c, env, i)
  <2>1. i \in 1..n /\ i - 1 \in 0..n /\ (i - 1) + 1 = i
    BY <1>1, <1>10
  <2>2. Pushing(f[i - 1], c, i)
    BY <1>9, <2>1
  <2>3. QED
    BY <1>3, <1>6, <2>1, <2>2
<1>11. f = [i \in 0..n |-> IF i = 0 THEN w ELSE PushStep(f[i - 1], c, env, i)]
  BY <1>5, <1>6, <1>10
<1>12. PushRun(w, c, env, n, f)
  BY <1>11 DEF PushRun, PushStep
<1>13. QED
  BY <1>12

\* A fault is met: nothing is claimed about descriptors any more.
Met(w, k) == [w EXCEPT !.odd = @ \cup {k}]

LEMMA MetType ==
  ASSUME NEW w \in ServerType, NEW k \in Faults
  PROVE  LET v == Met(w, k)
         IN  /\ v \in ServerType /\ ~Plain(v) /\ ~Quiet(v) /\ w.odd \subseteq v.odd /\ v.odd # {}
             /\ v.con = w.con /\ v.fds = w.fds /\ v.reg = w.reg /\ v.visit = w.visit /\ v.hds = w.hds
             /\ v.batch = w.batch /\ v.dels = w.dels /\ v.late = w.late /\ v.abort = w.abort
<1> DEFINE odd == w.odd \cup {k}
           v == [w EXCEPT !.odd = odd]
<1>1. odd \in SUBSET Faults /\ odd # {} /\ w.odd \subseteq odd
  BY DEF ServerType
<1> HIDE DEF odd
<1>2. /\ v \in ServerType /\ v.con = w.con /\ v.fds = w.fds /\ v.reg = w.reg /\ v.visit = w.visit
      /\ v.hds = w.hds /\ v.batch = w.batch /\ v.dels = w.dels /\ v.late = w.late /\ v.abort = w.abort
      /\ v.odd = odd
  BY <1>1 DEF ServerType
<1>3. v = Met(w, k)
  BY DEF Met, odd
<1> HIDE DEF v
<1>4. ~Plain(v) /\ ~Quiet(v)
  BY <1>1, <1>2 DEF Plain, Quiet
<1>5. QED
  BY <1>1, <1>2, <1>3, <1>4

LEMMA OddWithin ==
  ASSUME NEW w \in ServerType, NEW c \in Peers, NEW f, NEW o, NEW k \in Faults
  PROVE  LET v == Met(CloseFd(w, f, o), k)
         IN  Within(w, v, c) /\ v \in ServerType /\ v.con = w.con /\ ~Plain(v)
<1> DEFINE t == CloseFd(w, f, o)
           v == Met(t, k)
<1>1. /\ t \in ServerType /\ t.con = w.con /\ t.visit = w.visit /\ t.hds = w.hds /\ t.batch = w.batch
      /\ t.dels = w.dels /\ t.late = w.late /\ t.odd = w.odd /\ t.abort \in {w.abort, "wrong_close"}
  BY CloseFdType
<1> HIDE DEF t
<1>2. /\ v \in ServerType /\ ~Plain(v) /\ ~Quiet(v) /\ t.odd \subseteq v.odd
      /\ v.con = t.con /\ v.visit = t.visit /\ v.hds = t.hds
      /\ v.batch = t.batch /\ v.dels = t.dels /\ v.late = t.late /\ v.abort = t.abort
  BY <1>1, MetType
<1> HIDE DEF v
<1>3. Within(w, v, c)
  BY <1>1, <1>2 DEF Within, Kept
<1>4. QED
  BY <1>1, <1>2, <1>3 DEF v, t

LEMMA PushFilesGood ==
  ASSUME NEW w, NEW c \in Peers, NEW env, env.good \in Nat, Pushing(w, c, 1)
  PROVE  Answered(w, PushFiles(w, c, env), c)
<1> DEFINE n == w.con[c].ask.pushes
           run == CHOOSE f : PushRun(w, c, env, n, f)
           v == run[n]
           s == env.good + 1
           u == Open(v, File(c, s))
           a == Met(CloseFd(u, v.con[c].req, File(c, 0)), "nostat")
           p == PushFiles(w, c, env)
<1>1. n \in 0..MaxPush
  <2>1. w.con[c] \in PeerType
    BY TypeParts, ZeroId DEF Pushing
  <2>2. w.con[c].ask \in WebRequest
    BY <2>1 DEF PeerType
  <2>3. QED
    BY <2>2 DEF WebRequest
<1>2. p = IF n > env.good /\ env.how = "nostat" /\ FreeFds(v) # {} THEN a ELSE v
  BY Zenon DEF PushFiles, PushRun, Met
<1>3. \E f : PushRun(w, c, env, n, f)
  BY <1>1, PushRunExists
<1>4. PushRun(w, c, env, n, run)
  BY <1>3
<1> HIDE DEF n, run, p
<1>5. Within(w, v, c) /\ Pushing(v, c, n + 1)
  BY <1>1, <1>4, PushLoop
<1> HIDE DEF v
<1>6. Answered(w, v, c)
  BY <1>5 DEF Answered, Pushing
<1>7. ASSUME n > env.good, FreeFds(v) # {} PROVE Answered(w, a, c)
  <2>1. s \in Ids0
    BY <1>1, <1>7, ServerAssumption DEF Ids0
  <2> HIDE DEF s
  <2>2. Within(v, u, c) /\ u \in ServerType /\ u.con = v.con
    BY <1>5, <1>7, <2>1, OpenWithin DEF Pushing
  <2> HIDE DEF u
  <2>3. Within(u, a, c) /\ a \in ServerType /\ a.con = u.con /\ ~Plain(a)
    BY <2>2, OddWithin DEF Faults
  <2> HIDE DEF a
  <2>6. Within(w, u, c)
    BY <1>5, <2>2, WithinTrans
  <2>4. Within(w, a, c)
    BY <2>3, <2>6, WithinTrans
  <2>5. QED
    BY <1>5, <2>2, <2>3, <2>4 DEF Answered, Pushing, Good
<1> HIDE DEF a
<1>8. QED
  BY <1>2, <1>6, <1>7 DEF p

LEMMA PrepareResponseGood ==
  ASSUME NEW w \in ServerType, NEW c \in Peers, NEW env, env.good \in Nat,
         Good(w, c, -1), Asked(w.con[c]), w.con[c].str[0].src = 0
  PROVE  Answered(w, PrepareResponse(w, c, env), c)
<1> DEFINE f == Min(FreeFds(w))
           u == Fill(Open(w, File(c, 0)), c, f, MaxParts)
           a == SubmitResponse(u, c)
           kind == w.con[c].ask.kind
           p == PrepareResponse(w, c, env)
<1>1. kind \in {"mute", "status", "file"}
  <2>1. w.con[c] \in PeerType
    BY TypeParts, ZeroId
  <2>2. w.con[c].ask \in WebRequest
    BY <2>1 DEF PeerType
  <2>3. QED
    BY <2>2 DEF WebRequest
<1>2. /\ kind = "mute" => p = w
      /\ kind = "status" => p = StatusResponse(w, c)
      /\ kind = "file" => p = IF ~env.main \/ FreeFds(w) = {} THEN StatusResponse(w, c) ELSE PushFiles(a, c, env)
  BY DEF PrepareResponse, Fill
<1>3. Answered(w, w, c)
  BY WithinRefl DEF Answered, Asked, Idle
<1>4. Answered(w, StatusResponse(w, c), c)
  BY StatusResponseGood
<1>5. ASSUME FreeFds(w) # {} PROVE Answered(w, PushFiles(a, c, env), c)
  <2>1. Within(w, u, c) /\ u \in ServerType /\ Good(u, c, -1) /\ Asked(u.con[c])
    BY <1>5, ServerAssumption, PageOpened
  <2> HIDE DEF u
  <2>2. u.con[c].aob = NoFrame
    BY <2>1 DEF Asked, Idle
  <2>3. Answered(u, a, c) /\ a.con[c].str = u.con[c].str
    BY <2>1, <2>2, SubmitGood
  <2> HIDE DEF a
  <2>4. Pushing(a, c, 1)
    BY <2>1, <2>3 DEF Pushing, Answered, Asked
  <2>5. Answered(a, PushFiles(a, c, env), c)
    BY <2>4, PushFilesGood
  <2>6. Within(w, PushFiles(a, c, env), c)
    BY <2>1, <2>3, <2>5, WithinTrans DEF Answered
  <2>7. QED
    BY <2>5, <2>6 DEF Answered
<1> HIDE DEF a, kind, p
<1>6. QED
  BY <1>1, <1>2, <1>3, <1>4, <1>5 DEF p
-----------------------------------------------------------------------------
(* What the client sends.                                                  *)

NoIn(x) == [x EXCEPT !.in = NoInput]
SynIn(x, fin) == [NoIn(x) EXCEPT !.str[0] = [@ EXCEPT !.st = "opening", !.rfin = fin], !.req = 0]
FinIn(x) == [NoIn(x) EXCEPT !.str[0].rfin = TRUE]
AwayIn(x) == [NoIn(x) EXCEPT !.goaway = TRUE]

SetAway(w, c) == [w EXCEPT !.con[c].goaway = TRUE]
SetSyn(w, c, b) == [w EXCEPT !.con[c].str[0] = [@ EXCEPT !.st = "opening", !.rfin = b], !.con[c].req = 0]
SetFin(w, c) == [w EXCEPT !.con[c].str[0].rfin = TRUE]

LEMMA InputPuts ==
  ASSUME NEW w \in ServerType, NEW c \in Peers, NEW b
  PROVE  LET x == w.con[c]
             u == Put(w, c, NoIn(x))
         IN  /\ [w EXCEPT !.con[c].in = NoInput] = u /\ u.con[c] = NoIn(x)
             /\ SetSyn(u, c, b) = Put(w, c, SynIn(x, b))
             /\ SetFin(u, c) = Put(w, c, FinIn(x))
             /\ SetAway(u, c) = Put(w, c, AwayIn(x))
<1> DEFINE x == w.con[c]
           y == NoIn(x)
           u == Put(w, c, y)
<1>1. [w EXCEPT !.con[c].in = NoInput] = u
  BY DEF Put, NoIn
<1>2. u.con[c] = y /\ \A z : Put(u, c, z) = Put(w, c, z)
  BY PutPut
<1>7. u \in ServerType
  <2>1. x \in PeerType
    BY TypeParts, ZeroId
  <2>2. y \in PeerType
    BY <2>1, ZeroId DEF PeerType, NoIn, NoInput, Input
  <2>3. QED
    BY <2>2, ConSet DEF Put
<1> HIDE DEF u, y
<1>3. SetAway(u, c) = Put(u, c, [u.con[c] EXCEPT !.goaway = TRUE])
  BY DEF Put, SetAway
<1>4. SetFin(u, c) = Put(u, c, [u.con[c] EXCEPT !.str[0].rfin = TRUE])
  BY DEF Put, SetFin
<1>5. SetSyn(u, c, b) = Put(u, c, [u.con[c] EXCEPT !.str[0] = [@ EXCEPT !.st = "opening", !.rfin = b], !.req = 0])
  <2> DEFINE z == [u.con[c].str[0] EXCEPT !.st = "opening", !.rfin = b]
             y1 == [u.con[c] EXCEPT !.str[0] = z]
             y2 == [y1 EXCEPT !.req = 0]
             u1 == [u EXCEPT !.con[c].str[0] = z]
             u2 == [u1 EXCEPT !.con[c].req = 0]
  <2>1. u1 = Put(u, c, y1)
    BY DEF Put
  <2>2. SetSyn(u, c, b) = u2
    BY DEF SetSyn
  <2>3. y2 = [u.con[c] EXCEPT !.str[0] = [@ EXCEPT !.st = "opening", !.rfin = b], !.req = 0]
    OBVIOUS
  <2> HIDE DEF y1, u1
  <2>4. u2 = Put(u1, c, [u1.con[c] EXCEPT !.req = 0])
    BY DEF Put
  <2>5. u1.con[c] = y1
    BY <1>7, <2>1, PutPut
  <2>6. u2 = Put(Put(u, c, y1), c, y2)
    BY <2>1, <2>4, <2>5
  <2> HIDE DEF u2, y2
  <2>7. u2 = Put(u, c, y2)
    BY <1>7, <2>6, PutPut
  <2>8. QED
    BY <2>2, <2>3, <2>7
<1>6. QED
  BY <1>1, <1>2, <1>3, <1>4, <1>5 DEF SynIn, FinIn, AwayIn, u, y

\* y is x with its input read, and maybe with a change of stream 0.
Read(x, y) ==
  /\ y \in PeerType /\ Kept(x, y) /\ y.sent = x.sent /\ y.in = NoInput /\ y.q = x.q /\ y.aob = x.aob
  /\ y.str[0].src = x.str[0].src /\ y.str[0].begun = x.str[0].begun
  /\ \A s \in Ids0 : s # 0 => y.str[s] = x.str[s]

LEMMA NoInType ==
  ASSUME NEW x \in PeerType
  PROVE  /\ Read(x, NoIn(x)) /\ NoIn(x).str = x.str /\ NoIn(x).req = x.req
         /\ Read(x, AwayIn(x)) /\ AwayIn(x).str = x.str /\ AwayIn(x).req = x.req
<1> DEFINE y == NoIn(x)
           z == AwayIn(x)
<1>1. /\ y \in PeerType /\ Kept(x, y) /\ y.sent = x.sent /\ y.in = NoInput /\ y.q = x.q /\ y.aob = x.aob
      /\ y.str = x.str /\ y.req = x.req
  BY ZeroId DEF PeerType, NoIn, NoInput, Input, Kept
<1> HIDE DEF y
<1>2. z = [y EXCEPT !.goaway = TRUE]
  BY DEF AwayIn, y
<1>3. /\ z \in PeerType /\ Kept(y, z) /\ z.sent = y.sent /\ z.in = y.in /\ z.q = y.q /\ z.aob = y.aob
      /\ z.str = y.str /\ z.req = y.req
  <2> HIDE DEF z
  <2>1. QED
    BY <1>1, <1>2 DEF PeerType, Kept
<1> HIDE DEF z
<1>4. Kept(x, z)
  BY <1>1, <1>3 DEF Kept
<1>5. QED
  BY <1>1, <1>3, <1>4 DEF Read, y, z

LEMMA FinInType ==
  ASSUME NEW x \in PeerType
  PROVE  LET y == FinIn(x)
         IN  Read(x, y) /\ y.req = x.req /\ y.str[0].st = x.str[0].st /\ y.str[0].rfin
<1> DEFINE a == NoIn(x)
           z == [a.str[0] EXCEPT !.rfin = TRUE]
           y == [a EXCEPT !.str[0] = z]
<1>1. Read(x, a) /\ a.str = x.str /\ a.req = x.req
  BY NoInType
<1>2. FinIn(x) = y
  BY DEF FinIn
<1> HIDE DEF a
<1>3. a \in PeerType /\ a.str[0] \in StreamType
  BY <1>1, PeerParts, ZeroId DEF Read
<1>4. z \in StreamType /\ z.st = a.str[0].st /\ z.src = a.str[0].src /\ z.begun = a.str[0].begun /\ z.rfin
  BY <1>3 DEF StreamType
<1> HIDE DEF z
<1>5. /\ y \in PeerType /\ y.str[0] = z /\ (\A t \in Ids0 : t # 0 => y.str[t] = a.str[t])
      /\ Kept(a, y) /\ y.in = a.in /\ y.sent = a.sent /\ y.req = a.req /\ y.q = a.q /\ y.aob = a.aob
  BY <1>3, <1>4, ZeroId, StreamSet DEF Kept
<1> HIDE DEF y
<1>6. Kept(x, y)
  BY <1>1, <1>5 DEF Read, Kept
<1>7. Read(x, y)
  BY <1>1, <1>4, <1>5, <1>6 DEF Read
<1>8. QED
  BY <1>1, <1>2, <1>4, <1>5, <1>7

LEMMA SynInType ==
  ASSUME NEW x \in PeerType, NEW b \in BOOLEAN
  PROVE  LET y == SynIn(x, b)
         IN  Read(x, y) /\ y.req = 0 /\ y.str[0].st = "opening" /\ y.str[0].rfin = b
<1> DEFINE a == NoIn(x)
           z == [a.str[0] EXCEPT !.st = "opening", !.rfin = b]
           d == [a EXCEPT !.str[0] = z]
           y == [d EXCEPT !.req = 0]
<1>1. Read(x, a) /\ a.str = x.str /\ a.req = x.req
  BY NoInType
<1>2. SynIn(x, b) = y
  BY DEF SynIn
<1> HIDE DEF a
<1>3. a \in PeerType /\ a.str[0] \in StreamType
  BY <1>1, PeerParts, ZeroId DEF Read
<1>4. z \in StreamType /\ z.st = "opening" /\ z.src = a.str[0].src /\ z.begun = a.str[0].begun /\ z.rfin = b
  BY <1>3 DEF StreamType
<1> HIDE DEF z
<1>5. /\ d \in PeerType /\ d.str[0] = z /\ (\A t \in Ids0 : t # 0 => d.str[t] = a.str[t])
      /\ Kept(a, d) /\ d.in = a.in /\ d.sent = a.sent /\ d.req = a.req /\ d.q = a.q /\ d.aob = a.aob
  BY <1>3, <1>4, ZeroId, StreamSet DEF Kept
<1> HIDE DEF d
<1>6. /\ y \in PeerType /\ y.str = d.str /\ Kept(d, y) /\ y.in = d.in /\ y.sent = d.sent /\ y.req = 0
      /\ y.q = d.q /\ y.aob = d.aob
  BY <1>5 DEF PeerType, Kept
<1> HIDE DEF y
<1>7. Kept(x, y)
  BY <1>1, <1>5, <1>6 DEF Read, Kept
<1>8. Read(x, y)
  BY <1>1, <1>4, <1>5, <1>6, <1>7 DEF Read
<1>9. QED
  BY <1>2, <1>4, <1>5, <1>6, <1>8

\* Input other than a SYN_STREAM leaves the connection as it was.
LEMMA InputDone ==
  ASSUME NEW x \in PeerType, NEW y, ConOK(x), Read(x, y), y.str = x.str, x.in.k # "syn"
  PROVE  ConOK(y)
<1>1. y.in.k = "none"
  BY DEF Read, NoInput, Input
<1>2. Unasked(y) /\ Announced(y) /\ Shut(y) /\ Framed(y)
  BY DEF ConOK, Read, Unasked, Fresh, Announced, Shut, Framed, FrameOK
<1>3. Asking(y)
  BY <1>1 DEF ConOK, Read, Asking
<1>4. QED
  BY <1>2, <1>3 DEF ConOK

\* The request is complete.
LEMMA RequestAsked ==
  ASSUME NEW x \in PeerType, NEW y, ConOK(x), Read(x, y), Fresh(x), x.sent = "fin",
         y.str[0].st = "opening", y.str[0].rfin
  PROVE  Asked(y) /\ Serving(y) /\ y.str[0].src = 0
<1>1. y.in.k = "none" /\ y \in PeerType
  BY DEF Read, NoInput, Input
<1>2. \A s \in Pushed : y.str[s].st = "none"
  BY ZeroId DEF Read, ConOK, Unasked, Pushed
<1>3. Asked(y) /\ y.str[0].src = 0
  BY <1>1, <1>2 DEF Read, ConOK, Unasked, Asked, Idle
<1>4. QED
  BY <1>1, <1>3, AskedServing

\* The request has begun.
LEMMA RequestBegun ==
  ASSUME NEW x \in PeerType, NEW y, ConOK(x), Read(x, y), x.str[0].st = "none", x.in.k = "syn",
         y.str[0].st = "opening", ~y.str[0].rfin
  PROVE  ConOK(y)
<1>1. y.in.k = "none" /\ y \in PeerType /\ Fresh(y) /\ Fresh(x)
  BY DEF Read, NoInput, Input, Fresh
<1>2. \A s \in Pushed : y.str[s].st = "none"
  BY <1>1, ZeroId DEF Read, ConOK, Unasked, Pushed
<1>3. Idle(y) /\ Len(y.q) = 0 /\ ~y.str[0].begun /\ y.str[0].src = 0
  BY <1>1 DEF Read, ConOK, Unasked, Idle
<1>4. Unasked(y)
  BY <1>2, <1>3 DEF Unasked, Idle
<1>5. Asking(y)
  BY <1>1 DEF Read, ConOK, Asking
<1>6. Announced(y)
  BY <1>2, <1>3 DEF Announced, Idle, NoSyn
<1>7. Shut(y)
  BY <1>2, ZeroId DEF Shut
<1>8. Framed(y)
  BY <1>3 DEF Framed, FrameOK, NoFrame, Idle
<1>9. QED
  BY <1>4, <1>5, <1>6, <1>7, <1>8 DEF ConOK

\* A state that differs in the connection c, which is between two frames.
LEMMA PutRest ==
  ASSUME NEW w \in ServerType, NEW c \in Peers, NEW y, Read(w.con[c], y), ConOK(y),
         RestOK(w, c),
         Plain(w) => FilesBut(w.fds, y, c, -1)
  PROVE  LET v == Put(w, c, y)
         IN  Within(w, v, c) /\ RestOK(v, c) /\ v.con[c].in.k \notin {"syn", "fin"}
<1> DEFINE v == Put(w, c, y)
<1>1. /\ Within(w, v, c) /\ v \in ServerType /\ v.con[c] = y /\ v.fds = w.fds
      /\ v.abort = w.abort /\ v.odd = w.odd /\ v.late = w.late
  BY ConWithin DEF Read
<1> HIDE DEF v
<1>2. Plain(v) => v.abort = "none" /\ FilesBut(v.fds, y, c, -1) /\ y.aob.k # "fin"
  BY <1>1 DEF RestOK, Plain, Read
<1>3. y.in.k = "none"
  BY DEF Read, NoInput, Input
<1>4. QED
  BY <1>1, <1>2, <1>3 DEF RestOK, v

\* A response leaves the connection between two frames.
LEMMA AnsweredRest ==
  ASSUME NEW w, NEW u, NEW v, NEW c \in Peers, Within(w, u, c), Answered(u, v, c)
  PROVE  Within(w, v, c) /\ RestOK(v, c) /\ v.con[c].in.k \notin {"syn", "fin"}
<1>1. Within(w, v, c)
  BY WithinTrans DEF Answered
<1>2. v.con[c].aob.k # "fin"
  BY DEF Answered, NoFrame
<1>3. QED
  BY <1>1, <1>2, ServingOK DEF Answered, Good, RestOK, Serving

LEMMA ReceivesSyn ==
  ASSUME NEW w \in ServerType, NEW c \in Peers, RestOK(w, c), w.con[c].in.k = "syn", NEW env, env.good \in Nat
  PROVE  LET b == w.con[c].in.fin
             u == Put(w, c, SynIn(w.con[c], b))
             v == IF b THEN PrepareResponse(u, c, env) ELSE u
         IN  Within(w, v, c) /\ RestOK(v, c) /\ v.con[c].in.k \notin {"syn", "fin"}
<1> DEFINE x == w.con[c]
           b == x.in.fin
           y == SynIn(x, b)
           u == Put(w, c, y)
           v == IF b THEN PrepareResponse(u, c, env) ELSE u
<1>1. x \in PeerType /\ ConOK(x) /\ x.in.k = "syn" /\ b \in BOOLEAN
  <2>1. x \in PeerType
    BY TypeParts, ZeroId
  <2>2. b \in BOOLEAN
    BY <2>1 DEF PeerType
  <2>3. QED
    BY <2>1, <2>2 DEF RestOK
<1>2. x.str[0].st = "none" /\ Fresh(x) /\ (b => x.sent = "fin")
  BY <1>1 DEF ConOK, Asking, Fresh
<1>3. Read(x, y) /\ y.req = 0 /\ y.str[0].st = "opening" /\ y.str[0].rfin = b
  <2> HIDE DEF x, b
  <2>1. QED
    BY <1>1, SynInType
<1>4. ASSUME Plain(w) PROVE FilesBut(w.fds, y, c, -1) /\ w.abort = "none"
  <2>1. FilesBut(w.fds, x, c, -1) /\ w.abort = "none"
    BY <1>4 DEF RestOK
  <2>2. ~(x.req >= 0)
    BY <1>2, <2>1 DEF FilesBut, Live
  <2>3. \A f \in Fds : w.fds[f] # File(c, 0)
    <3>1. ASSUME NEW f \in Fds, w.fds[f] = File(c, 0) PROVE FALSE
      <4>1. f \in Nat /\ x.req = f
        BY <2>1, <3>1, ServerAssumption DEF FilesBut
      <4>2. QED
        BY <2>2, <4>1
    <3>2. QED
      BY <3>1
  <2>4. y.str[0].src = 0 /\ \A s \in Ids0 : s # 0 => y.str[s].st = "none"
    <3> HIDE DEF y, x
    <3>1. QED
      BY <1>1, <1>2, <1>3, ZeroId DEF Read, ConOK, Unasked
  <2> HIDE DEF y, x
  <2>5. QED
    BY <1>3, <2>1, <2>3, <2>4 DEF FilesBut, Live, Active
<1>5. CASE b
  <2>1. Asked(y) /\ Serving(y) /\ y.str[0].src = 0
    <3> HIDE DEF x, y, b
    <3>1. QED
      BY <1>1, <1>2, <1>3, <1>5, RequestAsked
  <2>2. /\ Within(w, u, c) /\ u \in ServerType /\ u.con[c] = y /\ u.fds = w.fds
        /\ u.abort = w.abort /\ u.odd = w.odd /\ u.late = w.late
    <3> HIDE DEF y
    <3>1. QED
      BY <1>3, ConWithin DEF Read
  <2> HIDE DEF y, u
  <2>3. Good(u, c, -1)
    BY <1>4, <2>1, <2>2 DEF Good, Plain
  <2>4. Answered(u, PrepareResponse(u, c, env), c)
    BY <2>1, <2>2, <2>3, PrepareResponseGood
  <2>5. v = PrepareResponse(u, c, env)
    BY <1>5
  <2> HIDE DEF v
  <2>6. Within(w, v, c) /\ RestOK(v, c) /\ v.con[c].in.k \notin {"syn", "fin"}
    BY <2>2, <2>4, <2>5, AnsweredRest
  <2>7. QED
    BY <2>6 DEF v, u, y
<1>6. CASE ~b
  <2>1. ConOK(y)
    <3> HIDE DEF x, y, b
    <3>1. QED
      BY <1>1, <1>2, <1>3, <1>6, RequestBegun
  <2> HIDE DEF y
  <2>2. Within(w, u, c) /\ RestOK(u, c) /\ u.con[c].in.k \notin {"syn", "fin"}
    BY <1>3, <1>4, <2>1, PutRest
  <2>3. v = u
    BY <1>6
  <2> HIDE DEF u, v
  <2>4. QED
    BY <2>2, <2>3 DEF v, u, y
<1>7. QED
  BY <1>5, <1>6

LEMMA FinReady ==
  ASSUME NEW w \in ServerType, NEW c \in Peers, RestOK(w, c), w.con[c].sent = "fin",
         w.con[c].str[0].st = "opening", ~w.con[c].str[0].rfin
  PROVE  LET u == Put(w, c, FinIn(w.con[c]))
         IN  /\ Within(w, u, c) /\ u \in ServerType /\ u.con[c] = FinIn(w.con[c]) /\ Good(u, c, -1)
             /\ Asked(u.con[c]) /\ u.con[c].str[0].src = 0
<1> DEFINE x == w.con[c]
           y == FinIn(x)
           u == Put(w, c, y)
<1>1. x \in PeerType /\ ConOK(x) /\ Fresh(x) /\ x.sent = "fin" /\ x.str[0].st = "opening"
  BY TypeParts, ZeroId DEF RestOK, Fresh
<1>2. Read(x, y) /\ y.req = x.req /\ y.str[0].st = x.str[0].st /\ y.str[0].rfin
  <2> HIDE DEF x
  <2>1. QED
    BY <1>1, FinInType
<1> HIDE DEF y
<1>3. Asked(y) /\ Serving(y) /\ y.str[0].src = 0
  <2> HIDE DEF x
  <2>1. QED
    BY <1>1, <1>2, RequestAsked
<1>4. /\ Within(w, u, c) /\ u \in ServerType /\ u.con[c] = y /\ u.fds = w.fds
      /\ u.abort = w.abort /\ u.odd = w.odd /\ u.late = w.late
  BY <1>2, ConWithin DEF Read
<1> HIDE DEF u
<1>5. SameFiles(x, y)
  <2> HIDE DEF x
  <2>1. \A s \in Ids0 : y.str[s].src = x.str[s].src /\ y.str[s].st = x.str[s].st
    <3> TAKE s \in Ids0
    <3>1. CASE s = 0
      BY <1>2, <3>1 DEF Read
    <3>2. CASE s # 0
      BY <1>2, <3>2 DEF Read
    <3>3. QED
      BY <3>1, <3>2
  <2>2. QED
    BY <1>2, <2>1 DEF SameFiles
<1>6. Plain(w) => w.abort = "none" /\ FilesBut(w.fds, y, c, -1)
  BY <1>5, FilesSame DEF RestOK
<1>7. Good(u, c, -1)
  BY <1>3, <1>4, <1>6 DEF Good, Plain
<1>8. QED
  BY <1>3, <1>4, <1>7 DEF u, y

LEMMA ReceivesFin ==
  ASSUME NEW w \in ServerType, NEW c \in Peers, RestOK(w, c), w.con[c].in.k = "fin", NEW env, env.good \in Nat
  PROVE  LET v == PrepareResponse(Put(w, c, FinIn(w.con[c])), c, env)
         IN  Within(w, v, c) /\ RestOK(v, c) /\ v.con[c].in.k \notin {"syn", "fin"}
<1> DEFINE u == Put(w, c, FinIn(w.con[c]))
           v == PrepareResponse(u, c, env)
<1>1. w.con[c].sent = "fin" /\ w.con[c].str[0].st = "opening" /\ ~w.con[c].str[0].rfin
  BY DEF RestOK, ConOK, Asking
<1>2. /\ Within(w, u, c) /\ u \in ServerType /\ Good(u, c, -1) /\ Asked(u.con[c]) /\ u.con[c].str[0].src = 0
  BY <1>1, FinReady
<1> HIDE DEF u
<1>3. Answered(u, v, c)
  BY <1>2, PrepareResponseGood
<1> HIDE DEF v
<1>4. QED
  BY <1>2, <1>3, AnsweredRest DEF v, u

\* Whether the client had finished a stream that is closed makes no difference.
LEMMA ClosedAnyway ==
  ASSUME NEW w \in ServerType, NEW c \in Peers, w.con[c].str[0].st = "opening"
  PROVE  StreamClosed(Put(w, c, NoIn(w.con[c])), c, 0) = StreamClosed(Put(w, c, FinIn(w.con[c])), c, 0)
<1> DEFINE x == w.con[c]
           a == NoIn(x)
           b == FinIn(x)
           u == Put(w, c, a)
           v == Put(w, c, b)
           Z(y) == [NewServerStream EXCEPT !.st = "closed", !.begun = y.str[0].begun]
           C(y) == [y EXCEPT !.str[0] = Z(y)]
<1>1. x \in PeerType /\ x.str[0].st = "opening"
  BY TypeParts, ZeroId
<1>2. /\ Read(x, a) /\ a.str = x.str
      /\ Read(x, b) /\ b.str[0].st = x.str[0].st
  <2> HIDE DEF x
  <2>1. QED
    BY <1>1, NoInType, FinInType
<1>3. C(b) = C(a)
  <2>1. b = [a EXCEPT !.str = [a.str EXCEPT ![0] = [@ EXCEPT !.rfin = TRUE]]]
    BY DEF FinIn
  <2> HIDE DEF a, b
  <2>2. Z(b) = Z(a)
    BY <1>2 DEF Read
  <2> HIDE DEF Z
  <2>3. a \in PeerType /\ b \in PeerType
    BY <1>2 DEF Read
  <2>4. \A z : [[a.str EXCEPT ![0] = [@ EXCEPT !.rfin = TRUE]] EXCEPT ![0] = z] = [a.str EXCEPT ![0] = z]
    BY <2>3 DEF PeerType
  <2>5. b.str = [a.str EXCEPT ![0] = [@ EXCEPT !.rfin = TRUE]]
    BY <2>1, <2>3 DEF PeerType
  <2>6. \A k : [b EXCEPT !.str = k] = [a EXCEPT !.str = k]
    BY <2>1, <2>3 DEF PeerType
  <2>7. QED
    BY <2>2, <2>4, <2>5, <2>6
<1>4. u.con[c] = a /\ v.con[c] = b
  BY PutPut
<1> HIDE DEF a, b
<1>5. Lives(u, c, 0) /\ Lives(v, c, 0)
  BY <1>1, <1>2, <1>4 DEF Lives
<1>6. /\ StreamClosed(u, c, 0) = DeleteRequest(Put(u, c, C(u.con[c])), c)
      /\ StreamClosed(v, c, 0) = DeleteRequest(Put(v, c, C(v.con[c])), c)
  <2> HIDE DEF u, v
  <2>1. QED
    BY <1>5 DEF StreamClosed, Put
<1> HIDE DEF C
<1>7. Put(u, c, C(a)) = Put(w, c, C(a)) /\ Put(v, c, C(b)) = Put(w, c, C(b))
  BY PutPut
<1>8. QED
  BY <1>3, <1>4, <1>6, <1>7 DEF u, v, a, b

LEMMA ClosedRest ==
  ASSUME NEW w \in ServerType, NEW c \in Peers, NEW s \in Ids0, Good(w, c, -1), w.con[c].aob.k # "fin"
  PROVE  LET v == StreamClosed(w, c, s)
         IN  Within(w, v, c) /\ RestOK(v, c) /\ v.con[c].in.k \notin {"syn", "fin"}
<1> DEFINE v == StreamClosed(w, c, s)
<1>1. Within(w, v, c) /\ Good(v, c, -1) /\ v.con[c].aob = w.con[c].aob
  BY StreamClosedGood, SMTT(20)
<1> HIDE DEF v
<1>2. QED
  BY <1>1, ServingOK DEF Good, RestOK, Serving, v

LEMMA ReceivesRst ==
  ASSUME NEW w \in ServerType, NEW c \in Peers, RestOK(w, c), w.con[c].in.k = "rst"
  PROVE  LET v == StreamClosed(Put(w, c, NoIn(w.con[c])), c, w.con[c].in.s)
         IN  Within(w, v, c) /\ RestOK(v, c) /\ v.con[c].in.k \notin {"syn", "fin"}
<1> DEFINE x == w.con[c]
           s == x.in.s
           y == NoIn(x)
           u == Put(w, c, y)
           v == StreamClosed(u, c, s)
<1>1. x \in PeerType /\ ConOK(x) /\ x.in.k = "rst" /\ s \in Ids0
  <2>1. x \in PeerType
    BY TypeParts, ZeroId
  <2>2. QED
    BY <2>1, PeerParts DEF RestOK
<1>2. Read(x, y) /\ y.str = x.str /\ y.req = x.req
  <2> HIDE DEF x
  <2>1. QED
    BY <1>1, NoInType
<1>3. ConOK(y)
  <2> HIDE DEF x, y
  <2>1. QED
    BY <1>1, <1>2, InputDone
<1>4. Plain(w) => FilesBut(w.fds, y, c, -1)
  <2>1. SameFiles(x, y)
    BY <1>2 DEF SameFiles
  <2>2. QED
    BY <2>1, FilesSame DEF RestOK
<1> HIDE DEF y
<1>5. Within(w, u, c) /\ RestOK(u, c) /\ u.con[c].in.k \notin {"syn", "fin"}
  BY <1>2, <1>3, <1>4, PutRest
<1>6. u \in ServerType /\ u.con[c] = y
  BY <1>2, ConWithin DEF Read
<1>7. CASE ~Lives(u, c, s)
  <2>1. v = u
    BY <1>7 DEF StreamClosed
  <2> HIDE DEF u, v, s
  <2>2. QED
    BY <1>5, <2>1 DEF u, v, s, y
<1>8. CASE Lives(u, c, s) /\ ~Fresh(y)
  <2> HIDE DEF u
  <2>1. Serving(y)
    BY <1>2, <1>3, <1>5, <1>6, <1>8, OKServing DEF Read
  <2>2. ASSUME Plain(u) PROVE u.con[c].aob.k # "fin"
    BY <1>5, <2>2 DEF RestOK
  <2>3. Good(u, c, -1)
    BY <1>5, <1>6, <2>1 DEF Good, RestOK
  <2>4. Within(u, v, c) /\ Good(v, c, -1) /\ v.con[c].aob = u.con[c].aob
    <3> HIDE DEF s
    <3>1. QED
      BY <1>1, <1>6, <2>3, StreamClosedGood
  <2> HIDE DEF v
  <2>5. Plain(v) => Plain(u)
    BY <2>4 DEF Within, Plain
  <2>6. Within(w, v, c)
    BY <1>5, <2>4, WithinTrans
  <2>7. QED
    BY <2>2, <2>4, <2>5, <2>6, ServingOK DEF Good, RestOK, Serving, v, s, u, y
<1>9. CASE Lives(u, c, s) /\ Fresh(y)
  <2>1. s = 0 /\ x.str[0].st = "opening" /\ ~x.str[0].rfin
    <3>1. y.str[s].st \in {"opening", "opened", "closing"}
      BY <1>6, <1>9 DEF Lives
    <3>2. s = 0
      <4>1. s # 0 => s \in Pushed
        BY <1>1, ZeroId
      <4>2. s # 0 => y.str[s].st = "none"
        BY <1>3, <1>9, <4>1 DEF ConOK, Unasked
      <4>3. QED
        BY <3>1, <4>2
    <3>3. QED
      BY <1>2, <1>9, <3>1, <3>2 DEF Fresh
  <2>2. x.sent = "fin"
    BY <1>1, <2>1 DEF ConOK, Asking
  <2> DEFINE a == Put(w, c, FinIn(x))
  <2>3. Within(w, a, c) /\ a \in ServerType /\ Good(a, c, -1) /\ Asked(a.con[c])
    BY <2>1, <2>2, FinReady
  <2>4. v = StreamClosed(a, c, 0)
    BY <2>1, ClosedAnyway DEF y
  <2>5. a.con[c].aob.k # "fin"
    BY <2>3 DEF Asked, Idle, NoFrame
  <2> HIDE DEF a, v
  <2>6. Within(a, v, c) /\ RestOK(v, c) /\ v.con[c].in.k \notin {"syn", "fin"}
    BY <2>3, <2>4, <2>5, ZeroId, ClosedRest
  <2>7. Within(w, v, c)
    BY <2>3, <2>6, WithinTrans
  <2>8. QED
    BY <2>6, <2>7 DEF v, s, u, y
<1>10. QED
  BY <1>7, <1>8, <1>9

Received(w, c, env) == ReceiveFrame([w EXCEPT !.con[c].in = NoInput], c, w.con[c].in, env)

\* hd_on_ctrl_recv_callback and what the session does with other frames.
LEMMA ReceiveOK ==
  ASSUME NEW w \in ServerType, NEW c \in Peers, RestOK(w, c), NEW env, env.good \in Nat
  PROVE  LET v == Received(w, c, env)
         IN  Within(w, v, c) /\ RestOK(v, c) /\ v.con[c].in.k \notin {"syn", "fin"}
<1> DEFINE x == w.con[c]
           i == x.in
           u == Put(w, c, NoIn(x))
           v == Received(w, c, env)
<1>1. x \in PeerType /\ ConOK(x) /\ i.k \in {"none", "syn", "fin", "rst", "goaway"} /\ i.fin \in BOOLEAN
  <2>1. x \in PeerType
    BY TypeParts, ZeroId
  <2>2. QED
    BY <2>1 DEF PeerType, RestOK
<1>2. /\ [w EXCEPT !.con[c].in = NoInput] = u /\ u.con[c] = NoIn(x)
      /\ \A b : SetSyn(u, c, b) = Put(w, c, SynIn(x, b))
      /\ SetFin(u, c) = Put(w, c, FinIn(x)) /\ SetAway(u, c) = Put(w, c, AwayIn(x))
  BY InputPuts
<1>3. v = ReceiveFrame(u, c, i, env)
  BY <1>2 DEF Received
<1> HIDE DEF u, v
<1>4. CASE i.k = "syn"
  <2>1. v = IF i.fin THEN PrepareResponse(SetSyn(u, c, i.fin), c, env) ELSE SetSyn(u, c, i.fin)
    BY <1>3, <1>4 DEF ReceiveFrame, SetSyn
  <2>2. QED
    BY <1>2, <1>4, <2>1, ReceivesSyn DEF v
<1>5. CASE i.k = "fin"
  <2>1. Lives(u, c, 0)
    <3>1. x.str[0].st = "opening"
      BY <1>1, <1>5 DEF ConOK, Asking
    <3>2. NoIn(x).str = x.str
      <4> HIDE DEF x
      <4>1. QED
        BY <1>1, NoInType
    <3>3. QED
      BY <1>2, <3>1, <3>2 DEF Lives
  <2>2. v = PrepareResponse(SetFin(u, c), c, env)
    BY <1>3, <1>5, <2>1 DEF ReceiveFrame, SetFin
  <2>3. QED
    BY <1>2, <1>5, <2>2, ReceivesFin DEF v
<1>6. CASE i.k = "rst"
  <2>1. v = StreamClosed(u, c, i.s)
    BY <1>3, <1>6 DEF ReceiveFrame
  <2>2. QED
    BY <1>6, <2>1, ReceivesRst DEF v, u
<1>7. CASE i.k \in {"none", "goaway"}
  <2> DEFINE y == IF i.k = "none" THEN NoIn(x) ELSE AwayIn(x)
  <2>1. v = Put(w, c, y)
    <3>1. i.k = "none" => v = u
      BY <1>3 DEF ReceiveFrame
    <3>2. i.k = "goaway" => v = SetAway(u, c)
      BY <1>3 DEF ReceiveFrame, SetAway
    <3>3. QED
      BY <1>2, <1>7, <3>1, <3>2 DEF u
  <2>2. Read(x, y) /\ y.str = x.str /\ y.req = x.req
    <3> HIDE DEF x
    <3>1. QED
      BY <1>1, NoInType
  <2> HIDE DEF y
  <2>3. ConOK(y)
    <3> HIDE DEF x
    <3>1. QED
      BY <1>1, <1>7, <2>2, InputDone
  <2>4. Plain(w) => FilesBut(w.fds, y, c, -1)
    <3>1. SameFiles(x, y)
      BY <2>2 DEF SameFiles
    <3>2. QED
      BY <3>1, FilesSame DEF RestOK
  <2>5. QED
    BY <2>1, <2>2, <2>3, <2>4, PutRest DEF v
<1>8. QED
  BY <1>1, <1>4, <1>5, <1>6, <1>7

\* SpdyEventHandler::execute
LEMMA ExecutesOK ==
  ASSUME NEW w \in ServerType, NEW c \in Peers, RestOK(w, c), NEW env \in Envs(w, c), NEW n \in Writes,
         NEW b \in BOOLEAN
  PROVE  LET v == Executes(w, c, env, n, b).w IN Within(w, v, c) /\ RestOK(v, c)
<1> DEFINE v == Received(w, c, env)
           u == ServerSend(v, c, n)
           r == Executes(w, c, env, n, b)
<1>1. env.good \in Nat
  <2>1. w.con[c] \in PeerType
    BY TypeParts, ZeroId
  <2>2. w.con[c].ask \in WebRequest
    BY <2>1 DEF PeerType
  <2>3. w.con[c].ask.pushes \in Nat
    BY <2>2, ServerAssumption DEF WebRequest
  <2>4. QED
    BY <2>3 DEF Envs
<1>2. Within(w, v, c) /\ RestOK(v, c) /\ v.con[c].in.k \notin {"syn", "fin"}
  BY <1>1, ReceiveOK
<1>3. r.w = v \/ r.w = u
  BY DEF Executes, Received
<1> HIDE DEF v, r
<1>4. v \in ServerType /\ n \in Nat
  BY <1>2, ServerAssumption DEF Within
<1>5. Within(v, u, c) /\ RestOK(u, c)
  BY <1>2, <1>4, ServerSendOK
<1> HIDE DEF u
<1>6. Within(w, u, c)
  BY <1>2, <1>5, WithinTrans
<1>7. QED
  BY <1>2, <1>3, <1>5, <1>6 DEF r
-----------------------------------------------------------------------------
(* The inductive invariant.                                                *)

\* The handlers of a client and its socket; D are the handlers that are to be deleted.
Owner(fds, reg, hds, x, c, D) ==
  /\ x.st = "up" =>
       /\ x.fd \in Fds /\ fds[x.fd] = Socket(c)
       /\ reg[x.fd] = IF SpdyHd(c) \in hds THEN SpdyHd(c) ELSE AcceptHd(c)
       /\ SpdyHd(c) \in hds \/ AcceptHd(c) \in hds
       /\ AcceptHd(c) \in D => x.fail \/ SpdyHd(c) \in hds
  /\ x.st # "up" => SpdyHd(c) \notin hds /\ (AcceptHd(c) \in hds => AcceptHd(c) \in D) /\ ~x.fail
  /\ x.st \in {"none", "backlog"} => AcceptHd(c) \notin hds \cup D
  /\ AcceptHd(c) \in hds /\ SpdyHd(c) \in hds => AcceptHd(c) \in D
  /\ x.fail => AcceptHd(c) \in D /\ SpdyHd(c) \notin hds
  /\ SpdyHd(c) \notin hds => x.req = -1 /\ \A s \in Ids0 : x.str[s].st = "none"

Sockets(fds, reg, hds, con, D) ==
  /\ ListenHd \in hds /\ ListenHd \notin D
  /\ \A f \in Fds, c \in Peers : fds[f] = Socket(c) => con[c].st = "up" /\ con[c].fd = f
  /\ \A f \in Fds : reg[f] # NoHandler =>
       (fds[f] = ListenSocket /\ reg[f] = ListenHd) \/ \E c \in Peers : fds[f] = Socket(c)
  /\ \A c \in Peers : Owner(fds, reg, hds, con[c], c, D)

\* Handlers of the round exist; each is called and deleted once.
Marks(w) == {w.dels[i] : i \in 1..Len(w.dels)}
Rounds(w) ==
  /\ Marks(w) \subseteq w.hds
  /\ \A i, j \in 1..Len(w.dels) : w.dels[i] = w.dels[j] => i = j
  /\ \A i \in 1..Len(w.batch) : /\ w.batch[i][1] \in w.hds \ Marks(w)
                                /\ w.batch[i][2] = "hup" => w.batch[i][1] # ListenHd
  /\ \A i, j \in 1..Len(w.batch) : w.batch[i][1] = w.batch[j][1] => i = j

Owns(w, D) == Sockets(w.fds, w.reg, w.hds, w.con, D)

Base(w) ==
  /\ w \in ServerType /\ \A c \in Peers : RestOK(w, c)
  /\ (Plain(w) => w.abort = "none") /\ (w.odd = {} => w.abort # "dead_handler")

Inv(w) == Base(w) /\ (Quiet(w) => Owns(w, Marks(w)) /\ Rounds(w))

\* The invariant; its parts are about the connections, the descriptors and the loop.
ServerInv == Inv(sv)

\* The files of other clients are not touched.
LEMMA OthersKept ==
  ASSUME NEW w \in ServerType, NEW v, NEW c \in Peers, NEW d \in Peers, d # c, Only(w, v, c),
         FilesBut(w.fds, w.con[d], d, -1), v.con[d] = w.con[d]
  PROVE  FilesBut(v.fds, v.con[d], d, -1)
<1> DEFINE x == w.con[d]
<1>1. \A s \in Ids0 : File(d, s) \notin FilesOf(c) \cup {Free}
  BY ThingsDiffer DEF FilesOf
<1>2. \A s \in Ids0 : x.str[s].src \in {0} \cup Fds
  BY TypeParts
<1>3. \A s \in Ids0, f \in Fds : (v.fds[f] = File(d, s)) <=> (w.fds[f] = File(d, s))
  BY <1>1 DEF Only
<1>4. \A s \in Ids0 : s # -1
  BY DEF Ids0
<1> HIDE DEF x
<1>5. v.con[d] = x /\ FilesBut(w.fds, x, d, -1)
  BY DEF x
<1>6. FilesBut(v.fds, x, d, -1)
  BY <1>2, <1>3, <1>4, <1>5, ZeroId DEF FilesBut
<1>7. QED
  BY <1>5, <1>6

LEMMA WithinBase ==
  ASSUME NEW w, NEW v, NEW c \in Peers, Base(w), Within(w, v, c), RestOK(v, c)
  PROVE  Base(v)
<1>1. w \in ServerType /\ v \in ServerType
  BY DEF Base, Within
<1>2. ASSUME NEW d \in Peers, d # c PROVE RestOK(v, d)
  <2>1. v.con[d] = w.con[d] /\ RestOK(w, d)
    BY <1>2 DEF Base, Within
  <2>2. ASSUME Plain(v) PROVE v.abort = "none" /\ FilesBut(v.fds, v.con[d], d, -1) /\ v.con[d].aob.k # "fin"
    <3>1. v.abort = "none"
      BY <2>2 DEF RestOK
    <3>2. Plain(w) /\ Only(w, v, c)
      BY <2>2, <3>1 DEF Plain, Quiet, Within
    <3>3. FilesBut(w.fds, w.con[d], d, -1) /\ w.con[d].aob.k # "fin"
      BY <2>1, <3>2 DEF RestOK
    <3>4. QED
      BY <1>1, <1>2, <2>1, <3>1, <3>2, <3>3, OthersKept
  <2>3. QED
    BY <2>1, <2>2 DEF RestOK
<1>3. Plain(v) => v.abort = "none"
  BY DEF RestOK
<1>4. v.odd = {} => v.abort # "dead_handler"
  BY DEF Base, Within
<1>5. \A d \in Peers : RestOK(v, d)
  BY <1>2
<1>6. QED
  BY <1>1, <1>3, <1>4, <1>5 DEF Base

\* Sockets do not change hands while a session works.
LEMMA WithinOwns ==
  ASSUME NEW w \in ServerType, NEW v, NEW c \in Peers, NEW D, Owns(w, D), Within(w, v, c), Quiet(v),
         SpdyHd(c) \in w.hds
  PROVE  Owns(v, D)
<1>1. Only(w, v, c) /\ v.hds = w.hds /\ Kept(w.con[c], v.con[c]) /\ \A d \in Peers : d # c => v.con[d] = w.con[d]
  BY DEF Within
<1>2. \A d \in Peers : v.con[d].st = w.con[d].st /\ v.con[d].fd = w.con[d].fd /\ v.con[d].fail = w.con[d].fail
  <2> TAKE d \in Peers
  <2>1. CASE d = c
    BY <1>1, <2>1 DEF Kept
  <2>2. CASE d # c
    BY <1>1, <2>2
  <2>3. QED
    BY <2>1, <2>2
<1>3. /\ \A d \in Peers : Socket(d) \notin FilesOf(c) \cup {Free}
      /\ ListenSocket \notin FilesOf(c) \cup {Free}
  BY ThingsDiffer DEF FilesOf
<1>4. \A f \in Fds, d \in Peers : (v.fds[f] = Socket(d)) <=> (w.fds[f] = Socket(d))
  BY <1>1, <1>3 DEF Only
<1>5. \A f \in Fds : v.reg[f] # NoHandler => w.reg[f] # NoHandler
  BY <1>1 DEF Only
<1>6. \A f \in Fds : w.reg[f] # NoHandler => v.fds[f] = w.fds[f] /\ v.reg[f] = w.reg[f]
  BY <1>1, <1>3 DEF Only, Owns, Sockets
<1>7. ASSUME NEW d \in Peers PROVE Owner(v.fds, v.reg, v.hds, v.con[d], d, D)
  <2> DEFINE x == w.con[d]
             y == v.con[d]
  <2>1. Owner(w.fds, w.reg, w.hds, x, d, D)
    BY DEF Owns, Sockets
  <2>2. y.st = x.st /\ y.fd = x.fd /\ y.fail = x.fail /\ v.hds = w.hds
    BY <1>1, <1>2
  <2>3. x.st = "up" => x.fd \in Fds /\ v.fds[x.fd] = w.fds[x.fd] /\ v.reg[x.fd] = w.reg[x.fd]
    BY <1>6, <2>1, HandlersDiffer DEF Owner
  <2>4. SpdyHd(d) \notin v.hds => y = x
    BY <1>1
  <2> HIDE DEF x, y
  <2>5. Owner(v.fds, v.reg, v.hds, y, d, D)
    BY <2>1, <2>2, <2>3, <2>4 DEF Owner
  <2>6. QED
    BY <2>5 DEF y
<1>8. QED
  BY <1>1, <1>2, <1>4, <1>5, <1>6, <1>7 DEF Owns, Sockets
-----------------------------------------------------------------------------
(* A round.                                                                *)

LEMMA RoundParts ==
  ASSUME NEW w \in ServerType
  PROVE  /\ w.batch \in Seq(Handlers \X {"io", "hup"}) /\ Len(w.batch) \in Nat
         /\ w.dels \in Seq(Handlers) /\ Len(w.dels) \in Nat /\ Marks(w) \subseteq Handlers
  BY DEF ServerType, Marks

LEMMA MarksAppend ==
  ASSUME NEW q \in Seq(Handlers), NEW h
  PROVE  LET r == Append(q, h)
         IN  {r[i] : i \in 1..Len(r)} = {q[i] : i \in 1..Len(q)} \cup {h}
<1> DEFINE r == Append(q, h)
           n == Len(q)
<1>1. n \in Nat /\ Len(r) = n + 1 /\ r[n + 1] = h /\ \A i \in 1..n : r[i] = q[i]
  OBVIOUS
<1> HIDE DEF r, n
<1>2. 1..(n + 1) = (1..n) \cup {n + 1}
  BY <1>1
<1>3. QED
  BY <1>1, <1>2 DEF n, r

\* An event is dispatched.
LEMMA RoundGoesOn ==
  ASSUME NEW w \in ServerType, NEW v \in ServerType, Rounds(w), w.batch # <<>>, NEW h, h = Head(w.batch)[1],
         v.batch = Tail(w.batch), w.hds \subseteq v.hds, v.dels = w.dels \/ v.dels = Append(w.dels, h)
  PROVE  Rounds(v) /\ h \in w.hds /\ h \notin Marks(w) /\ (Head(w.batch)[2] = "hup" => h # ListenHd)
<1> DEFINE b == w.batch
           n == Len(b)
           m == Len(w.dels)
<1>1. b \in Seq(Handlers \X {"io", "hup"}) /\ n \in Nat /\ w.dels \in Seq(Handlers) /\ m \in Nat
  BY RoundParts
<1>2. n > 0 /\ Head(b) = b[1] /\ Len(v.batch) = n - 1 /\ \A i \in 1..(n - 1) : v.batch[i] = b[i + 1]
  BY <1>1
<1>3. 1 \in 1..n /\ \A i \in 1..(n - 1) : i + 1 \in 1..n /\ i + 1 # 1
  BY <1>1, <1>2
<1> HIDE DEF b, n, m
<1>4. h \in w.hds /\ h \notin Marks(w) /\ (Head(b)[2] = "hup" => h # ListenHd)
  BY <1>2, <1>3 DEF Rounds, b, n
<1>5. Marks(v) = Marks(w) \/ (Marks(v) = Marks(w) \cup {h})
  <2>1. CASE v.dels = w.dels
    BY <2>1 DEF Marks
  <2>2. CASE v.dels = Append(w.dels, h)
    <3>1. {v.dels[i] : i \in 1..Len(v.dels)} = {w.dels[i] : i \in 1..Len(w.dels)} \cup {h}
      BY <1>1, <2>2, MarksAppend
    <3>2. QED
      BY <3>1 DEF Marks
  <2>3. QED
    BY <2>1, <2>2
<1>6. \A i, j \in 1..Len(v.dels) : v.dels[i] = v.dels[j] => i = j
  <2>1. CASE v.dels = w.dels
    BY <2>1 DEF Rounds
  <2>2. CASE v.dels = Append(w.dels, h)
    <3>1. Len(v.dels) = m + 1 /\ v.dels[m + 1] = h /\ \A i \in 1..m : v.dels[i] = w.dels[i]
      BY <1>1, <2>2 DEF m
    <3>2. \A i \in 1..(m + 1) : i = m + 1 \/ i \in 1..m
      BY <1>1
    <3>3. \A i \in 1..m : w.dels[i] # h
      BY <1>4 DEF Marks, m
    <3>4. \A i, j \in 1..m : w.dels[i] = w.dels[j] => i = j
      BY DEF Rounds, m
    <3>5. QED
      BY <3>1, <3>2, <3>3, <3>4
  <2>3. QED
    BY <2>1, <2>2
<1>7. Marks(v) \subseteq v.hds
  BY <1>4, <1>5 DEF Rounds
<1>8. ASSUME NEW i \in 1..(n - 1)
      PROVE  /\ v.batch[i][1] \in v.hds \ Marks(v) /\ (v.batch[i][2] = "hup" => v.batch[i][1] # ListenHd)
             /\ \A j \in 1..(n - 1) : v.batch[i][1] = v.batch[j][1] => i = j
  <2>1. v.batch[i] = b[i + 1] /\ i + 1 \in 1..n /\ i + 1 # 1
    BY <1>2, <1>3
  <2>2. b[i + 1][1] \in w.hds \ Marks(w) /\ (b[i + 1][2] = "hup" => b[i + 1][1] # ListenHd)
        /\ \A j \in 1..n : b[i + 1][1] = b[j][1] => i + 1 = j
    BY <2>1 DEF Rounds, b, n
  <2>3. b[i + 1][1] # h
    BY <1>2, <1>3, <2>1, <2>2 DEF b
  <2>4. ASSUME NEW j \in 1..(n - 1), v.batch[i][1] = v.batch[j][1] PROVE i = j
    <3>1. i + 1 = j + 1
      BY <1>2, <1>3, <2>1, <2>2, <2>4
    <3>2. QED
      BY <1>1, <3>1
  <2>5. QED
    BY <1>5, <2>1, <2>2, <2>3, <2>4
<1>9. Rounds(v)
  BY <1>2, <1>6, <1>7, <1>8 DEF Rounds
<1>10. QED
  BY <1>4, <1>9 DEF b

\* The first handler of del_list is deleted.
LEMMA RoundEnds ==
  ASSUME NEW w \in ServerType, NEW v \in ServerType, Rounds(w), w.batch = <<>>, w.dels # <<>>,
         NEW h, h = Head(w.dels), v.batch = <<>>, v.dels = Tail(w.dels), v.hds = w.hds \ {h}
  PROVE  Rounds(v) /\ h \in w.hds /\ h \in Marks(w) /\ Marks(v) = Marks(w) \ {h}
<1> DEFINE q == w.dels
           n == Len(q)
<1>1. q \in Seq(Handlers) /\ n \in Nat
  BY RoundParts
<1>2. n > 0 /\ Head(q) = q[1] /\ Len(v.dels) = n - 1 /\ \A i \in 1..(n - 1) : v.dels[i] = q[i + 1]
  BY <1>1
<1>3. 1 \in 1..n /\ (\A i \in 1..(n - 1) : i + 1 \in 1..n /\ i + 1 # 1)
      /\ \A i \in 1..n : i # 1 => i - 1 \in 1..(n - 1) /\ (i - 1) + 1 = i
  BY <1>1, <1>2
<1>4. Len(v.batch) = 0
  OBVIOUS
<1>5. h = q[1] /\ Marks(w) = {q[i] : i \in 1..n} /\ Marks(w) \subseteq w.hds
      /\ \A i, j \in 1..n : q[i] = q[j] => i = j
  BY <1>2 DEF Rounds, Marks
<1> HIDE DEF q, n
<1>6. Marks(v) = Marks(w) \ {h}
  <2>1. Marks(v) = {v.dels[i] : i \in 1..(n - 1)}
    BY <1>2 DEF Marks
  <2>2. ASSUME NEW e \in Marks(v) PROVE e \in Marks(w) \ {h}
    <3>1. PICK i \in 1..(n - 1) : e = v.dels[i]
      BY <2>1
    <3>2. e = q[i + 1] /\ i + 1 \in 1..n /\ q[i + 1] # q[1]
      BY <1>2, <1>3, <1>5, <3>1
    <3>3. QED
      BY <1>5, <3>2
  <2>3. ASSUME NEW e \in Marks(w) \ {h} PROVE e \in Marks(v)
    <3>1. PICK i \in 1..n : e = q[i]
      BY <1>5
    <3>2. i - 1 \in 1..(n - 1) /\ (i - 1) + 1 = i
      BY <1>3, <1>5, <2>3, <3>1
    <3>3. e = v.dels[i - 1]
      BY <1>2, <3>1, <3>2
    <3>4. QED
      BY <2>1, <3>2, <3>3
  <2>4. QED
    BY <2>2, <2>3
<1>7. \A i, j \in 1..Len(v.dels) : v.dels[i] = v.dels[j] => i = j
  <2>1. ASSUME NEW i \in 1..(n - 1), NEW j \in 1..(n - 1), v.dels[i] = v.dels[j] PROVE i = j
    <3>1. i + 1 = j + 1
      BY <1>2, <1>3, <1>5, <2>1
    <3>2. QED
      BY <1>1, <3>1
  <2>2. QED
    BY <1>2, <2>1
<1>8. Rounds(v)
  BY <1>4, <1>5, <1>6, <1>7 DEF Rounds
<1>9. QED
  BY <1>3, <1>5, <1>6, <1>8

SetBatch(w, b) == [w EXCEPT !.batch = b]
SetDels(w, q) == [w EXCEPT !.dels = q]

\* v is w at another point of the round.
SameBut(w, v) ==
  /\ v.con = w.con /\ v.fds = w.fds /\ v.reg = w.reg /\ v.visit = w.visit /\ v.hds = w.hds
  /\ v.late = w.late /\ v.abort = w.abort /\ v.odd = w.odd

LEMMA SetBatchType ==
  ASSUME NEW w \in ServerType, NEW b \in Seq(Handlers \X {"io", "hup"})
  PROVE  LET v == SetBatch(w, b) IN v \in ServerType /\ SameBut(w, v) /\ v.batch = b /\ v.dels = w.dels
  BY DEF SetBatch, ServerType, SameBut

LEMMA SetDelsType ==
  ASSUME NEW w \in ServerType, NEW q \in Seq(Handlers)
  PROVE  LET v == SetDels(w, q) IN v \in ServerType /\ SameBut(w, v) /\ v.batch = w.batch /\ v.dels = q
  BY DEF SetDels, ServerType, SameBut

LEMMA SameBase ==
  ASSUME NEW w, NEW v \in ServerType, Base(w), SameBut(w, v)
  PROVE  Base(v)
<1>1. \A c \in Peers : RestOK(v, c)
  BY DEF Base, RestOK, SameBut, Plain
<1>2. QED
  BY <1>1 DEF Base, SameBut, Plain

LEMMA SameOwns ==
  ASSUME NEW w, NEW v, SameBut(w, v), NEW D
  PROVE  (Owns(v, D) <=> Owns(w, D)) /\ (Quiet(v) <=> Quiet(w)) /\ (Plain(v) <=> Plain(w))
  BY DEF SameBut, Owns, Quiet, Plain

After(r, h) == IF r.del THEN [r.w EXCEPT !.dels = Append(@, h)] ELSE r.w

\* What the handler h gives, when it was called in w for the first event of a round.
LEMMA AfterInv ==
  ASSUME NEW w, Inv(w), w.batch # <<>>, NEW h \in Handlers, h = Head(w.batch)[1],
         NEW r, NEW D, D = Marks(w), Base(r.w), r.w.batch = Tail(w.batch), r.w.dels = w.dels,
         Quiet(r.w) => Quiet(w) /\ w.hds \subseteq r.w.hds /\ Owns(r.w, IF r.del THEN D \cup {h} ELSE D)
  PROVE  Inv(After(r, h))
<1> DEFINE u == r.w
           q == IF r.del THEN Append(w.dels, h) ELSE w.dels
           v == After(r, h)
<1>1. w \in ServerType /\ u \in ServerType /\ w.dels \in Seq(Handlers)
  BY RoundParts DEF Inv, Base
<1>2. q \in Seq(Handlers)
  BY <1>1
<1>3. /\ v \in ServerType /\ SameBut(u, v) /\ v.batch = u.batch
      /\ v.dels = IF r.del THEN Append(w.dels, h) ELSE w.dels
  <2>1. CASE r.del
    <3>1. v = SetDels(u, Append(w.dels, h)) /\ Append(w.dels, h) \in Seq(Handlers)
      BY <1>1, <2>1 DEF After, SetDels
    <3> HIDE DEF u, v
    <3>2. QED
      BY <1>1, <2>1, <3>1, SetDelsType
  <2>2. CASE ~r.del
    BY <1>1, <2>2 DEF After, SameBut
  <2>3. QED
    BY <2>1, <2>2
<1> HIDE DEF v, q
<1>4. Base(v)
  BY <1>3, SameBase
<1>5. ASSUME Quiet(v) PROVE Owns(v, Marks(v)) /\ Rounds(v)
  <2>1. Quiet(u)
    BY <1>3, <1>5, SameOwns
  <2>2. Quiet(w) /\ w.hds \subseteq v.hds /\ Owns(v, IF r.del THEN D \cup {h} ELSE D)
    BY <1>3, <2>1, SameOwns DEF SameBut
  <2>3. Rounds(w)
    BY <2>2 DEF Inv
  <2>4. Rounds(v)
    BY <1>1, <1>3, <2>2, <2>3, RoundGoesOn
  <2>5. Marks(v) = IF r.del THEN D \cup {h} ELSE D
    <3>1. CASE r.del
      <4>1. {v.dels[i] : i \in 1..Len(v.dels)} = {w.dels[i] : i \in 1..Len(w.dels)} \cup {h}
        BY <1>1, <1>3, <3>1, MarksAppend
      <4>2. QED
        BY <3>1, <4>1 DEF Marks
    <3>2. CASE ~r.del
      BY <1>3, <3>2 DEF Marks
    <3>3. QED
      BY <3>1, <3>2
  <2>6. QED
    BY <2>2, <2>4, <2>5
<1>6. QED
  BY <1>4, <1>5 DEF Inv, v

\* The session of a client is as it was.
SameSession(x, y) ==
  y.str = x.str /\ y.q = x.q /\ y.aob = x.aob /\ y.in = x.in /\ y.sent = x.sent /\ y.req = x.req

\* No session changes, and no file is opened or closed.
LEMMA BaseFds ==
  ASSUME NEW w, NEW v \in ServerType, Base(w), w.odd \subseteq v.odd, v.late = w.late, v.abort = w.abort,
         \A d \in Peers : SameSession(w.con[d], v.con[d]),
         \A f \in Fds, d \in Peers, s \in Ids0 : (v.fds[f] = File(d, s)) <=> (w.fds[f] = File(d, s))
  PROVE  Base(v)
<1>1. w \in ServerType /\ (Plain(v) => Plain(w)) /\ (v.odd = {} => w.odd = {})
  BY DEF Base, Plain
<1>2. ASSUME NEW d \in Peers PROVE RestOK(v, d)
  <2> DEFINE x == w.con[d]
             y == v.con[d]
  <2>1. SameSession(x, y) /\ RestOK(w, d)
    BY DEF Base
  <2>2. \A s \in Ids0 : x.str[s].src \in {0} \cup Fds
    BY <1>1, TypeParts
  <2> HIDE DEF x, y
  <2>3. ConOK(x) => ConOK(y)
    BY <2>1 DEF SameSession, ConOK, Unasked, Fresh, Asking, Announced, Shut, Framed, FrameOK
  <2>4. FilesBut(w.fds, x, d, -1) => FilesBut(v.fds, y, d, -1)
    <3>1. ASSUME FilesBut(w.fds, x, d, -1) PROVE FilesBut(v.fds, x, d, -1)
      <4>1. \A s \in Ids0 : s # -1
        BY DEF Ids0
      <4>2. QED
        BY <2>2, <3>1, <4>1, ZeroId DEF FilesBut
    <3>2. FilesBut(v.fds, x, d, -1) => FilesBut(v.fds, y, d, -1)
      BY <2>1 DEF SameSession, FilesBut
    <3>3. QED
      BY <3>1, <3>2
  <2>5. QED
    BY <1>1, <2>1, <2>3, <2>4 DEF RestOK, SameSession, x, y
<1>3. QED
  BY <1>1, <1>2 DEF Base

Gone == [NewPeer EXCEPT !.st = "gone"]

LEMMA GoneType ==
  /\ Gone \in PeerType /\ Gone.st = "gone" /\ ~Gone.fail /\ Gone.req = -1 /\ Gone.q = <<>> /\ Gone.aob = NoFrame
  /\ Gone.in = NoInput /\ Gone.sent = "none" /\ \A s \in Ids0 : Gone.str[s] = NewServerStream
  /\ NewPeer \in PeerType /\ NewPeer.st = "none" /\ ~NewPeer.fail /\ SameSession(Gone, NewPeer)
<1> DEFINE a == [kind |-> "mute", pushes |-> 0, pri |-> 0, fin |-> TRUE]
           z == [s \in Ids0 |-> NewServerStream]
<1>1. a \in WebRequest
  BY ServerAssumption DEF WebRequest
<1>2. NewServerStream \in StreamType
  BY DEF NewServerStream, StreamType
<1>3. NoInput \in [k : {"none", "syn", "fin", "rst", "goaway"}, fin : BOOLEAN, s : Ids0]
  BY ZeroId DEF NoInput, Input
<1>4. z \in [Ids0 -> StreamType] /\ \A s \in Ids0 : z[s] = NewServerStream
  BY <1>2
<1>5. <<>> \in Seq(QueuedType)
  OBVIOUS
<1>6. NewPeer = [st |-> "none", fd |-> 0, fail |-> FALSE, in |-> NoInput, eof |-> FALSE, sent |-> "none", ask |-> a,
                 req |-> -1, str |-> z, q |-> <<>>, aob |-> NoFrame, goaway |-> FALSE]
  BY DEF NewPeer
<1> HIDE DEF a, z
<1>7. NewPeer \in PeerType
  BY <1>1, <1>3, <1>4, <1>5, <1>6 DEF PeerType
<1>8. Gone \in PeerType
  BY <1>7 DEF PeerType, Gone
<1>9. NewPeer.st = "none" /\ ~NewPeer.fail /\ SameSession(Gone, NewPeer)
  BY <1>6, <1>7 DEF Gone, SameSession, PeerType
<1>10. QED
  BY <1>4, <1>6, <1>7, <1>8, <1>9 DEF Gone

LEMMA GoneOK ==
  ASSUME NEW x, x.q = <<>>, x.aob = NoFrame, x.in = NoInput, x.sent = "none",
         \A s \in Ids0 : x.str[s] = NewServerStream
  PROVE  ConOK(x) /\ \A s \in Ids0 : x.str[s].st = "none"
<1>1. Len(x.q) = 0 /\ x.in.k = "none" /\ x.aob.k = "none" /\ x.aob.s = 0
  BY DEF NoFrame, NoInput, Input
<1>2. \A s \in Ids0 : x.str[s].st = "none" /\ ~x.str[s].begun /\ x.str[s].src = 0
  BY DEF NewServerStream
<1>3. Unasked(x)
  BY <1>2, ZeroId DEF Unasked
<1>4. Asking(x)
  BY <1>1, <1>2, ZeroId DEF Asking
<1>5. Announced(x)
  BY <1>1, <1>2, ZeroId DEF Announced, NoSyn
<1>6. Shut(x) /\ Framed(x)
  BY <1>1, <1>2 DEF Shut, Framed, FrameOK
<1>7. QED
  BY <1>2, <1>3, <1>4, <1>5, <1>6 DEF ConOK

\* A client is gone with its files.
LEMMA BaseGone ==
  ASSUME NEW w, NEW v \in ServerType, NEW c \in Peers, Base(w), v.con[c] = Gone, w.odd \subseteq v.odd,
         w.late => v.late, w.abort # "dead_handler" => v.abort # "dead_handler",
         \A d \in Peers : d # c => v.con[d] = w.con[d],
         Plain(v) => /\ v.abort = "none"
                     /\ \A f \in Fds : v.fds[f] # File(c, 0)
                     /\ \A f \in Fds, d \in Peers, s \in Ids0 :
                          d # c => ((v.fds[f] = File(d, s)) <=> (w.fds[f] = File(d, s)))
  PROVE  Base(v)
<1>1. w \in ServerType /\ (Plain(v) => Plain(w)) /\ (v.odd = {} => v.abort # "dead_handler")
  BY DEF Base, Plain
<1>2. ConOK(Gone) /\ (\A s \in Ids0 : Gone.str[s].st = "none") /\ Gone.aob.k # "fin" /\ Gone.req = -1
  BY GoneType, GoneOK DEF NoFrame
<1>3. RestOK(v, c)
  <2>1. ASSUME Plain(v) PROVE FilesBut(v.fds, Gone, c, -1)
    <3>1. \A f \in Fds : v.fds[f] # File(c, 0)
      BY <2>1
    <3>2. QED
      BY <1>2, <3>1, ZeroId DEF FilesBut, Live, Active
  <2>2. QED
    BY <1>2, <2>1 DEF RestOK
<1>4. ASSUME NEW d \in Peers, d # c PROVE RestOK(v, d)
  <2> DEFINE x == w.con[d]
  <2>1. v.con[d] = x /\ RestOK(w, d)
    BY <1>4 DEF Base
  <2>2. \A s \in Ids0 : x.str[s].src \in {0} \cup Fds
    BY <1>1, TypeParts
  <2> HIDE DEF x
  <2>3. ASSUME Plain(v), FilesBut(w.fds, x, d, -1) PROVE FilesBut(v.fds, x, d, -1)
    <3>1. \A s \in Ids0 : s # -1
      BY DEF Ids0
    <3>2. \A f \in Fds, s \in Ids0 : (v.fds[f] = File(d, s)) <=> (w.fds[f] = File(d, s))
      BY <1>4, <2>3
    <3>3. QED
      BY <2>2, <2>3, <3>1, <3>2, ZeroId DEF FilesBut
  <2>4. QED
    BY <1>1, <2>1, <2>3 DEF RestOK, x
<1>5. \A d \in Peers : RestOK(v, d)
  BY <1>3, <1>4
<1>6. QED
  BY <1>1, <1>5 DEF Base
-----------------------------------------------------------------------------
(* Dispatch.                                                               *)

\* In s the handler h is called for the first event, with w.
Calls(s, w, h) ==
  /\ Inv(s) /\ s.batch # <<>> /\ h = Head(s.batch)[1] /\ h \in Handlers
  /\ w \in ServerType /\ Base(w) /\ w.batch = Tail(s.batch) /\ w.dels = s.dels /\ w.hds = s.hds
  /\ w.odd = s.odd /\ w.abort = s.abort
  /\ Quiet(w) => /\ Quiet(s) /\ Owns(w, Marks(s)) /\ h \in w.hds /\ h \notin Marks(s)
                 /\ Head(s.batch)[2] = "hup" => h # ListenHd

LEMMA CallsIs ==
  ASSUME NEW s, Inv(s), s.batch # <<>>
  PROVE  Calls(s, SetBatch(s, Tail(s.batch)), Head(s.batch)[1])
<1> DEFINE w == SetBatch(s, Tail(s.batch))
           h == Head(s.batch)[1]
<1>1. s \in ServerType /\ s.batch \in Seq(Handlers \X {"io", "hup"}) /\ s.dels \in Seq(Handlers)
  BY RoundParts DEF Inv, Base
<1>2. Tail(s.batch) \in Seq(Handlers \X {"io", "hup"}) /\ Head(s.batch) \in Handlers \X {"io", "hup"}
  BY <1>1
<1>3. h \in Handlers
  BY <1>2
<1>4. w \in ServerType /\ SameBut(s, w) /\ w.batch = Tail(s.batch) /\ w.dels = s.dels
  BY <1>1, <1>2, SetBatchType
<1> HIDE DEF w, h
<1>5. Base(w)
  BY <1>4, SameBase DEF Inv
<1>6. ASSUME Quiet(w)
      PROVE  /\ Quiet(s) /\ Owns(w, Marks(s)) /\ h \in w.hds /\ h \notin Marks(s)
             /\ Head(s.batch)[2] = "hup" => h # ListenHd
  <2>1. Quiet(s)
    BY <1>4, <1>6, SameOwns
  <2>2. Owns(s, Marks(s)) /\ Rounds(s)
    BY <2>1 DEF Inv
  <2>3. Owns(w, Marks(s))
    BY <1>4, <2>2, SameOwns
  <2>4. w.hds = s.hds
    BY <1>4 DEF SameBut
  <2>5. h \in s.hds /\ h \notin Marks(s) /\ (Head(s.batch)[2] = "hup" => h # ListenHd)
    BY <1>1, <1>4, <2>2, <2>4, RoundGoesOn DEF h
  <2>6. QED
    BY <2>1, <2>3, <2>4, <2>5
<1>7. QED
  BY <1>3, <1>4, <1>5, <1>6 DEF Calls, SameBut, w, h

LEMMA CalledInv ==
  ASSUME NEW s, NEW w, NEW h, Calls(s, w, h), NEW r, Base(r.w), r.w.batch = w.batch, r.w.dels = w.dels,
         Quiet(r.w) => /\ Quiet(w) /\ w.hds \subseteq r.w.hds
                       /\ Owns(r.w, IF r.del THEN Marks(s) \cup {h} ELSE Marks(s))
  PROVE  Inv(After(r, h))
<1>1. Quiet(w) => Quiet(s)
  BY DEF Calls
<1>2. QED
  BY <1>1, AfterInv DEF Calls

LEMMA MarkSpdy ==
  ASSUME NEW w, NEW D, NEW c, Owns(w, D)
  PROVE  Owns(w, D \cup {SpdyHd(c)})
<1>1. \A d : AcceptHd(d) \in D \cup {SpdyHd(c)} <=> AcceptHd(d) \in D
  BY HandlersDiffer
<1>2. ListenHd \notin D => ListenHd \notin D \cup {SpdyHd(c)}
  BY HandlersDiffer
<1>3. QED
  BY <1>1, <1>2 DEF Owns, Sockets, Owner

LEMMA CallsSpdy ==
  ASSUME NEW s, NEW w, NEW c \in Peers, Calls(s, w, SpdyHd(c)), NEW env \in Envs(w, c), NEW n \in Writes,
         NEW b \in BOOLEAN
  PROVE  Inv(After(Executes(w, c, env, n, b), SpdyHd(c)))
<1> DEFINE r == Executes(w, c, env, n, b)
           u == r.w
<1>1. w \in ServerType /\ RestOK(w, c) /\ Base(w)
  BY DEF Calls, Base
<1>2. Within(w, u, c) /\ RestOK(u, c)
  BY <1>1, ExecutesOK
<1> HIDE DEF r
<1>3. Base(u)
  BY <1>1, <1>2, WithinBase
<1>4. u.batch = w.batch /\ u.dels = w.dels /\ u.hds = w.hds /\ (Quiet(u) => Quiet(w))
  BY <1>2 DEF Within
<1>5. ASSUME Quiet(u) PROVE Owns(u, Marks(s)) /\ Owns(u, Marks(s) \cup {SpdyHd(c)})
  <2>1. Owns(w, Marks(s)) /\ SpdyHd(c) \in w.hds
    BY <1>4, <1>5 DEF Calls
  <2>2. Owns(u, Marks(s))
    BY <1>1, <1>2, <1>5, <2>1, WithinOwns
  <2>3. QED
    BY <2>2, MarkSpdy
<1>6. QED
  BY <1>3, <1>4, <1>5, CalledInv DEF r

LEMMA CallsHup ==
  ASSUME NEW s, NEW w, NEW h, Calls(s, w, h), Head(s.batch)[2] = "hup"
  PROVE  Inv(After([w |-> IF h[1] = "accept" THEN [w EXCEPT !.odd = @ \cup {"hup"}] ELSE w, del |-> TRUE], h))
<1> DEFINE u == IF h[1] = "accept" THEN Met(w, "hup") ELSE w
           r == [w |-> u, del |-> TRUE]
<1>1. w \in ServerType /\ Base(w) /\ h \in Handlers
  BY DEF Calls
<1>2. r.w = u /\ r.del
  OBVIOUS
<1>3. r = [w |-> IF h[1] = "accept" THEN [w EXCEPT !.odd = @ \cup {"hup"}] ELSE w, del |-> TRUE]
  BY DEF Met
<1> HIDE DEF r
<1>4. CASE h[1] = "accept"
  <2>1. u = Met(w, "hup") /\ "hup" \in Faults
    BY <1>4 DEF Faults
  <2>2. /\ u \in ServerType /\ ~Quiet(u) /\ w.odd \subseteq u.odd /\ u.con = w.con /\ u.fds = w.fds
        /\ u.batch = w.batch /\ u.dels = w.dels /\ u.late = w.late /\ u.abort = w.abort
    <3> HIDE DEF u
    <3>1. QED
      BY <1>1, <2>1, MetType
  <2> HIDE DEF u
  <2>3. Base(u)
    BY <1>1, <2>2, BaseFds DEF SameSession
  <2>4. Inv(After(r, h))
    BY <1>2, <2>2, <2>3, CalledInv
  <2>5. QED
    BY <1>3, <2>4
<1>5. CASE h[1] # "accept"
  <2>1. u = w
    BY <1>5
  <2> HIDE DEF u
  <2>2. ASSUME Quiet(w) PROVE Owns(w, Marks(s) \cup {h})
    <3>1. h # ListenHd /\ Owns(w, Marks(s))
      BY <2>2 DEF Calls
    <3>2. PICK c \in Peers : h = SpdyHd(c)
      BY <1>1, <1>5, <3>1, HandlerParts DEF Handlers
    <3>3. QED
      BY <3>1, <3>2, MarkSpdy
  <2>3. Inv(After(r, h))
    BY <1>1, <1>2, <2>1, <2>2, CalledInv
  <2>4. QED
    BY <1>3, <2>3
<1>6. QED
  BY <1>4, <1>5

LEMMA AddHandlerType ==
  ASSUME NEW w \in ServerType, NEW f, NEW h \in Handlers
  PROVE  LET v == AddHandler(w, f, h)
         IN  /\ v \in ServerType /\ v.hds = w.hds \cup {h} /\ (f \in Fds => v.reg[f] = h)
             /\ (\A g \in Fds : g # f => v.reg[g] = w.reg[g])
             /\ v.con = w.con /\ v.fds = w.fds /\ v.visit = w.visit /\ v.batch = w.batch
             /\ v.dels = w.dels /\ v.late = w.late /\ v.abort = w.abort /\ v.odd = w.odd
<1> DEFINE r == [w.reg EXCEPT ![f] = h]
           s == w.hds \cup {h}
           u == [w EXCEPT !.reg = r]
           v == [u EXCEPT !.hds = s]
<1>1. r \in [Fds -> Handlers \cup {NoHandler}] /\ (f \in Fds => r[f] = h) /\ (\A g \in Fds : g # f => r[g] = w.reg[g])
      /\ s \in SUBSET Handlers
  BY DEF ServerType
<1>2. AddHandler(w, f, h) = [u EXCEPT !.hds = @ \cup {h}]
  BY DEF AddHandler
<1> HIDE DEF r
<1>3. /\ u \in ServerType /\ u.reg = r /\ u.hds = w.hds
      /\ u.con = w.con /\ u.fds = w.fds /\ u.visit = w.visit /\ u.batch = w.batch
      /\ u.dels = w.dels /\ u.late = w.late /\ u.abort = w.abort /\ u.odd = w.odd
  BY <1>1 DEF ServerType
<1> HIDE DEF u
<1>4. AddHandler(w, f, h) = v
  BY <1>2, <1>3
<1> HIDE DEF s
<1>5. /\ v \in ServerType /\ v.hds = s /\ v.reg = u.reg
      /\ v.con = u.con /\ v.fds = u.fds /\ v.visit = u.visit /\ v.batch = u.batch
      /\ v.dels = u.dels /\ v.late = u.late /\ v.abort = u.abort /\ v.odd = u.odd
  BY <1>1, <1>3 DEF ServerType
<1> HIDE DEF v
<1>6. QED
  BY <1>1, <1>3, <1>4, <1>5 DEF s

\* The handlers of other clients are not touched.
OthersSame(w, v, c, D, E) ==
  \A d \in Peers : d # c =>
    /\ v.con[d] = w.con[d]
    /\ AcceptHd(d) \in v.hds <=> AcceptHd(d) \in w.hds
    /\ SpdyHd(d) \in v.hds <=> SpdyHd(d) \in w.hds
    /\ AcceptHd(d) \in E <=> AcceptHd(d) \in D

\* The client c and descriptors that are none or its own change.
LEMMA OwnsChange ==
  ASSUME NEW w \in ServerType, NEW v, NEW c \in Peers, NEW D, NEW E, Owns(w, D), OthersSame(w, v, c, D, E),
         ListenHd \in v.hds, ListenHd \notin E,
         \A f \in Fds : \/ v.fds[f] = w.fds[f] /\ v.reg[f] = w.reg[f]
                        \/ /\ w.fds[f] \in FilesOf(c) \cup {Free, Socket(c)}
                           /\ v.fds[f] \in FilesOf(c) \cup {Free, Socket(c)}
                           /\ v.reg[f] # NoHandler => v.fds[f] = Socket(c),
         \A f \in Fds : v.fds[f] = Socket(c) => v.con[c].st = "up" /\ v.con[c].fd = f,
         Owner(v.fds, v.reg, v.hds, v.con[c], c, E)
  PROVE  Owns(v, E)
<1>1. \A d \in Peers : d # c => Socket(d) \notin FilesOf(c) \cup {Free, Socket(c)}
  BY ThingsDiffer DEF FilesOf
<1>2. ASSUME NEW d \in Peers, d # c PROVE Owner(v.fds, v.reg, v.hds, v.con[d], d, E)
  <2> DEFINE x == w.con[d]
  <2>1. Owner(w.fds, w.reg, w.hds, x, d, D) /\ v.con[d] = x
    BY <1>2 DEF Owns, Sockets, OthersSame
  <2>2. x.st = "up" => x.fd \in Fds /\ v.fds[x.fd] = w.fds[x.fd] /\ v.reg[x.fd] = w.reg[x.fd]
    BY <1>1, <1>2, <2>1 DEF Owner
  <2>3. /\ AcceptHd(d) \in v.hds <=> AcceptHd(d) \in w.hds
        /\ SpdyHd(d) \in v.hds <=> SpdyHd(d) \in w.hds
        /\ AcceptHd(d) \in E <=> AcceptHd(d) \in D
    BY <1>2 DEF OthersSame
  <2> HIDE DEF x
  <2>4. Owner(v.fds, v.reg, v.hds, x, d, E)
    BY <2>1, <2>2, <2>3 DEF Owner
  <2>5. QED
    BY <2>1, <2>4
<1>3. ASSUME NEW f \in Fds, NEW d \in Peers, v.fds[f] = Socket(d)
      PROVE  v.con[d].st = "up" /\ v.con[d].fd = f
  <2>1. CASE d = c
    BY <1>3, <2>1
  <2>2. CASE d # c
    <3>1. w.fds[f] = Socket(d) /\ v.con[d] = w.con[d]
      BY <1>1, <1>3, <2>2 DEF OthersSame
    <3>2. QED
      BY <3>1 DEF Owns, Sockets
  <2>3. QED
    BY <2>1, <2>2
<1>4. ASSUME NEW f \in Fds, v.reg[f] # NoHandler
      PROVE  (v.fds[f] = ListenSocket /\ v.reg[f] = ListenHd) \/ \E d \in Peers : v.fds[f] = Socket(d)
  <2>1. CASE v.fds[f] = w.fds[f] /\ v.reg[f] = w.reg[f]
    BY <1>4, <2>1 DEF Owns, Sockets
  <2>2. CASE v.fds[f] = Socket(c)
    BY <2>2
  <2>3. QED
    BY <1>4, <2>1, <2>2
<1>5. \A d \in Peers : Owner(v.fds, v.reg, v.hds, v.con[d], d, E)
  BY <1>2
<1>6. QED
  BY <1>3, <1>4, <1>5 DEF Owns, Sockets

WithSt(x, k) == [x EXCEPT !.st = k]
WithFd(x, f) == [x EXCEPT !.st = "up", !.fd = f]

LEMMA StType ==
  ASSUME NEW x \in PeerType, NEW k \in {"none", "backlog", "up", "gone"}, NEW f \in Fds
  PROVE  /\ WithSt(x, k) \in PeerType /\ SameSession(x, WithSt(x, k)) /\ WithSt(x, k).st = k
         /\ WithSt(x, k).fail = x.fail /\ WithSt(x, k).fd = x.fd
         /\ WithFd(x, f) \in PeerType /\ SameSession(x, WithFd(x, f)) /\ WithFd(x, f).st = "up"
         /\ WithFd(x, f).fail = x.fail /\ WithFd(x, f).fd = f
  BY DEF WithSt, WithFd, PeerType, SameSession

\* One connection changes, with no effect on its session.
LEMMA PutSession ==
  ASSUME NEW w \in ServerType, NEW c \in Peers, NEW y \in PeerType, SameSession(w.con[c], y)
  PROVE  LET v == Put(w, c, y)
         IN  /\ v \in ServerType /\ v.con[c] = y /\ (\A d \in Peers : d # c => v.con[d] = w.con[d])
             /\ (\A d \in Peers : SameSession(w.con[d], v.con[d]))
             /\ v.visit = w.visit /\ v.fds = w.fds /\ v.reg = w.reg /\ v.hds = w.hds /\ v.batch = w.batch
             /\ v.dels = w.dels /\ v.late = w.late /\ v.odd = w.odd /\ v.abort = w.abort
<1> DEFINE v == Put(w, c, y)
<1>1. /\ v \in ServerType /\ v.con[c] = y /\ (\A d \in Peers : d # c => v.con[d] = w.con[d])
      /\ v.visit = w.visit /\ v.fds = w.fds /\ v.reg = w.reg /\ v.hds = w.hds /\ v.batch = w.batch
      /\ v.dels = w.dels /\ v.late = w.late /\ v.odd = w.odd /\ v.abort = w.abort
  BY ConSet DEF Put
<1> HIDE DEF v
<1>2. \A d \in Peers : SameSession(w.con[d], v.con[d])
  <2> TAKE d \in Peers
  <2>1. CASE d = c
    BY <1>1, <2>1
  <2>2. CASE d # c
    BY <1>1, <2>2 DEF SameSession
  <2>3. QED
    BY <2>1, <2>2
<1>3. QED
  BY <1>1, <1>2 DEF v

\* A connection that was waiting is accepted.
LEMMA AcceptsUp ==
  ASSUME NEW w, Base(w), NEW c \in Peers, w.con[c].st = "backlog", FreeFds(w) # {}
  PROVE  LET f == Min(FreeFds(w))
             v == Put(AddHandler(Open(w, Socket(c)), f, AcceptHd(c)), c, WithFd(w.con[c], f))
         IN  /\ Base(v) /\ v.batch = w.batch /\ v.dels = w.dels /\ w.hds \subseteq v.hds
             /\ (Quiet(v) => Quiet(w)) /\ \A D : Owns(w, D) => Owns(v, D)
<1> DEFINE x == w.con[c]
           f == Min(FreeFds(w))
           a == Open(w, Socket(c))
           b == AddHandler(a, f, AcceptHd(c))
           y == WithFd(x, f)
           v == Put(b, c, y)
<1>1. w \in ServerType /\ x \in PeerType /\ Socket(c) \in Things /\ AcceptHd(c) \in Handlers
  <2>1. w \in ServerType
    BY DEF Base
  <2>2. QED
    BY <2>1, TypeParts, FilesAreThings, ZeroId DEF Handlers
<1>2. /\ f \in Fds /\ w.fds[f] = Free /\ a \in ServerType
      /\ a.fds[f] = Socket(c) /\ (\A g \in Fds : g # f => a.fds[g] = w.fds[g])
      /\ a.con = w.con /\ a.reg = w.reg /\ a.visit = w.visit /\ a.hds = w.hds /\ a.batch = w.batch
      /\ a.dels = w.dels /\ a.late = w.late /\ a.odd = w.odd /\ a.abort = w.abort
  BY <1>1, OpenType
<1> HIDE DEF f, a
<1>3. /\ b \in ServerType /\ b.hds = a.hds \cup {AcceptHd(c)} /\ b.reg[f] = AcceptHd(c)
      /\ (\A g \in Fds : g # f => b.reg[g] = a.reg[g])
      /\ b.con = a.con /\ b.fds = a.fds /\ b.visit = a.visit /\ b.batch = a.batch
      /\ b.dels = a.dels /\ b.late = a.late /\ b.abort = a.abort /\ b.odd = a.odd
  BY <1>1, <1>2, AddHandlerType
<1> HIDE DEF b
<1>4. y \in PeerType /\ SameSession(x, y) /\ y.st = "up" /\ y.fail = x.fail /\ y.fd = f
  <2> HIDE DEF x
  <2>1. QED
    BY <1>1, <1>2, StType
<1> HIDE DEF y
<1>5. b.con[c] = x
  BY <1>2, <1>3
<1>6. /\ v \in ServerType /\ v.con[c] = y /\ (\A d \in Peers : d # c => v.con[d] = b.con[d])
      /\ (\A d \in Peers : SameSession(b.con[d], v.con[d]))
      /\ v.visit = b.visit /\ v.fds = b.fds /\ v.reg = b.reg /\ v.hds = b.hds /\ v.batch = b.batch
      /\ v.dels = b.dels /\ v.late = b.late /\ v.odd = b.odd /\ v.abort = b.abort
  BY <1>3, <1>4, <1>5, PutSession
<1> HIDE DEF v
<1>7. \A g \in Fds, d \in Peers, s \in Ids0 : (v.fds[g] = File(d, s)) <=> (w.fds[g] = File(d, s))
  BY <1>2, <1>3, <1>6, ThingsDiffer
<1>8. Base(v)
  BY <1>2, <1>3, <1>6, <1>7, BaseFds
<1>9. ASSUME NEW D, Owns(w, D) PROVE Owns(v, D)
  <2>1. Owner(w.fds, w.reg, w.hds, x, c, D) /\ x.st = "backlog"
    BY <1>9 DEF Owns, Sockets
  <2>2. SpdyHd(c) \notin w.hds /\ AcceptHd(c) \notin D /\ ~x.fail /\ x.req = -1
        /\ \A s \in Ids0 : x.str[s].st = "none"
    <3> HIDE DEF x
    <3>1. QED
      BY <2>1 DEF Owner
  <2>3. SpdyHd(c) \notin v.hds /\ AcceptHd(c) \in v.hds
    BY <1>2, <1>3, <1>6, <2>2, HandlersDiffer
  <2>4. Owner(v.fds, v.reg, v.hds, v.con[c], c, D)
    <3> HIDE DEF x
    <3>1. QED
      BY <1>2, <1>3, <1>4, <1>6, <2>2, <2>3 DEF Owner, SameSession
  <2>5. OthersSame(w, v, c, D, D)
    BY <1>2, <1>3, <1>6, HandlersDiffer DEF OthersSame
  <2>6. ListenHd \in v.hds /\ ListenHd \notin D
    BY <1>2, <1>3, <1>6, <1>9 DEF Owns, Sockets
  <2>7. \A g \in Fds : w.fds[g] # Socket(c)
    BY <1>9 DEF Owns, Sockets
  <2>8. \A g \in Fds : v.fds[g] = Socket(c) => g = f
    BY <1>2, <1>3, <1>6, <2>7
  <2>9. \A g \in Fds : \/ v.fds[g] = w.fds[g] /\ v.reg[g] = w.reg[g]
                       \/ /\ w.fds[g] \in FilesOf(c) \cup {Free, Socket(c)}
                          /\ v.fds[g] \in FilesOf(c) \cup {Free, Socket(c)}
                          /\ v.reg[g] # NoHandler => v.fds[g] = Socket(c)
    BY <1>2, <1>3, <1>6
  <2>10. QED
    BY <1>1, <1>4, <1>6, <1>9, <2>4, <2>5, <2>6, <2>8, <2>9, OwnsChange
<1>10. Quiet(v) => Quiet(w)
  BY <1>2, <1>3, <1>6 DEF Quiet
<1>11. QED
  BY <1>2, <1>3, <1>6, <1>8, <1>9, <1>10 DEF v, y, b, a, f

\* The connection is refused.
LEMMA AcceptsShut ==
  ASSUME NEW w, Base(w), NEW c \in Peers, w.con[c].st = "backlog"
  PROVE  LET v == Put(w, c, WithSt(w.con[c], "gone"))
         IN  /\ Base(v) /\ v.batch = w.batch /\ v.dels = w.dels /\ w.hds \subseteq v.hds
             /\ (Quiet(v) => Quiet(w)) /\ \A D : Owns(w, D) => Owns(v, D)
<1> DEFINE x == w.con[c]
           y == WithSt(x, "gone")
           v == Put(w, c, y)
<1>1. w \in ServerType /\ x \in PeerType /\ 1 \in Fds
  BY TypeParts, ZeroId, ServerAssumption DEF Base
<1>2. y \in PeerType /\ SameSession(x, y) /\ y.st = "gone" /\ y.fail = x.fail
  <2> HIDE DEF x
  <2>1. QED
    BY <1>1, StType
<1> HIDE DEF y
<1>3. /\ v \in ServerType /\ v.con[c] = y /\ (\A d \in Peers : d # c => v.con[d] = w.con[d])
      /\ (\A d \in Peers : SameSession(w.con[d], v.con[d]))
      /\ v.visit = w.visit /\ v.fds = w.fds /\ v.reg = w.reg /\ v.hds = w.hds /\ v.batch = w.batch
      /\ v.dels = w.dels /\ v.late = w.late /\ v.odd = w.odd /\ v.abort = w.abort
  BY <1>1, <1>2, PutSession
<1> HIDE DEF v
<1>4. Base(v)
  BY <1>3, BaseFds
<1>5. ASSUME NEW D, Owns(w, D) PROVE Owns(v, D)
  <2>1. Owner(w.fds, w.reg, w.hds, x, c, D) /\ x.st = "backlog"
    BY <1>5 DEF Owns, Sockets
  <2>2. Owner(v.fds, v.reg, v.hds, v.con[c], c, D)
    <3> HIDE DEF x
    <3>1. QED
      BY <1>2, <1>3, <2>1 DEF Owner, SameSession
  <2>3. OthersSame(w, v, c, D, D)
    BY <1>3 DEF OthersSame
  <2>4. ListenHd \in v.hds /\ ListenHd \notin D /\ \A g \in Fds : w.fds[g] # Socket(c)
    BY <1>3, <1>5 DEF Owns, Sockets
  <2>5. QED
    BY <1>1, <1>3, <1>5, <2>2, <2>3, <2>4, OwnsChange
<1>6. QED
  BY <1>3, <1>4, <1>5 DEF v, y, Quiet

SetFd(w, c, f) == [w EXCEPT !.con[c].st = "up", !.con[c].fd = f]
SetShut(w, c) == [w EXCEPT !.con[c].st = "gone"]

LEMMA FdPuts ==
  ASSUME NEW w \in ServerType, NEW c \in Peers, NEW f
  PROVE  SetFd(w, c, f) = Put(w, c, WithFd(w.con[c], f)) /\ SetShut(w, c) = Put(w, c, WithSt(w.con[c], "gone"))
<1> DEFINE x == w.con[c]
           y1 == [x EXCEPT !.st = "up"]
           y2 == [y1 EXCEPT !.fd = f]
           u1 == [w EXCEPT !.con[c].st = "up"]
           u2 == [u1 EXCEPT !.con[c].fd = f]
<1>1. SetFd(w, c, f) = u2 /\ y2 = WithFd(x, f)
  BY DEF SetFd, WithFd
<1>2. u1 = Put(w, c, y1)
  BY DEF Put
<1> HIDE DEF u1, y1
<1>3. u1.con[c] = y1
  BY <1>2, PutPut
<1>4. u2 = Put(u1, c, [u1.con[c] EXCEPT !.fd = f])
  BY DEF Put
<1>5. u2 = Put(Put(w, c, y1), c, y2)
  BY <1>2, <1>3, <1>4
<1> HIDE DEF u2, y2
<1>6. u2 = Put(w, c, y2)
  BY <1>5, PutPut
<1>7. SetShut(w, c) = Put(w, c, WithSt(x, "gone"))
  BY DEF SetShut, Put, WithSt
<1>8. QED
  BY <1>1, <1>6, <1>7

\* What a handler may leave when it was called with w and stays.
Fine(w, v) ==
  /\ Base(v) /\ v.batch = w.batch /\ v.dels = w.dels
  /\ Quiet(v) => Quiet(w) /\ w.hds \subseteq v.hds /\ \A D : Owns(w, D) => Owns(v, D)

\* ListenEventHandler::execute
LEMMA AcceptsFine ==
  ASSUME NEW w, Base(w), NEW how \in {"ok", "fails", "blocks"}
  PROVE  LET r == Accepts(w, how)
         IN  Fine(w, r.w) /\ (r.del => ~Quiet(r.w))
<1> DEFINE back == {c \in Peers : w.con[c].st = "backlog"}
           c == Min(back)
           f == Min(FreeFds(w))
           b == AddHandler(Open(w, Socket(c)), f, AcceptHd(c))
           r == Accepts(w, how)
<1>1. /\ (back = {} \/ FreeFds(w) = {} => r = [w |-> w, del |-> FALSE])
      /\ (~(back = {} \/ FreeFds(w) = {}) =>
            /\ how = "ok" => r = [w |-> SetFd(b, c, f), del |-> FALSE]
            /\ how = "fails" => r = [w |-> SetShut(w, c), del |-> FALSE]
            /\ how = "blocks" => r = [w |-> Met(SetShut(w, c), "blocks"), del |-> TRUE])
  BY DEF Accepts, SetFd, SetShut, Met
<1> HIDE DEF r
<1>2. CASE back = {} \/ FreeFds(w) = {}
  <2>1. r.w = w /\ ~r.del
    BY <1>1, <1>2
  <2>2. Fine(w, w)
    BY DEF Fine
  <2>3. QED
    BY <2>1, <2>2 DEF r
<1>3. CASE ~(back = {} \/ FreeFds(w) = {})
  <2>1. c \in Peers /\ w.con[c].st = "backlog"
    <3>1. back # {} /\ back \subseteq Nat
      BY <1>3, ServerAssumption
    <3>2. c \in back
      <4> HIDE DEF back
      <4>1. QED
        BY <3>1, MinIn
    <3>3. QED
      BY <3>2
  <2> HIDE DEF c
  <2>2. w \in ServerType
    BY DEF Base
  <2>3. CASE how = "ok"
    <3>1. b \in ServerType /\ b.con = w.con
      <4> DEFINE a == Open(w, Socket(c))
      <4>1. Socket(c) \in Things /\ AcceptHd(c) \in Handlers
        BY <2>1, FilesAreThings, ZeroId DEF Handlers
      <4>2. f \in Fds /\ a \in ServerType /\ a.con = w.con
        BY <1>3, <2>2, <4>1, OpenType
      <4> HIDE DEF a, f
      <4>3. QED
        BY <4>1, <4>2, AddHandlerType DEF a
    <3>2. SetFd(b, c, f) = Put(b, c, WithFd(w.con[c], f))
      <4> HIDE DEF b, f
      <4>1. SetFd(b, c, f) = Put(b, c, WithFd(b.con[c], f))
        BY <2>1, <3>1, FdPuts
      <4>2. QED
        BY <3>1, <4>1
    <3> DEFINE v == Put(b, c, WithFd(w.con[c], f))
    <3>3. Base(v) /\ v.batch = w.batch /\ v.dels = w.dels /\ w.hds \subseteq v.hds /\ (Quiet(v) => Quiet(w))
          /\ \A D : Owns(w, D) => Owns(v, D)
      BY <1>3, <2>1, AcceptsUp
    <3> HIDE DEF v
    <3>4. r.w = v /\ ~r.del
      BY <1>1, <1>3, <2>3, <3>2 DEF v
    <3>5. QED
      BY <3>3, <3>4 DEF Fine, r
  <2> DEFINE u == SetShut(w, c)
  <2>4. Base(u) /\ u.batch = w.batch /\ u.dels = w.dels /\ w.hds \subseteq u.hds /\ (Quiet(u) => Quiet(w))
        /\ \A D : Owns(w, D) => Owns(u, D)
    <3>1. u = Put(w, c, WithSt(w.con[c], "gone"))
      BY <2>1, <2>2, FdPuts
    <3> HIDE DEF u
    <3>2. QED
      BY <2>1, <3>1, AcceptsShut
  <2> HIDE DEF u
  <2>5. CASE how = "fails"
    <3>1. r.w = u /\ ~r.del
      BY <1>1, <1>3, <2>5 DEF u
    <3>2. QED
      BY <2>4, <3>1 DEF Fine, r
  <2>6. CASE how = "blocks"
    <3> DEFINE v == Met(u, "blocks")
    <3>1. r.w = v /\ r.del
      BY <1>1, <1>3, <2>6 DEF u
    <3>2. u \in ServerType /\ "blocks" \in Faults
      BY <2>4 DEF Base, Faults
    <3>3. /\ v \in ServerType /\ ~Quiet(v) /\ u.odd \subseteq v.odd /\ v.con = u.con /\ v.fds = u.fds
          /\ v.batch = u.batch /\ v.dels = u.dels /\ v.late = u.late /\ v.abort = u.abort
      BY <3>2, MetType
    <3> HIDE DEF v
    <3>4. Base(v)
      BY <2>4, <3>3, BaseFds DEF SameSession
    <3>5. QED
      BY <2>4, <3>1, <3>3, <3>4 DEF Fine, r
  <2>7. QED
    BY <2>3, <2>5, <2>6
<1>4. QED
  BY <1>2, <1>3

LEMMA CallsListen ==
  ASSUME NEW s, NEW w, Calls(s, w, ListenHd), NEW how \in {"ok", "fails", "blocks"}
  PROVE  Inv(After(Accepts(w, how), ListenHd))
<1> DEFINE r == Accepts(w, how)
<1>1. Base(w) /\ (Quiet(w) => Owns(w, Marks(s)))
  BY DEF Calls
<1>2. Fine(w, r.w) /\ (r.del => ~Quiet(r.w))
  BY <1>1, AcceptsFine
<1> HIDE DEF r
<1>3. QED
  BY <1>1, <1>2, CalledInv DEF Fine, r
-----------------------------------------------------------------------------
(* Handlers are deleted.                                                   *)

SetHds(w, H) == [w EXCEPT !.hds = H]

LEMMA SetHdsType ==
  ASSUME NEW w \in ServerType, NEW H \in SUBSET Handlers
  PROVE  LET v == SetHds(w, H)
         IN  /\ v \in ServerType /\ v.hds = H /\ v.con = w.con /\ v.fds = w.fds /\ v.reg = w.reg
             /\ v.visit = w.visit /\ v.batch = w.batch /\ v.dels = w.dels /\ v.late = w.late
             /\ v.abort = w.abort /\ v.odd = w.odd
  BY DEF SetHds, ServerType

\* In u the client c is gone; v is w when its files are closed, and then the socket
\* was closed.
Leaves(w, v, u, c) ==
  LET t == CloseFd(v, w.con[c].fd, Socket(c))
  IN  /\ u \in ServerType /\ u.con[c] = Gone /\ (\A d \in Peers : d # c => u.con[d] = w.con[d])
      /\ u.fds = t.fds /\ u.reg = t.reg /\ u.odd = t.odd /\ u.late = t.late /\ u.abort = t.abort

\* D were the handlers to be deleted before, E are those after it.
Leaving(w, u, c, D, E) ==
  /\ SpdyHd(c) \notin u.hds /\ ListenHd \in u.hds /\ ListenHd \notin E
  /\ AcceptHd(c) \in u.hds => AcceptHd(c) \in E
  /\ \A d \in Peers : d # c => /\ AcceptHd(d) \in u.hds <=> AcceptHd(d) \in w.hds
                               /\ SpdyHd(d) \in u.hds <=> SpdyHd(d) \in w.hds
                               /\ AcceptHd(d) \in E <=> AcceptHd(d) \in D

LEMMA LeavesOK ==
  ASSUME NEW w, Base(w), NEW v, NEW u, NEW c \in Peers, Within(w, v, c), Leaves(w, v, u, c),
         NEW D, Quiet(w) => Owns(w, D) /\ w.con[c].st = "up",
         Plain(w) => v.abort = "none" /\ \A f \in Fds : v.fds[f] # File(c, 0)
  PROVE  Base(u) /\ (Quiet(u) => Quiet(w) /\ \A E : Leaving(w, u, c, D, E) => Owns(u, E))
<1> DEFINE x == w.con[c]
           f == x.fd
           o == Socket(c)
           t == CloseFd(v, f, o)
<1>1. w \in ServerType /\ v \in ServerType /\ f \in {0} \cup Fds
  BY TypeParts, ZeroId DEF Base, Within
<1>2. /\ u \in ServerType /\ u.con[c] = Gone /\ (\A d \in Peers : d # c => u.con[d] = w.con[d])
      /\ u.fds = t.fds /\ u.reg = t.reg /\ u.odd = t.odd /\ u.late = t.late /\ u.abort = t.abort
  BY DEF Leaves
<1>3. /\ t.late = v.late /\ t.odd = v.odd /\ t.abort \in {v.abort, "wrong_close"}
      /\ t.abort = v.abort =>
           \A g \in Fds : \/ t.fds[g] = v.fds[g] /\ t.reg[g] = v.reg[g]
                          \/ g = f /\ t.fds[f] = Free /\ t.reg[f] = NoHandler
                             /\ (v.fds[f] = o \/ v.abort = "wrong_close")
      /\ f \in Fds /\ v.fds[f] = o => t.abort = v.abort /\ t.fds[f] = Free
  BY <1>1, CloseFdType
<1> HIDE DEF t
<1>4. w.odd \subseteq u.odd /\ (w.late => u.late) /\ (w.abort # "dead_handler" => u.abort # "dead_handler")
  BY <1>2, <1>3 DEF Within
<1>5. (Quiet(u) => Quiet(v)) /\ (Quiet(v) => Quiet(w) /\ Only(w, v, c)) /\ (Plain(u) => Plain(w))
  BY <1>2, <1>3, <1>4 DEF Quiet, Within, Plain
<1>6. \A d \in Peers : Socket(d) \notin FilesOf(c) \cup {Free}
  BY ThingsDiffer DEF FilesOf
<1>7. ASSUME Quiet(v)
      PROVE  /\ f \in Fds /\ w.fds[f] = o /\ v.fds[f] = o /\ u.abort = "none"
             /\ u.fds[f] = Free /\ (\A g \in Fds : g # f => u.fds[g] = v.fds[g] /\ u.reg[g] = v.reg[g])
             /\ Owns(w, D) /\ x.st = "up"
  <2>1. Quiet(w) /\ Only(w, v, c) /\ Owns(w, D) /\ x.st = "up"
    BY <1>5, <1>7
  <2>2. f \in Fds /\ w.fds[f] = o
    BY <2>1 DEF Owns, Sockets, Owner
  <2>3. v.fds[f] = o
    BY <1>6, <2>1, <2>2 DEF Only
  <2>4. t.abort = v.abort /\ t.fds[f] = Free /\ v.abort = "none"
    BY <1>3, <1>7, <2>2, <2>3 DEF Quiet
  <2>5. QED
    BY <1>2, <1>3, <2>1, <2>2, <2>3, <2>4
<1>8. ASSUME Plain(u)
      PROVE  /\ u.abort = "none"
             /\ \A g \in Fds : u.fds[g] # File(c, 0)
             /\ \A g \in Fds, d \in Peers, s \in Ids0 :
                  d # c => ((u.fds[g] = File(d, s)) <=> (w.fds[g] = File(d, s)))
  <2>1. Plain(w) /\ v.abort = "none" /\ \A g \in Fds : v.fds[g] # File(c, 0)
    BY <1>5, <1>8
  <2>2. Quiet(v)
    BY <1>2, <1>3, <1>8, <2>1 DEF Quiet, Plain
  <2>3. /\ f \in Fds /\ w.fds[f] = o /\ v.fds[f] = o /\ u.abort = "none"
        /\ u.fds[f] = Free /\ (\A g \in Fds : g # f => u.fds[g] = v.fds[g])
    BY <1>7, <2>2
  <2>4. \A d, s : File(d, s) # Free /\ File(d, s) # o
    BY ThingsDiffer
  <2>5. \A g \in Fds : u.fds[g] # File(c, 0)
    BY <2>1, <2>3, <2>4
  <2>6. ASSUME NEW g \in Fds, NEW d \in Peers, NEW s \in Ids0, d # c
        PROVE  (u.fds[g] = File(d, s)) <=> (w.fds[g] = File(d, s))
    <3>1. File(d, s) \notin FilesOf(c) \cup {Free}
      BY <2>6, ThingsDiffer DEF FilesOf
    <3>2. (v.fds[g] = File(d, s)) <=> (w.fds[g] = File(d, s))
      BY <1>5, <2>2, <3>1 DEF Only
    <3>3. QED
      BY <2>3, <2>4, <3>2
  <2>7. QED
    BY <2>3, <2>5, <2>6
<1>9. Base(u)
  BY <1>2, <1>4, <1>8, BaseGone
<1>10. ASSUME Quiet(u), NEW E, Leaving(w, u, c, D, E) PROVE Owns(u, E)
  <2>1. Quiet(v) /\ Only(w, v, c)
    BY <1>5, <1>10
  <2>2. /\ f \in Fds /\ w.fds[f] = o /\ v.fds[f] = o
        /\ u.fds[f] = Free /\ (\A g \in Fds : g # f => u.fds[g] = v.fds[g] /\ u.reg[g] = v.reg[g])
        /\ Owns(w, D) /\ x.st = "up"
    BY <1>7, <2>1
  <2>3. u.reg[f] = NoHandler
    <3>1. t.abort = v.abort
      BY <1>3, <2>2
    <3>2. t.fds[f] # v.fds[f]
      BY <1>2, <2>2, ThingsDiffer
    <3>3. QED
      BY <1>2, <1>3, <2>2, <3>1, <3>2
  <2>4. \A g \in Fds : w.reg[g] # NoHandler => w.fds[g] \notin FilesOf(c) \cup {Free}
    <3>1. ListenSocket \notin FilesOf(c) \cup {Free}
      BY ThingsDiffer DEF FilesOf
    <3>2. QED
      BY <1>6, <2>2, <3>1 DEF Owns, Sockets
  <2>5. ASSUME NEW g \in Fds
        PROVE  \/ u.fds[g] = w.fds[g] /\ u.reg[g] = w.reg[g]
               \/ /\ w.fds[g] \in FilesOf(c) \cup {Free, Socket(c)}
                  /\ u.fds[g] \in FilesOf(c) \cup {Free, Socket(c)}
                  /\ u.reg[g] # NoHandler => u.fds[g] = Socket(c)
    <3>1. CASE g = f
      BY <2>2, <2>3, <3>1
    <3>2. CASE g # f
      <4>1. u.fds[g] = v.fds[g] /\ u.reg[g] = v.reg[g]
        BY <2>2, <3>2
      <4>2. \/ v.fds[g] = w.fds[g] /\ v.reg[g] = w.reg[g]
            \/ /\ w.fds[g] \in FilesOf(c) \cup {Free} /\ v.fds[g] \in FilesOf(c) \cup {Free}
               /\ v.reg[g] \in {NoHandler, w.reg[g]}
        BY <2>1 DEF Only
      <4>3. QED
        BY <2>4, <4>1, <4>2
    <3>3. QED
      BY <3>1, <3>2
  <2>6. \A g \in Fds : u.fds[g] # Socket(c)
    <3>1. ASSUME NEW g \in Fds, u.fds[g] = Socket(c) PROVE FALSE
      <4>1. g # f
        BY <2>2, <3>1, ThingsDiffer
      <4>2. v.fds[g] = Socket(c)
        BY <2>2, <3>1, <4>1
      <4>3. w.fds[g] = Socket(c)
        BY <1>6, <2>1, <4>2 DEF Only
      <4>4. QED
        BY <2>2, <4>1, <4>3 DEF Owns, Sockets
    <3>2. QED
      BY <3>1
  <2>7. Owner(u.fds, u.reg, u.hds, u.con[c], c, E)
    <3>1. Gone.st = "gone" /\ ~Gone.fail /\ Gone.req = -1 /\ \A s \in Ids0 : Gone.str[s].st = "none"
      BY GoneType, GoneOK
    <3>2. SpdyHd(c) \notin u.hds /\ (AcceptHd(c) \in u.hds => AcceptHd(c) \in E)
      BY <1>10 DEF Leaving
    <3>3. Owner(u.fds, u.reg, u.hds, Gone, c, E)
      BY <3>1, <3>2 DEF Owner
    <3>4. QED
      BY <1>2, <3>3
  <2>8. OthersSame(w, u, c, D, E) /\ ListenHd \in u.hds /\ ListenHd \notin E
    BY <1>2, <1>10 DEF Leaving, OthersSame
  <2>9. QED
    BY <1>1, <2>2, <2>5, <2>6, <2>7, <2>8, OwnsChange
<1>11. QED
  BY <1>5, <1>9, <1>10

\* ~Request and close() when a client with its files open is gone.
LEMMA RequestGone ==
  ASSUME NEW w, Base(w), NEW c \in Peers, Plain(w)
  PROVE  LET v == DeleteRequest(w, c) IN v.abort = "none" /\ \A f \in Fds : v.fds[f] # File(c, 0)
<1> DEFINE x == w.con[c]
           f == x.req
           v == DeleteRequest(w, c)
<1>1. w \in ServerType /\ w.abort = "none" /\ FilesBut(w.fds, x, c, -1)
  BY DEF Base, RestOK
<1>2. f \in {-1, 0} \cup Fds
  BY <1>1, TypeParts, ZeroId
<1>3. ASSUME f > 0 PROVE w.fds[f] = File(c, 0)
  <2>1. f >= 0
    <3> HIDE DEF f
    <3>1. f \in Fds => f \in Nat
      BY ServerAssumption
    <3>2. f \in Int
      BY <1>2, <3>1
    <3>3. QED
      BY <1>3, <3>2
  <2>2. x.str[0].st \in Live /\ f = x.str[0].src
    BY <1>1, <2>1 DEF FilesBut
  <2>3. QED
    BY <1>1, <1>3, <2>2, ZeroId DEF FilesBut, Live, Active
<1>4. /\ w.abort = "none" /\ (f > 0 => w.fds[f] \in {File(c, 0), Free}) =>
           /\ v.abort = "none" /\ (f > 0 => v.fds[f] = Free)
           /\ \A g \in Fds : g # f => v.fds[g] = w.fds[g]
  BY <1>1, DeleteRequestType
<1> HIDE DEF v, f
<1>5. v.abort = "none" /\ (f > 0 => v.fds[f] = Free) /\ \A g \in Fds : g # f => v.fds[g] = w.fds[g]
  BY <1>1, <1>3, <1>4
<1>6. ASSUME NEW g \in Fds, v.fds[g] = File(c, 0) PROVE FALSE
  <2>1. g > 0 /\ File(c, 0) # Free
    BY ServerAssumption, ThingsDiffer
  <2>2. g # f
    BY <1>5, <1>6, <2>1
  <2>3. w.fds[g] = File(c, 0)
    BY <1>5, <1>6, <2>2
  <2>4. QED
    BY <1>1, <2>2, <2>3 DEF FilesBut, f
<1>7. QED
  BY <1>5, <1>6 DEF v

\* A deletion for the client c.
Removes(w, u, c, h, D) ==
  /\ Base(u) /\ u.batch = w.batch /\ u.dels = w.dels /\ u.hds = w.hds \ {h}
  /\ Quiet(u) => Quiet(w) /\ \A E : Leaving(w, u, c, D, E) => Owns(u, E)

\* ~SpdyEventHandler
LEMMA DeleteSpdyOK ==
  ASSUME NEW w, Base(w), NEW c \in Peers, NEW D, Quiet(w) => Owns(w, D) /\ w.con[c].st = "up"
  PROVE  Removes(w, DeleteSpdy(w, c), c, SpdyHd(c), D)
<1> DEFINE v == DeleteRequest(w, c)
           f == w.con[c].fd
           t == CloseFd(v, f, Socket(c))
           H == t.hds \ {SpdyHd(c)}
           a == SetHds(t, H)
           u == DeleteSpdy(w, c)
<1>1. w \in ServerType
  BY DEF Base
<1>2. Within(w, v, c)
  BY <1>1, DeleteRequestType
<1>3. Plain(w) => v.abort = "none" /\ \A g \in Fds : v.fds[g] # File(c, 0)
  BY RequestGone
<1>4. u = Put([t EXCEPT !.hds = @ \ {SpdyHd(c)}], c, Gone)
  BY DEF DeleteSpdy, Put, Gone
<1>5. u = Put(a, c, Gone)
  BY <1>4 DEF SetHds
<1> HIDE DEF v, u
<1>6. v \in ServerType /\ v.hds = w.hds /\ v.batch = w.batch /\ v.dels = w.dels
      /\ \A d \in Peers : d # c => v.con[d] = w.con[d]
  BY <1>2 DEF Within
<1>7. t \in ServerType /\ t.con = v.con /\ t.hds = v.hds /\ t.batch = v.batch /\ t.dels = v.dels
  BY <1>6, CloseFdType
<1> HIDE DEF t
<1>8. H \in SUBSET Handlers /\ H = w.hds \ {SpdyHd(c)}
  BY <1>6, <1>7 DEF ServerType
<1> HIDE DEF H
<1>9. /\ a \in ServerType /\ a.hds = H /\ a.con = t.con /\ a.fds = t.fds /\ a.reg = t.reg
      /\ a.batch = t.batch /\ a.dels = t.dels /\ a.late = t.late /\ a.abort = t.abort /\ a.odd = t.odd
  BY <1>7, <1>8, SetHdsType
<1> HIDE DEF a
<1>10. /\ u \in ServerType /\ u.con[c] = Gone /\ (\A d \in Peers : d # c => u.con[d] = a.con[d])
       /\ u.fds = a.fds /\ u.reg = a.reg /\ u.hds = a.hds /\ u.batch = a.batch
       /\ u.dels = a.dels /\ u.late = a.late /\ u.odd = a.odd /\ u.abort = a.abort
  BY <1>5, <1>9, GoneType, ConSet DEF Put
<1>11. Leaves(w, v, u, c)
  BY <1>6, <1>7, <1>9, <1>10 DEF Leaves, t, f
<1>12. Base(u) /\ (Quiet(u) => Quiet(w) /\ \A E : Leaving(w, u, c, D, E) => Owns(u, E))
  BY <1>2, <1>3, <1>11, LeavesOK
<1>13. QED
  BY <1>6, <1>7, <1>8, <1>9, <1>10, <1>12 DEF Removes, u

\* close() does not look at the handlers.
LEMMA CloseFdHds ==
  ASSUME NEW w \in ServerType, NEW H, NEW f, NEW o
  PROVE  LET t == CloseFd(w, f, o)
             u == CloseFd(SetHds(w, H), f, o)
         IN  u.fds = t.fds /\ u.reg = t.reg /\ u.odd = t.odd /\ u.late = t.late /\ u.abort = t.abort
<1> DEFINE v == SetHds(w, H)
<1>1. v = [w EXCEPT !.hds = H]
  BY DEF SetHds
<1>2. v.fds = w.fds /\ v.reg = w.reg /\ v.odd = w.odd /\ v.late = w.late /\ v.abort = w.abort
      /\ DOMAIN v = DOMAIN w /\ DOMAIN w = {"visit", "fds", "reg", "hds", "batch", "dels", "con", "late", "odd", "abort"}
  BY DEF ServerType, SetHds
<1> DEFINE a == [w.fds EXCEPT ![f] = Free]
           b == [w.reg EXCEPT ![f] = NoHandler]
           w1 == [w EXCEPT !.fds = a, !.reg = b]
           v1 == [v EXCEPT !.fds = a, !.reg = b]
           w2 == [w1 EXCEPT !.abort = "wrong_close"]
           v2 == [v1 EXCEPT !.abort = "wrong_close"]
<1>3. CloseFd(w, f, o) = IF w.fds[f] = Free THEN w ELSE IF w.fds[f] = o THEN w1 ELSE w2
  BY DEF CloseFd
<1>4. CloseFd(v, f, o) = IF w.fds[f] = Free THEN v ELSE IF w.fds[f] = o THEN v1 ELSE v2
  <2> HIDE DEF v
  <2>1. QED
    BY <1>2 DEF CloseFd
<1> HIDE DEF v, a, b
<1>5. v1.fds = w1.fds /\ v1.reg = w1.reg /\ v1.odd = w1.odd /\ v1.late = w1.late /\ v1.abort = w1.abort
  BY <1>2
<1>6. v2.fds = w2.fds /\ v2.reg = w2.reg /\ v2.odd = w2.odd /\ v2.late = w2.late /\ v2.abort = w2.abort
  BY <1>2
<1> HIDE DEF w1, v1, w2, v2
<1>7. QED
  BY <1>2, <1>3, <1>4, <1>5, <1>6 DEF v

\* ~SSLAcceptEventHandler of a handshake that failed
LEMMA DeleteFailedOK ==
  ASSUME NEW w, Base(w), NEW c \in Peers, NEW D, w.con[c].fail, 
         Quiet(w) => Owns(w, D)
  PROVE  Removes(w, DeleteAccept(w, c), c, AcceptHd(c), D)
<1> DEFINE f == w.con[c].fd
           H == w.hds \ {AcceptHd(c)}
           v == SetHds(w, H)
           t == CloseFd(w, f, Socket(c))
           a == CloseFd(v, f, Socket(c))
           u == DeleteAccept(w, c)
<1>1. w \in ServerType /\ H \in SUBSET Handlers
  BY DEF Base, ServerType
<1>2. Within(w, w, c)
  BY <1>1, WithinRefl
<1>3. Quiet(w) => w.con[c].st = "up" /\ SpdyHd(c) \notin w.hds
  BY DEF Owns, Sockets, Owner
<1>4. Plain(w) => w.abort = "none" /\ \A g \in Fds : w.fds[g] # File(c, 0)
  <2>1. SUFFICES ASSUME Plain(w) PROVE w.abort = "none" /\ \A g \in Fds : w.fds[g] # File(c, 0)
    OBVIOUS
  <2>2. w.abort = "none" /\ Quiet(w) /\ FilesBut(w.fds, w.con[c], c, -1)
    BY <2>1 DEF Base, Plain, Quiet, RestOK
  <2>3. w.con[c].req = -1
    BY <1>3, <2>2 DEF Owns, Sockets, Owner
  <2>4. \A g \in Fds : g # -1
    BY ServerAssumption
  <2>5. QED
    BY <2>2, <2>3, <2>4 DEF FilesBut
<1>5. u = Put(a, c, Gone)
  BY DEF DeleteAccept, Put, Gone, SetHds
<1>6. /\ v \in ServerType /\ v.hds = H /\ v.con = w.con /\ v.batch = w.batch /\ v.dels = w.dels
  BY <1>1, SetHdsType
<1>7. a.fds = t.fds /\ a.reg = t.reg /\ a.odd = t.odd /\ a.late = t.late /\ a.abort = t.abort
  BY <1>1, CloseFdHds
<1> HIDE DEF v, u
<1>8. a \in ServerType /\ a.con = v.con /\ a.hds = v.hds /\ a.batch = v.batch /\ a.dels = v.dels
  BY <1>6, CloseFdType
<1> HIDE DEF a, t
<1>9. /\ u \in ServerType /\ u.con[c] = Gone /\ (\A d \in Peers : d # c => u.con[d] = a.con[d])
      /\ u.fds = a.fds /\ u.reg = a.reg /\ u.hds = a.hds /\ u.batch = a.batch
      /\ u.dels = a.dels /\ u.late = a.late /\ u.odd = a.odd /\ u.abort = a.abort
  BY <1>5, <1>8, GoneType, ConSet, SMTT(40) DEF Put
<1>10. Leaves(w, w, u, c)
  BY <1>6, <1>7, <1>8, <1>9 DEF Leaves, t, f
<1>11. Base(u) /\ (Quiet(u) => Quiet(w) /\ \A E : Leaving(w, u, c, D, E) => Owns(u, E))
  BY <1>2, <1>3, <1>4, <1>10, LeavesOK
<1>12. QED
  BY <1>6, <1>8, <1>9, <1>11 DEF Removes, u
-----------------------------------------------------------------------------
(* Handshakes.                                                             *)

\* The handshake that runs has the socket.
Shaking(w, c, D) ==
  /\ Owns(w, D) /\ AcceptHd(c) \in w.hds /\ AcceptHd(c) \notin D
  /\ w.con[c].st = "up" /\ ~w.con[c].fail /\ SpdyHd(c) \notin w.hds

LEMMA CallsShaking ==
  ASSUME NEW s, NEW w, NEW c \in Peers, Calls(s, w, AcceptHd(c)), Quiet(w)
  PROVE  Shaking(w, c, Marks(s))
<1>1. Owns(w, Marks(s)) /\ AcceptHd(c) \in w.hds /\ AcceptHd(c) \notin Marks(s)
  BY DEF Calls
<1>2. Owner(w.fds, w.reg, w.hds, w.con[c], c, Marks(s))
  BY <1>1 DEF Owns, Sockets
<1>3. QED
  BY <1>1, <1>2 DEF Owner, Shaking

\* The session takes over.
LEMMA ShakesOk ==
  ASSUME NEW w, Base(w), NEW c \in Peers, NEW D, Quiet(w) => Shaking(w, c, D)
  PROVE  LET u == AddHandler(w, w.con[c].fd, SpdyHd(c))
         IN  /\ Base(u) /\ u.batch = w.batch /\ u.dels = w.dels /\ w.hds \subseteq u.hds
             /\ Quiet(u) => Quiet(w) /\ Owns(u, D \cup {AcceptHd(c)})
<1> DEFINE x == w.con[c]
           f == x.fd
           u == AddHandler(w, f, SpdyHd(c))
           E == D \cup {AcceptHd(c)}
<1>1. w \in ServerType /\ SpdyHd(c) \in Handlers
  BY DEF Base, Handlers
<1>2. /\ u \in ServerType /\ u.hds = w.hds \cup {SpdyHd(c)} /\ (f \in Fds => u.reg[f] = SpdyHd(c))
      /\ (\A g \in Fds : g # f => u.reg[g] = w.reg[g])
      /\ u.con = w.con /\ u.fds = w.fds /\ u.visit = w.visit /\ u.batch = w.batch
      /\ u.dels = w.dels /\ u.late = w.late /\ u.abort = w.abort /\ u.odd = w.odd
  BY <1>1, AddHandlerType
<1> HIDE DEF u
<1>3. Base(u)
  BY <1>2, BaseFds DEF SameSession
<1>4. ASSUME Quiet(u) PROVE Quiet(w) /\ Owns(u, E)
  <2>1. Quiet(w)
    BY <1>2, <1>4 DEF Quiet
  <2>2. Owns(w, D) /\ AcceptHd(c) \in w.hds /\ x.st = "up" /\ ~x.fail /\ SpdyHd(c) \notin w.hds
    BY <2>1 DEF Shaking
  <2>3. Owner(w.fds, w.reg, w.hds, x, c, D)
    BY <2>2 DEF Owns, Sockets
  <2>4. f \in Fds /\ w.fds[f] = Socket(c)
    BY <2>2, <2>3 DEF Owner
  <2>5. SpdyHd(c) \in u.hds /\ AcceptHd(c) \in u.hds /\ AcceptHd(c) \in E
    BY <1>2, <2>2
  <2>6. Owner(u.fds, u.reg, u.hds, x, c, E)
    <3> HIDE DEF x
    <3>1. QED
      BY <1>2, <2>2, <2>4, <2>5 DEF Owner, f
  <2>7. OthersSame(w, u, c, D, E)
    BY <1>2, HandlersDiffer DEF OthersSame
  <2>8. ListenHd \in u.hds /\ ListenHd \notin E
    BY <1>2, <2>2, HandlersDiffer DEF Owns, Sockets
  <2>9. \A g \in Fds : \/ u.fds[g] = w.fds[g] /\ u.reg[g] = w.reg[g]
                       \/ /\ w.fds[g] \in FilesOf(c) \cup {Free, Socket(c)}
                          /\ u.fds[g] \in FilesOf(c) \cup {Free, Socket(c)}
                          /\ u.reg[g] # NoHandler => u.fds[g] = Socket(c)
    BY <1>2, <2>4
  <2>10. \A g \in Fds : u.fds[g] = Socket(c) => u.con[c].st = "up" /\ u.con[c].fd = g
    BY <1>2, <2>2 DEF Owns, Sockets
  <2>11. u.con[c] = x
    BY <1>2
  <2> HIDE DEF E, x
  <2>12. Owns(u, E)
    BY <1>1, <2>2, <2>6, <2>7, <2>8, <2>9, <2>10, <2>11, OwnsChange
  <2>13. QED
    BY <2>1, <2>12
<1>5. QED
  BY <1>2, <1>3, <1>4 DEF u

WithFail(x) == [x EXCEPT !.fail = TRUE]

LEMMA FailType ==
  ASSUME NEW x \in PeerType
  PROVE  LET y == WithFail(x)
         IN  y \in PeerType /\ SameSession(x, y) /\ y.fail /\ y.st = x.st /\ y.fd = x.fd
  BY DEF WithFail, PeerType, SameSession

\* The handshake fails.
LEMMA ShakesFail ==
  ASSUME NEW w, Base(w), NEW c \in Peers, NEW D, Quiet(w) => Shaking(w, c, D)
  PROVE  LET u == Put(w, c, WithFail(w.con[c]))
         IN  /\ Base(u) /\ u.batch = w.batch /\ u.dels = w.dels /\ w.hds \subseteq u.hds
             /\ Quiet(u) => Quiet(w) /\ Owns(u, D \cup {AcceptHd(c)})
<1> DEFINE x == w.con[c]
           y == WithFail(x)
           u == Put(w, c, y)
           E == D \cup {AcceptHd(c)}
<1>1. w \in ServerType /\ x \in PeerType
  BY TypeParts, ZeroId DEF Base
<1>2. y \in PeerType /\ SameSession(x, y) /\ y.fail /\ y.st = x.st /\ y.fd = x.fd
  <2> HIDE DEF x
  <2>1. QED
    BY <1>1, FailType
<1> HIDE DEF y
<1>3. /\ u \in ServerType /\ u.con[c] = y /\ (\A d \in Peers : d # c => u.con[d] = w.con[d])
      /\ (\A d \in Peers : SameSession(w.con[d], u.con[d]))
      /\ u.visit = w.visit /\ u.fds = w.fds /\ u.reg = w.reg /\ u.hds = w.hds /\ u.batch = w.batch
      /\ u.dels = w.dels /\ u.late = w.late /\ u.odd = w.odd /\ u.abort = w.abort
  BY <1>1, <1>2, PutSession
<1> HIDE DEF u
<1>4. Base(u)
  BY <1>3, BaseFds
<1>5. ASSUME Quiet(u) PROVE Quiet(w) /\ Owns(u, E)
  <2>1. Quiet(w)
    BY <1>3, <1>5 DEF Quiet
  <2>2. Owns(w, D) /\ AcceptHd(c) \in w.hds /\ x.st = "up" /\ SpdyHd(c) \notin w.hds
    BY <2>1 DEF Shaking
  <2>3. Owner(w.fds, w.reg, w.hds, x, c, D)
    BY <2>2 DEF Owns, Sockets
  <2>4. AcceptHd(c) \in E
    OBVIOUS
  <2>5. Owner(u.fds, u.reg, u.hds, y, c, E)
    <3> HIDE DEF x, E
    <3>1. QED
      BY <1>2, <1>3, <2>2, <2>3, <2>4 DEF Owner, SameSession
  <2>6. OthersSame(w, u, c, D, E)
    BY <1>3, HandlersDiffer DEF OthersSame
  <2>7. ListenHd \in u.hds /\ ListenHd \notin E
    BY <1>3, <2>2, HandlersDiffer DEF Owns, Sockets
  <2>8. \A g \in Fds : u.fds[g] = Socket(c) => u.con[c].st = "up" /\ u.con[c].fd = g
    BY <1>2, <1>3, <2>2 DEF Owns, Sockets
  <2> HIDE DEF E, x
  <2>9. Owns(u, E)
    BY <1>1, <1>3, <2>2, <2>5, <2>6, <2>7, <2>8, OwnsChange
  <2>10. QED
    BY <2>1, <2>9
<1>6. QED
  BY <1>3, <1>4, <1>5 DEF u, y

LEMMA CallsAccept ==
  ASSUME NEW s, NEW w, NEW c \in Peers, Calls(s, w, AcceptHd(c)), NEW how \in {"again", "ok", "fails", "nopoll"}
  PROVE  Inv(After(Handshakes(w, c, how), AcceptHd(c)))
<1> DEFINE h == AcceptHd(c)
           D == Marks(s)
           r == Handshakes(w, c, how)
<1>1. Base(w) /\ w \in ServerType /\ (Quiet(w) => Shaking(w, c, D))
  BY CallsShaking DEF Calls
<1>2. ASSUME NEW u, r = [w |-> u, del |-> TRUE], Base(u), u.batch = w.batch, u.dels = w.dels,
             Quiet(u) => Quiet(w) /\ w.hds \subseteq u.hds /\ Owns(u, D \cup {h})
      PROVE  Inv(After(r, h))
  <2> HIDE DEF r, h, D
  <2>1. r.w = u /\ r.del
    BY <1>2
  <2>2. QED
    BY <1>2, <2>1, CalledInv DEF h, D
<1>3. CASE how = "again"
  <2>1. r = [w |-> w, del |-> FALSE]
    BY <1>3 DEF Handshakes
  <2> HIDE DEF r
  <2>2. r.w = w /\ ~r.del
    BY <2>1
  <2>3. Quiet(w) => Owns(w, D)
    BY <1>1 DEF Shaking
  <2>4. QED
    BY <1>1, <2>2, <2>3, CalledInv DEF r
<1>4. CASE how = "ok"
  <2> DEFINE u == AddHandler(w, w.con[c].fd, SpdyHd(c))
  <2>1. r = [w |-> u, del |-> TRUE]
    BY <1>4 DEF Handshakes
  <2>2. /\ Base(u) /\ u.batch = w.batch /\ u.dels = w.dels /\ w.hds \subseteq u.hds
        /\ Quiet(u) => Quiet(w) /\ Owns(u, D \cup {h})
    BY <1>1, ShakesOk
  <2> HIDE DEF u, r
  <2>3. QED
    BY <1>2, <2>1, <2>2 DEF r
<1>5. CASE how = "fails"
  <2> DEFINE u == Put(w, c, WithFail(w.con[c]))
  <2>1. r = [w |-> u, del |-> TRUE]
    BY <1>5 DEF Handshakes, Put, WithFail
  <2>2. /\ Base(u) /\ u.batch = w.batch /\ u.dels = w.dels /\ w.hds \subseteq u.hds
        /\ Quiet(u) => Quiet(w) /\ Owns(u, D \cup {h})
    BY <1>1, ShakesFail
  <2> HIDE DEF u, r
  <2>3. QED
    BY <1>2, <2>1, <2>2 DEF r
<1>6. CASE how = "nopoll"
  <2> DEFINE u == DeleteSpdy(w, c)
  <2>1. r = [w |-> u, del |-> TRUE]
    BY <1>6 DEF Handshakes
  <2>2. Removes(w, u, c, SpdyHd(c), D)
    BY <1>1, DeleteSpdyOK DEF Shaking
  <2> HIDE DEF u, r
  <2>3. ASSUME Quiet(u) PROVE Quiet(w) /\ w.hds \subseteq u.hds /\ Owns(u, D \cup {h})
    <3>1. Quiet(w) /\ u.hds = w.hds \ {SpdyHd(c)} /\ \A E : Leaving(w, u, c, D, E) => Owns(u, E)
      BY <2>2, <2>3 DEF Removes
    <3>2. Owns(w, D) /\ SpdyHd(c) \notin w.hds
      BY <1>1, <3>1 DEF Shaking
    <3>3. ListenHd \in w.hds /\ ListenHd \notin D
      BY <3>2 DEF Owns, Sockets
    <3>4. Leaving(w, u, c, D, D \cup {h})
      <4> HIDE DEF D
      <4>1. QED
        BY <3>1, <3>3, HandlersDiffer DEF Leaving
    <3>5. QED
      BY <3>1, <3>2, <3>4
  <2>4. QED
    BY <1>2, <2>1, <2>2, <2>3 DEF Removes, r
<1>7. QED
  BY <1>3, <1>4, <1>5, <1>6
-----------------------------------------------------------------------------
(* del_list.                                                               *)

\* ~SSLAcceptEventHandler when the session has taken over
LEMMA DeleteAcceptOK ==
  ASSUME NEW w, Base(w), NEW c \in Peers, NEW D, ~w.con[c].fail, Quiet(w) => Owns(w, D) /\ AcceptHd(c) \in D
  PROVE  LET u == DeleteAccept(w, c)
         IN  /\ Base(u) /\ u.batch = w.batch /\ u.dels = w.dels /\ u.hds = w.hds \ {AcceptHd(c)}
             /\ Quiet(u) => Quiet(w) /\ Owns(u, D \ {AcceptHd(c)})
<1> DEFINE x == w.con[c]
           H == w.hds \ {AcceptHd(c)}
           u == SetHds(w, H)
           E == D \ {AcceptHd(c)}
<1>1. w \in ServerType /\ H \in SUBSET Handlers
  BY DEF Base, ServerType
<1>2. DeleteAccept(w, c) = u
  BY DEF DeleteAccept, SetHds
<1>3. /\ u \in ServerType /\ u.hds = H /\ u.con = w.con /\ u.fds = w.fds /\ u.reg = w.reg
      /\ u.batch = w.batch /\ u.dels = w.dels /\ u.late = w.late
      /\ u.abort = w.abort /\ u.odd = w.odd
  BY <1>1, SetHdsType
<1> HIDE DEF u
<1>4. Base(u)
  BY <1>3, BaseFds DEF SameSession
<1>5. ASSUME Quiet(u) PROVE Quiet(w) /\ Owns(u, E)
  <2>1. Quiet(w)
    BY <1>3, <1>5 DEF Quiet
  <2>2. Owns(w, D) /\ AcceptHd(c) \in D
    BY <2>1
  <2>3. Owner(w.fds, w.reg, w.hds, x, c, D) /\ ~x.fail
    BY <2>2 DEF Owns, Sockets
  <2>4. AcceptHd(c) \notin u.hds /\ AcceptHd(c) \notin E /\ (SpdyHd(c) \in u.hds <=> SpdyHd(c) \in w.hds)
    BY <1>3, HandlersDiffer
  <2>5. Owner(u.fds, u.reg, u.hds, x, c, E)
    <3> HIDE DEF x, E
    <3>1. QED
      BY <1>3, <2>2, <2>3, <2>4 DEF Owner
  <2>6. OthersSame(w, u, c, D, E)
    BY <1>3, HandlersDiffer DEF OthersSame
  <2>7. ListenHd \in u.hds /\ ListenHd \notin E
    BY <1>3, <2>2, HandlersDiffer DEF Owns, Sockets
  <2>8. \A g \in Fds : u.fds[g] = Socket(c) => u.con[c].st = "up" /\ u.con[c].fd = g
    BY <1>3, <2>2 DEF Owns, Sockets
  <2>9. u.con[c] = x
    BY <1>3
  <2> HIDE DEF E, x, H
  <2>10. Owns(u, E)
    BY <1>1, <1>3, <2>2, <2>5, <2>6, <2>7, <2>8, <2>9, OwnsChange
  <2>11. QED
    BY <2>1, <2>10
<1>6. QED
  BY <1>2, <1>3, <1>4, <1>5

\* on_close of the handler h, one of those in D.
LEMMA DeleteHdOK ==
  ASSUME NEW w, Base(w), NEW h \in Handlers, NEW D, Quiet(w) => Owns(w, D) /\ h \in D /\ h \in w.hds
  PROVE  LET u == DeleteHd(w, h)
         IN  /\ Base(u) /\ u.batch = w.batch /\ u.dels = w.dels /\ u.hds = w.hds \ {h}
             /\ Quiet(u) => Quiet(w) /\ Owns(u, D \ {h})
<1> DEFINE u == DeleteHd(w, h)
           E == D \ {h}
<1>1. w \in ServerType
  BY DEF Base
<1>2. Quiet(w) => ListenHd \in w.hds /\ ListenHd \notin D
  BY DEF Owns, Sockets
<1>3. ASSUME NEW c \in Peers, Removes(w, u, c, h, D), h \in {AcceptHd(c), SpdyHd(c)},
             Quiet(w) => (h = AcceptHd(c) => SpdyHd(c) \notin w.hds),
             Quiet(w) => (h = SpdyHd(c) => (AcceptHd(c) \in w.hds => AcceptHd(c) \in D))
      PROVE  /\ Base(u) /\ u.batch = w.batch /\ u.dels = w.dels /\ u.hds = w.hds \ {h}
             /\ Quiet(u) => Quiet(w) /\ Owns(u, E)
  <2> HIDE DEF u
  <2>1. Base(u) /\ u.batch = w.batch /\ u.dels = w.dels /\ u.hds = w.hds \ {h}
    BY <1>3 DEF Removes
  <2>2. ASSUME Quiet(u) PROVE Quiet(w) /\ Owns(u, E)
    <3>1. Quiet(w) /\ (Leaving(w, u, c, D, E) => Owns(u, E))
      BY <1>3, <2>2 DEF Removes
    <3>2. SpdyHd(c) \notin u.hds /\ ListenHd \in u.hds /\ ListenHd \notin E
      BY <1>2, <1>3, <2>1, <3>1, HandlersDiffer
    <3>3. AcceptHd(c) \in u.hds => AcceptHd(c) \in E
      BY <1>3, <2>1, <3>1, HandlersDiffer
    <3>4. \A d \in Peers : d # c => /\ AcceptHd(d) \in u.hds <=> AcceptHd(d) \in w.hds
                                    /\ SpdyHd(d) \in u.hds <=> SpdyHd(d) \in w.hds
                                    /\ AcceptHd(d) \in E <=> AcceptHd(d) \in D
      BY <1>3, <2>1, HandlersDiffer
    <3> HIDE DEF E
    <3>5. QED
      BY <3>1, <3>2, <3>3, <3>4 DEF Leaving
  <2>3. QED
    BY <2>1, <2>2
<1>4. CASE h = ListenHd
  <2> DEFINE H == w.hds \ {h}
             v == SetHds(w, H)
  <2>1. H \in SUBSET Handlers
    BY <1>1 DEF ServerType
  <2>2. u = v
    BY <1>4, HandlerParts DEF DeleteHd, SetHds
  <2>3. /\ v \in ServerType /\ v.hds = H /\ v.con = w.con /\ v.fds = w.fds /\ v.reg = w.reg
        /\ v.batch = w.batch /\ v.dels = w.dels /\ v.late = w.late /\ v.abort = w.abort /\ v.odd = w.odd
    BY <1>1, <2>1, SetHdsType
  <2> HIDE DEF v, u
  <2>4. Base(v)
    BY <2>3, BaseFds DEF SameSession
  <2>5. ~Quiet(v)
    BY <1>2, <1>4, <2>3 DEF Quiet
  <2>6. QED
    BY <2>2, <2>3, <2>4, <2>5 DEF u
<1>5. ASSUME NEW c \in Peers, h = AcceptHd(c) PROVE /\ Base(u) /\ u.batch = w.batch /\ u.dels = w.dels /\ u.hds = w.hds \ {h}
                                                    /\ Quiet(u) => Quiet(w) /\ Owns(u, E)
  <2>1. u = DeleteAccept(w, c)
    BY <1>5, HandlerParts DEF DeleteHd
  <2> HIDE DEF u
  <2>2. CASE w.con[c].fail
    <3>1. Removes(w, u, c, h, D)
      BY <1>5, <2>1, <2>2, DeleteFailedOK
    <3>2. Quiet(w) => SpdyHd(c) \notin w.hds
      BY <2>2 DEF Owns, Sockets, Owner
    <3>3. QED
      BY <1>3, <1>5, <3>1, <3>2, HandlersDiffer
  <2>3. CASE ~w.con[c].fail
    BY <1>5, <2>1, <2>3, DeleteAcceptOK
  <2>4. QED
    BY <2>2, <2>3
<1>6. ASSUME NEW c \in Peers, h = SpdyHd(c) PROVE /\ Base(u) /\ u.batch = w.batch /\ u.dels = w.dels /\ u.hds = w.hds \ {h}
                                                  /\ Quiet(u) => Quiet(w) /\ Owns(u, E)
  <2>1. u = DeleteSpdy(w, c)
    BY <1>6, HandlerParts DEF DeleteHd
  <2> HIDE DEF u
  <2>2. Quiet(w) => w.con[c].st = "up" /\ (AcceptHd(c) \in w.hds => AcceptHd(c) \in D)
    BY <1>6 DEF Owns, Sockets, Owner
  <2>3. Removes(w, u, c, h, D)
    BY <1>6, <2>1, <2>2, DeleteSpdyOK
  <2>4. QED
    BY <1>3, <1>6, <2>2, <2>3, HandlersDiffer
<1>7. QED
  BY <1>4, <1>5, <1>6 DEF Handlers

\* A turn of the loop over del_list.
LEMMA DeleteTurnOK ==
  ASSUME NEW w, Inv(w), w.batch = <<>>
  PROVE  LET u == DeleteTurn(w) IN Inv(u) /\ u.batch = <<>>
<1> DEFINE q == w.dels
           h == Head(q)
           a == SetDels(w, Tail(q))
           u == DeleteHd(a, h)
           D == Marks(w)
<1>1. w \in ServerType /\ Base(w) /\ q \in Seq(Handlers)
  BY RoundParts DEF Inv, Base
<1>2. CASE q = <<>>
  BY <1>2 DEF DeleteTurn
<1>3. CASE q # <<>>
  <2>1. Tail(q) \in Seq(Handlers) /\ h \in Handlers
    BY <1>1, <1>3
  <2>2. DeleteTurn(w) = u
    BY <1>3 DEF DeleteTurn, SetDels
  <2>3. a \in ServerType /\ SameBut(w, a) /\ a.batch = w.batch /\ a.dels = Tail(q)
    BY <1>1, <2>1, SetDelsType
  <2> HIDE DEF a, h
  <2>4. Base(a) /\ a.hds = w.hds
    BY <1>1, <2>3, SameBase DEF SameBut
  <2>5. ASSUME Quiet(a) PROVE Quiet(w) /\ Rounds(w) /\ Owns(a, D) /\ h \in D /\ h \in a.hds
    <3>1. Quiet(w) /\ Rounds(w) /\ Owns(a, D)
      BY <2>3, <2>5, SameOwns DEF Inv
    <3> DEFINE b == SetHds(a, w.hds \ {h})
    <3>2. w.hds \ {h} \in SUBSET Handlers
      BY <1>1 DEF ServerType
    <3>3. b \in ServerType /\ b.hds = w.hds \ {h} /\ b.batch = a.batch /\ b.dels = a.dels
      BY <2>3, <3>2, SetHdsType
    <3> HIDE DEF b
    <3>4. h \in w.hds /\ h \in D
      BY <1>1, <1>3, <2>3, <3>1, <3>3, RoundEnds DEF h
    <3>5. QED
      BY <2>4, <3>1, <3>4
  <2> HIDE DEF D
  <2>6. /\ Base(u) /\ u.batch = a.batch /\ u.dels = a.dels /\ u.hds = a.hds \ {h}
        /\ Quiet(u) => Quiet(a) /\ Owns(u, D \ {h})
    BY <2>1, <2>4, <2>5, DeleteHdOK
  <2> HIDE DEF u
  <2>7. ASSUME Quiet(u) PROVE Owns(u, Marks(u)) /\ Rounds(u)
    <3>1. Rounds(w) /\ Owns(u, D \ {h})
      BY <2>5, <2>6, <2>7
    <3>2. u \in ServerType
      BY <2>6 DEF Base
    <3>3. Rounds(u) /\ Marks(u) = Marks(w) \ {h}
      BY <1>1, <1>3, <2>3, <2>4, <2>6, <3>1, <3>2, RoundEnds DEF h
    <3>4. QED
      BY <3>1, <3>3 DEF D
  <2>8. QED
    BY <2>2, <2>3, <2>6, <2>7 DEF Inv
<1>4. QED
  BY <1>2, <1>3

Deletion(w, n, f) == f = [i \in 0..n |-> IF i = 0 THEN w ELSE DeleteTurn(f[i - 1])]

LEMMA DeleteMarkedOK ==
  ASSUME Inv(sv), DeleteMarked
  PROVE  Inv(sv')
<1> DEFINE n == Len(sv.dels)
           S == {w \in ServerType : Inv(w) /\ w.batch = <<>>}
           G == [i \in 1..n |-> [w \in S |-> DeleteTurn(w)]]
           run == CHOOSE f : Deletion(sv, n, f)
<1>1. n \in Nat /\ sv \in S
  BY RoundParts DEF Inv, Base, DeleteMarked
<1>2. \A w \in S : DeleteTurn(w) \in S
  BY DeleteTurnOK DEF Inv, Base
<1> HIDE DEF S, n
<1>3. G \in [1..n -> [S -> S]] /\ \A i \in 1..n : \A w \in S : G[i][w] = DeleteTurn(w)
  BY <1>2
<1> HIDE DEF G
<1>4. PICK f : f \in [0..n -> S] /\ Run(n, sv, G, f)
  BY <1>1, <1>3, RunExists
<1>5. Deletion(sv, n, f)
  <2>1. ASSUME NEW i \in 0..n, i # 0 PROVE f[i] = DeleteTurn(f[i - 1])
    <3>1. i \in 1..n /\ i - 1 \in 0..n
      BY <1>1, <2>1
    <3>2. f[i] = G[i][f[i - 1]]
      BY <1>4, <3>1 DEF Run
    <3>3. QED
      BY <1>3, <1>4, <3>1, <3>2
  <2>2. f[0] = sv
    BY <1>4 DEF Run
  <2>3. f \in [0..n -> S]
    BY <1>4
  <2>4. QED
    BY <2>1, <2>2, <2>3 DEF Deletion
<1>6. Deletion(sv, n, run)
  BY <1>5
<1>7. sv' = run[n]
  BY Zenon DEF DeleteMarked, Deletion, n
<1> HIDE DEF run
<1>8. run[n] \in S
  <2> DEFINE T == {i \in 0..n : run[i] \in S}
  <2>1. run[0] = sv /\ 0 \in 0..n /\ \A i \in 0..n : i # 0 => run[i] = DeleteTurn(run[i - 1])
    BY <1>1, <1>6 DEF Deletion
  <2>2. 0 \in T
    BY <1>1, <2>1
  <2>3. ASSUME NEW i \in 0..(n - 1), i \in T PROVE i + 1 \in T
    <3>1. i + 1 \in 0..n /\ i + 1 # 0 /\ (i + 1) - 1 = i
      BY <1>1
    <3>2. run[i + 1] = DeleteTurn(run[i])
      BY <2>1, <3>1
    <3>3. QED
      BY <1>2, <2>3, <3>1, <3>2
  <2>4. \A i \in 0..n : i \in T
    <3> HIDE DEF T
    <3> QED
      BY <1>1, <2>2, <2>3, UpTo
  <2>5. QED
    BY <1>1, <2>4
<1>9. QED
  BY <1>7, <1>8 DEF S
-----------------------------------------------------------------------------
(* The steps of the loop and of the clients.                               *)

LEMMA ReadyEvents ==
  ASSUME NEW w, NEW h \in Handlers
  PROVE  Ready(w, h) \subseteq {"io", "hup"} /\ ("hup" \in Ready(w, h) => h # ListenHd)
<1>1. CASE h = ListenHd
  BY <1>1, HandlerParts DEF Ready
<1>2. ASSUME NEW c \in Peers, h = AcceptHd(c) PROVE Ready(w, h) \subseteq {"io", "hup"} /\ h # ListenHd
  BY <1>2, HandlerParts, HandlersDiffer DEF Ready
<1>3. ASSUME NEW c \in Peers, h = SpdyHd(c) PROVE Ready(w, h) \subseteq {"io", "hup"} /\ h # ListenHd
  BY <1>3, HandlerParts, HandlersDiffer DEF Ready
<1>4. QED
  BY <1>1, <1>2, <1>3 DEF Handlers

\* epoll knows only handlers that exist.
LEMMA RegExists ==
  ASSUME NEW w \in ServerType, NEW D, Owns(w, D), NEW f \in Fds, w.reg[f] # NoHandler
  PROVE  w.reg[f] \in w.hds
<1>1. CASE w.reg[f] = ListenHd
  BY <1>1 DEF Owns, Sockets
<1>2. ASSUME NEW c \in Peers, w.fds[f] = Socket(c) PROVE w.reg[f] \in w.hds
  <2>1. w.con[c].st = "up" /\ w.con[c].fd = f /\ Owner(w.fds, w.reg, w.hds, w.con[c], c, D)
    BY <1>2 DEF Owns, Sockets
  <2>2. QED
    BY <2>1 DEF Owner
<1>3. QED
  BY <1>1, <1>2 DEF Owns, Sockets

LEMMA PollOK ==
  ASSUME Inv(sv), Poll
  PROVE  Inv(sv')
<1> DEFINE events == UNION {{<<sv.reg[f], e>> : e \in Ready(sv, sv.reg[f])} :
                              f \in {g \in Fds : sv.reg[g] # NoHandler}}
           Event == Handlers \X {"io", "hup"}
<1>1. sv \in ServerType /\ Base(sv) /\ sv.dels = <<>> /\ sv.reg \in [Fds -> Handlers \cup {NoHandler}]
  BY DEF Inv, Base, Poll, Between, ServerType
<1>2. ASSUME NEW v \in events
      PROVE  /\ v \in Event /\ (v[2] = "hup" => v[1] # ListenHd)
             /\ Quiet(sv) => v[1] \in sv.hds
  <2>0. PICK f \in Fds : sv.reg[f] # NoHandler /\ \E e \in Ready(sv, sv.reg[f]) : v = <<sv.reg[f], e>>
    BY <1>2
  <2>1. PICK e \in Ready(sv, sv.reg[f]) : sv.reg[f] # NoHandler /\ v = <<sv.reg[f], e>>
    BY <2>0
  <2>2. sv.reg[f] \in Handlers
    BY <1>1, <2>1
  <2>3. e \in {"io", "hup"} /\ (e = "hup" => sv.reg[f] # ListenHd)
    BY <2>1, <2>2, ReadyEvents
  <2>4. Quiet(sv) => sv.reg[f] \in sv.hds
    BY <1>1, <2>1, RegExists DEF Inv
  <2>5. QED
    BY <2>1, <2>2, <2>3, <2>4
<1>3. PICK b \in SeqOf(events, Cardinality(Fds)) :
        (\A i, j \in 1..Len(b) : b[i][1] = b[j][1] => i = j) /\ sv' = [sv EXCEPT !.batch = b]
  BY DEF Poll
<1> HIDE DEF events, Event
<1>4. b \in Seq(events)
  BY <1>3 DEF SeqOf
<1>5. b \in Seq(Event) /\ Len(b) \in Nat /\ \A i \in 1..Len(b) : b[i] \in events
  <2>1. \A i \in 1..Len(b) : b[i] \in events
    BY <1>4
  <2>2. QED
    BY <1>2, <1>4, <2>1
<1> DEFINE u == SetBatch(sv, b)
<1>6. u \in ServerType /\ SameBut(sv, u) /\ u.batch = b /\ u.dels = sv.dels
  BY <1>1, <1>5, SetBatchType DEF Event
<1>7. sv' = u
  BY <1>3 DEF SetBatch
<1> HIDE DEF u
<1>8. Base(u)
  BY <1>1, <1>6, SameBase
<1>9. ASSUME Quiet(u) PROVE Owns(u, Marks(u)) /\ Rounds(u)
  <2>1. Quiet(sv) /\ u.hds = sv.hds
    BY <1>6, <1>9 DEF Quiet, SameBut
  <2>2. Owns(sv, Marks(sv)) /\ Rounds(sv)
    BY <2>1 DEF Inv
  <2>3. Marks(u) = {} /\ Marks(sv) = {} /\ Len(u.dels) = 0
    BY <1>1, <1>6 DEF Marks
  <2>4. Owns(u, Marks(u))
    BY <1>6, <2>2, <2>3, SameOwns
  <2>5. \A i \in 1..Len(b) : b[i][1] \in u.hds /\ (b[i][2] = "hup" => b[i][1] # ListenHd)
    BY <1>2, <1>5, <2>1
  <2>6. Rounds(u)
    BY <1>3, <1>6, <2>3, <2>5 DEF Rounds
  <2>7. QED
    BY <2>4, <2>6
<1>10. QED
  BY <1>7, <1>8, <1>9 DEF Inv

SetAbort(w, k) == [w EXCEPT !.abort = k]

LEMMA DeadOK ==
  ASSUME NEW s, NEW w, NEW h, Calls(s, w, h), s.abort = "none", h \notin s.hds
  PROVE  Inv(SetAbort(w, "dead_handler"))
<1> DEFINE u == SetAbort(w, "dead_handler")
<1>1. w \in ServerType /\ Base(w) /\ w.abort = "none" /\ ~Quiet(w)
  BY DEF Calls
<1>2. u \in ServerType /\ u.con = w.con /\ u.odd = w.odd /\ u.abort = "dead_handler"
  BY <1>1 DEF SetAbort, ServerType
<1>3. u.odd # {} /\ ~Quiet(u) /\ ~Plain(u)
  BY <1>1, <1>2 DEF Quiet, Plain
<1> HIDE DEF u
<1>4. \A c \in Peers : RestOK(u, c)
  BY <1>1, <1>2, <1>3 DEF RestOK, Base
<1>5. QED
  BY <1>2, <1>3, <1>4 DEF Inv, Base, u

LEMMA DispatchOK ==
  ASSUME Inv(sv), Dispatch
  PROVE  Inv(sv')
<1> DEFINE h == Head(sv.batch)[1]
           w == SetBatch(sv, Tail(sv.batch))
<1>1. sv.batch # <<>> /\ sv.abort = "none"
  BY DEF Dispatch, Works
<1>2. Calls(sv, w, h)
  BY <1>1, CallsIs
<1>3. \/ h \notin sv.hds /\ sv' = SetAbort(w, "dead_handler")
      \/ Head(sv.batch)[2] = "hup"
         /\ sv' = After([w |-> IF h[1] = "accept" THEN [w EXCEPT !.odd = @ \cup {"hup"}] ELSE w, del |-> TRUE], h)
      \/ h[1] = "listen" /\ \E how \in {"ok", "fails"} \cup ({"blocks"} \cap w.visit.faults) : sv' = After(Accepts(w, how), h)
      \/ h[1] = "accept" /\ \E how \in {"again", "ok", "fails", "nopoll"} : sv' = After(Handshakes(w, h[2], how), h)
      \/ h[1] = "spdy" /\ \E env \in Envs(w, h[2]), n \in Writes, b \in BOOLEAN :
           sv' = After(Executes(w, h[2], env, n, b), h)
  BY Zenon DEF Dispatch, After, SetBatch, SetAbort
<1> HIDE DEF w, h
<1>4. h \in Handlers
  BY <1>2 DEF Calls
<1>5. CASE h \notin sv.hds /\ sv' = SetAbort(w, "dead_handler")
  BY <1>1, <1>2, <1>5, DeadOK
<1>6. CASE Head(sv.batch)[2] = "hup"
         /\ sv' = After([w |-> IF h[1] = "accept" THEN [w EXCEPT !.odd = @ \cup {"hup"}] ELSE w, del |-> TRUE], h)
  BY <1>2, <1>6, CallsHup
<1>7. CASE h[1] = "listen" /\ \E how \in {"ok", "fails"} \cup ({"blocks"} \cap w.visit.faults) : sv' = After(Accepts(w, how), h)
  <2>1. h = ListenHd
    BY <1>4, <1>7, HandlerParts DEF Handlers
  <2>2. PICK how \in {"ok", "fails", "blocks"} : sv' = After(Accepts(w, how), h)
    BY <1>7
  <2>3. QED
    BY <1>2, <2>1, <2>2, CallsListen
<1>8. CASE h[1] = "accept" /\ \E how \in {"again", "ok", "fails", "nopoll"} : sv' = After(Handshakes(w, h[2], how), h)
  <2>1. PICK c \in Peers : h = AcceptHd(c)
    BY <1>4, <1>8, HandlerParts DEF Handlers
  <2>2. PICK how \in {"again", "ok", "fails", "nopoll"} : sv' = After(Handshakes(w, c, how), h)
    BY <1>8, <2>1, HandlerParts
  <2>3. QED
    BY <1>2, <2>1, <2>2, CallsAccept
<1>9. CASE h[1] = "spdy" /\ \E env \in Envs(w, h[2]), n \in Writes, b \in BOOLEAN :
           sv' = After(Executes(w, h[2], env, n, b), h)
  <2>1. PICK c \in Peers : h = SpdyHd(c)
    BY <1>4, <1>9, HandlerParts DEF Handlers
  <2>2. PICK env \in Envs(w, c), n \in Writes, b \in BOOLEAN : sv' = After(Executes(w, c, env, n, b), h)
    BY <1>9, <2>1, HandlerParts
  <2>3. QED
    BY <1>2, <2>1, <2>2, CallsSpdy
<1>10. QED
  BY <1>3, <1>5, <1>6, <1>7, <1>8, <1>9

\* What a client does between rounds: only its connection changes, and the server
\* has not looked at it yet.
Talks(x, y) ==
  /\ y \in PeerType /\ ConOK(y) /\ y.str = x.str /\ y.req = x.req /\ y.aob = x.aob /\ y.fd = x.fd /\ y.fail = x.fail
  /\ y.st = x.st \/ (x.st = "none" /\ y.st = "backlog")

LEMMA TalksInv ==
  ASSUME NEW w, Inv(w), NEW c \in Peers, NEW y, Talks(w.con[c], y)
  PROVE  Inv(Put(w, c, y))
<1> DEFINE x == w.con[c]
           v == Put(w, c, y)
<1>1. w \in ServerType /\ Base(w) /\ y \in PeerType /\ ConOK(y) /\ y.str = x.str /\ y.req = x.req /\ y.aob = x.aob
      /\ y.fd = x.fd /\ y.fail = x.fail /\ (y.st = x.st \/ (x.st = "none" /\ y.st = "backlog"))
  BY DEF Inv, Base, Talks
<1>2. /\ v \in ServerType /\ v.con[c] = y /\ (\A d \in Peers : d # c => v.con[d] = w.con[d])
      /\ v.fds = w.fds /\ v.reg = w.reg /\ v.hds = w.hds /\ v.batch = w.batch
      /\ v.dels = w.dels /\ v.late = w.late /\ v.odd = w.odd /\ v.abort = w.abort
  BY <1>1, ConSet DEF Put
<1> HIDE DEF v
<1>3. (Plain(v) <=> Plain(w)) /\ (Quiet(v) <=> Quiet(w)) /\ Marks(v) = Marks(w)
  BY <1>2 DEF Plain, Quiet, Marks
<1>4. ASSUME NEW d \in Peers PROVE RestOK(v, d)
  <2>1. RestOK(w, d)
    BY <1>1 DEF Base
  <2>2. CASE d # c
    BY <1>2, <1>3, <2>1, <2>2 DEF RestOK
  <2>3. CASE d = c
    <3>1. FilesBut(w.fds, x, c, -1) => FilesBut(v.fds, y, c, -1)
      <4> HIDE DEF x
      <4>1. QED
        BY <1>1, <1>2 DEF FilesBut
    <3>2. QED
      BY <1>1, <1>2, <1>3, <2>1, <2>3, <3>1 DEF RestOK
  <2>4. QED
    BY <2>2, <2>3
<1>5. Base(v)
  BY <1>1, <1>2, <1>3, <1>4 DEF Base
<1>6. ASSUME Quiet(v) PROVE Owns(v, Marks(v)) /\ Rounds(v)
  <2> DEFINE D == Marks(w)
  <2>1. Owns(w, D) /\ Rounds(w)
    BY <1>3, <1>6 DEF Inv
  <2>2. Owner(w.fds, w.reg, w.hds, x, c, D)
    BY <2>1 DEF Owns, Sockets
  <2> HIDE DEF D
  <2>3. Owner(v.fds, v.reg, v.hds, y, c, D)
    <3> HIDE DEF x
    <3>1. QED
      BY <1>1, <1>2, <2>2 DEF Owner
  <2>4. OthersSame(w, v, c, D, D)
    BY <1>2 DEF OthersSame
  <2>5. ListenHd \in v.hds /\ ListenHd \notin D
    BY <1>2, <2>1 DEF Owns, Sockets
  <2>6. \A g \in Fds : v.fds[g] = Socket(c) => v.con[c].st = "up" /\ v.con[c].fd = g
    <3>1. \A g \in Fds : w.fds[g] = Socket(c) => x.st = "up" /\ x.fd = g
      BY <2>1 DEF Owns, Sockets
    <3> HIDE DEF x
    <3>2. QED
      BY <1>1, <1>2, <3>1
  <2>7. Owns(v, D)
    BY <1>1, <1>2, <2>1, <2>3, <2>4, <2>5, <2>6, OwnsChange
  <2>8. Rounds(v)
    BY <1>2, <1>3, <2>1 DEF Rounds
  <2>9. QED
    BY <1>3, <2>7, <2>8 DEF D
<1>7. QED
  BY <1>5, <1>6 DEF Inv, v

\* x with another frame of the client.
Says(x, a, k, i) == [x EXCEPT !.ask = a, !.sent = k, !.in = i]
Hangs(x) == [x EXCEPT !.eof = TRUE]

LEMMA SaysType ==
  ASSUME NEW x \in PeerType, NEW a \in WebRequest, NEW k \in {"none", "syn", "fin"},
         NEW i \in [k : {"none", "syn", "fin", "rst", "goaway"}, fin : BOOLEAN, s : Ids0]
  PROVE  LET y == Says(x, a, k, i)
         IN  /\ y \in PeerType /\ y.sent = k /\ y.in = i /\ y.str = x.str /\ y.q = x.q /\ y.req = x.req
             /\ y.aob = x.aob /\ y.fd = x.fd /\ y.fail = x.fail /\ y.st = x.st
  BY DEF Says, PeerType

LEMMA SaysTalks ==
  ASSUME NEW x \in PeerType, NEW a \in WebRequest, NEW k \in {"none", "syn", "fin"},
         NEW i \in [k : {"none", "syn", "fin", "rst", "goaway"}, fin : BOOLEAN, s : Ids0],
         ConOK(x), Asking(Says(x, a, k, i))
  PROVE  Talks(x, Says(x, a, k, i))
<1> DEFINE y == Says(x, a, k, i)
<1>1. /\ y \in PeerType /\ y.str = x.str /\ y.q = x.q /\ y.req = x.req
      /\ y.aob = x.aob /\ y.fd = x.fd /\ y.fail = x.fail /\ y.st = x.st
  BY SaysType
<1> HIDE DEF y
<1>2. Unasked(y) /\ Announced(y) /\ Shut(y) /\ Framed(y)
  BY <1>1 DEF ConOK, Unasked, Fresh, Announced, Shut, Framed, FrameOK
<1>3. Asking(y)
  BY DEF y
<1>4. QED
  BY <1>1, <1>2, <1>3 DEF Talks, ConOK, y

LEMMA OtherTalks ==
  ASSUME NEW x \in PeerType, ConOK(x)
  PROVE  Talks(x, Hangs(x)) /\ (x.st = "none" => Talks(x, WithSt(x, "backlog")))
<1>1. ASSUME NEW y \in PeerType, SameSession(x, y), y.fd = x.fd, y.fail = x.fail,
             y.st = x.st \/ (x.st = "none" /\ y.st = "backlog")
      PROVE  Talks(x, y)
  <2>1. ConOK(y)
    BY <1>1 DEF SameSession, ConOK, Unasked, Fresh, Asking, Announced, Shut, Framed, FrameOK
  <2>2. QED
    BY <1>1, <2>1 DEF Talks, SameSession
<1>2. Hangs(x) \in PeerType /\ SameSession(x, Hangs(x)) /\ Hangs(x).fd = x.fd /\ Hangs(x).fail = x.fail
      /\ Hangs(x).st = x.st
  BY DEF Hangs, PeerType, SameSession
<1>3. WithSt(x, "backlog") \in PeerType /\ SameSession(x, WithSt(x, "backlog")) /\ WithSt(x, "backlog").st = "backlog"
      /\ WithSt(x, "backlog").fail = x.fail /\ WithSt(x, "backlog").fd = x.fd
  BY ServerAssumption, StType
<1>4. QED
  BY <1>1, <1>2, <1>3

LEMMA PeerConnectsOK ==
  ASSUME Inv(sv), NEW c \in Peers, PeerConnects(c)
  PROVE  Inv(sv')
<1>1. sv.con[c] \in PeerType /\ ConOK(sv.con[c]) /\ sv.con[c].st = "none"
  BY TypeParts, ZeroId DEF Inv, Base, RestOK, PeerConnects
<1>2. sv' = Put(sv, c, WithSt(sv.con[c], "backlog"))
  BY DEF PeerConnects, Put, WithSt
<1>3. Talks(sv.con[c], WithSt(sv.con[c], "backlog"))
  BY <1>1, OtherTalks
<1>4. QED
  BY <1>2, <1>3, TalksInv

LEMMA PeerClosesOK ==
  ASSUME Inv(sv), NEW c \in Peers, PeerCloses(c)
  PROVE  Inv(sv')
<1>1. sv.con[c] \in PeerType /\ ConOK(sv.con[c])
  BY TypeParts, ZeroId DEF Inv, Base, RestOK
<1>2. sv' = Put(sv, c, Hangs(sv.con[c]))
  BY DEF PeerCloses, Put, Hangs
<1>3. Talks(sv.con[c], Hangs(sv.con[c]))
  BY <1>1, OtherTalks
<1>4. QED
  BY <1>2, <1>3, TalksInv

\* The three fields are set one after the other.
SetSays(w, c, a, k, i) == [w EXCEPT !.con[c].ask = a, !.con[c].sent = k, !.con[c].in = i]
SetSent(w, c, k, i) == [w EXCEPT !.con[c].sent = k, !.con[c].in = i]

LEMMA SaysPuts ==
  ASSUME NEW w \in ServerType, NEW c \in Peers, NEW a, NEW k, NEW i
  PROVE  /\ SetSays(w, c, a, k, i) = Put(w, c, Says(w.con[c], a, k, i))
         /\ SetSent(w, c, k, i) = Put(w, c, Says(w.con[c], w.con[c].ask, k, i))
<1> DEFINE x == w.con[c]
           y1 == [x EXCEPT !.ask = a]
           y2 == [y1 EXCEPT !.sent = k]
           y3 == [y2 EXCEPT !.in = i]
           u1 == [w EXCEPT !.con[c].ask = a]
           u2 == [u1 EXCEPT !.con[c].sent = k]
           u3 == [u2 EXCEPT !.con[c].in = i]
           z2 == [x EXCEPT !.sent = k]
           z3 == [z2 EXCEPT !.in = i]
           v2 == [w EXCEPT !.con[c].sent = k]
           v3 == [v2 EXCEPT !.con[c].in = i]
<1>1. SetSays(w, c, a, k, i) = u3 /\ y3 = Says(x, a, k, i) /\ SetSent(w, c, k, i) = v3
  BY DEF SetSays, SetSent, Says
<1>2. z3 = Says(x, x.ask, k, i)
  <2>1. x \in PeerType
    BY TypeParts, ZeroId
  <2> HIDE DEF x
  <2>2. [x EXCEPT !.ask = x.ask] = x
    BY <2>1 DEF PeerType
  <2>3. QED
    BY <2>2 DEF Says
<1>3. u1 = Put(w, c, y1) /\ v2 = Put(w, c, z2)
  BY DEF Put
<1> HIDE DEF u1, y1, v2, z2
<1>4. u1.con[c] = y1 /\ v2.con[c] = z2
  BY <1>3, PutPut
<1>5. u2 = Put(u1, c, [u1.con[c] EXCEPT !.sent = k]) /\ v3 = Put(v2, c, [v2.con[c] EXCEPT !.in = i])
  BY DEF Put
<1>6. u2 = Put(Put(w, c, y1), c, y2) /\ v3 = Put(Put(w, c, z2), c, z3)
  BY <1>3, <1>4, <1>5
<1> HIDE DEF u2, y2, v3, z3
<1>7. u2 = Put(w, c, y2) /\ v3 = Put(w, c, z3)
  BY <1>6, PutPut
<1>8. u2.con[c] = y2
  BY <1>7, PutPut
<1>9. u3 = Put(u2, c, [u2.con[c] EXCEPT !.in = i])
  BY DEF Put
<1>10. u3 = Put(Put(w, c, y2), c, y3)
  BY <1>7, <1>8, <1>9
<1> HIDE DEF u3, y3
<1>11. u3 = Put(w, c, y3)
  BY <1>10, PutPut
<1>12. QED
  BY <1>1, <1>2, <1>7, <1>11

LEMMA PeerSendsOK ==
  ASSUME Inv(sv), NEW c \in Peers, PeerSends(c)
  PROVE  Inv(sv')
<1> DEFINE x == sv.con[c]
<1>1. sv \in ServerType /\ x \in PeerType /\ ConOK(x) /\ x.in.k = "none" /\ x.ask \in WebRequest
      /\ x.sent \in {"none", "syn", "fin"}
  <2>1. sv \in ServerType /\ x \in PeerType /\ ConOK(x)
    BY TypeParts, ZeroId DEF Inv, Base, RestOK
  <2>2. x.in.k = "none"
    <3>1. x.in = NoInput
      BY Zenon DEF PeerSends
    <3>2. QED
      BY <3>1 DEF NoInput, Input
  <2> HIDE DEF x
  <2>3. QED
    BY <2>1, <2>2 DEF PeerType
<1>2. ASSUME NEW a \in WebRequest, NEW k \in {"none", "syn", "fin"},
             NEW i \in [k : {"none", "syn", "fin", "rst", "goaway"}, fin : BOOLEAN, s : Ids0],
             sv' = Put(sv, c, Says(x, a, k, i)), Asking(Says(x, a, k, i))
      PROVE  Inv(sv')
  <2>1. Talks(x, Says(x, a, k, i))
    <3> HIDE DEF x
    <3>1. QED
      BY <1>1, <1>2, SaysTalks
  <2>2. QED
    BY <1>2, <2>1, TalksInv
<1>3. ASSUME NEW a \in WebRequest, NEW k \in {"none", "syn", "fin"},
             NEW i \in [k : {"none", "syn", "fin", "rst", "goaway"}, fin : BOOLEAN, s : Ids0],
             /\ i.k = "syn" => x.str[0].st = "none" /\ (i.fin => k = "fin")
             /\ i.k = "fin" => x.str[0].st = "opening" /\ ~x.str[0].rfin /\ k = "fin"
             /\ i.k = "rst" /\ i.s = 0 => k = "fin"
             /\ k = "syn" /\ i.k # "syn" => x.str[0].st = "opening" /\ ~x.str[0].rfin
             /\ k # "none"
      PROVE  Asking(Says(x, a, k, i))
  <2> DEFINE y == Says(x, a, k, i)
  <2>1. y.sent = k /\ y.in = i /\ y.str = x.str
    <3> HIDE DEF x
    <3>1. QED
      BY <1>1, SaysType
  <2> HIDE DEF y, x
  <2>2. QED
    BY <1>3, <2>1 DEF Asking, y
<1>4. \A k \in {"none", "syn", "fin", "rst", "goaway"}, b \in BOOLEAN, s \in Ids0 :
        /\ Input(k, b, s) \in [k : {"none", "syn", "fin", "rst", "goaway"}, fin : BOOLEAN, s : Ids0]
        /\ Input(k, b, s).k = k /\ Input(k, b, s).fin = b /\ Input(k, b, s).s = s
  BY DEF Input
<1>5. CASE /\ x.sent = "none"
           /\ \E a \in sv.visit.asks[c] : sv' = SetSays(sv, c, a, IF a.fin THEN "fin" ELSE "syn", Input("syn", a.fin, 0))
  <2>1. PICK a \in sv.visit.asks[c] : sv' = SetSays(sv, c, a, IF a.fin THEN "fin" ELSE "syn", Input("syn", a.fin, 0))
    BY <1>5
  <2> DEFINE k == IF a.fin THEN "fin" ELSE "syn"
             i == Input("syn", a.fin, 0)
  <2>2. a \in WebRequest /\ a.fin \in BOOLEAN
    <3>1. sv.visit \in Visits
      BY <1>1 DEF ServerType
    <3>2. sv.visit.asks \in [Peers -> SUBSET WebRequest]
      BY <3>1, ServerAssumption
    <3>3. a \in WebRequest
      BY <3>2
    <3>4. QED
      BY <3>3 DEF WebRequest
  <2>3. /\ i \in [k : {"none", "syn", "fin", "rst", "goaway"}, fin : BOOLEAN, s : Ids0]
        /\ i.k = "syn" /\ i.fin = a.fin
    BY <1>4, <2>2, ZeroId
  <2>4. k \in {"none", "syn", "fin"} /\ k # "none" /\ (a.fin => k = "fin")
    OBVIOUS
  <2>5. x.str[0].st = "none"
    BY <1>1, <1>5 DEF ConOK, Asking
  <2> HIDE DEF k, i, x
  <2>6. Asking(Says(x, a, k, i))
    BY <1>3, <2>2, <2>3, <2>4, <2>5
  <2>7. sv' = Put(sv, c, Says(x, a, k, i))
    BY <1>1, <2>1, SaysPuts DEF k, i, x
  <2>8. QED
    BY <1>2, <2>2, <2>3, <2>4, <2>6, <2>7
<1>6. ASSUME NEW k \in {"syn", "fin"},
             NEW i \in [k : {"none", "syn", "fin", "rst", "goaway"}, fin : BOOLEAN, s : Ids0],
             sv' = SetSent(sv, c, k, i), i.k # "syn",
             i.k = "fin" => x.str[0].st = "opening" /\ ~x.str[0].rfin /\ k = "fin",
             i.k = "rst" /\ i.s = 0 => k = "fin",
             k = "syn" => x.str[0].st = "opening" /\ ~x.str[0].rfin
      PROVE  Inv(sv')
  <2>1. sv' = Put(sv, c, Says(x, x.ask, k, i))
    BY <1>1, <1>6, SaysPuts
  <2> HIDE DEF x
  <2>2. Asking(Says(x, x.ask, k, i))
    BY <1>1, <1>3, <1>6
  <2>3. QED
    BY <1>1, <1>2, <1>6, <2>1, <2>2
<1>7. x.sent = "syn" => x.str[0].st = "opening" /\ ~x.str[0].rfin
  BY <1>1 DEF ConOK, Asking
<1>8. CASE x.sent = "syn" /\ sv' = SetSent(sv, c, "fin", Input("fin", FALSE, 0))
  <2> DEFINE i == Input("fin", FALSE, 0)
  <2>1. i \in [k : {"none", "syn", "fin", "rst", "goaway"}, fin : BOOLEAN, s : Ids0] /\ i.k = "fin"
    BY <1>4, ZeroId
  <2>2. sv' = SetSent(sv, c, "fin", i)
    BY <1>8
  <2> HIDE DEF i, x
  <2>3. QED
    BY <1>6, <1>7, <1>8, <2>1, <2>2
<1>9. ASSUME NEW s \in Ids0, x.str[s].st \in IF s = 0 THEN {"opening", "opened"} ELSE {"opened"},
             sv' = SetSent(sv, c, IF s = 0 THEN "fin" ELSE x.sent, Input("rst", FALSE, s))
      PROVE  Inv(sv')
  <2>1. x.sent # "none"
    <3>1. x.sent = "none" => x.str[0].st = "none" /\ \A t \in Pushed : x.str[t].st = "none"
      BY <1>1 DEF ConOK, Asking, Unasked, Fresh
    <3>2. QED
      BY <1>9, <3>1, ZeroId
  <2> DEFINE k == IF s = 0 THEN "fin" ELSE x.sent
             i == Input("rst", FALSE, s)
  <2>2. k \in {"syn", "fin"} /\ (s = 0 => k = "fin") /\ (k = "syn" => x.sent = "syn")
    BY <1>1, <2>1
  <2>3. i \in [k : {"none", "syn", "fin", "rst", "goaway"}, fin : BOOLEAN, s : Ids0] /\ i.k = "rst" /\ i.s = s
    BY <1>4
  <2>4. sv' = SetSent(sv, c, k, i)
    BY <1>9
  <2> HIDE DEF k, i, x
  <2>5. QED
    BY <1>6, <1>7, <2>2, <2>3, <2>4
<1>10. CASE x.sent # "none" /\ sv' = SetSent(sv, c, "fin", Input("goaway", FALSE, 0))
  <2> HIDE DEF x
  <2>1. QED
    BY <1>4, <1>6, <1>10, ZeroId
<1>11. \/ /\ x.sent = "none"
          /\ \E a \in sv.visit.asks[c] : sv' = SetSays(sv, c, a, IF a.fin THEN "fin" ELSE "syn", Input("syn", a.fin, 0))
       \/ x.sent = "syn" /\ sv' = SetSent(sv, c, "fin", Input("fin", FALSE, 0))
       \/ \E s \in Ids0 : /\ x.str[s].st \in IF s = 0 THEN {"opening", "opened"} ELSE {"opened"}
                          /\ sv' = SetSent(sv, c, IF s = 0 THEN "fin" ELSE x.sent, Input("rst", FALSE, s))
       \/ x.sent # "none" /\ sv' = SetSent(sv, c, "fin", Input("goaway", FALSE, 0))
  BY DEF PeerSends, SetSays, SetSent
<1>12. QED
  BY <1>5, <1>8, <1>9, <1>10, <1>11

LEMMA InitOK ==
  ASSUME ServerInit
  PROVE  Inv(sv)
<1>1. PICK visit \in Visits :
        sv = [visit |-> visit, fds |-> [f \in Fds |-> IF f = 1 THEN ListenSocket ELSE Free],
              reg |-> [f \in Fds |-> IF f = 1 THEN ListenHd ELSE NoHandler],
              hds |-> {ListenHd}, batch |-> <<>>, dels |-> <<>>, con |-> [c \in Peers |-> NewPeer],
              late |-> FALSE, odd |-> {}, abort |-> "none"]
  BY DEF ServerInit
<1> DEFINE p == NewPeer
           fds == [f \in Fds |-> IF f = 1 THEN ListenSocket ELSE Free]
           reg == [f \in Fds |-> IF f = 1 THEN ListenHd ELSE NoHandler]
           con == [c \in Peers |-> p]
<1>2. /\ p \in PeerType /\ p.st = "none" /\ ~p.fail /\ p.req = -1 /\ p.aob = NoFrame /\ ConOK(p)
      /\ \A s \in Ids0 : p.str[s].st = "none"
  <2>1. p \in PeerType /\ SameSession(Gone, p) /\ p.st = "none" /\ ~p.fail
    BY GoneType
  <2> HIDE DEF p
  <2>2. /\ p.req = -1 /\ p.q = <<>> /\ p.aob = NoFrame /\ p.in = NoInput /\ p.sent = "none"
        /\ \A s \in Ids0 : p.str[s] = NewServerStream
    BY <2>1, GoneType DEF SameSession
  <2>3. QED
    BY <2>1, <2>2, GoneOK
<1> HIDE DEF p
<1>3. fds \in [Fds -> Things] /\ reg \in [Fds -> Handlers \cup {NoHandler}] /\ con \in [Peers -> PeerType]
      /\ <<>> \in Seq(Handlers) /\ <<>> \in Seq(Handlers \X {"io", "hup"}) /\ {ListenHd} \subseteq Handlers
  BY <1>2 DEF Things, Handlers
<1>4. /\ \A f \in Fds : \/ fds[f] = ListenSocket /\ reg[f] = ListenHd
                        \/ fds[f] = Free /\ reg[f] = NoHandler
      /\ \A c \in Peers : con[c] = p
  OBVIOUS
<1>5. sv = [visit |-> visit, fds |-> fds, reg |-> reg, hds |-> {ListenHd}, batch |-> <<>>, dels |-> <<>>,
            con |-> con, late |-> FALSE, odd |-> {}, abort |-> "none"]
  BY <1>1 DEF p
<1> HIDE DEF fds, reg, con
<1>6. /\ sv \in ServerType /\ sv.fds = fds /\ sv.reg = reg /\ sv.hds = {ListenHd} /\ sv.batch = <<>> /\ sv.dels = <<>>
      /\ sv.con = con /\ sv.odd = {} /\ sv.abort = "none"
  BY <1>3, <1>5 DEF ServerType
<1>7. \A f \in Fds, c \in Peers, s \in Ids0 : fds[f] # Socket(c) /\ fds[f] # File(c, s)
  BY <1>4, ThingsDiffer
<1>8. ASSUME NEW c \in Peers
      PROVE  RestOK(sv, c) /\ Owner(sv.fds, sv.reg, sv.hds, sv.con[c], c, {})
  <2>1. sv.con[c] = p /\ \A f \in Fds : sv.fds[f] # File(c, 0)
    BY <1>4, <1>6, <1>7, ZeroId
  <2>2. FilesBut(sv.fds, p, c, -1) /\ p.aob.k # "fin"
    BY <1>2, <2>1, ZeroId DEF FilesBut, Live, Active, NoFrame
  <2>3. AcceptHd(c) \notin sv.hds /\ SpdyHd(c) \notin sv.hds
    BY <1>6, HandlersDiffer
  <2>4. Owner(sv.fds, sv.reg, sv.hds, p, c, {})
    BY <1>2, <2>3 DEF Owner
  <2>5. QED
    BY <1>2, <1>6, <2>1, <2>2, <2>4 DEF RestOK
<1>9. Marks(sv) = {} /\ Len(sv.dels) = 0 /\ Len(sv.batch) = 0
  BY <1>6 DEF Marks
<1>10. Owns(sv, Marks(sv))
  <2>1. \A c \in Peers : Owner(sv.fds, sv.reg, sv.hds, sv.con[c], c, Marks(sv))
    BY <1>8, <1>9
  <2>2. \A f \in Fds, c \in Peers : sv.fds[f] # Socket(c)
    BY <1>6, <1>7, ZeroId
  <2>3. \A f \in Fds : sv.reg[f] # NoHandler => sv.fds[f] = ListenSocket /\ sv.reg[f] = ListenHd
    BY <1>4, <1>6
  <2>4. ListenHd \in sv.hds /\ ListenHd \notin Marks(sv)
    BY <1>6, <1>9
  <2>5. QED
    BY <2>1, <2>2, <2>3, <2>4 DEF Owns, Sockets
<1>11. Rounds(sv)
  BY <1>9 DEF Rounds
<1>12. QED
  BY <1>6, <1>8, <1>10, <1>11 DEF Inv, Base

\* Every step of the server and of its clients keeps the invariant.
LEMMA StepOK ==
  ASSUME ServerInv, [ServerNext]_sv
  PROVE  ServerInv'
<1>1. CASE Poll
  BY <1>1, PollOK DEF ServerInv
<1>2. CASE Dispatch
  BY <1>2, DispatchOK DEF ServerInv
<1>3. CASE DeleteMarked
  BY <1>3, DeleteMarkedOK DEF ServerInv
<1>4. ASSUME NEW c \in Peers, PeerConnects(c) PROVE ServerInv'
  BY <1>4, PeerConnectsOK DEF ServerInv
<1>5. ASSUME NEW c \in Peers, PeerSends(c) PROVE ServerInv'
  BY <1>5, PeerSendsOK DEF ServerInv
<1>6. ASSUME NEW c \in Peers, PeerCloses(c) PROVE ServerInv'
  BY <1>6, PeerClosesOK DEF ServerInv
<1>7. CASE UNCHANGED sv
  BY <1>7 DEF ServerInv
<1>8. QED
  BY <1>1, <1>2, <1>3, <1>4, <1>5, <1>6, <1>7 DEF ServerNext

LEMMA ServerKeeps == ServerSpec => []ServerInv
<1>1. ServerInit => ServerInv
  BY InitOK DEF ServerInv
<1>2. ServerInv /\ [ServerNext]_sv => ServerInv'
  BY StepOK
<1>3. QED
  BY <1>1, <1>2, PTL DEF ServerSpec
-----------------------------------------------------------------------------
(* What it gives.                                                          *)

LEMMA InvSockets ==
  ASSUME ServerInv
  PROVE  SocketOwned
<1>1. sv \in ServerType /\ Base(sv)
  BY DEF ServerInv, Inv, Base
<1>2. ServerTypeOK
  <2>1. sv.dels \in Seq(Handlers)
    BY <1>1, RoundParts
  <2>2. Range(sv.dels) \subseteq Handlers
    BY <2>1 DEF Range
  <2>3. sv.hds \subseteq Handlers /\ sv.reg \in [Fds -> Handlers \cup {NoHandler}] /\ sv.con \in [Peers -> PeerType]
    BY <1>1 DEF ServerType
  <2>4. QED
    BY <2>2, <2>3, Zenon DEF ServerTypeOK, Handlers
<1>3. Ordinary => sv.abort # "dead_handler"
  BY <1>1 DEF Base, Ordinary
<1>4. ASSUME Ordinary, Works(sv), sv.batch = <<>>, sv.dels = <<>>, NEW c \in Peers
      PROVE  LET mine == {AcceptHd(c), SpdyHd(c)} \cap sv.hds
                 f == sv.con[c].fd
             IN  /\ IF sv.con[c].st = "up"
                    THEN Cardinality(mine) = 1 /\ sv.fds[f] = Socket(c) /\ sv.reg[f] \in mine
                    ELSE mine = {} /\ Socket(c) \notin {sv.fds[g] : g \in Fds}
                 /\ Cardinality({g \in Fds : sv.fds[g] = Socket(c)}) <= 1
  <2> DEFINE mine == {AcceptHd(c), SpdyHd(c)} \cap sv.hds
             x == sv.con[c]
             f == x.fd
             S == {g \in Fds : sv.fds[g] = Socket(c)}
  <2>1. Quiet(sv) /\ sv.dels = <<>>
    BY <1>4 DEF Ordinary, Works, Quiet
  <2>2. Marks(sv) = {}
    BY <2>1 DEF Marks
  <2>3. Owns(sv, {})
    BY <2>1, <2>2 DEF ServerInv, Inv
  <2>4. Owner(sv.fds, sv.reg, sv.hds, x, c, {}) /\ \A g \in S : x.st = "up" /\ f = g
    BY <2>3 DEF Owns, Sockets
  <2>5. CASE x.st = "up"
    <3>1. /\ f \in Fds /\ sv.fds[f] = Socket(c)
          /\ sv.reg[f] = IF SpdyHd(c) \in sv.hds THEN SpdyHd(c) ELSE AcceptHd(c)
          /\ SpdyHd(c) \in sv.hds \/ AcceptHd(c) \in sv.hds
          /\ ~(AcceptHd(c) \in sv.hds /\ SpdyHd(c) \in sv.hds)
      <4> HIDE DEF x
      <4>1. QED
        BY <2>4, <2>5 DEF Owner, f
    <3>2. mine = {sv.reg[f]} /\ S = {f}
      BY <2>4, <3>1
    <3>3. Cardinality(mine) = 1 /\ Cardinality(S) = 1
      BY <3>2, FS_Singleton
    <3>4. QED
      BY <2>5, <3>1, <3>2, <3>3
  <2>6. CASE x.st # "up"
    <3>1. mine = {} /\ S = {}
      <4>1. SpdyHd(c) \notin sv.hds /\ AcceptHd(c) \notin sv.hds
        <5> HIDE DEF x
        <5>1. QED
          BY <2>4, <2>6 DEF Owner
      <4>2. QED
        BY <2>4, <2>6, <4>1
    <3>2. Cardinality(S) = 0
      BY <3>1, FS_EmptySet
    <3>3. Socket(c) \notin {sv.fds[g] : g \in Fds}
      BY <3>1
    <3>4. QED
      BY <2>6, <3>1, <3>2, <3>3
  <2>7. QED
    BY <2>5, <2>6
<1>5. QED
  BY <1>2, <1>3, <1>4, Zenon DEF SocketOwned

LEMMA InvFiles ==
  ASSUME ServerInv
  PROVE  FilesClosedOnce
<1>1. SUFFICES ASSUME Plain(sv)
               PROVE  /\ Works(sv)
                      /\ \A c \in Peers :
                           /\ SpdyHd(c) \in sv.hds =>
                                (sv.con[c].req >= 0 <=> sv.con[c].str[0].st \in {"opening", "opened", "closing"})
                           /\ \A f \in Fds : sv.fds[f] = File(c, 0) => sv.con[c].req = f
  BY DEF FilesClosedOnce, Plain, Ordinary
<1>2. Works(sv) /\ \A c \in Peers : FilesBut(sv.fds, sv.con[c], c, -1)
  BY <1>1 DEF ServerInv, Inv, Base, RestOK, Works
<1>3. ASSUME NEW c \in Peers
      PROVE  /\ (sv.con[c].req >= 0) <=> (sv.con[c].str[0].st \in {"opening", "opened", "closing"})
             /\ \A f \in Fds : sv.fds[f] = File(c, 0) => sv.con[c].req = f
  <2>1. FilesBut(sv.fds, sv.con[c], c, -1)
    BY <1>2
  <2>2. QED
    BY <2>1 DEF FilesBut, Live
<1>4. QED
  BY <1>2, <1>3

LEMMA InvPushes ==
  ASSUME ServerInv
  PROVE  PushBeforeData
<1>1. SUFFICES ASSUME NEW c \in Peers, sv.con[c].str[0].begun, NEW s \in 1..MaxPush
               PROVE  sv.con[c].str[s].st # "queued"
  BY DEF PushBeforeData
<1>2. Announced(sv.con[c])
  BY DEF ServerInv, Inv, Base, RestOK, ConOK
<1>3. SUFFICES ASSUME NEW x, x = sv.con[c], Announced(x), x.str[0].begun, x.str[s].st = "queued" PROVE FALSE
  BY <1>1, <1>2
<1>4. PICK i \in 1..Len(x.q) : x.q[i] = Syn(s)
  BY <1>1, <1>3 DEF Announced, Pushed
<1>5. x.q[i].k = "syn" /\ NoSyn(x.q)
  BY <1>3, <1>4 DEF Announced, Syn
<1>6. QED
  BY <1>5 DEF NoSyn

\* In a run in which no descriptor was given up (Ordinary) and none was closed by one
\* it did not belong to (Works), for every number of clients and descriptors: between
\* rounds each client that is connected has exactly one handler, one socket and its
\* place in epoll, nobody else has any, and no event is for a handler that was deleted
\* (SpdyServer::run, add_next_handler, on_close).
THEOREM SocketsOwned == ServerSpec => []SocketOwned
<1>1. ServerInv => SocketOwned
  BY InvSockets
<1>2. QED
  BY <1>1, ServerKeeps, PTL

\* As long as no write blocked or failed between the end of a file and that of its stream, close() and read() of
\* file_read_callback and ~Request meet the own file only, whatever the clients ask
\* for and however little the sockets take, and no file outlives its Request.
THEOREM FilesOwned == ServerSpec => []FilesClosedOnce
<1>1. ServerInv => FilesClosedOnce
  BY InvFiles
<1>2. QED
  BY <1>1, ServerKeeps, PTL

\* For every number of pushed files, every priority and every way the sockets block,
\* the SYN_STREAMs of a page's files leave before its first DATA frame.
THEOREM PushesFirst == ServerSpec => []PushBeforeData
<1>1. ServerInv => PushBeforeData
  BY InvPushes
<1>2. QED
  BY <1>1, ServerKeeps, PTL
=============================================================================
