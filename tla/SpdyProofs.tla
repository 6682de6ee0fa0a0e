----------------------------- MODULE SpdyProofs -----------------------------
(***************************************************************************)
(* Proofs about SpdyUpstream, for every number of streams, every plan of   *)
(* the client, every window, threshold and length of a response.  Every    *)
(* operator touches one stream, so most lemmas say what it makes of that   *)
(* stream (Sets), and CoreKept that the others are as before.              *)
(***************************************************************************)
EXTENDS SpdyUpstream, FiniteSetTheorems, WellFoundedInduction, TLAPS

\* The safety part of what the client, the backends and the event loop do.
SpdySpec == SpdyInit /\ [][SpdyNext]_spdyVars

Items == [k : {"none", "reply", "data", "fin", "wu", "rst", "goaway"}, id : Ids \cup {0}, n : 0..Window]
Frames == Syns \cup [k : {"data", "bad"}, id : Ids, fin : BOOLEAN] \cup [k : {"rst"}, id : Ids]
Downs == {NullObj} \cup DownstreamType
Strs == [st : {"none", "OPENING", "OPENED", "CLOSING", "closed"}, rfin : BOOLEAN, lfin : BOOLEAN,
         deferred : BOOLEAN]
Backs == [Conns -> ConnType(Ids)]
-----------------------------------------------------------------------------
(* The invariant.                                                          *)

\* The frames of kind k that wait for stream id, in the queue q or as the active
\* item a, and what their WINDOW_UPDATEs grant.
Count(s, T) == Cardinality({i \in 1..Len(s) : s[i] \in T})
Of(k, id) == {x \in Items : x.k = k /\ x.id = id}
Wait(q, k, id) == Count(q, Of(k, id))
Is(x, k, id) == IF x.k = k /\ x.id = id THEN 1 ELSE 0
Pend(q, a, k, id) == Wait(q, k, id) + Is(a, k, id)
Amount(x, id) == IF x.k = "wu" /\ x.id = id THEN x.n ELSE 0
Granted(q, a, id) == CreditIn(q, id) + Amount(a, id)
Kinds == {"reply", "data", "fin", "wu", "rst"}

\* Frames are queued for streams, DATA becomes active with its payload.
Queue(q, a) ==
  /\ \A i \in 1..Len(q) : q[i].k \in {"reply", "data", "wu", "rst", "goaway"} /\ q[i].id \in Ids
  /\ IF a.k = "none" THEN a = NoItem ELSE a.id \in Ids
  /\ a.k = "data" => a.n = 1

\* A stream s, its Downstream d, and the m body parts made and t sent.
StreamOK(id, s, d, q, a, m, t) ==
  /\ d # NullObj <=> s.st \in {"OPENING", "OPENED", "CLOSING"}
  /\ s.st = "none" =>
       s = NewStream /\ m = 0 /\ t = 0 /\ \A k \in Kinds : Pend(q, a, k, id) = 0
  /\ s.st = "OPENING" =>
       /\ ~s.lfin /\ ~s.deferred /\ Pend(q, a, "data", id) = 0 /\ Pend(q, a, "fin", id) = 0
       /\ Pend(q, a, "reply", id) = IF d.res = "INITIAL" THEN 0 ELSE 1
  /\ s.st = "CLOSING" =>
       /\ Pend(q, a, "rst", id) > 0 /\ Pend(q, a, "reply", id) <= IF d.res = "INITIAL" THEN 0 ELSE 1
       /\ d.res = "INITIAL" \/ Pend(q, a, "reply", id) > 0 =>
            ~s.lfin /\ ~s.deferred /\ Pend(q, a, "data", id) = 0 /\ Pend(q, a, "fin", id) = 0
  /\ s.st = "OPENED" =>
       /\ d.res # "INITIAL" /\ Pend(q, a, "reply", id) = 0
       /\ Pend(q, a, "data", id) + Pend(q, a, "fin", id) + (IF s.deferred THEN 1 ELSE 0)
            = IF s.lfin THEN 0 ELSE 1
       /\ s.deferred => d.body = 0 /\ (d.res # "MSG_COMPLETE" \/ d.tunnel)
  /\ d # NullObj => m = t + d.body + Is(a, "data", id)

\* A request d and its backend connection b are at the same point.
Served(d, b) ==
  /\ d.res = "INITIAL" <=> b.resp \in {"sent", "wait"}
  /\ d.res = "HEADER_COMPLETE" <=> b.resp = "body"
  /\ d.res = "MSG_COMPLETE" <=> b.resp = "none"
  /\ d.rd \subseteq {"NO_BUFFER"} /\ (d.rd # {} => d.body > 0)
  /\ d.rd = {} <=> b.on

BackOK(id, d, k) ==
  d # NullObj /\ d.dconn # NoConn =>
    k[d.dconn].st = "busy" /\ k[d.dconn].ds = id /\ Served(d, k[d.dconn])

ConnOK(c, ds, k) ==
  /\ k[c].st = "busy" => k[c].ds \in Ids /\ ds[k[c].ds] # NullObj /\ ds[k[c].ds].dconn = c
  /\ k[c].st = "idle" => k[c].resp = "none"

\* As many backend connections as streams, at most.
Room(k, str) ==
  Cardinality({c \in Conns : k[c].st # "none"}) <= Cardinality({i \in Ids : str[i].st # "none"})

Upload(id) == {f \in Frames : f.k = "data" /\ f.id = id}

\* The streams whose DATA is counted: those that no RST_STREAM waits for.
Counted(w, id) == w.str[id].st \in {"none", "OPENING", "OPENED"} /\ Pend(w.q, w.aob, "rst", id) = 0

\* Upload credit of a stream: what is received and not returned to the client yet
\* and, with it, what the client may send (win) and what has arrived.
Owed(w, id) ==
  w.credit[id] + Granted(w.q, w.aob, id) + (IF w.ds[id] # NullObj THEN w.ds[id].window ELSE 0)
Ledger(w, id, win) ==
  LET total == win + Owed(w, id) + Count(w.in, Upload(id))
  IN  total <= Window /\ (Counted(w, id) => total = Window)

Shut(s) == s.st \in {"OPENING", "OPENED", "CLOSING"} /\ s.rfin

\* The frames of a stream that have arrived, s being its state and h the client's.
Order(id, s, in, h) ==
  LET N == 1..Len(in)
      syn(j) == in[j].k = "syn" /\ in[j].id = id
      data(j) == in[j].k = "data" /\ in[j].id = id
      fin(j) == (syn(j) \/ data(j)) /\ in[j].fin
  IN  /\ \A j \in N : syn(j) =>
           s.st = "none" /\ \A i \in N : i < j => in[i].k = "bad" \/ in[i].id # id
      /\ \A j \in N : data(j) => s.st # "none" \/ \E i \in N : i < j /\ syn(i)
      /\ \A j \in N : data(j) => ~Shut(s) /\ \A i \in N : i < j => ~fin(i)
      /\ h = "open" =>
           /\ ~Shut(s) /\ \A j \in N : ~fin(j)
           /\ s.st # "none" \/ \E i \in N : syn(i)
      /\ h = "none" => s.st = "none" /\ \A j \in N : in[j].k = "bad" \/ in[j].id # id

Core(w) ==
  /\ w \in SpdyState /\ w.abort = "none" /\ Queue(w.q, w.aob)
  /\ \A id \in Ids : StreamOK(id, w.str[id], w.ds[id], w.q, w.aob, w.made[id], w.sent[id])
  /\ \A id \in Ids : BackOK(id, w.ds[id], w.conn)
  /\ \A c \in Conns : ConnOK(c, w.ds, w.conn)
  /\ Room(w.conn, w.str)

Good(w, win, hs) ==
  /\ Core(w)
  /\ \A id \in Ids : Ledger(w, id, win[id])
  /\ \A id \in Ids : Order(id, w.str[id], w.in, hs[id])

Sent(w) == \A i \in 1..Len(w.q) : w.q[i].k = "wu" \/ (w.aob # NoItem /\ w.out > 0)

Over(w) ==
  /\ w \in SpdyState /\ w.abort = "none" /\ w.ds = [id \in Ids |-> NullObj]
  /\ \A c \in Conns : w.conn[c].st \in {"none", "lost"}

Held(w, win, hs) == IF w.up = "open" THEN Good(w, win, hs) /\ Sent(w) ELSE Over(w)

SpdyInv ==
  /\ cplan \in Plans /\ cst \in [Ids -> {"none", "open", "fin", "reset"}]
  /\ cup \in [Ids -> Nat] /\ cwin \in [Ids -> 0..Window] /\ Held(sc, cwin, cst)
-----------------------------------------------------------------------------
(* Induction, counting and sums.                                           *)

LEMMA LeastNumber ==
  ASSUME NEW T, T \subseteq Nat, T # {}
  PROVE  \E x \in T : \A y \in T : ~(y < x)
<1> DEFINE R == OpToRel(<, Nat)
<1>1. IsWellFoundedOn(R, Nat)
  BY NatLessThanWellFounded, Zenon
<1>2. \E x \in T : \A y \in T : ~(<<y, x>> \in R)
  <2> HIDE DEF R
  <2> QED
    BY <1>1, WFMin
<1>3. QED
  BY <1>2 DEF OpToRel

LEMMA UpTo ==
  ASSUME NEW n \in Nat, NEW T, 0 \in T, \A i \in 0..(n - 1) : i \in T => i + 1 \in T
  PROVE  \A i \in 0..n : i \in T
<1> DEFINE U == {i \in 0..n : i \notin T}
<1> SUFFICES ASSUME U # {} PROVE FALSE
  OBVIOUS
<1>1. U \subseteq Nat
  OBVIOUS
<1>2. PICK x \in U : \A y \in U : ~(y < x)
  <2> HIDE DEF U
  <2> QED
    BY <1>1, LeastNumber
<1>3. x # 0 /\ x \in 0..n /\ x \notin T
  BY <1>2
<1>4. x - 1 \in 0..(n - 1) /\ x - 1 < x
  BY <1>3
<1>5. x - 1 \in T
  BY <1>2, <1>4
<1>6. (x - 1) + 1 \in T
  BY <1>4, <1>5
<1>7. QED
  BY <1>3, <1>6

TurnsOf(n, w, F, f) == f = [i \in 0..n |-> IF i = 0 THEN w ELSE F[i][f[i - 1]]]

\* A function of the number of turns that a turn F[i] defines exists.
LEMMA TurnsExist ==
  ASSUME NEW n \in Nat, NEW D, NEW w \in D, NEW F, \A i \in 1..n : F[i] \in [D -> D]
  PROVE  \E f \in [0..n -> D] : TurnsOf(n, w, F, f)
<1> DEFINE Runs(m, f) == f = [i \in 0..m |-> IF i = 0 THEN w ELSE F[i][f[i - 1]]]
           T == {m \in 0..n : \E f \in [0..m -> D] : Runs(m, f)}
<1>1. 0 \in T
  <2> DEFINE f == [i \in 0..0 |-> w]
  <2>1. f \in [0..0 -> D] /\ f = [i \in 0..0 |-> IF i = 0 THEN w ELSE F[i][f[i - 1]]]
    OBVIOUS
  <2>2. 0 \in 0..n /\ Runs(0, f)
    BY <2>1
  <2> HIDE DEF f, Runs
  <2>3. QED
    BY <2>1, <2>2
<1>2. ASSUME NEW m \in 0..(n - 1), m \in T PROVE m + 1 \in T
  <2>1. PICK f \in [0..m -> D] : Runs(m, f)
    BY <1>2
  <2> DEFINE g == [i \in 0..(m + 1) |-> IF i = m + 1 THEN F[m + 1][f[m]] ELSE f[i]]
  <2>2. m + 1 \in 1..n /\ m + 1 \in 0..n /\ m \in 0..m
    OBVIOUS
  <2>3. g \in [0..(m + 1) -> D]
    <3>1. F[m + 1][f[m]] \in D
      BY <2>1, <2>2
    <3>2. \A i \in 0..(m + 1) : i # m + 1 => i \in 0..m
      OBVIOUS
    <3>3. QED
      BY <2>1, <3>1, <3>2
  <2>4. ASSUME NEW i \in 0..(m + 1) PROVE g[i] = IF i = 0 THEN w ELSE F[i][g[i - 1]]
    <3>1. CASE i = m + 1
      <4>1. i # 0 /\ i - 1 = m /\ m \in 0..(m + 1) /\ m # m + 1
        BY <3>1
      <4>2. g[i - 1] = f[m]
        BY <4>1
      <4>3. QED
        BY <3>1, <4>1, <4>2
    <3>2. CASE i # m + 1 /\ i # 0
      <4>1. i \in 0..m /\ i - 1 \in 0..m /\ i - 1 \in 0..(m + 1) /\ i - 1 # m + 1
        BY <3>2
      <4>2. f[i] = F[i][f[i - 1]]
        BY <2>1, <3>2, <4>1
      <4>3. QED
        BY <3>2, <4>1, <4>2
    <3>3. CASE i = 0
      <4>1. 0 \in 0..m /\ i # m + 1
        BY <3>3
      <4>2. f[0] = w
        BY <2>1, <4>1
      <4>3. QED
        BY <3>3, <4>1, <4>2
    <3>4. QED
      BY <3>1, <3>2, <3>3
  <2>5. Runs(m + 1, g)
    BY <2>4
  <2>6. QED
    BY <2>2, <2>3, <2>5
<1>3. \A m \in 0..n : m \in T
  <2> HIDE DEF T
  <2> QED
    BY <1>1, <1>2, UpTo
<1>4. QED
  BY <1>3 DEF TurnsOf

LEMMA CountEmpty == ASSUME NEW T PROVE Count(<<>>, T) = 0
<1>1. {i \in 1..Len(<<>>) : <<>>[i] \in T} = {}
  OBVIOUS
<1>2. QED
  BY <1>1, FS_EmptySet DEF Count

LEMMA CountNat == ASSUME NEW S, NEW s \in Seq(S), NEW T PROVE Count(s, T) \in Nat
<1>1. IsFiniteSet(1..Len(s))
  BY FS_Interval
<1>2. IsFiniteSet({i \in 1..Len(s) : s[i] \in T})
  BY <1>1, FS_Subset
<1>3. QED
  BY <1>2, FS_CardinalityType DEF Count

LEMMA CountAppend ==
  ASSUME NEW S, NEW s \in Seq(S), NEW x \in S, NEW T
  PROVE  Count(Append(s, x), T) = Count(s, T) + (IF x \in T THEN 1 ELSE 0)
<1> DEFINE n == Len(s)
           A == {i \in 1..n : s[i] \in T}
           B == {i \in 1..Len(Append(s, x)) : Append(s, x)[i] \in T}
<1>1. n \in Nat /\ Len(Append(s, x)) = n + 1
  OBVIOUS
<1>2. \A i \in 1..(n + 1) : Append(s, x)[i] = IF i <= n THEN s[i] ELSE x
  OBVIOUS
<1>3. B = IF x \in T THEN A \cup {n + 1} ELSE A
  BY <1>1, <1>2
<1>4. IsFiniteSet(A) /\ n + 1 \notin A
  <2>1. IsFiniteSet(1..n)
    BY <1>1, FS_Interval
  <2>2. QED
    BY <1>1, <2>1, FS_Subset
<1>5. Cardinality(A) \in Nat /\ Cardinality(A \cup {n + 1}) = Cardinality(A) + 1
  <2> HIDE DEF A, n
  <2> QED
    BY <1>4, FS_CardinalityType, FS_AddElement
<1>6. QED
  <2> HIDE DEF A, B
  <2>1. Count(Append(s, x), T) = Cardinality(B) /\ Count(s, T) = Cardinality(A)
    BY DEF Count, A, B
  <2>2. QED
    BY <1>3, <1>5, <2>1

LEMMA CountTail ==
  ASSUME NEW S, NEW s \in Seq(S), s # <<>>, NEW T
  PROVE  Count(s, T) = Count(Tail(s), T) + (IF Head(s) \in T THEN 1 ELSE 0)
<1> DEFINE n == Len(s)
           A == {i \in 1..Len(Tail(s)) : Tail(s)[i] \in T}
           B == {i \in 1..n : s[i] \in T}
           C == {i \in B : i # 1}
           f == [i \in A |-> i + 1]
<1>1. n \in Nat /\ n > 0 /\ Len(Tail(s)) = n - 1 /\ Head(s) = s[1]
  OBVIOUS
<1>2. \A i \in 1..(n - 1) : Tail(s)[i] = s[i + 1]
  OBVIOUS
<1>3. IsFiniteSet(A) /\ IsFiniteSet(B) /\ IsFiniteSet(C)
  <2>1. IsFiniteSet(1..n) /\ IsFiniteSet(1..(n - 1))
    BY <1>1, FS_Interval
  <2>2. A \subseteq 1..(n - 1) /\ B \subseteq 1..n /\ C \subseteq 1..n
    BY <1>1
  <2>3. QED
    <3> HIDE DEF A, B, C, n
    <3> QED
      BY <2>1, <2>2, FS_Subset
<1>4. f \in Bijection(A, C)
  <2>1. \A i \in A : i + 1 \in C
    BY <1>1, <1>2
  <2>2. \A i, j \in A : i + 1 = j + 1 => i = j
    BY <1>1
  <2>3. \A c \in C : c - 1 \in A /\ (c - 1) + 1 = c
    BY <1>1, <1>2
  <2>4. f \in [A -> C] /\ \A i, j \in A : f[i] = f[j] => i = j
    BY <2>1, <2>2
  <2>5. \A c \in C : \E i \in A : f[i] = c
    BY <2>3
  <2>6. QED
    <3> HIDE DEF A, C, f
    <3> QED
      BY <2>4, <2>5 DEF Bijection, Injection, Surjection, IsInjective
<1>5. Cardinality(A) = Cardinality(C)
  <2>1. ExistsBijection(A, C)
    <3> HIDE DEF A, C, f
    <3> QED
      BY <1>4 DEF ExistsBijection
  <2>2. QED
    <3> HIDE DEF A, C
    <3> QED
      BY <1>3, <2>1, FS_Bijection
<1>6. B = IF Head(s) \in T THEN C \cup {1} ELSE C
  BY <1>1
<1>7. Cardinality(C) \in Nat /\ Cardinality(C \cup {1}) = Cardinality(C) + 1
  <2>1. 1 \notin C
    OBVIOUS
  <2> HIDE DEF C
  <2>2. QED
    BY <1>3, <2>1, FS_CardinalityType, FS_AddElement
<1>8. QED
  <2> HIDE DEF A, B, C
  <2>1. Count(s, T) = Cardinality(B) /\ Count(Tail(s), T) = Cardinality(A)
    BY DEF Count, A, B
  <2>2. QED
    BY <1>5, <1>6, <1>7, <2>1

SumIs(q, id, f) ==
  f \in [0..Len(q) -> Nat] /\ f[0] = 0 /\ \A i \in 1..Len(q) : f[i] = f[i - 1] + Amount(q[i], id)

LEMMA AmountNat == \A x \in Items, id \in Ids : Amount(x, id) \in Nat
  BY SpdyAssumption DEF Items, Amount

LEMMA CreditIs ==
  ASSUME NEW q \in Seq(Items), NEW id \in Ids
  PROVE  \E f : SumIs(q, id, f) /\ CreditIn(q, id) = f[Len(q)]
<1> DEFINE n == Len(q)
           sum == CHOOSE f : f = [i \in 0..n |->
                    IF i = 0 THEN 0
                    ELSE f[i - 1] + (IF q[i].k = "wu" /\ q[i].id = id THEN q[i].n ELSE 0)]
           F == [i \in 1..n |-> [x \in Nat |-> x + Amount(q[i], id)]]
<1>1. n \in Nat /\ \A i \in 1..n : q[i] \in Items
  OBVIOUS
<1>2. \A i \in 1..n : F[i] \in [Nat -> Nat] /\ \A x \in Nat : F[i][x] = x + Amount(q[i], id)
  BY <1>1, AmountNat
<1>3. PICK f \in [0..n -> Nat] : f = [i \in 0..n |-> IF i = 0 THEN 0 ELSE F[i][f[i - 1]]]
  <2> DEFINE D == Nat
  <2>1. (\A i \in 1..n : F[i] \in [D -> D]) /\ 0 \in D
    BY <1>2
  <2>2. n \in Nat
    BY <1>1
  <2> HIDE DEF F, n, D
  <2>3. \E f \in [0..n -> D] : TurnsOf(n, 0, F, f)
    BY <2>1, <2>2, TurnsExist
  <2> QED
    BY <2>3 DEF D, TurnsOf
<1>4. f = [i \in 0..n |-> IF i = 0 THEN 0
                         ELSE f[i - 1] + (IF q[i].k = "wu" /\ q[i].id = id THEN q[i].n ELSE 0)]
  <2>1. ASSUME NEW i \in 0..n, i # 0 PROVE F[i][f[i - 1]] = f[i - 1] + Amount(q[i], id)
    <3>1. i \in 1..n /\ i - 1 \in 0..n
      BY <1>1, <2>1
    <3>2. f[i - 1] \in Nat
      BY <3>1
    <3> HIDE DEF F
    <3>3. QED
      BY <1>2, <3>1, <3>2
  <2> HIDE DEF F, n
  <2>2. QED
    BY <1>3, <2>1 DEF Amount
<1>5. sum = [i \in 0..n |-> IF i = 0 THEN 0
                         ELSE sum[i - 1] + (IF q[i].k = "wu" /\ q[i].id = id THEN q[i].n ELSE 0)]
  <2> HIDE DEF n, F
  <2> QED
    BY <1>4
<1>6. CreditIn(q, id) = sum[n]
  BY DEF CreditIn
<1> HIDE DEF sum, n, F
<1>7. sum[0] = 0 /\ \A i \in 1..n : sum[i] = sum[i - 1] + Amount(q[i], id)
  BY <1>1, <1>5 DEF Amount
<1>8. \A i \in 0..n : i \in {j \in Nat : sum[j] \in Nat}
  <2> DEFINE T == {j \in Nat : sum[j] \in Nat}
  <2>1. 0 \in T
    BY <1>7
  <2>2. ASSUME NEW i \in 0..(n - 1), i \in T PROVE i + 1 \in T
    <3>1. i + 1 \in 1..n /\ (i + 1) - 1 = i
      BY <1>1
    <3>2. sum[i + 1] = sum[i] + Amount(q[i + 1], id)
      BY <1>7, <3>1
    <3>3. QED
      BY <1>1, <2>2, <3>1, <3>2, AmountNat
  <2> HIDE DEF T
  <2>3. \A i \in 0..n : i \in T
    BY <1>1, <2>1, <2>2, UpTo
  <2>4. QED
    BY <2>3 DEF T
<1>9. sum \in [0..n -> Nat]
  BY <1>5, <1>8
<1>10. QED
  BY <1>6, <1>7, <1>9 DEF SumIs, n

LEMMA SumUnique ==
  ASSUME NEW q \in Seq(Items), NEW id \in Ids, NEW f, SumIs(q, id, f)
  PROVE  CreditIn(q, id) = f[Len(q)]
<1>1. PICK g : SumIs(q, id, g) /\ CreditIn(q, id) = g[Len(q)]
  BY CreditIs
<1> DEFINE n == Len(q)
           T == {j \in Nat : f[j] = g[j]}
<1>2. n \in Nat
  OBVIOUS
<1>3. 0 \in T
  BY <1>1 DEF SumIs
<1>4. ASSUME NEW i \in 0..(n - 1), i \in T PROVE i + 1 \in T
  <2>1. i + 1 \in 1..n /\ (i + 1) - 1 = i /\ i \in Nat
    BY <1>2
  <2>2. f[i + 1] = f[i] + Amount(q[i + 1], id) /\ g[i + 1] = g[i] + Amount(q[i + 1], id)
    BY <1>1, <2>1 DEF SumIs
  <2>3. QED
    BY <1>4, <2>1, <2>2
<1> HIDE DEF T
<1>5. \A i \in 0..n : i \in T
  BY <1>2, <1>3, <1>4, UpTo
<1>6. n \in T
  BY <1>2, <1>5
<1>7. QED
  BY <1>1, <1>6 DEF T

LEMMA CreditNat ==
  ASSUME NEW q \in Seq(Items), NEW id \in Ids PROVE CreditIn(q, id) \in Nat
  BY CreditIs DEF SumIs

LEMMA CreditEmpty == ASSUME NEW id \in Ids PROVE CreditIn(<<>>, id) = 0
<1>1. <<>> \in Seq(Items) /\ Len(<<>>) = 0
  OBVIOUS
<1>2. PICK f : SumIs(<<>>, id, f) /\ CreditIn(<<>>, id) = f[Len(<<>>)]
  BY <1>1, CreditIs
<1>3. QED
  BY <1>1, <1>2 DEF SumIs

LEMMA CreditAppend ==
  ASSUME NEW q \in Seq(Items), NEW id \in Ids, NEW x \in Items
  PROVE  CreditIn(Append(q, x), id) = CreditIn(q, id) + Amount(x, id)
<1>1. PICK f : SumIs(q, id, f) /\ CreditIn(q, id) = f[Len(q)]
  BY CreditIs
<1> DEFINE n == Len(q)
           r == Append(q, x)
           g == [i \in 0..(n + 1) |-> IF i = n + 1 THEN f[n] + Amount(x, id) ELSE f[i]]
<1>2. n \in Nat /\ r \in Seq(Items) /\ Len(r) = n + 1 /\ r[n + 1] = x /\ \A i \in 1..n : r[i] = q[i]
  OBVIOUS
<1> HIDE DEF r
<1>3. f \in [0..n -> Nat] /\ f[0] = 0 /\ \A i \in 1..n : f[i] = f[i - 1] + Amount(q[i], id)
  BY <1>1 DEF SumIs
<1> HIDE DEF n
<1>4. f[n] + Amount(x, id) \in Nat
  BY <1>2, <1>3, AmountNat
<1>5. g \in [0..(n + 1) -> Nat] /\ g[0] = 0 /\ g[n + 1] = f[n] + Amount(x, id) /\ \A i \in 0..n : g[i] = f[i]
  BY <1>2, <1>3, <1>4
<1> HIDE DEF g
<1>6. ASSUME NEW i \in 1..(n + 1) PROVE g[i] = g[i - 1] + Amount(r[i], id)
  <2>1. CASE i = n + 1
    <3>1. i - 1 = n /\ n \in 0..n
      BY <1>2, <2>1
    <3>2. QED
      BY <1>2, <1>5, <2>1, <3>1
  <2>2. CASE i # n + 1
    <3>1. i \in 1..n /\ i \in 0..n /\ i - 1 \in 0..n
      BY <1>2, <2>2
    <3>2. QED
      BY <1>2, <1>3, <1>5, <3>1
  <2>3. QED
    BY <2>1, <2>2
<1>7. SumIs(r, id, g)
  BY <1>2, <1>5, <1>6 DEF SumIs
<1>8. CreditIn(r, id) = g[n + 1]
  BY <1>2, <1>7, SumUnique
<1>9. QED
  BY <1>1, <1>5, <1>8 DEF r, n

LEMMA CreditTail ==
  ASSUME NEW q \in Seq(Items), NEW id \in Ids, q # <<>>
  PROVE  CreditIn(q, id) = CreditIn(Tail(q), id) + Amount(Head(q), id)
<1>1. PICK f : SumIs(q, id, f) /\ CreditIn(q, id) = f[Len(q)]
  BY CreditIs
<1>2. PICK g : SumIs(Tail(q), id, g) /\ CreditIn(Tail(q), id) = g[Len(Tail(q))]
  <2>1. Tail(q) \in Seq(Items)
    OBVIOUS
  <2>2. QED
    BY <2>1, CreditIs
<1> DEFINE n == Len(q)
           y == Amount(Head(q), id)
           T == {j \in Nat : f[j + 1] = g[j] + y}
<1>3. n \in Nat /\ n > 0 /\ Len(Tail(q)) = n - 1 /\ Head(q) = q[1] /\ Head(q) \in Items
      /\ \A i \in 1..(n - 1) : Tail(q)[i] = q[i + 1] /\ q[i + 1] \in Items
  OBVIOUS
<1>4. /\ f \in [0..n -> Nat] /\ f[0] = 0 /\ \A i \in 1..n : f[i] = f[i - 1] + Amount(q[i], id)
      /\ g \in [0..(n - 1) -> Nat] /\ g[0] = 0
      /\ \A i \in 1..(n - 1) : g[i] = g[i - 1] + Amount(q[i + 1], id)
  BY <1>1, <1>2, <1>3 DEF SumIs
<1> HIDE DEF n, y
<1>5. y \in Nat /\ y = Amount(q[1], id)
  BY <1>3, AmountNat DEF y
<1>6. 0 \in T
  <2>1. 1 \in 1..n
    BY <1>3
  <2>2. f[1] = f[0] + y
    BY <1>4, <1>5, <2>1
  <2>3. QED
    BY <1>4, <1>5, <2>2
<1>7. ASSUME NEW i \in 0..((n - 1) - 1), i \in T PROVE i + 1 \in T
  <2>1. /\ i \in Nat /\ i + 1 \in 1..(n - 1) /\ (i + 1) - 1 = i /\ (i + 1) + 1 \in 1..n
        /\ ((i + 1) + 1) - 1 = i + 1 /\ i \in 0..(n - 1)
    BY <1>3
  <2>2. g[i + 1] = g[i] + Amount(q[(i + 1) + 1], id)
    BY <1>4, <2>1
  <2>3. f[(i + 1) + 1] = f[i + 1] + Amount(q[(i + 1) + 1], id)
    BY <1>4, <2>1
  <2>4. f[i + 1] = g[i] + y
    BY <1>7
  <2>5. g[i] \in Nat /\ Amount(q[(i + 1) + 1], id) \in Nat
    BY <1>3, <1>4, <2>1, AmountNat
  <2>6. QED
    BY <1>5, <2>1, <2>2, <2>3, <2>4, <2>5
<1> HIDE DEF T
<1>8. n - 1 \in Nat
  BY <1>3
<1>9. \A i \in 0..(n - 1) : i \in T
  BY <1>6, <1>7, <1>8, UpTo
<1>10. f[(n - 1) + 1] = g[n - 1] + y
  BY <1>8, <1>9 DEF T
<1>11. QED
  <2>1. (n - 1) + 1 = n
    BY <1>3
  <2>2. CreditIn(q, id) = f[n] /\ CreditIn(Tail(q), id) = g[n - 1]
    BY <1>1, <1>2, <1>3 DEF n
  <2>3. QED
    BY <1>10, <2>1, <2>2 DEF y
-----------------------------------------------------------------------------
(* States, and what an operator makes of stream id in one.                 *)

States ==
  [up : {"open", "gone"}, ds : [Ids -> Downs], conn : Backs, in : Seq(Frames), out : Nat, rcb : BOOLEAN,
   str : [Ids -> Strs], q : Seq(Items), aob : Items, goaway : BOOLEAN, credit : [Ids -> Nat],
   made : [Ids -> Nat], sent : [Ids -> Nat], abort : {"none", "read of a deleted downstream"}]

LEMMA StatesIs == SpdyState = States
  BY DEF SpdyState, States, Downs, Backs, Frames, Strs, Items

LEMMA NullNotDownstream == NullObj \notin DownstreamType
<1>1. \A d \in DownstreamType : "req" \in DOMAIN d
  BY DEF DownstreamType
<1>2. "req" \notin DOMAIN NullObj
  BY DEF NullObj
<1>3. QED
  BY <1>1, <1>2

LEMMA ConnsAreNumbers == Conns \subseteq Nat /\ NoConn \notin Conns /\ IsFiniteSet(Conns)
<1>1. Conns = 1..Cardinality(Conns) /\ 1 \in Conns
  BY ShrpxAssumption
<1> DEFINE m == Cardinality(Conns)
<1> HIDE DEF m
<1>2. Conns = 1..m
  BY <1>1 DEF m
<1>3. Conns \subseteq Nat /\ NoConn \notin Conns
  BY <1>1, <1>2 DEF NoConn
<1>4. QED
  BY <1>3, ShrpxAssumption

LEMMA IdsAreNumbers == Ids \subseteq Conns /\ 0 \notin Ids /\ 1 \in Ids /\ IsFiniteSet(Ids)
<1>1. Ids \subseteq Conns /\ 1 \in Ids
  BY SpdyAssumption
<1>2. QED
  BY <1>1, ConnsAreNumbers, FS_Subset DEF NoConn

LEMMA NoItemIs == NoItem \in Items /\ NoItem.k = "none" /\ NoItem.id = 0 /\ NoItem.n = 0
  BY SpdyAssumption DEF NoItem, Items

LEMMA ItemIs ==
  ASSUME NEW k \in {"reply", "data", "fin", "wu", "rst", "goaway"}, NEW id \in Ids, NEW n \in 0..Window
  PROVE  /\ Item(k, id, n) \in Items /\ Item(k, id, n) # NoItem
         /\ Item(k, id, n).k = k /\ Item(k, id, n).id = id /\ Item(k, id, n).n = n
  BY DEF Item, Items, NoItem

LEMMA WindowIs == Window \in Nat /\ Window > 0 /\ 0 \in 0..Window /\ 1 \in 0..Window
  BY SpdyAssumption

Kept(w, v) ==
  v.up = w.up /\ v.in = w.in /\ v.out = w.out /\ v.rcb = w.rcb /\ v.goaway = w.goaway /\ v.credit = w.credit
    /\ v.abort = w.abort

\* v is w with a stream, its Downstream and its counters, the backend connections
\* and the frames that wait replaced.
Sets(w, v, id, d, s, k, q, a, m, t) ==
  /\ v \in States /\ Kept(w, v) /\ v.conn = k /\ v.q = q /\ v.aob = a
  /\ v.ds[id] = d /\ v.str[id] = s /\ v.made[id] = m /\ v.sent[id] = t
  /\ \A j \in Ids : j # id =>
       v.ds[j] = w.ds[j] /\ v.str[j] = w.str[j] /\ v.made[j] = w.made[j] /\ v.sent[j] = w.sent[j]

LEMMA StateParts ==
  ASSUME NEW w \in States, NEW id \in Ids
  PROVE  /\ w.ds[id] \in Downs /\ w.str[id] \in Strs /\ w.made[id] \in Nat /\ w.sent[id] \in Nat
         /\ w.conn \in Backs /\ w.q \in Seq(Items) /\ w.aob \in Items /\ w.in \in Seq(Frames) /\ w.out \in Nat
         /\ w.credit[id] \in Nat /\ w.abort \in {"none", "read of a deleted downstream"}
         /\ (w.ds[id] # NullObj <=> w.ds[id] \in DownstreamType)
<1>1. w.ds[id] \in Downs
  BY DEF States
<1>2. w.ds[id] # NullObj <=> w.ds[id] \in DownstreamType
  BY <1>1, NullNotDownstream DEF Downs
<1>3. QED
  BY <1>1, <1>2 DEF States

LEMMA RstStreamSets ==
  ASSUME NEW w \in States, NEW id \in Ids
  PROVE  Sets(w, RstStream(w, id), id, w.ds[id],
              [w.str[id] EXCEPT !.st = IF Active(w, id) THEN "CLOSING" ELSE @], w.conn,
              Append(w.q, Item("rst", id, 0)), w.aob, w.made[id], w.sent[id])
<1> DEFINE s == [w.str[id] EXCEPT !.st = IF Active(w, id) THEN "CLOSING" ELSE @]
           q == Append(w.q, Item("rst", id, 0))
           v == RstStream(w, id)
<1>1. s \in Strs
  <2>1. w.str[id] \in Strs
    BY StateParts
  <2>2. QED
    BY <2>1 DEF Strs
<1>2. q \in Seq(Items)
  <2>1. w.q \in Seq(Items)
    BY StateParts
  <2>2. Item("rst", id, 0) \in Items
    BY ItemIs, WindowIs
  <2>3. QED
    BY <2>1, <2>2
<1>3. v = [w EXCEPT !.q = q, !.str[id] = s]
  BY DEF RstStream, States
<1> HIDE DEF s, q, v
<1>4. v \in States
  BY <1>1, <1>2, <1>3 DEF States
<1>5. Kept(w, v)
  BY <1>3 DEF Kept, States
<1>6. QED
  BY <1>3, <1>4, <1>5, ZenonT(60) DEF Sets, States, s, q, v
-----------------------------------------------------------------------------
(* The frames that wait.                                                   *)

LEMMA WaitNat ==
  ASSUME NEW q \in Seq(Items), NEW j \in Ids
  PROVE  CreditIn(q, j) \in Nat /\ \A k \in Kinds : Wait(q, k, j) \in Nat
  BY CreditNat, CountNat DEF Wait

LEMMA WaitAppend ==
  ASSUME NEW q \in Seq(Items), NEW x \in Items, NEW j \in Ids
  PROVE  /\ CreditIn(Append(q, x), j) = CreditIn(q, j) + Amount(x, j)
         /\ \A k \in Kinds : Wait(Append(q, x), k, j) = Wait(q, k, j) + Is(x, k, j)
<1>1. ASSUME NEW k PROVE Wait(Append(q, x), k, j) = Wait(q, k, j) + Is(x, k, j)
  <2>1. x \in Of(k, j) <=> (x.k = k /\ x.id = j)
    BY DEF Of
  <2>2. Count(Append(q, x), Of(k, j)) = Count(q, Of(k, j)) + (IF x \in Of(k, j) THEN 1 ELSE 0)
    BY CountAppend
  <2>3. QED
    BY <2>1, <2>2 DEF Wait, Is
<1>2. QED
  BY <1>1, CreditAppend

LEMMA WaitTail ==
  ASSUME NEW q \in Seq(Items), q # <<>>, NEW j \in Ids
  PROVE  /\ CreditIn(q, j) = CreditIn(Tail(q), j) + Amount(Head(q), j)
         /\ \A k \in Kinds : Wait(q, k, j) = Wait(Tail(q), k, j) + Is(Head(q), k, j)
<1>1. ASSUME NEW k PROVE Wait(q, k, j) = Wait(Tail(q), k, j) + Is(Head(q), k, j)
  <2>1. Head(q) \in Items
    OBVIOUS
  <2>2. Head(q) \in Of(k, j) <=> (Head(q).k = k /\ Head(q).id = j)
    BY <2>1 DEF Of
  <2>3. Count(q, Of(k, j)) = Count(Tail(q), Of(k, j)) + (IF Head(q) \in Of(k, j) THEN 1 ELSE 0)
    BY CountTail
  <2>4. QED
    BY <2>2, <2>3 DEF Wait, Is
<1>2. QED
  BY <1>1, CreditTail

\* What waits for the streams other than id is the same in w and v.
Requeued(w, v, id) ==
  /\ \A j \in Ids : j # id =>
       CreditIn(v.q, j) = CreditIn(w.q, j) /\ \A k \in Kinds : Wait(v.q, k, j) = Wait(w.q, k, j)
  /\ v.aob = w.aob \/ (w.aob.id \in {0, id} /\ v.aob.id \in {0, id})

ConnKept(w, v, id, c) ==
  \/ v.conn[c] = w.conn[c] /\ ~(w.conn[c].st = "busy" /\ w.conn[c].ds = id)
  \/ ~(w.conn[c].st = "busy" /\ w.conn[c].ds # id) /\ ConnOK(c, v.ds, v.conn)

\* What a step from w to v that concerns stream id only leaves alone.
Others(w, v, id) ==
  \A j \in Ids : j # id => /\ v.ds[j] = w.ds[j] /\ v.str[j] = w.str[j] /\ v.made[j] = w.made[j]
                           /\ v.sent[j] = w.sent[j] /\ v.credit[j] = w.credit[j]
Frame(w, v, id) ==
  /\ v \in States /\ v.abort = "none" /\ v.in = w.in /\ Queue(v.q, v.aob) /\ Requeued(w, v, id)
  /\ Others(w, v, id)

\* What it does to the credit and to the state of the stream.
Owing(w, v, id) ==
  /\ Owed(v, id) <= Owed(w, id)
  /\ Counted(v, id) => Counted(w, id) /\ Owed(v, id) = Owed(w, id)
Phased(s, r) == (r.st = "none" <=> s.st = "none") /\ (Shut(r) => Shut(s))

Touches(w, v, id) ==
  /\ Frame(w, v, id) /\ Owing(w, v, id) /\ Phased(w.str[id], v.str[id])
  /\ StreamOK(id, v.str[id], v.ds[id], v.q, v.aob, v.made[id], v.sent[id])
  /\ BackOK(id, v.ds[id], v.conn) /\ (\A c \in Conns : ConnKept(w, v, id, c)) /\ Room(v.conn, v.str)

\* What Core needs of it.
Local(w, v, id) ==
  /\ v \in States /\ v.abort = "none" /\ Queue(v.q, v.aob) /\ Requeued(w, v, id) /\ Others(w, v, id)
  /\ StreamOK(id, v.str[id], v.ds[id], v.q, v.aob, v.made[id], v.sent[id])
  /\ BackOK(id, v.ds[id], v.conn) /\ (\A c \in Conns : ConnKept(w, v, id, c)) /\ Room(v.conn, v.str)

\* The pointers between the stream's Downstream and its backend connection stay.
Backing(w, v, id) ==
  /\ v.ds[id] # NullObj <=> w.ds[id] # NullObj
  /\ w.ds[id] # NullObj => v.ds[id].dconn = w.ds[id].dconn
  /\ \A c \in Conns :
       /\ v.conn[c].st = w.conn[c].st /\ v.conn[c].ds = w.conn[c].ds
       /\ v.conn[c] = w.conn[c] \/ (w.ds[id] # NullObj /\ c = w.ds[id].dconn)

LEMMA OwedNat ==
  ASSUME NEW w \in States, NEW j \in Ids PROVE Owed(w, j) \in Nat /\ Count(w.in, Upload(j)) \in Nat
<1>1. w.q \in Seq(Items) /\ w.aob \in Items /\ w.credit[j] \in Nat /\ w.in \in Seq(Frames)
  BY StateParts
<1>2. CreditIn(w.q, j) \in Nat /\ Amount(w.aob, j) \in Nat
  BY <1>1, WaitNat, AmountNat
<1>3. w.ds[j] # NullObj => w.ds[j].window \in Nat
  BY StateParts DEF DownstreamType
<1>4. Count(w.in, Upload(j)) \in Nat
  BY <1>1, CountNat
<1>5. QED
  BY <1>1, <1>2, <1>3, <1>4 DEF Owed, Granted

\* Such a step leaves the other streams as they are.
LEMMA OthersAlike ==
  ASSUME NEW w \in States, NEW v \in States, NEW id \in Ids, NEW j \in Ids, j # id, Requeued(w, v, id)
  PROVE  /\ \A k \in Kinds : Pend(v.q, v.aob, k, j) = Pend(w.q, w.aob, k, j)
         /\ Is(v.aob, "data", j) = Is(w.aob, "data", j)
         /\ Granted(v.q, v.aob, j) = Granted(w.q, w.aob, j)
<1>1. \A k \in Kinds : Is(v.aob, k, j) = Is(w.aob, k, j)
  BY IdsAreNumbers DEF Requeued, Is
<1>2. Amount(v.aob, j) = Amount(w.aob, j)
  BY IdsAreNumbers DEF Requeued, Amount
<1>3. QED
  BY <1>1, <1>2 DEF Requeued, Pend, Granted, Kinds

LEMMA CoreKept ==
  ASSUME NEW w, NEW v, NEW id \in Ids, Core(w), Local(w, v, id)
  PROVE  Core(v)
<1>1. w \in States /\ v \in States
  BY StatesIs DEF Core, Local
<1>2. ASSUME NEW j \in Ids PROVE StreamOK(j, v.str[j], v.ds[j], v.q, v.aob, v.made[j], v.sent[j])
  <2>1. CASE j = id
    BY <2>1 DEF Local
  <2>2. CASE j # id
    <3>1. /\ v.str[j] = w.str[j] /\ v.ds[j] = w.ds[j] /\ v.made[j] = w.made[j] /\ v.sent[j] = w.sent[j]
          /\ Requeued(w, v, id)
      BY <2>2 DEF Local, Others
    <3>2. /\ \A k \in Kinds : Pend(v.q, v.aob, k, j) = Pend(w.q, w.aob, k, j)
          /\ Is(v.aob, "data", j) = Is(w.aob, "data", j)
      BY <1>1, <2>2, <3>1, OthersAlike
    <3>3. StreamOK(j, w.str[j], w.ds[j], w.q, w.aob, w.made[j], w.sent[j])
      BY DEF Core
    <3>4. QED
      BY <3>1, <3>2, <3>3 DEF StreamOK, Kinds
  <2>3. QED
    BY <2>1, <2>2
<1>3. ASSUME NEW j \in Ids PROVE BackOK(j, v.ds[j], v.conn)
  <2>1. CASE j = id
    BY <2>1 DEF Local
  <2>2. CASE j # id
    <3>1. v.ds[j] = w.ds[j] /\ BackOK(j, w.ds[j], w.conn)
      BY <2>2 DEF Local, Others, Core
    <3> SUFFICES ASSUME w.ds[j] # NullObj, w.ds[j].dconn # NoConn PROVE BackOK(j, v.ds[j], v.conn)
      BY <3>1 DEF BackOK
    <3> DEFINE c == w.ds[j].dconn
    <3>2. c \in Conns
      BY <1>1, StateParts DEF DownstreamType
    <3>3. w.conn[c].st = "busy" /\ w.conn[c].ds = j
      BY <3>1 DEF BackOK
    <3>4. ConnKept(w, v, id, c)
      BY <3>2 DEF Local
    <3>5. v.conn[c] = w.conn[c]
      BY <2>2, <3>3, <3>4 DEF ConnKept
    <3>6. QED
      BY <3>1, <3>5 DEF BackOK
  <2>3. QED
    BY <2>1, <2>2
<1>4. ASSUME NEW c \in Conns PROVE ConnOK(c, v.ds, v.conn)
  <2>1. ConnKept(w, v, id, c) /\ ConnOK(c, w.ds, w.conn)
    BY DEF Local, Good, Core
  <2>2. \A j \in Ids : j # id => v.ds[j] = w.ds[j]
    BY DEF Local, Others
  <2>3. QED
    BY <2>1, <2>2 DEF ConnKept, ConnOK
<1>5. QED
  BY <1>1, <1>2, <1>3, <1>4, StatesIs DEF Core, Local

LEMMA TouchKeeps ==
  ASSUME NEW w, NEW v, NEW win, NEW hs, win \in [Ids -> Nat], NEW id \in Ids, Good(w, win, hs), Touches(w, v, id)
  PROVE  Good(v, win, hs)
<1>1. w \in States /\ v \in States /\ v.in = w.in
  BY StatesIs DEF Good, Core, Touches, Frame
<1>2. Core(v)
  <2>1. Local(w, v, id) /\ Core(w)
    BY DEF Touches, Frame, Local, Good
  <2>2. QED
    BY <2>1, CoreKept
<1>3. ASSUME NEW j \in Ids PROVE Ledger(v, j, win[j])
  <2>1. Ledger(w, j, win[j]) /\ win[j] \in Nat
    BY DEF Good
  <2>2. Owed(w, j) \in Nat /\ Owed(v, j) \in Nat /\ Count(w.in, Upload(j)) \in Nat
    BY <1>1, OwedNat
  <2>3. CASE j = id
    <3>1. Owed(v, j) <= Owed(w, j) /\ (Counted(v, j) => Counted(w, j) /\ Owed(v, j) = Owed(w, j))
      BY <2>3 DEF Touches, Owing
    <3>2. QED
      BY <1>1, <2>1, <2>2, <3>1, WindowIs DEF Ledger
  <2>4. CASE j # id
    <3>1. v.str[j] = w.str[j] /\ v.ds[j] = w.ds[j] /\ v.credit[j] = w.credit[j] /\ Requeued(w, v, id)
      BY <2>4 DEF Touches, Frame, Others
    <3>2. /\ Granted(v.q, v.aob, j) = Granted(w.q, w.aob, j)
          /\ Pend(v.q, v.aob, "rst", j) = Pend(w.q, w.aob, "rst", j)
      BY <1>1, <2>4, <3>1, OthersAlike DEF Kinds
    <3>3. Owed(v, j) = Owed(w, j) /\ (Counted(v, j) <=> Counted(w, j))
      BY <3>1, <3>2 DEF Owed, Counted
    <3>4. QED
      BY <1>1, <2>1, <3>1, <3>3 DEF Ledger
  <2>5. QED
    BY <2>3, <2>4
<1>4. ASSUME NEW j \in Ids PROVE Order(j, v.str[j], v.in, hs[j])
  <2>1. Order(j, w.str[j], w.in, hs[j])
    BY DEF Good
  <2>2. (v.str[j].st = "none" <=> w.str[j].st = "none") /\ (Shut(v.str[j]) => Shut(w.str[j]))
    BY DEF Touches, Frame, Others, Phased
  <2>3. QED
    BY <1>1, <2>1, <2>2 DEF Order
<1>5. QED
  BY <1>2, <1>3, <1>4 DEF Good
-----------------------------------------------------------------------------
(* The operators that keep a good state good.                              *)

\* What the loops need to know of a step: it has nothing to do with the output and
\* makes the queue no longer than by n frames, none of them a SYN_REPLY.
Replies(q) == Count(q, {x \in Items : x.k = "reply"})
Steady(w, v) == v.up = w.up /\ v.in = w.in /\ v.out = w.out /\ v.goaway = w.goaway

LEMMA QueueAppend ==
  ASSUME NEW q \in Seq(Items), NEW a \in Items, NEW x \in Items, Queue(q, a), x.id \in Ids,
         x.k \in {"reply", "data", "wu", "rst", "goaway"}
  PROVE  Append(q, x) \in Seq(Items) /\ Queue(Append(q, x), a) /\ Len(Append(q, x)) = Len(q) + 1
  BY DEF Queue

LEMMA GoodParts ==
  ASSUME NEW w, NEW win, NEW hs, Good(w, win, hs), NEW id \in Ids
  PROVE  /\ w \in States /\ w.abort = "none" /\ Queue(w.q, w.aob) /\ Room(w.conn, w.str)
         /\ StreamOK(id, w.str[id], w.ds[id], w.q, w.aob, w.made[id], w.sent[id])
         /\ BackOK(id, w.ds[id], w.conn) /\ (\A c \in Conns : ConnOK(c, w.ds, w.conn))
         /\ (Exists(w, id) <=> Active(w, id)) /\ (Exists(w, id) <=> w.ds[id] \in DownstreamType)
<1>1. w \in States /\ StreamOK(id, w.str[id], w.ds[id], w.q, w.aob, w.made[id], w.sent[id])
  BY StatesIs DEF Good, Core
<1>2. Exists(w, id) <=> Active(w, id)
  BY <1>1 DEF StreamOK, Exists, Active
<1>3. Exists(w, id) <=> w.ds[id] \in DownstreamType
  BY <1>1, StateParts DEF Exists
<1>4. QED
  BY <1>1, <1>2, <1>3 DEF Good, Core

LEMMA SameRoom ==
  ASSUME NEW w, NEW v, NEW id \in Ids, Room(w.conn, w.str), Others(w, v, id),
         \A c \in Conns : v.conn[c].st = w.conn[c].st, Phased(w.str[id], v.str[id])
  PROVE  Room(v.conn, v.str)
<1>1. {c \in Conns : v.conn[c].st # "none"} = {c \in Conns : w.conn[c].st # "none"}
  OBVIOUS
<1>2. {i \in Ids : v.str[i].st # "none"} = {i \in Ids : w.str[i].st # "none"}
  BY DEF Others, Phased
<1>3. QED
  BY <1>1, <1>2 DEF Room

LEMMA QuietKeeps ==
  ASSUME NEW w, NEW v, NEW win, NEW hs, win \in [Ids -> Nat], Good(w, win, hs), NEW id \in Ids,
         Frame(w, v, id), Owing(w, v, id), Phased(w.str[id], v.str[id]), Backing(w, v, id),
         StreamOK(id, v.str[id], v.ds[id], v.q, v.aob, v.made[id], v.sent[id]), BackOK(id, v.ds[id], v.conn)
  PROVE  Good(v, win, hs)
<1>1. ASSUME NEW c \in Conns PROVE ConnKept(w, v, id, c)
  <2>1. ConnOK(c, w.ds, w.conn) /\ BackOK(id, w.ds[id], w.conn)
    BY GoodParts
  <2>2. /\ v.ds[id] # NullObj <=> w.ds[id] # NullObj
        /\ w.ds[id] # NullObj => v.ds[id].dconn = w.ds[id].dconn
        /\ v.conn[c].st = w.conn[c].st /\ v.conn[c].ds = w.conn[c].ds
        /\ v.conn[c] = w.conn[c] \/ (w.ds[id] # NullObj /\ c = w.ds[id].dconn)
    BY DEF Backing
  <2>3. c # NoConn
    BY ConnsAreNumbers
  <2>4. QED
    BY <2>1, <2>2, <2>3 DEF ConnKept, ConnOK, BackOK
<1>2. Room(v.conn, v.str)
  <2>1. Room(w.conn, w.str) /\ Others(w, v, id) /\ \A c \in Conns : v.conn[c].st = w.conn[c].st
    BY GoodParts DEF Backing, Frame
  <2>2. QED
    BY <2>1, SameRoom
<1>3. Touches(w, v, id)
  BY <1>1, <1>2 DEF Touches
<1>4. QED
  BY <1>3, TouchKeeps

LEMMA SetsFrame ==
  ASSUME NEW w, NEW v, NEW id \in Ids, NEW d, NEW s, NEW k, NEW q, NEW a, NEW m, NEW t,
         Sets(w, v, id, d, s, k, q, a, m, t), w.abort = "none", Queue(q, a), Requeued(w, v, id)
  PROVE  Frame(w, v, id)
  BY DEF Frame, Sets, Kept, Others

\* An item of stream id at the end of the queue.
LEMMA AppendRequeues ==
  ASSUME NEW w \in States, NEW v, NEW id \in Ids, NEW x \in Items, x.id = id, v.q = Append(w.q, x),
         v.aob = w.aob
  PROVE  /\ Requeued(w, v, id) /\ Granted(v.q, v.aob, id) = Granted(w.q, w.aob, id) + Amount(x, id)
         /\ \A k \in Kinds : Pend(v.q, v.aob, k, id) = Pend(w.q, w.aob, k, id) + Is(x, k, id)
<1>1. w.q \in Seq(Items) /\ w.aob \in Items
  BY StateParts
<1>2. ASSUME NEW j \in Ids
      PROVE  /\ CreditIn(v.q, j) = CreditIn(w.q, j) + Amount(x, j) /\ CreditIn(w.q, j) \in Nat
             /\ \A k \in Kinds : Wait(v.q, k, j) = Wait(w.q, k, j) + Is(x, k, j) /\ Wait(w.q, k, j) \in Nat
  BY <1>1, WaitAppend, WaitNat
<1>3. ASSUME NEW j \in Ids, j # id PROVE Amount(x, j) = 0 /\ \A k \in Kinds : Is(x, k, j) = 0
  BY <1>3 DEF Amount, Is
<1>4. Requeued(w, v, id)
  BY <1>2, <1>3 DEF Requeued
<1>5. Granted(v.q, v.aob, id) = Granted(w.q, w.aob, id) + Amount(x, id)
  <2>1. Amount(w.aob, id) \in Nat /\ Amount(x, id) \in Nat
    BY <1>1, AmountNat
  <2>2. QED
    BY <1>2, <2>1 DEF Granted
<1>6. ASSUME NEW k \in Kinds PROVE Pend(v.q, v.aob, k, id) = Pend(w.q, w.aob, k, id) + Is(x, k, id)
  <2>1. Is(w.aob, k, id) \in Nat /\ Is(x, k, id) \in Nat
    BY DEF Is
  <2>2. QED
    BY <1>2, <2>1 DEF Pend
<1>7. QED
  BY <1>4, <1>5, <1>6

LEMMA PendNat ==
  ASSUME NEW w \in States, NEW id \in Ids
  PROVE  Granted(w.q, w.aob, id) \in Nat /\ \A k \in Kinds : Pend(w.q, w.aob, k, id) \in Nat
<1>1. w.q \in Seq(Items) /\ w.aob \in Items
  BY StateParts
<1>2. Amount(w.aob, id) \in Nat /\ \A k \in Kinds : Is(w.aob, k, id) \in Nat
  BY <1>1, AmountNat DEF Is
<1>3. CreditIn(w.q, id) \in Nat /\ \A k \in Kinds : Wait(w.q, k, id) \in Nat
  BY <1>1, WaitNat
<1>4. QED
  BY <1>2, <1>3 DEF Granted, Pend

LEMMA RstKeeps ==
  ASSUME NEW w, NEW win, NEW hs, win \in [Ids -> Nat], Good(w, win, hs), NEW id \in Ids, w.str[id].st # "none"
  PROVE  /\ Good(RstStream(w, id), win, hs) /\ Steady(w, RstStream(w, id))
         /\ RstStream(w, id).q = Append(w.q, Item("rst", id, 0))
<1> DEFINE v == RstStream(w, id)
           x == Item("rst", id, 0)
           s == [w.str[id] EXCEPT !.st = IF Active(w, id) THEN "CLOSING" ELSE @]
<1>1. /\ w \in States /\ w.abort = "none" /\ Queue(w.q, w.aob)
      /\ StreamOK(id, w.str[id], w.ds[id], w.q, w.aob, w.made[id], w.sent[id])
      /\ BackOK(id, w.ds[id], w.conn)
  BY GoodParts
<1>2. Sets(w, v, id, w.ds[id], s, w.conn, Append(w.q, x), w.aob, w.made[id], w.sent[id])
  BY <1>1, RstStreamSets
<1>3. x \in Items /\ x.k = "rst" /\ x.id = id
  BY ItemIs, WindowIs
<1>4. w.q \in Seq(Items) /\ w.aob \in Items /\ w.str[id] \in Strs
  BY <1>1, StateParts
<1>5. /\ s.st = IF Active(w, id) THEN "CLOSING" ELSE w.str[id].st
      /\ s.rfin = w.str[id].rfin /\ s.lfin = w.str[id].lfin /\ s.deferred = w.str[id].deferred
      /\ (~Active(w, id) => s = w.str[id])
  BY <1>4 DEF Strs
<1> HIDE DEF s, x, v
<1>6. Queue(Append(w.q, x), w.aob)
  BY <1>1, <1>3, <1>4, QueueAppend
<1>7. /\ v.str[id] = s /\ v.ds[id] = w.ds[id] /\ v.aob = w.aob /\ v.made[id] = w.made[id] /\ v.conn = w.conn
      /\ v.sent[id] = w.sent[id] /\ v.q = Append(w.q, x) /\ v \in States /\ v.credit = w.credit
  BY <1>2 DEF Sets, Kept
<1>8. /\ Requeued(w, v, id) /\ Granted(v.q, v.aob, id) = Granted(w.q, w.aob, id)
      /\ Pend(v.q, v.aob, "rst", id) > 0
      /\ \A k \in {"reply", "data", "fin"} : Pend(v.q, v.aob, k, id) = Pend(w.q, w.aob, k, id)
  <2>1. Amount(x, id) = 0 /\ Is(x, "rst", id) = 1 /\ \A k \in {"reply", "data", "fin"} : Is(x, k, id) = 0
    BY <1>3 DEF Amount, Is
  <2>2. /\ Requeued(w, v, id) /\ Granted(v.q, v.aob, id) = Granted(w.q, w.aob, id) + Amount(x, id)
        /\ \A k \in Kinds : Pend(v.q, v.aob, k, id) = Pend(w.q, w.aob, k, id) + Is(x, k, id)
    BY <1>1, <1>3, <1>7, AppendRequeues
  <2>3. Granted(w.q, w.aob, id) \in Nat /\ \A k \in Kinds : Pend(w.q, w.aob, k, id) \in Nat
    BY <1>1, PendNat
  <2>4. QED
    BY <2>1, <2>2, <2>3 DEF Kinds
<1>9. StreamOK(id, v.str[id], v.ds[id], v.q, v.aob, v.made[id], v.sent[id])
  <2>1. /\ Pend(v.q, v.aob, "rst", id) > 0
        /\ Pend(v.q, v.aob, "reply", id) = Pend(w.q, w.aob, "reply", id)
        /\ Pend(v.q, v.aob, "data", id) = Pend(w.q, w.aob, "data", id)
        /\ Pend(v.q, v.aob, "fin", id) = Pend(w.q, w.aob, "fin", id)
    BY <1>8
  <2>2. Pend(w.q, w.aob, "reply", id) \in Nat /\ Pend(w.q, w.aob, "data", id) \in Nat
        /\ Pend(w.q, w.aob, "fin", id) \in Nat
    BY <1>1, PendNat DEF Kinds
  <2>3. CASE Active(w, id)
    <3>1. s.st = "CLOSING" /\ w.ds[id] # NullObj
      BY <1>1, <1>5, <2>3 DEF Active, StreamOK
    <3>2. /\ Pend(w.q, w.aob, "reply", id) <= IF w.ds[id].res = "INITIAL" THEN 0 ELSE 1
          /\ w.ds[id].res = "INITIAL" \/ Pend(w.q, w.aob, "reply", id) > 0 =>
               /\ ~w.str[id].lfin /\ ~w.str[id].deferred
               /\ Pend(w.q, w.aob, "data", id) = 0 /\ Pend(w.q, w.aob, "fin", id) = 0
      BY <1>1, <2>2, <2>3 DEF StreamOK, Active
    <3>3. QED
      BY <1>1, <1>5, <1>7, <2>1, <3>1, <3>2 DEF StreamOK
  <2>4. CASE ~Active(w, id)
    BY <1>1, <1>4, <1>5, <1>7, <2>4 DEF StreamOK, Active, Strs
  <2>5. QED
    BY <2>3, <2>4
<1>10. Phased(w.str[id], v.str[id]) /\ ~Counted(v, id)
  <2>1. ~Counted(v, id)
    BY <1>8 DEF Counted
  <2>2. QED
    BY <1>5, <1>7, <2>1 DEF Phased, Shut, Active
<1>11. Owing(w, v, id)
  <2>1. Owed(v, id) = Owed(w, id)
    BY <1>7, <1>8 DEF Owed
  <2>2. QED
    BY <1>7, <1>10, <2>1, OwedNat DEF Owing
<1>12. Frame(w, v, id)
  BY <1>1, <1>2, <1>6, <1>8, SetsFrame
<1>13. Backing(w, v, id) /\ BackOK(id, v.ds[id], v.conn)
  BY <1>1, <1>7 DEF Backing
<1>14. QED
  BY <1>2, <1>9, <1>10, <1>11, <1>12, <1>13, QuietKeeps DEF Sets, Kept, Steady, v, x

Pools(w, id) ==
  /\ w.ds[id].req # "CONNECT_FAIL" /\ w.ds[id].res = "MSG_COMPLETE"
  /\ ~w.ds[id].tunnel /\ ~w.ds[id].res_close /\ w.ds[id].dconn # NoConn

\* The backend connections once stream id is closed.
ClosedConns(w, id) ==
  LET c == w.ds[id].dconn
  IN  IF c = NoConn THEN w.conn
      ELSE [w.conn EXCEPT ![c] = IF Pools(w, id) THEN [@ EXCEPT !.st = "idle", !.ds = 0, !.on = TRUE] ELSE NewConn]

LEMMA OnStreamCloseSets ==
  ASSUME NEW w \in States, NEW id \in Ids, w.ds[id] # NullObj, BackOK(id, w.ds[id], w.conn)
  PROVE  Sets(w, OnStreamClose(w, id), id, NullObj, w.str[id], ClosedConns(w, id), w.q, w.aob, w.made[id],
              w.sent[id])
<1> DEFINE v == OnStreamClose(w, id)
           c == w.ds[id].dconn
           k == ClosedConns(w, id)
<1>1. w.ds[id] \in DownstreamType /\ w.conn \in Backs
  BY StateParts
<1>2. c \in Conns \cup {NoConn} /\ (c = NoConn => c \notin Conns)
  BY <1>1, ConnsAreNumbers DEF DownstreamType
<1>3. c # NoConn => w.conn[c].st = "busy" /\ w.conn[c].ds = id /\ w.conn[c] \in ConnType(Ids)
  BY <1>1, <1>2 DEF BackOK, Backs
<1>4. k \in Backs
  <2>1. NewConn \in ConnType(Ids)
    BY DEF NewConn, ConnType
  <2>2. c # NoConn => [w.conn[c] EXCEPT !.st = "idle", !.ds = 0, !.on = TRUE] \in ConnType(Ids)
    BY <1>3 DEF ConnType
  <2>3. QED
    BY <1>1, <1>2, <2>1, <2>2 DEF ClosedConns, Backs
<1>5. v = [w EXCEPT !.conn = k, !.ds[id] = NullObj]
  <2>1. CASE c = NoConn
    <3>1. v = [w EXCEPT !.ds[id] = NullObj]
      BY <2>1 DEF OnStreamClose, Exists, DeleteDownstream
    <3>2. k = w.conn
      BY <2>1 DEF ClosedConns
    <3>3. QED
      BY <3>1, <3>2 DEF States
  <2>2. CASE c # NoConn /\ Pools(w, id)
    <3> DEFINE u == DetachDownstream(w, id)
    <3>1. u = [w EXCEPT !.conn = k, !.ds[id].dconn = NoConn]
      BY <2>2 DEF DetachDownstream, ClosedConns
    <3>2. v = DeleteDownstream(u, id)
      BY <2>2 DEF OnStreamClose, Exists, Pools
    <3> HIDE DEF u
    <3>3. u.ds[id].dconn = NoConn
      BY <1>1, <3>1 DEF States, DownstreamType
    <3>4. v = [u EXCEPT !.ds[id] = NullObj]
      BY <3>2, <3>3 DEF DeleteDownstream
    <3>5. QED
      BY <3>1, <3>4, ZenonT(60) DEF States
  <2>3. CASE c # NoConn /\ ~Pools(w, id)
    <3>1. v = DeleteDownstream(w, id)
      BY <2>3 DEF OnStreamClose, Exists, Pools
    <3> DEFINE u == DeleteConn(w, c)
    <3>2. v = [u EXCEPT !.ds[id] = NullObj]
      BY <2>3, <3>1 DEF DeleteDownstream
    <3>3. u = [w EXCEPT !.conn = k, !.ds = [w.ds EXCEPT ![id].dconn = NoConn]]
      BY <1>3, <2>3 DEF DeleteConn, ClosedConns
    <3> HIDE DEF u
    <3>4. QED
      BY <3>2, <3>3 DEF States
  <2>4. QED
    BY <2>1, <2>2, <2>3
<1> HIDE DEF v, k
<1>6. v \in States
  BY <1>4, <1>5 DEF States, Downs
<1>7. Kept(w, v)
  BY <1>5 DEF Kept, States
<1>8. QED
  BY <1>5, <1>6, <1>7, ZenonT(60) DEF Sets, States, v, k

LEMMA FewerConns ==
  ASSUME NEW w, NEW v, NEW id \in Ids, Room(w.conn, w.str), Others(w, v, id),
         \A c \in Conns : v.conn[c].st # "none" => w.conn[c].st # "none", Phased(w.str[id], v.str[id])
  PROVE  Room(v.conn, v.str)
<1> DEFINE A == {c \in Conns : w.conn[c].st # "none"}
           B == {c \in Conns : v.conn[c].st # "none"}
           S == {i \in Ids : w.str[i].st # "none"}
<1>1. B \subseteq A /\ IsFiniteSet(A) /\ IsFiniteSet(S)
  BY ConnsAreNumbers, IdsAreNumbers, FS_Subset
<1>2. S = {i \in Ids : v.str[i].st # "none"}
  BY DEF Others, Phased
<1>3. Cardinality(B) <= Cardinality(A) /\ Cardinality(B) \in Nat /\ Cardinality(A) \in Nat
      /\ Cardinality(S) \in Nat /\ IsFiniteSet(B)
  <2> HIDE DEF A, B, S
  <2>1. IsFiniteSet(B) /\ Cardinality(B) <= Cardinality(A)
    BY <1>1, FS_Subset
  <2>2. QED
    BY <1>1, <2>1, FS_CardinalityType
<1>4. Cardinality(A) <= Cardinality(S)
  BY DEF Room
<1>5. QED
  <2> HIDE DEF A, S
  <2>1. Cardinality(B) <= Cardinality(S)
    BY <1>3, <1>4
  <2>2. QED
    BY <1>2, <2>1 DEF Room

\* spdylay_session_close_stream with on_stream_close_callback.
\* x is w but for a frame of the stream, which may have gone, and for the output.
Closable(w, x, id) ==
  /\ x \in States /\ x.abort = "none" /\ x.in = w.in /\ x.ds = w.ds /\ x.conn = w.conn /\ x.str = w.str
  /\ x.made = w.made /\ x.sent = w.sent /\ x.credit = w.credit /\ Queue(x.q, x.aob)
  /\ Requeued(w, x, id) /\ Granted(x.q, x.aob, id) = Granted(w.q, w.aob, id)

LEMMA ClosableKeeps ==
  ASSUME NEW w, NEW x, NEW win, NEW hs, win \in [Ids -> Nat], Good(w, win, hs), NEW id \in Ids,
         Closable(w, x, id), Active(w, id)
  PROVE  /\ Good(CloseStream(x, id), win, hs) /\ Steady(x, CloseStream(x, id))
         /\ CloseStream(x, id).q = x.q /\ CloseStream(x, id).aob = x.aob
<1> DEFINE v == CloseStream(x, id)
           s == [NewStream EXCEPT !.st = "closed"]
           u == [x EXCEPT !.str[id] = s, !.made[id] = 0, !.sent[id] = 0]
           c == w.ds[id].dconn
<1>1. /\ w \in States /\ w.abort = "none" /\ Queue(w.q, w.aob) /\ Room(w.conn, w.str)
      /\ BackOK(id, w.ds[id], w.conn) /\ (\A e \in Conns : ConnOK(e, w.ds, w.conn))
      /\ w.ds[id] # NullObj /\ w.ds[id] \in DownstreamType
  BY GoodParts DEF Exists
<1>21. /\ x \in States /\ x.abort = "none" /\ x.in = w.in /\ x.ds = w.ds /\ x.conn = w.conn /\ x.str = w.str
       /\ x.made = w.made /\ x.sent = w.sent /\ x.credit = w.credit /\ Queue(x.q, x.aob)
       /\ Requeued(w, x, id) /\ Granted(x.q, x.aob, id) = Granted(w.q, w.aob, id)
  BY DEF Closable
<1>2. s \in Strs /\ s.st = "closed"
  BY DEF NewStream, Strs
<1>3. v = OnStreamClose(u, id)
  BY <1>21 DEF CloseStream, Active
<1> HIDE DEF s, v
<1>4. u \in States
  BY <1>2, <1>21 DEF States
<1>5. /\ u.ds = w.ds /\ u.conn = w.conn /\ u.q = x.q /\ u.aob = x.aob /\ Kept(x, u)
      /\ u.str[id] = s /\ u.made[id] = 0 /\ u.sent[id] = 0
  BY <1>21 DEF States, Kept
<1>6. \A j \in Ids : j # id => u.str[j] = w.str[j] /\ u.made[j] = w.made[j] /\ u.sent[j] = w.sent[j]
  BY <1>21 DEF States
<1> HIDE DEF u
<1>7. Sets(u, v, id, NullObj, s, ClosedConns(u, id), x.q, x.aob, 0, 0)
  BY <1>1, <1>3, <1>4, <1>5, OnStreamCloseSets
<1>8. ClosedConns(u, id) = ClosedConns(w, id)
  BY <1>5 DEF ClosedConns, Pools
<1>9. /\ v \in States /\ Kept(x, v) /\ v.q = x.q /\ v.aob = x.aob /\ v.conn = ClosedConns(w, id)
      /\ v.ds[id] = NullObj /\ v.str[id] = s /\ Others(w, v, id)
  BY <1>5, <1>6, <1>7, <1>8, <1>21 DEF Sets, Kept, Others
<1>10. Requeued(w, v, id)
  BY <1>9, <1>21 DEF Requeued
<1>11. Frame(w, v, id)
  BY <1>1, <1>9, <1>10, <1>21 DEF Frame, Kept
<1>12. Phased(w.str[id], v.str[id]) /\ ~Counted(v, id)
  BY <1>2, <1>9 DEF Phased, Shut, Counted, Active
<1>13. Owing(w, v, id)
  <2>1. Owed(v, id) = w.credit[id] + Granted(w.q, w.aob, id)
    <3>1. w.credit[id] \in Nat /\ Granted(w.q, w.aob, id) \in Nat
      BY <1>1, StateParts, PendNat
    <3>2. QED
      BY <1>9, <1>21, <3>1 DEF Owed, Kept
  <2>2. Owed(w, id) = w.credit[id] + Granted(w.q, w.aob, id) + w.ds[id].window
    BY <1>1 DEF Owed
  <2>3. w.credit[id] \in Nat /\ Granted(w.q, w.aob, id) \in Nat /\ w.ds[id].window \in Nat
    BY <1>1, StateParts, PendNat DEF DownstreamType
  <2>4. QED
    BY <1>12, <2>1, <2>2, <2>3 DEF Owing
<1>14. StreamOK(id, v.str[id], v.ds[id], v.q, v.aob, v.made[id], v.sent[id]) /\ BackOK(id, v.ds[id], v.conn)
  BY <1>2, <1>9 DEF StreamOK, BackOK
<1>15. c \in Conns \cup {NoConn} /\ w.conn \in Backs
  BY <1>1, StateParts DEF DownstreamType
<1>16. ASSUME NEW e \in Conns PROVE ConnKept(w, v, id, e) /\ (v.conn[e].st # "none" => w.conn[e].st # "none")
  <2>1. ConnOK(e, w.ds, w.conn) /\ w.conn[e] \in ConnType(Ids)
    BY <1>1, <1>15 DEF Backs
  <2>2. CASE e # c
    <3>1. v.conn[e] = w.conn[e]
      BY <1>9, <1>15, <2>2 DEF ClosedConns, Backs
    <3>2. QED
      BY <2>1, <2>2, <3>1 DEF ConnKept, ConnOK
  <2>3. CASE e = c
    <3>1. w.conn[e].st = "busy" /\ w.conn[e].ds = id /\ Served(w.ds[id], w.conn[e]) /\ e # NoConn
      BY <1>1, <2>3, ConnsAreNumbers DEF BackOK
    <3>2. v.conn[e] = IF Pools(w, id) THEN [w.conn[e] EXCEPT !.st = "idle", !.ds = 0, !.on = TRUE] ELSE NewConn
      BY <1>9, <1>15, <2>3, <3>1 DEF ClosedConns, Backs
    <3>3. ConnOK(e, v.ds, v.conn)
      <4>1. CASE Pools(w, id)
        BY <2>1, <3>1, <3>2, <4>1 DEF ConnOK, ConnType, Pools, Served
      <4>2. CASE ~Pools(w, id)
        BY <3>2, <4>2 DEF ConnOK, NewConn
      <4>3. QED
        BY <4>1, <4>2
    <3>4. QED
      BY <3>1, <3>3 DEF ConnKept
  <2>4. QED
    BY <2>2, <2>3
<1>17. Room(v.conn, v.str)
  BY <1>1, <1>9, <1>12, <1>16, FewerConns
<1>18. Touches(w, v, id)
  BY <1>11, <1>12, <1>13, <1>14, <1>16, <1>17 DEF Touches
<1>19. Good(v, win, hs)
  BY <1>18, TouchKeeps
<1>20. QED
  BY <1>9, <1>19 DEF Kept, Steady, v

LEMMA CloseKeeps ==
  ASSUME NEW w, NEW win, NEW hs, win \in [Ids -> Nat], Good(w, win, hs), NEW id \in Ids
  PROVE  /\ Good(CloseStream(w, id), win, hs) /\ Steady(w, CloseStream(w, id))
         /\ CloseStream(w, id).q = w.q /\ CloseStream(w, id).aob = w.aob
<1>1. CASE Active(w, id)
  <2>1. Closable(w, w, id)
    <3>1. w \in States /\ w.abort = "none" /\ Queue(w.q, w.aob)
      BY GoodParts
    <3>2. QED
      BY <3>1 DEF Closable, Requeued
  <2>2. QED
    BY <1>1, <2>1, ClosableKeeps
<1>2. CASE ~Active(w, id)
  BY <1>2 DEF CloseStream, Steady
<1>3. QED
  BY <1>1, <1>2
-----------------------------------------------------------------------------
(* spdy_data_read_callback.                                                *)

Taken(d) ==
  [d EXCEPT !.body = @ - 1, !.rd = IF d.body = 1 THEN @ \ {"NO_BUFFER"} ELSE @]
TakenConns(d, k) ==
  IF d.body = 1 /\ d.rd \ {"NO_BUFFER"} = {} /\ d.dconn # NoConn THEN [k EXCEPT ![d.dconn].on = TRUE] ELSE k

LEMMA TakeBodySets ==
  ASSUME NEW w \in States, NEW id \in Ids, w.ds[id] # NullObj, w.ds[id].body > 0
  PROVE  Sets(w, TakeBody(w, id), id, Taken(w.ds[id]), w.str[id], TakenConns(w.ds[id], w.conn), w.q, w.aob,
              w.made[id], w.sent[id])
<1> DEFINE v == TakeBody(w, id)
           d == w.ds[id]
           k == TakenConns(d, w.conn)
           u == [w EXCEPT !.ds[id].body = @ - 1]
           e == Taken(d)
<1>1. d \in DownstreamType /\ w.conn \in Backs
  BY StateParts
<1>2. d.body \in Nat /\ d.dconn \in Conns \cup {NoConn} /\ d.body - 1 \in Nat
  BY <1>1 DEF DownstreamType
<1>3. e \in DownstreamType
  BY <1>1, <1>2 DEF Taken, DownstreamType
<1>4. k \in Backs
  <2>1. d.dconn # NoConn => w.conn[d.dconn] \in ConnType(Ids)
    BY <1>1, <1>2 DEF Backs
  <2>2. d.dconn # NoConn => [w.conn[d.dconn] EXCEPT !.on = TRUE] \in ConnType(Ids)
    BY <2>1 DEF ConnType
  <2>3. QED
    BY <1>1, <1>2, <2>2 DEF TakenConns, Backs
<1>5. u.ds[id] = [d EXCEPT !.body = @ - 1] /\ u.ds[id].body = d.body - 1 /\ u.ds[id].rd = d.rd
      /\ u.ds[id].dconn = d.dconn /\ u.conn = w.conn
  <2>1. u.ds = [w.ds EXCEPT ![id].body = @ - 1] /\ u.conn = w.conn /\ w.ds \in [Ids -> Downs]
    BY DEF States
  <2>2. u.ds[id] = [d EXCEPT !.body = @ - 1]
    BY <2>1
  <2>3. QED
    BY <1>1, <2>1, <2>2 DEF DownstreamType
<1>6. v = [w EXCEPT !.ds[id] = e, !.conn = k]
  <2>1. CASE d.body = 1
    <3>1. v = ResumeRead(u, id, "NO_BUFFER")
      BY <1>2, <1>5, <2>1 DEF TakeBody
    <3>2. v = [u EXCEPT !.ds[id].rd = d.rd \ {"NO_BUFFER"}, !.conn = k]
      BY <1>5, <2>1, <3>1 DEF ResumeRead, TakenConns
    <3>3. e = [[d EXCEPT !.body = @ - 1] EXCEPT !.rd = d.rd \ {"NO_BUFFER"}]
      BY <1>1, <2>1 DEF Taken, DownstreamType
    <3> HIDE DEF e, k, d
    <3>4. QED
      BY <3>2, <3>3, ZenonT(60) DEF States, d
  <2>2. CASE d.body # 1
    <3>1. v = u
      BY <1>2, <1>5, <2>2 DEF TakeBody
    <3>2. k = w.conn
      BY <2>2 DEF TakenConns
    <3>3. e = [d EXCEPT !.body = @ - 1]
      BY <1>1, <2>2 DEF Taken, DownstreamType
    <3> HIDE DEF e, k
    <3>4. QED
      BY <3>1, <3>2, <3>3 DEF States
  <2>3. QED
    BY <2>1, <2>2
<1> HIDE DEF v, k, e, u
<1>7. v \in States
  BY <1>3, <1>4, <1>6 DEF States, Downs
<1>8. Kept(w, v)
  BY <1>6 DEF Kept, States
<1>9. QED
  BY <1>6, <1>7, <1>8 DEF Sets, States, v, k, e

\* A part of the body, the end of it, or nothing for now.
LEMMA ReadDataSets ==
  ASSUME NEW w \in States, NEW id \in Ids, w.ds[id] # NullObj
  PROVE  LET d == w.ds[id]
             v == ReadData(w, id)
         IN  /\ d.body > 0 =>
                  Sets(w, v, id, Taken(d), w.str[id], TakenConns(d, w.conn), w.q, Item("data", id, 1),
                       w.made[id], w.sent[id])
             /\ d.body = 0 /\ ~d.tunnel /\ d.res = "MSG_COMPLETE" =>
                  Sets(w, v, id, d, w.str[id], w.conn, w.q, Item("fin", id, 0), w.made[id], w.sent[id])
             /\ ~(d.body > 0) /\ ~(d.body = 0 /\ ~d.tunnel /\ d.res = "MSG_COMPLETE") =>
                  Sets(w, v, id, d, [w.str[id] EXCEPT !.deferred = TRUE], w.conn, w.q, w.aob, w.made[id],
                       w.sent[id])
<1> DEFINE d == w.ds[id]
           v == ReadData(w, id)
<1>1. d \in DownstreamType /\ d.body \in Nat
  BY StateParts DEF DownstreamType
<1>2. CASE d.body > 0
  <2> DEFINE u == TakeBody(w, id)
             x == Item("data", id, 1)
  <2>1. Sets(w, u, id, Taken(d), w.str[id], TakenConns(d, w.conn), w.q, w.aob, w.made[id], w.sent[id])
    BY <1>2, TakeBodySets
  <2>2. v = [u EXCEPT !.aob = x]
    BY <1>2 DEF ReadData, Exists
  <2>3. x \in Items
    BY ItemIs, WindowIs
  <2> HIDE DEF u, x, v
  <2>4. u \in States
    BY <2>1 DEF Sets
  <2>5. v \in States
    BY <2>2, <2>3, <2>4 DEF States
  <2>6. /\ v.ds = u.ds /\ v.str = u.str /\ v.conn = u.conn /\ v.q = u.q /\ v.aob = x /\ v.made = u.made
        /\ v.sent = u.sent /\ Kept(u, v)
    BY <2>2, <2>4 DEF States, Kept
  <2>7. Sets(w, v, id, Taken(d), w.str[id], TakenConns(d, w.conn), w.q, x, w.made[id], w.sent[id])
    BY <2>1, <2>5, <2>6 DEF Sets, Kept
  <2>8. QED
    BY <1>2, <2>7 DEF v, x
<1>3. CASE d.body = 0 /\ ~d.tunnel /\ d.res = "MSG_COMPLETE"
  <2> DEFINE x == Item("fin", id, 0)
  <2>1. v = [w EXCEPT !.aob = x]
    BY <1>3 DEF ReadData, Exists
  <2>2. x \in Items
    BY ItemIs, WindowIs
  <2> HIDE DEF x, v
  <2>3. v \in States
    BY <2>1, <2>2 DEF States
  <2>4. /\ v.ds = w.ds /\ v.str = w.str /\ v.conn = w.conn /\ v.q = w.q /\ v.aob = x /\ v.made = w.made
        /\ v.sent = w.sent /\ Kept(w, v)
    BY <2>1 DEF States, Kept
  <2>5. Sets(w, v, id, d, w.str[id], w.conn, w.q, x, w.made[id], w.sent[id])
    BY <2>3, <2>4 DEF Sets, Kept
  <2>6. QED
    BY <1>3, <2>5 DEF v, x
<1>4. CASE ~(d.body > 0) /\ ~(d.body = 0 /\ ~d.tunnel /\ d.res = "MSG_COMPLETE")
  <2> DEFINE s == [w.str[id] EXCEPT !.deferred = TRUE]
  <2>1. v = [w EXCEPT !.str[id] = s]
    <3>1. ~(w.ds[id].body > 0) /\ ~(~w.ds[id].tunnel /\ w.ds[id].res = "MSG_COMPLETE")
      BY <1>1, <1>4
    <3>2. v = [w EXCEPT !.str[id].deferred = TRUE]
      BY <3>1 DEF ReadData, Exists
    <3>3. QED
      BY <3>2
  <2>2. s \in Strs
    <3>1. w.str[id] \in Strs
      BY StateParts
    <3>2. QED
      BY <3>1 DEF Strs
  <2> HIDE DEF s, v
  <2>3. v \in States
    BY <2>1, <2>2 DEF States
  <2>4. Kept(w, v)
    BY <2>1 DEF States, Kept
  <2>5. Sets(w, v, id, d, s, w.conn, w.q, w.aob, w.made[id], w.sent[id])
    BY <2>1, <2>3, <2>4 DEF Sets, States
  <2>6. QED
    BY <1>4, <2>5 DEF v, s
<1>5. QED
  BY <1>2, <1>3, <1>4

\* u is w with the DATA frame of stream id taken from the queue or sent.
Drawn(w, u, id) ==
  /\ Frame(w, u, id) /\ u.aob = NoItem /\ w.aob.id \in {0, id}
  /\ u.ds = w.ds /\ u.conn = w.conn /\ u.str = w.str /\ u.credit = w.credit
  /\ Granted(u.q, u.aob, id) = Granted(w.q, w.aob, id)
  /\ Pend(u.q, u.aob, "rst", id) = Pend(w.q, w.aob, "rst", id)
  /\ \A k \in {"reply", "data", "fin"} : Pend(u.q, u.aob, k, id) = 0
  /\ u.made[id] = u.sent[id] + u.ds[id].body /\ Sendable(u, id) /\ ~u.str[id].deferred

\* What the three outcomes of the callback share.
Outcome(w, u, v, id, e, s, k, a) ==
  /\ Sets(u, v, id, e, s, k, u.q, a, u.made[id], u.sent[id])
  /\ a.id \in {0, id} /\ a.k # "rst" /\ Queue(u.q, a) /\ Amount(a, id) = 0
  /\ e # NullObj /\ e.window = u.ds[id].window /\ e.dconn = u.ds[id].dconn
  /\ s.st = "OPENED" /\ s.rfin = u.str[id].rfin
  /\ \A c \in Conns :
       k[c].st = w.conn[c].st /\ k[c].ds = w.conn[c].ds /\ (k[c] = w.conn[c] \/ c = u.ds[id].dconn)
  /\ StreamOK(id, s, e, u.q, a, u.made[id], u.sent[id]) /\ BackOK(id, e, k)

LEMMA ReadKeeps ==
  ASSUME NEW w, NEW u, NEW win, NEW hs, win \in [Ids -> Nat], Good(w, win, hs), NEW id \in Ids, Drawn(w, u, id)
  PROVE  Good(ReadData(u, id), win, hs) /\ Steady(u, ReadData(u, id)) /\ ReadData(u, id).q = u.q
<1> DEFINE v == ReadData(u, id)
           d == u.ds[id]
<1>1. /\ w \in States /\ StreamOK(id, w.str[id], w.ds[id], w.q, w.aob, w.made[id], w.sent[id])
      /\ BackOK(id, w.ds[id], w.conn)
  BY GoodParts
<1>2. /\ u \in States /\ u.abort = "none" /\ u.in = w.in /\ Queue(u.q, u.aob) /\ Requeued(w, u, id)
      /\ Others(w, u, id) /\ u.aob = NoItem /\ w.aob.id \in {0, id} /\ u.str = w.str
  BY DEF Drawn, Frame
<1>3. d = w.ds[id] /\ d # NullObj /\ d.res # "INITIAL" /\ u.str[id].st = "OPENED" /\ ~u.str[id].lfin
  BY <1>1 DEF Drawn, Sendable, StreamOK
<1>4. d \in DownstreamType /\ d.body \in Nat /\ d.dconn \in Conns \cup {NoConn} /\ d.rd \subseteq Reasons
  BY <1>2, <1>3, StateParts DEF DownstreamType
<1>5. u.q \in Seq(Items) /\ u.str[id] \in Strs /\ u.made[id] \in Nat /\ u.sent[id] \in Nat /\ u.conn \in Backs
  BY <1>2, StateParts
<1>6. \A k \in {"reply", "data", "fin"} : Wait(u.q, k, id) = 0
  <2> TAKE k \in {"reply", "data", "fin"}
  <2>1. Pend(u.q, NoItem, k, id) = 0 /\ Wait(u.q, k, id) \in Nat
    BY <1>2, <1>5, WaitNat DEF Drawn, Kinds
  <2>2. QED
    BY <2>1, NoItemIs DEF Pend, Is
<1>7. ASSUME NEW e, NEW s, NEW k, NEW a, Outcome(w, u, v, id, e, s, k, a)
      PROVE  Good(v, win, hs) /\ Steady(u, v) /\ v.q = u.q
  <2>1. /\ v \in States /\ Kept(u, v) /\ v.conn = k /\ v.q = u.q /\ v.aob = a /\ v.ds[id] = e /\ v.str[id] = s
        /\ v.made[id] = u.made[id] /\ v.sent[id] = u.sent[id]
    BY <1>7 DEF Outcome, Sets
  <2>2. Others(w, v, id)
    BY <1>2, <1>7 DEF Outcome, Others, Sets, Kept
  <2>3. Requeued(w, v, id)
    BY <1>2, <1>7, <2>1 DEF Outcome, Requeued
  <2>4. Frame(w, v, id)
    BY <1>2, <1>7, <2>1, <2>2, <2>3 DEF Outcome, Frame, Kept
  <2>5. Owing(w, v, id)
    <3>1. Granted(v.q, v.aob, id) = Granted(w.q, w.aob, id)
      <4>1. Amount(NoItem, id) = 0
        BY NoItemIs DEF Amount
      <4>2. QED
        BY <1>2, <1>7, <2>1, <4>1 DEF Outcome, Drawn, Granted
    <3>2. v.credit[id] = w.credit[id]
      BY <2>1 DEF Kept, Drawn
    <3>3. Owed(v, id) = Owed(w, id)
      BY <1>3, <1>7, <2>1, <3>1, <3>2 DEF Outcome, Owed
    <3>4. Owed(w, id) \in Nat /\ (Counted(v, id) => Counted(w, id))
      <4>1. Is(a, "rst", id) = 0 /\ Is(NoItem, "rst", id) = 0
        BY <1>7, NoItemIs DEF Outcome, Is
      <4>2. Pend(v.q, v.aob, "rst", id) = Pend(w.q, w.aob, "rst", id)
        BY <1>2, <2>1, <4>1 DEF Drawn, Pend
      <4>3. QED
        BY <1>1, <1>2, <1>3, <4>2, OwedNat DEF Counted
    <3>5. QED
      BY <3>3, <3>4 DEF Owing
  <2>6. Phased(w.str[id], v.str[id])
    BY <1>2, <1>3, <1>7, <2>1 DEF Outcome, Phased, Shut
  <2>7. Backing(w, v, id)
    BY <1>3, <1>7, <2>1 DEF Outcome, Backing
  <2>8. Good(v, win, hs)
    BY <1>7, <2>1, <2>4, <2>5, <2>6, <2>7, QuietKeeps DEF Outcome
  <2>9. QED
    BY <2>1, <2>8 DEF Kept, Steady
<1>8. CASE d.body > 0
  <2> DEFINE x == Item("data", id, 1)
             k == TakenConns(d, u.conn)
             c == d.dconn
  <2>1. Sets(u, v, id, Taken(d), u.str[id], k, u.q, x, u.made[id], u.sent[id])
    BY <1>2, <1>3, <1>8, ReadDataSets
  <2>2. x \in Items /\ x.k = "data" /\ x.id = id /\ x.n = 1
    BY ItemIs, WindowIs
  <2> HIDE DEF x
  <2>3. /\ Taken(d).res = d.res /\ Taken(d).tunnel = d.tunnel /\ Taken(d).body = d.body - 1 /\ Taken(d).dconn = c
        /\ Taken(d).window = d.window /\ Taken(d).rd = (IF d.body = 1 THEN d.rd \ {"NO_BUFFER"} ELSE d.rd)
        /\ Taken(d) # NullObj
    <3>1. d.body - 1 \in Nat
      BY <1>4, <1>8
    <3>2. Taken(d) \in DownstreamType
      BY <1>4, <3>1 DEF Taken, DownstreamType
    <3>3. QED
      BY <1>4, <3>2, NullNotDownstream DEF Taken, DownstreamType
  <2>4. Queue(u.q, x)
    BY <1>2, <2>2 DEF Queue
  <2>5. StreamOK(id, u.str[id], Taken(d), u.q, x, u.made[id], u.sent[id])
    <3>1. /\ Pend(u.q, x, "reply", id) = 0 /\ Pend(u.q, x, "data", id) = 1 /\ Pend(u.q, x, "fin", id) = 0
          /\ Is(x, "data", id) = 1
      BY <1>6, <2>2 DEF Pend, Is
    <3>2. u.made[id] = u.sent[id] + d.body /\ ~u.str[id].deferred
      BY DEF Drawn
    <3>3. u.made[id] = u.sent[id] + (d.body - 1) + 1
      BY <1>4, <1>5, <3>2, SMTT(30)
    <3> HIDE DEF d
    <3>4. QED
      BY <1>3, <2>3, <3>1, <3>2, <3>3 DEF StreamOK
  <2>6. ASSUME NEW b \in Conns
        PROVE  /\ k[b].st = w.conn[b].st /\ k[b].ds = w.conn[b].ds /\ (k[b] = w.conn[b] \/ b = c)
               /\ (b = c /\ d.body = 1 /\ d.rd \ {"NO_BUFFER"} = {} => k[b] = [w.conn[b] EXCEPT !.on = TRUE])
               /\ (~(d.body = 1 /\ d.rd \ {"NO_BUFFER"} = {}) => k[b] = w.conn[b])
    <3>1. u.conn = w.conn /\ w.conn[b] \in ConnType(Ids) /\ w.conn \in Backs /\ b # NoConn
      BY <1>5, ConnsAreNumbers DEF Drawn, Backs
    <3>2. /\ (k[b] = w.conn[b] \/ (b = c /\ k[b] = [w.conn[b] EXCEPT !.on = TRUE]))
          /\ (b = c /\ d.body = 1 /\ d.rd \ {"NO_BUFFER"} = {} => k[b] = [w.conn[b] EXCEPT !.on = TRUE])
          /\ (~(d.body = 1 /\ d.rd \ {"NO_BUFFER"} = {}) => k[b] = w.conn[b])
      BY <1>4, <3>1 DEF TakenConns, Backs
    <3>3. [w.conn[b] EXCEPT !.on = TRUE].st = w.conn[b].st /\ [w.conn[b] EXCEPT !.on = TRUE].ds = w.conn[b].ds
      BY <3>1 DEF ConnType
    <3>4. QED
      BY <3>2, <3>3
  <2>7. BackOK(id, Taken(d), k)
    <3> SUFFICES ASSUME c # NoConn PROVE k[c].st = "busy" /\ k[c].ds = id /\ Served(Taken(d), k[c])
      BY <2>3 DEF BackOK
    <3>1. c \in Conns /\ w.conn[c].st = "busy" /\ w.conn[c].ds = id /\ Served(d, w.conn[c])
          /\ w.conn[c] \in ConnType(Ids)
      BY <1>1, <1>3, <1>4, <1>5 DEF BackOK, Drawn, Backs
    <3>2. CASE d.body = 1
      <4>1. d.rd \ {"NO_BUFFER"} = {} /\ Taken(d).rd = {}
        BY <2>3, <3>1, <3>2 DEF Served
      <4>2. k[c] = [w.conn[c] EXCEPT !.on = TRUE]
        BY <2>6, <3>1, <3>2, <4>1
      <4>3. k[c].on = TRUE /\ k[c].resp = w.conn[c].resp
        BY <3>1, <4>2 DEF ConnType
      <4>4. QED
        BY <2>3, <2>6, <3>1, <4>1, <4>3 DEF Served
    <3>3. CASE d.body # 1
      <4>1. k[c] = w.conn[c] /\ Taken(d).rd = d.rd
        BY <2>3, <2>6, <3>1, <3>3
      <4>2. d.body - 1 > 0
        BY <1>4, <1>8, <3>3
      <4>3. QED
        BY <2>3, <3>1, <4>1, <4>2 DEF Served
    <3>4. QED
      BY <3>2, <3>3
  <2>8. Amount(x, id) = 0
    BY <2>2 DEF Amount
  <2> HIDE DEF v, k, d
  <2>9. Outcome(w, u, v, id, Taken(d), u.str[id], k, x)
    BY <1>3, <2>1, <2>2, <2>3, <2>4, <2>5, <2>6, <2>7, <2>8 DEF Outcome, d
  <2>10. QED
    BY <1>7, <2>9 DEF v
<1>9. CASE d.body = 0 /\ ~d.tunnel /\ d.res = "MSG_COMPLETE"
  <2> DEFINE x == Item("fin", id, 0)
  <2>1. Sets(u, v, id, d, u.str[id], u.conn, u.q, x, u.made[id], u.sent[id])
    BY <1>2, <1>3, <1>9, ReadDataSets
  <2>2. x \in Items /\ x.k = "fin" /\ x.id = id
    BY ItemIs, WindowIs
  <2> HIDE DEF x
  <2>3. Queue(u.q, x) /\ Amount(x, id) = 0
    BY <1>2, <2>2 DEF Queue, Amount
  <2>4. StreamOK(id, u.str[id], d, u.q, x, u.made[id], u.sent[id])
    <3>1. /\ Pend(u.q, x, "reply", id) = 0 /\ Pend(u.q, x, "data", id) = 0 /\ Pend(u.q, x, "fin", id) = 1
          /\ Is(x, "data", id) = 0
      BY <1>6, <2>2 DEF Pend, Is
    <3>2. u.made[id] = u.sent[id] + d.body /\ ~u.str[id].deferred
      BY DEF Drawn
    <3> HIDE DEF d
    <3>3. QED
      BY <1>3, <1>4, <1>5, <3>1, <3>2 DEF StreamOK
  <2>5. BackOK(id, d, u.conn) /\ u.conn = w.conn
    BY <1>1, <1>3 DEF Drawn
  <2> HIDE DEF v, d
  <2>6. Outcome(w, u, v, id, d, u.str[id], u.conn, x)
    BY <1>3, <2>1, <2>2, <2>3, <2>4, <2>5 DEF Outcome, d
  <2>7. QED
    BY <1>7, <2>6 DEF v
<1>10. CASE ~(d.body > 0) /\ ~(d.body = 0 /\ ~d.tunnel /\ d.res = "MSG_COMPLETE")
  <2> DEFINE s == [u.str[id] EXCEPT !.deferred = TRUE]
  <2>1. Sets(u, v, id, d, s, u.conn, u.q, NoItem, u.made[id], u.sent[id])
    BY <1>2, <1>3, <1>10, ReadDataSets
  <2>2. s.st = "OPENED" /\ s.rfin = u.str[id].rfin /\ s.deferred = TRUE /\ ~s.lfin
    BY <1>3, <1>5 DEF Strs
  <2> HIDE DEF s
  <2>3. Queue(u.q, NoItem) /\ Amount(NoItem, id) = 0 /\ NoItem.id = 0 /\ NoItem.k = "none"
    BY <1>2, NoItemIs DEF Amount
  <2>4. StreamOK(id, s, d, u.q, NoItem, u.made[id], u.sent[id])
    <3>1. /\ Pend(u.q, NoItem, "reply", id) = 0 /\ Pend(u.q, NoItem, "data", id) = 0
          /\ Pend(u.q, NoItem, "fin", id) = 0 /\ Is(NoItem, "data", id) = 0
      BY <1>6, NoItemIs DEF Pend, Is
    <3>2. u.made[id] = u.sent[id] + d.body /\ d.body = 0
      BY <1>4, <1>10 DEF Drawn
    <3> HIDE DEF d
    <3>3. QED
      BY <1>3, <1>4, <1>5, <1>10, <2>2, <3>1, <3>2 DEF StreamOK
  <2>5. BackOK(id, d, u.conn) /\ u.conn = w.conn
    BY <1>1, <1>3 DEF Drawn
  <2> HIDE DEF v, d
  <2>6. Outcome(w, u, v, id, d, s, u.conn, NoItem)
    BY <1>3, <2>1, <2>2, <2>3, <2>4, <2>5 DEF Outcome, d
  <2>7. QED
    BY <1>7, <2>6 DEF v
<1>11. QED
  BY <1>8, <1>9, <1>10
-----------------------------------------------------------------------------
(* spdylay_session_send: what becomes of a frame i that leaves the queue    *)
(* or has been sent.                                                        *)

LEMMA RepliesAppend ==
  ASSUME NEW q \in Seq(Items), NEW x \in Items
  PROVE  Replies(q) \in Nat /\ Replies(Append(q, x)) = Replies(q) + (IF x.k = "reply" THEN 1 ELSE 0)
<1> DEFINE T == {y \in Items : y.k = "reply"}
<1>1. x \in T <=> x.k = "reply"
  OBVIOUS
<1> HIDE DEF T
<1>2. Count(q, T) \in Nat /\ Count(Append(q, x), T) = Count(q, T) + (IF x \in T THEN 1 ELSE 0)
  BY CountNat, CountAppend
<1>3. QED
  BY <1>1, <1>2 DEF Replies, T

LEMMA RepliesTail ==
  ASSUME NEW q \in Seq(Items), q # <<>>
  PROVE  /\ Replies(Tail(q)) \in Nat /\ Replies(q) \in Nat
         /\ Replies(q) = Replies(Tail(q)) + (IF Head(q).k = "reply" THEN 1 ELSE 0)
<1> DEFINE T == {y \in Items : y.k = "reply"}
<1>1. Head(q) \in Items /\ Tail(q) \in Seq(Items)
  OBVIOUS
<1>2. Head(q) \in T <=> Head(q).k = "reply"
  BY <1>1
<1> HIDE DEF T
<1>3. Count(q, T) = Count(Tail(q), T) + (IF Head(q) \in T THEN 1 ELSE 0)
  BY CountTail
<1>4. Count(q, T) \in Nat /\ Count(Tail(q), T) \in Nat
  BY <1>1, CountNat
<1>5. QED
  BY <1>2, <1>3, <1>4 DEF Replies, T

\* u is w without the frame i.
Less(w, u, i) ==
  /\ u \in States /\ u.abort = "none" /\ u.in = w.in /\ u.up = w.up /\ u.goaway = w.goaway
  /\ u.ds = w.ds /\ u.conn = w.conn /\ u.str = w.str /\ u.made = w.made /\ u.sent = w.sent
  /\ u.credit = w.credit /\ Queue(u.q, u.aob) /\ u.aob = NoItem /\ w.aob.id \in {0, i.id}
  /\ i \in Items /\ i.id \in Ids /\ Requeued(w, u, i.id)
  /\ Granted(w.q, w.aob, i.id) = Granted(u.q, u.aob, i.id) + Amount(i, i.id)
  /\ \A k \in Kinds : Pend(w.q, w.aob, k, i.id) = Pend(u.q, u.aob, k, i.id) + Is(i, k, i.id)

LEMMA FromQueue ==
  ASSUME NEW w, NEW win, NEW hs, Good(w, win, hs), w.aob = NoItem, w.q # <<>>
  PROVE  LET u == [w EXCEPT !.q = Tail(@)]
             i == Head(w.q)
         IN  /\ Less(w, u, i) /\ i.k \in {"reply", "data", "wu", "rst", "goaway"} /\ u.q = Tail(w.q)
             /\ u.out = w.out
<1> DEFINE u == [w EXCEPT !.q = Tail(@)]
           i == Head(w.q)
           j == i.id
<1>1. w \in States /\ w.abort = "none" /\ Queue(w.q, w.aob) /\ w.q \in Seq(Items)
  <2>1. 1 \in Ids
    BY IdsAreNumbers
  <2>2. QED
    BY <2>1, GoodParts, StateParts
<1>2. /\ i \in Items /\ i = w.q[1] /\ 1 \in 1..Len(w.q) /\ Tail(w.q) \in Seq(Items)
      /\ Len(w.q) \in Nat /\ Len(w.q) > 0 /\ Len(Tail(w.q)) = Len(w.q) - 1
      /\ \A n \in 1..Len(Tail(w.q)) : Tail(w.q)[n] = w.q[n + 1] /\ n + 1 \in 1..Len(w.q)
  BY <1>1
<1>3. i.k \in {"reply", "data", "wu", "rst", "goaway"} /\ j \in Ids
  BY <1>1, <1>2 DEF Queue
<1> HIDE DEF i
<1>4. u \in States
  BY <1>1, <1>2 DEF States
<1>5. /\ u.q = Tail(w.q) /\ u.aob = NoItem /\ u.in = w.in /\ u.up = w.up /\ u.goaway = w.goaway
      /\ u.ds = w.ds /\ u.conn = w.conn /\ u.str = w.str /\ u.made = w.made /\ u.sent = w.sent
      /\ u.credit = w.credit /\ u.out = w.out /\ u.abort = "none"
  BY <1>1 DEF States
<1> HIDE DEF u
<1>6. Queue(u.q, u.aob)
  BY <1>1, <1>2, <1>5 DEF Queue
<1>7. ASSUME NEW h \in Ids
      PROVE  /\ CreditIn(w.q, h) = CreditIn(u.q, h) + Amount(i, h) /\ CreditIn(u.q, h) \in Nat
             /\ \A k \in Kinds : Wait(w.q, k, h) = Wait(u.q, k, h) + Is(i, k, h) /\ Wait(u.q, k, h) \in Nat
  BY <1>1, <1>2, <1>5, WaitTail, WaitNat DEF i
<1>8. Requeued(w, u, j)
  <2>1. ASSUME NEW h \in Ids, h # j PROVE Amount(i, h) = 0 /\ \A k \in Kinds : Is(i, k, h) = 0
    BY <2>1 DEF Amount, Is
  <2>2. QED
    BY <1>5, <1>7, <2>1 DEF Requeued
<1>9. Granted(w.q, w.aob, j) = Granted(u.q, u.aob, j) + Amount(i, j)
  <2>1. Amount(i, j) \in Nat /\ Amount(NoItem, j) = 0
    BY <1>2, <1>3, AmountNat, NoItemIs DEF Amount
  <2>2. QED
    BY <1>3, <1>5, <1>7, <2>1 DEF Granted
<1>10. ASSUME NEW k \in Kinds PROVE Pend(w.q, w.aob, k, j) = Pend(u.q, u.aob, k, j) + Is(i, k, j)
  <2>1. Is(i, k, j) \in Nat /\ Is(NoItem, k, j) = 0
    BY <1>3, IdsAreNumbers, NoItemIs DEF Is
  <2>2. QED
    BY <1>3, <1>5, <1>7, <2>1 DEF Pend
<1>11. w.aob.id \in {0, j}
  BY NoItemIs
<1>12. QED
  BY <1>2, <1>3, <1>4, <1>5, <1>6, <1>8, <1>9, <1>10, <1>11 DEF Less, u, i

LEMMA FromWire ==
  ASSUME NEW w, NEW win, NEW hs, Good(w, win, hs), w.aob # NoItem
  PROVE  LET u == [w EXCEPT !.out = @ + 1, !.aob = NoItem]
         IN  /\ Less(w, u, w.aob) /\ w.aob.k \in {"reply", "data", "fin", "wu", "rst", "goaway"}
             /\ u.q = w.q /\ u.out = w.out + 1
<1> DEFINE u == [w EXCEPT !.out = @ + 1, !.aob = NoItem]
           i == w.aob
           j == i.id
<1>1. w \in States /\ w.abort = "none" /\ Queue(w.q, w.aob) /\ w.q \in Seq(Items) /\ i \in Items /\ w.out \in Nat
  <2>1. 1 \in Ids
    BY IdsAreNumbers
  <2>2. QED
    BY <2>1, GoodParts, StateParts
<1>2. i.k # "none" /\ j \in Ids
  BY <1>1 DEF Queue
<1>3. i.k \in {"reply", "data", "fin", "wu", "rst", "goaway"}
  BY <1>1, <1>2 DEF Items
<1>4. u \in States
  <2>1. NoItem \in Items /\ w.out + 1 \in Nat
    BY <1>1, NoItemIs
  <2>2. QED
    BY <1>1, <2>1 DEF States
<1>5. /\ u.q = w.q /\ u.aob = NoItem /\ u.in = w.in /\ u.up = w.up /\ u.goaway = w.goaway
      /\ u.ds = w.ds /\ u.conn = w.conn /\ u.str = w.str /\ u.made = w.made /\ u.sent = w.sent
      /\ u.credit = w.credit /\ u.out = w.out + 1 /\ u.abort = "none"
  BY <1>1 DEF States
<1> HIDE DEF u, i
<1>6. Queue(u.q, u.aob)
  BY <1>1, <1>5, NoItemIs DEF Queue
<1>7. Requeued(w, u, j)
  BY <1>5, NoItemIs DEF Requeued, i
<1>8. CreditIn(w.q, j) \in Nat /\ \A k \in Kinds : Wait(w.q, k, j) \in Nat
  BY <1>1, <1>2, WaitNat
<1>9. Granted(w.q, w.aob, j) = Granted(u.q, u.aob, j) + Amount(i, j)
  <2>1. Amount(i, j) \in Nat /\ Amount(NoItem, j) = 0
    BY <1>1, <1>2, AmountNat, NoItemIs DEF Amount
  <2>2. QED
    BY <1>5, <1>8, <2>1 DEF Granted, i
<1>10. ASSUME NEW k \in Kinds PROVE Pend(w.q, w.aob, k, j) = Pend(u.q, u.aob, k, j) + Is(i, k, j)
  <2>1. Is(i, k, j) \in Nat /\ Is(NoItem, k, j) = 0
    BY <1>2, IdsAreNumbers, NoItemIs DEF Is
  <2>2. QED
    BY <1>5, <1>8, <2>1 DEF Pend, i
<1>11. QED
  BY <1>1, <1>2, <1>3, <1>4, <1>5, <1>6, <1>7, <1>9, <1>10 DEF Less, u, i

LEMMA LessParts ==
  ASSUME NEW w, NEW u, NEW i, NEW win, NEW hs, Good(w, win, hs), Less(w, u, i)
  PROVE  /\ w \in States /\ u \in States /\ i \in Items /\ i.id \in Ids
         /\ Frame(w, u, i.id) /\ Backing(w, u, i.id) /\ BackOK(i.id, u.ds[i.id], u.conn)
         /\ StreamOK(i.id, w.str[i.id], w.ds[i.id], w.q, w.aob, w.made[i.id], w.sent[i.id])
         /\ \A k \in Kinds : Pend(u.q, u.aob, k, i.id) \in Nat
         /\ Is(u.aob, "data", i.id) = 0
<1>1. u \in States /\ i \in Items /\ i.id \in Ids
  BY DEF Less
<1>2. /\ w \in States /\ BackOK(i.id, w.ds[i.id], w.conn)
      /\ StreamOK(i.id, w.str[i.id], w.ds[i.id], w.q, w.aob, w.made[i.id], w.sent[i.id])
  BY <1>1, GoodParts
<1>3. Frame(w, u, i.id) /\ Backing(w, u, i.id) /\ BackOK(i.id, u.ds[i.id], u.conn)
  BY <1>2 DEF Less, Frame, Others, Backing
<1>4. \A k \in Kinds : Pend(u.q, u.aob, k, i.id) \in Nat
  BY <1>1, PendNat
<1>5. Is(u.aob, "data", i.id) = 0
  BY NoItemIs DEF Less, Is
<1>6. QED
  BY <1>1, <1>2, <1>3, <1>4, <1>5

\* The frame is dropped: nothing of a stream that is being closed counts.
LEMMA DropKeeps ==
  ASSUME NEW w, NEW u, NEW i, NEW win, NEW hs, win \in [Ids -> Nat], Good(w, win, hs), Less(w, u, i),
         i.k = "goaway" \/ w.str[i.id].st = "closed" \/ (i.k # "rst" /\ w.str[i.id].st = "CLOSING"),
         Is(w.aob, "data", i.id) = 0
  PROVE  Good(u, win, hs)
<1> DEFINE j == i.id
<1>1. /\ w \in States /\ u \in States /\ i \in Items /\ j \in Ids
      /\ Frame(w, u, j) /\ Backing(w, u, j) /\ BackOK(j, u.ds[j], u.conn)
      /\ StreamOK(j, w.str[j], w.ds[j], w.q, w.aob, w.made[j], w.sent[j])
      /\ (\A k \in Kinds : Pend(u.q, u.aob, k, j) \in Nat) /\ Is(u.aob, "data", j) = 0
  BY LessParts
<1>2. /\ u.str = w.str /\ u.ds = w.ds /\ u.made = w.made /\ u.sent = w.sent /\ u.credit = w.credit
      /\ Granted(w.q, w.aob, j) = Granted(u.q, u.aob, j) + Amount(i, j)
      /\ \A k \in Kinds : Pend(w.q, w.aob, k, j) = Pend(u.q, u.aob, k, j) + Is(i, k, j)
  BY DEF Less
<1>3. Phased(w.str[j], u.str[j])
  BY <1>2 DEF Phased
<1>4. StreamOK(j, u.str[j], u.ds[j], u.q, u.aob, u.made[j], u.sent[j])
  <2>1. CASE w.str[j].st = "closed" \/ (i.k # "rst" /\ w.str[j].st = "CLOSING")
    <3>1. Pend(u.q, u.aob, "rst", j) = Pend(w.q, w.aob, "rst", j) \/ w.str[j].st = "closed"
      BY <1>1, <1>2, <2>1 DEF Is, Kinds
    <3>2. \A k \in {"reply", "data", "fin"} :
            /\ Pend(u.q, u.aob, k, j) <= Pend(w.q, w.aob, k, j) /\ Pend(u.q, u.aob, k, j) \in Nat
            /\ Pend(w.q, w.aob, k, j) \in Nat
      BY <1>1, <1>2 DEF Is, Kinds
    <3>3. QED
      BY <1>1, <1>2, <2>1, <3>1, <3>2 DEF StreamOK
  <2>2. CASE i.k = "goaway"
    <3>1. \A k \in Kinds : Pend(u.q, u.aob, k, j) = Pend(w.q, w.aob, k, j)
      BY <1>1, <1>2, <2>2 DEF Is, Kinds
    <3>2. QED
      BY <1>1, <1>2, <3>1 DEF StreamOK, Kinds
  <2>3. QED
    BY <2>1, <2>2
<1>5. Owing(w, u, j)
  <2>1. Granted(u.q, u.aob, j) \in Nat /\ Amount(i, j) \in Nat /\ w.credit[j] \in Nat
        /\ (w.ds[j] # NullObj => w.ds[j].window \in Nat)
    <3>1. Granted(u.q, u.aob, j) \in Nat
      BY <1>1, PendNat
    <3>2. Amount(i, j) \in Nat
      BY <1>1, AmountNat
    <3>3. w.credit[j] \in Nat /\ (w.ds[j] # NullObj => w.ds[j].window \in Nat)
      BY <1>1, StateParts DEF DownstreamType
    <3>4. QED
      BY <3>1, <3>2, <3>3
  <2>2. /\ i.k = "goaway" => Amount(i, j) = 0 /\ Is(i, "rst", j) = 0
    BY DEF Amount, Is
  <2>3. Owed(w, j) = Owed(u, j) + Amount(i, j)
    BY <1>2, <2>1 DEF Owed
  <2>4. Owed(u, j) \in Nat
    BY <1>1, OwedNat
  <2>5. QED
    BY <1>1, <1>2, <2>1, <2>2, <2>3, <2>4 DEF Owing, Counted, Kinds
<1> HIDE DEF j
<1>6. QED
  BY <1>1, <1>3, <1>4, <1>5, QuietKeeps

\* The frame becomes the active item.
LEMMA ActivateKeeps ==
  ASSUME NEW w, NEW u, NEW i, NEW win, NEW hs, win \in [Ids -> Nat], Good(w, win, hs), Less(w, u, i),
         i.k \in {"reply", "wu", "rst", "goaway"}, Is(w.aob, "data", i.id) = 0
  PROVE  LET v == [u EXCEPT !.aob = i]
         IN  Good(v, win, hs) /\ Steady(u, v) /\ v.q = u.q
<1> DEFINE j == i.id
           v == [u EXCEPT !.aob = i]
<1>1. /\ w \in States /\ u \in States /\ i \in Items /\ j \in Ids
      /\ Frame(w, u, j) /\ Backing(w, u, j) /\ BackOK(j, u.ds[j], u.conn)
      /\ StreamOK(j, w.str[j], w.ds[j], w.q, w.aob, w.made[j], w.sent[j])
  BY LessParts
<1>2. /\ u.str = w.str /\ u.ds = w.ds /\ u.made = w.made /\ u.sent = w.sent /\ u.credit = w.credit
      /\ u.conn = w.conn /\ u.aob = NoItem /\ w.aob.id \in {0, j} /\ Queue(u.q, u.aob) /\ Requeued(w, u, j)
      /\ Granted(w.q, w.aob, j) = Granted(u.q, u.aob, j) + Amount(i, j)
      /\ \A k \in Kinds : Pend(w.q, w.aob, k, j) = Pend(u.q, u.aob, k, j) + Is(i, k, j)
  BY DEF Less
<1>3. v \in States
  BY <1>1 DEF States
<1>4. /\ v.str = u.str /\ v.ds = u.ds /\ v.made = u.made /\ v.sent = u.sent /\ v.credit = u.credit
      /\ v.conn = u.conn /\ v.aob = i /\ v.q = u.q /\ v.in = u.in /\ v.abort = u.abort /\ Steady(u, v)
  BY <1>1 DEF States, Steady
<1> HIDE DEF v, j
<1>5. u.q \in Seq(Items) /\ CreditIn(u.q, j) \in Nat /\ \A k \in Kinds : Wait(u.q, k, j) \in Nat
  BY <1>1, StateParts, WaitNat
<1>6. /\ \A k \in Kinds : Pend(v.q, v.aob, k, j) = Pend(w.q, w.aob, k, j)
      /\ Granted(v.q, v.aob, j) = Granted(w.q, w.aob, j)
  <2>1. Amount(NoItem, j) = 0 /\ \A k \in Kinds : Is(NoItem, k, j) = 0
    BY <1>1, NoItemIs DEF Amount, Is, Kinds
  <2>2. Amount(i, j) \in Nat /\ \A k \in Kinds : Is(i, k, j) \in Nat
    BY <1>1, AmountNat DEF Is
  <2>3. QED
    BY <1>2, <1>4, <1>5, <2>1, <2>2 DEF Pend, Granted
<1>7. Is(v.aob, "data", j) = 0
  BY <1>4 DEF Is
<1>8. StreamOK(j, v.str[j], v.ds[j], v.q, v.aob, v.made[j], v.sent[j])
  BY <1>1, <1>2, <1>4, <1>6, <1>7 DEF StreamOK, Kinds, j
<1>9. Frame(w, v, j)
  <2>1. Queue(v.q, v.aob)
    BY <1>1, <1>2, <1>4 DEF Queue, j
  <2>2. Requeued(w, v, j)
    BY <1>2, <1>4 DEF Requeued, j
  <2>3. QED
    BY <1>1, <1>3, <1>4, <2>1, <2>2 DEF Frame, Others
<1>10. Owing(w, v, j) /\ Phased(w.str[j], v.str[j])
  <2>1. Owed(v, j) = Owed(w, j) /\ (Counted(v, j) => Counted(w, j))
    BY <1>2, <1>4, <1>6 DEF Owed, Counted, Kinds
  <2>2. QED
    BY <1>1, <1>2, <1>4, <2>1, OwedNat DEF Owing, Phased
<1>11. Backing(w, v, j) /\ BackOK(j, v.ds[j], v.conn)
  BY <1>1, <1>4 DEF Backing
<1>12. QED
  BY <1>1, <1>4, <1>8, <1>9, <1>10, <1>11, QuietKeeps DEF v

\* DATA of a stream that cannot be sent is DATA of one that is being closed.
LEMMA DataOfClosing ==
  ASSUME NEW w, NEW u, NEW i, NEW win, NEW hs, Good(w, win, hs), Less(w, u, i), i.k \in {"reply", "data", "fin", "wu"}
  PROVE  /\ w.str[i.id].st # "none"
         /\ w.str[i.id].st = "OPENING" => i.k \in {"reply", "wu"}
         /\ w.str[i.id].st = "OPENED" => i.k # "reply" /\ (i.k \in {"data", "fin"} => ~w.str[i.id].lfin)
         /\ w.str[i.id].st \in {"none", "OPENING", "OPENED", "CLOSING", "closed"}
<1> DEFINE j == i.id
<1>1. /\ w \in States /\ j \in Ids
      /\ StreamOK(j, w.str[j], w.ds[j], w.q, w.aob, w.made[j], w.sent[j])
      /\ \A k \in Kinds : Pend(u.q, u.aob, k, j) \in Nat
  BY LessParts
<1>2. \A k \in Kinds : Pend(w.q, w.aob, k, j) = Pend(u.q, u.aob, k, j) + Is(i, k, j)
  BY DEF Less
<1>3. Pend(w.q, w.aob, i.k, j) > 0
  BY <1>1, <1>2 DEF Is, Kinds
<1>4. \A k \in Kinds : Pend(w.q, w.aob, k, j) \in Nat
  BY <1>1, PendNat
<1>5. w.str[j] \in Strs
  BY <1>1, StateParts
<1> HIDE DEF j
<1>6. w.str[j].st # "none" /\ (w.str[j].st = "OPENING" => i.k \in {"reply", "wu"})
  BY <1>1, <1>3 DEF StreamOK, Kinds
<1>7. w.str[j].st = "OPENED" => i.k # "reply" /\ (i.k \in {"data", "fin"} => ~w.str[j].lfin)
  BY <1>1, <1>3, <1>4 DEF StreamOK, Kinds
<1>8. QED
  BY <1>5, <1>6, <1>7 DEF Strs, j

LEMMA PrepareKeeps ==
  ASSUME NEW w, NEW win, NEW hs, win \in [Ids -> Nat], Good(w, win, hs), w.aob = NoItem, w.q # <<>>
  PROVE  LET v == Prepare([w EXCEPT !.q = Tail(@)], Head(w.q))
         IN  /\ Good(v, win, hs) /\ Steady(w, v)
             /\ Len(v.q) + Replies(v.q) < Len(w.q) + Replies(w.q)
<1> DEFINE u == [w EXCEPT !.q = Tail(@)]
           i == Head(w.q)
           j == i.id
           v == Prepare(u, i)
<1>1. /\ Less(w, u, i) /\ i.k \in {"reply", "data", "wu", "rst", "goaway"} /\ u.q = Tail(w.q)
      /\ u.out = w.out
  BY FromQueue
<1>2. /\ w \in States /\ u \in States /\ i \in Items /\ j \in Ids
      /\ Frame(w, u, j) /\ Backing(w, u, j) /\ BackOK(j, u.ds[j], u.conn)
      /\ StreamOK(j, w.str[j], w.ds[j], w.q, w.aob, w.made[j], w.sent[j])
      /\ (\A k \in Kinds : Pend(u.q, u.aob, k, j) \in Nat)
  BY <1>1, LessParts
<1>3. /\ Is(w.aob, "data", j) = 0 /\ Steady(w, u) /\ u.str = w.str /\ u.ds = w.ds
      /\ \A k \in Kinds : Pend(w.q, w.aob, k, j) = Pend(u.q, u.aob, k, j) + Is(i, k, j)
  BY <1>1, NoItemIs DEF Less, Steady, Is
<1>4. /\ w.q \in Seq(Items) /\ u.q \in Seq(Items) /\ Len(u.q) = Len(w.q) - 1 /\ Len(w.q) \in Nat
      /\ Replies(u.q) \in Nat /\ Replies(w.q) = Replies(u.q) + (IF i.k = "reply" THEN 1 ELSE 0)
  <2>1. w.q \in Seq(Items)
    BY <1>2, StateParts
  <2>2. QED
    BY <1>1, <2>1, RepliesTail
<1>5. ASSUME NEW y, y = u.q PROVE Len(y) + Replies(y) < Len(w.q) + Replies(w.q)
  BY <1>4, <1>5
<1> HIDE DEF u, i
<1>6. ASSUME i.k \in {"reply", "wu", "rst", "goaway"}, v = [u EXCEPT !.aob = i]
      PROVE  Good(v, win, hs) /\ Steady(w, v) /\ Len(v.q) + Replies(v.q) < Len(w.q) + Replies(w.q)
  <2>1. Good(v, win, hs) /\ Steady(u, v) /\ v.q = u.q
    BY <1>1, <1>3, <1>6, ActivateKeeps
  <2>2. QED
    BY <1>3, <1>5, <2>1 DEF Steady
<1>7. ASSUME w.str[j].st \in {"CLOSING", "closed"}, i.k # "rst", v = u
      PROVE  Good(v, win, hs) /\ Steady(w, v) /\ Len(v.q) + Replies(v.q) < Len(w.q) + Replies(w.q)
  BY <1>1, <1>3, <1>5, <1>7, DropKeeps
<1>8. CASE i.k \in {"rst", "goaway"}
  <2>1. v = [u EXCEPT !.aob = i]
    BY <1>8 DEF Prepare
  <2>2. QED
    BY <1>6, <1>8, <2>1 DEF u, i
<1>9. CASE i.k = "wu"
  <2>1. CASE u.str[j].st \in {"OPENING", "OPENED"}
    <3>1. v = [u EXCEPT !.aob = i]
      BY <1>9, <2>1 DEF Prepare
    <3>2. QED
      BY <1>6, <1>9, <3>1 DEF u, i
  <2>2. CASE u.str[j].st \notin {"OPENING", "OPENED"}
    <3>1. v = u
      BY <1>9, <2>2 DEF Prepare
    <3>2. w.str[j].st \in {"CLOSING", "closed"}
      BY <1>1, <1>3, <1>9, <2>2, DataOfClosing
    <3>3. QED
      BY <1>7, <1>9, <3>1, <3>2 DEF u, i
  <2>3. QED
    BY <2>1, <2>2
<1>10. CASE i.k = "reply"
  <2>1. CASE u.str[j].st = "OPENING"
    <3>1. v = [u EXCEPT !.aob = i]
      BY <1>10, <2>1 DEF Prepare
    <3>2. QED
      BY <1>6, <1>10, <3>1 DEF u, i
  <2>2. CASE u.str[j].st # "OPENING"
    <3>1. w.str[j].st \in {"CLOSING", "closed"}
      BY <1>1, <1>3, <1>10, <2>2, DataOfClosing
    <3>2. CASE ~Exists(u, j)
      <4>1. v = u
        BY <1>10, <2>2, <3>2 DEF Prepare
      <4>2. QED
        BY <1>7, <1>10, <3>1, <4>1 DEF u, i
    <3>3. CASE Exists(u, j)
      <4>1. v = RstStream(u, j)
        BY <1>10, <2>2, <3>3 DEF Prepare
      <4>2. Good(u, win, hs)
        BY <1>1, <1>3, <1>10, <3>1, DropKeeps
      <4>3. Good(v, win, hs) /\ Steady(u, v) /\ v.q = Append(u.q, Item("rst", j, 0))
        BY <1>2, <1>3, <3>1, <4>1, <4>2, RstKeeps
      <4>4. Item("rst", j, 0) \in Items /\ Item("rst", j, 0).k = "rst"
        BY <1>2, ItemIs, WindowIs
      <4>5. Len(v.q) = Len(u.q) + 1 /\ Replies(v.q) = Replies(u.q)
        BY <1>4, <4>3, <4>4, RepliesAppend
      <4>6. Len(v.q) + Replies(v.q) < Len(w.q) + Replies(w.q)
        BY <1>4, <1>10, <4>5
      <4>7. QED
        BY <1>3, <4>3, <4>6 DEF Steady, u, i
    <3>4. QED
      BY <3>2, <3>3
  <2>3. QED
    BY <2>1, <2>2
<1>11. CASE i.k = "data"
  <2>1. CASE ~Sendable(u, j)
    <3>1. v = u
      BY <1>11, <2>1 DEF Prepare
    <3>2. w.str[j].st \in {"CLOSING", "closed"}
      BY <1>1, <1>3, <1>11, <2>1, DataOfClosing DEF Sendable
    <3>3. QED
      BY <1>7, <1>11, <3>1, <3>2 DEF u, i
  <2>2. CASE Sendable(u, j)
    <3>1. v = ReadData(u, j)
      BY <1>11, <2>2 DEF Prepare
    <3>2. Granted(u.q, u.aob, j) = Granted(w.q, w.aob, j)
      <4>1. Amount(i, j) = 0 /\ Granted(u.q, u.aob, j) \in Nat
        BY <1>2, <1>11, PendNat DEF Amount
      <4>2. QED
        BY <1>1, <4>1 DEF Less
    <3>3. /\ w.str[j].st = "OPENED" /\ ~w.str[j].lfin /\ w.ds[j] # NullObj
          /\ Pend(w.q, w.aob, "reply", j) = 0 /\ w.made[j] = w.sent[j] + w.ds[j].body + 0
          /\ Pend(w.q, w.aob, "data", j) + Pend(w.q, w.aob, "fin", j) + (IF w.str[j].deferred THEN 1 ELSE 0) = 1
      BY <1>2, <1>3, <2>2 DEF StreamOK, Sendable
    <3>4. /\ (\A k \in {"reply", "data", "fin"} : Pend(u.q, u.aob, k, j) = 0) /\ ~w.str[j].deferred
          /\ Pend(u.q, u.aob, "rst", j) = Pend(w.q, w.aob, "rst", j)
      <4>1. Is(i, "reply", j) = 0 /\ Is(i, "data", j) = 1 /\ Is(i, "fin", j) = 0 /\ Is(i, "rst", j) = 0
        BY <1>11 DEF Is
      <4>2. QED
        BY <1>2, <1>3, <3>3, <4>1 DEF Kinds
    <3>5. w.made[j] = w.sent[j] + w.ds[j].body
      <4>1. w.sent[j] \in Nat /\ w.ds[j].body \in Nat
        BY <1>2, <3>3, StateParts DEF DownstreamType
      <4>2. QED
        BY <3>3, <4>1
    <3>6. Drawn(w, u, j)
      BY <1>1, <1>2, <1>3, <2>2, <3>2, <3>4, <3>5 DEF Drawn, Less
    <3>7. Good(v, win, hs) /\ Steady(u, v) /\ v.q = u.q
      BY <1>2, <3>1, <3>6, ReadKeeps
    <3>8. QED
      BY <1>3, <1>5, <3>7 DEF Steady, u, i
  <2>3. QED
    BY <2>1, <2>2
<1>12. QED
  BY <1>1, <1>8, <1>9, <1>10, <1>11

\* The frame was sent and all that changes besides is in stream id.
LEMMA SentKeeps ==
  ASSUME NEW w, NEW u, NEW v, NEW i, NEW win, NEW hs, win \in [Ids -> Nat], Good(w, win, hs), Less(w, u, i),
         v \in States, v.abort = "none", v.in = w.in, v.ds = w.ds, v.conn = w.conn, v.made = w.made,
         v.aob = NoItem, Queue(v.q, v.aob), Requeued(w, v, i.id), Others(w, v, i.id),
         Owed(v, i.id) <= Owed(w, i.id), Counted(v, i.id) => Owed(v, i.id) = Owed(w, i.id),
         Counted(v, i.id) => Counted(w, i.id),
         v.str[i.id].rfin = w.str[i.id].rfin,
         v.str[i.id].st = w.str[i.id].st \/ (v.str[i.id].st = "OPENED" /\ w.str[i.id].st \in {"OPENING", "CLOSING"}),
         StreamOK(i.id, v.str[i.id], v.ds[i.id], v.q, v.aob, v.made[i.id], v.sent[i.id])
  PROVE  Good(v, win, hs)
<1> DEFINE j == i.id
<1>1. j \in Ids /\ BackOK(j, w.ds[j], w.conn)
  BY LessParts DEF Less
<1> HIDE DEF j
<1>2. Frame(w, v, j)
  BY DEF Frame, j
<1>3. Owing(w, v, j) /\ Phased(w.str[j], v.str[j])
  BY DEF Owing, Phased, Counted, Shut, j
<1>4. Backing(w, v, j)
  BY DEF Backing
<1>5. QED
  BY <1>1, <1>2, <1>3, <1>4, QuietKeeps DEF j

LEMMA AfterSentKeeps ==
  ASSUME NEW w, NEW win, NEW hs, win \in [Ids -> Nat], Good(w, win, hs), w.aob # NoItem
  PROVE  LET v == AfterSent([w EXCEPT !.out = @ + 1, !.aob = NoItem], w.aob)
         IN  /\ Good(v, win, hs) /\ v.up = w.up /\ v.in = w.in /\ v.out = w.out + 1
             /\ Len(v.q) + Replies(v.q) <= Len(w.q) + Replies(w.q) + 1
<1> DEFINE u == [w EXCEPT !.out = @ + 1, !.aob = NoItem]
           i == w.aob
           j == i.id
           v == AfterSent(u, i)
           Fine(x) == /\ Good(x, win, hs) /\ x.up = w.up /\ x.in = w.in /\ x.out = w.out + 1
                      /\ Len(x.q) + Replies(x.q) <= Len(w.q) + Replies(w.q) + 1
<1>1. Less(w, u, i) /\ i.k \in {"reply", "data", "fin", "wu", "rst", "goaway"} /\ u.q = w.q /\ u.out = w.out + 1
  BY FromWire
<1>2. /\ w \in States /\ u \in States /\ i \in Items /\ j \in Ids
      /\ Frame(w, u, j) /\ Backing(w, u, j) /\ BackOK(j, u.ds[j], u.conn)
      /\ StreamOK(j, w.str[j], w.ds[j], w.q, w.aob, w.made[j], w.sent[j])
      /\ (\A k \in Kinds : Pend(u.q, u.aob, k, j) \in Nat) /\ Is(u.aob, "data", j) = 0
  BY <1>1, LessParts
<1>3. /\ u.abort = "none" /\ u.in = w.in /\ u.up = w.up /\ u.ds = w.ds /\ u.conn = w.conn /\ u.str = w.str
      /\ u.made = w.made /\ u.sent = w.sent /\ u.credit = w.credit /\ u.aob = NoItem /\ Queue(u.q, u.aob)
      /\ Requeued(w, u, j) /\ Others(w, u, j)
      /\ Granted(w.q, w.aob, j) = Granted(u.q, u.aob, j) + Amount(i, j)
      /\ \A k \in Kinds : Pend(w.q, w.aob, k, j) = Pend(u.q, u.aob, k, j) + Is(i, k, j)
  BY <1>1 DEF Less, Others
<1>4. w.q \in Seq(Items) /\ Len(w.q) \in Nat /\ Replies(w.q) \in Nat /\ w.str[j] \in Strs
  <2>1. w.q \in Seq(Items) /\ w.str[j] \in Strs
    BY <1>2, StateParts
  <2>2. QED
    BY <1>2, <2>1, RepliesAppend
<1>5. Len(w.q) + Replies(w.q) <= Len(w.q) + Replies(w.q) + 1
  BY <1>4
<1>6. Granted(u.q, u.aob, j) \in Nat /\ Owed(w, j) \in Nat
  BY <1>2, PendNat, OwedNat
<1>7. i.k # "wu" => Granted(w.q, w.aob, j) = Granted(u.q, u.aob, j)
  BY <1>3, <1>6 DEF Amount
<1>16. i.k # "rst" => Pend(w.q, w.aob, "rst", j) = Pend(u.q, u.aob, "rst", j)
  BY <1>2, <1>3 DEF Is, Kinds
<1>8. w.sent[j] \in Nat /\ w.made[j] \in Nat /\ (w.ds[j] # NullObj => w.ds[j].body \in Nat /\ w.ds[j].window \in Nat)
      /\ w.credit[j] \in Nat
  BY <1>2, StateParts DEF DownstreamType
<1> HIDE DEF u, i
<1>9. ASSUME NEW x, Fine(x) PROVE Fine(CloseStream(x, j))
  BY <1>2, <1>9, CloseKeeps DEF Steady
<1>10. CASE i.k \in {"rst", "goaway"}
  <2>1. Is(w.aob, "data", j) = 0
    BY <1>10 DEF Is, i
  <2>2. ASSUME i.k = "goaway" \/ w.str[j].st = "closed" PROVE Good(u, win, hs) /\ Fine(u)
    <3>1. Good(u, win, hs)
      BY <1>1, <1>10, <2>1, <2>2, DropKeeps
    <3>2. QED
      BY <1>1, <1>3, <1>5, <3>1
  <2>3. CASE i.k = "rst" /\ Active(w, j)
    <3>1. v = CloseStream(u, j)
      BY <2>3 DEF AfterSent
    <3>2. Closable(w, u, j)
      BY <1>2, <1>3, <1>7, <2>3 DEF Closable
    <3>3. Good(v, win, hs) /\ Steady(u, v) /\ v.q = u.q
      BY <1>2, <2>3, <3>1, <3>2, ClosableKeeps
    <3>4. QED
      BY <1>1, <1>3, <1>5, <3>3 DEF Steady, u, i
  <2>4. CASE i.k = "rst" /\ ~Active(w, j)
    <3>1. w.str[j].st = "closed"
      <4>1. Pend(w.q, w.aob, "rst", j) > 0
        BY <1>2, <1>3, <2>4 DEF Is, Kinds
      <4>2. QED
        BY <1>2, <1>4, <2>4, <4>1 DEF StreamOK, Active, Kinds, Strs
    <3>2. v = u
      BY <1>3, <2>4 DEF AfterSent, CloseStream, Active
    <3>3. QED
      BY <2>2, <3>1, <3>2 DEF u, i
  <2>5. CASE i.k = "goaway"
    <3>1. v = [u EXCEPT !.goaway = TRUE]
      BY <2>5 DEF AfterSent
    <3>2. v \in States
      BY <1>2, <3>1 DEF States
    <3>3. /\ v.ds = u.ds /\ v.conn = u.conn /\ v.str = u.str /\ v.made = u.made /\ v.sent = u.sent
          /\ v.credit = u.credit /\ v.aob = u.aob /\ v.q = u.q /\ v.in = u.in /\ v.up = u.up /\ v.out = u.out
          /\ v.abort = u.abort
      BY <1>2, <3>1 DEF States
    <3> HIDE DEF v
    <3>4. Good(v, win, hs)
      BY <2>2, <2>5, <3>2, <3>3, StatesIs DEF Good, Core, Ledger, Owed, Counted
    <3>5. QED
      BY <2>2, <2>5, <3>3, <3>4 DEF u, i, v
  <2>6. QED
    BY <1>10, <2>3, <2>4, <2>5
<1>11. CASE i.k = "wu"
  <2> DEFINE cr == [u.credit EXCEPT ![j] = @ + i.n]
  <2>1. v = [u EXCEPT !.credit = cr]
    BY <1>11 DEF AfterSent
  <2>2. cr \in [Ids -> Nat] /\ cr[j] = w.credit[j] + i.n /\ \A h \in Ids : h # j => cr[h] = w.credit[h]
    <3>1. i.n \in Nat
      BY <1>2, SpdyAssumption DEF Items
    <3>2. u.credit \in [Ids -> Nat]
      BY <1>2 DEF States
    <3>3. QED
      BY <1>2, <1>3, <3>1, <3>2
  <2> HIDE DEF cr
  <2>3. v \in States
    BY <1>2, <2>1, <2>2 DEF States
  <2>4. /\ v.ds = u.ds /\ v.conn = u.conn /\ v.str = u.str /\ v.made = u.made /\ v.sent = u.sent
        /\ v.credit = cr /\ v.aob = u.aob /\ v.q = u.q /\ v.in = u.in /\ v.up = u.up /\ v.out = u.out
        /\ v.abort = u.abort
    BY <1>2, <2>1 DEF States
  <2> HIDE DEF v
  <2>5. Owed(v, j) = Owed(w, j)
    <3>1. Amount(i, j) = i.n /\ i.n \in Nat
      BY <1>2, <1>11, SpdyAssumption DEF Amount, Items
    <3>2. QED
      BY <1>3, <1>6, <1>8, <2>2, <2>4, <3>1 DEF Owed
  <2>6. Others(w, v, j) /\ Requeued(w, v, j) /\ Queue(v.q, v.aob)
    BY <1>3, <2>2, <2>4 DEF Others, Requeued
  <2>7. StreamOK(j, v.str[j], v.ds[j], v.q, v.aob, v.made[j], v.sent[j])
    <3>1. Is(i, "data", j) = 0 /\ \A k \in Kinds : k # "wu" => Is(i, k, j) = 0
      BY <1>11 DEF Is
    <3>2. \A k \in Kinds : k # "wu" => Pend(v.q, v.aob, k, j) = Pend(w.q, w.aob, k, j)
      BY <1>2, <1>3, <2>4, <3>1
    <3>3. w.str[j].st # "none"
      BY <1>1, <1>11, DataOfClosing
    <3>4. /\ v.str[j] = w.str[j] /\ v.ds[j] = w.ds[j] /\ v.made[j] = w.made[j] /\ v.sent[j] = w.sent[j]
          /\ Pend(v.q, v.aob, "reply", j) = Pend(w.q, w.aob, "reply", j)
          /\ Pend(v.q, v.aob, "data", j) = Pend(w.q, w.aob, "data", j)
          /\ Pend(v.q, v.aob, "fin", j) = Pend(w.q, w.aob, "fin", j)
          /\ Pend(v.q, v.aob, "rst", j) = Pend(w.q, w.aob, "rst", j)
      BY <1>3, <2>4, <3>2 DEF Kinds
    <3>5. Is(v.aob, "data", j) = Is(w.aob, "data", j)
      BY <1>2, <2>4, <3>1 DEF i
    <3>6. StreamOK(j, w.str[j], w.ds[j], w.q, w.aob, w.made[j], w.sent[j])
      BY <1>2
    <3> HIDE DEF i
    <3>7. QED
      BY <3>3, <3>4, <3>5, <3>6 DEF StreamOK
  <2>10. Counted(v, j) => Counted(w, j)
    BY <1>3, <1>11, <1>16, <2>4 DEF Counted
  <2>8. Good(v, win, hs)
    BY <1>1, <1>3, <1>6, <2>3, <2>4, <2>5, <2>6, <2>7, <2>10, SentKeeps
  <2>9. QED
    BY <1>1, <1>3, <1>5, <2>4, <2>8 DEF v, u, i
<1>17. CASE i.k = "reply" /\ ~Active(w, j)
  <2>1. v = u
    BY <1>3, <1>17 DEF AfterSent, Active
  <2>2. w.str[j].st = "closed" /\ Is(w.aob, "data", j) = 0
    BY <1>1, <1>17, DataOfClosing DEF Active, Is, i
  <2>3. Good(u, win, hs)
    BY <1>1, <1>17, <2>2, DropKeeps
  <2>4. QED
    BY <1>1, <1>3, <1>5, <2>1, <2>3 DEF u, i
<1>12. CASE i.k = "reply" /\ Active(w, j)
  <2> DEFINE x == Item("data", j, 0)
             s == [u.str[j] EXCEPT !.st = "OPENED"]
             q == Append(u.q, x)
  <2>1. v = [u EXCEPT !.str[j] = s, !.q = q]
    BY <1>3, <1>12 DEF AfterSent, Active
  <2>2. x \in Items /\ x.k = "data" /\ x.id = j /\ x.n = 0
    BY <1>2, ItemIs, WindowIs
  <2> HIDE DEF x
  <2>3. /\ s \in Strs /\ s.st = "OPENED" /\ s.rfin = w.str[j].rfin /\ s.lfin = w.str[j].lfin
        /\ s.deferred = w.str[j].deferred
    BY <1>3, <1>4 DEF Strs
  <2>4. q \in Seq(Items) /\ Queue(q, u.aob) /\ Len(q) = Len(w.q) + 1 /\ Replies(q) = Replies(w.q)
    <3>1. u.q \in Seq(Items) /\ u.q = w.q /\ u.aob \in Items
      BY <1>1, <1>4, <1>3, NoItemIs
    <3>2. q \in Seq(Items) /\ Queue(q, u.aob) /\ Len(q) = Len(u.q) + 1
      BY <1>2, <1>3, <2>2, <3>1, QueueAppend
    <3>3. Replies(q) = Replies(u.q)
      BY <2>2, <3>1, RepliesAppend
    <3>4. QED
      BY <3>1, <3>2, <3>3
  <2> HIDE DEF s, q
  <2>5. v \in States
    <3>1. s \in Strs /\ q \in Seq(Items)
      BY <2>3, <2>4
    <3>2. v = [u EXCEPT !.q = q, !.str[j] = s]
      BY <1>2, <2>1 DEF States
    <3> HIDE DEF v, j
    <3>3. QED
      BY <1>2, <3>1, <3>2 DEF States
  <2>6. /\ v.ds = u.ds /\ v.conn = u.conn /\ v.made = u.made /\ v.sent = u.sent
        /\ v.credit = u.credit /\ v.aob = u.aob /\ v.q = q /\ v.in = u.in /\ v.up = u.up /\ v.out = u.out
        /\ v.abort = u.abort
    BY <1>2, <2>1 DEF States
  <2>7. v.str[j] = s /\ \A h \in Ids : h # j => v.str[h] = u.str[h]
    BY <1>2, <2>1 DEF States
  <2> HIDE DEF v
  <2>8. /\ Requeued(u, v, j) /\ Granted(v.q, v.aob, j) = Granted(u.q, u.aob, j) + Amount(x, j)
        /\ \A k \in Kinds : Pend(v.q, v.aob, k, j) = Pend(u.q, u.aob, k, j) + Is(x, k, j)
    BY <1>2, <2>2, <2>6, AppendRequeues DEF q
  <2>9. Requeued(w, v, j) /\ Others(w, v, j) /\ Queue(v.q, v.aob)
    BY <1>3, <2>4, <2>6, <2>7, <2>8 DEF Requeued, Others
  <2>10. Owed(v, j) = Owed(w, j)
    <3>1. Amount(x, j) = 0
      BY <2>2 DEF Amount
    <3>2. Granted(v.q, v.aob, j) = Granted(w.q, w.aob, j)
      BY <1>6, <1>7, <1>12, <2>8, <3>1
    <3>3. QED
      BY <1>3, <2>6, <3>2 DEF Owed
  <2>11. w.str[j].st \in {"OPENING", "CLOSING"}
    BY <1>1, <1>12, DataOfClosing DEF Active
  <2>12. StreamOK(j, v.str[j], v.ds[j], v.q, v.aob, v.made[j], v.sent[j])
    <3>1. Is(i, "data", j) = 0 /\ Is(v.aob, "data", j) = 0
      BY <1>2, <1>12, <2>6 DEF Is
    <3>2. w.ds[j] # NullObj /\ w.made[j] = w.sent[j] + w.ds[j].body + 0
      BY <1>2, <2>11, <3>1 DEF StreamOK, i
    <3>3. Is(i, "reply", j) = 1 /\ Is(i, "fin", j) = 0
          /\ Is(x, "reply", j) = 0 /\ Is(x, "data", j) = 1 /\ Is(x, "fin", j) = 0
      BY <1>12, <2>2 DEF Is
    <3>4. /\ Pend(w.q, w.aob, "reply", j) = Pend(u.q, u.aob, "reply", j) + 1
          /\ Pend(w.q, w.aob, "data", j) = Pend(u.q, u.aob, "data", j)
          /\ Pend(w.q, w.aob, "fin", j) = Pend(u.q, u.aob, "fin", j)
          /\ Pend(u.q, u.aob, "reply", j) \in Nat
      BY <1>2, <1>3, <3>1, <3>3 DEF Kinds
    <3>5. /\ w.ds[j].res # "INITIAL" /\ Pend(u.q, u.aob, "reply", j) = 0 /\ Pend(u.q, u.aob, "data", j) = 0
          /\ Pend(u.q, u.aob, "fin", j) = 0 /\ ~w.str[j].lfin /\ ~w.str[j].deferred
      BY <1>2, <2>11, <3>4 DEF StreamOK
    <3>6. Pend(v.q, v.aob, "reply", j) = 0 /\ Pend(v.q, v.aob, "data", j) = 1 /\ Pend(v.q, v.aob, "fin", j) = 0
      BY <2>8, <3>3, <3>5 DEF Kinds
    <3>7. QED
      BY <1>3, <2>3, <2>6, <2>7, <3>1, <3>2, <3>5, <3>6 DEF StreamOK
  <2>13. Counted(v, j) => Counted(w, j)
    <3>1. Is(x, "rst", j) = 0 /\ Pend(w.q, w.aob, "rst", j) \in Nat
      BY <1>2, <2>2, PendNat DEF Is, Kinds
    <3>2. Pend(v.q, v.aob, "rst", j) = Pend(w.q, w.aob, "rst", j)
      BY <1>12, <1>16, <2>8, <3>1 DEF Kinds
    <3>3. w.str[j].st = "CLOSING" => Pend(w.q, w.aob, "rst", j) > 0
      BY <1>2 DEF StreamOK
    <3>4. QED
      BY <2>11, <3>1, <3>2, <3>3 DEF Counted
  <2>14. Good(v, win, hs)
    BY <1>1, <1>3, <1>6, <2>3, <2>5, <2>6, <2>7, <2>9, <2>10, <2>11, <2>12, <2>13, SentKeeps
  <2>15. Len(v.q) + Replies(v.q) <= Len(w.q) + Replies(w.q) + 1
    BY <1>4, <2>4, <2>6
  <2>16. QED
    BY <1>1, <1>3, <2>6, <2>14, <2>15 DEF v, u, i
<1>13. CASE i.k = "data"
  <2> DEFINE y == [u EXCEPT !.sent[j] = @ + 1]
  <2>1. y \in States
    <3>1. u.sent[j] + 1 \in Nat
      BY <1>3, <1>8
    <3>2. QED
      BY <1>2, <3>1 DEF States
  <2>2. /\ y.ds = u.ds /\ y.conn = u.conn /\ y.str = u.str /\ y.made = u.made
        /\ y.credit = u.credit /\ y.aob = u.aob /\ y.q = u.q /\ y.in = u.in /\ y.up = u.up /\ y.out = u.out
        /\ y.abort = u.abort
    BY <1>2 DEF States
  <2>3. y.sent[j] = w.sent[j] + 1 /\ \A h \in Ids : h # j => y.sent[h] = w.sent[h]
    BY <1>2, <1>3 DEF States
  <2>4. v = IF Sendable(y, j) THEN ReadData(y, j) ELSE y
    BY <1>13 DEF AfterSent
  <2> HIDE DEF y, v
  <2>5. Requeued(w, y, j) /\ Others(w, y, j) /\ Queue(y.q, y.aob)
    BY <1>3, <2>2, <2>3 DEF Requeued, Others
  <2>6. Granted(y.q, y.aob, j) = Granted(w.q, w.aob, j)
    BY <1>7, <1>13, <2>2
  <2>7. w.ds[j] # NullObj => w.made[j] = w.sent[j] + w.ds[j].body + 1
    <3>1. Is(w.aob, "data", j) = 1
      BY <1>13 DEF Is, i
    <3>2. QED
      BY <1>2, <3>1 DEF StreamOK
  <2>8. w.ds[j] # NullObj => y.made[j] = y.sent[j] + y.ds[j].body
    BY <1>3, <1>8, <2>2, <2>3, <2>7
  <2>9. Len(y.q) + Replies(y.q) <= Len(w.q) + Replies(w.q) + 1
    BY <1>1, <1>5, <2>2
  <2>10. CASE Sendable(y, j)
    <3>1. /\ w.str[j].st = "OPENED" /\ ~w.str[j].lfin /\ w.ds[j] # NullObj
          /\ Pend(w.q, w.aob, "reply", j) = 0
          /\ Pend(w.q, w.aob, "data", j) + Pend(w.q, w.aob, "fin", j) + (IF w.str[j].deferred THEN 1 ELSE 0) = 1
      BY <1>2, <1>3, <2>2, <2>10 DEF StreamOK, Sendable
    <3>2. /\ (\A k \in {"reply", "data", "fin"} : Pend(u.q, u.aob, k, j) = 0) /\ ~w.str[j].deferred
          /\ Pend(u.q, u.aob, "rst", j) = Pend(w.q, w.aob, "rst", j)
      <4>1. Is(i, "reply", j) = 0 /\ Is(i, "data", j) = 1 /\ Is(i, "fin", j) = 0
        BY <1>13 DEF Is
      <4>2. QED
        BY <1>2, <1>3, <1>13, <1>16, <3>1, <4>1 DEF Kinds
    <3>3. Frame(w, y, j)
      BY <1>3, <2>1, <2>2, <2>5 DEF Frame
    <3>4. Drawn(w, y, j)
      BY <1>1, <1>3, <2>2, <2>6, <2>8, <2>10, <3>1, <3>2, <3>3 DEF Drawn, Less
    <3>5. Good(v, win, hs) /\ Steady(y, v) /\ v.q = y.q
      BY <1>2, <2>4, <2>10, <3>4, ReadKeeps
    <3>6. QED
      BY <1>1, <1>3, <2>2, <2>9, <3>5 DEF Steady, v, u, i
  <2>11. CASE ~Sendable(y, j)
    <3>1. w.str[j].st \in {"CLOSING", "closed"}
      BY <1>1, <1>3, <1>13, <2>2, <2>11, DataOfClosing DEF Sendable
    <3>2. Is(y.aob, "data", j) = 0
      BY <1>2, <2>2
    <3>3. StreamOK(j, y.str[j], y.ds[j], y.q, y.aob, y.made[j], y.sent[j])
      <4>1. w.ds[j] # NullObj <=> w.str[j].st \in {"OPENING", "OPENED", "CLOSING"}
        BY <1>2 DEF StreamOK
      <4>2. w.ds[j] # NullObj => y.made[j] = y.sent[j] + y.ds[j].body + 0
        BY <1>3, <1>8, <2>2, <2>3, <2>8
      <4>3. /\ Pend(u.q, u.aob, "rst", j) = Pend(w.q, w.aob, "rst", j)
            /\ Pend(u.q, u.aob, "reply", j) = Pend(w.q, w.aob, "reply", j)
            /\ Pend(u.q, u.aob, "data", j) + 1 = Pend(w.q, w.aob, "data", j)
            /\ Pend(u.q, u.aob, "fin", j) = Pend(w.q, w.aob, "fin", j)
            /\ Pend(u.q, u.aob, "data", j) \in Nat
        BY <1>2, <1>3, <1>13 DEF Is, Kinds
      <4>4. QED
        BY <1>2, <1>3, <2>2, <3>1, <3>2, <4>1, <4>2, <4>3 DEF StreamOK
    <3>4. Owed(y, j) = Owed(w, j) /\ (Counted(y, j) => Counted(w, j))
      BY <1>3, <1>13, <1>16, <2>2, <2>6 DEF Owed, Counted
    <3>5. Good(y, win, hs)
      BY <1>1, <1>3, <1>6, <2>1, <2>2, <2>5, <3>3, <3>4, SentKeeps
    <3>6. QED
      BY <1>1, <1>3, <2>2, <2>4, <2>9, <2>11, <3>5 DEF v, u, i
  <2>12. QED
    BY <2>10, <2>11
<1>14. CASE i.k = "fin"
  <2> DEFINE s == [u.str[j] EXCEPT !.lfin = TRUE]
             y == [u EXCEPT !.str[j] = s]
  <2>1. s \in Strs /\ s.st = w.str[j].st /\ s.rfin = w.str[j].rfin /\ s.lfin = TRUE /\ s.deferred = w.str[j].deferred
    BY <1>3, <1>4 DEF Strs
  <2>2. v = IF y.str[j].rfin THEN CloseStream(y, j) ELSE y
    BY <1>14 DEF AfterSent
  <2> HIDE DEF s
  <2>3. y \in States
    BY <1>2, <2>1 DEF States
  <2>4. /\ y.ds = u.ds /\ y.conn = u.conn /\ y.sent = u.sent /\ y.made = u.made
        /\ y.credit = u.credit /\ y.aob = u.aob /\ y.q = u.q /\ y.in = u.in /\ y.up = u.up /\ y.out = u.out
        /\ y.abort = u.abort
    BY <1>2 DEF States
  <2>5. y.str[j] = s /\ \A h \in Ids : h # j => y.str[h] = w.str[h]
    BY <1>2, <1>3 DEF States
  <2> HIDE DEF y, v
  <2>6. Requeued(w, y, j) /\ Others(w, y, j) /\ Queue(y.q, y.aob)
    BY <1>3, <2>4, <2>5 DEF Requeued, Others
  <2>7. w.str[j].st \in {"OPENED", "CLOSING", "closed"}
    BY <1>1, <1>14, DataOfClosing
  <2>8. StreamOK(j, y.str[j], y.ds[j], y.q, y.aob, y.made[j], y.sent[j])
    <3>1. Is(y.aob, "data", j) = 0 /\ Is(w.aob, "data", j) = 0
      BY <1>2, <1>14, <2>4 DEF Is, i
    <3>2. w.ds[j] # NullObj => w.made[j] = w.sent[j] + w.ds[j].body + 0
      BY <1>2, <3>1 DEF StreamOK
    <3>3. w.ds[j] # NullObj <=> w.str[j].st \in {"OPENING", "OPENED", "CLOSING"}
      BY <1>2 DEF StreamOK
    <3>4. /\ w.str[j].st = "CLOSING" =>
               Pend(u.q, u.aob, "rst", j) > 0 /\ w.ds[j].res # "INITIAL" /\ Pend(u.q, u.aob, "reply", j) = 0
          /\ w.str[j].st = "OPENED" =>
            /\ w.ds[j].res # "INITIAL" /\ ~w.str[j].deferred
            /\ Pend(u.q, u.aob, "reply", j) = 0 /\ Pend(u.q, u.aob, "data", j) = 0 /\ Pend(u.q, u.aob, "fin", j) = 0
      <4>1. Is(i, "reply", j) = 0 /\ Is(i, "data", j) = 0 /\ Is(i, "fin", j) = 1
        BY <1>14 DEF Is
      <4>2. /\ Pend(w.q, w.aob, "reply", j) = Pend(u.q, u.aob, "reply", j)
            /\ Pend(w.q, w.aob, "data", j) = Pend(u.q, u.aob, "data", j)
            /\ Pend(w.q, w.aob, "fin", j) = Pend(u.q, u.aob, "fin", j) + 1
            /\ Pend(u.q, u.aob, "reply", j) \in Nat /\ Pend(u.q, u.aob, "data", j) \in Nat
            /\ Pend(u.q, u.aob, "fin", j) \in Nat
            /\ Pend(w.q, w.aob, "rst", j) = Pend(u.q, u.aob, "rst", j)
        BY <1>2, <1>3, <1>14, <1>16, <4>1 DEF Kinds
      <4>3. QED
        BY <1>2, <4>2 DEF StreamOK
    <3>5. QED
      BY <1>3, <2>1, <2>4, <2>5, <2>7, <3>1, <3>2, <3>3, <3>4 DEF StreamOK
  <2>9. Owed(y, j) = Owed(w, j) /\ (Counted(y, j) => Counted(w, j))
    BY <1>3, <1>7, <1>14, <1>16, <2>1, <2>4, <2>5 DEF Owed, Counted
  <2>10. Good(y, win, hs)
    BY <1>1, <1>3, <1>6, <2>1, <2>3, <2>4, <2>5, <2>6, <2>8, <2>9, SentKeeps
  <2>11. Fine(y)
    BY <1>1, <1>3, <1>5, <2>4, <2>10
  <2>12. QED
    BY <1>9, <2>2, <2>11 DEF v, u, i
<1>15. QED
  BY <1>1, <1>10, <1>11, <1>12, <1>13, <1>14, <1>17

\* Everything that s holds may be counted once at most.
LEMMA CountAtMost == ASSUME NEW S, NEW s \in Seq(S), NEW T PROVE Count(s, T) <= Len(s)
<1> DEFINE A == {i \in 1..Len(s) : s[i] \in T}
<1>1. IsFiniteSet(1..Len(s)) /\ A \subseteq 1..Len(s) /\ Len(s) \in Nat
  BY FS_Interval
<1>2. Cardinality(1..Len(s)) = Len(s)
  BY <1>1, FS_Interval
<1>3. Cardinality(A) <= Cardinality(1..Len(s))
  <2> HIDE DEF A
  <2> QED
    BY <1>1, FS_Subset
<1>4. QED
  BY <1>2, <1>3 DEF Count

\* What the loop has to do yet, and when it is over.
Left(w) == IF w.out > SpdyThres THEN 0 ELSE (SpdyThres + 1) - w.out
Load(q) == Len(q) + Replies(q)
Work(w) == Load(w.q) + Left(w) + Left(w) + Left(w)
Stopped(w) == IF w.aob = NoItem THEN w.q = <<>> ELSE w.out > SpdyThres

LEMMA WorkNat ==
  ASSUME NEW w \in States
  PROVE  /\ Work(w) \in Nat /\ Load(w.q) \in Nat /\ w.out \in Nat /\ w.q \in Seq(Items)
         /\ Load(w.q) <= Len(w.q) + Len(w.q) /\ (Load(w.q) = 0 => w.q = <<>>)
<1>1. 1 \in Ids /\ SpdyThres \in Nat
  BY IdsAreNumbers, SpdyAssumption
<1>2. w.q \in Seq(Items) /\ w.out \in Nat
  BY <1>1, StateParts
<1>3. Replies(w.q) \in Nat /\ Len(w.q) \in Nat /\ Replies(w.q) <= Len(w.q)
  BY <1>2, CountNat, CountAtMost DEF Replies
<1>4. Load(w.q) \in Nat /\ Load(w.q) <= Len(w.q) + Len(w.q)
  BY <1>3 DEF Load
<1>5. Load(w.q) = 0 => w.q = <<>>
  <2>1. SUFFICES ASSUME Load(w.q) = 0 PROVE w.q = <<>>
    OBVIOUS
  <2>2. Len(w.q) = 0
    BY <1>3, <2>1 DEF Load
  <2>3. QED
    BY <1>2, <2>2
<1>6. Left(w) \in Nat
  BY <1>1, <1>2 DEF Left
<1>7. Work(w) \in Nat
  BY <1>4, <1>6 DEF Work
<1>8. QED
  BY <1>2, <1>4, <1>5, <1>7

LEMMA Turns ==
  ASSUME NEW a \in Nat, NEW b \in Nat
  PROVE  2 * a + 3 * (b + 1) \in Nat /\ 2 * a + 3 * (b + 1) = a + a + (b + 1) + (b + 1) + (b + 1)
  OBVIOUS

LEMMA SendTurnKeeps ==
  ASSUME NEW w, NEW win, NEW hs, win \in [Ids -> Nat], Good(w, win, hs)
  PROVE  LET v == SendTurn(w)
         IN  /\ Good(v, win, hs) /\ v.up = w.up /\ v.in = w.in
             /\ IF Stopped(w) THEN v = w ELSE Work(v) < Work(w)
<1> DEFINE v == SendTurn(w)
<1>1. w.abort = "none" /\ w \in States /\ SpdyThres \in Nat
  BY StatesIs, SpdyAssumption DEF Good, Core
<1>2. Load(w.q) \in Nat /\ w.out \in Nat
  BY <1>1, WorkNat
<1>3. ASSUME Good(v, win, hs) PROVE Load(v.q) \in Nat
  BY <1>3, WorkNat, StatesIs DEF Good, Core
<1>4. CASE Stopped(w)
  <2>1. v = w
    BY <1>1, <1>4 DEF SendTurn, Stopped
  <2>2. QED
    BY <1>4, <2>1
<1>5. CASE w.aob # NoItem /\ ~(w.out > SpdyThres)
  <2>1. v = AfterSent([w EXCEPT !.out = @ + 1, !.aob = NoItem], w.aob)
    BY <1>1, <1>5 DEF SendTurn
  <2>2. /\ Good(v, win, hs) /\ v.up = w.up /\ v.in = w.in /\ v.out = w.out + 1
        /\ Len(v.q) + Replies(v.q) <= Len(w.q) + Replies(w.q) + 1
    BY <1>5, <2>1, AfterSentKeeps
  <2> HIDE DEF v
  <2>3. Left(v) \in Nat /\ Left(w) = Left(v) + 1
    <3>1. w.out \in Nat /\ SpdyThres \in Nat /\ v.out = w.out + 1 /\ w.out <= SpdyThres
      BY <1>1, <1>2, <1>5, <2>2, SpdyAssumption
    <3>2. QED
      BY <3>1 DEF Left
  <2>4. Load(v.q) \in Nat /\ Load(v.q) <= Load(w.q) + 1
    BY <1>3, <2>2 DEF Load
  <2>5. Work(v) < Work(w)
    BY <1>2, <2>3, <2>4 DEF Work
  <2>6. QED
    BY <1>5, <2>2, <2>5 DEF Stopped, v
<1>6. CASE w.aob = NoItem /\ w.q # <<>>
  <2>1. v = Prepare([w EXCEPT !.q = Tail(@)], Head(w.q))
    BY <1>1, <1>6 DEF SendTurn
  <2>2. Good(v, win, hs) /\ Steady(w, v) /\ Len(v.q) + Replies(v.q) < Len(w.q) + Replies(w.q)
    BY <1>6, <2>1, PrepareKeeps
  <2> HIDE DEF v
  <2>3. Left(v) = Left(w) /\ Left(w) \in Nat
    BY <1>1, <1>2, <2>2 DEF Left, Steady
  <2>4. Load(v.q) \in Nat /\ Load(v.q) < Load(w.q)
    BY <1>3, <2>2 DEF Load
  <2>5. Work(v) < Work(w)
    BY <1>2, <2>3, <2>4 DEF Work
  <2>6. QED
    BY <1>6, <2>2, <2>5 DEF Stopped, Steady, v
<1>7. QED
  BY <1>4, <1>5, <1>6 DEF Stopped

SendRun(w, n, f) == f = [i \in 0..n |-> IF i = 0 THEN w ELSE SendTurn(f[i - 1])]

LEMMA SessionSendKeeps ==
  ASSUME NEW w, NEW win, NEW hs, win \in [Ids -> Nat], Good(w, win, hs)
  PROVE  LET v == SessionSend(w)
         IN  Good(v, win, hs) /\ v.up = w.up /\ v.in = w.in /\ Sent(v)
<1> DEFINE n == 2 * Len(w.q) + 3 * (SpdyThres + 1)
           D == {x \in States : Good(x, win, hs) /\ x.up = w.up /\ x.in = w.in}
           F == [i \in 1..n |-> [x \in D |-> SendTurn(x)]]
           run == CHOOSE f : SendRun(w, n, f)
<1>1. w \in States /\ SpdyThres \in Nat /\ w \in D
  BY StatesIs, SpdyAssumption DEF Good, Core
<1>2. Len(w.q) \in Nat /\ Load(w.q) \in Nat /\ w.out \in Nat /\ Load(w.q) <= Len(w.q) + Len(w.q)
  BY <1>1, WorkNat
<1>3. n \in Nat /\ n = Len(w.q) + Len(w.q) + (SpdyThres + 1) + (SpdyThres + 1) + (SpdyThres + 1)
  <2> DEFINE a == Len(w.q)
             b == SpdyThres
  <2>1. a \in Nat /\ b \in Nat
    BY <1>1, <1>2
  <2> HIDE DEF a, b
  <2>2. 2 * a + 3 * (b + 1) \in Nat /\ 2 * a + 3 * (b + 1) = a + a + (b + 1) + (b + 1) + (b + 1)
    BY <2>1, Turns
  <2>3. QED
    BY <2>2 DEF a, b
<1>4. ASSUME NEW x \in D
      PROVE  SendTurn(x) \in D /\ IF Stopped(x) THEN SendTurn(x) = x ELSE Work(SendTurn(x)) < Work(x)
  <2>1. Good(x, win, hs) /\ x.up = w.up /\ x.in = w.in
    OBVIOUS
  <2> DEFINE v == SendTurn(x)
  <2> HIDE DEF v
  <2>2. /\ Good(v, win, hs) /\ v.up = x.up /\ v.in = x.in
        /\ IF Stopped(x) THEN v = x ELSE Work(v) < Work(x)
    BY <2>1, SendTurnKeeps DEF v
  <2>3. v \in States
    BY <2>2, StatesIs DEF Good, Core
  <2>4. QED
    BY <2>1, <2>2, <2>3 DEF v
<1> HIDE DEF D, n
<1>5. \A i \in 1..n : F[i] \in [D -> D] /\ \A x \in D : F[i][x] = SendTurn(x)
  BY <1>4
<1> HIDE DEF F
<1>6. PICK f \in [0..n -> D] : TurnsOf(n, w, F, f)
  BY <1>1, <1>3, <1>5, TurnsExist
<1>7. SendRun(w, n, f)
  <2>1. ASSUME NEW i \in 0..n, i # 0 PROVE F[i][f[i - 1]] = SendTurn(f[i - 1])
    <3>1. i \in 1..n /\ i - 1 \in 0..n
      BY <1>3, <2>1
    <3>2. QED
      BY <1>5, <3>1
  <2>2. QED
    BY <1>6, <2>1 DEF SendRun, TurnsOf
<1>8. SendRun(w, n, run)
  BY <1>7
<1>9. SessionSend(w) = run[n]
  BY Zenon DEF SessionSend, SendRun, n
<1> HIDE DEF run
<1>10. run[0] = w /\ \A i \in 1..n : run[i] = SendTurn(run[i - 1])
  BY <1>3, <1>8 DEF SendRun
<1> DEFINE T == {i \in Nat : run[i] \in D /\ (Stopped(run[i]) \/ Work(run[i]) <= n - i)}
<1>11. 0 \in T
  <2>1. Work(w) <= n
    <3>1. Left(w) \in Nat /\ Left(w) <= SpdyThres + 1
      BY <1>1, <1>2 DEF Left
    <3> DEFINE l == Len(w.q)
    <3>2. l \in Nat /\ Load(w.q) <= l + l /\ n = l + l + (SpdyThres + 1) + (SpdyThres + 1) + (SpdyThres + 1)
      BY <1>2, <1>3
    <3> HIDE DEF l
    <3>3. QED
      BY <1>1, <1>2, <3>1, <3>2 DEF Work
  <2>2. n \in Nat /\ n - 0 = n
    BY <1>3
  <2>3. run[0] \in D /\ Work(run[0]) <= n - 0
    BY <1>1, <1>10, <2>1, <2>2
  <2>4. QED
    BY <2>3
<1>12. ASSUME NEW i \in 0..(n - 1), i \in T PROVE i + 1 \in T
  <2> DEFINE x == run[i]
             y == run[i + 1]
  <2>1. i + 1 \in 1..n /\ (i + 1) - 1 = i /\ i \in Nat
    BY <1>3
  <2>2. y = SendTurn(x)
    BY <1>10, <2>1
  <2>3. x \in D /\ (Stopped(x) \/ Work(x) <= n - i)
    BY <1>12
  <2> HIDE DEF x, y
  <2>4. y \in D /\ IF Stopped(x) THEN y = x ELSE Work(y) < Work(x)
    BY <1>4, <2>2, <2>3
  <2>5. Work(x) \in Nat /\ Work(y) \in Nat
    BY <2>3, <2>4, WorkNat DEF D
  <2>6. Stopped(y) \/ Work(y) <= n - (i + 1)
    BY <1>3, <2>1, <2>3, <2>4, <2>5
  <2>7. QED
    BY <2>1, <2>4, <2>6 DEF y
<1>13. n \in T
  <2> HIDE DEF T
  <2>1. \A i \in 0..n : i \in T
    BY <1>3, <1>11, <1>12, UpTo
  <2>2. QED
    BY <1>3, <2>1
<1> DEFINE v == run[n]
<1>14. v \in D /\ (Stopped(v) \/ Work(v) <= 0)
  BY <1>3, <1>13
<1> HIDE DEF v
<1>15. v \in States /\ Good(v, win, hs) /\ v.up = w.up /\ v.in = w.in
  BY <1>14 DEF D
<1>16. Load(v.q) \in Nat /\ v.out \in Nat /\ (Load(v.q) = 0 => v.q = <<>>)
  BY <1>15, WorkNat
<1>17. Stopped(v)
  <2>1. SUFFICES ASSUME Work(v) <= 0 PROVE Stopped(v)
    BY <1>14
  <2>2. Left(v) \in Nat /\ (Left(v) = 0 => v.out > SpdyThres)
    BY <1>1, <1>16 DEF Left
  <2>3. Load(v.q) = 0 /\ Left(v) = 0
    BY <1>16, <2>1, <2>2 DEF Work
  <2>4. QED
    BY <1>16, <2>2, <2>3 DEF Stopped
<1>18. Sent(v)
  BY <1>1, <1>16, <1>17 DEF Sent, Stopped
<1>19. QED
  BY <1>9, <1>15, <1>18 DEF v

LEMMA DeleteHandlerOver ==
  ASSUME NEW w, NEW win, NEW hs, Good(w, win, hs) PROVE Held(DeleteHandler(w), win, hs)
<1> DEFINE v == DeleteHandler(w)
           k == [c \in Conns |-> IF w.conn[c].st = "lost" THEN w.conn[c] ELSE NewConn]
           n == [id \in Ids |-> NullObj]
<1>1. w \in States /\ w.abort = "none"
  BY StatesIs DEF Good, Core
<1>2. w.conn \in Backs /\ DOMAIN w.ds = Ids
  BY <1>1 DEF States
<1>3. v = [w EXCEPT !.up = "gone", !.conn = k, !.ds = n]
  BY <1>1, <1>2 DEF DeleteHandler
<1>4. NewConn \in ConnType(Ids) /\ NewConn.st = "none"
  BY DEF NewConn, ConnType
<1>5. k \in Backs /\ n \in [Ids -> Downs] /\ \A c \in Conns : k[c].st \in {"none", "lost"}
  BY <1>2, <1>4 DEF Backs, Downs
<1> HIDE DEF k, n, v
<1>6. v \in States
  BY <1>1, <1>3, <1>5 DEF States
<1>7. v.up = "gone" /\ v.ds = n /\ v.conn = k /\ v.abort = "none"
  BY <1>1, <1>3 DEF States
<1>8. Over(v)
  BY <1>5, <1>6, <1>7, StatesIs DEF Over, n
<1>9. QED
  BY <1>7, <1>8 DEF Held, v

\* SpdyUpstream::send, where a handler ends.
LEMMA SendHeld ==
  ASSUME NEW w, NEW win, NEW hs, win \in [Ids -> Nat], Good(w, win, hs), w.up = "open"
  PROVE  Held(Send(w), win, hs)
<1> DEFINE v == SessionSend(w)
<1>1. Good(v, win, hs) /\ v.up = "open" /\ Sent(v)
  BY SessionSendKeeps
<1>2. Send(w) = IF v.goaway THEN DeleteHandler(v) ELSE v
  BY DEF Send
<1> HIDE DEF v
<1>3. QED
  BY <1>1, <1>2, DeleteHandlerOver DEF Held
-----------------------------------------------------------------------------
(* Frames of the client.                                                   *)

\* No more DATA of stream j comes.
Quit(j, in, h) == (\A i \in 1..Len(in) : ~(in[i].k = "data" /\ in[i].id = j)) /\ h # "open"

LEMMA TailIs ==
  ASSUME NEW in \in Seq(Frames), in # <<>>
  PROVE  /\ Tail(in) \in Seq(Frames) /\ Head(in) \in Frames /\ Head(in) = in[1] /\ 1 \in 1..Len(in)
         /\ \A n \in 1..Len(Tail(in)) : Tail(in)[n] = in[n + 1] /\ n + 1 \in 1..Len(in) /\ 1 < n + 1 /\ n \in Nat
         /\ \A n \in 1..Len(in) : n # 1 => n - 1 \in 1..Len(Tail(in)) /\ Tail(in)[n - 1] = in[n]
  OBVIOUS

LEMMA OrderTail ==
  ASSUME NEW in \in Seq(Frames), in # <<>>, NEW j \in Ids, NEW s, NEW h, Order(j, s, in, h),
         ~(Head(in).k = "syn" /\ Head(in).id = j)
  PROVE  /\ Order(j, s, Tail(in), h)
         /\ Head(in).k = "data" /\ Head(in).id = j =>
              s.st # "none" /\ ~Shut(s) /\ (Head(in).fin => Quit(j, Tail(in), h))
<1>1. /\ Tail(in) \in Seq(Frames) /\ Head(in) \in Frames /\ Head(in) = in[1] /\ 1 \in 1..Len(in)
      /\ \A n \in 1..Len(Tail(in)) : Tail(in)[n] = in[n + 1] /\ n + 1 \in 1..Len(in) /\ 1 < n + 1 /\ n \in Nat
      /\ \A n \in 1..Len(in) : n # 1 => n - 1 \in 1..Len(Tail(in)) /\ Tail(in)[n - 1] = in[n]
  BY TailIs
<1> DEFINE t == Tail(in)
           N == 1..Len(in)
           M == 1..Len(t)
           syn(n) == in[n].k = "syn" /\ in[n].id = j
           data(n) == in[n].k = "data" /\ in[n].id = j
           fin(n) == (syn(n) \/ data(n)) /\ in[n].fin
<1>2. /\ \A n \in N : syn(n) => s.st = "none" /\ \A i \in N : i < n => in[i].k = "bad" \/ in[i].id # j
      /\ \A n \in N : data(n) => s.st # "none" \/ \E i \in N : i < n /\ syn(i)
      /\ \A n \in N : data(n) => ~Shut(s) /\ \A i \in N : i < n => ~fin(i)
      /\ h = "open" => /\ ~Shut(s) /\ \A n \in N : ~fin(n)
                       /\ s.st # "none" \/ \E i \in N : syn(i)
      /\ h = "none" => s.st = "none" /\ \A n \in N : in[n].k = "bad" \/ in[n].id # j
  BY Zenon DEF Order
<1>3. ~syn(1)
  BY <1>1
<1>4. /\ \A n \in M : t[n] = in[n + 1] /\ n + 1 \in N /\ 1 < n + 1 /\ n \in Nat
      /\ \A n \in N : n # 1 => n - 1 \in M /\ t[n - 1] = in[n]
      /\ 1 \in N /\ Head(in) = in[1] /\ N \subseteq Nat
  BY <1>1
<1> HIDE DEF t, N, M
<1>5. \A n \in M : t[n].k = "syn" /\ t[n].id = j =>
        s.st = "none" /\ \A i \in M : i < n => t[i].k = "bad" \/ t[i].id # j
  BY <1>2, <1>4, SMTT(30)
<1>6. \A n \in M : t[n].k = "data" /\ t[n].id = j =>
        s.st # "none" \/ \E i \in M : i < n /\ t[i].k = "syn" /\ t[i].id = j
  <2> SUFFICES ASSUME NEW n \in M, t[n].k = "data", t[n].id = j, s.st = "none"
               PROVE  \E i \in M : i < n /\ t[i].k = "syn" /\ t[i].id = j
    OBVIOUS
  <2>1. n + 1 \in N /\ data(n + 1) /\ n \in Nat
    BY <1>4
  <2>2. PICK i \in N : i < n + 1 /\ syn(i)
    BY <1>2, <2>1
  <2>3. i # 1
    BY <1>3, <2>2
  <2>4. i - 1 \in M /\ t[i - 1] = in[i] /\ i \in Nat
    BY <1>4, <2>3
  <2>5. i - 1 < n
    BY <2>1, <2>2, <2>4
  <2>6. QED
    BY <2>2, <2>4, <2>5
<1>7. \A n \in M : t[n].k = "data" /\ t[n].id = j =>
        ~Shut(s) /\ \A i \in M : i < n => ~(((t[i].k = "syn" /\ t[i].id = j) \/ (t[i].k = "data" /\ t[i].id = j)) /\ t[i].fin)
  BY <1>2, <1>4, SMTT(30)
<1>8. h = "open" =>
        /\ ~Shut(s)
        /\ \A i \in M : ~(((t[i].k = "syn" /\ t[i].id = j) \/ (t[i].k = "data" /\ t[i].id = j)) /\ t[i].fin)
        /\ s.st # "none" \/ \E i \in M : t[i].k = "syn" /\ t[i].id = j
  <2> SUFFICES ASSUME h = "open"
               PROVE  /\ \A i \in M : ~(((t[i].k = "syn" /\ t[i].id = j) \/ (t[i].k = "data" /\ t[i].id = j)) /\ t[i].fin)
                      /\ s.st # "none" \/ \E i \in M : t[i].k = "syn" /\ t[i].id = j
    BY <1>2
  <2>1. \A i \in M : ~(((t[i].k = "syn" /\ t[i].id = j) \/ (t[i].k = "data" /\ t[i].id = j)) /\ t[i].fin)
    BY <1>2, <1>4
  <2>2. ASSUME s.st = "none" PROVE \E i \in M : t[i].k = "syn" /\ t[i].id = j
    <3>1. PICK i \in N : syn(i)
      BY <1>2, <2>2
    <3>2. i # 1
      BY <1>3, <3>1
    <3>3. i - 1 \in M /\ t[i - 1] = in[i]
      BY <1>4, <3>2
    <3>4. QED
      BY <3>1, <3>3
  <2>3. QED
    BY <2>1, <2>2
<1>9. h = "none" => s.st = "none" /\ \A i \in M : t[i].k = "bad" \/ t[i].id # j
  BY <1>2, <1>4
<1>10. Order(j, s, t, h)
  BY <1>5, <1>6, <1>7, <1>8, <1>9, Zenon DEF Order, M
<1>11. ASSUME data(1) PROVE s.st # "none" /\ ~Shut(s) /\ (in[1].fin => Quit(j, t, h))
  <2>1. ~Shut(s)
    BY <1>2, <1>4, <1>11
  <2>2. s.st # "none"
    <3>1. \A i \in N : ~(i < 1)
      BY <1>1 DEF N
    <3>2. QED
      BY <1>2, <1>4, <1>11, <3>1
  <2>3. ASSUME in[1].fin PROVE Quit(j, t, h)
    <3>1. fin(1)
      BY <1>11, <2>3
    <3>2. h # "open"
      BY <1>2, <1>4, <3>1
    <3>3. \A i \in M : ~(t[i].k = "data" /\ t[i].id = j)
      BY <1>2, <1>4, <3>1
    <3>4. QED
      BY <3>2, <3>3 DEF Quit, M
  <2>4. QED
    BY <2>1, <2>2, <2>3
<1>12. QED
  BY <1>4, <1>10, <1>11 DEF t

\* A frame of stream id is taken from the input and the rest of w left alone.
LEMMA FrameKeeps ==
  ASSUME NEW w, NEW v, NEW win, NEW hs, win \in [Ids -> Nat], Good(w, win, hs), w.in # <<>>, NEW id \in Ids,
         Head(w.in).id = id, v.in = Tail(w.in), Local(w, v, id), Ledger(v, id, win[id]),
         Order(id, v.str[id], v.in, hs[id])
  PROVE  Good(v, win, hs)
<1>1. w \in States /\ v \in States /\ w.in \in Seq(Frames) /\ Core(w)
  BY StatesIs, StateParts DEF Good, Core, Local
<1>2. Core(v)
  BY <1>1, CoreKept
<1>3. ASSUME NEW j \in Ids, j # id PROVE Ledger(v, j, win[j]) /\ Order(j, v.str[j], v.in, hs[j])
  <2>1. Ledger(w, j, win[j]) /\ Order(j, w.str[j], w.in, hs[j])
    BY DEF Good
  <2>2. v.str[j] = w.str[j] /\ v.ds[j] = w.ds[j] /\ v.credit[j] = w.credit[j] /\ Requeued(w, v, id)
    BY <1>3 DEF Local, Others
  <2>3. /\ Granted(v.q, v.aob, j) = Granted(w.q, w.aob, j)
        /\ Pend(v.q, v.aob, "rst", j) = Pend(w.q, w.aob, "rst", j)
    BY <1>1, <1>3, <2>2, OthersAlike DEF Kinds
  <2>4. Owed(v, j) = Owed(w, j) /\ (Counted(v, j) <=> Counted(w, j))
    BY <2>2, <2>3 DEF Owed, Counted
  <2>5. Count(w.in, Upload(j)) = Count(v.in, Upload(j))
    <3>1. Head(w.in) \notin Upload(j)
      BY <1>3 DEF Upload
    <3>2. Count(w.in, Upload(j)) = Count(Tail(w.in), Upload(j)) + 0
      BY <1>1, <3>1, CountTail
    <3>3. Count(v.in, Upload(j)) \in Nat
      BY <1>1, OwedNat
    <3>4. QED
      BY <3>2, <3>3
  <2>6. Ledger(v, j, win[j])
    BY <2>1, <2>2, <2>4, <2>5 DEF Ledger
  <2>7. Order(j, w.str[j], Tail(w.in), hs[j])
    BY <1>1, <1>3, <2>1, OrderTail
  <2>8. QED
    BY <2>2, <2>6, <2>7
<1>4. QED
  BY <1>2, <1>3 DEF Good

Next(w) == [w EXCEPT !.in = Tail(@)]

LEMMA NextIs ==
  ASSUME NEW w \in States, w.in # <<>>
  PROVE  /\ Next(w) \in States /\ Next(w).in = Tail(w.in) /\ Next(w).q = w.q /\ Next(w).aob = w.aob
         /\ Next(w).ds = w.ds /\ Next(w).str = w.str /\ Next(w).conn = w.conn /\ Next(w).made = w.made
         /\ Next(w).sent = w.sent /\ Next(w).credit = w.credit /\ Next(w).abort = w.abort /\ Next(w).up = w.up
         /\ Next(w).out = w.out /\ Next(w).goaway = w.goaway /\ Next(w).rcb = w.rcb
<1>1. Tail(w.in) \in Seq(Frames)
  BY TailIs DEF States
<1>2. QED
  BY <1>1 DEF Next, States

LEMMA NextLocal ==
  ASSUME NEW w, NEW win, NEW hs, Good(w, win, hs), w.in # <<>>, NEW id \in Ids
  PROVE  Local(w, Next(w), id)
<1> DEFINE v == Next(w)
<1>1. /\ w \in States /\ w.abort = "none" /\ Queue(w.q, w.aob) /\ Room(w.conn, w.str)
      /\ StreamOK(id, w.str[id], w.ds[id], w.q, w.aob, w.made[id], w.sent[id])
      /\ BackOK(id, w.ds[id], w.conn) /\ (\A c \in Conns : ConnOK(c, w.ds, w.conn))
  BY GoodParts
<1>2. /\ v \in States /\ v.q = w.q /\ v.aob = w.aob /\ v.ds = w.ds /\ v.str = w.str /\ v.conn = w.conn
      /\ v.made = w.made /\ v.sent = w.sent /\ v.credit = w.credit /\ v.abort = w.abort
  BY <1>1, NextIs
<1> HIDE DEF v
<1>3. Requeued(w, v, id) /\ Others(w, v, id)
  BY <1>2 DEF Requeued, Others
<1>4. \A c \in Conns : ConnKept(w, v, id, c)
  BY <1>1, <1>2 DEF ConnKept, ConnOK
<1>5. QED
  BY <1>1, <1>2, <1>3, <1>4 DEF Local, v

\* A frame that is no SYN_STREAM and that the credit of its stream does not count.
LEMMA SkipKeeps ==
  ASSUME NEW w, NEW win, NEW hs, win \in [Ids -> Nat], Good(w, win, hs), w.in # <<>>, NEW id \in Ids,
         Head(w.in).id = id, Head(w.in).k # "syn", Head(w.in).k = "data" => ~Counted(w, id)
  PROVE  Good(Next(w), win, hs)
<1> DEFINE v == Next(w)
<1>1. w \in States /\ w.in \in Seq(Frames)
  BY GoodParts, StateParts
<1>2. /\ v \in States /\ v.in = Tail(w.in) /\ v.q = w.q /\ v.aob = w.aob /\ v.ds = w.ds /\ v.str = w.str
      /\ v.credit = w.credit /\ Local(w, v, id)
  BY <1>1, NextIs, NextLocal
<1> HIDE DEF v
<1>3. Order(id, v.str[id], v.in, hs[id])
  <2>1. Order(id, w.str[id], w.in, hs[id])
    BY DEF Good
  <2>2. QED
    BY <1>1, <1>2, <2>1, OrderTail
<1>4. Ledger(v, id, win[id])
  <2>1. Ledger(w, id, win[id]) /\ win[id] \in Nat
    BY DEF Good
  <2>2. Owed(v, id) = Owed(w, id) /\ (Counted(v, id) <=> Counted(w, id))
    BY <1>2 DEF Owed, Counted
  <2>3. Owed(w, id) \in Nat /\ Count(v.in, Upload(id)) \in Nat
    BY <1>1, <1>2, OwedNat
  <2>4. Head(w.in) \in Upload(id) <=> Head(w.in).k = "data"
    BY <1>1, TailIs DEF Upload
  <2>5. Count(w.in, Upload(id)) = Count(v.in, Upload(id)) + (IF Head(w.in).k = "data" THEN 1 ELSE 0)
    BY <1>1, <1>2, <2>4, CountTail
  <2>6. QED
    BY <1>2, <2>1, <2>2, <2>3, <2>5, WindowIs DEF Ledger
<1>5. QED
  BY <1>2, <1>3, <1>4, FrameKeeps DEF v

LEMMA OutType ==
  ASSUME NEW x \in ConnType(Ids), NEW y, y = [x EXCEPT !.out = x.out + 1]
  PROVE  y \in ConnType(Ids) /\ y.st = x.st /\ y.ds = x.ds /\ y.resp = x.resp /\ y.on = x.on
  BY DEF ConnType

LEMMA WindowType ==
  ASSUME NEW d \in DownstreamType, NEW n \in Nat
  PROVE  [d EXCEPT !.window = n] \in DownstreamType
  BY DEF DownstreamType

\* A DATA frame of a stream that takes it: the backend gets it and it is counted.
LEMMA ChunkKeeps ==
  ASSUME NEW w, NEW win, NEW hs, win \in [Ids -> Nat], Good(w, win, hs), w.in # <<>>, NEW id \in Ids,
         Head(w.in).id = id, Head(w.in).k = "data", w.str[id].st \in {"OPENING", "OPENED"}
  PROVE  LET v == [PushUpload(Next(w), id) EXCEPT !.ds[id].window = @ + 1]
         IN  Good(v, win, hs) /\ v.in = Tail(w.in) /\ v.str = w.str /\ v.up = w.up
<1> DEFINE u == Next(w)
           d == w.ds[id]
           c == d.dconn
           e == [d EXCEPT !.window = @ + 1]
           k == IF c = NoConn THEN w.conn ELSE [w.conn EXCEPT ![c].out = @ + 1]
           v == [PushUpload(u, id) EXCEPT !.ds[id].window = @ + 1]
<1>1. /\ w \in States /\ w.abort = "none" /\ Queue(w.q, w.aob) /\ Room(w.conn, w.str)
      /\ StreamOK(id, w.str[id], w.ds[id], w.q, w.aob, w.made[id], w.sent[id])
      /\ BackOK(id, w.ds[id], w.conn) /\ (\A b \in Conns : ConnOK(b, w.ds, w.conn))
  BY GoodParts
<1>2. d # NullObj /\ d \in DownstreamType /\ w.conn \in Backs /\ w.in \in Seq(Frames)
  BY <1>1, StateParts DEF StreamOK
<1>3. c \in Conns \cup {NoConn} /\ d.window \in Nat
  BY <1>2 DEF DownstreamType
<1>4. /\ e \in DownstreamType /\ e # NullObj /\ e.window = d.window + 1 /\ e.dconn = c /\ e.res = d.res
      /\ e.body = d.body /\ e.tunnel = d.tunnel /\ e.rd = d.rd
  <2>1. e \in DownstreamType
    <3>1. d.window + 1 \in Nat
      BY <1>3
    <3>2. QED
      BY <1>2, <3>1, WindowType, Zenon
  <2>2. QED
    BY <1>2, <2>1, NullNotDownstream DEF DownstreamType
<1>5. ASSUME NEW b \in Conns
      PROVE  /\ k[b] \in ConnType(Ids) /\ k[b].st = w.conn[b].st /\ k[b].ds = w.conn[b].ds
             /\ k[b].resp = w.conn[b].resp /\ k[b].on = w.conn[b].on /\ (b # c => k[b] = w.conn[b])
  <2>1. w.conn[b] \in ConnType(Ids)
    BY <1>2 DEF Backs
  <2>2. k[b] = IF b = c THEN [w.conn[b] EXCEPT !.out = @ + 1] ELSE w.conn[b]
    BY <1>2, <1>3, ConnsAreNumbers DEF Backs
  <2>3. QED
    <3>1. CASE b = c
      <4>1. k[b] = [w.conn[b] EXCEPT !.out = w.conn[b].out + 1]
        BY <2>2, <3>1
      <4> HIDE DEF k, c
      <4>2. QED
        BY <2>1, <3>1, <4>1, OutType
    <3>2. CASE b # c
      BY <2>1, <2>2, <3>2
    <3>3. QED
      BY <3>1, <3>2
<1>6. k \in Backs
  <2>1. k = [b \in Conns |-> k[b]]
    BY <1>2, <1>3 DEF Backs
  <2> HIDE DEF k
  <2>2. QED
    BY <1>5, <2>1 DEF Backs
<1>7. /\ u \in States /\ u.in = Tail(w.in) /\ u.q = w.q /\ u.aob = w.aob /\ u.ds = w.ds /\ u.str = w.str
      /\ u.credit = w.credit /\ u.conn = w.conn /\ u.made = w.made /\ u.sent = w.sent /\ u.abort = w.abort
      /\ u.up = w.up
  BY <1>1, NextIs
<1> HIDE DEF u
<1>8. v = [u EXCEPT !.ds[id] = e, !.conn = k]
  BY <1>7, ZenonT(60) DEF PushUpload, States
<1> HIDE DEF e, k, v
<1>9. v \in States
  BY <1>4, <1>6, <1>7, <1>8 DEF States, Downs
<1>10. /\ v.in = Tail(w.in) /\ v.q = w.q /\ v.aob = w.aob /\ v.str = w.str /\ v.credit = w.credit
       /\ v.made = w.made /\ v.sent = w.sent /\ v.abort = w.abort /\ v.up = w.up /\ v.conn = k /\ v.ds[id] = e
       /\ \A j \in Ids : j # id => v.ds[j] = w.ds[j]
  BY <1>7, <1>8 DEF States
<1>11. Requeued(w, v, id) /\ Others(w, v, id)
  BY <1>10 DEF Requeued, Others
<1>12. StreamOK(id, v.str[id], v.ds[id], v.q, v.aob, v.made[id], v.sent[id])
  BY <1>1, <1>2, <1>4, <1>10 DEF StreamOK
<1>13. BackOK(id, v.ds[id], v.conn)
  BY <1>1, <1>2, <1>3, <1>4, <1>5, <1>10 DEF BackOK, Served
<1>14. ASSUME NEW b \in Conns PROVE ConnKept(w, v, id, b)
  <2>1. ConnOK(b, w.ds, w.conn) /\ b # NoConn
    BY <1>1, ConnsAreNumbers
  <2>2. b = c => w.conn[b].st = "busy" /\ w.conn[b].ds = id
    BY <1>1, <1>2, <2>1 DEF BackOK
  <2>3. QED
    BY <1>2, <1>4, <1>5, <1>10, <2>1, <2>2 DEF ConnKept, ConnOK
<1>15. Room(v.conn, v.str)
  BY <1>1, <1>5, <1>10, <1>11, SameRoom DEF Phased
<1>16. Local(w, v, id)
  BY <1>1, <1>9, <1>10, <1>11, <1>12, <1>13, <1>14, <1>15 DEF Local
<1>17. Order(id, v.str[id], v.in, hs[id])
  <2>1. Order(id, w.str[id], w.in, hs[id])
    BY DEF Good
  <2>2. QED
    BY <1>2, <1>10, <2>1, OrderTail
<1>18. Ledger(v, id, win[id])
  <2>1. Ledger(w, id, win[id]) /\ win[id] \in Nat
    BY DEF Good
  <2>2. w.credit[id] \in Nat /\ Granted(w.q, w.aob, id) \in Nat
    BY <1>1, StateParts, PendNat
  <2>3. Owed(v, id) = w.credit[id] + Granted(w.q, w.aob, id) + (d.window + 1)
        /\ Owed(w, id) = w.credit[id] + Granted(w.q, w.aob, id) + d.window
    BY <1>2, <1>4, <1>10 DEF Owed
  <2>4. Count(v.in, Upload(id)) \in Nat /\ Head(w.in) \in Upload(id)
    BY <1>2, <1>9, OwedNat, TailIs DEF Upload
  <2>5. Count(w.in, Upload(id)) = Count(v.in, Upload(id)) + 1
    BY <1>2, <1>10, <2>4, CountTail
  <2>6. Owed(v, id) = Owed(w, id) + 1 /\ Owed(w, id) \in Nat
    BY <1>3, <2>2, <2>3, SMTT(30)
  <2>7. Count(w.in, Upload(id)) \in Nat /\ (Counted(v, id) <=> Counted(w, id))
    BY <1>10, <2>4, <2>5 DEF Counted
  <2>8. win[id] + Owed(v, id) + Count(v.in, Upload(id)) = win[id] + Owed(w, id) + Count(w.in, Upload(id))
    BY <2>1, <2>4, <2>5, <2>6
  <2>9. QED
    BY <2>1, <2>7, <2>8 DEF Ledger
<1>19. Good(v, win, hs)
  BY <1>10, <1>16, <1>17, <1>18, FrameKeeps
<1>20. QED
  BY <1>10, <1>19 DEF v, u

\* The request is complete, whatever its state is.
LEMMA CompleteKeeps ==
  ASSUME NEW w, NEW win, NEW hs, win \in [Ids -> Nat], Good(w, win, hs), NEW id \in Ids, w.ds[id] # NullObj
  PROVE  LET v == RequestComplete(w, id)
         IN  Good(v, win, hs) /\ Steady(w, v) /\ v.str = w.str
<1> DEFINE d == w.ds[id]
           c == d.dconn
           e == [d EXCEPT !.req = "MSG_COMPLETE"]
           k == IF c = NoConn THEN w.conn ELSE [w.conn EXCEPT ![c].open = FALSE]
           v == RequestComplete(w, id)
<1>1. /\ w \in States /\ w.abort = "none" /\ Queue(w.q, w.aob)
      /\ StreamOK(id, w.str[id], w.ds[id], w.q, w.aob, w.made[id], w.sent[id])
      /\ BackOK(id, w.ds[id], w.conn)
  BY GoodParts
<1>2. d \in DownstreamType /\ w.conn \in Backs
  BY <1>1, StateParts
<1>3. c \in Conns \cup {NoConn}
  BY <1>2 DEF DownstreamType
<1>4. /\ e \in DownstreamType /\ e # NullObj /\ e.window = d.window /\ e.dconn = c /\ e.res = d.res
      /\ e.body = d.body /\ e.tunnel = d.tunnel /\ e.rd = d.rd
  <2>1. e \in DownstreamType
    BY <1>2 DEF DownstreamType, RequestStates
  <2>2. QED
    BY <1>2, <2>1, NullNotDownstream DEF DownstreamType
<1>5. ASSUME NEW b \in Conns
      PROVE  /\ k[b] \in ConnType(Ids) /\ k[b].st = w.conn[b].st /\ k[b].ds = w.conn[b].ds
             /\ k[b].resp = w.conn[b].resp /\ k[b].on = w.conn[b].on /\ (b # c => k[b] = w.conn[b])
  <2>1. w.conn[b] \in ConnType(Ids)
    BY <1>2 DEF Backs
  <2>2. k[b] = IF b = c THEN [w.conn[b] EXCEPT !.open = FALSE] ELSE w.conn[b]
    BY <1>2, <1>3, ConnsAreNumbers DEF Backs
  <2>3. /\ [w.conn[b] EXCEPT !.open = FALSE] \in ConnType(Ids)
        /\ [w.conn[b] EXCEPT !.open = FALSE].st = w.conn[b].st
        /\ [w.conn[b] EXCEPT !.open = FALSE].ds = w.conn[b].ds
        /\ [w.conn[b] EXCEPT !.open = FALSE].resp = w.conn[b].resp
        /\ [w.conn[b] EXCEPT !.open = FALSE].on = w.conn[b].on
    BY <2>1 DEF ConnType
  <2>4. QED
    BY <2>1, <2>2, <2>3
<1>6. k \in Backs
  <2>1. k = [b \in Conns |-> k[b]]
    BY <1>2, <1>3 DEF Backs
  <2> HIDE DEF k
  <2>2. QED
    BY <1>5, <2>1 DEF Backs
<1>7. v = [w EXCEPT !.ds[id] = e, !.conn = k]
  BY <1>1 DEF RequestComplete, States
<1> HIDE DEF e, k, v
<1>8. v \in States
  BY <1>1, <1>4, <1>6, <1>7 DEF States, Downs
<1>9. /\ Kept(w, v) /\ v.q = w.q /\ v.aob = w.aob /\ v.str = w.str /\ v.made = w.made /\ v.sent = w.sent
      /\ v.conn = k /\ v.ds[id] = e /\ \A j \in Ids : j # id => v.ds[j] = w.ds[j]
  BY <1>1, <1>7 DEF States, Kept
<1>10. Frame(w, v, id)
  BY <1>1, <1>8, <1>9 DEF Frame, Requeued, Others, Kept
<1>11. Owing(w, v, id) /\ Phased(w.str[id], v.str[id])
  <2>1. Owed(v, id) = Owed(w, id) /\ (Counted(v, id) <=> Counted(w, id))
    BY <1>4, <1>9 DEF Owed, Kept, Counted
  <2>2. QED
    BY <1>1, <1>9, <2>1, OwedNat DEF Owing, Phased
<1>12. Backing(w, v, id)
  BY <1>4, <1>5, <1>9 DEF Backing
<1>13. StreamOK(id, v.str[id], v.ds[id], v.q, v.aob, v.made[id], v.sent[id])
  BY <1>1, <1>4, <1>9 DEF StreamOK
<1>14. BackOK(id, v.ds[id], v.conn)
  BY <1>1, <1>3, <1>4, <1>5, <1>9 DEF BackOK, Served
<1>15. Good(v, win, hs)
  BY <1>10, <1>11, <1>12, <1>13, <1>14, QuietKeeps
<1>16. QED
  BY <1>9, <1>15 DEF Kept, Steady, v

\* The client's half of the stream is over, or not.
LEMMA RfinKeeps ==
  ASSUME NEW w, NEW win, NEW hs, win \in [Ids -> Nat], Good(w, win, hs), NEW id \in Ids, NEW b \in BOOLEAN,
         w.str[id].st # "none", b => Quit(id, w.in, hs[id])
  PROVE  LET v == [w EXCEPT !.str[id].rfin = b] IN Good(v, win, hs) /\ Steady(w, v)
<1> DEFINE s == [w.str[id] EXCEPT !.rfin = b]
           v == [w EXCEPT !.str[id].rfin = b]
<1>1. /\ w \in States /\ w.abort = "none" /\ Queue(w.q, w.aob) /\ Room(w.conn, w.str)
      /\ StreamOK(id, w.str[id], w.ds[id], w.q, w.aob, w.made[id], w.sent[id])
      /\ BackOK(id, w.ds[id], w.conn) /\ (\A c \in Conns : ConnOK(c, w.ds, w.conn))
  BY GoodParts
<1>2. w.str[id] \in Strs
  BY <1>1, StateParts
<1>3. /\ s \in Strs /\ s.st = w.str[id].st /\ s.rfin = b /\ s.lfin = w.str[id].lfin
      /\ s.deferred = w.str[id].deferred
  BY <1>2 DEF Strs
<1>4. v = [w EXCEPT !.str[id] = s]
  OBVIOUS
<1> HIDE DEF s, v
<1>5. v \in States
  BY <1>1, <1>3, <1>4 DEF States
<1>6. /\ Kept(w, v) /\ v.q = w.q /\ v.aob = w.aob /\ v.ds = w.ds /\ v.made = w.made /\ v.sent = w.sent
      /\ v.conn = w.conn /\ v.str[id] = s /\ \A j \in Ids : j # id => v.str[j] = w.str[j]
  BY <1>1, <1>4 DEF States, Kept
<1>7. Others(w, v, id) /\ Requeued(w, v, id)
  BY <1>6 DEF Others, Requeued, Kept
<1>8. StreamOK(id, v.str[id], v.ds[id], v.q, v.aob, v.made[id], v.sent[id])
  BY <1>1, <1>3, <1>6 DEF StreamOK
<1>9. \A c \in Conns : ConnKept(w, v, id, c)
  BY <1>1, <1>6 DEF ConnKept, ConnOK
<1>10. Room(v.conn, v.str)
  <2>1. {i \in Ids : v.str[i].st # "none"} = {i \in Ids : w.str[i].st # "none"}
    BY <1>3, <1>6
  <2>2. QED
    BY <1>1, <1>6, <2>1 DEF Room
<1>11. Core(v)
  <2>1. Local(w, v, id) /\ Core(w)
    BY <1>1, <1>5, <1>6, <1>7, <1>8, <1>9, <1>10 DEF Local, Kept, Good
  <2>2. QED
    BY <2>1, CoreKept
<1>12. ASSUME NEW j \in Ids PROVE Ledger(v, j, win[j])
  <2>1. Ledger(w, j, win[j])
    BY DEF Good
  <2>2. Owed(v, j) = Owed(w, j) /\ (Counted(v, j) <=> Counted(w, j)) /\ v.in = w.in
    BY <1>3, <1>6 DEF Owed, Counted, Kept
  <2>3. QED
    BY <2>1, <2>2 DEF Ledger
<1>13. ASSUME NEW j \in Ids PROVE Order(j, v.str[j], v.in, hs[j])
  <2>1. Order(j, w.str[j], w.in, hs[j])
    BY DEF Good
  <2>2. CASE j # id
    BY <1>6, <2>1, <2>2 DEF Kept
  <2>3. CASE j = id
    <3>1. v.in = w.in /\ v.str[id] = s /\ w.str[id].st # "none" /\ s.st = w.str[id].st
      BY <1>3, <1>6 DEF Kept
    <3>2. Shut(s) => \/ Shut(w.str[id])
                     \/ (\A i \in 1..Len(w.in) : ~(w.in[i].k = "data" /\ w.in[i].id = id)) /\ hs[id] # "open"
      BY <1>3 DEF Shut, Quit
    <3>3. QED
      BY <2>1, <2>3, <3>1, <3>2 DEF Order
  <2>4. QED
    BY <2>2, <2>3
<1>14. Good(v, win, hs)
  BY <1>11, <1>12, <1>13 DEF Good
<1>15. QED
  BY <1>6, <1>14 DEF Kept, Steady, v

\* GOAWAY at the end of the queue.
LEMMA GoawayKeeps ==
  ASSUME NEW w, NEW win, NEW hs, win \in [Ids -> Nat], Good(w, win, hs)
  PROVE  LET v == [w EXCEPT !.q = Append(@, Item("goaway", 1, 0))] IN Good(v, win, hs) /\ Steady(w, v)
<1> DEFINE x == Item("goaway", 1, 0)
           v == [w EXCEPT !.q = Append(@, x)]
<1>1. 1 \in Ids
  BY IdsAreNumbers
<1>2. /\ w \in States /\ w.abort = "none" /\ Queue(w.q, w.aob)
      /\ StreamOK(1, w.str[1], w.ds[1], w.q, w.aob, w.made[1], w.sent[1]) /\ BackOK(1, w.ds[1], w.conn)
  BY <1>1, GoodParts
<1>3. x \in Items /\ x.k = "goaway" /\ x.id = 1
  BY <1>1, ItemIs, WindowIs
<1>4. w.q \in Seq(Items) /\ w.aob \in Items
  BY <1>1, <1>2, StateParts
<1> HIDE DEF x
<1>5. Append(w.q, x) \in Seq(Items) /\ Queue(Append(w.q, x), w.aob)
  BY <1>1, <1>2, <1>3, <1>4, QueueAppend
<1>6. v \in States
  BY <1>2, <1>5 DEF States
<1>7. /\ Kept(w, v) /\ v.q = Append(w.q, x) /\ v.aob = w.aob /\ v.ds = w.ds /\ v.made = w.made /\ v.sent = w.sent
      /\ v.conn = w.conn /\ v.str = w.str
  BY <1>2 DEF States, Kept
<1> HIDE DEF v
<1>8. /\ Requeued(w, v, 1) /\ Granted(v.q, v.aob, 1) = Granted(w.q, w.aob, 1)
      /\ \A k \in Kinds : Pend(v.q, v.aob, k, 1) = Pend(w.q, w.aob, k, 1)
  <2>1. Amount(x, 1) = 0 /\ \A k \in Kinds : Is(x, k, 1) = 0
    BY <1>3 DEF Amount, Is, Kinds
  <2>2. /\ Requeued(w, v, 1) /\ Granted(v.q, v.aob, 1) = Granted(w.q, w.aob, 1) + Amount(x, 1)
        /\ \A k \in Kinds : Pend(v.q, v.aob, k, 1) = Pend(w.q, w.aob, k, 1) + Is(x, k, 1)
    BY <1>1, <1>2, <1>3, <1>7, AppendRequeues
  <2>3. Granted(w.q, w.aob, 1) \in Nat /\ \A k \in Kinds : Pend(w.q, w.aob, k, 1) \in Nat
    BY <1>1, <1>2, PendNat
  <2>4. QED
    BY <2>1, <2>2, <2>3
<1>9. Frame(w, v, 1)
  BY <1>2, <1>5, <1>6, <1>7, <1>8 DEF Frame, Others, Kept
<1>10. Owing(w, v, 1) /\ Phased(w.str[1], v.str[1]) /\ Backing(w, v, 1)
  <2>1. Owed(v, 1) = Owed(w, 1) /\ (Counted(v, 1) <=> Counted(w, 1))
    BY <1>7, <1>8 DEF Owed, Kept, Counted, Kinds
  <2>2. QED
    BY <1>1, <1>2, <1>7, <2>1, OwedNat DEF Owing, Phased, Backing
<1>11. StreamOK(1, v.str[1], v.ds[1], v.q, v.aob, v.made[1], v.sent[1]) /\ BackOK(1, v.ds[1], v.conn)
  BY <1>2, <1>7, <1>8 DEF StreamOK, Kinds
<1>12. Good(v, win, hs)
  BY <1>1, <1>9, <1>10, <1>11, QuietKeeps
<1>13. QED
  BY <1>7, <1>12 DEF Kept, Steady, v, x

LEMMA DataFrameKeeps ==
  ASSUME NEW w, NEW win, NEW hs, win \in [Ids -> Nat], Good(w, win, hs), w.in # <<>>, Head(w.in).k = "data",
         NEW fail
  PROVE  LET v == RecvFrame(Next(w), Head(w.in), fail) IN Good(v, win, hs) /\ v.up = w.up
<1> DEFINE f == Head(w.in)
           id == f.id
           u == Next(w)
           v == RecvFrame(u, f, fail)
<1>1. 1 \in Ids
  BY IdsAreNumbers
<1>2. w \in States /\ w.in \in Seq(Frames)
  BY <1>1, GoodParts, StateParts
<1>3. f \in Frames
  BY <1>2, TailIs
<1>4. id \in Ids /\ f.fin \in BOOLEAN /\ f.k = "data"
  BY <1>3 DEF Frames, Syns
<1>5. Order(id, w.str[id], w.in, hs[id]) /\ w.str[id] \in Strs
  BY <1>2, <1>4, StateParts DEF Good
<1>6. w.str[id].st # "none" /\ ~Shut(w.str[id]) /\ (f.fin => Quit(id, Tail(w.in), hs[id]))
  BY <1>2, <1>4, <1>5, OrderTail
<1>7. u.in = Tail(w.in) /\ u.str = w.str /\ u.ds = w.ds /\ u.up = w.up /\ u.conn = w.conn /\ u \in States
  BY <1>2, NextIs
<1>8. CASE w.str[id].st \notin {"OPENING", "OPENED"}
  <2>1. Good(u, win, hs)
    BY <1>4, <1>6, <1>8, SkipKeeps DEF Counted
  <2>2. v = IF Active(u, id) THEN u ELSE RstStream(u, id)
    BY <1>4, <1>7, <1>8 DEF RecvFrame
  <2>3. Good(RstStream(u, id), win, hs) /\ Steady(u, RstStream(u, id))
    BY <1>4, <1>6, <1>7, <2>1, RstKeeps
  <2>4. QED
    BY <1>7, <2>1, <2>2, <2>3 DEF Steady
<1>9. CASE w.str[id].st \in {"OPENING", "OPENED"}
  <2> DEFINE p == [PushUpload(u, id) EXCEPT !.ds[id].window = @ + 1]
             a == OnDataChunk(u, f)
             b == f.fin /\ a.str[id].st # "CLOSING"
             r == [a EXCEPT !.str[id].rfin = b]
  <2>1. Good(p, win, hs) /\ p.in = Tail(w.in) /\ p.str = w.str /\ p.up = w.up
    BY <1>4, <1>9, ChunkKeeps
  <2>2. Exists(u, id) /\ p.ds[id] # NullObj
    <3>1. w.ds[id] # NullObj
      BY <1>4, <1>9, GoodParts DEF Exists, Active
    <3>2. StreamOK(id, p.str[id], p.ds[id], p.q, p.aob, p.made[id], p.sent[id])
      BY <1>4, <2>1, GoodParts
    <3> HIDE DEF p
    <3>3. QED
      BY <1>7, <1>9, <2>1, <3>1, <3>2 DEF Exists, StreamOK
  <2>3. a = RstStream(p, id) \/ a = RequestComplete(p, id) \/ a = p
    BY <2>2 DEF OnDataChunk
  <2> HIDE DEF p, a, r, u
  <2>4. /\ Good(a, win, hs) /\ a.in = Tail(w.in) /\ a.up = w.up /\ a.str[id].st # "none"
    <3>1. CASE a = RstStream(p, id)
      <4>1. Good(a, win, hs) /\ Steady(p, a)
        BY <1>4, <1>9, <2>1, <3>1, RstKeeps
      <4>2. p \in States
        BY <1>1, <2>1, GoodParts
      <4>3. a.str[id] = [p.str[id] EXCEPT !.st = IF Active(p, id) THEN "CLOSING" ELSE @]
        BY <1>4, <3>1, <4>2, RstStreamSets DEF Sets
      <4>4. p.str[id] \in Strs /\ Active(p, id)
        BY <1>5, <1>9, <2>1 DEF Active
      <4>5. a.str[id].st = "CLOSING"
        BY <4>3, <4>4 DEF Strs
      <4>6. QED
        BY <2>1, <4>1, <4>5 DEF Steady
    <3>2. CASE a = RequestComplete(p, id)
      <4>1. Good(a, win, hs) /\ Steady(p, a) /\ a.str = p.str
        BY <1>4, <2>1, <2>2, <3>2, CompleteKeeps
      <4>2. QED
        BY <1>6, <2>1, <4>1 DEF Steady
    <3>3. CASE a = p
      BY <1>6, <2>1, <3>3
    <3>4. QED
      BY <2>3, <3>1, <3>2, <3>3
  <2>5. b \in BOOLEAN /\ (b => Quit(id, a.in, hs[id]))
    BY <1>4, <1>6, <2>4
  <2>6. Good(r, win, hs) /\ Steady(a, r)
    <3> HIDE DEF b
    <3> QED
      BY <1>4, <2>4, <2>5, RfinKeeps DEF r
  <2>7. Good(CloseStream(r, id), win, hs) /\ Steady(r, CloseStream(r, id))
    BY <1>4, <2>6, CloseKeeps
  <2>8. v = IF r.str[id].rfin /\ r.str[id].lfin THEN CloseStream(r, id) ELSE r
    <3>1. u.str[id].st \in {"OPENING", "OPENED"} /\ ~u.str[id].rfin
      BY <1>5, <1>6, <1>7, <1>9 DEF Shut, Strs
    <3> HIDE DEF f
    <3>2. QED
      BY <1>4, <3>1 DEF RecvFrame, a, r
  <2>9. QED
    BY <2>4, <2>6, <2>7, <2>8 DEF Steady, u
<1>10. QED
  BY <1>8, <1>9
-----------------------------------------------------------------------------
(* SYN_STREAM.                                                             *)

LEMMA OrderSyn ==
  ASSUME NEW in \in Seq(Frames), in # <<>>, NEW j \in Ids, NEW s, NEW r, NEW h, Order(j, s, in, h),
         Head(in).k = "syn", Head(in).id = j, r.st = "OPENING", r.rfin = Head(in).fin
  PROVE  s.st = "none" /\ Order(j, r, Tail(in), h)
<1>1. /\ Tail(in) \in Seq(Frames) /\ Head(in) \in Frames /\ Head(in) = in[1] /\ 1 \in 1..Len(in)
      /\ \A n \in 1..Len(Tail(in)) : Tail(in)[n] = in[n + 1] /\ n + 1 \in 1..Len(in) /\ 1 < n + 1 /\ n \in Nat
  BY TailIs
<1> DEFINE t == Tail(in)
           N == 1..Len(in)
           M == 1..Len(t)
           syn(n) == in[n].k = "syn" /\ in[n].id = j
           data(n) == in[n].k = "data" /\ in[n].id = j
           fin(n) == (syn(n) \/ data(n)) /\ in[n].fin
<1>2. /\ \A n \in N : syn(n) => s.st = "none" /\ \A i \in N : i < n => in[i].k = "bad" \/ in[i].id # j
      /\ \A n \in N : data(n) => ~Shut(s) /\ \A i \in N : i < n => ~fin(i)
      /\ h = "open" => \A n \in N : ~fin(n)
      /\ h = "none" => \A n \in N : in[n].k = "bad" \/ in[n].id # j
  BY Zenon DEF Order
<1>3. syn(1) /\ (in[1].fin <=> fin(1))
  BY <1>1
<1>4. /\ \A n \in M : t[n] = in[n + 1] /\ n + 1 \in N /\ 1 < n + 1 /\ n \in Nat
      /\ 1 \in N /\ Head(in) = in[1] /\ N \subseteq Nat
  BY <1>1
<1> HIDE DEF t, N, M
<1>5. s.st = "none" /\ h # "none"
  BY <1>2, <1>3, <1>4
<1>6. \A n \in M : ~(t[n].k = "syn" /\ t[n].id = j)
  BY <1>2, <1>3, <1>4
<1>7. Shut(r) <=> fin(1)
  BY <1>3, <1>4 DEF Shut
<1>8. \A n \in M : t[n].k = "data" /\ t[n].id = j =>
        ~Shut(r) /\ \A i \in M : i < n => ~(((t[i].k = "syn" /\ t[i].id = j) \/ (t[i].k = "data" /\ t[i].id = j)) /\ t[i].fin)
  <2> SUFFICES ASSUME NEW n \in M, t[n].k = "data" /\ t[n].id = j
               PROVE  ~Shut(r) /\ \A i \in M : i < n =>
                        ~(((t[i].k = "syn" /\ t[i].id = j) \/ (t[i].k = "data" /\ t[i].id = j)) /\ t[i].fin)
    OBVIOUS
  <2>1. n + 1 \in N /\ data(n + 1) /\ n \in Nat
    BY <1>4
  <2>2. \A i \in N : i < n + 1 => ~fin(i)
    BY <1>2, <2>1
  <2>3. ASSUME NEW i \in M, i < n PROVE i + 1 \in N /\ i + 1 < n + 1 /\ t[i] = in[i + 1]
    <3>1. i \in Nat /\ i + 1 \in N /\ t[i] = in[i + 1]
      BY <1>4
    <3>2. i + 1 < n + 1
      BY <2>1, <2>3, <3>1
    <3>3. QED
      BY <3>1, <3>2
  <2>4. ~fin(1)
    <3>1. 1 \in N /\ 1 < n + 1
      BY <1>4
    <3> HIDE DEF fin
    <3>2. QED
      BY <2>2, <3>1
  <2>5. ASSUME NEW i \in M, i < n
        PROVE  ~(((t[i].k = "syn" /\ t[i].id = j) \/ (t[i].k = "data" /\ t[i].id = j)) /\ t[i].fin)
    <3>1. t[i] = in[i + 1] /\ ~fin(i + 1)
      BY <2>2, <2>3, <2>5
    <3>2. QED
      BY <3>1
  <2>6. QED
    BY <1>7, <2>4, <2>5
<1>9. h = "open" =>
        /\ ~Shut(r)
        /\ \A i \in M : ~(((t[i].k = "syn" /\ t[i].id = j) \/ (t[i].k = "data" /\ t[i].id = j)) /\ t[i].fin)
  BY <1>2, <1>4, <1>7
<1>10. r.st # "none"
  OBVIOUS
<1>11. Order(j, r, t, h)
  BY <1>5, <1>6, <1>8, <1>9, <1>10, Zenon DEF Order, M
<1>12. QED
  BY <1>5, <1>11 DEF t

\* There is room for one more backend connection.
Spare(k, str) ==
  Cardinality({c \in Conns : k[c].st # "none"}) + 1 <= Cardinality({i \in Ids : str[i].st # "none"})

LEMMA SpareRoom ==
  ASSUME NEW w, NEW v, NEW c \in Conns, Spare(w.conn, w.str), \A b \in Conns : b # c => v.conn[b].st = w.conn[b].st,
         \A i \in Ids : v.str[i].st = "none" <=> w.str[i].st = "none"
  PROVE  Room(v.conn, v.str)
<1> DEFINE A == {b \in Conns : w.conn[b].st # "none"}
           B == {b \in Conns : v.conn[b].st # "none"}
           S == {i \in Ids : w.str[i].st # "none"}
<1>1. IsFiniteSet(A) /\ IsFiniteSet(B) /\ IsFiniteSet(S) /\ B \subseteq A \cup {c}
  BY ConnsAreNumbers, IdsAreNumbers, FS_Subset
<1>2. S = {i \in Ids : v.str[i].st # "none"}
  OBVIOUS
<1>3. Cardinality(A) + 1 <= Cardinality(S)
  BY DEF Spare
<1>4. Cardinality(B) <= Cardinality(A) + 1 /\ Cardinality(A) \in Nat /\ Cardinality(B) \in Nat /\ Cardinality(S) \in Nat
  <2> HIDE DEF A, B, S
  <2>1. IsFiniteSet(A \cup {c}) /\ Cardinality(A \cup {c}) = IF c \in A THEN Cardinality(A) ELSE Cardinality(A) + 1
    BY <1>1, FS_AddElement
  <2>2. Cardinality(B) <= Cardinality(A \cup {c})
    BY <1>1, <2>1, FS_Subset
  <2>3. Cardinality(A) \in Nat /\ Cardinality(B) \in Nat /\ Cardinality(S) \in Nat
    BY <1>1, FS_CardinalityType
  <2>4. QED
    BY <2>1, <2>2, <2>3
<1>5. QED
  <2> HIDE DEF A, S
  <2>1. Cardinality(B) <= Cardinality(S)
    BY <1>3, <1>4
  <2>2. QED
    BY <1>2, <2>1 DEF Room

LEMMA MinIsMember ==
  ASSUME NEW T, T \subseteq Conns, T # {}
  PROVE  Min(T) \in T
<1>1. T \subseteq Nat
  BY ConnsAreNumbers
<1>2. PICK x \in T : \A y \in T : ~(y < x)
  BY <1>1, LeastNumber
<1>3. \A y \in T : x <= y
  BY <1>1, <1>2
<1>4. QED
  BY <1>3, Zenon DEF Min

\* get_downstream_connection finds a pooled connection or one that can be made.
LEMMA GetConnection ==
  ASSUME NEW w \in States, Spare(w.conn, w.str)
  PROVE  LET g == GetDownstreamConnection(w)
         IN  g.c \in Conns /\ w.conn[g.c].st = IF g.new THEN "none" ELSE "idle"
<1> DEFINE g == GetDownstreamConnection(w)
           N == {c \in Conns : w.conn[c].st = "none"}
<1>1. CASE Pool(w) # {}
  <2>1. g = [c |-> Min(Pool(w)), new |-> FALSE]
    BY <1>1 DEF GetDownstreamConnection
  <2>2. Min(Pool(w)) \in Pool(w)
    BY <1>1, MinIsMember DEF Pool
  <2>3. QED
    BY <2>1, <2>2 DEF Pool
<1>2. CASE Pool(w) = {}
  <2>1. g = [c |-> Min(N), new |-> TRUE]
    BY <1>2 DEF GetDownstreamConnection
  <2>2. N # {}
    <3> SUFFICES ASSUME N = {} PROVE FALSE
      OBVIOUS
    <3> DEFINE S == {i \in Ids : w.str[i].st # "none"}
    <3>1. {c \in Conns : w.conn[c].st # "none"} = Conns
      OBVIOUS
    <3>2. Cardinality(Conns) + 1 <= Cardinality(S)
      BY <3>1 DEF Spare
    <3>3. S \subseteq Conns
      BY IdsAreNumbers
    <3> HIDE DEF S
    <3>4. Cardinality(S) <= Cardinality(Conns) /\ IsFiniteSet(S) /\ IsFiniteSet(Conns)
      BY <3>3, ConnsAreNumbers, FS_Subset
    <3>5. Cardinality(S) \in Nat /\ Cardinality(Conns) \in Nat
      BY <3>4, FS_CardinalityType
    <3>6. QED
      BY <3>2, <3>4, <3>5
  <2>3. Min(N) \in N
    BY <2>2, MinIsMember
  <2>4. QED
    BY <2>1, <2>3
<1>3. QED
  BY <1>1, <1>2

\* The stream and its Downstream as on_ctrl_recv_callback makes them.
Opened(w, f) ==
  [[Next(w) EXCEPT !.str[f.id] = [NewStream EXCEPT !.st = "OPENING", !.rfin = f.fin]]
     EXCEPT !.ds[f.id] = [NewDownstream EXCEPT !.connect = f.connect]]

LEMMA OpenedKeeps ==
  ASSUME NEW w, NEW win, NEW hs, win \in [Ids -> Nat], Good(w, win, hs), w.in # <<>>, Head(w.in).k = "syn"
  PROVE  LET v == Opened(w, Head(w.in))
             id == Head(w.in).id
         IN  /\ id \in Ids /\ Good(v, win, hs) /\ v.up = w.up /\ Spare(v.conn, v.str)
             /\ v.ds[id] # NullObj /\ v.ds[id].dconn = NoConn /\ v.ds[id].res = "INITIAL" /\ v.ds[id].rd = {}
             /\ v.str[id].st = "OPENING"
<1> DEFINE f == Head(w.in)
           id == f.id
           u == Next(w)
           s == [NewStream EXCEPT !.st = "OPENING", !.rfin = f.fin]
           d == [NewDownstream EXCEPT !.connect = f.connect]
           v == Opened(w, f)
<1>1. 1 \in Ids
  BY IdsAreNumbers
<1>2. w \in States /\ w.in \in Seq(Frames)
  BY <1>1, GoodParts, StateParts
<1>3. f \in Frames
  BY <1>2, TailIs
<1>4. id \in Ids /\ f.fin \in BOOLEAN /\ f.connect \in BOOLEAN
  BY <1>3 DEF Frames, Syns
<1>5. /\ w.abort = "none" /\ Queue(w.q, w.aob) /\ Room(w.conn, w.str)
      /\ StreamOK(id, w.str[id], w.ds[id], w.q, w.aob, w.made[id], w.sent[id])
      /\ BackOK(id, w.ds[id], w.conn) /\ (\A b \in Conns : ConnOK(b, w.ds, w.conn))
  BY <1>4, GoodParts
<1>6. s \in Strs /\ s.st = "OPENING" /\ s.rfin = f.fin /\ ~s.lfin /\ ~s.deferred
  BY <1>4 DEF NewStream, Strs
<1>7. /\ d \in DownstreamType /\ d # NullObj /\ d.window = 0 /\ d.dconn = NoConn /\ d.res = "INITIAL"
      /\ d.body = 0 /\ d.rd = {}
  <2>1. d \in DownstreamType
    BY <1>4 DEF DownstreamType, NewDownstream, RequestStates, ResponseStates
  <2>2. QED
    BY <2>1, NullNotDownstream DEF NewDownstream
<1>8. Order(id, w.str[id], w.in, hs[id])
  BY <1>4 DEF Good
<1>9. w.str[id].st = "none" /\ Order(id, s, Tail(w.in), hs[id])
  <2> HIDE DEF s
  <2> QED
    BY <1>2, <1>4, <1>6, <1>8, OrderSyn
<1>10. /\ u \in States /\ u.in = Tail(w.in) /\ u.q = w.q /\ u.aob = w.aob /\ u.ds = w.ds /\ u.str = w.str
       /\ u.credit = w.credit /\ u.conn = w.conn /\ u.made = w.made /\ u.sent = w.sent /\ u.abort = w.abort
       /\ u.up = w.up
  BY <1>2, NextIs
<1>11. v = [u EXCEPT !.str[id] = s, !.ds[id] = d]
  <2> HIDE DEF f, u, s, d
  <2>1. v = [[u EXCEPT !.str[id] = s] EXCEPT !.ds[id] = d]
    BY DEF Opened, f, u, s, d
  <2>2. QED
    BY <1>10, <2>1 DEF States
<1> HIDE DEF f, s, d, u, v
<1>12. v \in States
  BY <1>4, <1>6, <1>7, <1>10, <1>11 DEF States, Downs
<1>13. /\ v.in = Tail(w.in) /\ v.q = w.q /\ v.aob = w.aob /\ v.str[id] = s /\ v.credit = w.credit
       /\ v.made = w.made /\ v.sent = w.sent /\ v.abort = w.abort /\ v.up = w.up /\ v.conn = w.conn /\ v.ds[id] = d
       /\ \A j \in Ids : j # id => v.ds[j] = w.ds[j] /\ v.str[j] = w.str[j]
  BY <1>4, <1>10, <1>11 DEF States
<1>14. Requeued(w, v, id) /\ Others(w, v, id)
  BY <1>13 DEF Requeued, Others
<1>15. w.ds[id] = NullObj /\ w.made[id] = 0 /\ w.sent[id] = 0 /\ \A k \in Kinds : Pend(w.q, w.aob, k, id) = 0
  BY <1>5, <1>9 DEF StreamOK
<1>16. Is(w.aob, "data", id) = 0
  <2>1. Wait(w.q, "data", id) \in Nat /\ Pend(w.q, w.aob, "data", id) = 0
    BY <1>2, <1>4, <1>15, StateParts, WaitNat DEF Kinds
  <2>2. QED
    BY <2>1 DEF Pend, Is
<1>17. StreamOK(id, v.str[id], v.ds[id], v.q, v.aob, v.made[id], v.sent[id])
  BY <1>6, <1>7, <1>13, <1>15, <1>16 DEF StreamOK, Kinds
<1>18. BackOK(id, v.ds[id], v.conn)
  BY <1>7, <1>13 DEF BackOK
<1>19. ASSUME NEW b \in Conns PROVE ConnKept(w, v, id, b)
  BY <1>5, <1>13, <1>15 DEF ConnKept, ConnOK
<1>20. Spare(v.conn, v.str) /\ Room(v.conn, v.str)
  <2> DEFINE A == {c \in Conns : w.conn[c].st # "none"}
             S == {i \in Ids : w.str[i].st # "none"}
             T == {i \in Ids : v.str[i].st # "none"}
  <2>1. Cardinality(A) <= Cardinality(S)
    BY <1>5 DEF Room
  <2>2. T = S \cup {id} /\ id \notin S
    BY <1>4, <1>6, <1>9, <1>13
  <2>3. IsFiniteSet(A) /\ IsFiniteSet(S)
    BY ConnsAreNumbers, IdsAreNumbers, FS_Subset
  <2>4. A = {c \in Conns : v.conn[c].st # "none"}
    BY <1>13
  <2> HIDE DEF A, S, T
  <2>5. Cardinality(A) \in Nat /\ Cardinality(S) \in Nat /\ Cardinality(T) = Cardinality(S) + 1
    BY <2>2, <2>3, FS_CardinalityType, FS_AddElement
  <2>6. Cardinality(A) + 1 <= Cardinality(T) /\ Cardinality(A) <= Cardinality(T)
    BY <2>1, <2>5
  <2>7. QED
    BY <2>4, <2>6 DEF Spare, Room, T
<1>21. Local(w, v, id)
  BY <1>5, <1>12, <1>13, <1>14, <1>17, <1>18, <1>19, <1>20 DEF Local
<1>22. Ledger(v, id, win[id])
  <2>1. Ledger(w, id, win[id]) /\ win[id] \in Nat /\ Counted(w, id)
    BY <1>4, <1>9, <1>15 DEF Good, Counted, Kinds
  <2>2. w.credit[id] \in Nat /\ Granted(w.q, w.aob, id) \in Nat
    BY <1>2, <1>4, StateParts, PendNat
  <2>3. Owed(v, id) = Owed(w, id)
    BY <1>7, <1>13, <1>15, <2>2 DEF Owed
  <2>4. Count(v.in, Upload(id)) \in Nat /\ Head(w.in) \notin Upload(id)
    BY <1>4, <1>12, OwedNat DEF Upload
  <2>5. Count(w.in, Upload(id)) = Count(v.in, Upload(id)) + 0
    BY <1>2, <1>13, <2>4, CountTail
  <2>6. Count(w.in, Upload(id)) = Count(v.in, Upload(id))
    BY <2>4, <2>5
  <2>7. QED
    BY <2>1, <2>3, <2>6 DEF Ledger
<1>23. Good(v, win, hs)
  BY <1>4, <1>9, <1>13, <1>21, <1>22, FrameKeeps DEF f
<1>24. QED
  BY <1>4, <1>6, <1>7, <1>13, <1>20, <1>23 DEF v, f

\* The request goes to the backend connection c, which is new or was in the pool.
Attached(w, id, c) ==
  [PushRequestHeaders(AttachDownstream(w, id, c), id) EXCEPT !.ds[id].req = "HEADER_COMPLETE"]

LEMMA AttachKeeps ==
  ASSUME NEW w, NEW win, NEW hs, win \in [Ids -> Nat], Good(w, win, hs), Spare(w.conn, w.str), NEW id \in Ids,
         w.ds[id] # NullObj, w.ds[id].dconn = NoConn, w.ds[id].res = "INITIAL", w.ds[id].rd = {},
         NEW c \in Conns, w.conn[c].st \in {"none", "idle"}
  PROVE  /\ Good(Attached(w, id, c), win, hs) /\ Attached(w, id, c).up = w.up
         /\ Attached(w, id, c).ds[id] # NullObj
<1> DEFINE d == w.ds[id]
           b == w.conn[c]
           e == [d EXCEPT !.dconn = c, !.req = "HEADER_COMPLETE"]
           x == [b EXCEPT !.st = "busy", !.ds = id, !.on = TRUE, !.wr = b.st = "none" \/ b.wr]
           y == [x EXCEPT !.out = x.out + 1, !.mixed = x.mixed \/ x.open, !.open = TRUE, !.resp = "sent", !.got = 0]
           k == [w.conn EXCEPT ![c] = y]
           a == AttachDownstream(w, id, c)
           p == PushRequestHeaders(a, id)
           v == [p EXCEPT !.ds[id].req = "HEADER_COMPLETE"]
<1>1. /\ w \in States /\ w.abort = "none" /\ Queue(w.q, w.aob)
      /\ StreamOK(id, w.str[id], w.ds[id], w.q, w.aob, w.made[id], w.sent[id])
      /\ (\A o \in Conns : ConnOK(o, w.ds, w.conn))
  BY GoodParts
<1>2. d \in DownstreamType /\ w.conn \in Backs /\ c # NoConn
  BY <1>1, StateParts, ConnsAreNumbers
<1>3. b \in ConnType(Ids)
  BY <1>2 DEF Backs
<1>4. /\ e \in DownstreamType /\ e # NullObj /\ e.window = d.window /\ e.dconn = c /\ e.res = d.res
      /\ e.body = d.body /\ e.tunnel = d.tunnel /\ e.rd = d.rd
  <2>1. e \in DownstreamType
    BY <1>2 DEF DownstreamType, RequestStates
  <2>2. QED
    BY <1>2, <2>1, NullNotDownstream DEF DownstreamType
<1>5. x \in ConnType(Ids) /\ x.st = "busy" /\ x.ds = id /\ x.on = TRUE
  <2>1. (b.st = "none" \/ b.wr) \in BOOLEAN
    OBVIOUS
  <2>2. QED
    BY <1>3, <2>1 DEF ConnType
<1> HIDE DEF x
<1>6. y \in ConnType(Ids) /\ y.st = "busy" /\ y.ds = id /\ y.on = TRUE /\ y.resp = "sent"
  <2>1. (x.mixed \/ x.open) \in BOOLEAN /\ x.out + 1 \in Nat
    BY <1>5 DEF ConnType
  <2>2. QED
    BY <1>5, <2>1 DEF ConnType
<1> HIDE DEF y
<1>7. k \in Backs /\ k[c] = y /\ \A o \in Conns : o # c => k[o] = w.conn[o]
  BY <1>2, <1>6 DEF Backs
<1>8. a = [w EXCEPT !.conn = [w.conn EXCEPT ![c] = x], !.ds = [w.ds EXCEPT ![id].dconn = c]]
  BY <1>1 DEF AttachDownstream, States, x
<1>9. /\ a.conn = [w.conn EXCEPT ![c] = x] /\ a.ds[id].dconn = c /\ a.conn[c] = x
  <2>1. a.conn = [w.conn EXCEPT ![c] = x] /\ a.ds = [w.ds EXCEPT ![id].dconn = c]
    BY <1>1, <1>8 DEF States
  <2>2. a.ds[id] = [d EXCEPT !.dconn = c]
    BY <1>1, <2>1 DEF States
  <2>3. a.ds[id].dconn = c
    BY <1>2, <2>2 DEF DownstreamType
  <2>4. a.conn[c] = x
    BY <1>2, <2>1 DEF Backs
  <2>5. QED
    BY <2>1, <2>3, <2>4
<1> HIDE DEF a
<1>10. p = [a EXCEPT !.conn[c] = y]
  BY <1>9 DEF PushRequestHeaders, Conn, y
<1>11. v = [w EXCEPT !.ds[id] = e, !.conn = k]
  <2>1. p = [w EXCEPT !.conn = k, !.ds = [w.ds EXCEPT ![id].dconn = c]]
    <3>1. [[w.conn EXCEPT ![c] = x] EXCEPT ![c] = y] = k
      BY <1>2 DEF Backs
    <3>2. p = [a EXCEPT !.conn = [a.conn EXCEPT ![c] = y]]
      BY <1>10
    <3> HIDE DEF k, p
    <3>3. QED
      BY <1>1, <1>8, <1>9, <3>1, <3>2 DEF States
  <2>2. e = [[d EXCEPT !.dconn = c] EXCEPT !.req = "HEADER_COMPLETE"]
    BY <1>2 DEF DownstreamType
  <2> HIDE DEF p, k, e
  <2>3. QED
    BY <1>1, <2>1, <2>2 DEF States
<1> HIDE DEF e, k, v, p
<1>12. v \in States
  BY <1>1, <1>4, <1>7, <1>11 DEF States, Downs
<1>13. /\ Kept(w, v) /\ v.q = w.q /\ v.aob = w.aob /\ v.str = w.str /\ v.made = w.made /\ v.sent = w.sent
       /\ v.conn = k /\ v.ds[id] = e /\ \A j \in Ids : j # id => v.ds[j] = w.ds[j]
  BY <1>1, <1>11 DEF States, Kept
<1>14. Frame(w, v, id)
  BY <1>1, <1>12, <1>13 DEF Frame, Requeued, Others, Kept
<1>15. Owing(w, v, id) /\ Phased(w.str[id], v.str[id])
  <2>1. Owed(v, id) = Owed(w, id) /\ (Counted(v, id) <=> Counted(w, id))
    BY <1>4, <1>13 DEF Owed, Kept, Counted
  <2>2. QED
    BY <1>1, <1>13, <2>1, OwedNat DEF Owing, Phased
<1>16. StreamOK(id, v.str[id], v.ds[id], v.q, v.aob, v.made[id], v.sent[id])
  BY <1>1, <1>4, <1>13 DEF StreamOK
<1>17. BackOK(id, v.ds[id], v.conn)
  BY <1>4, <1>6, <1>7, <1>13 DEF BackOK, Served
<1>18. ASSUME NEW o \in Conns PROVE ConnKept(w, v, id, o)
  <2>1. ConnOK(o, w.ds, w.conn) /\ o # NoConn
    BY <1>1, ConnsAreNumbers
  <2>2. CASE o = c
    BY <1>4, <1>6, <1>7, <1>13, <2>2 DEF ConnKept, ConnOK
  <2>3. CASE o # c
    BY <1>7, <1>13, <2>1, <2>3 DEF ConnKept, ConnOK
  <2>4. QED
    BY <2>2, <2>3
<1>19. Room(v.conn, v.str)
  <2>1. \A o \in Conns : o # c => v.conn[o].st = w.conn[o].st
    BY <1>7, <1>13
  <2>2. \A i \in Ids : v.str[i].st = "none" <=> w.str[i].st = "none"
    BY <1>13
  <2>3. QED
    BY <2>1, <2>2, SpareRoom
<1>20. Good(v, win, hs)
  <2>1. Touches(w, v, id)
    BY <1>14, <1>15, <1>16, <1>17, <1>18, <1>19 DEF Touches
  <2>2. QED
    BY <2>1, TouchKeeps
<1>21. QED
  BY <1>4, <1>13, <1>20 DEF Kept, Attached, v, p, a

\* The connection cannot be made: the stream is reset, the object lost.
LEMMA ConnectFailKeeps ==
  ASSUME NEW w, NEW win, NEW hs, win \in [Ids -> Nat], Good(w, win, hs), Spare(w.conn, w.str), NEW id \in Ids,
         w.ds[id] # NullObj, w.ds[id].dconn = NoConn, NEW c \in Conns, w.conn[c].st = "none"
  PROVE  LET v == [w EXCEPT !.ds[id].req = "CONNECT_FAIL", !.conn[c].st = "lost"]
         IN  Good(v, win, hs) /\ v.up = w.up
<1> DEFINE d == w.ds[id]
           b == w.conn[c]
           e == [d EXCEPT !.req = "CONNECT_FAIL"]
           y == [b EXCEPT !.st = "lost"]
           k == [w.conn EXCEPT ![c] = y]
           v == [w EXCEPT !.ds[id].req = "CONNECT_FAIL", !.conn[c].st = "lost"]
<1>1. /\ w \in States /\ w.abort = "none" /\ Queue(w.q, w.aob)
      /\ StreamOK(id, w.str[id], w.ds[id], w.q, w.aob, w.made[id], w.sent[id])
      /\ (\A o \in Conns : ConnOK(o, w.ds, w.conn))
  BY GoodParts
<1>2. d \in DownstreamType /\ w.conn \in Backs
  BY <1>1, StateParts
<1>3. b \in ConnType(Ids)
  BY <1>2 DEF Backs
<1>4. /\ e \in DownstreamType /\ e # NullObj /\ e.window = d.window /\ e.dconn = NoConn /\ e.res = d.res
      /\ e.body = d.body /\ e.tunnel = d.tunnel /\ e.rd = d.rd
  <2>1. e \in DownstreamType
    BY <1>2 DEF DownstreamType, RequestStates
  <2>2. QED
    BY <1>2, <2>1, NullNotDownstream DEF DownstreamType
<1>5. y \in ConnType(Ids) /\ y.st = "lost"
  BY <1>3 DEF ConnType
<1>6. v = [w EXCEPT !.ds[id] = e, !.conn = k]
  BY <1>1 DEF States
<1> HIDE DEF y
<1>7. k \in Backs /\ k[c] = y /\ \A o \in Conns : o # c => k[o] = w.conn[o]
  BY <1>2, <1>5 DEF Backs
<1> HIDE DEF e, k, v
<1>8. v \in States
  BY <1>1, <1>4, <1>6, <1>7 DEF States, Downs
<1>9. /\ Kept(w, v) /\ v.q = w.q /\ v.aob = w.aob /\ v.str = w.str /\ v.made = w.made /\ v.sent = w.sent
      /\ v.conn = k /\ v.ds[id] = e /\ \A j \in Ids : j # id => v.ds[j] = w.ds[j]
  BY <1>1, <1>6 DEF States, Kept
<1>10. Frame(w, v, id)
  BY <1>1, <1>8, <1>9 DEF Frame, Requeued, Others, Kept
<1>11. Owing(w, v, id) /\ Phased(w.str[id], v.str[id])
  <2>1. Owed(v, id) = Owed(w, id) /\ (Counted(v, id) <=> Counted(w, id))
    BY <1>4, <1>9 DEF Owed, Kept, Counted
  <2>2. QED
    BY <1>1, <1>9, <2>1, OwedNat DEF Owing, Phased
<1>12. StreamOK(id, v.str[id], v.ds[id], v.q, v.aob, v.made[id], v.sent[id]) /\ BackOK(id, v.ds[id], v.conn)
  BY <1>1, <1>4, <1>9 DEF StreamOK, BackOK
<1>13. ASSUME NEW o \in Conns PROVE ConnKept(w, v, id, o)
  <2>1. ConnOK(o, w.ds, w.conn) /\ o # NoConn
    BY <1>1, ConnsAreNumbers
  <2>2. CASE o = c
    BY <1>5, <1>7, <1>9, <2>2 DEF ConnKept, ConnOK
  <2>3. CASE o # c
    BY <1>7, <1>9, <2>1, <2>3 DEF ConnKept, ConnOK
  <2>4. QED
    BY <2>2, <2>3
<1>14. Room(v.conn, v.str)
  <2>1. \A o \in Conns : o # c => v.conn[o].st = w.conn[o].st
    BY <1>7, <1>9
  <2>2. \A i \in Ids : v.str[i].st = "none" <=> w.str[i].st = "none"
    BY <1>9
  <2>3. QED
    BY <2>1, <2>2, SpareRoom
<1>15. Good(v, win, hs)
  <2>1. Touches(w, v, id)
    BY <1>10, <1>11, <1>12, <1>13, <1>14 DEF Touches
  <2>2. QED
    BY <2>1, TouchKeeps
<1>16. QED
  BY <1>9, <1>15 DEF Kept, v

LEMMA SynFrameKeeps ==
  ASSUME NEW w, NEW win, NEW hs, win \in [Ids -> Nat], Good(w, win, hs), w.in # <<>>, Head(w.in).k = "syn",
         NEW fail
  PROVE  LET v == RecvFrame(Next(w), Head(w.in), fail) IN Good(v, win, hs) /\ v.up = w.up
<1> DEFINE f == Head(w.in)
           id == f.id
           u == Opened(w, f)
           g == GetDownstreamConnection(u)
           h == Attached(u, id, g.c)
           r == RstStream(u, id)
           v == RecvFrame(Next(w), f, fail)
<1>1. /\ id \in Ids /\ Good(u, win, hs) /\ u.up = w.up /\ Spare(u.conn, u.str)
      /\ u.ds[id] # NullObj /\ u.ds[id].dconn = NoConn /\ u.ds[id].res = "INITIAL" /\ u.ds[id].rd = {}
      /\ u.str[id].st = "OPENING"
  BY OpenedKeeps
<1>2. u \in States
  BY <1>1, GoodParts
<1>3. v = IF ~f.ok THEN r
          ELSE IF g.new /\ fail THEN [r EXCEPT !.ds[id].req = "CONNECT_FAIL", !.conn[g.c].st = "lost"]
          ELSE IF f.fin THEN RequestComplete(h, id) ELSE h
  <2> HIDE DEF f
  <2>1. f.k = "syn"
    BY DEF f
  <2>2. QED
    BY <2>1 DEF RecvFrame, OnSynStream, Opened, Attached
<1> HIDE DEF u, v
<1>4. g.c \in Conns /\ u.conn[g.c].st = IF g.new THEN "none" ELSE "idle"
  BY <1>1, <1>2, GetConnection
<1> HIDE DEF g
<1>5. Good(r, win, hs) /\ r.up = w.up
  BY <1>1, RstKeeps DEF Steady
<1>6. CASE ~f.ok
  BY <1>3, <1>5, <1>6 DEF v
<1>7. CASE f.ok /\ g.new /\ fail
  <2>1. /\ r.ds[id] = u.ds[id] /\ r.conn = u.conn /\ \A j \in Ids : j # id => r.str[j] = u.str[j]
        /\ r.str[id] = [u.str[id] EXCEPT !.st = IF Active(u, id) THEN "CLOSING" ELSE @]
    BY <1>1, <1>2, RstStreamSets DEF Sets
  <2>2. u.str[id] \in Strs /\ Active(u, id)
    BY <1>1, <1>2, StateParts DEF Active
  <2>3. r.str[id].st = "CLOSING"
    BY <2>1, <2>2 DEF Strs
  <2> HIDE DEF r, f
  <2>4. {i \in Ids : r.str[i].st # "none"} = {i \in Ids : u.str[i].st # "none"}
    BY <1>1, <2>1, <2>3
  <2>5. Spare(r.conn, r.str)
    BY <1>1, <2>1, <2>4 DEF Spare
  <2>6. v = [r EXCEPT !.ds[id].req = "CONNECT_FAIL", !.conn[g.c].st = "lost"]
    BY <1>3, <1>7
  <2>7. r.ds[id] # NullObj /\ r.ds[id].dconn = NoConn /\ r.conn[g.c].st = "none"
    BY <1>1, <1>4, <1>7, <2>1
  <2>8. Good(v, win, hs) /\ v.up = r.up
    <3> DEFINE c == g.c
               j == id
    <3>1. c \in Conns /\ j \in Ids /\ r.ds[j] # NullObj /\ r.ds[j].dconn = NoConn /\ r.conn[c].st = "none"
      BY <1>1, <1>4, <2>7
    <3> HIDE DEF c, j
    <3>2. LET x == [r EXCEPT !.ds[j].req = "CONNECT_FAIL", !.conn[c].st = "lost"]
          IN  Good(x, win, hs) /\ x.up = r.up
      BY <1>5, <2>5, <3>1, ConnectFailKeeps
    <3>3. QED
      BY <2>6, <3>2 DEF c, j
  <2>9. QED
    BY <1>5, <2>8 DEF v, f
<1>8. CASE f.ok /\ ~(g.new /\ fail)
  <2>1. Good(h, win, hs) /\ h.up = u.up /\ h.ds[id] # NullObj
    <3> DEFINE c == g.c
               j == id
    <3>1. /\ c \in Conns /\ u.conn[c].st \in {"none", "idle"} /\ j \in Ids /\ u.ds[j] # NullObj
          /\ u.ds[j].dconn = NoConn /\ u.ds[j].res = "INITIAL" /\ u.ds[j].rd = {}
      BY <1>1, <1>4
    <3> HIDE DEF c, j
    <3>2. Good(Attached(u, j, c), win, hs) /\ Attached(u, j, c).up = u.up /\ Attached(u, j, c).ds[j] # NullObj
      BY <1>1, <3>1, AttachKeeps
    <3>3. QED
      BY <3>2 DEF c, j
  <2>2. v = IF f.fin THEN RequestComplete(h, id) ELSE h
    BY <1>3, <1>8
  <2> HIDE DEF h, f
  <2>3. Good(RequestComplete(h, id), win, hs) /\ RequestComplete(h, id).up = h.up
    BY <1>1, <2>1, CompleteKeeps DEF Steady
  <2>4. Good(v, win, hs) /\ v.up = w.up
    BY <1>1, <2>1, <2>2, <2>3
  <2>5. QED
    BY <2>4 DEF v, f
<1>9. QED
  BY <1>6, <1>7, <1>8 DEF v

\* What the session makes of the next frame.
LEMMA RecvNextKeeps ==
  ASSUME NEW w, NEW win, NEW hs, win \in [Ids -> Nat], Good(w, win, hs), NEW fail
  PROVE  Good(RecvNext(w, fail), win, hs) /\ RecvNext(w, fail).up = w.up
<1> SUFFICES ASSUME w.in # <<>> PROVE Good(RecvNext(w, fail), win, hs) /\ RecvNext(w, fail).up = w.up
  BY DEF RecvNext
<1> DEFINE f == Head(w.in)
           u == Next(w)
           v == RecvNext(w, fail)
<1>1. v = RecvFrame(u, f, fail)
  BY DEF RecvNext, Next
<1>2. w \in States /\ w.in \in Seq(Frames)
  BY GoodParts, StateParts, IdsAreNumbers
<1>3. f \in Frames
  BY <1>2, TailIs
<1>4. f.id \in Ids /\ f.k \in {"syn", "data", "rst", "bad"}
  BY <1>3 DEF Frames, Syns
<1>5. u.up = w.up
  BY <1>2, NextIs
<1>6. CASE f.k = "syn"
  BY <1>1, <1>6, SynFrameKeeps
<1>7. CASE f.k = "data"
  BY <1>1, <1>7, DataFrameKeeps
<1>8. CASE f.k = "rst"
  <2>1. Good(u, win, hs)
    BY <1>4, <1>8, SkipKeeps
  <2>2. v = CloseStream(u, f.id)
    BY <1>1, <1>8 DEF RecvFrame
  <2> HIDE DEF u, v, f
  <2>3. Good(v, win, hs) /\ Steady(u, v)
    BY <1>4, <2>1, <2>2, CloseKeeps
  <2>4. QED
    BY <1>5, <2>3 DEF Steady, v
<1>9. CASE f.k = "bad"
  <2>1. Good(u, win, hs)
    BY <1>4, <1>9, SkipKeeps
  <2>2. v = [u EXCEPT !.q = Append(@, Item("goaway", 1, 0))]
    BY <1>1, <1>9 DEF RecvFrame
  <2> HIDE DEF u, v, f
  <2>3. Good(v, win, hs) /\ Steady(u, v)
    BY <2>1, <2>2, GoawayKeeps
  <2>4. QED
    BY <1>5, <2>3 DEF Steady, v
<1>10. QED
  BY <1>4, <1>6, <1>7, <1>8, <1>9

RecvRun(w, n, fail, f) ==
  f = [i \in 0..n |-> IF i = 0 THEN [w EXCEPT !.rcb = FALSE] ELSE RecvNext(f[i - 1], fail)]

LEMMA OnReadHeld ==
  ASSUME NEW w, NEW win, NEW hs, win \in [Ids -> Nat], Good(w, win, hs), w.up = "open", NEW fail
  PROVE  Held(SpdyOnRead(w, fail), win, hs)
<1> DEFINE n == Len(w.in)
           u == [w EXCEPT !.rcb = FALSE]
           D == {x \in States : Good(x, win, hs) /\ x.up = "open"}
           F == [i \in 1..n |-> [x \in D |-> RecvNext(x, fail)]]
           run == CHOOSE f : RecvRun(w, n, fail, f)
<1>1. w \in States
  BY StatesIs DEF Good, Core
<1>2. n \in Nat
  <2>1. w.in \in Seq(Frames)
    BY <1>1 DEF States
  <2>2. QED
    BY <2>1
<1>3. u \in D
  <2>1. u \in States /\ Kept([w EXCEPT !.rcb = FALSE], u)
    BY <1>1 DEF States, Kept
  <2>2. /\ u.up = w.up /\ u.in = w.in /\ u.q = w.q /\ u.aob = w.aob /\ u.ds = w.ds /\ u.str = w.str
        /\ u.conn = w.conn /\ u.made = w.made /\ u.sent = w.sent /\ u.credit = w.credit /\ u.abort = w.abort
    BY <1>1 DEF States
  <2> HIDE DEF u
  <2>3. Core(u)
    BY <2>1, <2>2, StatesIs DEF Good, Core
  <2>4. \A id \in Ids : Ledger(u, id, win[id]) /\ Order(id, u.str[id], u.in, hs[id])
    BY <2>2 DEF Good, Ledger, Owed, Counted
  <2>5. QED
    BY <2>1, <2>2, <2>3, <2>4 DEF Good
<1>4. ASSUME NEW x \in D PROVE RecvNext(x, fail) \in D
  <2> DEFINE v == RecvNext(x, fail)
  <2>1. Good(v, win, hs) /\ v.up = x.up
    BY RecvNextKeeps
  <2> HIDE DEF v
  <2>2. v \in States
    BY <2>1, StatesIs DEF Good, Core
  <2>3. QED
    BY <2>1, <2>2 DEF v
<1> HIDE DEF D, n, u
<1>5. \A i \in 1..n : F[i] \in [D -> D] /\ \A x \in D : F[i][x] = RecvNext(x, fail)
  BY <1>4
<1> HIDE DEF F
<1>6. PICK f \in [0..n -> D] : TurnsOf(n, u, F, f)
  BY <1>2, <1>3, <1>5, TurnsExist
<1>7. RecvRun(w, n, fail, f)
  <2>1. ASSUME NEW i \in 0..n, i # 0 PROVE F[i][f[i - 1]] = RecvNext(f[i - 1], fail)
    <3>1. i \in 1..n /\ i - 1 \in 0..n
      BY <1>2, <2>1
    <3>2. QED
      BY <1>5, <3>1
  <2>2. QED
    BY <1>6, <2>1 DEF RecvRun, TurnsOf, u
<1>8. RecvRun(w, n, fail, run)
  BY <1>7
<1>9. SpdyOnRead(w, fail) = Send(run[n])
  BY Zenon DEF SpdyOnRead, RecvRun, n
<1> HIDE DEF run
<1>10. run[0] = u /\ \A i \in 1..n : run[i] = RecvNext(run[i - 1], fail)
  <2>1. run = [i \in 0..n |-> IF i = 0 THEN u ELSE RecvNext(run[i - 1], fail)]
    BY <1>8, Zenon DEF RecvRun, u
  <2>2. 0 \in 0..n /\ \A i \in 1..n : i \in 0..n /\ i # 0
    BY <1>2
  <2>3. QED
    BY <2>1, <2>2
<1> DEFINE T == {i \in Nat : run[i] \in D}
<1>11. 0 \in T
  BY <1>3, <1>10
<1>12. ASSUME NEW i \in 0..(n - 1), i \in T PROVE i + 1 \in T
  <2>1. i + 1 \in 1..n /\ (i + 1) - 1 = i /\ i \in Nat /\ i + 1 \in Nat
    BY <1>2
  <2>2. run[i + 1] = RecvNext(run[i], fail)
    BY <1>10, <2>1
  <2>3. QED
    BY <1>4, <1>12, <2>1, <2>2
<1>13. n \in T
  <2> HIDE DEF T
  <2>1. \A i \in 0..n : i \in T
    BY <1>2, <1>11, <1>12, UpTo
  <2>2. QED
    BY <1>2, <2>1
<1>14. Good(run[n], win, hs) /\ run[n].up = "open"
  BY <1>13 DEF D
<1>15. QED
  BY <1>9, <1>14, SendHeld
-----------------------------------------------------------------------------
(* The backend.                                                            *)

\* The response of stream id goes on: its Downstream becomes e, and what was put
\* off is resumed.
Refill(w, id, e, k, m) == ResumeData([w EXCEPT !.ds[id] = e, !.conn = k, !.made[id] = m], id)

LEMMA RefillSets ==
  ASSUME NEW w \in States, NEW id \in Ids, NEW e \in DownstreamType, NEW k \in Backs, NEW m \in Nat
  PROVE  LET r == w.str[id].deferred
         IN  Sets(w, Refill(w, id, e, k, m), id, e, [w.str[id] EXCEPT !.deferred = FALSE], k,
                  IF r THEN Append(w.q, Item("data", id, 0)) ELSE w.q, w.aob, m, w.sent[id])
<1> DEFINE u == [w EXCEPT !.ds[id] = e, !.conn = k, !.made[id] = m]
           r == w.str[id].deferred
           s == [w.str[id] EXCEPT !.deferred = FALSE]
           q == IF r THEN Append(w.q, Item("data", id, 0)) ELSE w.q
           v == Refill(w, id, e, k, m)
<1>1. w.str[id] \in Strs /\ w.q \in Seq(Items) /\ Item("data", id, 0) \in Items
  BY StateParts, ItemIs, WindowIs
<1>2. r \in BOOLEAN /\ s \in Strs /\ (~r => s = w.str[id])
  BY <1>1 DEF Strs
<1>3. q \in Seq(Items)
  BY <1>1
<1>4. u.str = w.str /\ u.q = w.q
  BY DEF States
<1>5. v = IF r THEN [u EXCEPT !.q = q, !.str[id] = s] ELSE u
  BY <1>4 DEF Refill, ResumeData
<1> HIDE DEF s, v, q
<1>6. CASE r
  <2>1. v = [w EXCEPT !.ds[id] = e, !.conn = k, !.made[id] = m, !.q = q, !.str[id] = s]
    BY <1>5, <1>6 DEF States
  <2>2. v \in States
    BY <1>2, <1>3, <2>1 DEF States, Downs
  <2>3. Kept(w, v)
    BY <2>1 DEF Kept, States
  <2>4. Sets(w, v, id, e, s, k, q, w.aob, m, w.sent[id])
    <3>1. /\ v.conn = k /\ v.q = q /\ v.aob = w.aob /\ v.sent = w.sent /\ v.ds = [w.ds EXCEPT ![id] = e]
          /\ v.made = [w.made EXCEPT ![id] = m] /\ v.str = [w.str EXCEPT ![id] = s]
      BY <2>1 DEF States
    <3>2. QED
      BY <2>2, <2>3, <3>1 DEF Sets, States
  <2>5. QED
    BY <2>4 DEF v, s, q
<1>7. CASE ~r
  <2>1. v = [w EXCEPT !.ds[id] = e, !.conn = k, !.made[id] = m]
    BY <1>5, <1>7
  <2>2. v \in States
    BY <2>1 DEF States, Downs
  <2>3. Kept(w, v)
    BY <2>1 DEF Kept, States
  <2>4. q = w.q
    BY <1>7 DEF q
  <2>5. Sets(w, v, id, e, s, k, q, w.aob, m, w.sent[id])
    BY <1>2, <1>7, <2>1, <2>2, <2>3, <2>4, ZenonT(60) DEF Sets, States
  <2>6. QED
    BY <2>5 DEF v, s, q
<1>8. QED
  BY <1>2, <1>6, <1>7

LEMMA RefillKeeps ==
  ASSUME NEW w, NEW win, NEW hs, win \in [Ids -> Nat], Good(w, win, hs), NEW id \in Ids, w.ds[id] # NullObj,
         w.ds[id].res # "INITIAL", NEW e \in DownstreamType, e.res # "INITIAL", e.window = w.ds[id].window,
         e.dconn = w.ds[id].dconn, NEW k \in Backs, BackOK(id, e, k),
         \A c \in Conns : /\ k[c].st = w.conn[c].st /\ k[c].ds = w.conn[c].ds
                          /\ k[c] = w.conn[c] \/ c = w.ds[id].dconn,
         NEW m \in Nat, m = w.sent[id] + e.body + Is(w.aob, "data", id)
  PROVE  Good(Refill(w, id, e, k, m), win, hs) /\ Steady(w, Refill(w, id, e, k, m))
<1> DEFINE d == w.ds[id]
           r == w.str[id].deferred
           s == [w.str[id] EXCEPT !.deferred = FALSE]
           x == Item("data", id, 0)
           q == IF r THEN Append(w.q, x) ELSE w.q
           v == Refill(w, id, e, k, m)
<1>1. /\ w \in States /\ w.abort = "none" /\ Queue(w.q, w.aob)
      /\ StreamOK(id, w.str[id], w.ds[id], w.q, w.aob, w.made[id], w.sent[id])
  BY GoodParts
<1>2. Sets(w, v, id, e, s, k, q, w.aob, m, w.sent[id])
  BY <1>1, RefillSets
<1>3. x \in Items /\ x.k = "data" /\ x.id = id
  BY ItemIs, WindowIs
<1>4. w.str[id] \in Strs /\ w.q \in Seq(Items) /\ w.aob \in Items
  BY <1>1, StateParts
<1>5. s.st = w.str[id].st /\ s.rfin = w.str[id].rfin /\ s.lfin = w.str[id].lfin /\ ~s.deferred /\ r \in BOOLEAN
  BY <1>4 DEF Strs
<1> HIDE DEF s, x, v
<1>6. Queue(q, w.aob)
  <2>1. Queue(Append(w.q, x), w.aob)
    BY <1>1, <1>3, <1>4, QueueAppend
  <2>2. QED
    BY <1>1, <2>1
<1>7. /\ v.str[id] = s /\ v.ds[id] = e /\ v.aob = w.aob /\ v.made[id] = m /\ v.conn = k
      /\ v.sent[id] = w.sent[id] /\ v.q = q /\ v \in States /\ v.credit = w.credit
  BY <1>2 DEF Sets, Kept
<1>8. /\ Requeued(w, v, id) /\ Granted(v.q, v.aob, id) = Granted(w.q, w.aob, id)
      /\ \A o \in Kinds : Pend(v.q, v.aob, o, id) = Pend(w.q, w.aob, o, id) + (IF r /\ o = "data" THEN 1 ELSE 0)
  <2>1. Granted(w.q, w.aob, id) \in Nat /\ \A o \in Kinds : Pend(w.q, w.aob, o, id) \in Nat
    BY <1>1, PendNat
  <2>2. CASE r
    <3>1. Amount(x, id) = 0 /\ \A o \in Kinds : Is(x, o, id) = IF o = "data" THEN 1 ELSE 0
      BY <1>3 DEF Amount, Is, Kinds
    <3>2. v.q = Append(w.q, x) /\ v.aob = w.aob
      BY <1>7, <2>2
    <3> HIDE DEF q, r
    <3>3. /\ Requeued(w, v, id) /\ Granted(v.q, v.aob, id) = Granted(w.q, w.aob, id) + Amount(x, id)
          /\ \A o \in Kinds : Pend(v.q, v.aob, o, id) = Pend(w.q, w.aob, o, id) + Is(x, o, id)
      BY <1>1, <1>3, <3>2, AppendRequeues, ZenonT(60)
    <3>4. QED
      BY <2>1, <2>2, <3>1, <3>3
  <2>3. CASE ~r
    BY <1>7, <2>1, <2>3 DEF Requeued
  <2>4. QED
    BY <1>5, <2>2, <2>3
<1>9. e # NullObj
  BY NullNotDownstream
<1>10. StreamOK(id, v.str[id], v.ds[id], v.q, v.aob, v.made[id], v.sent[id])
  <2>1. \A o \in Kinds : Pend(w.q, w.aob, o, id) \in Nat
    BY <1>1, PendNat
  <2>2. /\ Pend(v.q, v.aob, "reply", id) = Pend(w.q, w.aob, "reply", id)
        /\ Pend(v.q, v.aob, "fin", id) = Pend(w.q, w.aob, "fin", id)
        /\ Pend(v.q, v.aob, "data", id) = Pend(w.q, w.aob, "data", id) + (IF r THEN 1 ELSE 0)
        /\ Pend(w.q, w.aob, "data", id) \in Nat /\ Pend(w.q, w.aob, "fin", id) \in Nat
        /\ Pend(w.q, w.aob, "reply", id) \in Nat /\ Pend(v.q, v.aob, "rst", id) = Pend(w.q, w.aob, "rst", id)
    BY <1>8, <2>1 DEF Kinds
  <2>3. w.str[id].st \in {"OPENING", "OPENED", "CLOSING"}
    BY <1>1 DEF StreamOK
  <2>4. w.str[id].st = "OPENING" =>
          /\ ~s.lfin /\ ~s.deferred /\ Pend(v.q, v.aob, "data", id) = 0 /\ Pend(v.q, v.aob, "fin", id) = 0
          /\ Pend(v.q, v.aob, "reply", id) = 1
    BY <1>1, <1>5, <2>2 DEF StreamOK
  <2>5. w.str[id].st = "OPENED" =>
          /\ Pend(v.q, v.aob, "reply", id) = 0
          /\ Pend(v.q, v.aob, "data", id) + Pend(v.q, v.aob, "fin", id) + 0 = IF s.lfin THEN 0 ELSE 1
    BY <1>1, <1>5, <2>2 DEF StreamOK
  <2>6. w.str[id].st = "CLOSING" =>
          /\ Pend(v.q, v.aob, "rst", id) > 0 /\ Pend(v.q, v.aob, "reply", id) <= 1
          /\ Pend(v.q, v.aob, "reply", id) > 0 =>
               ~s.lfin /\ ~s.deferred /\ Pend(v.q, v.aob, "data", id) = 0 /\ Pend(v.q, v.aob, "fin", id) = 0
    BY <1>1, <1>5, <2>2 DEF StreamOK
  <2>7. QED
    BY <1>5, <1>7, <1>9, <2>3, <2>4, <2>5, <2>6 DEF StreamOK
<1>11. Phased(w.str[id], v.str[id]) /\ (Counted(v, id) => Counted(w, id))
  <2>1. Pend(v.q, v.aob, "rst", id) = Pend(w.q, w.aob, "rst", id)
    <3>1. Pend(w.q, w.aob, "rst", id) \in Nat
      BY <1>1, PendNat DEF Kinds
    <3>2. QED
      BY <1>8, <3>1 DEF Kinds
  <2>2. QED
    BY <1>5, <1>7, <2>1 DEF Phased, Shut, Counted
<1>12. Owing(w, v, id)
  <2>1. Owed(v, id) = Owed(w, id)
    BY <1>7, <1>8, <1>9 DEF Owed
  <2>2. QED
    BY <1>1, <1>11, <2>1, OwedNat DEF Owing
<1>13. Frame(w, v, id)
  BY <1>1, <1>2, <1>6, <1>8, SetsFrame
<1>14. Backing(w, v, id) /\ BackOK(id, v.ds[id], v.conn)
  BY <1>7, <1>9 DEF Backing
<1>15. Good(v, win, hs)
  BY <1>10, <1>11, <1>12, <1>13, <1>14, QuietKeeps
<1>16. QED
  BY <1>2, <1>15 DEF Sets, Kept, Steady, v

\* ~DownstreamConnection of the stream's backend connection.
Dropped(w, id) ==
  [w EXCEPT !.conn = [w.conn EXCEPT ![w.ds[id].dconn] = NewConn], !.ds[id] = [w.ds[id] EXCEPT !.dconn = NoConn]]

LEMMA DroppedKeeps ==
  ASSUME NEW w, NEW win, NEW hs, win \in [Ids -> Nat], Good(w, win, hs), NEW id \in Ids, w.ds[id] # NullObj,
         w.ds[id].dconn # NoConn
  PROVE  LET v == Dropped(w, id)
         IN  /\ Good(v, win, hs) /\ Steady(w, v) /\ v.ds[id] = [w.ds[id] EXCEPT !.dconn = NoConn]
             /\ v.ds[id] \in DownstreamType /\ v.str = w.str
<1> DEFINE d == w.ds[id]
           c == d.dconn
           e == [d EXCEPT !.dconn = NoConn]
           k == [w.conn EXCEPT ![c] = NewConn]
           v == Dropped(w, id)
<1>1. /\ w \in States /\ w.abort = "none" /\ Queue(w.q, w.aob) /\ Room(w.conn, w.str)
      /\ StreamOK(id, w.str[id], w.ds[id], w.q, w.aob, w.made[id], w.sent[id])
      /\ BackOK(id, w.ds[id], w.conn) /\ (\A o \in Conns : ConnOK(o, w.ds, w.conn))
  BY GoodParts
<1>2. d \in DownstreamType /\ w.conn \in Backs
  BY <1>1, StateParts
<1>3. c \in Conns
  BY <1>2 DEF DownstreamType
<1>4. /\ e \in DownstreamType /\ e # NullObj /\ e.window = d.window /\ e.dconn = NoConn /\ e.res = d.res
      /\ e.body = d.body /\ e.tunnel = d.tunnel
  <2>1. e \in DownstreamType
    BY <1>2 DEF DownstreamType
  <2>2. QED
    BY <1>2, <2>1, NullNotDownstream DEF DownstreamType
<1>5. NewConn \in ConnType(Ids) /\ NewConn.st = "none"
  BY DEF NewConn, ConnType
<1>6. k \in Backs /\ k[c].st = "none" /\ \A o \in Conns : o # c => k[o] = w.conn[o]
  BY <1>2, <1>3, <1>5 DEF Backs
<1>7. v = [w EXCEPT !.ds[id] = e, !.conn = k]
  BY <1>1 DEF Dropped, States
<1> HIDE DEF e, k, v
<1>8. v \in States
  BY <1>1, <1>4, <1>6, <1>7 DEF States, Downs
<1>9. /\ Kept(w, v) /\ v.q = w.q /\ v.aob = w.aob /\ v.str = w.str /\ v.made = w.made /\ v.sent = w.sent
      /\ v.conn = k /\ v.ds[id] = e /\ \A j \in Ids : j # id => v.ds[j] = w.ds[j]
  BY <1>1, <1>7 DEF States, Kept
<1>10. Frame(w, v, id)
  BY <1>1, <1>8, <1>9 DEF Frame, Requeued, Others, Kept
<1>11. Owing(w, v, id) /\ Phased(w.str[id], v.str[id])
  <2>1. Owed(v, id) = Owed(w, id) /\ (Counted(v, id) <=> Counted(w, id))
    BY <1>4, <1>9 DEF Owed, Kept, Counted
  <2>2. QED
    BY <1>1, <1>9, <2>1, OwedNat DEF Owing, Phased
<1>12. StreamOK(id, v.str[id], v.ds[id], v.q, v.aob, v.made[id], v.sent[id]) /\ BackOK(id, v.ds[id], v.conn)
  BY <1>1, <1>4, <1>9 DEF StreamOK, BackOK
<1>13. ASSUME NEW o \in Conns PROVE ConnKept(w, v, id, o) /\ (v.conn[o].st # "none" => w.conn[o].st # "none")
  <2>1. ConnOK(o, w.ds, w.conn) /\ o # NoConn
    BY <1>1, ConnsAreNumbers
  <2>2. CASE o = c
    <3>1. w.conn[o].ds = id
      BY <1>1, <2>2 DEF BackOK
    <3>2. QED
      BY <1>6, <1>9, <2>2, <3>1 DEF ConnKept, ConnOK
  <2>3. CASE o # c
    BY <1>6, <1>9, <2>1, <2>3 DEF ConnKept, ConnOK
  <2>4. QED
    BY <2>2, <2>3
<1>14. Room(v.conn, v.str)
  <2>1. Others(w, v, id)
    BY <1>10 DEF Frame
  <2>2. QED
    BY <1>1, <1>11, <1>13, <2>1, FewerConns
<1>15. Good(v, win, hs)
  <2>1. Touches(w, v, id)
    BY <1>10, <1>11, <1>12, <1>13, <1>14 DEF Touches
  <2>2. QED
    BY <2>1, TouchKeeps
<1>16. QED
  BY <1>4, <1>9, <1>15 DEF Kept, Steady, v, e

\* SpdyUpstream::error_reply, of a stream that has no answer yet.
LEMMA ErrorReplyKeeps ==
  ASSUME NEW w, NEW win, NEW hs, win \in [Ids -> Nat], Good(w, win, hs), NEW id \in Ids, w.ds[id] # NullObj,
         w.ds[id].dconn = NoConn, w.ds[id].res = "INITIAL"
  PROVE  Good(SpdyErrorReply(w, id), win, hs) /\ Steady(w, SpdyErrorReply(w, id))
<1> DEFINE d == w.ds[id]
           e == [d EXCEPT !.body = @ + 1, !.res = "MSG_COMPLETE"]
           m == w.made[id] + 1
           x == Item("reply", id, 0)
           v == SpdyErrorReply(w, id)
<1>1. /\ w \in States /\ w.abort = "none" /\ Queue(w.q, w.aob)
      /\ StreamOK(id, w.str[id], w.ds[id], w.q, w.aob, w.made[id], w.sent[id])
  BY GoodParts
<1>2. d \in DownstreamType /\ w.q \in Seq(Items) /\ w.aob \in Items /\ w.made[id] \in Nat /\ w.sent[id] \in Nat
  BY <1>1, StateParts
<1>3. /\ e \in DownstreamType /\ e # NullObj /\ e.window = d.window /\ e.dconn = NoConn /\ e.res = "MSG_COMPLETE"
      /\ e.body = d.body + 1 /\ d.body \in Nat
  <2>1. e \in DownstreamType
    <3>1. d.body + 1 \in Nat
      BY <1>2 DEF DownstreamType
    <3>2. QED
      BY <1>2, <3>1 DEF DownstreamType, ResponseStates
  <2>2. QED
    BY <1>2, <2>1, NullNotDownstream DEF DownstreamType
<1>4. x \in Items /\ x.k = "reply" /\ x.id = id
  BY ItemIs, WindowIs
<1>5. v = [w EXCEPT !.ds[id] = e, !.made[id] = m, !.q = Append(w.q, x)]
  BY <1>1, ZenonT(60) DEF SpdyErrorReply, States
<1> HIDE DEF x, e, m, v
<1>6. Append(w.q, x) \in Seq(Items) /\ Queue(Append(w.q, x), w.aob) /\ m \in Nat
  BY <1>1, <1>2, <1>4, QueueAppend DEF m
<1>7. v \in States
  BY <1>1, <1>3, <1>5, <1>6 DEF States, Downs
<1>8. /\ Kept(w, v) /\ v.q = Append(w.q, x) /\ v.aob = w.aob /\ v.str = w.str /\ v.made[id] = m /\ v.sent = w.sent
      /\ v.conn = w.conn /\ v.ds[id] = e
      /\ \A j \in Ids : j # id => v.ds[j] = w.ds[j] /\ v.made[j] = w.made[j]
  BY <1>1, <1>5 DEF States, Kept
<1>9. /\ Requeued(w, v, id) /\ Granted(v.q, v.aob, id) = Granted(w.q, w.aob, id)
      /\ \A o \in Kinds : Pend(v.q, v.aob, o, id) = Pend(w.q, w.aob, o, id) + (IF o = "reply" THEN 1 ELSE 0)
  <2>1. Amount(x, id) = 0 /\ \A o \in Kinds : Is(x, o, id) = IF o = "reply" THEN 1 ELSE 0
    BY <1>4 DEF Amount, Is, Kinds
  <2>2. /\ Requeued(w, v, id) /\ Granted(v.q, v.aob, id) = Granted(w.q, w.aob, id) + Amount(x, id)
        /\ \A o \in Kinds : Pend(v.q, v.aob, o, id) = Pend(w.q, w.aob, o, id) + Is(x, o, id)
    BY <1>1, <1>4, <1>8, AppendRequeues
  <2>3. Granted(w.q, w.aob, id) \in Nat
    BY <1>1, PendNat
  <2>4. QED
    BY <2>1, <2>2, <2>3
<1>10. Frame(w, v, id)
  BY <1>1, <1>6, <1>7, <1>8, <1>9 DEF Frame, Others, Kept
<1>11. Owing(w, v, id) /\ Phased(w.str[id], v.str[id])
  <2>1. Owed(v, id) = Owed(w, id)
    BY <1>3, <1>8, <1>9 DEF Owed, Kept
  <2>2. Counted(v, id) <=> Counted(w, id)
    <3>1. Pend(w.q, w.aob, "rst", id) \in Nat
      BY <1>1, PendNat DEF Kinds
    <3>2. Pend(v.q, v.aob, "rst", id) = Pend(w.q, w.aob, "rst", id)
      BY <1>9, <3>1 DEF Kinds
    <3>3. QED
      BY <1>8, <3>2 DEF Counted
  <2>3. QED
    BY <1>1, <1>8, <2>1, <2>2, OwedNat DEF Owing, Phased
<1>12. StreamOK(id, v.str[id], v.ds[id], v.q, v.aob, v.made[id], v.sent[id])
  <2>1. \A o \in Kinds : Pend(w.q, w.aob, o, id) \in Nat
    BY <1>1, PendNat
  <2>2. /\ Pend(v.q, v.aob, "reply", id) = Pend(w.q, w.aob, "reply", id) + 1
        /\ Pend(v.q, v.aob, "fin", id) = Pend(w.q, w.aob, "fin", id)
        /\ Pend(v.q, v.aob, "data", id) = Pend(w.q, w.aob, "data", id)
        /\ Pend(v.q, v.aob, "rst", id) = Pend(w.q, w.aob, "rst", id) /\ Pend(w.q, w.aob, "reply", id) \in Nat
    BY <1>9, <2>1 DEF Kinds
  <2>3. w.str[id].st \in {"OPENING", "CLOSING"} /\ w.made[id] = w.sent[id] + d.body + Is(w.aob, "data", id)
    BY <1>1 DEF StreamOK
  <2>4. m = w.sent[id] + e.body + Is(w.aob, "data", id)
    <3>1. Is(w.aob, "data", id) \in Nat
      BY DEF Is
    <3>2. m = w.made[id] + 1 /\ e.body = d.body + 1 /\ d.body \in Nat /\ w.sent[id] \in Nat
      BY <1>2, <1>3 DEF m
    <3> HIDE DEF d
    <3>3. QED
      BY <2>3, <3>1, <3>2
  <2>5. w.str[id].st = "OPENING" =>
          /\ ~w.str[id].lfin /\ ~w.str[id].deferred /\ Pend(v.q, v.aob, "data", id) = 0
          /\ Pend(v.q, v.aob, "fin", id) = 0 /\ Pend(v.q, v.aob, "reply", id) = 1
    BY <1>1, <2>2 DEF StreamOK
  <2>6. w.str[id].st = "CLOSING" =>
          /\ ~w.str[id].lfin /\ ~w.str[id].deferred /\ Pend(v.q, v.aob, "data", id) = 0
          /\ Pend(v.q, v.aob, "fin", id) = 0 /\ Pend(v.q, v.aob, "reply", id) = 1 /\ Pend(v.q, v.aob, "rst", id) > 0
    BY <1>1, <2>2 DEF StreamOK
  <2>7. QED
    BY <1>3, <1>8, <2>3, <2>4, <2>5, <2>6 DEF StreamOK
<1>13. Backing(w, v, id) /\ BackOK(id, v.ds[id], v.conn)
  BY <1>3, <1>8 DEF Backing, BackOK
<1>14. Good(v, win, hs)
  BY <1>10, <1>11, <1>12, <1>13, QuietKeeps
<1>15. QED
  BY <1>8, <1>14 DEF Kept, Steady, v

\* The response of a stream that is being reset and has no backend is over.
LEMMA SettleKeeps ==
  ASSUME NEW w, NEW win, NEW hs, win \in [Ids -> Nat], Good(w, win, hs), NEW id \in Ids, w.str[id].st = "CLOSING",
         w.ds[id].dconn = NoConn
  PROVE  LET v == [w EXCEPT !.ds[id].res = "MSG_COMPLETE"] IN Good(v, win, hs) /\ Steady(w, v)
<1> DEFINE d == w.ds[id]
           e == [d EXCEPT !.res = "MSG_COMPLETE"]
           v == [w EXCEPT !.ds[id].res = "MSG_COMPLETE"]
<1>1. /\ w \in States /\ w.abort = "none" /\ Queue(w.q, w.aob)
      /\ StreamOK(id, w.str[id], w.ds[id], w.q, w.aob, w.made[id], w.sent[id])
  BY GoodParts
<1>2. d \in DownstreamType /\ d # NullObj
  BY <1>1, StateParts DEF StreamOK
<1>3. /\ e \in DownstreamType /\ e # NullObj /\ e.window = d.window /\ e.dconn = NoConn /\ e.body = d.body
      /\ e.res = "MSG_COMPLETE"
  <2>1. e \in DownstreamType
    BY <1>2 DEF DownstreamType, ResponseStates
  <2>2. QED
    BY <1>2, <2>1, NullNotDownstream DEF DownstreamType
<1>4. v = [w EXCEPT !.ds[id] = e]
  BY <1>1 DEF States
<1> HIDE DEF e, v
<1>5. v \in States
  BY <1>1, <1>3, <1>4 DEF States, Downs
<1>6. /\ Kept(w, v) /\ v.q = w.q /\ v.aob = w.aob /\ v.str = w.str /\ v.made = w.made /\ v.sent = w.sent
      /\ v.conn = w.conn /\ v.ds[id] = e /\ \A j \in Ids : j # id => v.ds[j] = w.ds[j]
  BY <1>1, <1>4 DEF States, Kept
<1>7. Frame(w, v, id)
  BY <1>1, <1>5, <1>6 DEF Frame, Requeued, Others, Kept
<1>8. Owing(w, v, id) /\ Phased(w.str[id], v.str[id])
  <2>1. Owed(v, id) = Owed(w, id) /\ (Counted(v, id) <=> Counted(w, id))
    BY <1>2, <1>3, <1>6 DEF Owed, Counted, Kept
  <2>2. QED
    BY <1>1, <1>6, <2>1, OwedNat DEF Owing, Phased
<1>9. StreamOK(id, v.str[id], v.ds[id], v.q, v.aob, v.made[id], v.sent[id])
  <2>1. Pend(w.q, w.aob, "reply", id) \in Nat
    BY <1>1, PendNat DEF Kinds
  <2>2. QED
    BY <1>1, <1>2, <1>3, <1>6, <2>1 DEF StreamOK
<1>10. Backing(w, v, id) /\ BackOK(id, v.ds[id], v.conn)
  BY <1>2, <1>3, <1>6 DEF Backing, BackOK
<1>11. Good(v, win, hs)
  BY <1>7, <1>8, <1>9, <1>10, QuietKeeps
<1>12. QED
  BY <1>6, <1>11 DEF Kept, Steady, v

\* The connection c becomes x when t has been read from it.
Reads(w, c, t, x) ==
  /\ Answered(w, c, t) = [w EXCEPT !.conn = [w.conn EXCEPT ![c] = x]]
  /\ x.st = w.conn[c].st /\ x.ds = w.conn[c].ds /\ x.on = w.conn[c].on
  /\ x.resp = CASE t.k = "hd" -> "body" [] t.k = "end" -> "none" [] t.k = "bad" -> "bad"
                [] OTHER -> w.conn[c].resp

LEMMA Answering ==
  ASSUME NEW w \in States, NEW c \in Conns, NEW t, t.k \in {"hd", "bd", "end", "bad"}
  PROVE  \E x \in ConnType(Ids) : Reads(w, c, t, x)
<1> DEFINE b == w.conn[c]
           r == CASE t.k = "hd" -> "body" [] t.k = "end" -> "none" [] t.k = "bad" -> "bad" [] OTHER -> b.resp
           n == IF t.k \in {"bd", "bad"} THEN b.got + 1 ELSE b.got
           x == [b EXCEPT !.resp = r, !.got = n]
<1>1. w.conn \in Backs
  BY DEF States
<1>2. b \in ConnType(Ids)
  BY <1>1 DEF Backs
<1>3. r \in {"none", "sent", "wait", "body", "bad"} /\ n \in Nat
  BY <1>2 DEF ConnType
<1>4. Answered(w, c, t) = [w EXCEPT !.conn = [w.conn EXCEPT ![c] = x]]
  <2> DEFINE k == [w.conn EXCEPT ![c].resp = r]
             l == [k EXCEPT ![c].got = n]
  <2>1. Answered(w, c, t) = [w EXCEPT !.conn = l]
    <3>1. Answered(w, c, t) = [w EXCEPT !.conn[c].resp = r,
                                        !.conn[c].got = IF t.k \in {"bd", "bad"} THEN @ + 1 ELSE @]
      BY DEF Answered
    <3> HIDE DEF r
    <3> DEFINE u == [w EXCEPT !.conn[c].resp = r]
    <3>2. u.conn = k /\ u = [w EXCEPT !.conn = k]
      BY DEF States
    <3>3. Answered(w, c, t) = [u EXCEPT !.conn[c].got = n]
      BY <3>1
    <3> HIDE DEF u, k
    <3>4. Answered(w, c, t) = [u EXCEPT !.conn = l]
      BY <3>2, <3>3
    <3> HIDE DEF l
    <3>5. QED
      BY <3>2, <3>4 DEF States
  <2> HIDE DEF r
  <2>2. k = [w.conn EXCEPT ![c] = [b EXCEPT !.resp = r]] /\ k[c] = [b EXCEPT !.resp = r] /\ k[c].got = b.got
    <3>1. k = [w.conn EXCEPT ![c] = [b EXCEPT !.resp = r]] /\ k[c] = [b EXCEPT !.resp = r]
      BY <1>1 DEF Backs
    <3> HIDE DEF k
    <3>2. QED
      BY <1>2, <3>1 DEF ConnType
  <2> HIDE DEF k
  <2>3. l = [k EXCEPT ![c] = [k[c] EXCEPT !.got = n]]
    BY <2>2
  <2>4. [k[c] EXCEPT !.got = n] = x
    BY <1>2, <2>2 DEF ConnType
  <2> HIDE DEF l, x, n
  <2>5. l = [w.conn EXCEPT ![c] = x]
    BY <1>1, <2>2, <2>3, <2>4 DEF Backs
  <2>6. QED
    BY <2>1, <2>5
<1> HIDE DEF r, n
<1>5. x \in ConnType(Ids) /\ x.st = b.st /\ x.ds = b.ds /\ x.on = b.on /\ x.resp = r
  BY <1>2, <1>3 DEF ConnType
<1> HIDE DEF x
<1>6. QED
  BY <1>4, <1>5 DEF Reads, r

LEMMA DeleteConnIs ==
  ASSUME NEW w, NEW c, NEW id, w.conn[c].st = "busy", w.conn[c].ds = id, w.ds[id] # NullObj
  PROVE  DeleteConn(w, c) = [w EXCEPT !.conn[c] = NewConn, !.ds = [w.ds EXCEPT ![id].dconn = NoConn]]
  BY DEF DeleteConn

\* What a handler of the backend connection of stream id finds.
LEMMA BackendIs ==
  ASSUME NEW w, NEW win, NEW hs, Good(w, win, hs), NEW id \in Ids, w.ds[id] # NullObj, w.ds[id].dconn # NoConn
  PROVE  /\ w \in States /\ w.ds[id] \in DownstreamType /\ w.ds[id].dconn \in Conns /\ w.conn \in Backs
         /\ w.conn[w.ds[id].dconn] \in ConnType(Ids) /\ w.conn[w.ds[id].dconn].st = "busy"
         /\ w.conn[w.ds[id].dconn].ds = id /\ Served(w.ds[id], w.conn[w.ds[id].dconn])
<1>1. w \in States /\ BackOK(id, w.ds[id], w.conn)
  BY GoodParts
<1>2. w.ds[id] \in DownstreamType /\ w.conn \in Backs
  BY <1>1, StateParts
<1>3. w.ds[id].dconn \in Conns
  BY <1>2 DEF DownstreamType
<1>4. QED
  BY <1>1, <1>2, <1>3 DEF BackOK, Backs

\* on_downstream_header_complete
LEMMA HeadKeeps ==
  ASSUME NEW w, NEW win, NEW hs, win \in [Ids -> Nat], Good(w, win, hs), NEW id \in Ids, w.ds[id] # NullObj,
         w.ds[id].dconn # NoConn, NEW t, t.k = "hd", t.close \in BOOLEAN, w.ds[id].res = "INITIAL"
  PROVE  LET v == SpdyParse(Answered(w, w.ds[id].dconn, t), id, t) IN Good(v, win, hs) /\ Steady(w, v)
<1> DEFINE d == w.ds[id]
           c == d.dconn
           a == Answered(w, c, t)
           i == Item("reply", id, 0)
           e == [d EXCEPT !.res = "HEADER_COMPLETE", !.res_close = t.close, !.tunnel = d.connect]
           v == SpdyParse(a, id, t)
<1>1. /\ w.abort = "none" /\ Queue(w.q, w.aob)
      /\ StreamOK(id, w.str[id], w.ds[id], w.q, w.aob, w.made[id], w.sent[id])
  BY GoodParts
<1>2. /\ w \in States /\ d \in DownstreamType /\ c \in Conns /\ w.conn \in Backs /\ w.conn[c].st = "busy"
      /\ w.conn[c].ds = id /\ Served(d, w.conn[c])
  BY BackendIs
<1>a. PICK x \in ConnType(Ids) : Reads(w, c, t, x)
  BY <1>2, Answering
<1>3. /\ a = [w EXCEPT !.conn = [w.conn EXCEPT ![c] = x]]
      /\ x.st = w.conn[c].st /\ x.ds = w.conn[c].ds /\ x.on = w.conn[c].on /\ x.resp = "body"
  BY <1>a DEF Reads
<1> DEFINE k == [w.conn EXCEPT ![c] = x]
<1>4. k \in Backs /\ k[c] = x /\ \A o \in Conns : o # c => k[o] = w.conn[o]
  BY <1>2 DEF Backs
<1>5. /\ e \in DownstreamType /\ e # NullObj /\ e.window = d.window /\ e.dconn = c /\ e.res = "HEADER_COMPLETE"
      /\ e.body = d.body /\ e.rd = d.rd
  <2>1. e \in DownstreamType
    BY <1>2 DEF DownstreamType, ResponseStates
  <2>2. QED
    BY <1>2, <2>1, NullNotDownstream DEF DownstreamType
<1>6. i \in Items /\ i.k = "reply" /\ i.id = id
  BY ItemIs, WindowIs
<1>7. v = [w EXCEPT !.ds[id] = e, !.conn = k, !.q = Append(w.q, i)]
  <2>1. v = [ResponseFields(a, id, t) EXCEPT !.ds[id].tunnel = a.ds[id].connect, !.q = Append(@, i)]
    BY DEF SpdyParse
  <2> HIDE DEF a, k, v, i
  <2>2. a.ds = w.ds /\ a.q = w.q
    BY <1>2, <1>3 DEF States
  <2>3. e = [[d EXCEPT !.res = "HEADER_COMPLETE", !.res_close = t.close] EXCEPT !.tunnel = d.connect]
    BY <1>2 DEF DownstreamType
  <2>4. v = [[a EXCEPT !.ds[id].res = "HEADER_COMPLETE", !.ds[id].res_close = t.close]
               EXCEPT !.ds[id].tunnel = d.connect, !.q = Append(@, i)]
    BY <2>1, <2>2 DEF ResponseFields
  <2> DEFINE f == [d EXCEPT !.res = "HEADER_COMPLETE", !.res_close = t.close]
             y == [w.ds EXCEPT ![id] = f]
             z == [y EXCEPT ![id].tunnel = d.connect]
  <2>5. v = [a EXCEPT !.ds = z, !.q = Append(w.q, i)]
    <3>1. [[w.ds EXCEPT ![id].res = "HEADER_COMPLETE"] EXCEPT ![id].res_close = t.close] = y
      BY <1>2 DEF States
    <3>2. [a EXCEPT !.ds[id].res = "HEADER_COMPLETE", !.ds[id].res_close = t.close] = [a EXCEPT !.ds = y]
      BY <2>2, <3>1
    <3> HIDE DEF y, z
    <3>3. v = [[a EXCEPT !.ds = y] EXCEPT !.ds[id].tunnel = d.connect, !.q = Append(@, i)]
      BY <2>4, <3>2
    <3>4. QED
      BY <1>2, <1>3, <2>2, <3>3 DEF States, z
  <2>6. z = [w.ds EXCEPT ![id] = e]
    BY <1>2, <2>3 DEF States
  <2> HIDE DEF z
  <2>7. QED
    BY <1>2, <1>3, <2>5, <2>6 DEF States, k
<1> HIDE DEF k, e, i, v, a
<1>8. w.q \in Seq(Items) /\ w.aob \in Items
  BY <1>2, StateParts
<1>9. Append(w.q, i) \in Seq(Items) /\ Queue(Append(w.q, i), w.aob)
  BY <1>1, <1>6, <1>8, QueueAppend
<1>10. v \in States
  BY <1>2, <1>4, <1>5, <1>7, <1>9 DEF States, Downs
<1>11. /\ Kept(w, v) /\ v.q = Append(w.q, i) /\ v.aob = w.aob /\ v.str = w.str /\ v.made = w.made /\ v.sent = w.sent
      /\ v.conn = k /\ v.ds[id] = e /\ \A j \in Ids : j # id => v.ds[j] = w.ds[j]
  BY <1>2, <1>7 DEF States, Kept
<1>12. /\ Requeued(w, v, id) /\ Granted(v.q, v.aob, id) = Granted(w.q, w.aob, id)
       /\ \A o \in Kinds : Pend(v.q, v.aob, o, id) = Pend(w.q, w.aob, o, id) + (IF o = "reply" THEN 1 ELSE 0)
  <2>1. Amount(i, id) = 0 /\ \A o \in Kinds : Is(i, o, id) = IF o = "reply" THEN 1 ELSE 0
    BY <1>6 DEF Amount, Is, Kinds
  <2>2. /\ Requeued(w, v, id) /\ Granted(v.q, v.aob, id) = Granted(w.q, w.aob, id) + Amount(i, id)
        /\ \A o \in Kinds : Pend(v.q, v.aob, o, id) = Pend(w.q, w.aob, o, id) + Is(i, o, id)
    BY <1>2, <1>6, <1>11, AppendRequeues
  <2>3. Granted(w.q, w.aob, id) \in Nat
    BY <1>2, PendNat
  <2>4. QED
    BY <2>1, <2>2, <2>3
<1>13. Frame(w, v, id)
  BY <1>1, <1>9, <1>10, <1>11, <1>12 DEF Frame, Others, Kept
<1>14. Owing(w, v, id) /\ Phased(w.str[id], v.str[id])
  <2>1. Owed(v, id) = Owed(w, id)
    BY <1>5, <1>11, <1>12 DEF Owed, Kept
  <2>2. Counted(v, id) <=> Counted(w, id)
    <3>1. Pend(w.q, w.aob, "rst", id) \in Nat
      BY <1>2, PendNat DEF Kinds
    <3>2. Pend(v.q, v.aob, "rst", id) = Pend(w.q, w.aob, "rst", id)
      BY <1>12, <3>1 DEF Kinds
    <3>3. QED
      BY <1>11, <3>2 DEF Counted
  <2>3. QED
    BY <1>2, <1>11, <2>1, <2>2, OwedNat DEF Owing, Phased
<1>15. StreamOK(id, v.str[id], v.ds[id], v.q, v.aob, v.made[id], v.sent[id])
  <2>1. \A o \in Kinds : Pend(w.q, w.aob, o, id) \in Nat
    BY <1>2, PendNat
  <2>2. /\ Pend(v.q, v.aob, "reply", id) = Pend(w.q, w.aob, "reply", id) + 1
        /\ Pend(v.q, v.aob, "fin", id) = Pend(w.q, w.aob, "fin", id)
        /\ Pend(v.q, v.aob, "data", id) = Pend(w.q, w.aob, "data", id)
        /\ Pend(v.q, v.aob, "rst", id) = Pend(w.q, w.aob, "rst", id) /\ Pend(w.q, w.aob, "reply", id) \in Nat
    BY <1>12, <2>1 DEF Kinds
  <2>3. w.str[id].st \in {"OPENING", "CLOSING"} /\ w.made[id] = w.sent[id] + d.body + Is(w.aob, "data", id)
    BY <1>1 DEF StreamOK
  <2>4. w.str[id].st = "OPENING" =>
          /\ ~w.str[id].lfin /\ ~w.str[id].deferred /\ Pend(v.q, v.aob, "data", id) = 0
          /\ Pend(v.q, v.aob, "fin", id) = 0 /\ Pend(v.q, v.aob, "reply", id) = 1
    BY <1>1, <2>2 DEF StreamOK
  <2>5. w.str[id].st = "CLOSING" =>
          /\ ~w.str[id].lfin /\ ~w.str[id].deferred /\ Pend(v.q, v.aob, "data", id) = 0
          /\ Pend(v.q, v.aob, "fin", id) = 0 /\ Pend(v.q, v.aob, "reply", id) = 1 /\ Pend(v.q, v.aob, "rst", id) > 0
    BY <1>1, <2>2 DEF StreamOK
  <2>6. QED
    BY <1>5, <1>11, <2>3, <2>4, <2>5 DEF StreamOK
<1>16. BackOK(id, v.ds[id], v.conn)
  BY <1>2, <1>3, <1>4, <1>5, <1>11 DEF BackOK, Served
<1>17. Backing(w, v, id)
  BY <1>2, <1>3, <1>4, <1>5, <1>11 DEF Backing
<1>18. Good(v, win, hs)
  BY <1>13, <1>14, <1>15, <1>16, <1>17, QuietKeeps
<1>19. QED
  BY <1>11, <1>18 DEF Kept, Steady, v, a

\* on_downstream_body
LEMMA BodyKeeps ==
  ASSUME NEW w, NEW win, NEW hs, win \in [Ids -> Nat], Good(w, win, hs), NEW id \in Ids, w.ds[id] # NullObj,
         w.ds[id].dconn # NoConn, NEW t, t.k = "bd", w.ds[id].res = "HEADER_COMPLETE", w.ds[id].rd = {}
  PROVE  LET v == SpdyParse(Answered(w, w.ds[id].dconn, t), id, t) IN Good(v, win, hs) /\ Steady(w, v)
<1> DEFINE d == w.ds[id]
           c == d.dconn
           a == Answered(w, c, t)
           m == w.made[id] + 1
           full == d.body + 1 > SpdyThres
           e == [d EXCEPT !.body = d.body + 1, !.rd = IF full THEN {"NO_BUFFER"} ELSE {}]
           v == SpdyParse(a, id, t)
<1>1. StreamOK(id, w.str[id], w.ds[id], w.q, w.aob, w.made[id], w.sent[id])
  BY GoodParts
<1>2. /\ w \in States /\ d \in DownstreamType /\ c \in Conns /\ w.conn \in Backs /\ w.conn[c].st = "busy"
      /\ w.conn[c].ds = id /\ Served(d, w.conn[c]) /\ c # NoConn
  BY BackendIs
<1>a. PICK x \in ConnType(Ids) : Reads(w, c, t, x)
  BY <1>2, Answering
<1>3. /\ a = [w EXCEPT !.conn = [w.conn EXCEPT ![c] = x]]
      /\ x.st = w.conn[c].st /\ x.ds = w.conn[c].ds /\ x.on = w.conn[c].on /\ x.resp = w.conn[c].resp
  BY <1>a DEF Reads
<1> DEFINE y == IF full THEN [x EXCEPT !.on = FALSE] ELSE x
           k == [w.conn EXCEPT ![c] = y]
<1>4. /\ y \in ConnType(Ids) /\ y.st = w.conn[c].st /\ y.ds = w.conn[c].ds /\ y.resp = w.conn[c].resp
      /\ y.on = IF full THEN FALSE ELSE w.conn[c].on
  <2> HIDE DEF full, a
  <2>1. /\ [x EXCEPT !.on = FALSE] \in ConnType(Ids) /\ [x EXCEPT !.on = FALSE].st = x.st
        /\ [x EXCEPT !.on = FALSE].ds = x.ds /\ [x EXCEPT !.on = FALSE].resp = x.resp
        /\ [x EXCEPT !.on = FALSE].on = FALSE
    BY DEF ConnType
  <2>2. QED
    BY <1>3, <2>1
<1>5. d.body \in Nat /\ d.body + 1 \in Nat /\ w.made[id] \in Nat /\ w.sent[id] \in Nat /\ m \in Nat
  <2>1. w.made[id] \in Nat /\ w.sent[id] \in Nat
    BY <1>2, StateParts
  <2>2. d.body \in Nat
    BY <1>2 DEF DownstreamType
  <2> HIDE DEF d
  <2>3. QED
    BY <2>1, <2>2
<1>6. /\ e \in DownstreamType /\ e # NullObj /\ e.window = d.window /\ e.dconn = c /\ e.res = d.res
      /\ e.body = d.body + 1 /\ e.rd = IF full THEN {"NO_BUFFER"} ELSE {}
  <2>1. (IF full THEN {"NO_BUFFER"} ELSE {}) \in SUBSET Reasons
    BY DEF Reasons
  <2>2. e \in DownstreamType
    BY <1>2, <1>5, <2>1 DEF DownstreamType
  <2>3. QED
    BY <1>2, <2>2, NullNotDownstream DEF DownstreamType
<1> HIDE DEF y
<1>7. k \in Backs /\ k[c] = y /\ \A o \in Conns : o # c => k[o] = w.conn[o]
  BY <1>2, <1>4 DEF Backs
<1>8. v = Refill(w, id, e, k, m)
  <2> DEFINE z == [a EXCEPT !.ds[id].body = @ + 1, !.made[id] = @ + 1]
             r == ResumeData(z, id)
             f == [d EXCEPT !.body = d.body + 1]
             j == Item("data", id, 0)
             s == [w.str EXCEPT ![id].deferred = FALSE]
  <2>1. v = IF r.ds[id].body > SpdyThres THEN PauseRead(r, id, "NO_BUFFER") ELSE r
    BY DEF SpdyParse
  <2>2. a.ds = w.ds /\ a.made = w.made /\ a.str = w.str /\ a.q = w.q
    <3> HIDE DEF a
    <3> QED
      BY <1>2, <1>3 DEF States
  <2>3. z = [w EXCEPT !.ds[id] = f, !.made[id] = m, !.conn = [w.conn EXCEPT ![c] = x]]
    <3> HIDE DEF a
    <3> QED
      BY <1>2, <1>3, <2>2 DEF States
  <2>4. f.body = d.body + 1 /\ f.dconn = c /\ f.rd = {}
    BY <1>2 DEF DownstreamType
  <2> HIDE DEF a, v, z, f, j, s
  <2>5. z.str = w.str /\ z.q = w.q /\ z.ds = [w.ds EXCEPT ![id] = f] /\ z.ds[id] = f
    BY <1>2, <2>3 DEF States
  <2>6. r = IF w.str[id].deferred THEN [z EXCEPT !.q = Append(w.q, j), !.str = s] ELSE z
    BY <1>2, <2>5 DEF ResumeData, j, s
  <2> HIDE DEF r
  <2>7. r.ds[id] = f /\ r.conn = [w.conn EXCEPT ![c] = x] /\ r.ds = [w.ds EXCEPT ![id] = f]
    BY <1>2, <2>3, <2>5, <2>6 DEF States
  <2> DEFINE g == [w EXCEPT !.ds[id] = e, !.conn = k, !.made[id] = m]
  <2>8. Refill(w, id, e, k, m) = IF w.str[id].deferred THEN [g EXCEPT !.q = Append(w.q, j), !.str = s] ELSE g
    <3>1. g.str = w.str /\ g.q = w.q
      BY <1>2 DEF States
    <3> HIDE DEF g
    <3>2. QED
      BY <1>2, <3>1 DEF Refill, ResumeData, j, s, g
  <2>9. CASE ~full
    <3>1. v = r /\ k = [w.conn EXCEPT ![c] = x]
      BY <2>1, <2>4, <2>7, <2>9 DEF y
    <3>2. e = f
      BY <1>2, <2>9 DEF DownstreamType, f
    <3> HIDE DEF k, e, full
    <3>3. z = g
      BY <2>3, <3>1, <3>2 DEF States
    <3> HIDE DEF g
    <3>4. QED
      BY <2>6, <2>8, <3>1, <3>3
  <2>10. CASE full
    <3>1. v = PauseRead(r, id, "NO_BUFFER")
      BY <2>1, <2>4, <2>7, <2>10
    <3>2. v = [r EXCEPT !.ds[id].rd = {"NO_BUFFER"}, !.conn = [r.conn EXCEPT ![c].on = FALSE]]
      BY <1>2, <2>4, <2>7, <3>1 DEF PauseRead
    <3>3. [r.conn EXCEPT ![c].on = FALSE] = k
      BY <1>2, <2>7, <2>10 DEF Backs, y
    <3>4. e = [f EXCEPT !.rd = {"NO_BUFFER"}]
      BY <1>2, <2>10 DEF DownstreamType, f
    <3> HIDE DEF k, e, full
    <3> DEFINE Y == [w.ds EXCEPT ![id] = e]
               M == [w.made EXCEPT ![id] = m]
    <3>5. [r.ds EXCEPT ![id].rd = {"NO_BUFFER"}] = Y
      BY <1>2, <2>7, <3>4 DEF States
    <3>6. v = [r EXCEPT !.ds = Y, !.conn = k]
      BY <3>2, <3>3, <3>5
    <3> HIDE DEF Y, M
    <3>7. g = [w EXCEPT !.ds = Y, !.conn = k, !.made = M]
      BY DEF Y, M
    <3>8. z = [w EXCEPT !.ds = [w.ds EXCEPT ![id] = f], !.made = M, !.conn = [w.conn EXCEPT ![c] = x]]
      BY <2>3 DEF M
    <3> HIDE DEF g
    <3>9. CASE w.str[id].deferred
      <4>1. r = [z EXCEPT !.q = Append(w.q, j), !.str = s]
        BY <2>6, <3>9
      <4>2. v = [w EXCEPT !.ds = Y, !.conn = k, !.made = M, !.q = Append(w.q, j), !.str = s]
        BY <1>2, <3>6, <3>8, <4>1 DEF States
      <4>3. Refill(w, id, e, k, m) = [w EXCEPT !.ds = Y, !.conn = k, !.made = M, !.q = Append(w.q, j), !.str = s]
        BY <1>2, <2>8, <3>7, <3>9 DEF States
      <4>4. QED
        BY <4>2, <4>3
    <3>10. CASE ~w.str[id].deferred
      <4>1. r = z
        BY <2>6, <3>10
      <4>2. v = [w EXCEPT !.ds = Y, !.conn = k, !.made = M]
        BY <1>2, <3>6, <3>8, <4>1 DEF States
      <4>3. QED
        BY <2>8, <3>7, <3>10, <4>2
    <3>11. QED
      BY <3>9, <3>10
  <2>11. QED
    BY <2>9, <2>10
<1> HIDE DEF k, e, v, a
<1>9. BackOK(id, e, k)
  <2>1. e.body > 0
    BY <1>5, <1>6
  <2>2. e.rd \subseteq {"NO_BUFFER"} /\ (e.rd = {} <=> ~full)
    BY <1>6
  <2>3. y.on <=> ~full
    BY <1>2, <1>4 DEF Served
  <2> HIDE DEF full
  <2>4. Served(e, y)
    BY <1>2, <1>4, <1>6, <2>1, <2>2, <2>3 DEF Served
  <2>5. QED
    BY <1>2, <1>4, <1>6, <1>7, <2>4 DEF BackOK
<1>10. m = w.sent[id] + e.body + Is(w.aob, "data", id)
  <2>1. w.made[id] = w.sent[id] + d.body + Is(w.aob, "data", id) /\ Is(w.aob, "data", id) \in Nat
    BY <1>1 DEF StreamOK, Is
  <2>2. QED
    BY <1>5, <1>6, <2>1
<1>11. \A o \in Conns : k[o].st = w.conn[o].st /\ k[o].ds = w.conn[o].ds /\ (k[o] = w.conn[o] \/ o = c)
  BY <1>4, <1>7
<1>12. e.res # "INITIAL" /\ m \in Nat
  BY <1>5, <1>6
<1> HIDE DEF m
<1>13. Good(v, win, hs) /\ Steady(w, v)
  BY <1>6, <1>7, <1>8, <1>9, <1>10, <1>11, <1>12, RefillKeeps
<1>14. QED
  BY <1>13 DEF v, a

\* on_downstream_body_complete
LEMMA EndKeeps ==
  ASSUME NEW w, NEW win, NEW hs, win \in [Ids -> Nat], Good(w, win, hs), NEW id \in Ids, w.ds[id] # NullObj,
         w.ds[id].dconn # NoConn, NEW t, t.k = "end", w.ds[id].res = "HEADER_COMPLETE"
  PROVE  LET v == SpdyParse(Answered(w, w.ds[id].dconn, t), id, t) IN Good(v, win, hs) /\ Steady(w, v)
<1> DEFINE d == w.ds[id]
           c == d.dconn
           a == Answered(w, c, t)
           m == w.made[id]
           e == [d EXCEPT !.res = "MSG_COMPLETE"]
           v == SpdyParse(a, id, t)
<1>1. StreamOK(id, w.str[id], w.ds[id], w.q, w.aob, w.made[id], w.sent[id])
  BY GoodParts
<1>2. /\ w \in States /\ d \in DownstreamType /\ c \in Conns /\ w.conn \in Backs /\ w.conn[c].st = "busy"
      /\ w.conn[c].ds = id /\ Served(d, w.conn[c]) /\ c # NoConn
  BY BackendIs
<1>a. PICK x \in ConnType(Ids) : Reads(w, c, t, x)
  BY <1>2, Answering
<1>3. /\ a = [w EXCEPT !.conn = [w.conn EXCEPT ![c] = x]]
      /\ x.st = w.conn[c].st /\ x.ds = w.conn[c].ds /\ x.on = w.conn[c].on /\ x.resp = "none"
  BY <1>a DEF Reads
<1> DEFINE k == [w.conn EXCEPT ![c] = x]
<1>4. k \in Backs /\ k[c] = x /\ \A o \in Conns : o # c => k[o] = w.conn[o]
  BY <1>2 DEF Backs
<1>5. /\ e \in DownstreamType /\ e # NullObj /\ e.window = d.window /\ e.dconn = c /\ e.res = "MSG_COMPLETE"
      /\ e.body = d.body /\ e.rd = d.rd
  <2>1. e \in DownstreamType
    BY <1>2 DEF DownstreamType, ResponseStates
  <2>2. QED
    BY <1>2, <2>1, NullNotDownstream DEF DownstreamType
<1>6. v = Refill(w, id, e, k, m)
  <2>1. v = ResumeData([a EXCEPT !.ds[id].res = "MSG_COMPLETE"], id)
    BY DEF SpdyParse
  <2> HIDE DEF a, k, v
  <2>2. a = [w EXCEPT !.conn = k]
    BY <1>3 DEF k
  <2>3. [a EXCEPT !.ds[id].res = "MSG_COMPLETE"] = [w EXCEPT !.ds[id] = e, !.conn = k, !.made[id] = m]
    BY <1>2, <2>2 DEF States
  <2>4. QED
    BY <2>1, <2>3 DEF Refill
<1>7. m \in Nat /\ m = w.sent[id] + e.body + Is(w.aob, "data", id)
  BY <1>1, <1>2, <1>5, StateParts DEF StreamOK
<1> HIDE DEF k, e, v, a, m
<1>8. BackOK(id, e, k)
  BY <1>2, <1>3, <1>4, <1>5 DEF BackOK, Served
<1>9. \A o \in Conns : k[o].st = w.conn[o].st /\ k[o].ds = w.conn[o].ds /\ (k[o] = w.conn[o] \/ o = c)
  BY <1>3, <1>4
<1>10. e.res # "INITIAL"
  BY <1>5
<1>11. Good(v, win, hs) /\ Steady(w, v)
  BY <1>4, <1>5, <1>6, <1>7, <1>8, <1>9, <1>10, RefillKeeps
<1>12. QED
  BY <1>11 DEF v, a

\* w with five of its parts replaced.
Made(w, k, y, q, s, m) == [w EXCEPT !.conn = k, !.ds = y, !.q = q, !.str = s, !.made = m]
Put(w, k, id, e, q, s, m) == Made(w, k, [w.ds EXCEPT ![id] = e], q, s, m)
\* Connection c is x, or is deleted, and the Downstream of stream id is e.
With(w, id, c, x, e, q, s, m) == Put(w, [w.conn EXCEPT ![c] = x], id, e, q, s, m)
Without(w, id, c, e, q, s, m) ==
  Put(w, [w.conn EXCEPT ![c] = NewConn], id, [e EXCEPT !.dconn = NoConn], q, s, m)

\* ~DownstreamConnection for connection c, which has become x, of stream id, whose
\* Downstream has become e.
LEMMA DeleteMade ==
  ASSUME NEW w \in States, NEW id \in Ids, NEW c \in Conns, NEW x \in ConnType(Ids), x.st = "busy", x.ds = id,
         NEW e \in DownstreamType, NEW q, NEW s, NEW m
  PROVE  DeleteConn(With(w, id, c, x, e, q, s, m), c) = Without(w, id, c, e, q, s, m)
<1> DEFINE k == [w.conn EXCEPT ![c] = x]
           y == [w.ds EXCEPT ![id] = e]
           v == Made(w, k, y, q, s, m)
           l == [w.conn EXCEPT ![c] = NewConn]
           z == [w.ds EXCEPT ![id] = [e EXCEPT !.dconn = NoConn]]
           g == [e EXCEPT !.dconn = NoConn]
<1>1. w.conn \in Backs /\ w.ds \in [Ids -> Downs]
  BY DEF States
<1>2. k[c] = x /\ y[id] = e /\ e # NullObj
  BY <1>1, NullNotDownstream DEF Backs
<1>a. [k EXCEPT ![c] = NewConn] = l
  BY <1>1 DEF Backs
<1>3. [y EXCEPT ![id].dconn = NoConn] = z
  <2>1. [y EXCEPT ![id].dconn = NoConn] = [y EXCEPT ![id] = g]
    BY <1>2
  <2> HIDE DEF g
  <2>2. [y EXCEPT ![id] = g] = [w.ds EXCEPT ![id] = g]
    BY <1>1
  <2>3. QED
    BY <2>1, <2>2 DEF g
<1> HIDE DEF k, y, l, z, g
<1>4. v.conn = k /\ v.ds = y /\ [v EXCEPT !.conn = l, !.ds = z] = Made(w, l, z, q, s, m)
  BY DEF Made, States
<1> HIDE DEF v
<1>b. v.conn[c].st = "busy" /\ v.conn[c].ds = id /\ v.ds[id] # NullObj
  BY <1>2, <1>4
<1>5. DeleteConn(v, c) = [v EXCEPT !.conn[c] = NewConn, !.ds = [v.ds EXCEPT ![id].dconn = NoConn]]
  BY <1>b DEF DeleteConn
<1>6. DeleteConn(v, c) = [v EXCEPT !.conn = l, !.ds = z]
  BY <1>3, <1>4, <1>5, <1>a
<1>7. QED
  BY <1>4, <1>6 DEF v, k, y, l, z, With, Without, Put

LEMMA DroppedIs ==
  ASSUME NEW w \in States, NEW id \in Ids
  PROVE  Dropped(w, id) = Without(w, id, w.ds[id].dconn, w.ds[id], w.q, w.str, w.made)
<1> DEFINE k == [w.conn EXCEPT ![w.ds[id].dconn] = NewConn]
           y == [w.ds EXCEPT ![id] = [w.ds[id] EXCEPT !.dconn = NoConn]]
<1>1. Dropped(w, id) = [w EXCEPT !.conn = k, !.ds = y]
  BY DEF Dropped
<1> HIDE DEF k, y
<1>2. [w EXCEPT !.conn = k, !.ds = y] = Made(w, k, y, w.q, w.str, w.made)
  BY DEF Made, States
<1>3. QED
  BY <1>1, <1>2 DEF k, y, Without, Put

\* ~DownstreamConnection when nothing else has changed.
LEMMA DeleteDrops ==
  ASSUME NEW w \in States, NEW id \in Ids, w.ds[id] \in DownstreamType, NEW c \in Conns, c = w.ds[id].dconn,
         NEW x \in ConnType(Ids), x.st = "busy", x.ds = id, NEW a, a = [w EXCEPT !.conn = [w.conn EXCEPT ![c] = x]]
  PROVE  DeleteConn(a, c) = Dropped(w, id)
<1> DEFINE k == [w.conn EXCEPT ![c] = x]
           y == [w.ds EXCEPT ![id] = w.ds[id]]
<1>1. y = w.ds
  BY DEF States
<1> HIDE DEF k
<1>2. [w EXCEPT !.conn = k] = Made(w, k, y, w.q, w.str, w.made)
  BY <1>1 DEF Made, States
<1> HIDE DEF y
<1>3. [w EXCEPT !.conn = k] = With(w, id, c, x, w.ds[id], w.q, w.str, w.made)
  BY <1>2 DEF With, Put, k, y
<1>4. DeleteConn(With(w, id, c, x, w.ds[id], w.q, w.str, w.made), c)
        = Without(w, id, c, w.ds[id], w.q, w.str, w.made)
  BY DeleteMade
<1>5. Dropped(w, id) = Without(w, id, c, w.ds[id], w.q, w.str, w.made)
  BY DroppedIs
<1>6. QED
  BY <1>3, <1>4, <1>5 DEF k

RstStr(w, id) == [w.str EXCEPT ![id].st = IF Active(w, id) THEN "CLOSING" ELSE w.str[id].st]

LEMMA RstMade ==
  ASSUME NEW w \in States, NEW id \in Ids, NEW k, NEW e, NEW m
  PROVE  RstStream(Put(w, k, id, e, w.q, w.str, m), id)
           = Put(w, k, id, e, Append(w.q, Item("rst", id, 0)), RstStr(w, id), m)
<1> DEFINE y == [w.ds EXCEPT ![id] = e]
<1> HIDE DEF y
<1> DEFINE v == Made(w, k, y, w.q, w.str, m)
           r == Item("rst", id, 0)
           Q == Append(w.q, r)
           S == RstStr(w, id)
<1> HIDE DEF r
<1>1. v.q = w.q /\ v.str = w.str
  BY DEF Made, States
<1>2. RstStream(v, id) = [v EXCEPT !.q = Append(v.q, r),
                                   !.str[id].st = IF Active(v, id) THEN "CLOSING" ELSE v.str[id].st]
  BY DEF RstStream, r
<1>3. Active(v, id) = Active(w, id)
  BY <1>1 DEF Active
<1> HIDE DEF v
<1>4. RstStream(v, id) = [v EXCEPT !.q = Q, !.str = S]
  BY <1>1, <1>2, <1>3 DEF RstStr
<1> HIDE DEF Q, S
<1>5. [v EXCEPT !.q = Q, !.str = S] = Made(w, k, y, Q, S, m)
  BY DEF Made, States, v
<1>6. QED
  BY <1>4, <1>5 DEF v, Q, S, r, y, Put

Finish(v, id) == [v EXCEPT !.ds[id].res = "MSG_COMPLETE"]
Finished(e) == [e EXCEPT !.res = "MSG_COMPLETE"]

LEMMA FinishMade ==
  ASSUME NEW w \in States, NEW id \in Ids, NEW k, NEW e \in DownstreamType, NEW q, NEW s, NEW m
  PROVE  Finish(Put(w, k, id, e, q, s, m), id) = Put(w, k, id, Finished(e), q, s, m)
<1> DEFINE y == [w.ds EXCEPT ![id] = e]
           f == [e EXCEPT !.res = "MSG_COMPLETE"]
           z == [w.ds EXCEPT ![id] = f]
           v == Made(w, k, y, q, s, m)
<1>1. y[id] = e /\ w.ds \in [Ids -> Downs]
  BY DEF States
<1>2. [y EXCEPT ![id].res = "MSG_COMPLETE"] = z
  <2>1. [y EXCEPT ![id].res = "MSG_COMPLETE"] = [y EXCEPT ![id] = f]
    BY <1>1
  <2> HIDE DEF f
  <2>2. QED
    BY <1>1, <2>1
<1> HIDE DEF y, z
<1>3. v.ds = y /\ [v EXCEPT !.ds = z] = Made(w, k, z, q, s, m)
  BY DEF Made, States
<1> HIDE DEF v
<1>4. [v EXCEPT !.ds[id].res = "MSG_COMPLETE"] = [v EXCEPT !.ds = z]
  BY <1>2, <1>3
<1>5. QED
  BY <1>3, <1>4 DEF v, y, z, Put, Finish, Finished

Errored(e) == [e EXCEPT !.body = e.body + 1, !.res = "MSG_COMPLETE"]

LEMMA ErrorMade ==
  ASSUME NEW w \in States, NEW id \in Ids, NEW k, NEW e \in DownstreamType
  PROVE  SpdyErrorReply(Put(w, k, id, e, w.q, w.str, w.made), id)
           = Put(w, k, id, Errored(e), Append(w.q, Item("reply", id, 0)), w.str,
                 [w.made EXCEPT ![id] = w.made[id] + 1])
<1> DEFINE y == [w.ds EXCEPT ![id] = e]
           f == Errored(e)
           z == [w.ds EXCEPT ![id] = f]
           v == Made(w, k, y, w.q, w.str, w.made)
           r == Item("reply", id, 0)
           Q == Append(w.q, r)
           M == [w.made EXCEPT ![id] = w.made[id] + 1]
<1> HIDE DEF r
<1>1. y[id] = e /\ w.ds \in [Ids -> Downs] /\ DOMAIN y = Ids
  BY DEF States
<1>2. [y EXCEPT ![id].body = y[id].body + 1, ![id].res = "MSG_COMPLETE"] = z
  <2>1. f = [[e EXCEPT !.body = e.body + 1] EXCEPT !.res = "MSG_COMPLETE"]
    BY DEF Errored
  <2>2. [y EXCEPT ![id].body = y[id].body + 1, ![id].res = "MSG_COMPLETE"] = [y EXCEPT ![id] = f]
    BY <1>1, <2>1
  <2> HIDE DEF f
  <2>3. QED
    BY <1>1, <2>2
<1> HIDE DEF y, z
<1>3. v.ds = y /\ v.q = w.q /\ v.made = w.made
  BY DEF Made, States
<1> HIDE DEF v, Q, M
<1>4. SpdyErrorReply(v, id) = [v EXCEPT !.ds = z, !.made = M, !.q = Q]
  <2>1. SpdyErrorReply(v, id) = [v EXCEPT !.ds[id].body = v.ds[id].body + 1, !.made[id] = v.made[id] + 1,
                                          !.ds[id].res = "MSG_COMPLETE", !.q = Append(v.q, r)]
    BY DEF SpdyErrorReply, r
  <2>2. SpdyErrorReply(v, id) = [v EXCEPT !.ds = [y EXCEPT ![id].body = y[id].body + 1, ![id].res = "MSG_COMPLETE"],
                                          !.made = [w.made EXCEPT ![id] = w.made[id] + 1], !.q = Append(w.q, r)]
    BY <1>3, <2>1
  <2>3. QED
    BY <1>2, <2>2 DEF Q, M
<1>5. [v EXCEPT !.ds = z, !.made = M, !.q = Q] = Made(w, k, z, Q, w.str, M)
  BY DEF Made, States, v
<1>6. QED
  BY <1>4, <1>5 DEF v, y, z, Q, M, r, Put

LEMMA RstCloses ==
  ASSUME NEW w, NEW win, NEW hs, Good(w, win, hs), NEW id \in Ids, w.ds[id] # NullObj
  PROVE  RstStream(w, id).str[id].st = "CLOSING" /\ RstStream(w, id).ds[id] = w.ds[id]
<1> DEFINE r == RstStream(w, id)
           s == [w.str[id] EXCEPT !.st = IF Active(w, id) THEN "CLOSING" ELSE @]
<1>1. w \in States /\ (Exists(w, id) <=> Active(w, id))
  BY GoodParts
<1>2. Sets(w, r, id, w.ds[id], s, w.conn, Append(w.q, Item("rst", id, 0)), w.aob, w.made[id], w.sent[id])
  BY <1>1, RstStreamSets
<1>3. w.str[id] \in Strs
  BY <1>1, StateParts
<1>4. r.ds[id] = w.ds[id] /\ r.str[id] = s
  BY <1>2 DEF Sets
<1>5. s.st = "CLOSING"
  BY <1>1, <1>3 DEF Strs, Exists
<1>6. QED
  BY <1>4, <1>5

\* spdy_downstream_readcb when the response does not parse.
LEMMA BadKeeps ==
  ASSUME NEW w, NEW win, NEW hs, win \in [Ids -> Nat], Good(w, win, hs), NEW id \in Ids, w.ds[id] # NullObj,
         w.ds[id].dconn # NoConn, NEW t, t.k = "bad", w.ds[id].res # "MSG_COMPLETE"
  PROVE  \E v : /\ Good(v, win, hs) /\ Steady(w, v)
                /\ SpdyDownstreamRead(Answered(w, w.ds[id].dconn, t), id, t) = Send(v)
<1> DEFINE d == w.ds[id]
           c == d.dconn
           a == Answered(w, c, t)
           p == Dropped(w, id)
           e == [d EXCEPT !.dconn = NoConn]
           f == Finished(d)
           L == [w.conn EXCEPT ![c] = NewConn]
<1>1. /\ w \in States /\ d \in DownstreamType /\ c \in Conns /\ w.conn \in Backs /\ w.conn[c].st = "busy"
      /\ w.conn[c].ds = id
  BY BackendIs
<1>2. PICK x \in ConnType(Ids) : Reads(w, c, t, x)
  BY <1>1, Answering
<1> DEFINE K == [w.conn EXCEPT ![c] = x]
           b == IF d.res = "HEADER_COMPLETE" THEN RstStream(a, id) ELSE SpdyErrorReply(a, id)
           g == Finish(b, id)
<1>3. a = [w EXCEPT !.conn = K] /\ x.st = "busy" /\ x.ds = id
  BY <1>1, <1>2 DEF Reads
<1>4. a = Put(w, K, id, d, w.q, w.str, w.made) /\ a.ds = w.ds
  <2> HIDE DEF a, K
  <2>1. a = Put(w, K, id, d, w.q, w.str, w.made)
    <3>1. [w.ds EXCEPT ![id] = d] = w.ds
      BY <1>1 DEF States
    <3>2. QED
      BY <1>1, <1>3, <3>1 DEF Put, Made, States
  <2>2. QED
    BY <1>1, <1>3, <2>1 DEF States
<1> HIDE DEF a
<1>5. SpdyDownstreamRead(a, id, t) = Send(DeleteConn(g, c))
  BY <1>4 DEF SpdyDownstreamRead, Finish
<1>6. /\ Good(p, win, hs) /\ Steady(w, p) /\ p.ds[id] = e /\ e \in DownstreamType /\ p.str = w.str
      /\ p = Put(w, L, id, e, w.q, w.str, w.made)
  <2>1. Good(p, win, hs) /\ Steady(w, p) /\ p.ds[id] = e /\ p.ds[id] \in DownstreamType /\ p.str = w.str
    BY DroppedKeeps
  <2>2. p = Without(w, id, c, d, w.q, w.str, w.made)
    BY <1>1, DroppedIs
  <2>3. QED
    BY <2>1, <2>2 DEF Without
<1>7. f \in DownstreamType /\ e.dconn = NoConn /\ e.res = d.res /\ e # NullObj
  BY <1>1, <1>6, NullNotDownstream DEF DownstreamType, ResponseStates, Finished
<1> HIDE DEF p, L, K
<1>8. CASE d.res = "HEADER_COMPLETE"
  <2> DEFINE Q == Append(w.q, Item("rst", id, 0))
             S == RstStr(w, id)
             r == RstStream(p, id)
             v == Finish(r, id)
  <2>1. Finished(e) = [f EXCEPT !.dconn = NoConn]
    BY <1>1 DEF DownstreamType, Finished
  <2> HIDE DEF f, e
  <2>2. b = Put(w, K, id, d, Q, S, w.made)
    BY <1>1, <1>4, <1>8, RstMade
  <2> HIDE DEF b, Q, S
  <2>3. g = With(w, id, c, x, f, Q, S, w.made)
    BY <1>1, <2>2, FinishMade DEF With, f, K
  <2> HIDE DEF g
  <2>4. DeleteConn(g, c) = Without(w, id, c, f, Q, S, w.made)
    BY <1>1, <1>3, <1>7, <2>3, DeleteMade
  <2>5. r = Put(w, L, id, e, Q, S, w.made)
    BY <1>1, <1>6, RstMade DEF Q, S
  <2>6. v = Put(w, L, id, Finished(e), Q, S, w.made)
    BY <1>1, <1>6, <2>5, FinishMade
  <2>7. DeleteConn(g, c) = v
    BY <2>1, <2>4, <2>6 DEF Without, L
  <2>8. Good(r, win, hs) /\ Steady(p, r)
    <3>1. p.str[id].st # "none"
      BY <1>1, <1>6, GoodParts DEF StreamOK
    <3>2. QED
      BY <1>6, <3>1, RstKeeps
  <2>9. r.str[id].st = "CLOSING" /\ r.ds[id].dconn = NoConn
    BY <1>6, <1>7, RstCloses
  <2> HIDE DEF r
  <2>10. Good(v, win, hs) /\ Steady(r, v)
    BY <2>8, <2>9, SettleKeeps DEF Finish
  <2> HIDE DEF v
  <2>11. Steady(w, v)
    BY <1>6, <2>8, <2>10 DEF Steady
  <2>12. QED
    BY <1>5, <2>7, <2>10, <2>11 DEF a
<1>9. CASE d.res = "INITIAL"
  <2> DEFINE Q == Append(w.q, Item("reply", id, 0))
             M == [w.made EXCEPT ![id] = w.made[id] + 1]
             v == SpdyErrorReply(p, id)
  <2>1. b = Put(w, K, id, Errored(d), Q, w.str, M)
    BY <1>1, <1>4, <1>9, ErrorMade
  <2>2. Errored(d) \in DownstreamType /\ Finished(Errored(d)) = Errored(d)
    <3>1. d.body + 1 \in Nat
      BY <1>1 DEF DownstreamType
    <3>2. QED
      BY <1>1, <3>1 DEF DownstreamType, ResponseStates, Errored, Finished
  <2>3. [Errored(d) EXCEPT !.dconn = NoConn] = Errored(e)
    BY <1>1 DEF DownstreamType, Errored
  <2> HIDE DEF e, b, Q, M, d
  <2>4. g = With(w, id, c, x, Errored(d), Q, w.str, M)
    BY <1>1, <2>1, <2>2, FinishMade DEF With, K
  <2> HIDE DEF g
  <2>5. DeleteConn(g, c) = Without(w, id, c, Errored(d), Q, w.str, M)
    BY <1>1, <1>3, <2>2, <2>4, DeleteMade
  <2>6. v = Put(w, L, id, Errored(e), Q, w.str, M)
    BY <1>1, <1>6, ErrorMade, SMTT(30) DEF Q, M
  <2>7. DeleteConn(g, c) = v
    BY <2>3, <2>5, <2>6 DEF Without, L
  <2>8. Good(v, win, hs) /\ Steady(p, v)
    BY <1>6, <1>7, <1>9, ErrorReplyKeeps
  <2> HIDE DEF v
  <2>9. Steady(w, v)
    BY <1>6, <2>8 DEF Steady
  <2>10. QED
    BY <1>5, <2>7, <2>8, <2>9 DEF a, d
<1>10. d.res \in {"INITIAL", "HEADER_COMPLETE"}
  BY <1>1 DEF DownstreamType, ResponseStates
<1>11. QED
  BY <1>8, <1>9, <1>10

LEMMA AnswersAre ==
  ASSUME NEW w, NEW c, NEW t \in Answers(w, c)
  PROVE  \/ w.conn[c].resp = "wait" /\ t.k = "hd" /\ t.close \in BOOLEAN
         \/ w.conn[c].resp = "body" /\ t.k \in {"bd", "end"}
         \/ w.conn[c].resp \in {"wait", "body", "bad"} /\ t.k = "bad"
  BY DEF Answers

\* spdy_downstream_readcb
LEMMA DownstreamReadHeld ==
  ASSUME NEW w, NEW win, NEW hs, win \in [Ids -> Nat], Good(w, win, hs), w.up = "open", NEW id \in Ids,
         w.ds[id] # NullObj, w.ds[id].dconn # NoConn, Conn(w, id).on, NEW t \in Answers(w, w.ds[id].dconn)
  PROVE  Held(SpdyDownstreamRead(Answered(w, w.ds[id].dconn, t), id, t), win, hs)
<1> DEFINE d == w.ds[id]
           c == d.dconn
           a == Answered(w, c, t)
<1>1. d \in DownstreamType /\ Served(d, w.conn[c]) /\ Conn(w, id) = w.conn[c]
  BY BackendIs DEF Conn
<1>2. \/ w.conn[c].resp = "wait" /\ t.k = "hd" /\ t.close \in BOOLEAN
      \/ w.conn[c].resp = "body" /\ t.k \in {"bd", "end"}
      \/ w.conn[c].resp \in {"wait", "body", "bad"} /\ t.k = "bad"
  BY AnswersAre
<1>3. ASSUME t.k # "bad", NEW v, v = SpdyParse(a, id, t), Good(v, win, hs), Steady(w, v)
      PROVE  Held(SpdyDownstreamRead(a, id, t), win, hs)
  <2>1. SpdyDownstreamRead(a, id, t) = Send(v)
    BY <1>3 DEF SpdyDownstreamRead
  <2>2. v.up = "open"
    BY <1>3 DEF Steady
  <2>3. QED
    BY <1>3, <2>1, <2>2, SendHeld
<1>4. CASE w.conn[c].resp = "wait" /\ t.k = "hd" /\ t.close \in BOOLEAN
  <2>1. d.res = "INITIAL"
    BY <1>1, <1>4 DEF Served
  <2>2. Good(SpdyParse(a, id, t), win, hs) /\ Steady(w, SpdyParse(a, id, t))
    BY <1>4, <2>1, HeadKeeps
  <2>3. QED
    BY <1>3, <1>4, <2>2
<1>5. CASE w.conn[c].resp = "body" /\ t.k = "bd"
  <2>1. d.res = "HEADER_COMPLETE" /\ d.rd = {}
    BY <1>1, <1>5 DEF Served
  <2>2. Good(SpdyParse(a, id, t), win, hs) /\ Steady(w, SpdyParse(a, id, t))
    BY <1>5, <2>1, BodyKeeps
  <2>3. QED
    BY <1>3, <1>5, <2>2
<1>6. CASE w.conn[c].resp = "body" /\ t.k = "end"
  <2>1. d.res = "HEADER_COMPLETE"
    BY <1>1, <1>6 DEF Served
  <2>2. Good(SpdyParse(a, id, t), win, hs) /\ Steady(w, SpdyParse(a, id, t))
    BY <1>6, <2>1, EndKeeps
  <2>3. QED
    BY <1>3, <1>6, <2>2
<1>7. CASE w.conn[c].resp \in {"wait", "body", "bad"} /\ t.k = "bad"
  <2>1. d.res # "MSG_COMPLETE"
    BY <1>1, <1>7 DEF Served
  <2>2. PICK v : Good(v, win, hs) /\ Steady(w, v) /\ SpdyDownstreamRead(a, id, t) = Send(v)
    BY <1>7, <2>1, BadKeeps
  <2>3. v.up = "open"
    BY <2>2 DEF Steady
  <2>4. QED
    BY <2>2, <2>3, SendHeld
<1>8. QED
  BY <1>2, <1>4, <1>5, <1>6, <1>7

\* An event of a backend connection changes nothing of it that matters.
Stops(w, c, a, x) ==
  a = [w EXCEPT !.conn = [w.conn EXCEPT ![c] = x]] /\ x.st = w.conn[c].st /\ x.ds = w.conn[c].ds

LEMMA AfterEventIs ==
  ASSUME NEW w \in States, NEW c \in Conns, NEW side
  PROVE  \E x \in ConnType(Ids) : Stops(w, c, AfterEvent(w, c, side), x)
<1> DEFINE b == w.conn[c]
           x == IF side = "read" THEN [b EXCEPT !.on = FALSE] ELSE [b EXCEPT !.wr = FALSE]
<1>1. b \in ConnType(Ids)
  BY DEF States, Backs
<1>2. x \in ConnType(Ids) /\ x.st = b.st /\ x.ds = b.ds
  BY <1>1 DEF ConnType
<1>3. AfterEvent(w, c, side) = [w EXCEPT !.conn = [w.conn EXCEPT ![c] = x]]
  BY DEF AfterEvent
<1> HIDE DEF x
<1>4. QED
  BY <1>2, <1>3 DEF Stops

\* spdy_downstream_eventcb
LEMMA DownstreamEventHeld ==
  ASSUME NEW w, NEW win, NEW hs, win \in [Ids -> Nat], Good(w, win, hs), w.up = "open", NEW id \in Ids,
         w.ds[id] # NullObj, w.ds[id].dconn # NoConn, NEW side, NEW ev
  PROVE  Held(SpdyDownstreamEvent(AfterEvent(w, w.ds[id].dconn, side), id, ev), win, hs)
<1> DEFINE d == w.ds[id]
           c == d.dconn
           a == AfterEvent(w, c, side)
           p == Dropped(w, id)
           e == [d EXCEPT !.dconn = NoConn]
<1>1. /\ w \in States /\ d \in DownstreamType /\ c \in Conns /\ w.conn \in Backs /\ w.conn[c].st = "busy"
      /\ w.conn[c].ds = id
  BY BackendIs
<1>a. PICK x \in ConnType(Ids) : Stops(w, c, a, x)
  BY <1>1, AfterEventIs
<1>2. a = [w EXCEPT !.conn = [w.conn EXCEPT ![c] = x]] /\ x.st = w.conn[c].st /\ x.ds = w.conn[c].ds
  BY <1>a DEF Stops
<1> HIDE DEF a
<1>3. a.ds = w.ds
  <2> DEFINE k == [w.conn EXCEPT ![c] = x]
  <2> HIDE DEF k
  <2>1. a = [w EXCEPT !.conn = k]
    BY <1>2 DEF k
  <2>2. QED
    BY <1>1, <2>1 DEF States
<1>4. DeleteConn(a, c) = p
  <2>1. x.st = "busy" /\ x.ds = id /\ a = [w EXCEPT !.conn = [w.conn EXCEPT ![c] = x]]
    BY <1>1, <1>2
  <2>2. c = w.ds[id].dconn /\ w.ds[id] \in DownstreamType
    BY <1>1
  <2> HIDE DEF c
  <2>3. QED
    BY <1>1, <2>1, <2>2, DeleteDrops
<1>5. Good(p, win, hs) /\ p.up = "open" /\ p.ds[id] = e /\ e \in DownstreamType /\ p.str = w.str
  <2>1. Good(p, win, hs) /\ Steady(w, p) /\ p.ds[id] = e /\ p.ds[id] \in DownstreamType /\ p.str = w.str
    BY DroppedKeeps
  <2>2. QED
    BY <2>1 DEF Steady
<1>6. e.dconn = NoConn /\ e.res = d.res /\ e.window = d.window /\ e.body = d.body /\ e # NullObj
  BY <1>1, <1>5, NullNotDownstream DEF DownstreamType
<1> DEFINE r == RstStream(p, id)
           v == CASE d.res = "MSG_COMPLETE" -> r
                  [] d.res = "INITIAL" -> SpdyErrorReply(p, id)
                  [] d.res = "HEADER_COMPLETE" ->
                       IF ev = "eof" /\ ~d.tunnel THEN ResumeData(Finish(p, id), id) ELSE Finish(r, id)
<1> HIDE DEF p
<1>7. SpdyDownstreamEvent(a, id, ev) = Send(v)
  BY <1>3, <1>4 DEF SpdyDownstreamEvent, Finish
<1>8. Good(r, win, hs) /\ r.up = "open" /\ r.str[id].st = "CLOSING" /\ r.ds[id] = e
  <2>1. Good(r, win, hs) /\ Steady(p, r)
    <3>1. p.str[id].st # "none"
      BY <1>1, <1>5, GoodParts DEF StreamOK
    <3>2. QED
      BY <1>5, <3>1, RstKeeps
  <2>2. r.str[id].st = "CLOSING" /\ r.ds[id] = e
    BY <1>5, <1>6, RstCloses
  <2>3. QED
    BY <1>5, <2>1, <2>2 DEF Steady
<1> HIDE DEF r, e
<1>9. CASE d.res = "MSG_COMPLETE"
  <2>1. v = r
    BY <1>9
  <2> HIDE DEF v
  <2>2. QED
    BY <1>7, <1>8, <2>1, SendHeld DEF a
<1>10. CASE d.res = "INITIAL"
  <2>1. Good(SpdyErrorReply(p, id), win, hs) /\ Steady(p, SpdyErrorReply(p, id))
    BY <1>5, <1>6, <1>10, ErrorReplyKeeps
  <2>2. v = SpdyErrorReply(p, id)
    BY <1>10
  <2> HIDE DEF v
  <2>3. Good(v, win, hs) /\ v.up = "open"
    BY <1>5, <2>1, <2>2 DEF Steady
  <2>4. QED
    BY <1>7, <2>3, SendHeld DEF a
<1>11. CASE d.res = "HEADER_COMPLETE" /\ ~(ev = "eof" /\ ~d.tunnel)
  <2>1. Good(Finish(r, id), win, hs) /\ Steady(r, Finish(r, id))
    BY <1>6, <1>8, SettleKeeps DEF Finish
  <2>2. v = Finish(r, id)
    BY <1>11
  <2> HIDE DEF v
  <2>3. Good(v, win, hs) /\ v.up = "open"
    BY <1>8, <2>1, <2>2 DEF Steady
  <2>4. QED
    BY <1>7, <2>3, SendHeld DEF a
<1>12. CASE d.res = "HEADER_COMPLETE" /\ ev = "eof" /\ ~d.tunnel
  <2> DEFINE f == Finished(e)
             m == p.made[id]
             u == Refill(p, id, f, p.conn, m)
  <2>1. p \in States /\ StreamOK(id, p.str[id], p.ds[id], p.q, p.aob, p.made[id], p.sent[id])
    BY <1>5, GoodParts
  <2>2. p.conn \in Backs /\ m \in Nat /\ p.ds \in [Ids -> Downs] /\ p.made \in [Ids -> Nat]
    BY <2>1 DEF States
  <2>3. f \in DownstreamType /\ f.res = "MSG_COMPLETE" /\ f.window = e.window /\ f.dconn = NoConn /\ f.body = e.body
    BY <1>5, <1>6 DEF DownstreamType, ResponseStates, Finished
  <2>4. m = p.sent[id] + f.body + Is(p.aob, "data", id)
    BY <1>5, <1>6, <2>1, <2>3 DEF StreamOK
  <2>5. ResumeData(Finish(p, id), id) = u
    <3>1. Finish(p, id) = [p EXCEPT !.ds[id] = f, !.conn = p.conn, !.made[id] = m]
      BY <1>5, <2>1, <2>2 DEF Finish, Finished, States
    <3>2. QED
      BY <3>1 DEF Refill
  <2> HIDE DEF f, m
  <2>6. BackOK(id, f, p.conn)
    BY <2>3 DEF BackOK
  <2>7. /\ p.ds[id] # NullObj /\ p.ds[id].res # "INITIAL" /\ f.res # "INITIAL" /\ f.window = p.ds[id].window
        /\ f.dconn = p.ds[id].dconn
    BY <1>5, <1>6, <1>12, <2>3
  <2>8. Good(u, win, hs) /\ Steady(p, u)
    BY <1>5, <2>2, <2>3, <2>4, <2>6, <2>7, RefillKeeps
  <2> HIDE DEF u
  <2>9. v = u
    BY <1>12, <2>5
  <2> HIDE DEF v
  <2>10. Good(v, win, hs) /\ v.up = "open"
    BY <1>5, <2>8, <2>9 DEF Steady
  <2>11. QED
    BY <1>7, <2>10, SendHeld DEF a
<1>13. d.res \in {"INITIAL", "HEADER_COMPLETE", "MSG_COMPLETE"}
  BY <1>1 DEF DownstreamType, ResponseStates
<1>14. QED
  BY <1>9, <1>10, <1>11, <1>12, <1>13

\* Connection c of stream id has written its output: the backend may answer now.
LEMMA FlushIs ==
  ASSUME NEW w \in States, NEW c \in Conns
  PROVE  \E x \in ConnType(Ids) :
           /\ Stops(w, c, Flush(w, c), x) /\ x.on = w.conn[c].on
           /\ x.resp = IF w.conn[c].resp = "sent" THEN "wait" ELSE w.conn[c].resp
<1> DEFINE b == w.conn[c]
           r == IF b.resp = "sent" THEN "wait" ELSE b.resp
           x == [b EXCEPT !.out = 0, !.resp = r]
<1>1. w.conn \in Backs /\ b \in ConnType(Ids)
  BY DEF States, Backs
<1>2. x \in ConnType(Ids) /\ x.st = b.st /\ x.ds = b.ds /\ x.on = b.on /\ x.resp = r
  BY <1>1 DEF ConnType
<1>3. Flush(w, c) = [w EXCEPT !.conn = [w.conn EXCEPT ![c] = x]]
  <2> DEFINE y == [b EXCEPT !.out = 0]
             k == [w.conn EXCEPT ![c] = y]
             l == [k EXCEPT ![c].resp = r]
             u == [w EXCEPT !.conn = k]
  <2>1. Flush(w, c) = [w EXCEPT !.conn[c].out = 0, !.conn[c].resp = r]
    BY DEF Flush
  <2> HIDE DEF r
  <2>2. Flush(w, c) = [u EXCEPT !.conn[c].resp = r]
    BY <2>1
  <2>3. u.conn = k
    BY DEF States
  <2>4. k[c] = y /\ x = [y EXCEPT !.resp = r]
    BY <1>1 DEF Backs
  <2> HIDE DEF k, y, x
  <2>5. l = [k EXCEPT ![c] = x]
    BY <2>4
  <2>6. [k EXCEPT ![c] = x] = [w.conn EXCEPT ![c] = x]
    BY <1>1 DEF Backs, k
  <2> HIDE DEF u, l
  <2>7. Flush(w, c) = [u EXCEPT !.conn = l]
    BY <2>2, <2>3 DEF l
  <2>8. [u EXCEPT !.conn = l] = [w EXCEPT !.conn = l]
    BY DEF u, States
  <2>9. QED
    BY <2>5, <2>6, <2>7, <2>8
<1> HIDE DEF x, r
<1>4. QED
  BY <1>2, <1>3 DEF Stops, r

LEMMA FlushKeeps ==
  ASSUME NEW w, NEW win, NEW hs, win \in [Ids -> Nat], Good(w, win, hs), NEW id \in Ids, w.ds[id] # NullObj,
         w.ds[id].dconn # NoConn
  PROVE  LET v == Flush(w, w.ds[id].dconn)
         IN  Good(v, win, hs) /\ Steady(w, v) /\ v.q = w.q /\ v.aob = w.aob /\ v.ds = w.ds
<1> DEFINE d == w.ds[id]
           c == d.dconn
           v == Flush(w, c)
<1>1. /\ w.abort = "none" /\ Queue(w.q, w.aob)
      /\ StreamOK(id, w.str[id], w.ds[id], w.q, w.aob, w.made[id], w.sent[id])
  BY GoodParts
<1>2. /\ w \in States /\ d \in DownstreamType /\ c \in Conns /\ w.conn \in Backs /\ w.conn[c].st = "busy"
      /\ w.conn[c].ds = id /\ Served(d, w.conn[c])
  BY BackendIs
<1>a. PICK x \in ConnType(Ids) : /\ Stops(w, c, v, x) /\ x.on = w.conn[c].on
                                 /\ x.resp = IF w.conn[c].resp = "sent" THEN "wait" ELSE w.conn[c].resp
  BY <1>2, FlushIs
<1> DEFINE k == [w.conn EXCEPT ![c] = x]
<1>3. /\ v = [w EXCEPT !.conn = k] /\ x.st = w.conn[c].st /\ x.ds = w.conn[c].ds /\ x.on = w.conn[c].on
      /\ x.resp = IF w.conn[c].resp = "sent" THEN "wait" ELSE w.conn[c].resp
  BY <1>a DEF Stops
<1>4. k \in Backs /\ k[c] = x /\ \A o \in Conns : o # c => k[o] = w.conn[o]
  BY <1>2 DEF Backs
<1> HIDE DEF k, v
<1>5. v \in States
  BY <1>2, <1>3, <1>4 DEF States
<1>6. /\ Kept(w, v) /\ v.q = w.q /\ v.aob = w.aob /\ v.str = w.str /\ v.made = w.made /\ v.sent = w.sent
      /\ v.conn = k /\ v.ds = w.ds
  BY <1>2, <1>3 DEF States, Kept
<1>7. Frame(w, v, id)
  BY <1>1, <1>5, <1>6 DEF Frame, Requeued, Others, Kept
<1>8. Owing(w, v, id) /\ Phased(w.str[id], v.str[id])
  <2>1. Owed(v, id) = Owed(w, id) /\ (Counted(v, id) <=> Counted(w, id))
    BY <1>6 DEF Owed, Counted, Kept
  <2>2. QED
    BY <1>2, <1>6, <2>1, OwedNat DEF Owing, Phased
<1>9. BackOK(id, v.ds[id], v.conn)
  BY <1>2, <1>3, <1>4, <1>6 DEF BackOK, Served
<1>10. Backing(w, v, id)
  BY <1>2, <1>3, <1>4, <1>6 DEF Backing
<1>11. Good(v, win, hs)
  <2>1. StreamOK(id, v.str[id], v.ds[id], v.q, v.aob, v.made[id], v.sent[id])
    BY <1>1, <1>6
  <2>2. QED
    BY <1>7, <1>8, <1>9, <1>10, <2>1, QuietKeeps
<1>12. QED
  BY <1>6, <1>11 DEF Kept, Steady, v

\* What is received and not returned is within the window.
LEMMA WindowHolds ==
  ASSUME NEW w, NEW win, NEW hs, win \in [Ids -> Nat], Good(w, win, hs), NEW id \in Ids
  PROVE  /\ win[id] + w.credit[id] <= Window
         /\ w.ds[id] # NullObj => w.ds[id].window \in 0..Window
<1>1. w \in States
  BY GoodParts
<1>2. w.credit[id] \in Nat /\ Granted(w.q, w.aob, id) \in Nat /\ Count(w.in, Upload(id)) \in Nat /\ win[id] \in Nat
  BY <1>1, StateParts, PendNat, OwedNat
<1> DEFINE x == IF w.ds[id] # NullObj THEN w.ds[id].window ELSE 0
<1>3. x \in Nat
  BY <1>1, StateParts DEF DownstreamType
<1>4. win[id] + Owed(w, id) + Count(w.in, Upload(id)) <= Window /\ Owed(w, id) = w.credit[id] + Granted(w.q, w.aob, id) + x
  BY DEF Good, Ledger, Owed
<1> HIDE DEF x
<1>5. win[id] + w.credit[id] <= Window /\ x <= Window
  BY <1>2, <1>3, <1>4, WindowIs
<1>6. QED
  BY <1>3, <1>5, WindowIs DEF x

LEMMA WindowUpdateKeeps ==
  ASSUME NEW w, NEW win, NEW hs, win \in [Ids -> Nat], Good(w, win, hs), NEW id \in Ids, w.ds[id] # NullObj
  PROVE  LET i == Item("wu", id, w.ds[id].window)
             v == [w EXCEPT !.q = Append(w.q, i), !.ds[id].window = 0]
         IN  Good(v, win, hs) /\ Steady(w, v) /\ v.q = Append(w.q, i) /\ v.aob = w.aob /\ i.k = "wu"
<1> DEFINE d == w.ds[id]
           i == Item("wu", id, d.window)
           e == [d EXCEPT !.window = 0]
           v == [w EXCEPT !.q = Append(w.q, i), !.ds[id].window = 0]
<1>1. /\ w \in States /\ w.abort = "none" /\ Queue(w.q, w.aob)
      /\ StreamOK(id, w.str[id], w.ds[id], w.q, w.aob, w.made[id], w.sent[id]) /\ BackOK(id, w.ds[id], w.conn)
  BY GoodParts
<1>2. d \in DownstreamType /\ w.q \in Seq(Items) /\ w.aob \in Items /\ d.window \in 0..Window
  BY <1>1, StateParts, WindowHolds
<1>3. /\ e \in DownstreamType /\ e # NullObj /\ e.window = 0 /\ e.dconn = d.dconn /\ e.res = d.res
      /\ e.body = d.body /\ e.tunnel = d.tunnel /\ e.rd = d.rd
  <2>1. e \in DownstreamType
    BY <1>2 DEF DownstreamType
  <2>2. QED
    BY <1>2, <2>1, NullNotDownstream DEF DownstreamType
<1>4. i \in Items /\ i.k = "wu" /\ i.id = id /\ i.n = d.window
  BY <1>2, ItemIs
<1>5. v = [w EXCEPT !.ds[id] = e, !.q = Append(w.q, i)]
  BY <1>1 DEF States
<1> HIDE DEF i, e, v
<1>6. Append(w.q, i) \in Seq(Items) /\ Queue(Append(w.q, i), w.aob)
  BY <1>1, <1>2, <1>4, QueueAppend
<1>7. v \in States
  BY <1>1, <1>3, <1>5, <1>6 DEF States, Downs
<1>8. /\ Kept(w, v) /\ v.q = Append(w.q, i) /\ v.aob = w.aob /\ v.str = w.str /\ v.made = w.made /\ v.sent = w.sent
      /\ v.conn = w.conn /\ v.ds[id] = e /\ \A j \in Ids : j # id => v.ds[j] = w.ds[j]
  BY <1>1, <1>5 DEF States, Kept
<1>9. /\ Requeued(w, v, id) /\ Granted(v.q, v.aob, id) = Granted(w.q, w.aob, id) + d.window
      /\ \A o \in {"reply", "data", "fin", "rst"} : Pend(v.q, v.aob, o, id) = Pend(w.q, w.aob, o, id)
  <2>1. Amount(i, id) = d.window /\ \A o \in {"reply", "data", "fin", "rst"} : o \in Kinds /\ Is(i, o, id) = 0
    BY <1>4 DEF Amount, Is, Kinds
  <2>2. /\ Requeued(w, v, id) /\ Granted(v.q, v.aob, id) = Granted(w.q, w.aob, id) + Amount(i, id)
        /\ \A o \in Kinds : Pend(v.q, v.aob, o, id) = Pend(w.q, w.aob, o, id) + Is(i, o, id)
    BY <1>1, <1>4, <1>8, AppendRequeues
  <2>3. \A o \in Kinds : Pend(w.q, w.aob, o, id) \in Nat
    BY <1>1, PendNat
  <2>4. QED
    BY <2>1, <2>2, <2>3
<1>10. Frame(w, v, id)
  BY <1>1, <1>6, <1>7, <1>8, <1>9 DEF Frame, Others, Kept
<1>11. Owing(w, v, id) /\ Phased(w.str[id], v.str[id])
  <2>1. Owed(v, id) = w.credit[id] + Granted(v.q, v.aob, id) + 0 /\ v.credit = w.credit
    BY <1>3, <1>8 DEF Owed, Kept
  <2>2. Owed(w, id) = w.credit[id] + Granted(w.q, w.aob, id) + d.window
    BY DEF Owed
  <2>3. w.credit[id] \in Nat /\ Granted(w.q, w.aob, id) \in Nat /\ d.window \in Nat
    <3>1. w.credit[id] \in Nat /\ Granted(w.q, w.aob, id) \in Nat
      BY <1>1, StateParts, PendNat
    <3>2. d.window \in Nat
      BY <1>2, WindowIs
    <3>3. QED
      BY <3>1, <3>2
  <2> HIDE DEF d
  <2>4. Owed(v, id) = Owed(w, id)
    BY <1>9, <2>1, <2>2, <2>3
  <2>5. Counted(v, id) <=> Counted(w, id)
    BY <1>8, <1>9 DEF Counted, Kept, Kinds
  <2>6. QED
    BY <1>1, <1>8, <2>4, <2>5, OwedNat DEF Owing, Phased
<1>12. StreamOK(id, v.str[id], v.ds[id], v.q, v.aob, v.made[id], v.sent[id])
  <2>1. w.str[id].st \in {"OPENING", "OPENED", "CLOSING"}
    BY <1>1 DEF StreamOK
  <2>2. /\ Pend(v.q, v.aob, "reply", id) = Pend(w.q, w.aob, "reply", id)
        /\ Pend(v.q, v.aob, "fin", id) = Pend(w.q, w.aob, "fin", id)
        /\ Pend(v.q, v.aob, "data", id) = Pend(w.q, w.aob, "data", id)
        /\ Pend(v.q, v.aob, "rst", id) = Pend(w.q, w.aob, "rst", id)
    BY <1>9
  <2>3. QED
    BY <1>1, <1>3, <1>8, <2>1, <2>2 DEF StreamOK
<1>13. Backing(w, v, id) /\ BackOK(id, v.ds[id], v.conn)
  BY <1>1, <1>3, <1>8 DEF Backing, BackOK, Served
<1>14. Good(v, win, hs)
  BY <1>10, <1>11, <1>12, <1>13, QuietKeeps
<1>15. QED
  BY <1>4, <1>8, <1>14 DEF Kept, Steady, v, i

\* spdy_downstream_writecb
LEMMA DownstreamWriteHeld ==
  ASSUME NEW w, NEW win, NEW hs, win \in [Ids -> Nat], Good(w, win, hs), w.up = "open", Sent(w), NEW id \in Ids,
         w.ds[id] # NullObj, w.ds[id].dconn # NoConn
  PROVE  Held(SpdyDownstreamWrite(Flush(w, w.ds[id].dconn), id), win, hs)
<1> DEFINE u == Flush(w, w.ds[id].dconn)
           i == Item("wu", id, u.ds[id].window)
           v == [u EXCEPT !.q = Append(u.q, i), !.ds[id].window = 0]
<1>1. Good(u, win, hs) /\ Steady(w, u) /\ u.q = w.q /\ u.aob = w.aob /\ u.ds = w.ds
  BY FlushKeeps
<1>2. SpdyDownstreamWrite(u, id) = IF u.ds[id].window >= Window \div 2 THEN v ELSE u
  BY DEF SpdyDownstreamWrite
<1> HIDE DEF u
<1>3. Good(v, win, hs) /\ Steady(u, v) /\ v.q = Append(u.q, i) /\ v.aob = u.aob /\ i.k = "wu" /\ u.ds[id] # NullObj
  BY <1>1, WindowUpdateKeeps, ZenonT(60)
<1>4. u.q \in Seq(Items) /\ i \in Items
  <2>1. u \in States
    BY <1>1, GoodParts
  <2>2. QED
    BY <1>1, <1>3, <2>1, StateParts, WindowHolds, ItemIs
<1> HIDE DEF v, i
<1>5. Sent(u) /\ u.up = "open"
  BY <1>1 DEF Sent, Steady
<1>6. Sent(v) /\ v.up = "open"
  <2>1. v.aob = u.aob /\ v.out = u.out /\ v.up = "open"
    BY <1>3, <1>5 DEF Steady
  <2>2. ASSUME NEW n \in 1..Len(v.q) PROVE v.q[n].k = "wu" \/ (v.aob # NoItem /\ v.out > 0)
    <3>1. n \in 1..(Len(u.q) + 1) /\ v.q[n] = IF n <= Len(u.q) THEN u.q[n] ELSE i
      BY <1>3, <1>4, <2>2
    <3>2. CASE n <= Len(u.q)
      <4>1. n \in 1..Len(u.q) /\ v.q[n] = u.q[n]
        BY <1>4, <3>1, <3>2
      <4>2. QED
        BY <1>5, <2>1, <4>1 DEF Sent
    <3>3. CASE ~(n <= Len(u.q))
      BY <1>3, <3>1, <3>3
    <3>4. QED
      BY <3>2, <3>3
  <2>3. QED
    BY <2>1, <2>2 DEF Sent
<1>7. Held(SpdyDownstreamWrite(u, id), win, hs)
  BY <1>1, <1>2, <1>3, <1>5, <1>6 DEF Held
<1>8. QED
  BY <1>7 DEF u

\* idle_eventcb
LEMMA IdleEventHeld ==
  ASSUME NEW w, NEW win, NEW hs, win \in [Ids -> Nat], Good(w, win, hs), w.up = "open", Sent(w),
         NEW c \in Pool(w)
  PROVE  Held(IdleEvent(w, c), win, hs)
<1> DEFINE k == [w.conn EXCEPT ![c] = NewConn]
           v == IdleEvent(w, c)
<1>1. c \in Conns /\ w.conn[c].st = "idle" /\ 1 \in Ids
  BY IdsAreNumbers DEF Pool
<1>2. /\ w \in States /\ w.abort = "none" /\ Queue(w.q, w.aob) /\ Room(w.conn, w.str)
      /\ StreamOK(1, w.str[1], w.ds[1], w.q, w.aob, w.made[1], w.sent[1]) /\ BackOK(1, w.ds[1], w.conn)
      /\ (\A o \in Conns : ConnOK(o, w.ds, w.conn))
  BY <1>1, GoodParts
<1>3. v = [w EXCEPT !.conn = k]
  <2>1. v = [w EXCEPT !.conn = k, !.ds = w.ds]
    BY <1>1 DEF IdleEvent, DeleteConn
  <2> HIDE DEF k
  <2>2. QED
    BY <1>2, <2>1 DEF States
<1>4. NewConn \in ConnType(Ids) /\ NewConn.st = "none"
  BY DEF NewConn, ConnType
<1>5. k \in Backs /\ k[c].st = "none" /\ \A o \in Conns : o # c => k[o] = w.conn[o]
  BY <1>1, <1>2, <1>4 DEF Backs, States
<1> HIDE DEF k, v
<1>6. v \in States
  BY <1>2, <1>3, <1>5 DEF States
<1>7. /\ Kept(w, v) /\ v.q = w.q /\ v.aob = w.aob /\ v.str = w.str /\ v.made = w.made /\ v.sent = w.sent
      /\ v.conn = k /\ v.ds = w.ds
  BY <1>2, <1>3 DEF States, Kept
<1>8. Frame(w, v, 1)
  BY <1>2, <1>6, <1>7 DEF Frame, Requeued, Others, Kept
<1>9. Owing(w, v, 1) /\ Phased(w.str[1], v.str[1])
  <2>1. Owed(v, 1) = Owed(w, 1) /\ (Counted(v, 1) <=> Counted(w, 1))
    BY <1>7 DEF Owed, Counted, Kept
  <2>2. QED
    BY <1>1, <1>2, <1>7, <2>1, OwedNat DEF Owing, Phased
<1>10. BackOK(1, v.ds[1], v.conn)
  <2> SUFFICES ASSUME w.ds[1] # NullObj, w.ds[1].dconn # NoConn PROVE BackOK(1, w.ds[1], k)
    BY <1>7 DEF BackOK
  <2>1. w.ds[1].dconn \in Conns /\ w.ds[1].dconn # c
    BY <1>1, <1>2, StateParts DEF DownstreamType, BackOK
  <2>2. QED
    BY <1>2, <1>5, <2>1 DEF BackOK
<1>11. ASSUME NEW o \in Conns PROVE ConnKept(w, v, 1, o) /\ (v.conn[o].st # "none" => w.conn[o].st # "none")
  <2>1. ConnOK(o, w.ds, w.conn)
    BY <1>2
  <2>2. CASE o = c
    BY <1>1, <1>5, <1>7, <2>2 DEF ConnKept, ConnOK
  <2>3. CASE o # c
    BY <1>5, <1>7, <2>1, <2>3 DEF ConnKept, ConnOK
  <2>4. QED
    BY <2>2, <2>3
<1>12. Room(v.conn, v.str)
  <2>1. Others(w, v, 1)
    BY <1>8 DEF Frame
  <2>2. QED
    BY <1>1, <1>2, <1>9, <1>11, <2>1, FewerConns
<1>13. Good(v, win, hs)
  <2>1. StreamOK(1, v.str[1], v.ds[1], v.q, v.aob, v.made[1], v.sent[1])
    BY <1>2, <1>7
  <2>2. Touches(w, v, 1)
    BY <1>8, <1>9, <1>10, <1>11, <1>12, <2>1 DEF Touches
  <2>3. QED
    BY <1>1, <2>2, TouchKeeps
<1>14. Sent(v) /\ v.up = "open"
  BY <1>7 DEF Sent, Kept
<1>15. QED
  BY <1>13, <1>14 DEF Held, v
-----------------------------------------------------------------------------
(* The client.                                                             *)

\* What a frame f makes of the client's state h of stream j.
Says(f, j, h, g) ==
  \/ (f.k = "bad" \/ f.id # j) /\ g = h
  \/ f.k = "syn" /\ f.id = j /\ h = "none" /\ g = IF f.fin THEN "fin" ELSE "open"
  \/ f.k = "data" /\ f.id = j /\ h = "open" /\ g = IF f.fin THEN "fin" ELSE "open"
  \/ f.k = "rst" /\ f.id = j /\ g = "reset"

LEMMA OrderAppend ==
  ASSUME NEW in \in Seq(Frames), NEW f \in Frames, NEW j \in Ids, NEW s, NEW h, Order(j, s, in, h), NEW g,
         Says(f, j, h, g)
  PROVE  Order(j, s, Append(in, f), g)
<1> DEFINE t == Append(in, f)
           N == 1..Len(in)
           M == 1..Len(t)
           L == Len(in) + 1
           syn(n) == in[n].k = "syn" /\ in[n].id = j
           data(n) == in[n].k = "data" /\ in[n].id = j
           fin(n) == (syn(n) \/ data(n)) /\ in[n].fin
<1>1. /\ \A n \in N : n \in M /\ t[n] = in[n] /\ n < L /\ ~(L < n)
      /\ \A n \in M : n \in N \/ n = L
      /\ L \in M /\ t[L] = f /\ ~(L < L)
  OBVIOUS
<1>2. /\ \A n \in N : syn(n) => s.st = "none" /\ \A i \in N : i < n => in[i].k = "bad" \/ in[i].id # j
      /\ \A n \in N : data(n) => s.st # "none" \/ \E i \in N : i < n /\ syn(i)
      /\ \A n \in N : data(n) => ~Shut(s) /\ \A i \in N : i < n => ~fin(i)
      /\ h = "open" => /\ ~Shut(s) /\ \A n \in N : ~fin(n)
                       /\ s.st # "none" \/ \E i \in N : syn(i)
      /\ h = "none" => s.st = "none" /\ \A n \in N : in[n].k = "bad" \/ in[n].id # j
  BY Zenon DEF Order
<1>3. \/ (f.k = "bad" \/ f.id # j) /\ g = h
      \/ f.k = "syn" /\ f.id = j /\ h = "none" /\ g = IF f.fin THEN "fin" ELSE "open"
      \/ f.k = "data" /\ f.id = j /\ h = "open" /\ g = IF f.fin THEN "fin" ELSE "open"
      \/ f.k = "rst" /\ f.id = j /\ g = "reset"
  BY DEF Says
<1> HIDE DEF t, N, M, L
<1>4. \A n \in M : t[n].k = "syn" /\ t[n].id = j =>
        s.st = "none" /\ \A i \in M : i < n => t[i].k = "bad" \/ t[i].id # j
  BY <1>1, <1>2, <1>3
<1>5. \A n \in M : t[n].k = "data" /\ t[n].id = j =>
        s.st # "none" \/ \E i \in M : i < n /\ t[i].k = "syn" /\ t[i].id = j
  <2> SUFFICES ASSUME NEW n \in M, t[n].k = "data", t[n].id = j, s.st = "none"
               PROVE  \E i \in M : i < n /\ t[i].k = "syn" /\ t[i].id = j
    OBVIOUS
  <2>1. \E i \in N : i < n /\ syn(i)
    <3>1. CASE n \in N
      BY <1>1, <1>2, <3>1
    <3>2. CASE n = L
      <4>1. h = "open"
        BY <1>1, <1>3, <3>2
      <4>2. QED
        BY <1>1, <1>2, <3>2, <4>1
    <3>3. QED
      BY <1>1, <3>1, <3>2
  <2>2. QED
    BY <1>1, <2>1
<1>6. \A n \in M : t[n].k = "data" /\ t[n].id = j =>
        ~Shut(s) /\ \A i \in M : i < n => ~(((t[i].k = "syn" /\ t[i].id = j) \/ (t[i].k = "data" /\ t[i].id = j)) /\ t[i].fin)
  <2> SUFFICES ASSUME NEW n \in M, t[n].k = "data", t[n].id = j
               PROVE  ~Shut(s) /\ \A i \in N : i < n => ~fin(i)
    BY <1>1
  <2>1. CASE n \in N
    BY <1>1, <1>2, <2>1
  <2>2. CASE n = L
    <3>1. h = "open"
      BY <1>1, <1>3, <2>2
    <3>2. QED
      BY <1>2, <3>1
  <2>3. QED
    BY <1>1, <2>1, <2>2
<1>7. g = "open" =>
        /\ ~Shut(s)
        /\ \A i \in M : ~(((t[i].k = "syn" /\ t[i].id = j) \/ (t[i].k = "data" /\ t[i].id = j)) /\ t[i].fin)
        /\ s.st # "none" \/ \E i \in M : t[i].k = "syn" /\ t[i].id = j
  <2> SUFFICES ASSUME g = "open"
               PROVE  /\ ~Shut(s) /\ (\A i \in N : ~fin(i)) /\ ~(f.k \in {"syn", "data"} /\ f.id = j /\ f.fin)
                      /\ s.st # "none" \/ (f.k = "syn" /\ f.id = j) \/ \E i \in N : syn(i)
    BY <1>1
  <2>1. CASE (f.k = "bad" \/ f.id # j) /\ g = h
    BY <1>2, <2>1
  <2>2. CASE f.k = "syn" /\ f.id = j /\ h = "none" /\ g = IF f.fin THEN "fin" ELSE "open"
    BY <1>2, <2>2 DEF Shut
  <2>3. CASE f.k = "data" /\ f.id = j /\ h = "open" /\ g = IF f.fin THEN "fin" ELSE "open"
    BY <1>2, <2>3
  <2>4. QED
    BY <1>3, <2>1, <2>2, <2>3
<1>8. g = "none" => s.st = "none" /\ \A i \in M : t[i].k = "bad" \/ t[i].id # j
  BY <1>1, <1>2, <1>3
<1>9. Order(j, s, t, g)
  BY <1>4, <1>5, <1>6, <1>7, <1>8, Zenon DEF Order, M
<1>10. QED
  BY <1>9 DEF t

LEMMA SendFrameHeld ==
  ASSUME NEW w, NEW win, NEW hs, win \in [Ids -> Nat], Held(w, win, hs), w.up = "open", NEW f \in Frames,
         NEW win2, NEW hs2, \A j \in Ids : Says(f, j, hs[j], hs2[j]),
         \A j \in Ids : win2[j] \in Nat /\ win[j] = win2[j] + (IF f.k = "data" /\ f.id = j THEN 1 ELSE 0)
  PROVE  Held([w EXCEPT !.in = Append(w.in, f), !.rcb = TRUE], win2, hs2)
<1> DEFINE v == [w EXCEPT !.in = Append(w.in, f), !.rcb = TRUE]
<1>1. Good(w, win, hs) /\ Sent(w) /\ w \in States
  BY StatesIs DEF Held, Good, Core
<1>2. w.in \in Seq(Frames)
  BY <1>1 DEF States
<1>3. Append(w.in, f) \in Seq(Frames)
  BY <1>2
<1>4. v \in States
  BY <1>1, <1>3 DEF States
<1>5. /\ v.in = Append(w.in, f) /\ v.up = w.up /\ v.ds = w.ds /\ v.conn = w.conn /\ v.out = w.out /\ v.str = w.str
      /\ v.q = w.q /\ v.aob = w.aob /\ v.credit = w.credit /\ v.made = w.made /\ v.sent = w.sent /\ v.abort = w.abort
  BY <1>1 DEF States
<1> HIDE DEF v
<1>6. Core(v)
  BY <1>1, <1>4, <1>5, StatesIs DEF Good, Core
<1>7. ASSUME NEW j \in Ids PROVE Ledger(v, j, win2[j])
  <2>1. Ledger(w, j, win[j]) /\ Owed(w, j) \in Nat /\ Count(w.in, Upload(j)) \in Nat
    BY <1>1, OwedNat DEF Good
  <2>2. Owed(v, j) = Owed(w, j) /\ (Counted(v, j) <=> Counted(w, j))
    BY <1>5 DEF Owed, Counted
  <2>3. Count(v.in, Upload(j)) = Count(w.in, Upload(j)) + (IF f.k = "data" /\ f.id = j THEN 1 ELSE 0)
    <3>1. f \in Upload(j) <=> f.k = "data" /\ f.id = j
      BY DEF Upload
    <3>2. QED
      BY <1>2, <1>5, <3>1, CountAppend
  <2>4. win2[j] + Owed(v, j) + Count(v.in, Upload(j)) = win[j] + Owed(w, j) + Count(w.in, Upload(j))
    BY <2>1, <2>2, <2>3
  <2>5. QED
    BY <1>5, <2>1, <2>2, <2>4 DEF Ledger
<1>8. ASSUME NEW j \in Ids PROVE Order(j, v.str[j], v.in, hs2[j])
  <2>1. Order(j, w.str[j], w.in, hs[j]) /\ Says(f, j, hs[j], hs2[j])
    BY <1>1 DEF Good
  <2>2. QED
    BY <1>2, <1>5, <2>1, OrderAppend
<1>9. Sent(v)
  BY <1>1, <1>5 DEF Sent
<1>10. QED
  BY <1>5, <1>6, <1>7, <1>8, <1>9 DEF Held, Good, v

\* The client takes a part of the output, and all that is granted with the last.
LEMMA TakenHeld ==
  ASSUME NEW w, NEW win, NEW hs, win \in [Ids -> 0..Window], Held(w, win, hs), w.up = "open", w.out > 0
  PROVE  LET v == [w EXCEPT !.out = w.out - 1]
             u == [v EXCEPT !.credit = [id \in Ids |-> 0]]
             more == [id \in Ids |-> win[id] + w.credit[id]]
         IN  /\ v.out > 0 => Held(v, win, hs)
             /\ Held(Send(u), more, hs) /\ more \in [Ids -> 0..Window]
<1> DEFINE v == [w EXCEPT !.out = w.out - 1]
           none == [id \in Ids |-> 0]
           u == [v EXCEPT !.credit = none]
           more == [id \in Ids |-> win[id] + w.credit[id]]
<1>1. Good(w, win, hs) /\ Sent(w) /\ w \in States
  BY StatesIs DEF Held, Good, Core
<1>2. win \in [Ids -> Nat] /\ w.out - 1 \in Nat /\ w.credit \in [Ids -> Nat] /\ none \in [Ids -> Nat]
  <2>1. w.out \in Nat /\ w.credit \in [Ids -> Nat]
    BY <1>1 DEF States
  <2>2. QED
    BY <2>1, WindowIs
<1>3. ASSUME NEW id \in Ids PROVE win[id] + w.credit[id] \in 0..Window
  <2>1. win[id] + w.credit[id] <= Window
    BY <1>1, <1>2, WindowHolds
  <2>2. QED
    BY <1>2, <2>1, WindowIs
<1>4. more \in [Ids -> 0..Window] /\ more \in [Ids -> Nat]
  BY <1>3, WindowIs
<1> HIDE DEF none
<1>5. /\ v \in States /\ v.out = w.out - 1 /\ v.in = w.in /\ v.up = w.up /\ v.ds = w.ds /\ v.conn = w.conn
      /\ v.str = w.str /\ v.q = w.q /\ v.aob = w.aob /\ v.credit = w.credit /\ v.made = w.made /\ v.sent = w.sent
      /\ v.abort = w.abort
  <2>1. v \in States
    BY <1>1, <1>2 DEF States
  <2>2. QED
    BY <1>1, <2>1 DEF States
<1> HIDE DEF v, more
<1>6. Core(v)
  BY <1>1, <1>5, StatesIs DEF Good, Core
<1>7. ASSUME v.out > 0 PROVE Held(v, win, hs)
  <2>1. \A id \in Ids : Ledger(v, id, win[id]) /\ Order(id, v.str[id], v.in, hs[id])
    BY <1>1, <1>5 DEF Good, Ledger, Owed, Counted
  <2>2. Sent(v)
    BY <1>1, <1>5, <1>7 DEF Sent
  <2>3. QED
    BY <1>5, <1>6, <2>1, <2>2 DEF Held, Good
<1>8. /\ u \in States /\ u.credit = none /\ u.in = w.in /\ u.up = w.up /\ u.ds = w.ds /\ u.conn = w.conn
      /\ u.str = w.str /\ u.q = w.q /\ u.aob = w.aob /\ u.made = w.made /\ u.sent = w.sent /\ u.abort = w.abort
  <2>1. u \in States
    BY <1>2, <1>5 DEF States
  <2>2. QED
    BY <1>5, <2>1 DEF States
<1> HIDE DEF u
<1>9. Core(u)
  BY <1>1, <1>8, StatesIs DEF Good, Core
<1>10. ASSUME NEW id \in Ids PROVE Ledger(u, id, more[id])
  <2> DEFINE x == IF w.ds[id] # NullObj THEN w.ds[id].window ELSE 0
             G == Granted(w.q, w.aob, id)
  <2>1. Ledger(w, id, win[id]) /\ Count(w.in, Upload(id)) \in Nat /\ G \in Nat /\ x \in Nat
    <3>1. x \in Nat
      BY <1>1, StateParts DEF DownstreamType
    <3> HIDE DEF x
    <3>2. QED
      BY <1>1, <3>1, OwedNat, PendNat DEF Good
  <2>2. Owed(w, id) = w.credit[id] + G + x /\ Owed(u, id) = none[id] + G + x
    BY <1>8 DEF Owed
  <2> HIDE DEF x, G
  <2>3. more[id] = win[id] + w.credit[id] /\ none[id] = 0
    BY DEF more, none
  <2>4. more[id] + Owed(u, id) = win[id] + Owed(w, id)
    BY <1>2, <2>1, <2>2, <2>3
  <2>5. QED
    BY <1>8, <2>1, <2>4 DEF Ledger, Counted
<1>11. Good(u, more, hs)
  <2>1. \A id \in Ids : Order(id, u.str[id], u.in, hs[id])
    BY <1>1, <1>8 DEF Good
  <2>2. QED
    BY <1>9, <1>10, <2>1 DEF Good
<1>12. Held(Send(u), more, hs)
  BY <1>4, <1>8, <1>11, SendHeld
<1>13. QED
  BY <1>4, <1>7, <1>12 DEF v, u, none, more

LEMMA ClientFramesAre ==
  ASSUME SpdyInv, NEW f \in ClientFrames
  PROVE  /\ f \in Frames /\ f.id \in Ids
         /\ \/ f.k = "syn" /\ f.fin \in BOOLEAN /\ cst[f.id] = "none"
            \/ f.k = "data" /\ f.fin \in BOOLEAN /\ cst[f.id] = "open" /\ cwin[f.id] > 0
            \/ f.k = "rst"
            \/ f.k = "bad"
<1>1. cplan \in Plans
  BY DEF SpdyInv
<1>2. cplan.syns \subseteq Syns /\ 1 \in Ids
  BY <1>1, SpdyAssumption
<1>3. CASE f \in cplan.syns /\ cst[f.id] = "none"
  BY <1>2, <1>3 DEF Syns, Frames
<1>4. CASE f \in [k : {"data"}, id : {id \in Ids : cst[id] = "open" /\ cwin[id] > 0 /\ cup[id] < cplan.upload}, fin : BOOLEAN]
  BY <1>4 DEF Frames
<1>5. CASE f \in [k : {"rst"}, id : {id \in Ids : cst[id] \in {"open", "fin"}}]
  BY <1>5 DEF Frames
<1>6. CASE f \in [k : {"bad"} \cap cplan.extra, id : {1}, fin : {FALSE}]
  BY <1>2, <1>6 DEF Frames
<1>7. QED
  BY <1>3, <1>4, <1>5, <1>6 DEF ClientFrames

LEMMA ClientSendInv == ASSUME SpdyInv, SpdyClientSend PROVE SpdyInv'
<1>1. PICK f \in ClientFrames :
        /\ sc' = [sc EXCEPT !.in = Append(@, f), !.rcb = TRUE]
        /\ cst' = [cst EXCEPT ![f.id] = CASE f.k = "rst" -> "reset" [] f.k = "bad" -> @
                                          [] OTHER -> IF f.fin THEN "fin" ELSE "open"]
        /\ cup' = IF f.k = "data" THEN [cup EXCEPT ![f.id] = @ + 1] ELSE cup
        /\ cwin' = IF f.k = "data" THEN [cwin EXCEPT ![f.id] = @ - 1] ELSE cwin
  BY DEF SpdyClientSend
<1>2. /\ f \in Frames /\ f.id \in Ids
      /\ \/ f.k = "syn" /\ f.fin \in BOOLEAN /\ cst[f.id] = "none"
         \/ f.k = "data" /\ f.fin \in BOOLEAN /\ cst[f.id] = "open" /\ cwin[f.id] > 0
         \/ f.k = "rst"
         \/ f.k = "bad"
  BY ClientFramesAre
<1>3. /\ cplan' = cplan /\ sc.up = "open" /\ cplan \in Plans /\ cst \in [Ids -> {"none", "open", "fin", "reset"}]
      /\ cup \in [Ids -> Nat] /\ cwin \in [Ids -> 0..Window] /\ Held(sc, cwin, cst)
  BY DEF SpdyClientSend, SpdyRunning, SpdyInv
<1>4. cst' \in [Ids -> {"none", "open", "fin", "reset"}] /\ \A j \in Ids : Says(f, j, cst[j], cst'[j])
  <2>1. CASE f.k = "bad"
    BY <1>1, <1>2, <1>3, <2>1 DEF Says
  <2>2. CASE f.k = "rst"
    BY <1>1, <1>2, <1>3, <2>2 DEF Says
  <2>3. CASE f.k = "syn"
    BY <1>1, <1>2, <1>3, <2>3 DEF Says
  <2>4. CASE f.k = "data"
    BY <1>1, <1>2, <1>3, <2>4 DEF Says
  <2>5. QED
    BY <1>2, <2>1, <2>2, <2>3, <2>4
<1>5. cup' \in [Ids -> Nat]
  BY <1>1, <1>2, <1>3
<1>6. /\ cwin' \in [Ids -> 0..Window]
      /\ \A j \in Ids : cwin'[j] \in Nat /\ cwin[j] = cwin'[j] + (IF f.k = "data" /\ f.id = j THEN 1 ELSE 0)
  BY <1>1, <1>2, <1>3, WindowIs
<1>7. cwin \in [Ids -> Nat]
  BY <1>3, WindowIs
<1>8. Held([sc EXCEPT !.in = Append(sc.in, f), !.rcb = TRUE], cwin', cst')
  BY <1>2, <1>3, <1>4, <1>6, <1>7, SendFrameHeld
<1>9. QED
  BY <1>1, <1>3, <1>4, <1>5, <1>6, <1>8 DEF SpdyInv

LEMMA RunningParts ==
  ASSUME SpdyInv, SpdyRunning
  PROVE  /\ sc.up = "open" /\ cwin \in [Ids -> Nat] /\ cwin \in [Ids -> 0..Window] /\ Good(sc, cwin, cst)
         /\ Sent(sc) /\ Held(sc, cwin, cst)
<1>1. sc.up = "open" /\ cwin \in [Ids -> 0..Window] /\ Held(sc, cwin, cst)
  BY DEF SpdyInv, SpdyRunning
<1>2. QED
  BY <1>1, WindowIs DEF Held

LEMMA HandlerInv ==
  ASSUME SpdyInv, UNCHANGED <<cplan, cst, cup, cwin>>, Held(sc', cwin, cst) PROVE SpdyInv'
  BY DEF SpdyInv

LEMMA StepInv == ASSUME SpdyInv, [SpdyNext]_spdyVars PROVE SpdyInv'
<1>1. CASE SpdyClientSend
  BY <1>1, ClientSendInv
<1>2. CASE SpdyUpstreamReadcb
  <2>1. PICK fail \in BOOLEAN : sc' = SpdyOnRead(sc, fail)
    BY <1>2 DEF SpdyUpstreamReadcb
  <2>2. sc.up = "open" /\ cwin \in [Ids -> Nat] /\ Good(sc, cwin, cst)
    BY <1>2, RunningParts DEF SpdyUpstreamReadcb
  <2>3. Held(sc', cwin, cst)
    BY <2>1, <2>2, OnReadHeld
  <2>4. QED
    BY <1>2, <2>3, HandlerInv DEF SpdyUpstreamReadcb
<1>3. CASE SpdyUpstreamWritecb
  <2> DEFINE v == [sc EXCEPT !.out = sc.out - 1]
             u == [v EXCEPT !.credit = [id \in Ids |-> 0]]
             more == [id \in Ids |-> cwin[id] + sc.credit[id]]
  <2>1. sc.up = "open" /\ cwin \in [Ids -> 0..Window] /\ Held(sc, cwin, cst) /\ sc.out > 0
    BY <1>3, RunningParts DEF SpdyUpstreamWritecb
  <2>2. /\ v.out > 0 => Held(v, cwin, cst)
        /\ Held(Send(u), more, cst) /\ more \in [Ids -> 0..Window]
    BY <2>1, TakenHeld
  <2>3. /\ sc' = IF v.out > 0 THEN v ELSE Send(u)
        /\ cwin' = IF v.out > 0 THEN cwin ELSE more
        /\ cplan' = cplan /\ cst' = cst /\ cup' = cup
    BY <1>3 DEF SpdyUpstreamWritecb
  <2> HIDE DEF v, u, more
  <2>4. QED
    BY <2>1, <2>2, <2>3 DEF SpdyInv
<1>4. CASE SpdyUpstreamEventcb
  <2>1. Good(sc, cwin, cst) /\ sc' = DeleteHandler(sc) /\ UNCHANGED <<cplan, cst, cup, cwin>>
    BY <1>4, RunningParts DEF SpdyUpstreamEventcb
  <2>2. Held(sc', cwin, cst)
    BY <2>1, DeleteHandlerOver
  <2>3. QED
    BY <2>1, <2>2, HandlerInv
<1>5. CASE SpdyDownstreamReadcb
  <2>1. PICK id \in Backed : \E t \in Answers(sc, sc.ds[id].dconn) :
          Conn(sc, id).on /\ sc' = SpdyDownstreamRead(Answered(sc, sc.ds[id].dconn, t), id, t)
    BY <1>5 DEF SpdyDownstreamReadcb
  <2>2. PICK t \in Answers(sc, sc.ds[id].dconn) :
          Conn(sc, id).on /\ sc' = SpdyDownstreamRead(Answered(sc, sc.ds[id].dconn, t), id, t)
    BY <2>1
  <2>3. sc.up = "open" /\ cwin \in [Ids -> Nat] /\ Good(sc, cwin, cst) /\ UNCHANGED <<cplan, cst, cup, cwin>>
    BY <1>5, RunningParts DEF SpdyDownstreamReadcb
  <2>4. id \in Ids /\ sc.ds[id] # NullObj /\ sc.ds[id].dconn # NoConn
    BY DEF Backed, Exists
  <2>5. Held(sc', cwin, cst)
    BY <2>2, <2>3, <2>4, DownstreamReadHeld
  <2>6. QED
    BY <2>3, <2>5, HandlerInv
<1>6. CASE SpdyDownstreamWritecb
  <2>1. PICK id \in Backed : sc' = SpdyDownstreamWrite(Flush(sc, sc.ds[id].dconn), id)
    BY <1>6 DEF SpdyDownstreamWritecb
  <2>2. /\ sc.up = "open" /\ cwin \in [Ids -> Nat] /\ Good(sc, cwin, cst) /\ Sent(sc)
        /\ UNCHANGED <<cplan, cst, cup, cwin>>
    BY <1>6, RunningParts DEF SpdyDownstreamWritecb
  <2>3. id \in Ids /\ sc.ds[id] # NullObj /\ sc.ds[id].dconn # NoConn
    BY DEF Backed, Exists
  <2>4. Held(sc', cwin, cst)
    BY <2>1, <2>2, <2>3, DownstreamWriteHeld
  <2>5. QED
    BY <2>2, <2>4, HandlerInv
<1>7. CASE SpdyDownstreamEventcb
  <2>1. PICK id \in Backed, e \in Events, side \in EventSides :
          sc' = SpdyDownstreamEvent(AfterEvent(sc, sc.ds[id].dconn, side), id, e)
    BY <1>7 DEF SpdyDownstreamEventcb
  <2>2. sc.up = "open" /\ cwin \in [Ids -> Nat] /\ Good(sc, cwin, cst) /\ UNCHANGED <<cplan, cst, cup, cwin>>
    BY <1>7, RunningParts DEF SpdyDownstreamEventcb
  <2>3. id \in Ids /\ sc.ds[id] # NullObj /\ sc.ds[id].dconn # NoConn
    BY DEF Backed, Exists
  <2>4. Held(sc', cwin, cst)
    BY <2>1, <2>2, <2>3, DownstreamEventHeld
  <2>5. QED
    BY <2>2, <2>4, HandlerInv
<1>8. CASE SpdyIdleEventcb
  <2>1. PICK c \in Pool(sc) : sc' = IdleEvent(sc, c)
    BY <1>8 DEF SpdyIdleEventcb
  <2>2. /\ sc.up = "open" /\ cwin \in [Ids -> Nat] /\ Good(sc, cwin, cst) /\ Sent(sc)
        /\ UNCHANGED <<cplan, cst, cup, cwin>>
    BY <1>8, RunningParts DEF SpdyIdleEventcb
  <2>3. Held(sc', cwin, cst)
    BY <2>1, <2>2, IdleEventHeld
  <2>4. QED
    BY <2>2, <2>3, HandlerInv
<1>9. CASE UNCHANGED spdyVars
  BY <1>9 DEF spdyVars, SpdyInv
<1>10. QED
  BY <1>1, <1>2, <1>3, <1>4, <1>5, <1>6, <1>7, <1>8, <1>9 DEF SpdyNext

LEMMA InitInv == ASSUME SpdyInit PROVE SpdyInv
<1>1. /\ sc.up = "open" /\ sc.ds = [id \in Ids |-> NullObj] /\ sc.conn = [c \in Conns |-> NewConn] /\ sc.in = <<>>
      /\ sc.out = 0 /\ sc.str = [id \in Ids |-> NewStream] /\ sc.q = <<>> /\ sc.aob = NoItem
      /\ sc.credit = [id \in Ids |-> 0] /\ sc.made = [id \in Ids |-> 0] /\ sc.sent = [id \in Ids |-> 0]
      /\ sc.abort = "none"
  BY DEF SpdyInit
<1>2. NewConn \in ConnType(Ids) /\ NewConn.st = "none"
  BY DEF NewConn, ConnType
<1>3. NewStream \in Strs /\ NewStream.st = "none"
  BY DEF NewStream, Strs
<1>4. sc \in States
  <2>1. sc.aob \in Items
    BY <1>1, NoItemIs
  <2>2. [id \in Ids |-> NullObj] \in [Ids -> Downs] /\ [c \in Conns |-> NewConn] \in Backs
        /\ [id \in Ids |-> NewStream] \in [Ids -> Strs] /\ [id \in Ids |-> 0] \in [Ids -> Nat]
    BY <1>2, <1>3 DEF Downs, Backs
  <2>3. <<>> \in Seq(Frames) /\ <<>> \in Seq(Items)
    OBVIOUS
  <2>4. NoItem \in Items
    BY NoItemIs
  <2>5. QED
    BY <2>2, <2>3, <2>4 DEF SpdyInit, States
<1>5. Queue(sc.q, sc.aob)
  BY <1>1, NoItemIs DEF Queue
<1>6. ASSUME NEW id \in Ids
      PROVE  /\ \A k \in Kinds : Pend(sc.q, sc.aob, k, id) = 0
             /\ Granted(sc.q, sc.aob, id) = 0 /\ Count(sc.in, Upload(id)) = 0
  <2>1. \A k \in Kinds : Wait(<<>>, k, id) = 0 /\ Is(NoItem, k, id) = 0
    BY CountEmpty, NoItemIs DEF Wait, Is, Kinds
  <2>2. CreditIn(<<>>, id) = 0 /\ Amount(NoItem, id) = 0
    BY CreditEmpty, NoItemIs DEF Amount
  <2>3. QED
    BY <1>1, <2>1, <2>2, CountEmpty DEF Pend, Granted
<1>7. ASSUME NEW id \in Ids PROVE StreamOK(id, sc.str[id], sc.ds[id], sc.q, sc.aob, sc.made[id], sc.sent[id])
  BY <1>1, <1>3, <1>6 DEF StreamOK
<1>8. \A id \in Ids : BackOK(id, sc.ds[id], sc.conn)
  BY <1>1 DEF BackOK
<1>9. \A c \in Conns : ConnOK(c, sc.ds, sc.conn)
  BY <1>1, <1>2 DEF ConnOK
<1>10. Room(sc.conn, sc.str)
  <2> DEFINE A == {c \in Conns : sc.conn[c].st # "none"}
             B == {i \in Ids : sc.str[i].st # "none"}
  <2>1. A = {} /\ B = {}
    BY <1>1, <1>2, <1>3
  <2> HIDE DEF A, B
  <2>2. Cardinality(A) = 0 /\ Cardinality(B) = 0
    BY <2>1, FS_EmptySet
  <2>3. Cardinality(A) <= Cardinality(B)
    BY <2>2
  <2>4. QED
    BY <2>3 DEF Room, A, B
<1>11. Core(sc)
  BY <1>1, <1>4, <1>5, <1>7, <1>8, <1>9, <1>10, StatesIs DEF Core
<1>12. cst = [id \in Ids |-> "none"] /\ cwin = [id \in Ids |-> Window] /\ cup = [id \in Ids |-> 0] /\ cplan \in Plans
  BY DEF SpdyInit
<1>13. ASSUME NEW id \in Ids PROVE Ledger(sc, id, cwin[id])
  <2>1. Owed(sc, id) = 0
    BY <1>1, <1>6 DEF Owed
  <2>2. cwin[id] = Window /\ Count(sc.in, Upload(id)) = 0
    BY <1>6, <1>12
  <2>3. cwin[id] + Owed(sc, id) + Count(sc.in, Upload(id)) = Window /\ Window <= Window
    BY <2>1, <2>2, WindowIs
  <2>4. QED
    BY <2>3 DEF Ledger
<1>14. ASSUME NEW id \in Ids PROVE Order(id, sc.str[id], sc.in, cst[id])
  <2>1. sc.in = <<>> /\ sc.str[id].st = "none" /\ cst[id] = "none" /\ 1..Len(<<>>) = {}
    BY <1>1, <1>3, <1>12
  <2>2. QED
    BY <2>1 DEF Order
<1>15. Sent(sc)
  BY <1>1 DEF Sent
<1>16. Held(sc, cwin, cst)
  BY <1>1, <1>11, <1>13, <1>14, <1>15 DEF Held, Good
<1>17. QED
  BY <1>12, <1>16, WindowIs DEF SpdyInv
-----------------------------------------------------------------------------
(* What the invariant says of the properties.                              *)

LEMMA RunningHeld ==
  ASSUME SpdyInv
  PROVE  /\ sc \in States /\ sc.abort = "none" /\ (SpdyRunning <=> sc.up = "open") /\ sc.up \in {"open", "gone"}
         /\ SpdyRunning => Good(sc, cwin, cst) /\ Sent(sc)
         /\ ~SpdyRunning => Over(sc)
  BY StatesIs DEF SpdyInv, Held, Good, Core, Over, SpdyRunning, States

LEMMA WaitingIs ==
  ASSUME sc \in States, NEW id \in Ids, NEW k
  PROVE  Waiting(k, id) = Pend(sc.q, sc.aob, k, id)
<1>1. sc.q \in Seq(Items)
  BY DEF States
<1>2. {i \in 1..Len(sc.q) : sc.q[i].k = k /\ sc.q[i].id = id} = {i \in 1..Len(sc.q) : sc.q[i] \in Of(k, id)}
  BY <1>1 DEF Of
<1>3. QED
  BY <1>2 DEF Waiting, Pend, Wait, Count, Is

LEMMA PerStream == ASSUME SpdyInv PROVE DownstreamPerStream
<1>1. /\ sc \in States /\ sc.abort = "none" /\ (SpdyRunning <=> sc.up = "open") /\ sc.up \in {"open", "gone"}
      /\ SpdyRunning => Good(sc, cwin, cst) /\ Sent(sc)
      /\ ~SpdyRunning => Over(sc)
  BY RunningHeld
<1>2. cwin \in [Ids -> Nat] /\ cwin \in [Ids -> 0..Window] /\ cst \in [Ids -> {"none", "open", "fin", "reset"}]
  BY WindowIs DEF SpdyInv
<1>3. DOMAIN sc.ds = Ids
  BY <1>1 DEF States
<1>4. CASE SpdyRunning
  <2>1. SpdyTypeOK
    BY <1>1, <1>2, <1>4, StatesIs, WindowHolds DEF SpdyTypeOK, Exists
  <2>2. PointersAgree(sc)
    <3>1. \A c \in Conns : ConnOK(c, sc.ds, sc.conn)
      BY <1>1, <1>4 DEF Good, Core
    <3>2. \A id \in Ids : BackOK(id, sc.ds[id], sc.conn)
      BY <1>1, <1>4 DEF Good, Core
    <3>3. QED
      BY <1>3, <3>1, <3>2 DEF PointersAgree, ConnOK, BackOK, Exists, Conn
  <2>3. \A id \in Ids : Exists(sc, id) <=> Active(sc, id)
    BY <1>1, <1>4, GoodParts
  <2>4. Pool(sc) \subseteq {c \in Conns : sc.conn[c].resp = "none"}
    BY <1>1, <1>4 DEF Pool, Good, Core, ConnOK
  <2>5. QED
    BY <1>1, <1>4, <2>1, <2>2, <2>3, <2>4 DEF DownstreamPerStream
<1>5. CASE ~SpdyRunning
  <2>1. (\A id \in Ids : ~Exists(sc, id)) /\ \A c \in Conns : sc.conn[c].st \in {"none", "lost"}
    BY <1>1, <1>5 DEF Over, Exists
  <2>2. SpdyTypeOK
    BY <1>1, <1>2, <2>1, StatesIs DEF SpdyTypeOK
  <2>3. PointersAgree(sc)
    BY <1>3, <2>1 DEF PointersAgree
  <2>4. QED
    BY <1>1, <1>5, <2>1, <2>2, <2>3 DEF DownstreamPerStream, Pool
<1>6. QED
  BY <1>4, <1>5

LEMMA Flows == ASSUME SpdyInv PROVE BodyFlows
<1>1. /\ sc \in States /\ (SpdyRunning => Good(sc, cwin, cst)) /\ (~SpdyRunning => Over(sc))
  BY RunningHeld
<1> SUFFICES ASSUME NEW id \in Ids
             PROVE  /\ SpdyRunning /\ Exists(sc, id) =>
                         sc.made[id] = sc.sent[id] + sc.ds[id].body
                                         + (IF sc.aob = Item("data", id, 1) THEN 1 ELSE 0)
                    /\ SpdyRunning /\ Sendable(sc, id) =>
                         /\ Waiting("data", id) + Waiting("fin", id) + (IF sc.str[id].deferred THEN 1 ELSE 0) = 1
                         /\ sc.str[id].deferred =>
                              sc.ds[id].body = 0 /\ (sc.ds[id].res # "MSG_COMPLETE" \/ sc.ds[id].tunnel)
                    /\ Exists(sc, id) /\ sc.ds[id].dconn # NoConn =>
                         (sc.ds[id].rd # {} => sc.ds[id].body > 0) /\ (sc.ds[id].rd = {} <=> Conn(sc, id).on)
  BY DEF BodyFlows
<1>2. CASE SpdyRunning
  <2>1. /\ StreamOK(id, sc.str[id], sc.ds[id], sc.q, sc.aob, sc.made[id], sc.sent[id])
        /\ BackOK(id, sc.ds[id], sc.conn) /\ Queue(sc.q, sc.aob)
    BY <1>1, <1>2, GoodParts
  <2>2. Is(sc.aob, "data", id) = IF sc.aob = Item("data", id, 1) THEN 1 ELSE 0
    <3>1. sc.aob \in Items /\ (sc.aob.k = "data" => sc.aob.n = 1)
      BY <1>1, <2>1 DEF States, Queue
    <3>2. (sc.aob.k = "data" /\ sc.aob.id = id) <=> sc.aob = Item("data", id, 1)
      BY <3>1 DEF Items, Item
    <3>3. QED
      BY <3>2 DEF Is
  <2>3. Waiting("data", id) = Pend(sc.q, sc.aob, "data", id) /\ Waiting("fin", id) = Pend(sc.q, sc.aob, "fin", id)
    BY <1>1, WaitingIs
  <2>4. QED
    BY <2>1, <2>2, <2>3 DEF StreamOK, BackOK, Served, Exists, Sendable, Conn
<1>3. CASE ~SpdyRunning
  BY <1>1, <1>3 DEF Over, Exists
<1>4. QED
  BY <1>2, <1>3

LEMMA Credits == ASSUME SpdyInv PROVE UploadCredit
<1> SUFFICES ASSUME SpdyRunning PROVE UploadCredit
  BY DEF UploadCredit
<1>1. sc \in States /\ Good(sc, cwin, cst) /\ Sent(sc)
  BY RunningHeld
<1>2. ASSUME NEW id \in Ids, sc.str[id].st \in {"OPENING", "OPENED"}, Waiting("rst", id) = 0
      PROVE  cwin[id] + sc.credit[id] + Credit(id) + sc.ds[id].window
               + Cardinality({i \in 1..Len(sc.in) : sc.in[i].k = "data" /\ sc.in[i].id = id}) = Window
  <2>1. /\ sc.q \in Seq(Items) /\ sc.aob \in Items /\ sc.in \in Seq(Frames) /\ sc.credit[id] \in Nat
        /\ (sc.ds[id] # NullObj <=> sc.ds[id] \in DownstreamType)
    BY <1>1, StateParts
  <2>2. Credit(id) = Granted(sc.q, sc.aob, id)
    BY <2>1, CreditAppend DEF Credit, Granted
  <2>3. Cardinality({i \in 1..Len(sc.in) : sc.in[i].k = "data" /\ sc.in[i].id = id}) = Count(sc.in, Upload(id))
    <3>1. {i \in 1..Len(sc.in) : sc.in[i].k = "data" /\ sc.in[i].id = id}
            = {i \in 1..Len(sc.in) : sc.in[i] \in Upload(id)}
      BY <2>1 DEF Upload
    <3>2. QED
      BY <3>1 DEF Count
  <2>4. sc.ds[id] # NullObj /\ sc.ds[id].window \in Nat
    <3>1. StreamOK(id, sc.str[id], sc.ds[id], sc.q, sc.aob, sc.made[id], sc.sent[id])
      BY <1>1, GoodParts
    <3>2. sc.ds[id] # NullObj
      BY <1>2, <3>1 DEF StreamOK
    <3>3. QED
      BY <2>1, <3>2 DEF DownstreamType
  <2>a. Pend(sc.q, sc.aob, "rst", id) = 0
    BY <1>1, <1>2, WaitingIs
  <2>5. /\ Owed(sc, id) = sc.credit[id] + Granted(sc.q, sc.aob, id) + sc.ds[id].window
        /\ cwin[id] + Owed(sc, id) + Count(sc.in, Upload(id)) = Window
    BY <1>1, <1>2, <2>4, <2>a DEF Good, Ledger, Owed, Counted
  <2>6. cwin[id] \in Nat /\ Granted(sc.q, sc.aob, id) \in Nat /\ Count(sc.in, Upload(id)) \in Nat
    <3>1. cwin[id] \in 0..Window
      BY DEF SpdyInv
    <3>2. QED
      BY <1>1, <3>1, PendNat, OwedNat, WindowIs
  <2>7. cwin[id] + sc.credit[id] + Granted(sc.q, sc.aob, id) + sc.ds[id].window + Count(sc.in, Upload(id)) = Window
    BY <2>1, <2>4, <2>5, <2>6
  <2>8. QED
    BY <2>2, <2>3, <2>7
<1>3. QED
  BY <1>1, <1>2 DEF UploadCredit, Sent

\* The invariant of shrpx_spdy_upstream.cc: every stream, its Downstream and its
\* backend connection are at the same point, and what waits for the client is what
\* its state says.
THEOREM SpdyHolds == SpdySpec => []SpdyInv
<1>1. SpdyInit => SpdyInv
  BY InitInv
<1>2. SpdyInv /\ [SpdyNext]_spdyVars => SpdyInv'
  BY StepInv
<1>3. QED
  BY <1>1, <1>2, PTL DEF SpdySpec

\* The Downstream of a stream lives from SYN_STREAM to on_stream_close_callback, no
\* library callback reaches a deleted one, and the pointers between it and its
\* backend connection agree, for every client, window, threshold and response.
THEOREM DownstreamsPerStream == SpdySpec => []DownstreamPerStream
<1>1. SpdyInv => DownstreamPerStream
  BY PerStream
<1>2. QED
  BY <1>1, SpdyHolds, PTL

\* No body part is lost or doubled between on_downstream_body and the frame that
\* the client gets, the body of a stream is never forgotten by the session, and a
\* paused backend is resumed when the buffer runs empty.
THEOREM BodiesFlow == SpdySpec => []BodyFlows
<1>1. SpdyInv => BodyFlows
  BY Flows
<1>2. QED
  BY <1>1, SpdyHolds, PTL

\* On a stream that is not being reset (no RST_STREAM of it waits to be written),
\* the octets a client may upload, has uploaded and gets returned by window_update
\* always add up to the initial window, and send() leaves nothing behind that the
\* client could take but the WINDOW_UPDATEs that nobody sends.
THEOREM CreditKept == SpdySpec => []UploadCredit
<1>1. SpdyInv => UploadCredit
  BY Credits
<1>2. QED
  BY <1>1, SpdyHolds, PTL
=============================================================================
