----------------------------- MODULE SoundProofs -----------------------------
(***************************************************************************)
(* The inductive invariant of a session: who owns an outbound item, what   *)
(* is parked in a stream and why, which streams are being reset, shut or   *)
(* finished, and that the stream counters are right.  Six invariants that  *)
(* Session states follow from it, for every bound and every world.         *)
(***************************************************************************)
EXTENDS SessionProofs, FiniteSetTheorems

\* The places an outbound item can be in: the two queues q and ss, parked in a
\* stream, p, active, a, and in the hands of the function that moves it, h.  An
\* item is in one place only, and its number is spent.
Apart(q, ss, p, a, h, n) ==
  /\ \A x \in q \cup ss \cup p \cup a \cup h : x.seq < n
  /\ \A x, y \in q \cup ss \cup p \cup a \cup h : x.seq = y.seq => x = y
  /\ q \cap ss = {} /\ (q \cup ss) \cap p = {} /\ (q \cup ss \cup p) \cap a = {}
  /\ (q \cup ss \cup p \cup a) \cap h = {}
  /\ \A x, y \in a : x = y

Parked(s) == UNION {s.streams[i].deferred : i \in LiveStreams(s)}

Owned(s, h) == Apart(s.ob_pq, s.ob_ss_pq, Parked(s), s.aob.item, h, s.next_seq)

\* What a stream parks is one DATA item of its own; what flow control parked
\* waits for a window that is still shut.
Parking(s) ==
  \A i \in LiveStreams(s) :
    /\ \A d \in s.streams[i].deferred : d.f.type = "DATA" /\ d.f.id = i
    /\ \A d, e \in s.streams[i].deferred : d = e
    /\ s.streams[i].deferred_flow =>
         s.streams[i].deferred # {} /\ s.streams[i].window_size <= 0

\* The active frame: the stream of a DATA frame parks nothing meanwhile, so the
\* window may be charged; fin are the streams on which FLAG_FIN was sent.
Flight(s, fin) ==
  \A x \in s.aob.item :
    /\ x.f.type = "DATA" /\ HasStream(s, x.f.id) => s.streams[x.f.id].deferred = {}
    /\ x.f.type \in StreamFrames => Spent(s, x.f.id)
    /\ x.f.type \in StreamFrames \ {"SYN_STREAM"} => x.f.id \notin fin

Resets(s, h) ==
  \A i \in LiveStreams(s) :
    s.streams[i].state = "CLOSING" =>
      \E r \in s.ob_pq \cup s.aob.item \cup h : r.f.type = "RST_STREAM" /\ r.f.id = i

Shuts(s, fin) ==
  \A i \in LiveStreams(s) :
    s.streams[i].shut # {"RD", "WR"} /\ (i \in fin => "WR" \in s.streams[i].shut)

MineOf(s) == {i \in LiveStreams(s) : IsMyStreamId(s, i)}

Counted(s) ==
  /\ s.num_outgoing_streams = Cardinality(MineOf(s))
  /\ s.num_incoming_streams = Cardinality(LiveStreams(s) \ MineOf(s))

IdsSpent(s, fin) ==
  /\ IsMyStreamId(s, s.next_stream_id)
  /\ \A i \in LiveStreams(s) \cup fin : Spent(s, i)

Sound(s, h, fin) ==
  /\ Owned(s, h) /\ Parking(s) /\ Flight(s, fin) /\ Resets(s, h)
  /\ Shuts(s, fin) /\ Counted(s) /\ IdsSpent(s, fin)
-----------------------------------------------------------------------------
(* Moving an item from one place to another.                               *)

LEMMA ApartShrink ==
  ASSUME NEW q, NEW ss, NEW p, NEW a, NEW h, NEW n, Apart(q, ss, p, a, h, n),
         NEW q2 \in SUBSET q, NEW ss2 \in SUBSET ss, NEW p2 \in SUBSET p,
         NEW a2 \in SUBSET a, NEW h2 \in SUBSET h
  PROVE  Apart(q2, ss2, p2, a2, h2, n)
  BY DEF Apart

LEMMA ApartPop ==
  ASSUME NEW q, NEW ss, NEW p, NEW a, NEW n, Apart(q, ss, p, a, {}, n),
         NEW x \in q \cup ss
  PROVE  Apart(q \ {x}, ss \ {x}, p, a, {x}, n)
  BY DEF Apart

LEMMA ApartReplace ==
  ASSUME NEW q, NEW ss, NEW p, NEW a, NEW n, NEW x, Apart(q, ss, p, a, {x}, n),
         NEW y, y.seq = x.seq
  PROVE  Apart(q, ss, p, a, {y}, n)
<1>1. y \notin q \cup ss \cup p \cup a
  BY DEF Apart
<1>2. \A z \in q \cup ss \cup p \cup a : z.seq # x.seq
  BY DEF Apart
<1> QED BY <1>1, <1>2 DEF Apart

LEMMA ApartQueue ==
  ASSUME NEW q, NEW ss, NEW p, NEW a, NEW n, NEW x, Apart(q, ss, p, a, {x}, n)
  PROVE  /\ Apart(q \cup {x}, ss, p, a, {}, n)
         /\ Apart(q, ss \cup {x}, p, a, {}, n)
         /\ Apart(q, ss, p \cup {x}, a, {}, n)
         /\ a = {} => Apart(q, ss, p, {x}, {}, n)
<1>1. Apart(q \cup {x}, ss, p, a, {}, n)
  BY DEF Apart
<1>2. Apart(q, ss \cup {x}, p, a, {}, n)
  BY DEF Apart
<1>3. Apart(q, ss, p \cup {x}, a, {}, n)
  BY DEF Apart
<1>4. a = {} => Apart(q, ss, p, {x}, {}, n)
  BY DEF Apart
<1> QED BY <1>1, <1>2, <1>3, <1>4

LEMMA ApartTake ==
  ASSUME NEW q, NEW ss, NEW p, NEW a, NEW n, Apart(q, ss, p, a, {}, n)
  PROVE  Apart(q, ss, p, {}, a, n)
  BY DEF Apart

LEMMA ApartUnpark ==
  ASSUME NEW q, NEW ss, NEW p, NEW a, NEW h, NEW n, Apart(q, ss, p, a, h, n),
         NEW m \in SUBSET p
  PROVE  Apart(q \cup m, ss, p \ m, a, h, n)
  BY DEF Apart

LEMMA ApartNew ==
  ASSUME NEW q, NEW ss, NEW p, NEW a, NEW h, NEW n \in Nat, Apart(q, ss, p, a, h, n),
         \A x \in q \cup ss \cup p \cup a \cup h : x.seq \in Nat,
         NEW x, x.seq = n
  PROVE  /\ Apart(q \cup {x}, ss, p, a, h, n + 1)
         /\ Apart(q, ss \cup {x}, p, a, h, n + 1)
<1>1. /\ x \notin q \cup ss \cup p \cup a \cup h
      /\ \A z \in q \cup ss \cup p \cup a \cup h : z.seq # x.seq
  BY DEF Apart
<1>2. \A z \in q \cup ss \cup p \cup a \cup h \cup {x} : z.seq < n + 1
  BY DEF Apart
<1>3. Apart(q \cup {x}, ss, p, a, h, n + 1)
  BY <1>1, <1>2 DEF Apart
<1>4. Apart(q, ss \cup {x}, p, a, h, n + 1)
  BY <1>1, <1>2 DEF Apart
<1> QED BY <1>3, <1>4
-----------------------------------------------------------------------------
(* Streams and counters.                                                   *)

\* The same streams are in the map and counted, and no ID was spent.
Calm(s, t) ==
  /\ t.server = s.server
  /\ t.next_stream_id = s.next_stream_id
  /\ t.last_recv_stream_id = s.last_recv_stream_id
  /\ t.num_outgoing_streams = s.num_outgoing_streams
  /\ t.num_incoming_streams = s.num_incoming_streams
  /\ LiveStreams(t) = LiveStreams(s)

LEMMA CalmSound ==
  ASSUME NEW s, NEW t, NEW fin, Calm(s, t)
  PROVE  /\ Counted(s) => Counted(t)
         /\ IdsSpent(s, fin) => IdsSpent(t, fin)
         /\ \A i : Spent(s, i) => Spent(t, i)
<1>1. \A i : IsMyStreamId(t, i) = IsMyStreamId(s, i)
  BY DEF Calm, IsMyStreamId
<1>2. \A i : Spent(t, i) = Spent(s, i)
  BY <1>1 DEF Calm, Spent
<1>3. MineOf(t) = MineOf(s)
  BY <1>1 DEF Calm, MineOf
<1>4. Counted(s) => Counted(t)
  BY <1>3 DEF Calm, Counted
<1>5. IdsSpent(s, fin) => IdsSpent(t, fin)
  BY <1>1, <1>2 DEF Calm, IdsSpent
<1> QED BY <1>2, <1>4, <1>5

\* The queues, the active item and the numbers are as they were.
SameQueues(s, t) ==
  /\ t.ob_pq = s.ob_pq /\ t.ob_ss_pq = s.ob_ss_pq /\ t.aob.item = s.aob.item
  /\ t.next_seq = s.next_seq

LEMMA SameSound ==
  ASSUME NEW s, NEW t, NEW h, NEW fin, Sound(s, h, fin),
         t.streams = s.streams, t.server = s.server,
         t.next_stream_id = s.next_stream_id,
         t.last_recv_stream_id = s.last_recv_stream_id,
         t.num_outgoing_streams = s.num_outgoing_streams,
         t.num_incoming_streams = s.num_incoming_streams, SameQueues(s, t)
  PROVE  Sound(t, h, fin)
<1>1. /\ Calm(s, t) /\ Parked(t) = Parked(s)
      /\ \A i : HasStream(t, i) = HasStream(s, i)
  BY DEF Calm, LiveStreams, HasStream, Parked
<1>2. Owned(t, h)
  BY <1>1 DEF Sound, Owned, SameQueues
<1>3. Parking(t) /\ Resets(t, h) /\ Shuts(t, fin)
  BY <1>1 DEF Sound, Parking, Resets, Shuts, Calm, SameQueues
<1>4. Flight(t, fin)
  BY <1>1, CalmSound DEF Sound, Flight, SameQueues
<1> QED BY <1>1, <1>2, <1>3, <1>4, CalmSound DEF Sound

LEMMA FieldUpdatesSound ==
  ASSUME NEW s \in SessionType, NEW h, NEW fin, Sound(s, h, fin), NEW v, NEW w
  PROVE  /\ Sound([s EXCEPT !.iframe = v], h, fin)
         /\ Sound([s EXCEPT !.certvec = v], h, fin)
         /\ Sound([s EXCEPT !.goaway_flags = v], h, fin)
         /\ Sound([s EXCEPT !.last_good_stream_id = w, !.goaway_flags = v], h, fin)
         /\ Sound([s EXCEPT !.remote = v], h, fin)
         /\ Sound([s EXCEPT !.local = v], h, fin)
         /\ Sound([s EXCEPT !.auto_window_update = v], h, fin)
         /\ Sound([s EXCEPT !.last_ping_unique_id = v], h, fin)
         /\ Sound([s EXCEPT !.next_unique_id = v], h, fin)
<1>1. Sound([s EXCEPT !.iframe = v], h, fin) /\ Sound([s EXCEPT !.certvec = v], h, fin)
  BY SameSound DEF SessionType, SameQueues
<1>2. /\ Sound([s EXCEPT !.goaway_flags = v], h, fin)
      /\ Sound([s EXCEPT !.remote = v], h, fin)
  BY SameSound DEF SessionType, SameQueues
<1> DEFINE t == [s EXCEPT !.last_good_stream_id = w, !.goaway_flags = v]
<1>3. Sound(t, h, fin)
  <2>1. /\ t.streams = s.streams /\ t.server = s.server
        /\ t.next_stream_id = s.next_stream_id
        /\ t.last_recv_stream_id = s.last_recv_stream_id
        /\ t.num_outgoing_streams = s.num_outgoing_streams
        /\ t.num_incoming_streams = s.num_incoming_streams /\ SameQueues(s, t)
    BY DEF SessionType, SameQueues
  <2> QED BY <2>1, SameSound DEF t
<1>4. /\ Sound([s EXCEPT !.local = v], h, fin)
      /\ Sound([s EXCEPT !.auto_window_update = v], h, fin)
  BY SameSound DEF SessionType, SameQueues
<1>5. /\ Sound([s EXCEPT !.last_ping_unique_id = v], h, fin)
      /\ Sound([s EXCEPT !.next_unique_id = v], h, fin)
  BY SameSound DEF SessionType, SameQueues
<1> QED BY <1>1, <1>2, <1>3, <1>4, <1>5

LEMMA FlightKept ==
  ASSUME NEW s \in SessionType, NEW t, NEW fin, Flight(s, fin),
         t.aob.item \subseteq s.aob.item,
         \A i \in StreamId : HasStream(t, i) =>
           \/ t.streams[i].deferred = {}
           \/ HasStream(s, i) /\ t.streams[i].deferred \subseteq s.streams[i].deferred,
         \A i \in StreamId : Spent(s, i) => Spent(t, i)
  PROVE  Flight(t, fin)
<1>1. \A x \in s.aob.item : x.f.id \in StreamId
  BY ItemFrame DEF SessionType, AobType
<1> QED BY <1>1 DEF Flight

\* What PutStream changes.
LEMMA PutStreamEffect ==
  ASSUME NEW s \in SessionType, NEW id \in StreamId, NEW str
  PROVE  LET t == PutStream(s, id, str)
         IN  /\ t.server = s.server /\ t.next_stream_id = s.next_stream_id
             /\ t.last_recv_stream_id = s.last_recv_stream_id
             /\ t.num_outgoing_streams = s.num_outgoing_streams
             /\ t.num_incoming_streams = s.num_incoming_streams
             /\ SameQueues(s, t) /\ t.aob = s.aob
             /\ \A i \in StreamId : t.streams[i] = IF i = id THEN str ELSE s.streams[i]
<1> DEFINE t == [s EXCEPT !.streams[id] = str]
<1>1. /\ t.server = s.server /\ t.next_stream_id = s.next_stream_id
      /\ t.last_recv_stream_id = s.last_recv_stream_id
      /\ t.num_outgoing_streams = s.num_outgoing_streams
      /\ t.num_incoming_streams = s.num_incoming_streams
  BY DEF SessionType
<1>2. SameQueues(s, t) /\ t.aob = s.aob
  BY DEF SessionType, SameQueues
<1>3. \A i \in StreamId : t.streams[i] = IF i = id THEN str ELSE s.streams[i]
  BY DEF SessionType
<1> QED BY <1>1, <1>2, <1>3 DEF PutStream

\* RST_STREAM for stream id is in the queue.
RstQueued(s, id) == \E r \in s.ob_pq : r.f.type = "RST_STREAM" /\ r.f.id = id

\* A stream in the map that stays there, keeps what it has parked, is marked
\* CLOSING with reason and does not end up shut in both directions.
LEMMA PutStreamSound ==
  ASSUME NEW s \in SessionType, NEW h, NEW fin, Sound(s, h, fin),
         NEW id \in StreamId, HasStream(s, id), NEW str, str.state # "NONE",
         str.state = "CLOSING" => s.streams[id].state = "CLOSING" \/ RstQueued(s, id),
         str.deferred = s.streams[id].deferred,
         str.deferred_flow => s.streams[id].deferred_flow /\ str.window_size <= 0,
         s.streams[id].shut \subseteq str.shut, str.shut # {"RD", "WR"}
  PROVE  Sound(PutStream(s, id, str), h, fin)
<1> DEFINE t == PutStream(s, id, str)
<1>1. /\ t.server = s.server /\ t.next_stream_id = s.next_stream_id
      /\ t.last_recv_stream_id = s.last_recv_stream_id
      /\ t.num_outgoing_streams = s.num_outgoing_streams
      /\ t.num_incoming_streams = s.num_incoming_streams
      /\ SameQueues(s, t)
      /\ \A i \in StreamId : t.streams[i] = IF i = id THEN str ELSE s.streams[i]
  BY PutStreamEffect
<1> HIDE DEF t
<1>2. LiveStreams(t) = LiveStreams(s) /\ Calm(s, t)
  BY <1>1 DEF LiveStreams, HasStream, Calm
<1>3. \A i \in LiveStreams(s) : /\ i \in StreamId /\ HasStream(s, i)
                               /\ t.streams[i].deferred = s.streams[i].deferred
  BY <1>1 DEF LiveStreams
<1>4. Owned(t, h)
  <2>1. Parked(t) = Parked(s)
    BY <1>2, <1>3 DEF Parked
  <2> QED BY <1>1, <2>1 DEF Sound, Owned, SameQueues
<1>5. Parking(t)
  BY <1>1, <1>2, <1>3 DEF Sound, Parking
<1>6. Flight(t, fin)
  <2>1. \A i \in StreamId : HasStream(t, i) =>
          HasStream(s, i) /\ t.streams[i].deferred = s.streams[i].deferred
    BY <1>1 DEF HasStream
  <2>2. \A i \in StreamId : Spent(s, i) => Spent(t, i)
    BY <1>2, CalmSound
  <2> QED BY <1>1, <2>1, <2>2, FlightKept DEF Sound, SameQueues
<1>7. Resets(t, h)
  BY <1>1, <1>2, <1>3 DEF Sound, Resets, SameQueues, RstQueued
<1>8. Shuts(t, fin)
  BY <1>1, <1>2, <1>3 DEF Sound, Shuts
<1> QED BY <1>2, <1>4, <1>5, <1>6, <1>7, <1>8, CalmSound DEF Sound, t

LEMMA LiveFinite ==
  ASSUME NEW s
  PROVE  /\ IsFiniteSet(LiveStreams(s)) /\ IsFiniteSet(MineOf(s))
         /\ IsFiniteSet(LiveStreams(s) \ MineOf(s))
<1>1. IsFiniteSet(StreamId)
  BY FS_Interval, BoundsAssumption DEF StreamId
<1> QED BY <1>1, FS_Subset DEF LiveStreams, MineOf

LEMMA CountStreamEffect ==
  ASSUME NEW s \in SessionType, NEW id, NEW n \in Int
  PROVE  LET t == CountStream(s, id, n)
         IN  /\ t.server = s.server /\ t.next_stream_id = s.next_stream_id
             /\ t.last_recv_stream_id = s.last_recv_stream_id
             /\ t.num_outgoing_streams =
                  s.num_outgoing_streams + IF IsMyStreamId(s, id) THEN n ELSE 0
             /\ t.num_incoming_streams =
                  s.num_incoming_streams + IF IsMyStreamId(s, id) THEN 0 ELSE n
             /\ t.streams = s.streams /\ SameQueues(s, t)
<1> DEFINE a == [s EXCEPT !.num_outgoing_streams = @ + n]
           b == [s EXCEPT !.num_incoming_streams = @ + n]
<1>1. /\ a.server = s.server /\ a.next_stream_id = s.next_stream_id
      /\ a.last_recv_stream_id = s.last_recv_stream_id
      /\ a.num_outgoing_streams = s.num_outgoing_streams + n
      /\ a.num_incoming_streams = s.num_incoming_streams + 0
      /\ a.streams = s.streams /\ SameQueues(s, a)
  BY DEF SessionType, SameQueues
<1>2. /\ b.server = s.server /\ b.next_stream_id = s.next_stream_id
      /\ b.last_recv_stream_id = s.last_recv_stream_id
      /\ b.num_outgoing_streams = s.num_outgoing_streams + 0
      /\ b.num_incoming_streams = s.num_incoming_streams + n
      /\ b.streams = s.streams /\ SameQueues(s, b)
  BY DEF SessionType, SameQueues
<1>3. CountStream(s, id, n) = IF IsMyStreamId(s, id) THEN a ELSE b
  BY DEF CountStream
<1> HIDE DEF a, b
<1> QED BY <1>1, <1>2, <1>3

\* From s to t stream id left the map (n = -1) or came in as str (n = 1).
Replaced(s, t, id, str, n) ==
  /\ t.server = s.server /\ t.next_stream_id = s.next_stream_id
  /\ t.last_recv_stream_id = s.last_recv_stream_id
  /\ t.num_outgoing_streams =
       s.num_outgoing_streams + IF IsMyStreamId(s, id) THEN n ELSE 0
  /\ t.num_incoming_streams =
       s.num_incoming_streams + IF IsMyStreamId(s, id) THEN 0 ELSE n
  /\ SameQueues(s, t)
  /\ \A i \in StreamId : t.streams[i] = IF i = id THEN str ELSE s.streams[i]

LEMMA ReplacedEffect ==
  ASSUME NEW s \in SessionType, NEW id \in StreamId, NEW str \in Stream, NEW n \in Int
  PROVE  Replaced(s, CountStream(PutStream(s, id, str), id, n), id, str, n)
<1> DEFINE p == PutStream(s, id, str)
<1>1. p \in SessionType
  BY PutStreamType
<1>2. /\ p.server = s.server /\ p.next_stream_id = s.next_stream_id
      /\ p.last_recv_stream_id = s.last_recv_stream_id
      /\ p.num_outgoing_streams = s.num_outgoing_streams
      /\ p.num_incoming_streams = s.num_incoming_streams
      /\ SameQueues(s, p)
      /\ \A i \in StreamId : p.streams[i] = IF i = id THEN str ELSE s.streams[i]
  BY PutStreamEffect
<1> HIDE DEF p
<1>3. IsMyStreamId(p, id) = IsMyStreamId(s, id)
  BY <1>2 DEF IsMyStreamId
<1> DEFINE t == CountStream(p, id, n)
<1>4. /\ t.server = p.server /\ t.next_stream_id = p.next_stream_id
      /\ t.last_recv_stream_id = p.last_recv_stream_id
      /\ t.num_outgoing_streams =
           p.num_outgoing_streams + IF IsMyStreamId(p, id) THEN n ELSE 0
      /\ t.num_incoming_streams =
           p.num_incoming_streams + IF IsMyStreamId(p, id) THEN 0 ELSE n
      /\ t.streams = p.streams /\ SameQueues(p, t)
  BY <1>1, CountStreamEffect
<1> HIDE DEF t
<1>5. SameQueues(s, t)
  BY <1>2, <1>4 DEF SameQueues
<1> QED BY <1>2, <1>3, <1>4, <1>5 DEF Replaced, t, p

LEMMA RemovedSound ==
  ASSUME NEW s \in SessionType, NEW t, NEW h, NEW fin, Sound(s, h, fin),
         NEW id \in StreamId, HasStream(s, id), Replaced(s, t, id, NoStream, -1)
  PROVE  Sound(t, h, fin) /\ ~HasStream(t, id)
<1>1. /\ LiveStreams(t) = LiveStreams(s) \ {id} /\ id \in LiveStreams(s)
      /\ ~HasStream(t, id)
      /\ \A i \in LiveStreams(t) : /\ i \in StreamId /\ i \in LiveStreams(s)
                                   /\ t.streams[i] = s.streams[i]
  BY DEF Replaced, LiveStreams, HasStream, NoStream
<1>2. \A i : IsMyStreamId(t, i) = IsMyStreamId(s, i)
  BY DEF Replaced, IsMyStreamId
<1>3. \A i : Spent(t, i) = Spent(s, i)
  BY <1>2 DEF Replaced, Spent
<1>4. Owned(t, h)
  <2>1. Parked(t) \subseteq Parked(s)
    BY <1>1 DEF Parked
  <2> QED BY <2>1, ApartShrink DEF Sound, Owned, Replaced, SameQueues
<1>5. Parking(t)
  BY <1>1 DEF Sound, Parking
<1>6. Flight(t, fin)
  <2>1. \A i \in StreamId : HasStream(t, i) =>
          HasStream(s, i) /\ t.streams[i].deferred \subseteq s.streams[i].deferred
    BY <1>1 DEF LiveStreams
  <2>2. t.aob.item \subseteq s.aob.item
    BY DEF Replaced, SameQueues
  <2> QED BY <1>3, <2>1, <2>2, FlightKept DEF Sound
<1>7. Resets(t, h)
  BY <1>1 DEF Sound, Resets, Replaced, SameQueues
<1>8. Shuts(t, fin)
  BY <1>1 DEF Sound, Shuts
<1>9. Counted(t)
  <2>1. /\ MineOf(t) = IF IsMyStreamId(s, id) THEN MineOf(s) \ {id} ELSE MineOf(s)
        /\ LiveStreams(t) \ MineOf(t)
             = IF IsMyStreamId(s, id) THEN LiveStreams(s) \ MineOf(s)
               ELSE (LiveStreams(s) \ MineOf(s)) \ {id}
    BY <1>1, <1>2 DEF MineOf
  <2>2. IF IsMyStreamId(s, id) THEN id \in MineOf(s) ELSE id \in LiveStreams(s) \ MineOf(s)
    BY <1>1 DEF MineOf
  <2>3. /\ \A S : IsFiniteSet(S) /\ id \in S => Cardinality(S \ {id}) = Cardinality(S) - 1
        /\ Cardinality(MineOf(s)) \in Nat
        /\ Cardinality(LiveStreams(s) \ MineOf(s)) \in Nat
    BY LiveFinite, FS_RemoveElement, FS_CardinalityType
  <2>4. CASE IsMyStreamId(s, id)
    <3> DEFINE S == LiveStreams(s) \ MineOf(s)
               T == LiveStreams(t) \ MineOf(t)
    <3>1. T = S /\ MineOf(t) = MineOf(s) \ {id} /\ id \in MineOf(s)
      BY <2>1, <2>2, <2>4
    <3> HIDE DEF S, T
    <3>2. Cardinality(MineOf(t)) = Cardinality(MineOf(s)) - 1
      BY <2>3, <3>1, LiveFinite
    <3>3. /\ t.num_outgoing_streams = s.num_outgoing_streams - 1
          /\ t.num_incoming_streams = s.num_incoming_streams
      BY <2>4 DEF Replaced, SessionType
    <3> QED BY <3>1, <3>2, <3>3 DEF Sound, Counted, S, T
  <2>5. CASE ~IsMyStreamId(s, id)
    <3> DEFINE S == LiveStreams(s) \ MineOf(s)
               T == LiveStreams(t) \ MineOf(t)
    <3>1. T = S \ {id} /\ MineOf(t) = MineOf(s) /\ id \in S
      BY <2>1, <2>2, <2>5
    <3>2. IsFiniteSet(S)
      BY LiveFinite
    <3> HIDE DEF S, T
    <3>3. Cardinality(T) = Cardinality(S) - 1
      BY <2>3, <3>1, <3>2
    <3>4. /\ t.num_outgoing_streams = s.num_outgoing_streams
          /\ t.num_incoming_streams = s.num_incoming_streams - 1
      BY <2>5 DEF Replaced, SessionType
    <3> QED BY <3>1, <3>3, <3>4 DEF Sound, Counted, S, T
  <2> QED BY <2>4, <2>5
<1>10. IdsSpent(t, fin)
  BY <1>1, <1>2, <1>3 DEF Sound, IdsSpent, Replaced
<1> QED BY <1>1, <1>4, <1>5, <1>6, <1>7, <1>8, <1>9, <1>10 DEF Sound

LEMMA CloseStreamSound ==
  ASSUME NEW s \in SessionType, NEW h, NEW fin, Sound(s, h, fin), NEW id \in StreamId
  PROVE  Sound(CloseStream(s, id), h, fin) /\ ~HasStream(CloseStream(s, id), id)
<1>1. CASE HasStream(s, id)
  <2>1. Replaced(s, CloseStream(s, id), id, NoStream, -1)
    BY <1>1, NoStreamType, ReplacedEffect DEF CloseStream
  <2> QED BY <1>1, <2>1, RemovedSound
<1>2. CASE ~HasStream(s, id)
  BY <1>2 DEF CloseStream
<1> QED BY <1>1, <1>2

LEMMA AddedSound ==
  ASSUME NEW s \in SessionType, NEW t, NEW h, NEW fin, Sound(s, h, fin),
         NEW id \in StreamId, ~HasStream(s, id), Spent(s, id), id \notin fin,
         NEW str, Replaced(s, t, id, str, 1), str.state \notin {"NONE", "CLOSING"},
         str.deferred = {}, ~str.deferred_flow, str.shut # {"RD", "WR"}
  PROVE  Sound(t, h, fin)
<1>1. /\ LiveStreams(t) = LiveStreams(s) \cup {id} /\ id \notin LiveStreams(s)
      /\ t.streams[id] = str
      /\ \A i \in LiveStreams(s) : i \in StreamId /\ t.streams[i] = s.streams[i]
  BY DEF Replaced, LiveStreams, HasStream
<1>2. \A i : IsMyStreamId(t, i) = IsMyStreamId(s, i)
  BY DEF Replaced, IsMyStreamId
<1>3. \A i : Spent(t, i) = Spent(s, i)
  BY <1>2 DEF Replaced, Spent
<1>4. Owned(t, h)
  <2>1. Parked(t) \subseteq Parked(s)
    BY <1>1 DEF Parked
  <2> QED BY <2>1, ApartShrink DEF Sound, Owned, Replaced, SameQueues
<1>5. Parking(t)
  BY <1>1 DEF Sound, Parking
<1>6. Flight(t, fin)
  <2>1. \A i \in StreamId : HasStream(t, i) =>
          \/ t.streams[i].deferred = {}
          \/ HasStream(s, i) /\ t.streams[i].deferred \subseteq s.streams[i].deferred
    BY <1>1 DEF LiveStreams
  <2>2. t.aob.item \subseteq s.aob.item
    BY DEF Replaced, SameQueues
  <2> QED BY <1>3, <2>1, <2>2, FlightKept DEF Sound
<1>7. Resets(t, h)
  BY <1>1 DEF Sound, Resets, Replaced, SameQueues
<1>8. Shuts(t, fin)
  BY <1>1 DEF Sound, Shuts
<1>9. Counted(t)
  <2> DEFINE S == LiveStreams(s) \ MineOf(s)
             T == LiveStreams(t) \ MineOf(t)
  <2>1. /\ \A X : IsFiniteSet(X) /\ id \notin X =>
             Cardinality(X \cup {id}) = Cardinality(X) + 1
        /\ IsFiniteSet(MineOf(s)) /\ IsFiniteSet(S)
    BY LiveFinite, FS_AddElement
  <2>2. CASE IsMyStreamId(s, id)
    <3>1. MineOf(t) = MineOf(s) \cup {id} /\ T = S /\ id \notin MineOf(s)
      BY <1>1, <1>2, <2>2 DEF MineOf
    <3> HIDE DEF S, T
    <3>2. Cardinality(MineOf(t)) = Cardinality(MineOf(s)) + 1
      BY <2>1, <3>1
    <3>3. /\ t.num_outgoing_streams = s.num_outgoing_streams + 1
          /\ t.num_incoming_streams = s.num_incoming_streams
      BY <2>2 DEF Replaced, SessionType
    <3> QED BY <3>1, <3>2, <3>3 DEF Sound, Counted, S, T
  <2>3. CASE ~IsMyStreamId(s, id)
    <3>1. MineOf(t) = MineOf(s) /\ T = S \cup {id} /\ id \notin S
      BY <1>1, <1>2, <2>3 DEF MineOf
    <3> HIDE DEF S, T
    <3>2. Cardinality(T) = Cardinality(S) + 1
      BY <2>1, <3>1
    <3>3. /\ t.num_outgoing_streams = s.num_outgoing_streams
          /\ t.num_incoming_streams = s.num_incoming_streams + 1
      BY <2>3 DEF Replaced, SessionType
    <3> QED BY <3>1, <3>2, <3>3 DEF Sound, Counted, S, T
  <2> QED BY <2>2, <2>3
<1>10. IdsSpent(t, fin)
  BY <1>1, <1>2, <1>3 DEF Sound, IdsSpent, Replaced
<1> QED BY <1>4, <1>5, <1>6, <1>7, <1>8, <1>9, <1>10 DEF Sound

LEMMA OpenStreamSound ==
  ASSUME NEW s \in SessionType, NEW h, NEW fin, Sound(s, h, fin),
         NEW id \in StreamId, ~HasStream(s, id), Spent(s, id), id \notin fin,
         NEW pri \in 0..PriLowest, NEW st \in {"INITIAL", "OPENING"}
  PROVE  LET t == OpenStream(s, id, pri, st)
         IN  /\ Sound(t, h, fin)
             /\ t.streams[id].shut = {} /\ HasStream(t, id) /\ t.aob.item = s.aob.item
<1> DEFINE str == StreamInit(s, pri, st)
           t == OpenStream(s, id, pri, st)
<1>1. str \in Stream
  BY StreamInitType DEF States
<1>2. /\ str.state = st /\ str.deferred = {} /\ ~str.deferred_flow /\ str.shut = {}
      /\ str.shut # {"RD", "WR"}
  BY DEF StreamInit
<1>3. t = CountStream(PutStream(s, id, str), id, 1)
  BY DEF OpenStream
<1> HIDE DEF str, t
<1>4. Replaced(s, t, id, str, 1)
  BY <1>1, <1>3, ReplacedEffect
<1>5. Sound(t, h, fin)
  BY <1>2, <1>4, AddedSound
<1>6. t.streams[id] = str /\ t.aob.item = s.aob.item
  BY <1>4 DEF Replaced, SameQueues
<1> QED BY <1>2, <1>5, <1>6 DEF HasStream, t

LEMMA SetStateSound ==
  ASSUME NEW s \in SessionType, NEW h, NEW fin, Sound(s, h, fin),
         NEW id \in StreamId, HasStream(s, id), NEW st, st # "NONE",
         st = "CLOSING" => s.streams[id].state = "CLOSING" \/ RstQueued(s, id)
  PROVE  LET t == SetState(s, id, st)
         IN  Sound(t, h, fin) /\ HasStream(t, id) /\ t.aob.item = s.aob.item
<1> DEFINE str == [s.streams[id] EXCEPT !.state = st]
           old == s.streams[id]
           t == PutStream(s, id, str)
<1>1. old \in Stream
  BY StreamAtType
<1>2. /\ str.state = st /\ str.deferred = old.deferred
      /\ str.deferred_flow = old.deferred_flow /\ str.shut = old.shut
      /\ str.window_size = old.window_size
  BY <1>1 DEF Stream
<1>3. id \in LiveStreams(s)
  BY DEF LiveStreams
<1>4. /\ old.shut # {"RD", "WR"}
      /\ old.deferred_flow => old.window_size <= 0
  BY <1>3 DEF Sound, Shuts, Parking
<1> HIDE DEF str, old
<1>5. Sound(t, h, fin)
  BY <1>2, <1>4, PutStreamSound DEF old
<1>6. t.streams[id] = str /\ t.aob = s.aob
  BY PutStreamEffect
<1> QED BY <1>2, <1>5, <1>6 DEF SetState, HasStream, t, str, old

\* spdylay_stream_shutdown and spdylay_session_close_stream_if_shut_rdwr: the
\* stream is closed when the other direction was shut before.
LEMMA ShutCloseSound ==
  ASSUME NEW s \in SessionType, NEW h, NEW fin, Sound(s, h, fin),
         NEW id \in StreamId, HasStream(s, id), NEW flags \in SUBSET {"RD", "WR"}
  PROVE  LET t == CloseStreamIfShutRdwr(Shutdown(s, id, flags), id)
         IN  /\ Sound(t, h, fin) /\ t.aob.item = s.aob.item
             /\ HasStream(t, id) => flags \subseteq t.streams[id].shut
<1> DEFINE old == s.streams[id]
           str == [old EXCEPT !.shut = @ \cup flags]
           p == PutStream(s, id, str)
           t == CloseStreamIfShutRdwr(p, id)
<1>1. old \in Stream
  BY StreamAtType
<1>2. /\ str.state = old.state /\ str.deferred = old.deferred
      /\ str.deferred_flow = old.deferred_flow /\ str.shut = old.shut \cup flags
      /\ str.window_size = old.window_size /\ str \in Stream
  BY <1>1 DEF Stream
<1>3. /\ old.state # "NONE"
      /\ old.deferred_flow => old.window_size <= 0
  <2>1. id \in LiveStreams(s)
    BY DEF LiveStreams
  <2> QED BY <2>1 DEF Sound, Parking, HasStream
<1>4. /\ p.server = s.server /\ p.next_stream_id = s.next_stream_id
      /\ p.last_recv_stream_id = s.last_recv_stream_id
      /\ p.num_outgoing_streams = s.num_outgoing_streams
      /\ p.num_incoming_streams = s.num_incoming_streams
      /\ SameQueues(s, p) /\ p.aob = s.aob
      /\ \A i \in StreamId : p.streams[i] = IF i = id THEN str ELSE s.streams[i]
  BY PutStreamEffect
<1>5. p \in SessionType
  BY <1>2, PutStreamType
<1>6. Shutdown(s, id, flags) = p
  BY DEF Shutdown
<1> HIDE DEF str, old, p
<1>7. p.streams[id] = str /\ HasStream(p, id)
  BY <1>2, <1>3, <1>4 DEF HasStream
<1>8. CASE str.shut = {"RD", "WR"}
  <2>1. t = CloseStream(p, id)
    BY <1>7, <1>8 DEF CloseStreamIfShutRdwr
  <2>2. Replaced(p, t, id, NoStream, -1)
    BY <1>5, <1>7, <2>1, NoStreamType, ReplacedEffect DEF CloseStream
  <2> HIDE DEF t
  <2>3. IsMyStreamId(p, id) = IsMyStreamId(s, id) /\ SameQueues(s, t)
    BY <1>4, <2>2 DEF IsMyStreamId, Replaced, SameQueues
  <2>4. Replaced(s, t, id, NoStream, -1)
    BY <1>4, <2>2, <2>3 DEF Replaced
  <2>5. Sound(t, h, fin) /\ ~HasStream(t, id)
    BY <2>4, RemovedSound
  <2> QED BY <1>6, <2>3, <2>5 DEF SameQueues, t
<1>9. CASE str.shut # {"RD", "WR"}
  <2>1. t = p
    BY <1>7, <1>9 DEF CloseStreamIfShutRdwr
  <2>2. Sound(p, h, fin)
    BY <1>2, <1>3, <1>9, PutStreamSound DEF p, old
  <2> QED BY <1>2, <1>4, <1>6, <1>7, <2>1, <2>2
<1> QED BY <1>8, <1>9
-----------------------------------------------------------------------------
(* Items on their way.                                                     *)

\* Only items move.
LEMMA MovedSound ==
  ASSUME NEW s, NEW t, NEW h, NEW k, NEW fin, Sound(s, h, fin),
         t.streams = s.streams, t.server = s.server,
         t.next_stream_id = s.next_stream_id,
         t.last_recv_stream_id = s.last_recv_stream_id,
         t.num_outgoing_streams = s.num_outgoing_streams,
         t.num_incoming_streams = s.num_incoming_streams,
         Apart(t.ob_pq, t.ob_ss_pq, Parked(s), t.aob.item, k, t.next_seq),
         Flight(t, fin),
         \A r \in s.ob_pq \cup s.aob.item \cup h :
           \/ r \in t.ob_pq \cup t.aob.item \cup k
           \/ r.f.type # "RST_STREAM" \/ r.f.id \notin LiveStreams(s)
  PROVE  Sound(t, k, fin)
<1>1. Calm(s, t) /\ Parked(t) = Parked(s) /\ LiveStreams(t) = LiveStreams(s)
  BY DEF Calm, LiveStreams, HasStream, Parked
<1>2. Owned(t, k)
  BY <1>1 DEF Owned
<1>3. Parking(t) /\ Shuts(t, fin)
  BY <1>1 DEF Sound, Parking, Shuts
<1>4. Resets(t, k)
  BY <1>1 DEF Sound, Resets
<1> QED BY <1>1, <1>2, <1>3, <1>4, CalmSound DEF Sound

\* An item that is freed, the RST_STREAM of a stream in the map excepted.
LEMMA DropSound ==
  ASSUME NEW s, NEW x, NEW fin, Sound(s, {x}, fin),
         x.f.type # "RST_STREAM" \/ x.f.id \notin LiveStreams(s)
  PROVE  Sound(s, {}, fin)
<1>1. Apart(s.ob_pq, s.ob_ss_pq, Parked(s), s.aob.item, {}, s.next_seq)
  BY ApartShrink DEF Sound, Owned
<1> QED BY <1>1, MovedSound DEF Sound

LEMMA ReplaceSound ==
  ASSUME NEW s, NEW x, NEW y, NEW fin, Sound(s, {x}, fin),
         x.f.type # "RST_STREAM", y.seq = x.seq
  PROVE  Sound(s, {y}, fin)
<1>1. Apart(s.ob_pq, s.ob_ss_pq, Parked(s), s.aob.item, {y}, s.next_seq)
  BY ApartReplace DEF Sound, Owned
<1> QED BY <1>1, MovedSound DEF Sound

LEMMA PoppedSound ==
  ASSUME NEW s \in SessionType, NEW fin, Sound(s, {}, fin),
         NEW x \in s.ob_pq \cup s.ob_ss_pq
  PROVE  LET t == Popped(s, x) IN Sound(t, {x}, fin) /\ t.aob = s.aob
<1> DEFINE t == [s EXCEPT !.ob_pq = @ \ {x}, !.ob_ss_pq = @ \ {x}]
<1>1. /\ t.streams = s.streams /\ t.server = s.server
      /\ t.next_stream_id = s.next_stream_id
      /\ t.last_recv_stream_id = s.last_recv_stream_id
      /\ t.num_outgoing_streams = s.num_outgoing_streams
      /\ t.num_incoming_streams = s.num_incoming_streams
      /\ t.aob = s.aob /\ t.next_seq = s.next_seq
      /\ t.ob_pq = s.ob_pq \ {x} /\ t.ob_ss_pq = s.ob_ss_pq \ {x}
  BY DEF SessionType
<1>2. Popped(s, x) = t
  BY DEF Popped
<1> HIDE DEF t
<1>3. Apart(t.ob_pq, t.ob_ss_pq, Parked(s), t.aob.item, {x}, t.next_seq)
  BY <1>1, ApartPop DEF Sound, Owned
<1>4. Flight(t, fin)
  BY <1>1 DEF Sound, Flight, Spent, IsMyStreamId, HasStream
<1>5. Sound(t, {x}, fin)
  BY <1>1, <1>3, <1>4, MovedSound
<1> QED BY <1>1, <1>2, <1>5

\* The item in hand goes, or goes back, to its queue.
LEMMA QueuedSound ==
  ASSUME NEW s \in SessionType, NEW x, NEW fin, Sound(s, {x}, fin)
  PROVE  /\ Sound([s EXCEPT !.ob_pq = @ \cup {x}], {}, fin)
         /\ x.f.type # "RST_STREAM" => Sound([s EXCEPT !.ob_ss_pq = @ \cup {x}], {}, fin)
<1> DEFINE t == [s EXCEPT !.ob_pq = @ \cup {x}]
           u == [s EXCEPT !.ob_ss_pq = @ \cup {x}]
<1>1. Sound(t, {}, fin)
  <2>1. /\ t.streams = s.streams /\ t.server = s.server
        /\ t.next_stream_id = s.next_stream_id
        /\ t.last_recv_stream_id = s.last_recv_stream_id
        /\ t.num_outgoing_streams = s.num_outgoing_streams
        /\ t.num_incoming_streams = s.num_incoming_streams
        /\ t.aob = s.aob /\ t.next_seq = s.next_seq
        /\ t.ob_pq = s.ob_pq \cup {x} /\ t.ob_ss_pq = s.ob_ss_pq
    BY DEF SessionType
  <2> HIDE DEF t
  <2>2. Apart(t.ob_pq, t.ob_ss_pq, Parked(s), t.aob.item, {}, t.next_seq)
    <3>1. Apart(s.ob_pq, s.ob_ss_pq, Parked(s), s.aob.item, {x}, s.next_seq)
      BY DEF Sound, Owned
    <3>2. Apart(s.ob_pq \cup {x}, s.ob_ss_pq, Parked(s), s.aob.item, {}, s.next_seq)
      BY <3>1, ApartQueue
    <3> QED BY <2>1, <3>2
  <2>3. Flight(t, fin)
    BY <2>1 DEF Sound, Flight, Spent, IsMyStreamId, HasStream
  <2> QED BY <2>1, <2>2, <2>3, MovedSound
<1>2. x.f.type # "RST_STREAM" => Sound(u, {}, fin)
  <2>1. /\ u.streams = s.streams /\ u.server = s.server
        /\ u.next_stream_id = s.next_stream_id
        /\ u.last_recv_stream_id = s.last_recv_stream_id
        /\ u.num_outgoing_streams = s.num_outgoing_streams
        /\ u.num_incoming_streams = s.num_incoming_streams
        /\ u.aob = s.aob /\ u.next_seq = s.next_seq
        /\ u.ob_pq = s.ob_pq /\ u.ob_ss_pq = s.ob_ss_pq \cup {x}
    BY DEF SessionType
  <2> HIDE DEF u
  <2>2. Apart(u.ob_pq, u.ob_ss_pq, Parked(s), u.aob.item, {}, u.next_seq)
    <3>1. Apart(s.ob_pq, s.ob_ss_pq, Parked(s), s.aob.item, {x}, s.next_seq)
      BY DEF Sound, Owned
    <3>2. Apart(s.ob_pq, s.ob_ss_pq \cup {x}, Parked(s), s.aob.item, {}, s.next_seq)
      BY <3>1, ApartQueue
    <3> QED BY <2>1, <3>2
  <2>3. Flight(u, fin)
    BY <2>1 DEF Sound, Flight, Spent, IsMyStreamId, HasStream
  <2> QED BY <2>1, <2>2, <2>3, MovedSound
<1> QED BY <1>1, <1>2

\* The item in hand becomes the active one.
LEMMA ActiveSound ==
  ASSUME NEW s \in SessionType, NEW x, NEW fin, Sound(s, {x}, fin), s.aob.item = {},
         NEW a, a.item = {x},
         x.f.type = "DATA" /\ HasStream(s, x.f.id) => s.streams[x.f.id].deferred = {},
         x.f.type \in StreamFrames => Spent(s, x.f.id),
         x.f.type \in StreamFrames \ {"SYN_STREAM"} => x.f.id \notin fin
  PROVE  Sound([s EXCEPT !.aob = a], {}, fin)
<1> DEFINE t == [s EXCEPT !.aob = a]
<1>1. /\ t.streams = s.streams /\ t.server = s.server
      /\ t.next_stream_id = s.next_stream_id
      /\ t.last_recv_stream_id = s.last_recv_stream_id
      /\ t.num_outgoing_streams = s.num_outgoing_streams
      /\ t.num_incoming_streams = s.num_incoming_streams
      /\ t.aob.item = {x} /\ t.next_seq = s.next_seq
      /\ t.ob_pq = s.ob_pq /\ t.ob_ss_pq = s.ob_ss_pq
  BY DEF SessionType
<1> HIDE DEF t
<1>2. Apart(t.ob_pq, t.ob_ss_pq, Parked(s), t.aob.item, {}, t.next_seq)
  <2>1. Apart(s.ob_pq, s.ob_ss_pq, Parked(s), s.aob.item, {x}, s.next_seq)
    BY DEF Sound, Owned
  <2>2. Apart(s.ob_pq, s.ob_ss_pq, Parked(s), {x}, {}, s.next_seq)
    BY <2>1, ApartQueue
  <2> QED BY <1>1, <2>2
<1>3. Flight(t, fin)
  BY <1>1 DEF Flight, Spent, IsMyStreamId, HasStream
<1> QED BY <1>1, <1>2, <1>3, MovedSound DEF t

\* The active item is taken off: the frame is out.
LEMMA TakenSound ==
  ASSUME NEW s \in SessionType, NEW fin, Sound(s, {}, fin), s.aob.item # {}
  PROVE  LET t == [s EXCEPT !.aob = NoAob]
         IN  Sound(t, {Aob(s)}, fin) /\ t.aob.item = {}
<1> DEFINE t == [s EXCEPT !.aob = NoAob]
<1>1. /\ t.streams = s.streams /\ t.server = s.server
      /\ t.next_stream_id = s.next_stream_id
      /\ t.last_recv_stream_id = s.last_recv_stream_id
      /\ t.num_outgoing_streams = s.num_outgoing_streams
      /\ t.num_incoming_streams = s.num_incoming_streams
      /\ t.aob = NoAob /\ t.next_seq = s.next_seq
      /\ t.ob_pq = s.ob_pq /\ t.ob_ss_pq = s.ob_ss_pq
  BY DEF SessionType
<1>2. t.aob.item = {}
  BY <1>1 DEF NoAob
<1>3. s.aob.item = {Aob(s)}
  <2>1. Aob(s) \in s.aob.item
    BY DEF Aob
  <2> QED BY <2>1 DEF Sound, Owned, Apart
<1> HIDE DEF t
<1>4. Apart(t.ob_pq, t.ob_ss_pq, Parked(s), t.aob.item, {Aob(s)}, t.next_seq)
  BY <1>1, <1>2, <1>3, ApartTake DEF Sound, Owned
<1>5. Flight(t, fin)
  BY <1>2 DEF Flight
<1>6. Sound(t, {Aob(s)}, fin)
  BY <1>1, <1>2, <1>3, <1>4, <1>5, MovedSound
<1> QED BY <1>2, <1>6 DEF t

\* The fields an item can be reached through hold items.
LEMMA PlacesType ==
  ASSUME NEW s \in SessionType
  PROVE  /\ s.ob_pq \subseteq Item /\ s.ob_ss_pq \subseteq Item
         /\ s.aob.item \subseteq Item /\ Parked(s) \subseteq Item /\ s.next_seq \in Nat
<1>1. \A i \in LiveStreams(s) : s.streams[i].deferred \subseteq Item
  BY StreamAtType DEF LiveStreams, Stream
<1>2. Parked(s) \subseteq Item
  BY <1>1 DEF Parked
<1>3. s.aob.item \subseteq Item
  BY DEF SessionType, AobType
<1> QED BY <1>2, <1>3 DEF SessionType

LEMMA AddFrameSound ==
  ASSUME NEW s \in SessionType, NEW h \in SUBSET Item, NEW fin, Sound(s, h, fin),
         NEW f \in Frame
  PROVE  Sound(AddFrame(s, f), h, fin)
<1> DEFINE item == [f |-> f, pri |-> FramePri(s, f), seq |-> s.next_seq]
           syn  == f.type = "SYN_STREAM"
           ss   == IF syn THEN s.ob_ss_pq \cup {item} ELSE s.ob_ss_pq
           pq   == IF syn THEN s.ob_pq ELSE s.ob_pq \cup {item}
           q    == [s EXCEPT !.next_seq = @ + 1, !.ob_ss_pq = ss, !.ob_pq = pq]
<1>1. f.id \in StreamId
  BY DEF Frame
<1>2. item \in Item /\ item.f = f /\ item.seq = s.next_seq
  BY FramePriType DEF Item, SessionType
<1> HIDE DEF item
<1>3. ss \in SUBSET Item /\ pq \in SUBSET Item /\ s.next_seq + 1 \in Nat
  BY <1>2 DEF SessionType
<1>4. AddFrame(s, f) = IF f.type = "RST_STREAM" /\ HasStream(s, f.id)
                       THEN SetState(q, f.id, "CLOSING") ELSE q
  BY DEF AddFrame, q, item
<1>5. Apart(pq, ss, Parked(s), s.aob.item, h, s.next_seq + 1)
  <2>1. \A x \in s.ob_pq \cup s.ob_ss_pq \cup Parked(s) \cup s.aob.item \cup h : x.seq \in Nat
    BY PlacesType DEF Item
  <2>2. Apart(s.ob_pq, s.ob_ss_pq, Parked(s), s.aob.item, h, s.next_seq)
    BY DEF Sound, Owned
  <2>3. s.next_seq \in Nat
    BY PlacesType
  <2> QED BY <1>2, <2>1, <2>2, <2>3, ApartNew
<1>6. s.ob_pq \subseteq pq /\ (f.type = "RST_STREAM" => item \in pq)
  OBVIOUS
<1> HIDE DEF ss, pq
<1>7. q \in SessionType
  BY <1>3, QueuesType
<1>8. /\ q.streams = s.streams /\ q.server = s.server
      /\ q.next_stream_id = s.next_stream_id
      /\ q.last_recv_stream_id = s.last_recv_stream_id
      /\ q.num_outgoing_streams = s.num_outgoing_streams
      /\ q.num_incoming_streams = s.num_incoming_streams
      /\ q.aob = s.aob /\ q.next_seq = s.next_seq + 1
      /\ q.ob_pq = pq /\ q.ob_ss_pq = ss
  BY DEF SessionType
<1> HIDE DEF q
<1>9. Sound(q, h, fin)
  <2>1. Flight(q, fin)
    BY <1>8 DEF Sound, Flight, Spent, IsMyStreamId, HasStream
  <2>2. Apart(q.ob_pq, q.ob_ss_pq, Parked(s), q.aob.item, h, q.next_seq)
    BY <1>5, <1>8
  <2> QED BY <1>6, <1>8, <2>1, <2>2, MovedSound
<1>10. ASSUME f.type = "RST_STREAM", HasStream(s, f.id)
       PROVE  Sound(SetState(q, f.id, "CLOSING"), h, fin)
  <2>1. HasStream(q, f.id) /\ RstQueued(q, f.id)
    BY <1>2, <1>6, <1>8, <1>10 DEF HasStream, RstQueued
  <2> QED BY <1>1, <1>7, <1>9, <2>1, SetStateSound
<1> QED BY <1>4, <1>9, <1>10

LEMMA AddRstStreamSound ==
  ASSUME NEW s \in SessionType, NEW h \in SUBSET Item, NEW fin, Sound(s, h, fin),
         NEW id \in StreamId, NEW code \in StatusCodes
  PROVE  Sound(AddRstStream(s, id, code), h, fin)
<1>1. "RST_STREAM" \in FrameTypes /\ code \in Args
  BY DEF FrameTypes, Args
<1>2. [MkFrame("RST_STREAM", id) EXCEPT !.arg = code] \in Frame
  BY <1>1, MkFrameType DEF Frame
<1> QED BY <1>2, AddFrameSound DEF AddRstStream

LEMMA AddPingSound ==
  ASSUME NEW s \in SessionType, NEW h \in SUBSET Item, NEW fin, Sound(s, h, fin),
         NEW uid \in Nat
  PROVE  Sound(AddPing(s, uid), h, fin)
<1>1. "PING" \in FrameTypes
  BY DEF FrameTypes
<1>2. [MkFrame("PING", 0) EXCEPT !.val = uid] \in Frame
  BY <1>1, MkFrameType, ZeroIsStreamId DEF Frame
<1> QED BY <1>2, AddFrameSound DEF AddPing

LEMMA AddWindowUpdateSound ==
  ASSUME NEW s \in SessionType, NEW h \in SUBSET Item, NEW fin, Sound(s, h, fin),
         NEW id \in StreamId, NEW delta \in Nat
  PROVE  Sound(AddWindowUpdate(s, id, delta), h, fin)
<1>1. "WINDOW_UPDATE" \in FrameTypes
  BY DEF FrameTypes
<1>2. [MkFrame("WINDOW_UPDATE", id) EXCEPT !.val = delta] \in Frame
  BY <1>1, MkFrameType DEF Frame
<1> QED BY <1>2, AddFrameSound DEF AddWindowUpdate

LEMMA SubmitGoawaySound ==
  ASSUME NEW s \in SessionType, NEW h \in SUBSET Item, NEW fin, Sound(s, h, fin),
         NEW code \in Args
  PROVE  Sound(SubmitGoaway(s, code), h, fin)
<1>1. "GOAWAY" \in FrameTypes /\ s.last_recv_stream_id \in Nat
  BY BoundsAssumption DEF FrameTypes, SessionType, StreamId
<1>2. MkFrame("GOAWAY", 0) \in Frame
  BY <1>1, MkFrameType, ZeroIsStreamId
<1>3. [MkFrame("GOAWAY", 0) EXCEPT !.val = s.last_recv_stream_id, !.arg = code] \in Frame
  BY <1>1, <1>2 DEF Frame
<1> QED BY <1>3, AddFrameSound DEF SubmitGoaway

LEMMA FailSessionSound ==
  ASSUME NEW s \in SessionType, NEW h \in SUBSET Item, NEW fin, Sound(s, h, fin)
  PROVE  Sound(FailSession(s), h, fin)
<1> DEFINE t == [s EXCEPT !.goaway_flags = @ \cup {"FAIL_ON_SEND"}]
<1>1. t \in SessionType
  BY DEF SessionType
<1>2. Sound(t, h, fin)
  BY FieldUpdatesSound
<1>3. "PROTOCOL_ERROR" \in Args
  BY DEF Args, StatusCodes
<1> HIDE DEF t
<1>4. Sound(SubmitGoaway(t, "PROTOCOL_ERROR"), h, fin)
  BY <1>1, <1>2, <1>3, SubmitGoawaySound
<1> QED BY <1>4 DEF FailSession, t

LEMMA SubmitDataSound ==
  ASSUME NEW s \in SessionType, NEW h \in SUBSET Item, NEW fin, Sound(s, h, fin),
         NEW id \in StreamId, NEW f \in BOOLEAN
  PROVE  Sound(SubmitData(s, id, f), h, fin)
<1>1. "DATA" \in FrameTypes
  BY DEF FrameTypes
<1>2. [MkFrame("DATA", id) EXCEPT !.fin = f] \in Frame
  BY <1>1, MkFrameType DEF Frame
<1> QED BY <1>2, AddFrameSound DEF SubmitData
-----------------------------------------------------------------------------
(* Parking DATA in its stream and fetching it back.                        *)

\* Streams keep their place in the map, their state and their shut flags.
SameStreams(s, t) ==
  /\ t.server = s.server /\ t.next_stream_id = s.next_stream_id
  /\ t.last_recv_stream_id = s.last_recv_stream_id
  /\ t.num_outgoing_streams = s.num_outgoing_streams
  /\ t.num_incoming_streams = s.num_incoming_streams
  /\ \A i \in StreamId :
       /\ HasStream(t, i) = HasStream(s, i)
       /\ HasStream(s, i) => /\ t.streams[i].state = s.streams[i].state
                             /\ t.streams[i].shut = s.streams[i].shut

LEMMA ParkedSound ==
  ASSUME NEW s, NEW t, NEW h, NEW k, NEW fin, Sound(s, h, fin), SameStreams(s, t),
         Owned(t, k), Parking(t), Flight(t, fin),
         s.ob_pq \subseteq t.ob_pq, s.aob.item = t.aob.item,
         \A r \in h : r \in k \/ r.f.type # "RST_STREAM"
  PROVE  Sound(t, k, fin)
<1>1. LiveStreams(t) = LiveStreams(s) /\ Calm(s, t)
  BY DEF SameStreams, LiveStreams, Calm
<1>2. \A i \in LiveStreams(s) : /\ t.streams[i].state = s.streams[i].state
                               /\ t.streams[i].shut = s.streams[i].shut
  BY DEF SameStreams, LiveStreams
<1>3. Resets(t, k)
  BY <1>1, <1>2 DEF Sound, Resets
<1>4. Shuts(t, fin)
  BY <1>1, <1>2 DEF Sound, Shuts
<1> QED BY <1>1, <1>3, <1>4, CalmSound DEF Sound

LEMMA DeferDataSound ==
  ASSUME NEW s \in SessionType, NEW x \in Item, NEW fin, Sound(s, {x}, fin),
         s.aob.item = {}, x.f.type = "DATA", HasStream(s, x.f.id),
         s.streams[x.f.id].deferred = {}, NEW flow \in BOOLEAN,
         flow => s.streams[x.f.id].window_size <= 0
  PROVE  Sound(DeferData(s, x, flow), {}, fin)
<1> DEFINE id == x.f.id
           old == s.streams[id]
           str == [old EXCEPT !.deferred = @ \cup {x}, !.deferred_flow = flow]
           t == PutStream(s, id, str)
<1>1. id \in StreamId
  BY ItemFrame
<1>2. old \in Stream
  BY <1>1, StreamAtType
<1>3. /\ str.state = old.state /\ str.shut = old.shut
      /\ str.deferred = {x} /\ str.deferred_flow = flow
      /\ str.window_size = old.window_size
  BY <1>2 DEF Stream
<1>4. DeferData(s, x, flow) = t
  BY DEF DeferData
<1> HIDE DEF str
<1>5. /\ t.server = s.server /\ t.next_stream_id = s.next_stream_id
      /\ t.last_recv_stream_id = s.last_recv_stream_id
      /\ t.num_outgoing_streams = s.num_outgoing_streams
      /\ t.num_incoming_streams = s.num_incoming_streams
      /\ SameQueues(s, t)
      /\ \A i \in StreamId : t.streams[i] = IF i = id THEN str ELSE s.streams[i]
  BY <1>1, PutStreamEffect
<1> HIDE DEF t
<1>6. SameStreams(s, t)
  BY <1>1, <1>3, <1>5 DEF SameStreams, HasStream
<1>7. LiveStreams(t) = LiveStreams(s)
  BY <1>6 DEF SameStreams, LiveStreams
<1>8. Owned(t, {})
  <2>1. Parked(t) \subseteq Parked(s) \cup {x}
    BY <1>3, <1>5, <1>7 DEF Parked, LiveStreams
  <2>2. Apart(s.ob_pq, s.ob_ss_pq, Parked(s), s.aob.item, {x}, s.next_seq)
    BY DEF Sound, Owned
  <2>3. Apart(s.ob_pq, s.ob_ss_pq, Parked(s) \cup {x}, s.aob.item, {}, s.next_seq)
    BY <2>2, ApartQueue
  <2>4. Apart(s.ob_pq, s.ob_ss_pq, Parked(t), s.aob.item, {}, s.next_seq)
    BY <2>1, <2>3, ApartShrink
  <2> QED BY <1>5, <2>4 DEF Owned, SameQueues
<1>9. Parking(t)
  BY <1>3, <1>5, <1>7 DEF Sound, Parking, LiveStreams
<1>10. Flight(t, fin)
  BY <1>5 DEF Flight, SameQueues
<1>11. s.ob_pq \subseteq t.ob_pq /\ s.aob.item = t.aob.item
  BY <1>5 DEF SameQueues
<1> QED BY <1>4, <1>6, <1>8, <1>9, <1>10, <1>11, ParkedSound

\* Only windows move; where one does, Requeue looks at the stream.
LEMMA RequeueSound ==
  ASSUME NEW s \in SessionType, NEW h, NEW fin, Sound(s, h, fin),
         NEW moved \in [StreamId -> Stream], NEW ids \in SUBSET LiveStreams(s),
         \A i \in StreamId : (moved[i].state # "NONE") = HasStream(s, i),
         \A i \in LiveStreams(s) : /\ moved[i].state = s.streams[i].state
                                   /\ moved[i].shut = s.streams[i].shut
                                   /\ moved[i].deferred = s.streams[i].deferred
                                   /\ moved[i].deferred_flow = s.streams[i].deferred_flow,
         \A i \in LiveStreams(s) \ ids : moved[i].window_size = s.streams[i].window_size
  PROVE  Sound(Requeue(s, moved, ids), h, fin)
<1> DEFINE freed == {i \in ids : Reopened(moved[i])}
           str == [i \in StreamId |-> IF i \in freed THEN Detach(moved[i]) ELSE moved[i]]
           m == UNION {moved[i].deferred : i \in freed}
           t == [s EXCEPT !.ob_pq = @ \cup m, !.streams = str]
<1>1. /\ freed \subseteq LiveStreams(s)
      /\ \A i \in ids \ freed : ~Reopened(moved[i])
      /\ LiveStreams(s) \subseteq StreamId
  BY DEF LiveStreams
<1>2. /\ t.server = s.server /\ t.next_stream_id = s.next_stream_id
      /\ t.last_recv_stream_id = s.last_recv_stream_id
      /\ t.num_outgoing_streams = s.num_outgoing_streams
      /\ t.num_incoming_streams = s.num_incoming_streams
      /\ t.aob = s.aob /\ t.next_seq = s.next_seq /\ t.ob_ss_pq = s.ob_ss_pq
      /\ t.ob_pq = s.ob_pq \cup m /\ t.streams = str
  BY DEF SessionType
<1>3. Requeue(s, moved, ids) = t
  BY DEF Requeue
<1>4. \A i \in StreamId :
        /\ str[i].state = moved[i].state /\ str[i].shut = moved[i].shut
        /\ str[i].window_size = moved[i].window_size
        /\ i \in freed => str[i].deferred = {} /\ ~str[i].deferred_flow
        /\ i \notin freed => /\ str[i].deferred = moved[i].deferred
                             /\ str[i].deferred_flow = moved[i].deferred_flow
  BY DEF Detach, Stream
<1>5. \A x : x \in m <=> \E i \in freed : x \in moved[i].deferred
  OBVIOUS
<1> HIDE DEF freed, str, m, t
<1>6. SameStreams(s, t)
  BY <1>2, <1>4 DEF SameStreams, HasStream, LiveStreams
<1>7. LiveStreams(t) = LiveStreams(s)
  BY <1>6 DEF SameStreams, LiveStreams
<1>8. \A i \in LiveStreams(s) : \A d \in s.streams[i].deferred : d.f.id = i
  BY DEF Sound, Parking
<1>9. Owned(t, h)
  <2>1. m \subseteq Parked(s)
    BY <1>1, <1>5 DEF Parked
  <2>2. Parked(t) \subseteq Parked(s) \ m
    <3> SUFFICES ASSUME NEW i \in LiveStreams(s), NEW x \in t.streams[i].deferred
                 PROVE  x \in Parked(s) /\ x \notin m
      BY <1>7 DEF Parked
    <3>1. i \in StreamId /\ i \notin freed /\ x \in s.streams[i].deferred
      BY <1>1, <1>2, <1>4
    <3>2. \A j \in freed : x \notin moved[j].deferred
      BY <1>1, <1>8, <3>1
    <3> QED BY <1>5, <3>1, <3>2 DEF Parked
  <2>3. Apart(s.ob_pq \cup m, s.ob_ss_pq, Parked(s) \ m, s.aob.item, h, s.next_seq)
    BY <2>1, ApartUnpark DEF Sound, Owned
  <2>4. Apart(s.ob_pq \cup m, s.ob_ss_pq, Parked(t), s.aob.item, h, s.next_seq)
    BY <2>2, <2>3, ApartShrink
  <2> QED BY <1>2, <2>4 DEF Owned
<1>10. Parking(t)
  <2> SUFFICES ASSUME NEW i \in LiveStreams(s)
               PROVE  /\ \A d \in t.streams[i].deferred : d.f.type = "DATA" /\ d.f.id = i
                      /\ \A d, e \in t.streams[i].deferred : d = e
                      /\ t.streams[i].deferred_flow =>
                           t.streams[i].deferred # {} /\ t.streams[i].window_size <= 0
    BY <1>7 DEF Parking
  <2>1. /\ \A d \in s.streams[i].deferred : d.f.type = "DATA" /\ d.f.id = i
        /\ \A d, e \in s.streams[i].deferred : d = e
        /\ s.streams[i].deferred_flow =>
             s.streams[i].deferred # {} /\ s.streams[i].window_size <= 0
    BY DEF Sound, Parking
  <2>2. i \in StreamId /\ moved[i].window_size \in Int
    BY <1>1, BoundsAssumption DEF Stream, Int32
  <2>3. CASE i \in freed
    BY <1>2, <1>4, <2>2, <2>3
  <2>4. CASE i \in ids \ freed
    BY <1>1, <1>2, <1>4, <2>1, <2>2, <2>4 DEF Reopened
  <2>5. CASE i \notin ids
    BY <1>1, <1>2, <1>4, <2>1, <2>2, <2>5 DEF freed
  <2> QED BY <2>3, <2>4, <2>5
<1>11. Flight(t, fin)
  <2>1. \A i \in StreamId : HasStream(t, i) =>
          \/ t.streams[i].deferred = {}
          \/ HasStream(s, i) /\ t.streams[i].deferred \subseteq s.streams[i].deferred
    BY <1>2, <1>4, <1>6 DEF SameStreams, LiveStreams
  <2>2. \A i \in StreamId : Spent(s, i) => Spent(t, i)
    BY <1>2 DEF Spent, IsMyStreamId
  <2> QED BY <1>2, <2>1, <2>2, FlightKept DEF Sound
<1> QED BY <1>2, <1>3, <1>6, <1>9, <1>10, <1>11, ParkedSound

LEMMA OnWindowUpdateSound ==
  ASSUME NEW s \in SessionType, NEW h \in SUBSET Item, NEW fin, Sound(s, h, fin),
         NEW f \in Frame
  PROVE  Sound(OnWindowUpdateReceived(s, f), h, fin)
<1> DEFINE id == f.id
           w == s.streams[id].window_size + f.val
           str == [s.streams[id] EXCEPT !.window_size = w]
           moved == [s.streams EXCEPT ![id] = [@ EXCEPT !.window_size = w]]
<1>1. id \in StreamId /\ f.val \in Nat /\ "FLOW_CONTROL_ERROR" \in StatusCodes
  BY DEF Frame, StatusCodes
<1>2. Sound(AddRstStream(s, id, "FLOW_CONTROL_ERROR"), h, fin)
  BY <1>1, AddRstStreamSound
<1>3. s.streams \in [StreamId -> Stream] /\ s.streams[id] \in Stream
  BY <1>1 DEF SessionType
<1>4. ASSUME ~(Int32Max - f.val < s.streams[id].window_size), HasStream(s, id)
      PROVE  Sound(Requeue(s, moved, {id}), h, fin)
  <2>1. w \in Int32
    BY <1>1, <1>3, <1>4, BoundsAssumption DEF Stream, Int32
  <2> HIDE DEF w
  <2>2. /\ str \in Stream /\ str.state = s.streams[id].state
        /\ str.shut = s.streams[id].shut /\ str.deferred = s.streams[id].deferred
        /\ str.deferred_flow = s.streams[id].deferred_flow
    BY <1>3, <2>1 DEF Stream
  <2>3. moved = [s.streams EXCEPT ![id] = str]
    OBVIOUS
  <2> HIDE DEF str, moved
  <2>4. moved \in [StreamId -> Stream]
    BY <1>1, <1>3, <2>2, <2>3
  <2>5. \A i \in StreamId : moved[i] = IF i = id THEN str ELSE s.streams[i]
    BY <1>1, <1>3, <2>3
  <2>6. \A i \in StreamId : (moved[i].state # "NONE") = HasStream(s, i)
    BY <2>2, <2>5 DEF HasStream
  <2>7. /\ {id} \in SUBSET LiveStreams(s)
        /\ \A i \in LiveStreams(s) : /\ moved[i].state = s.streams[i].state
                                     /\ moved[i].shut = s.streams[i].shut
                                     /\ moved[i].deferred = s.streams[i].deferred
                                     /\ moved[i].deferred_flow = s.streams[i].deferred_flow
        /\ \A i \in LiveStreams(s) \ {id} : moved[i].window_size = s.streams[i].window_size
    BY <1>1, <1>4, <2>2, <2>5 DEF LiveStreams
  <2> QED BY <2>4, <2>6, <2>7, RequeueSound
<1> QED BY <1>2, <1>4 DEF OnWindowUpdateReceived

LEMMA UpdateInitialWindowSound ==
  ASSUME NEW s \in SessionType, NEW h, NEW fin, Sound(s, h, fin), NEW new \in Nat
  PROVE  Sound(UpdateInitialWindowSize(s, new), h, fin)
<1> DEFINE moved == MovedWindows(s, new)
<1>1. ASSUME NEW i \in StreamId
      PROVE  /\ moved[i] \in Stream /\ (moved[i].state # "NONE") = HasStream(s, i)
             /\ HasStream(s, i) => /\ moved[i].state = s.streams[i].state
                                   /\ moved[i].shut = s.streams[i].shut
                                   /\ moved[i].deferred = s.streams[i].deferred
                                   /\ moved[i].deferred_flow = s.streams[i].deferred_flow
  <2> DEFINE w == ToInt32(new - ToInt32(ToInt32(s.remote.win) - s.streams[i].window_size))
             str == [s.streams[i] EXCEPT !.window_size = w]
  <2>1. s.streams[i] \in Stream
    BY StreamAtType
  <2>2. s.remote.win \in Int /\ s.streams[i].window_size \in Int
    BY <2>1, BoundsAssumption DEF SessionType, Settings, Stream, Int32
  <2>3. \A x \in Int : ToInt32(x) \in Int32 /\ ToInt32(x) \in Int
    BY ToInt32Type, BoundsAssumption DEF Int32
  <2>4. w \in Int32
    BY <2>2, <2>3
  <2>5. moved[i] = IF ~HasStream(s, i) THEN NoStream ELSE str
    BY DEF MovedWindows
  <2> HIDE DEF w
  <2>6. /\ str \in Stream /\ str.state = s.streams[i].state
        /\ str.shut = s.streams[i].shut /\ str.deferred = s.streams[i].deferred
        /\ str.deferred_flow = s.streams[i].deferred_flow
    BY <2>1, <2>4 DEF Stream
  <2> HIDE DEF str, moved
  <2>7. NoStream \in Stream /\ NoStream.state = "NONE"
    BY NoStreamType DEF NoStream
  <2>8. CASE HasStream(s, i)
    BY <2>5, <2>6, <2>8 DEF HasStream
  <2>9. CASE ~HasStream(s, i)
    BY <2>5, <2>7, <2>9 DEF HasStream
  <2> QED BY <2>8, <2>9
<1>2. moved = [i \in StreamId |-> moved[i]]
  BY DEF MovedWindows
<1> HIDE DEF moved
<1>3. moved \in [StreamId -> Stream]
  BY <1>1, <1>2
<1>4. \A i \in LiveStreams(s) : /\ moved[i].state = s.streams[i].state
                               /\ moved[i].shut = s.streams[i].shut
                               /\ moved[i].deferred = s.streams[i].deferred
                               /\ moved[i].deferred_flow = s.streams[i].deferred_flow
  BY <1>1 DEF LiveStreams
<1>5. /\ \A i \in StreamId : (moved[i].state # "NONE") = HasStream(s, i)
      /\ \A i \in LiveStreams(s) \ LiveStreams(s) :
           moved[i].window_size = s.streams[i].window_size
  BY <1>1
<1>6. Sound(Requeue(s, moved, LiveStreams(s)), h, fin)
  BY <1>3, <1>4, <1>5, RequeueSound
<1> QED BY <1>6 DEF UpdateInitialWindowSize, moved

LEMMA OnSettingsSound ==
  ASSUME NEW s \in SessionType, NEW h, NEW fin, Sound(s, h, fin), NEW f \in Frame
  PROVE  Sound(OnSettingsReceived(s, f), h, fin)
<1> DEFINE t == IF FlowControl /\ f.val <= Int32Max
                THEN UpdateInitialWindowSize(s, f.val) ELSE s
<1>1. f.val \in Nat
  BY DEF Frame
<1>2. t \in SessionType /\ Sound(t, h, fin)
  BY <1>1, UpdateInitialWindowType, UpdateInitialWindowSound
<1> HIDE DEF t
<1>3. \A r : Sound([s EXCEPT !.remote = r], h, fin) /\ Sound([t EXCEPT !.remote = r], h, fin)
  BY <1>2, FieldUpdatesSound
<1>4. \A cv : Sound([s EXCEPT !.certvec = cv], h, fin)
  BY FieldUpdatesSound
<1> QED BY <1>3, <1>4 DEF OnSettingsReceived, t

LEMMA ResumeDataSound ==
  ASSUME NEW s \in SessionType, NEW h, NEW fin, Sound(s, h, fin), NEW id \in StreamId
  PROVE  Sound(ResumeData(s, id), h, fin)
<1> SUFFICES ASSUME HasStream(s, id), ~s.streams[id].deferred_flow
             PROVE  Sound(ResumeData(s, id), h, fin)
  BY DEF ResumeData
<1> DEFINE old == s.streams[id]
           str == Detach(old)
           p == PutStream(s, id, str)
           t == [p EXCEPT !.ob_pq = @ \cup old.deferred]
<1>1. old \in Stream
  BY StreamAtType
<1>2. /\ str \in Stream /\ str.state = old.state /\ str.shut = old.shut
      /\ str.deferred = {} /\ ~str.deferred_flow
  BY <1>1 DEF Detach, Stream
<1>3. ResumeData(s, id) = t
  BY DEF ResumeData
<1> HIDE DEF str
<1>4. /\ p.server = s.server /\ p.next_stream_id = s.next_stream_id
      /\ p.last_recv_stream_id = s.last_recv_stream_id
      /\ p.num_outgoing_streams = s.num_outgoing_streams
      /\ p.num_incoming_streams = s.num_incoming_streams
      /\ SameQueues(s, p) /\ p \in SessionType
      /\ \A i \in StreamId : p.streams[i] = IF i = id THEN str ELSE s.streams[i]
  BY <1>2, PutStreamEffect, PutStreamType
<1> HIDE DEF p
<1>5. /\ t.server = p.server /\ t.next_stream_id = p.next_stream_id
      /\ t.last_recv_stream_id = p.last_recv_stream_id
      /\ t.num_outgoing_streams = p.num_outgoing_streams
      /\ t.num_incoming_streams = p.num_incoming_streams
      /\ t.aob = p.aob /\ t.next_seq = p.next_seq /\ t.ob_ss_pq = p.ob_ss_pq
      /\ t.ob_pq = p.ob_pq \cup old.deferred /\ t.streams = p.streams
  BY <1>4 DEF SessionType
<1> HIDE DEF t, old
<1>6. SameStreams(s, t)
  BY <1>2, <1>4, <1>5 DEF SameStreams, HasStream, old
<1>7. LiveStreams(t) = LiveStreams(s) /\ id \in LiveStreams(s)
  BY <1>6 DEF SameStreams, LiveStreams
<1>8. Owned(t, h)
  <2>1. old.deferred \subseteq Parked(s)
    BY <1>7 DEF Parked, old
  <2>2. /\ \A i \in LiveStreams(s) : \A d \in s.streams[i].deferred : d.f.id = i
        /\ Apart(s.ob_pq, s.ob_ss_pq, Parked(s), s.aob.item, h, s.next_seq)
    BY DEF Sound, Parking, Owned
  <2>3. Parked(t) \subseteq Parked(s) \ old.deferred
    <3> SUFFICES ASSUME NEW i \in LiveStreams(s), NEW x \in t.streams[i].deferred
                 PROVE  x \in Parked(s) /\ x \notin old.deferred
      BY <1>7 DEF Parked
    <3>1. i \in StreamId /\ i # id /\ x \in s.streams[i].deferred
      BY <1>2, <1>4, <1>5 DEF LiveStreams
    <3> QED BY <1>7, <2>2, <3>1 DEF Parked, old
  <2>4. Apart(s.ob_pq \cup old.deferred, s.ob_ss_pq, Parked(s) \ old.deferred,
              s.aob.item, h, s.next_seq)
    BY <2>1, <2>2, ApartUnpark
  <2>5. Apart(s.ob_pq \cup old.deferred, s.ob_ss_pq, Parked(t), s.aob.item, h, s.next_seq)
    BY <2>3, <2>4, ApartShrink
  <2> QED BY <1>4, <1>5, <2>5 DEF Owned, SameQueues
<1>9. Parking(t)
  BY <1>2, <1>4, <1>5, <1>7 DEF Sound, Parking, LiveStreams
<1>10. Flight(t, fin)
  <2>1. \A i \in StreamId : HasStream(t, i) =>
          \/ t.streams[i].deferred = {}
          \/ HasStream(s, i) /\ t.streams[i].deferred \subseteq s.streams[i].deferred
    BY <1>2, <1>4, <1>5 DEF HasStream
  <2>2. \A i \in StreamId : Spent(s, i) => Spent(t, i)
    BY <1>4, <1>5 DEF Spent, IsMyStreamId
  <2>3. t.aob.item \subseteq s.aob.item
    BY <1>4, <1>5 DEF SameQueues
  <2> QED BY <2>1, <2>2, <2>3, FlightKept DEF Sound
<1>11. s.ob_pq \subseteq t.ob_pq /\ s.aob.item = t.aob.item
  BY <1>4, <1>5 DEF SameQueues
<1> QED BY <1>3, <1>6, <1>8, <1>9, <1>10, <1>11, ParkedSound
-----------------------------------------------------------------------------
(* spdylay_session_send.                                                   *)

LEMMA KeepsSpent ==
  ASSUME NEW s, NEW t, Keeps(s, t), NEW i, Spent(s, i)
  PROVE  Spent(t, i)
  BY DEF Keeps, Spent, IsMyStreamId

LEMMA WritableNotFinished ==
  ASSUME NEW s, NEW h, NEW fin, Sound(s, h, fin), NEW id \in StreamId,
         StreamForSend(s, id)
  PROVE  id \notin fin /\ Spent(s, id) /\ HasStream(s, id)
<1>1. id \in LiveStreams(s) /\ "WR" \notin s.streams[id].shut /\ HasStream(s, id)
  BY DEF StreamForSend, LiveStreams
<1> QED BY <1>1 DEF Sound, Shuts, IdsSpent

LEMMA ChargeWindowSound ==
  ASSUME NEW s \in SessionType, NEW fin, Sound(s, {}, fin), s.aob.item # {}
  PROVE  Sound(ChargeWindow(s), {}, fin)
<1> DEFINE x == Aob(s)
           id == x.f.id
           old == s.streams[id]
           str(w) == [old EXCEPT !.window_size = w]
<1>1. x \in s.aob.item /\ x \in Item /\ id \in StreamId
  BY AobItemType, ItemFrame DEF Aob
<1>2. ASSUME x.f.type = "DATA", HasStream(s, id), NEW w
      PROVE  Sound(PutStream(s, id, str(w)), {}, fin)
  <2>1. old \in Stream
    BY <1>1, StreamAtType
  <2>2. /\ str(w).state = old.state /\ str(w).deferred = old.deferred
        /\ str(w).deferred_flow = old.deferred_flow /\ str(w).shut = old.shut
    BY <2>1 DEF Stream
  <2>3. old.deferred = {}
    BY <1>1, <1>2 DEF Sound, Flight
  <2>4. id \in LiveStreams(s)
    BY <1>1, <1>2 DEF LiveStreams
  <2>5. ~old.deferred_flow /\ old.shut # {"RD", "WR"} /\ old.state # "NONE"
    BY <1>2, <2>3, <2>4 DEF Sound, Parking, Shuts, HasStream
  <2> HIDE DEF str, old
  <2> QED BY <1>1, <1>2, <2>2, <2>5, PutStreamSound DEF old
<1> QED BY <1>2 DEF ChargeWindow

LEMMA PartialWriteSound ==
  ASSUME NEW s \in SessionType, NEW fin, Sound(s, {}, fin), s.aob.item # {}
  PROVE  Sound(PartialWrite(s), {}, fin)
<1> DEFINE c == ChargeWindow(s)
           t == [c EXCEPT !.aob = [@ EXCEPT !.writes = s.aob.writes + 1]]
<1>1. c \in SessionType /\ Sound(c, {}, fin)
  BY ChargeWindowType, ChargeWindowSound
<1>2. PartialWrite(s) = t
  BY DEF PartialWrite
<1> HIDE DEF c
<1>3. /\ t.streams = c.streams /\ t.server = c.server
      /\ t.next_stream_id = c.next_stream_id
      /\ t.last_recv_stream_id = c.last_recv_stream_id
      /\ t.num_outgoing_streams = c.num_outgoing_streams
      /\ t.num_incoming_streams = c.num_incoming_streams
      /\ t.ob_pq = c.ob_pq /\ t.ob_ss_pq = c.ob_ss_pq /\ t.next_seq = c.next_seq
      /\ t.aob = [c.aob EXCEPT !.writes = s.aob.writes + 1]
  BY <1>1 DEF SessionType
<1>4. t.aob.item = c.aob.item
  BY <1>1, <1>3 DEF SessionType, AobType
<1> HIDE DEF t
<1> QED BY <1>1, <1>2, <1>3, <1>4, SameSound DEF SameQueues

LEMMA ReadDataSound ==
  ASSUME NEW s \in SessionType, NEW x \in Item, NEW fin, Sound(s, {x}, fin),
         s.aob.item = {}, x.f.type = "DATA", DataSendable(s, x.f.id), NEW rd
  PROVE  Sound(ReadData(s, x, rd), {}, fin)
<1> DEFINE id == x.f.id
           max == NextDataRead(s, id)
<1>1. id \in StreamId /\ s.streams[id].deferred = {} /\ StreamForSend(s, id)
  BY ItemFrame DEF DataSendable, HeadersSendable
<1>2. id \notin fin /\ Spent(s, id) /\ HasStream(s, id)
  BY <1>1, WritableNotFinished
<1>3. max = 0 => s.streams[id].window_size <= 0
  <2>1. s.streams[id].window_size \in Int
    BY <1>1, StreamAtType, BoundsAssumption DEF Stream, Int32
  <2> QED BY <2>1, BoundsAssumption DEF NextDataRead
<1>4. max = 0 => Sound(DeferData(s, x, TRUE), {}, fin)
  BY <1>1, <1>2, <1>3, DeferDataSound
<1>5. Sound(DeferData(s, x, FALSE), {}, fin)
  BY <1>1, <1>2, DeferDataSound
<1>6. Sound(AddRstStream(s, id, "INTERNAL_ERROR"), {}, fin)
  <2>1. "INTERNAL_ERROR" \in StatusCodes /\ {x} \in SUBSET Item
    BY DEF StatusCodes
  <2>2. Sound(AddRstStream(s, id, "INTERNAL_ERROR"), {x}, fin)
    BY <1>1, <2>1, AddRstStreamSound
  <2> QED BY <2>2, DropSound
<1>7. \A a : a.item = {x} => Sound([s EXCEPT !.aob = a], {}, fin)
  BY <1>1, <1>2, ActiveSound
<1> HIDE DEF max
<1>8. \A n, e : Sound([s EXCEPT !.aob = [item |-> {x}, writes |-> 0, eof |-> e,
                                         len |-> n]], {}, fin)
  BY <1>7
<1> QED BY <1>4, <1>5, <1>6, <1>8 DEF ReadData, max

\* IDs are spent and nothing else changes.
LEMMA SpendSound ==
  ASSUME NEW s \in SessionType, NEW t, NEW h, NEW fin \in SUBSET StreamId,
         Sound(s, h, fin), t.streams = s.streams, t.server = s.server,
         t.num_outgoing_streams = s.num_outgoing_streams,
         t.num_incoming_streams = s.num_incoming_streams, SameQueues(s, t),
         IsMyStreamId(t, t.next_stream_id),
         \A i \in StreamId : Spent(s, i) => Spent(t, i)
  PROVE  Sound(t, h, fin)
<1>1. /\ LiveStreams(t) = LiveStreams(s) /\ Parked(t) = Parked(s)
      /\ MineOf(t) = MineOf(s) /\ LiveStreams(s) \subseteq StreamId
      /\ \A i : HasStream(t, i) = HasStream(s, i)
  BY DEF LiveStreams, HasStream, Parked, MineOf, IsMyStreamId
<1>2. Owned(t, h)
  BY <1>1 DEF Sound, Owned, SameQueues
<1>3. Parking(t) /\ Resets(t, h) /\ Shuts(t, fin)
  BY <1>1 DEF Sound, Parking, Resets, Shuts, SameQueues
<1>4. Flight(t, fin)
  BY FlightKept DEF Sound, SameQueues, HasStream
<1>5. Counted(t)
  BY <1>1 DEF Sound, Counted
<1>6. IdsSpent(t, fin)
  BY <1>1 DEF Sound, IdsSpent
<1> QED BY <1>2, <1>3, <1>4, <1>5, <1>6 DEF Sound

LEMMA PrepCredentialSound ==
  ASSUME NEW s \in SessionType, NEW x \in Item, NEW fin, Sound(s, {x}, fin),
         x.f.type = "SYN_STREAM", x.f.arg \in CertOrigins
  PROVE  Sound(PrepCredential(s, x), {}, fin)
<1> DEFINE o  == x.f.arg
           cv == Put(s.certvec, o)
           c  == [MkFrame("CREDENTIAL", 0) EXCEPT !.arg = o, !.val = cv.last_slot]
           r  == [s EXCEPT !.certvec = cv]
           t  == AddFrame(r, c)
           y  == [x EXCEPT !.pri = -1]
<1>1. cv \in CertVectorType
  BY PutType DEF SessionType
<1> HIDE DEF cv
<1>2. r \in SessionType /\ Sound(r, {x}, fin) /\ {x} \in SUBSET Item
  BY <1>1, CertUpdateType, FieldUpdatesSound
<1> HIDE DEF r
<1>3. c \in Frame
  <2>1. cv.last_slot \in Nat
    BY <1>1, SlotsAssumption DEF CertVectorType
  <2>2. "CREDENTIAL" \in FrameTypes /\ o \in Args
    BY DEF FrameTypes, Args
  <2>3. MkFrame("CREDENTIAL", 0) \in Frame
    BY <2>2, MkFrameType, ZeroIsStreamId
  <2> QED BY <2>1, <2>2, <2>3 DEF Frame
<1> HIDE DEF c
<1>4. t \in SessionType /\ Sound(t, {x}, fin)
  BY <1>2, <1>3, AddFrameType, AddFrameSound
<1> HIDE DEF t
<1>5. y.seq = x.seq /\ y.f = x.f
  BY DEF Item
<1> HIDE DEF y
<1>6. Sound(t, {y}, fin)
  BY <1>4, <1>5, ReplaceSound
<1>7. Sound([t EXCEPT !.ob_ss_pq = @ \cup {y}], {}, fin)
  BY <1>4, <1>5, <1>6, QueuedSound
<1> QED BY <1>7 DEF PrepCredential, t, c, r, cv, y

LEMMA PrepSynStreamSound ==
  ASSUME NEW s \in SessionType, NEW x \in Item, NEW fin \in SUBSET StreamId,
         Sound(s, {x}, fin), s.aob.item = {}, x.f.type = "SYN_STREAM",
         NEW packs \in BOOLEAN
  PROVE  Sound(PrepSynStream(s, x, packs), {}, fin)
<1> DEFINE id == s.next_stream_id
           t  == [s EXCEPT !.next_stream_id = @ + 2]
           o  == OpenStream(t, id, x.f.pri, "INITIAL")
           slot == IF s.server \/ ~FlowControl \/ CertOrigins = {} THEN 0
                   ELSE Find(s.certvec, x.f.arg)
           y  == [x EXCEPT !.f = [@ EXCEPT !.id = id, !.val = slot]]
<1>1. CASE ~SynStreamSendable(s, x.f)
  <2>1. PrepSynStream(s, x, packs) = s
    BY <1>1 DEF PrepSynStream
  <2> QED BY <2>1, DropSound
<1>2. CASE SynStreamSendable(s, x.f) /\ NeedsCredential(s, x.f.arg)
  <2>1. x.f.arg \in CertOrigins
    BY <1>2 DEF NeedsCredential
  <2> QED BY <1>2, <2>1, PrepCredentialSound DEF PrepSynStream
<1>3. CASE SynStreamSendable(s, x.f) /\ ~NeedsCredential(s, x.f.arg)
  <2>1. id \in StreamId /\ id \in Nat
    BY <1>3, BoundsAssumption DEF SynStreamSendable, SessionType, StreamId
  <2>2. /\ t \in SessionType /\ t.server = s.server /\ t.next_stream_id = id + 2
        /\ t.last_recv_stream_id = s.last_recv_stream_id /\ t.streams = s.streams
        /\ t.num_outgoing_streams = s.num_outgoing_streams
        /\ t.num_incoming_streams = s.num_incoming_streams /\ SameQueues(s, t)
    BY DEF SessionType, SameQueues
  <2>3. /\ IsMyStreamId(s, id)
        /\ \A i \in LiveStreams(s) \cup fin : Spent(s, i)
    BY DEF Sound, IdsSpent
  <2>4. PrepSynStream(s, x, packs) = IF ~packs THEN t ELSE Activate(o, y)
    BY <1>3 DEF PrepSynStream
  <2> HIDE DEF t
  <2>5. /\ IsMyStreamId(t, t.next_stream_id) /\ Spent(t, id)
        /\ \A i \in StreamId : Spent(s, i) => Spent(t, i)
    <3>1. StreamId \subseteq Nat
      BY BoundsAssumption DEF StreamId
    <3>2. \A i : IsMyStreamId(t, i) = IsMyStreamId(s, i)
      BY <2>2 DEF IsMyStreamId
    <3>3. IsMyStreamId(t, t.next_stream_id)
      BY <2>1, <2>2, <2>3 DEF IsMyStreamId
    <3> QED BY <2>1, <2>2, <2>3, <3>1, <3>2, <3>3 DEF Spent
  <2>6. Sound(t, {x}, fin)
    BY <2>2, <2>5, SpendSound
  <2>7. ~HasStream(t, id) /\ id \notin fin
    <3>1. ~Spent(s, id)
      BY <2>1, <2>3 DEF Spent
    <3> QED BY <2>1, <2>2, <2>3, <3>1 DEF LiveStreams, HasStream
  <2>8. x.f.pri \in 0..PriLowest /\ x.f \in Frame
    BY ItemFrame
  <2>9. o \in SessionType /\ Sound(o, {x}, fin) /\ o.aob.item = {} /\ HasStream(o, id)
    <3>1. "INITIAL" \in States
      BY DEF States
    <3>2. o \in SessionType
      BY <2>1, <2>2, <2>8, <3>1, OpenStreamType
    <3>3. Sound(o, {x}, fin) /\ o.aob.item = t.aob.item /\ HasStream(o, id)
      BY <2>1, <2>2, <2>5, <2>6, <2>7, <2>8, OpenStreamSound
    <3> QED BY <2>2, <3>2, <3>3 DEF SameQueues
  <2> HIDE DEF o, slot
  <2>10. /\ y.seq = x.seq /\ y.f.type = "SYN_STREAM" /\ y.f.id = id
    BY <2>8 DEF Item, Frame
  <2> HIDE DEF y
  <2>11. Sound(o, {y}, fin)
    BY <2>9, <2>10, ReplaceSound
  <2>12. Sound(Activate(o, y), {}, fin)
    <3> DEFINE a == [NoAob EXCEPT !.item = {y}]
    <3>1. a.item = {y}
      BY DEF NoAob
    <3>2. Spent(o, id)
      BY <2>1, <2>9 DEF Sound, IdsSpent, LiveStreams
    <3>3. Sound([o EXCEPT !.aob = a], {}, fin)
      BY <2>9, <2>10, <2>11, <3>1, <3>2, ActiveSound
    <3> QED BY <3>3 DEF Activate
  <2>13. Sound(t, {}, fin)
    BY <2>6, DropSound
  <2> QED BY <2>4, <2>12, <2>13
<1> QED BY <1>1, <1>2, <1>3

LEMMA PrepFrameSound ==
  ASSUME NEW s \in SessionType, NEW x \in Item, NEW fin \in SUBSET StreamId,
         Sound(s, {x}, fin), s.aob.item = {}, NEW rd, NEW packs \in BOOLEAN
  PROVE  Sound(PrepFrame(s, x, rd, packs), {}, fin)
<1>1. CASE x.f.type = "SYN_STREAM"
  BY <1>1, PrepSynStreamSound DEF PrepFrame
<1>2. CASE x.f.type = "DATA"
  <2>1. Sound(s, {}, fin)
    BY <1>2, DropSound
  <2> QED BY <1>2, <2>1, ReadDataSound DEF PrepFrame
<1>3. CASE x.f.type \notin {"SYN_STREAM", "DATA"}
  <2>1. PrepFrame(s, x, rd, packs) =
          IF CtrlSendable(s, x.f, packs) THEN Activate(s, x) ELSE s
    BY <1>3 DEF PrepFrame
  <2>2. CASE CtrlSendable(s, x.f, packs)
    <3> DEFINE a == [NoAob EXCEPT !.item = {x}]
    <3>1. a.item = {x}
      BY DEF NoAob
    <3>2. x.f.id \in StreamId
      BY ItemFrame
    <3>3. x.f.type \in StreamFrames => StreamForSend(s, x.f.id)
      BY <1>3, <2>2 DEF StreamFrames, CtrlSendable, SynReplySendable, HeadersSendable
    <3>4. x.f.type \in StreamFrames => x.f.id \notin fin /\ Spent(s, x.f.id)
      BY <3>2, <3>3, WritableNotFinished
    <3>5. Sound([s EXCEPT !.aob = a], {}, fin)
      BY <1>3, <3>1, <3>4, ActiveSound
    <3> QED BY <2>1, <2>2, <3>5 DEF Activate
  <2>3. CASE ~CtrlSendable(s, x.f, packs)
    <3>1. x.f.type # "RST_STREAM"
      BY <2>3 DEF CtrlSendable
    <3> QED BY <2>1, <2>3, <3>1, DropSound
  <2> QED BY <2>2, <2>3
<1> QED BY <1>1, <1>2, <1>3

\* FLAG_FIN was sent on a stream that is now shut for writing, or gone.
LEMMA FinishSound ==
  ASSUME NEW s, NEW h, NEW fin, Sound(s, h, fin), s.aob.item = {},
         NEW id, Spent(s, id), HasStream(s, id) => "WR" \in s.streams[id].shut
  PROVE  Sound(s, h, fin \cup {id})
<1>1. Flight(s, fin \cup {id})
  BY DEF Flight
<1>2. Shuts(s, fin \cup {id})
  BY DEF Sound, Shuts, LiveStreams
<1>3. IdsSpent(s, fin \cup {id})
  BY DEF Sound, IdsSpent
<1> QED BY <1>1, <1>2, <1>3 DEF Sound

LEMMA AfterStreamFrameSound ==
  ASSUME NEW t \in SessionType, NEW fin, Sound(t, {}, fin), t.aob.item = {},
         NEW f \in Frame, Spent(t, f.id), NEW st \in States, st # "NONE",
         HasStream(t, f.id) /\ st = "CLOSING" => t.streams[f.id].state = "CLOSING"
  PROVE  Sound(AfterStreamFrame(t, f, st), {}, IF f.fin THEN fin \cup {f.id} ELSE fin)
<1> DEFINE fin2 == IF f.fin THEN fin \cup {f.id} ELSE fin
<1>1. CASE ~HasStream(t, f.id)
  BY <1>1, FinishSound DEF AfterStreamFrame
<1>2. CASE HasStream(t, f.id)
  <2> DEFINE flags == (IF f.fin THEN {"WR"} ELSE {})
                        \cup (IF f.type = "SYN_STREAM" /\ f.uni THEN {"RD"} ELSE {})
             a == SetState(t, f.id, st)
             b == Shutdown(a, f.id, flags)
             u == CloseStreamIfShutRdwr(b, f.id)
  <2>1. f.id \in StreamId
    BY DEF Frame
  <2>2. a \in SessionType /\ Keeps(t, a)
    BY <1>2, <2>1, SetStateType, SetStateKeeps
  <2>3. Sound(a, {}, fin) /\ HasStream(a, f.id) /\ a.aob.item = {}
    BY <1>2, <2>1, SetStateSound
  <2>4. flags \in SUBSET {"RD", "WR"} /\ (f.fin => "WR" \in flags)
    OBVIOUS
  <2>5. AfterStreamFrame(t, f, st) =
          IF f.prd /\ f.type # "HEADERS" THEN SubmitData(u, f.id, TRUE) ELSE u
    BY <1>2 DEF AfterStreamFrame
  <2> HIDE DEF a, flags
  <2>6. /\ Sound(u, {}, fin) /\ u.aob.item = {}
        /\ HasStream(u, f.id) => flags \subseteq u.streams[f.id].shut
    BY <2>1, <2>2, <2>3, <2>4, ShutCloseSound
  <2>7. b \in SessionType /\ Keeps(t, b)
    BY <2>1, <2>2, <2>4, ShutdownType, ShutdownKeeps, KeepsTrans
  <2> HIDE DEF b
  <2>8. u \in SessionType /\ Keeps(t, u)
    BY <2>1, <2>7, CloseIfShutType, CloseIfShutKeeps, KeepsTrans
  <2> HIDE DEF u
  <2>9. Sound(u, {}, fin2)
    BY <2>4, <2>6, <2>8, KeepsSpent, FinishSound
  <2> HIDE DEF fin2
  <2>10. Sound(SubmitData(u, f.id, TRUE), {}, fin2)
    BY <2>1, <2>8, <2>9, SubmitDataSound
  <2> QED BY <2>5, <2>9, <2>10 DEF fin2
<1> QED BY <1>1, <1>2

LEMMA AfterDataSound ==
  ASSUME NEW t \in SessionType, NEW x \in Item, NEW fin, Sound(t, {x}, fin),
         t.aob.item = {}, x.f.type = "DATA", Spent(t, x.f.id),
         NEW eof \in BOOLEAN, NEW rd \in ReadResult
  PROVE  Sound(AfterData(t, x, eof, rd), {},
               IF x.f.fin /\ eof THEN fin \cup {x.f.id} ELSE fin)
<1> DEFINE id == x.f.id
           a  == Shutdown(t, id, {"WR"})
           c  == CloseStreamIfShutRdwr(a, id)
           fin2 == IF x.f.fin /\ eof THEN fin \cup {id} ELSE fin
<1>1. id \in StreamId
  BY ItemFrame
<1>2. CASE eof
  <2>1. AfterData(t, x, eof, rd) = IF x.f.fin /\ HasStream(t, id) THEN c ELSE t
    BY <1>2 DEF AfterData
  <2>2. Sound(t, {}, fin)
    BY DropSound
  <2>3. ASSUME x.f.fin, HasStream(t, id) PROVE Sound(c, {}, fin2)
    <3>1. /\ Sound(c, {}, fin) /\ c.aob.item = {}
          /\ HasStream(c, id) => {"WR"} \subseteq c.streams[id].shut
      BY <1>1, <2>2, <2>3, ShutCloseSound
    <3>2. a \in SessionType /\ Keeps(t, a)
      BY <1>1, ShutdownType, ShutdownKeeps
    <3> HIDE DEF a
    <3>3. Keeps(t, c)
      BY <1>1, <3>2, CloseIfShutKeeps, KeepsTrans
    <3> HIDE DEF c
    <3>4. Sound(c, {}, fin \cup {id})
      BY <3>1, <3>3, KeepsSpent, FinishSound
    <3> QED BY <1>2, <2>3, <3>4
  <2>4. ASSUME ~(x.f.fin /\ HasStream(t, id)) PROVE Sound(t, {}, fin2)
    <3>1. CASE x.f.fin
      BY <1>2, <2>2, <2>4, <3>1, FinishSound
    <3>2. CASE ~x.f.fin
      BY <2>2, <3>2
    <3> QED BY <3>1, <3>2
  <2> QED BY <2>1, <2>3, <2>4
<1>3. CASE ~eof
  <2>1. AfterData(t, x, eof, rd) =
          IF ~DataSendable(t, id) THEN t
          ELSE IF \A next \in NextObItem(t) : x.pri <= next.pri
          THEN ReadData(t, x, rd) ELSE [t EXCEPT !.ob_pq = @ \cup {x}]
    BY <1>3 DEF AfterData
  <2>2. Sound(t, {}, fin)
    BY DropSound
  <2>3. DataSendable(t, id) => Sound(ReadData(t, x, rd), {}, fin)
    BY ReadDataSound
  <2>4. Sound([t EXCEPT !.ob_pq = @ \cup {x}], {}, fin)
    BY QueuedSound
  <2> QED BY <1>3, <2>1, <2>2, <2>3, <2>4
<1> QED BY <1>2, <1>3

\* finished after SendRest.
FinishedBy(s, fin) ==
  LET w == WireFrame(s)
  IN  IF w.fin /\ w.type \in StreamFrames THEN fin \cup {w.id} ELSE fin

LEMMA FinishedByFrame ==
  ASSUME NEW s \in SessionType, s.aob.item # {}, NEW fin
  PROVE  LET f == Aob(s).f
         IN  FinishedBy(s, fin) =
               IF f.type \notin StreamFrames THEN fin
               ELSE IF f.type = "DATA"
               THEN IF f.fin /\ s.aob.eof THEN fin \cup {f.id} ELSE fin
               ELSE IF f.fin THEN fin \cup {f.id} ELSE fin
<1> DEFINE f == Aob(s).f
           d == [f EXCEPT !.val = s.aob.len, !.fin = @ /\ s.aob.eof]
           c == [f EXCEPT !.prd = FALSE]
<1>1. f \in Frame
  BY AobItemType, ItemFrame
<1>2. WireFrame(s) = IF f.type = "DATA" THEN d ELSE c
  BY DEF WireFrame
<1> HIDE DEF f
<1>3. d.type = f.type /\ d.id = f.id /\ d.fin = (f.fin /\ s.aob.eof)
  BY <1>1 DEF Frame
<1>4. c.type = f.type /\ c.id = f.id /\ c.fin = f.fin
  BY <1>1 DEF Frame
<1>5. "DATA" \in StreamFrames
  BY DEF StreamFrames
<1> HIDE DEF d, c
<1>6. CASE f.type = "DATA"
  BY <1>2, <1>3, <1>5, <1>6 DEF FinishedBy, f
<1>7. CASE f.type # "DATA"
  BY <1>2, <1>4, <1>7 DEF FinishedBy, f
<1> QED BY <1>6, <1>7

LEMMA CompleteWriteSound ==
  ASSUME NEW s \in SessionType, s.aob.item # {}, NEW rd \in ReadResult, NEW fin,
         Sound(s, {}, fin)
  PROVE  Sound(CompleteWrite(s, rd), {}, FinishedBy(s, fin))
<1> DEFINE c == ChargeWindow(s)
           x == Aob(c)
           t == [c EXCEPT !.aob = NoAob]
           fin2 == FinishedBy(s, fin)
<1>1. /\ c \in SessionType /\ c.aob = s.aob /\ Keeps(s, c) /\ Sound(c, {}, fin)
  BY ChargeWindowType, ChargeWindowKeeps, ChargeWindowSound
<1>2. CompleteWrite(s, rd) = AfterFrameSent(c, rd)
  BY DEF CompleteWrite
<1> HIDE DEF c
<1>3. x \in Item /\ x = Aob(s) /\ x \in c.aob.item
  BY <1>1, AobItemType DEF Aob
<1>4. x.f.type \in StreamFrames => Spent(c, x.f.id)
  BY <1>1, <1>3 DEF Sound, Flight
<1>5. t \in SessionType
  <2>1. NoAob \in AobType BY DEF NoAob, AobType
  <2> QED BY <1>1, <2>1, AobUpdateType
<1>6. Sound(t, {x}, fin) /\ t.aob.item = {} /\ Keeps(c, t)
  BY <1>1, <1>3, TakenSound, FieldUpdatesKeep
<1>7. AfterFrameSent(c, rd) =
        CASE x.f.type = "SYN_STREAM" -> AfterStreamFrame(t, x.f, "OPENING")
          [] x.f.type = "SYN_REPLY"  -> AfterStreamFrame(t, x.f, "OPENED")
          [] x.f.type = "HEADERS"    ->
               IF HasStream(t, x.f.id)
               THEN AfterStreamFrame(t, x.f, t.streams[x.f.id].state) ELSE t
          [] x.f.type = "RST_STREAM" -> CloseStream(t, x.f.id)
          [] x.f.type = "PING"       -> [t EXCEPT !.last_ping_unique_id = x.f.val]
          [] x.f.type = "GOAWAY"     -> [t EXCEPT !.goaway_flags = @ \cup {"SEND"}]
          [] x.f.type = "DATA"       -> AfterData(t, x, c.aob.eof, rd)
          [] OTHER -> t
  BY DEF AfterFrameSent
<1>8. fin2 = IF x.f.type \notin StreamFrames THEN fin
             ELSE IF x.f.type = "DATA"
             THEN IF x.f.fin /\ s.aob.eof THEN fin \cup {x.f.id} ELSE fin
             ELSE IF x.f.fin THEN fin \cup {x.f.id} ELSE fin
  BY <1>3, FinishedByFrame
<1> HIDE DEF t, x, fin2
<1>9. x.f \in Frame /\ x.f.id \in StreamId /\ c.aob.eof \in BOOLEAN
  BY <1>1, <1>3, ItemFrame DEF SessionType, AobType
<1>10. x.f.type \in StreamFrames => Spent(t, x.f.id)
  BY <1>4, <1>6, KeepsSpent
<1>11. x.f.type # "RST_STREAM" => Sound(t, {}, fin)
  BY <1>6, DropSound
<1>12. CASE x.f.type \in {"SYN_STREAM", "SYN_REPLY", "HEADERS"}
  <2>1. /\ x.f.type \in StreamFrames /\ x.f.type # "DATA" /\ x.f.type # "RST_STREAM"
        /\ {"OPENING", "OPENED"} \subseteq States
    BY <1>12 DEF StreamFrames, States
  <2>2. \A st \in States \ {"NONE"} :
          (HasStream(t, x.f.id) /\ st = "CLOSING" => t.streams[x.f.id].state = "CLOSING")
            => Sound(AfterStreamFrame(t, x.f, st), {}, fin2)
    BY <1>5, <1>6, <1>8, <1>9, <1>10, <1>11, <2>1, AfterStreamFrameSound
  <2>3. x.f.type = "HEADERS" /\ HasStream(t, x.f.id)
          => Sound(AfterStreamFrame(t, x.f, t.streams[x.f.id].state), {}, fin2)
    <3>1. HasStream(t, x.f.id) => t.streams[x.f.id].state \in States \ {"NONE"}
      BY <1>5, <1>9, StreamAtType DEF Stream, HasStream
    <3> QED BY <2>2, <3>1
  <2>4. ~HasStream(t, x.f.id) => Sound(t, {}, fin2)
    BY <1>6, <1>8, <1>10, <1>11, <2>1, FinishSound
  <2>5. "OPENING" \in States \ {"NONE"} /\ "OPENED" \in States \ {"NONE"}
    BY DEF States
  <2>6. /\ Sound(AfterStreamFrame(t, x.f, "OPENING"), {}, fin2)
        /\ Sound(AfterStreamFrame(t, x.f, "OPENED"), {}, fin2)
    BY <2>2, <2>5
  <2> QED BY <1>2, <1>7, <1>12, <2>3, <2>4, <2>6 DEF fin2
<1>13. CASE x.f.type = "RST_STREAM"
  <2>1. Sound(CloseStream(t, x.f.id), {x}, fin) /\ ~HasStream(CloseStream(t, x.f.id), x.f.id)
    BY <1>5, <1>6, <1>9, CloseStreamSound
  <2>2. Sound(CloseStream(t, x.f.id), {}, fin)
    BY <2>1, DropSound DEF LiveStreams
  <2>3. fin2 = fin
    BY <1>8, <1>13 DEF StreamFrames
  <2> QED BY <1>2, <1>7, <1>13, <2>2, <2>3 DEF fin2
<1>14. CASE x.f.type = "DATA"
  <2>1. x.f.type \in StreamFrames
    BY <1>14 DEF StreamFrames
  <2>2. fin2 = IF x.f.fin /\ c.aob.eof THEN fin \cup {x.f.id} ELSE fin
    BY <1>1, <1>8, <1>14, <2>1
  <2>3. Sound(AfterData(t, x, c.aob.eof, rd), {}, fin2)
    BY <1>3, <1>5, <1>6, <1>9, <1>10, <1>14, <2>1, <2>2, AfterDataSound
  <2> QED BY <1>2, <1>7, <1>14, <2>3 DEF fin2
<1>15. CASE x.f.type \notin {"SYN_STREAM", "SYN_REPLY", "HEADERS", "RST_STREAM", "DATA"}
  <2>1. fin2 = fin
    BY <1>8, <1>15 DEF StreamFrames
  <2>2. Sound(t, {}, fin)
    BY <1>11, <1>15
  <2>3. /\ \A v : Sound([t EXCEPT !.last_ping_unique_id = v], {}, fin)
        /\ \A v : Sound([t EXCEPT !.goaway_flags = v], {}, fin)
    BY <1>5, <2>2, FieldUpdatesSound
  <2> QED BY <1>2, <1>7, <1>15, <2>1, <2>2, <2>3 DEF fin2
<1> QED BY <1>12, <1>13, <1>14, <1>15
-----------------------------------------------------------------------------
(* spdylay_session_mem_recv.                                               *)

LEMMA ShutReadSound ==
  ASSUME NEW s \in SessionType, NEW fin, Sound(s, {}, fin), NEW id \in StreamId,
         HasStream(s, id)
  PROVE  Sound(ShutRead(s, id), {}, fin)
  BY ShutCloseSound DEF ShutRead

LEMMA OnSynReplySound ==
  ASSUME NEW s \in SessionType, NEW fin, Sound(s, {}, fin), NEW f \in Frame
  PROVE  Sound(OnSynReplyReceived(s, f), {}, fin)
<1> DEFINE t == SetState(s, f.id, "OPENED")
<1>1. f.id \in StreamId
  BY DEF Frame
<1>2. t \in SessionType
  <2>1. "OPENED" \in States BY DEF States
  <2> QED BY <1>1, <2>1, SetStateType
<1>3. HasStream(s, f.id) => Sound(t, {}, fin) /\ HasStream(t, f.id)
  BY <1>1, SetStateSound
<1> HIDE DEF t
<1>4. HasStream(s, f.id) => Sound(ShutRead(t, f.id), {}, fin)
  BY <1>1, <1>2, <1>3, ShutReadSound
<1>5. /\ Sound(AddRstStream(s, f.id, "STREAM_IN_USE"), {}, fin)
      /\ Sound(AddRstStream(s, f.id, "PROTOCOL_ERROR"), {}, fin)
  <2>1. {"STREAM_IN_USE", "PROTOCOL_ERROR"} \subseteq StatusCodes
    BY DEF StatusCodes
  <2> QED BY <1>1, <2>1, AddRstStreamSound
<1> QED BY <1>3, <1>4, <1>5 DEF OnSynReplyReceived, Readable, t

LEMMA OnHeadersSound ==
  ASSUME NEW s \in SessionType, NEW fin, Sound(s, {}, fin), NEW f \in Frame
  PROVE  Sound(OnHeadersReceived(s, f), {}, fin)
<1>1. f.id \in StreamId /\ "PROTOCOL_ERROR" \in StatusCodes
  BY DEF Frame, StatusCodes
<1>2. Sound(AddRstStream(s, f.id, "PROTOCOL_ERROR"), {}, fin)
  BY <1>1, AddRstStreamSound
<1>3. HasStream(s, f.id) => Sound(ShutRead(s, f.id), {}, fin)
  BY <1>1, ShutReadSound
<1> QED BY <1>2, <1>3 DEF OnHeadersReceived, Readable

LEMMA OnPingSound ==
  ASSUME NEW s \in SessionType, NEW fin, Sound(s, {}, fin), NEW f \in Frame
  PROVE  Sound(OnPingReceived(s, f), {}, fin)
<1>1. f.val \in Nat
  BY DEF Frame
<1>2. Sound(AddPing(s, f.val), {}, fin)
  BY <1>1, AddPingSound
<1>3. Sound([s EXCEPT !.last_ping_unique_id = 0], {}, fin)
  BY FieldUpdatesSound
<1> QED BY <1>2, <1>3 DEF OnPingReceived

LEMMA OnDataSound ==
  ASSUME NEW s \in SessionType, NEW fin, Sound(s, {}, fin), NEW f \in Frame
  PROVE  Sound(OnDataReceived(s, f), {}, fin)
<1>1. f.id \in StreamId
  BY DEF Frame
<1>2. {"INVALID_STREAM", "PROTOCOL_ERROR"} \subseteq StatusCodes
  BY DEF StatusCodes
<1>3. /\ Sound(AddRstStream(s, f.id, "INVALID_STREAM"), {}, fin)
      /\ Sound(AddRstStream(s, f.id, "PROTOCOL_ERROR"), {}, fin)
  BY <1>1, <1>2, AddRstStreamSound
<1>4. HasStream(s, f.id) => Sound(ShutRead(s, f.id), {}, fin)
  BY <1>1, ShutReadSound
<1> QED BY <1>3, <1>4 DEF OnDataReceived

LEMMA OnInvalidHeaderBlockSound ==
  ASSUME NEW s \in SessionType, NEW fin, Sound(s, {}, fin), NEW f \in Frame
  PROVE  Sound(OnInvalidHeaderBlock(s, f), {}, fin)
<1>1. f.id \in StreamId
  BY DEF Frame
<1>2. {"FRAME_TOO_LARGE", "PROTOCOL_ERROR"} \subseteq StatusCodes
  BY DEF StatusCodes
<1>3. /\ Sound(AddRstStream(s, f.id, "FRAME_TOO_LARGE"), {}, fin)
      /\ Sound(AddRstStream(s, f.id, "PROTOCOL_ERROR"), {}, fin)
  BY <1>1, <1>2, AddRstStreamSound
<1> QED BY <1>3 DEF OnInvalidHeaderBlock

LEMMA AcceptSynStreamSound ==
  ASSUME NEW s \in SessionType, NEW fin, Sound(s, {}, fin), NEW f \in Frame,
         ~HasStream(s, f.id), Spent(s, f.id), f.id \notin fin
  PROVE  Sound(AcceptSynStream(s, f), {}, fin)
<1> DEFINE flags == (IF f.fin THEN {"RD"} ELSE {}) \cup (IF f.uni THEN {"WR"} ELSE {})
           o == OpenStream(s, f.id, f.pri, "OPENING")
           old == o.streams[f.id]
           str == [old EXCEPT !.shut = @ \cup flags]
<1>1. f.id \in StreamId /\ f.pri \in 0..PriLowest /\ "OPENING" \in States
  BY DEF Frame, States
<1>2. /\ o \in SessionType /\ Sound(o, {}, fin)
      /\ old.shut = {} /\ HasStream(o, f.id)
  BY <1>1, OpenStreamType, OpenStreamSound
<1>3. AcceptSynStream(s, f) = IF f.fin /\ f.uni THEN s ELSE PutStream(o, f.id, str)
  BY DEF AcceptSynStream, Shutdown
<1> HIDE DEF o
<1>4. ASSUME ~(f.fin /\ f.uni) PROVE Sound(PutStream(o, f.id, str), {}, fin)
  <2>1. old \in Stream
    BY <1>1, <1>2, StreamAtType
  <2>2. flags # {"RD", "WR"}
    BY <1>4
  <2> HIDE DEF flags
  <2>3. /\ str.state = old.state /\ str.deferred = old.deferred
        /\ str.deferred_flow = old.deferred_flow /\ str.shut = old.shut \cup flags
        /\ str.window_size = old.window_size
    BY <2>1 DEF Stream
  <2>4. /\ old.state # "NONE"
        /\ old.deferred_flow => old.window_size <= 0
    BY <1>1, <1>2 DEF Sound, Parking, HasStream, LiveStreams
  <2> HIDE DEF str, old
  <2>5. str.shut = flags
    BY <1>2, <2>3
  <2> QED BY <1>1, <1>2, <2>2, <2>3, <2>4, <2>5, PutStreamSound DEF old
<1> QED BY <1>3, <1>4

LEMMA OnSynStreamSound ==
  ASSUME NEW s \in SessionType, NEW fin \in SUBSET StreamId, Sound(s, {}, fin),
         NEW f \in Frame
  PROVE  Sound(OnSynStreamReceived(s, f), {}, fin)
<1> DEFINE t == [s EXCEPT !.last_recv_stream_id = f.id]
           code == ValidateSynStream(t, f)
<1>1. f.id \in StreamId /\ "PROTOCOL_ERROR" \in StatusCodes
  BY DEF Frame, StatusCodes
<1>2. /\ Sound(AddRstStream(s, f.id, "PROTOCOL_ERROR"), {}, fin)
      /\ Sound(FailSession(s), {}, fin)
  BY <1>1, AddRstStreamSound, FailSessionSound
<1>3. CASE s.goaway_flags # {} \/ s.last_recv_stream_id = f.id
             \/ ~IsNewPeerStreamId(s, f.id)
  BY <1>2, <1>3 DEF OnSynStreamReceived
<1>4. CASE s.goaway_flags = {} /\ s.last_recv_stream_id # f.id
             /\ IsNewPeerStreamId(s, f.id)
  <2>1. /\ t \in SessionType /\ t.server = s.server /\ t.streams = s.streams
        /\ t.next_stream_id = s.next_stream_id /\ t.last_recv_stream_id = f.id
        /\ t.num_outgoing_streams = s.num_outgoing_streams
        /\ t.num_incoming_streams = s.num_incoming_streams /\ SameQueues(s, t)
    BY <1>1 DEF SessionType, SameQueues
  <2>2. code = "" \/ code \in StatusCodes
    BY DEF ValidateSynStream, StatusCodes
  <2>3. OnSynStreamReceived(s, f) = IF code # "" THEN AddRstStream(t, f.id, code)
                                    ELSE AcceptSynStream(t, f)
    BY <1>4 DEF OnSynStreamReceived
  <2>4. /\ IsMyStreamId(s, s.next_stream_id)
        /\ \A i \in LiveStreams(s) \cup fin : Spent(s, i)
    BY DEF Sound, IdsSpent
  <2> HIDE DEF t, code
  <2>5. /\ StreamId \subseteq Nat /\ s.last_recv_stream_id \in Nat
        /\ \A i : IsMyStreamId(t, i) = IsMyStreamId(s, i)
    BY <2>1, BoundsAssumption DEF StreamId, SessionType, IsMyStreamId
  <2>6. /\ \A i \in StreamId : Spent(s, i) => Spent(t, i)
        /\ Spent(t, f.id) /\ ~Spent(s, f.id)
    <3>1. ~IsMyStreamId(s, f.id) /\ s.last_recv_stream_id < f.id /\ f.id \in Nat
      BY <1>1, <1>4, <2>5 DEF IsNewPeerStreamId
    <3>2. Spent(t, f.id) /\ ~Spent(s, f.id)
      BY <2>1, <2>5, <3>1 DEF Spent
    <3>3. \A i \in StreamId : Spent(s, i) => Spent(t, i)
      BY <2>1, <2>5, <3>1 DEF Spent
    <3> QED BY <3>2, <3>3
  <2>7. Sound(t, {}, fin)
    BY <2>1, <2>4, <2>5, <2>6, SpendSound
  <2>8. ~HasStream(t, f.id) /\ f.id \notin fin
    BY <1>1, <2>1, <2>4, <2>6 DEF LiveStreams, HasStream
  <2>9. Sound(AcceptSynStream(t, f), {}, fin)
    BY <2>1, <2>6, <2>7, <2>8, AcceptSynStreamSound
  <2>10. code \in StatusCodes => Sound(AddRstStream(t, f.id, code), {}, fin)
    BY <1>1, <2>1, <2>7, AddRstStreamSound
  <2> QED BY <2>2, <2>3, <2>9, <2>10
<1> QED BY <1>3, <1>4

LEMMA OnCtrlSound ==
  ASSUME NEW s \in SessionType, NEW fin \in SUBSET StreamId, Sound(s, {}, fin),
         NEW f \in Frame
  PROVE  Sound(OnCtrlReceived(s, f), {}, fin)
<1>1. Sound(OnRstStreamReceived(s, f), {}, fin)
  BY CloseStreamSound DEF OnRstStreamReceived, Frame
<1>2. Sound(OnGoawayReceived(s, f), {}, fin)
  BY FieldUpdatesSound DEF OnGoawayReceived
<1>3. Sound(OnWindowUpdateReceived(s, f), {}, fin)
  BY OnWindowUpdateSound
<1> QED BY <1>1, <1>2, <1>3, OnSynStreamSound, OnSynReplySound, OnHeadersSound,
           OnSettingsSound, OnPingSound DEF OnCtrlReceived

LEMMA RecvWindowSound ==
  ASSUME NEW s \in SessionType, NEW fin, Sound(s, {}, fin), NEW id \in StreamId,
         HasStream(s, id), NEW n
  PROVE  Sound(PutStream(s, id, [s.streams[id] EXCEPT !.recv_window_size = n]), {}, fin)
<1> DEFINE old == s.streams[id]
           str == [old EXCEPT !.recv_window_size = n]
<1>1. old \in Stream
  BY StreamAtType
<1>2. /\ str.state = old.state /\ str.deferred = old.deferred
      /\ str.deferred_flow = old.deferred_flow /\ str.shut = old.shut
      /\ str.window_size = old.window_size
  BY <1>1 DEF Stream
<1>3. /\ old.shut # {"RD", "WR"} /\ old.state # "NONE"
      /\ old.deferred_flow => old.window_size <= 0
  BY DEF Sound, Shuts, Parking, HasStream, LiveStreams
<1> HIDE DEF str, old
<1>4. Sound(PutStream(s, id, str), {}, fin)
  BY <1>2, <1>3, PutStreamSound DEF old
<1> QED BY <1>4 DEF str, old

LEMMA UpdateRecvWindowSound ==
  ASSUME NEW s \in SessionType, NEW fin, Sound(s, {}, fin), NEW id \in StreamId,
         NEW n \in Nat
  PROVE  Sound(UpdateRecvWindowSize(s, id, n), {}, fin)
<1> SUFFICES ASSUME HasStream(s, id) PROVE Sound(UpdateRecvWindowSize(s, id, n), {}, fin)
  BY DEF UpdateRecvWindowSize
<1> DEFINE sum  == s.streams[id].recv_window_size + n
           recv == IF sum > Int32Max THEN Int32Max ELSE sum
           left(k) == PutStream(s, id, [s.streams[id] EXCEPT !.recv_window_size = k])
<1>1. recv \in Nat
  BY StreamAtType, BoundsAssumption DEF Stream
<1> HIDE DEF recv
<1>2. \A k \in Nat : left(k) \in SessionType /\ Sound(left(k), {}, fin)
  BY RecvWindowType, RecvWindowSound
<1> HIDE DEF left
<1>3. Sound(AddWindowUpdate(left(0), id, recv), {}, fin)
  BY <1>1, <1>2, AddWindowUpdateSound
<1> QED BY <1>1, <1>2, <1>3 DEF UpdateRecvWindowSize, left, recv

LEMMA RecvDataPayloadSound ==
  ASSUME NEW s \in SessionType, NEW fin, Sound(s, {}, fin), s.iframe.f # {},
         NEW n \in Nat
  PROVE  Sound(RecvDataPayload(s, n), {}, fin)
<1> DEFINE f   == CHOOSE g \in s.iframe.f : TRUE
           off == s.iframe.off + n
           last == off = f.val
           t == IF FlowControl /\ ~s.iframe.ign /\ n > 0 /\ ~(last /\ f.fin)
                THEN UpdateRecvWindowSize(s, f.id, n) ELSE s
           d == OnDataReceived(t, f)
<1>1. f \in Frame
  BY DEF SessionType, IframeType
<1> HIDE DEF f, off
<1>2. f.id \in StreamId
  BY <1>1 DEF Frame
<1>3. t \in SessionType /\ Sound(t, {}, fin)
  BY <1>2, UpdateRecvWindowType, UpdateRecvWindowSound
<1> HIDE DEF t
<1>4. d \in SessionType /\ Sound(d, {}, fin)
  BY <1>1, <1>3, OnDataType, OnDataSound
<1> HIDE DEF d
<1>5. \A v : Sound([t EXCEPT !.iframe = v], {}, fin) /\ Sound([d EXCEPT !.iframe = v], {}, fin)
  BY <1>3, <1>4, FieldUpdatesSound
<1> QED BY <1>5 DEF RecvDataPayload, d, t, f, off
-----------------------------------------------------------------------------
(* Calls of the application.                                               *)

LEMMA SubmitSynStreamSound ==
  ASSUME NEW s \in SessionType, NEW fin, Sound(s, {}, fin), NEW f \in Frame
  PROVE  Sound(SubmitSynStream(s, f), {}, fin)
<1> DEFINE g == [f EXCEPT !.id = 0, !.assoc = IF s.server THEN @ ELSE 0]
<1>1. g \in Frame
  BY ZeroIsStreamId DEF Frame
<1> HIDE DEF g
<1>2. Sound(AddFrame(s, g), {}, fin)
  BY <1>1, AddFrameSound
<1> QED BY <1>2 DEF SubmitSynStream, g

LEMMA SubmitPingSound ==
  ASSUME NEW s \in SessionType, NEW fin, Sound(s, {}, fin)
  PROVE  Sound(SubmitPing(s), {}, fin)
<1> DEFINE uid == IF s.next_unique_id > MaxUniqueId
                  THEN IF s.server THEN 2 ELSE 1 ELSE s.next_unique_id
           t == [s EXCEPT !.next_unique_id = uid + 2]
<1>1. uid \in Nat
  BY DEF SessionType
<1> HIDE DEF uid
<1>2. t \in SessionType
  BY <1>1 DEF SessionType
<1>3. Sound(t, {}, fin)
  BY FieldUpdatesSound
<1> HIDE DEF t
<1>4. Sound(AddPing(t, uid), {}, fin)
  BY <1>1, <1>2, <1>3, AddPingSound
<1> QED BY <1>4 DEF SubmitPing, t, uid

LEMMA SubmitSettingsSound ==
  ASSUME NEW s \in SessionType, NEW fin, Sound(s, {}, fin), NEW f \in Frame
  PROVE  Sound(SubmitSettings(s, f), {}, fin)
<1> DEFINE t == AddFrame(s, f)
<1>1. t \in SessionType /\ Sound(t, {}, fin)
  BY AddFrameType, AddFrameSound
<1> HIDE DEF t
<1>2. \A v : Sound([t EXCEPT !.local = v], {}, fin)
  BY <1>1, FieldUpdatesSound
<1> QED BY <1>1, <1>2 DEF SubmitSettings, t

LEMMA SubmitWindowUpdateSound ==
  ASSUME NEW s \in SessionType, NEW fin, Sound(s, {}, fin), NEW id \in StreamId,
         NEW delta \in Nat
  PROVE  Sound(SubmitWindowUpdate(s, id, delta), {}, fin)
<1> SUFFICES ASSUME HasStream(s, id) PROVE Sound(SubmitWindowUpdate(s, id, delta), {}, fin)
  BY DEF SubmitWindowUpdate
<1> DEFINE recv == s.streams[id].recv_window_size
           n == IF recv < delta THEN 0 ELSE recv - delta
           t == PutStream(s, id, [s.streams[id] EXCEPT !.recv_window_size = n])
<1>1. n \in Nat
  BY StreamAtType DEF Stream
<1> HIDE DEF n
<1>2. t \in SessionType /\ Sound(t, {}, fin)
  BY <1>1, RecvWindowType, RecvWindowSound
<1> HIDE DEF t
<1>3. Sound(AddWindowUpdate(t, id, delta), {}, fin)
  BY <1>2, AddWindowUpdateSound
<1> QED BY <1>3 DEF SubmitWindowUpdate, t, n
-----------------------------------------------------------------------------
(* Every step of the specification.                                        *)

SoundInv == TypeOK /\ Sound(ses, {}, finished)

LEMMA SoundInit == Init => SoundInv
<1> SUFFICES ASSUME Init PROVE SoundInv
  OBVIOUS
<1>1. TypeOK
  BY TypeInit
<1>2. /\ ses.server = world.server /\ ses.next_stream_id = IF world.server THEN 2 ELSE 1
      /\ ses.num_outgoing_streams = 0 /\ ses.num_incoming_streams = 0
      /\ ses.ob_pq = {} /\ ses.ob_ss_pq = {} /\ ses.aob = NoAob
      /\ ses.streams = [i \in StreamId |-> NoStream] /\ finished = {}
  BY DEF Init, SessionNew
<1>3. LiveStreams(ses) = {}
  BY <1>2 DEF LiveStreams, HasStream, NoStream
<1>4. ses.aob.item = {} /\ Parked(ses) = {} /\ MineOf(ses) = {}
  BY <1>2, <1>3 DEF NoAob, Parked, MineOf
<1>5. IsMyStreamId(ses, ses.next_stream_id)
  BY <1>2 DEF IsMyStreamId
<1>6. Owned(ses, {})
  BY <1>2, <1>4 DEF Owned, Apart
<1>7. Counted(ses)
  <2>1. Cardinality({}) = 0
    BY FS_EmptySet
  <2>2. LiveStreams(ses) \ MineOf(ses) = {}
    BY <1>3
  <2> QED BY <1>2, <1>4, <2>1, <2>2 DEF Counted
<1>8. /\ Parking(ses) /\ Flight(ses, finished) /\ Resets(ses, {})
      /\ Shuts(ses, finished) /\ IdsSpent(ses, finished)
  BY <1>2, <1>3, <1>4, <1>5 DEF Parking, Flight, Resets, Shuts, IdsSpent
<1> QED BY <1>1, <1>6, <1>7, <1>8 DEF SoundInv, Sound

LEMMA SoundStep ==
  ASSUME TypeOK, Sound(ses, {}, finished), Next
  PROVE  Sound(ses', {}, finished')
<1>0. /\ ses \in SessionType /\ finished \in SUBSET StreamId
      /\ world.app \subseteq Frame /\ world.peer \subseteq Frame /\ world.bad \subseteq Frame
      /\ world.reads \subseteq ReadResult
      /\ \A f \in Frame : f.id \in StreamId /\ f.val \in Nat /\ f.arg \in Args
  <2>1. world \in World
    BY WorldsAssumption DEF TypeOK
  <2> QED BY <2>1 DEF World, TypeOK, Frame
<1>q. ASSUME NEW t, Sound(t, {}, finished), Quiet(t)
      PROVE  Sound(ses', {}, finished')
  BY <1>q DEF Quiet, Step
<1>1. CASE AppSynStream
  BY <1>0, <1>q, <1>1, SubmitSynStreamSound DEF AppSynStream
<1>2. CASE AppStreamFrame
  <2>1. \A f \in Frame : Sound(AddFrame(ses, f), {}, finished)
    BY <1>0, AddFrameSound
  <2> QED BY <1>0, <1>q, <1>2, <2>1 DEF AppStreamFrame
<1>3. CASE AppSettings
  BY <1>0, <1>q, <1>3, SubmitSettingsSound DEF AppSettings
<1>4. CASE AppWindowUpdate
  BY <1>0, <1>q, <1>4, SubmitWindowUpdateSound DEF AppWindowUpdate
<1>5. CASE AppPing
  BY <1>0, <1>q, <1>5, SubmitPingSound DEF AppPing
<1>6. CASE AppGoaway
  <2>1. \A c \in Args : Sound(SubmitGoaway(ses, c), {}, finished)
    BY <1>0, SubmitGoawaySound
  <2> QED BY <1>0, <1>q, <1>6, <2>1 DEF AppGoaway
<1>f. Sound(FailSession(ses), {}, finished)
  BY <1>0, FailSessionSound
<1>7. CASE AppFailSession
  BY <1>q, <1>7, <1>f DEF AppFailSession
<1>8. CASE AppResumeData
  BY <1>0, <1>q, <1>8, ResumeDataSound DEF AppResumeData, LiveStreams
<1>9. CASE AppSetOption
  BY <1>0, <1>q, <1>9, FieldUpdatesSound DEF AppSetOption
<1>10. CASE AppSetClientCertOrigin
  <2>1. \A o : Sound(SetInitialClientCertOrigin(ses, o), {}, finished)
    BY <1>0, FieldUpdatesSound DEF SetInitialClientCertOrigin
  <2> QED BY <1>q, <1>10, <2>1 DEF AppSetClientCertOrigin
<1>11. CASE Prepare
  <2>1. PICK item \in PopNextObItem(ses), rd \in world.reads, packs \in BOOLEAN :
          Quiet(PrepFrame(Popped(ses, item), item, rd, packs))
    BY <1>11 DEF Prepare
  <2>2. item \in ses.ob_pq \cup ses.ob_ss_pq /\ item \in Item
    BY <1>0 DEF PopNextObItem, Top, SessionType
  <2> DEFINE p == Popped(ses, item)
  <2>3. p \in SessionType /\ Sound(p, {item}, finished) /\ p.aob.item = {}
    BY <1>0, <1>11, <2>2, PoppedType, PoppedSound DEF Prepare
  <2> HIDE DEF p
  <2>4. Sound(PrepFrame(p, item, rd, packs), {}, finished)
    BY <1>0, <2>2, <2>3, PrepFrameSound
  <2> QED BY <1>q, <2>1, <2>4 DEF p
<1>12. CASE SendPart
  BY <1>0, <1>q, <1>12, PartialWriteSound DEF SendPart
<1>13. CASE SendRest
  <2>1. PICK rd \in world.reads : Step(CompleteWrite(ses, rd))
    BY <1>13 DEF SendRest
  <2>2. rd \in ReadResult /\ ses.aob.item # {}
    BY <1>0, <1>13 DEF SendRest
  <2>3. finished' = FinishedBy(ses, finished)
    BY <1>13 DEF SendRest, FinishedBy
  <2>4. Sound(CompleteWrite(ses, rd), {}, FinishedBy(ses, finished))
    BY <1>0, <2>2, CompleteWriteSound
  <2> QED BY <2>1, <2>3, <2>4 DEF Step
<1>14. CASE RecvCtrl
  BY <1>0, <1>q, <1>14, OnCtrlSound DEF RecvCtrl
<1>15. CASE RecvBadBlock
  BY <1>0, <1>q, <1>15, OnInvalidHeaderBlockSound DEF RecvBadBlock
<1>16. CASE RecvUnparsable
  BY <1>q, <1>16, <1>f DEF RecvUnparsable
<1>17. CASE RecvHead
  <2>1. \A f : Sound(RecvDataHead(ses, f), {}, finished)
    BY <1>0, FieldUpdatesSound DEF RecvDataHead
  <2> QED BY <1>q, <1>17, <2>1 DEF RecvHead
<1>18. CASE RecvPayload
  <2>1. PICK f \in ses.iframe.f : \E n \in 0..f.val : Quiet(RecvDataPayload(ses, n))
    BY <1>18 DEF RecvPayload
  <2>2. f \in Frame
    BY <1>0, <2>1 DEF SessionType, IframeType
  <2>3. PICK n \in 0..f.val : Quiet(RecvDataPayload(ses, n))
    BY <2>1
  <2>4. n \in Nat /\ ses.iframe.f # {}
    BY <1>0, <2>1, <2>2, <2>3
  <2> QED BY <1>0, <1>q, <2>3, <2>4, RecvDataPayloadSound
<1> QED BY <1>1, <1>2, <1>3, <1>4, <1>5, <1>6, <1>7, <1>8, <1>9, <1>10, <1>11, <1>12,
           <1>13, <1>14, <1>15, <1>16, <1>17, <1>18 DEF Next

LEMMA SoundNext == SoundInv /\ [Next]_vars => SoundInv'
<1> SUFFICES ASSUME SoundInv, [Next]_vars PROVE SoundInv'
  OBVIOUS
<1>1. TypeOK'
  BY TypeNext DEF SoundInv
<1>2. CASE UNCHANGED vars
  BY <1>1, <1>2 DEF SoundInv, vars
<1>3. CASE Next
  BY <1>1, <1>3, SoundStep DEF SoundInv
<1> QED BY <1>2, <1>3

LEMMA SoundAlways == Spec => []SoundInv
  BY SoundInit, SoundNext, PTL DEF Spec
-----------------------------------------------------------------------------
(* The invariants of Session.                                              *)

\* However calls, frames of the peer, deferrals, wakeups and partial writes
\* interleave, an outbound item is in one place: no item is freed or sent
\* twice, and a stream parks one DATA item of its own at most.
THEOREM ItemsHaveOneOwner == Spec => []OneOwner
<1>1. SoundInv => OneOwner
  <2> SUFFICES ASSUME SoundInv PROVE OneOwner
    OBVIOUS
  <2>1. Parked(ses) = Deferred
    BY DEF Parked, Deferred
  <2>2. Apart(ses.ob_pq, ses.ob_ss_pq, Deferred, ses.aob.item, {}, ses.next_seq)
    BY <2>1 DEF SoundInv, Sound, Owned
  <2>3. \A i \in LiveStreams(ses) :
          /\ \A d \in ses.streams[i].deferred : d.f.type = "DATA" /\ d.f.id = i
          /\ \A d, e \in ses.streams[i].deferred : d = e
    BY DEF SoundInv, Sound, Parking
  <2> HIDE DEF Deferred
  <2> QED BY <2>2, <2>3 DEF OneOwner, Queued, Apart
<1> QED BY <1>1, SoundAlways, PTL

\* DATA parked by flow control waits only while the window is shut: WINDOW_UPDATE,
\* SETTINGS and int32_t wraparound of the window never leave it asleep.
THEOREM NoWakeupLost == Spec => []NoLostWakeup
<1>1. SoundInv => NoLostWakeup
  BY DEF SoundInv, Sound, Parking, NoLostWakeup
<1> QED BY <1>1, SoundAlways, PTL

\* Every stream marked CLOSING has its RST_STREAM queued or on the wire.
THEOREM ClosingIsReset == Spec => []ClosingHasRst
<1>1. SoundInv => ClosingHasRst
  BY DEF SoundInv, Sound, Resets, ClosingHasRst
<1> QED BY <1>1, SoundAlways, PTL

\* num_outgoing_streams and num_incoming_streams are the numbers of streams of
\* either side in the map, on every path that opens or closes one.
THEOREM CountersExact == Spec => []StreamCounts
<1>1. SoundInv => StreamCounts
  BY DEF SoundInv, Sound, Counted, StreamCounts, MineOf, Mine, Theirs
<1> QED BY <1>1, SoundAlways, PTL

\* A stream shut in both directions is not in the map.
THEOREM ShutStreamsLeave == Spec => []NoZombieStream
<1>1. SoundInv => NoZombieStream
  BY DEF SoundInv, Sound, Shuts, NoZombieStream
<1> QED BY <1>1, SoundAlways, PTL

\* Once FLAG_FIN was sent on a stream no SYN_REPLY, HEADERS or DATA frame of that
\* stream becomes active.
THEOREM FinIsLast == Spec => []NothingAfterFin
<1>1. SoundInv => NothingAfterFin
  BY DEF SoundInv, Sound, Flight, NothingAfterFin, StreamFrames
<1> QED BY <1>1, SoundAlways, PTL
=============================================================================
