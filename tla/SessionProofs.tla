---------------------------- MODULE SessionProofs ----------------------------
(***************************************************************************)
(* Every operation of the session, called with whatever the application,   *)
(* the transport and the peer may come up with, keeps the C types of       *)
(* struct spdylay_session.  The second part says which operations open     *)
(* streams, and what follows: no stream is opened after GOAWAY and no      *)
(* stream ID is used twice, for every bound and every world.               *)
(***************************************************************************)
EXTENDS Session, TLAPS

-----------------------------------------------------------------------------
(* Integers, frames and items.                                             *)

\* The conversion to int32_t always yields an int32_t.
LEMMA ToInt32Type ==
  ASSUME NEW x \in Int PROVE ToInt32(x) \in Int32
  BY BoundsAssumption, SMTT(30) DEF ToInt32, Int32

LEMMA MkFrameType ==
  ASSUME NEW t \in FrameTypes, NEW id \in StreamId
  PROVE  MkFrame(t, id) \in Frame
  BY BoundsAssumption DEF MkFrame, Frame, StreamId, Args

LEMMA ZeroIsStreamId == 0 \in StreamId
  BY BoundsAssumption DEF StreamId

LEMMA FramePriType ==
  ASSUME NEW s \in SessionType, NEW f \in Frame
  PROVE  FramePri(s, f) \in Int
<1>1. f.pri \in Int /\ PriLowest \in Int /\ f.id \in StreamId
  BY BoundsAssumption DEF Frame
<1>2. s.streams[f.id].pri \in Int
  BY <1>1, BoundsAssumption DEF SessionType, Stream
<1> QED BY <1>1, <1>2, SMT DEF FramePri
-----------------------------------------------------------------------------
(* Streams.                                                                *)

LEMMA StreamAtType ==
  ASSUME NEW s \in SessionType, NEW id \in StreamId
  PROVE  s.streams[id] \in Stream
  BY DEF SessionType

LEMMA NoStreamType == NoStream \in Stream
  BY BoundsAssumption DEF NoStream, Stream, States, Int32

LEMMA PutStreamType ==
  ASSUME NEW s \in SessionType, NEW id \in StreamId, NEW str \in Stream
  PROVE  PutStream(s, id, str) \in SessionType
  BY DEF PutStream, SessionType

LEMMA CountStreamType ==
  ASSUME NEW s \in SessionType, NEW id \in StreamId, NEW n \in Int
  PROVE  CountStream(s, id, n) \in SessionType
<1>1. [s EXCEPT !.num_outgoing_streams = @ + n] \in SessionType BY DEF SessionType
<1>2. [s EXCEPT !.num_incoming_streams = @ + n] \in SessionType BY DEF SessionType
<1> QED BY <1>1, <1>2, Zenon DEF CountStream

LEMMA StreamInitType ==
  ASSUME NEW s \in SessionType, NEW pri \in 0..PriLowest, NEW st \in States
  PROVE  StreamInit(s, pri, st) \in Stream
<1>1. s.remote.win \in Int
  BY DEF SessionType, Settings
<1>2. ToInt32(s.remote.win) \in Int32
  BY <1>1, ToInt32Type
<1> QED BY <1>2 DEF StreamInit, Stream

LEMMA OpenStreamType ==
  ASSUME NEW s \in SessionType, NEW id \in StreamId, NEW pri \in 0..PriLowest,
         NEW st \in States
  PROVE  OpenStream(s, id, pri, st) \in SessionType
<1>1. PutStream(s, id, StreamInit(s, pri, st)) \in SessionType
  BY PutStreamType, StreamInitType
<1> QED BY <1>1, CountStreamType DEF OpenStream

LEMMA CloseStreamType ==
  ASSUME NEW s \in SessionType, NEW id \in StreamId
  PROVE  CloseStream(s, id) \in SessionType
<1>1. PutStream(s, id, NoStream) \in SessionType
  BY PutStreamType, NoStreamType
<1> QED BY <1>1, CountStreamType DEF CloseStream

LEMMA ShutdownType ==
  ASSUME NEW s \in SessionType, NEW id \in StreamId,
         NEW flags \in SUBSET {"RD", "WR"}
  PROVE  Shutdown(s, id, flags) \in SessionType
<1>1. [s.streams[id] EXCEPT !.shut = @ \cup flags] \in Stream
  BY StreamAtType DEF Stream
<1> QED BY <1>1, PutStreamType DEF Shutdown

LEMMA CloseIfShutType ==
  ASSUME NEW s \in SessionType, NEW id \in StreamId
  PROVE  CloseStreamIfShutRdwr(s, id) \in SessionType
  BY CloseStreamType DEF CloseStreamIfShutRdwr

LEMMA SetStateType ==
  ASSUME NEW s \in SessionType, NEW id \in StreamId, NEW st \in States
  PROVE  SetState(s, id, st) \in SessionType
<1>1. [s.streams[id] EXCEPT !.state = st] \in Stream
  BY StreamAtType DEF Stream
<1> QED BY <1>1, PutStreamType DEF SetState
-----------------------------------------------------------------------------
(* Queueing frames.                                                        *)

LEMMA QueuesType ==
  ASSUME NEW s \in SessionType, NEW n \in Nat, NEW ss \in SUBSET Item,
         NEW q \in SUBSET Item
  PROVE  /\ [s EXCEPT !.next_seq = n, !.ob_ss_pq = ss, !.ob_pq = q] \in SessionType
         /\ [s EXCEPT !.ob_pq = q, !.ob_ss_pq = ss] \in SessionType
         /\ [s EXCEPT !.ob_ss_pq = ss] \in SessionType
         /\ [s EXCEPT !.ob_pq = q] \in SessionType
  BY DEF SessionType

LEMMA AddFrameType ==
  ASSUME NEW s \in SessionType, NEW f \in Frame
  PROVE  AddFrame(s, f) \in SessionType
<1> DEFINE item == [f |-> f, pri |-> FramePri(s, f), seq |-> s.next_seq]
           syn  == f.type = "SYN_STREAM"
           q    == [s EXCEPT !.next_seq = @ + 1,
                             !.ob_ss_pq = IF syn THEN @ \cup {item} ELSE @,
                             !.ob_pq = IF syn THEN @ ELSE @ \cup {item}]
<1>1. item \in Item
  BY FramePriType DEF Item, SessionType
<1> HIDE DEF item
<1>2. q \in SessionType
  <2>1. s.next_seq + 1 \in Nat /\ s.ob_pq \in SUBSET Item /\ s.ob_ss_pq \in SUBSET Item
    BY DEF SessionType
  <2>2. /\ (IF syn THEN s.ob_ss_pq \cup {item} ELSE s.ob_ss_pq) \in SUBSET Item
        /\ (IF syn THEN s.ob_pq ELSE s.ob_pq \cup {item}) \in SUBSET Item
    BY <1>1, <2>1
  <2> QED BY <2>1, <2>2, QueuesType
<1>3. f.id \in StreamId /\ "CLOSING" \in States
  BY DEF Frame, States
<1> HIDE DEF q
<1>4. SetState(q, f.id, "CLOSING") \in SessionType
  BY <1>2, <1>3, SetStateType
<1>5. AddFrame(s, f) = IF f.type = "RST_STREAM" /\ HasStream(s, f.id)
                       THEN SetState(q, f.id, "CLOSING") ELSE q
  BY DEF AddFrame, q, item
<1> QED BY <1>2, <1>4, <1>5

LEMMA AddRstStreamType ==
  ASSUME NEW s \in SessionType, NEW id \in StreamId, NEW code \in StatusCodes
  PROVE  AddRstStream(s, id, code) \in SessionType
<1>1. "RST_STREAM" \in FrameTypes /\ code \in Args
  BY DEF FrameTypes, Args
<1>2. MkFrame("RST_STREAM", id) \in Frame
  BY <1>1, MkFrameType
<1>3. [MkFrame("RST_STREAM", id) EXCEPT !.arg = code] \in Frame
  BY <1>1, <1>2 DEF Frame
<1> QED BY <1>3, AddFrameType DEF AddRstStream

LEMMA AddPingType ==
  ASSUME NEW s \in SessionType, NEW uid \in Nat
  PROVE  AddPing(s, uid) \in SessionType
<1>1. "PING" \in FrameTypes
  BY DEF FrameTypes
<1>2. MkFrame("PING", 0) \in Frame
  BY <1>1, MkFrameType, ZeroIsStreamId
<1>3. [MkFrame("PING", 0) EXCEPT !.val = uid] \in Frame
  BY <1>1, <1>2 DEF Frame
<1> QED BY <1>3, AddFrameType DEF AddPing

LEMMA AddWindowUpdateType ==
  ASSUME NEW s \in SessionType, NEW id \in StreamId, NEW delta \in Nat
  PROVE  AddWindowUpdate(s, id, delta) \in SessionType
<1>1. "WINDOW_UPDATE" \in FrameTypes
  BY DEF FrameTypes
<1>2. MkFrame("WINDOW_UPDATE", id) \in Frame
  BY <1>1, MkFrameType
<1>3. [MkFrame("WINDOW_UPDATE", id) EXCEPT !.val = delta] \in Frame
  BY <1>1, <1>2 DEF Frame
<1> QED BY <1>3, AddFrameType DEF AddWindowUpdate

LEMMA SubmitGoawayType ==
  ASSUME NEW s \in SessionType, NEW code \in Args
  PROVE  SubmitGoaway(s, code) \in SessionType
<1>1. "GOAWAY" \in FrameTypes /\ s.last_recv_stream_id \in Nat
  BY BoundsAssumption DEF FrameTypes, SessionType, StreamId
<1>2. MkFrame("GOAWAY", 0) \in Frame
  BY <1>1, MkFrameType, ZeroIsStreamId
<1>3. [MkFrame("GOAWAY", 0) EXCEPT !.val = s.last_recv_stream_id,
                                   !.arg = code] \in Frame
  BY <1>1, <1>2 DEF Frame
<1> QED BY <1>3, AddFrameType DEF SubmitGoaway

LEMMA FailSessionType ==
  ASSUME NEW s \in SessionType PROVE FailSession(s) \in SessionType
<1>1. [s EXCEPT !.goaway_flags = @ \cup {"FAIL_ON_SEND"}] \in SessionType
  BY DEF SessionType
<1>2. "PROTOCOL_ERROR" \in Args
  BY DEF Args, StatusCodes
<1> QED BY <1>1, <1>2, SubmitGoawayType DEF FailSession

LEMMA SubmitDataType ==
  ASSUME NEW s \in SessionType, NEW id \in StreamId, NEW fin \in BOOLEAN
  PROVE  SubmitData(s, id, fin) \in SessionType
<1>1. "DATA" \in FrameTypes
  BY DEF FrameTypes
<1>2. MkFrame("DATA", id) \in Frame
  BY <1>1, MkFrameType
<1>3. [MkFrame("DATA", id) EXCEPT !.fin = fin] \in Frame
  BY <1>1, <1>2 DEF Frame
<1> QED BY <1>3, AddFrameType DEF SubmitData
-----------------------------------------------------------------------------
(* spdylay_session_send.                                                   *)

LEMMA AobUpdateType ==
  ASSUME NEW s \in SessionType, NEW a \in AobType
  PROVE  [s EXCEPT !.aob = a] \in SessionType
  BY DEF SessionType

LEMMA PoppedType ==
  ASSUME NEW s \in SessionType, NEW item
  PROVE  Popped(s, item) \in SessionType
<1>1. s.ob_pq \ {item} \in SUBSET Item /\ s.ob_ss_pq \ {item} \in SUBSET Item
  BY DEF SessionType
<1> QED BY <1>1, QueuesType DEF Popped

LEMMA ActivateType ==
  ASSUME NEW s \in SessionType, NEW item \in Item
  PROVE  Activate(s, item) \in SessionType
<1>1. [NoAob EXCEPT !.item = {item}] \in AobType
  BY DEF NoAob, AobType
<1> QED BY <1>1, AobUpdateType DEF Activate

LEMMA NextDataReadType ==
  ASSUME NEW s \in SessionType, NEW id \in StreamId
  PROVE  NextDataRead(s, id) \in Nat
<1>1. s.streams[id].window_size \in Int
  BY StreamAtType, BoundsAssumption DEF Stream, Int32
<1> QED BY <1>1, BoundsAssumption DEF NextDataRead

LEMMA ItemFrame ==
  ASSUME NEW item \in Item
  PROVE  item.f \in Frame /\ item.f.id \in StreamId /\ item.f.pri \in 0..PriLowest
         /\ item.f.arg \in Args /\ item.f.val \in Nat
<1>1. item.f \in Frame BY DEF Item
<1> QED BY <1>1 DEF Frame

LEMMA DeferDataType ==
  ASSUME NEW s \in SessionType, NEW item \in Item, NEW flow \in BOOLEAN
  PROVE  DeferData(s, item, flow) \in SessionType
<1> DEFINE str == s.streams[item.f.id]
<1>1. str \in Stream
  BY ItemFrame, StreamAtType
<1>2. str.deferred \cup {item} \in SUBSET Item
  BY <1>1 DEF Stream
<1>3. [str EXCEPT !.deferred = @ \cup {item}, !.deferred_flow = flow] \in Stream
  BY <1>1, <1>2 DEF Stream
<1> QED BY <1>3, ItemFrame, PutStreamType DEF DeferData

LEMMA ReadDataType ==
  ASSUME NEW s \in SessionType, NEW item \in Item, NEW rd \in ReadResult
  PROVE  ReadData(s, item, rd) \in SessionType
<1> DEFINE max == NextDataRead(s, item.f.id)
           a == [item |-> {item}, writes |-> 0, eof |-> rd.eof,
                 len |-> IF rd.n < max THEN rd.n ELSE max]
<1>1. max \in Nat
  BY NextDataReadType, ItemFrame
<1>2. rd.n \in Nat /\ rd.eof \in BOOLEAN
  BY DEF ReadResult
<1> HIDE DEF max
<1>3. a \in AobType
  BY <1>1, <1>2 DEF AobType
<1> HIDE DEF a
<1>4. [s EXCEPT !.aob = a] \in SessionType
  BY <1>3, AobUpdateType
<1>5. AddRstStream(s, item.f.id, "INTERNAL_ERROR") \in SessionType
  BY ItemFrame, AddRstStreamType DEF StatusCodes
<1>6. /\ DeferData(s, item, TRUE) \in SessionType
      /\ DeferData(s, item, FALSE) \in SessionType
  BY DeferDataType
<1> QED BY <1>4, <1>5, <1>6 DEF ReadData, a, max

LEMMA CertUpdateType ==
  ASSUME NEW s \in SessionType, NEW cv \in CertVectorType
  PROVE  [s EXCEPT !.certvec = cv] \in SessionType
  BY DEF SessionType

LEMMA VectorType ==
  ASSUME NEW n \in 0..MaxSlots, NEW c \in 0..MaxSlots, NEW k \in 0..MaxSlots,
         NEW v \in [1..MaxSlots -> CertOrigins \cup {EmptySlot}], k <= n, n <= c
  PROVE  [size |-> n, capacity |-> c, last_slot |-> k, vector |-> v] \in CertVectorType
  BY DEF CertVectorType

LEMMA PutType ==
  ASSUME NEW cv \in CertVectorType, NEW o \in CertOrigins
  PROVE  Put(cv, o) \in CertVectorType
<1> DEFINE slot == IF cv.last_slot = cv.size THEN 1 ELSE cv.last_slot + 1
<1>1. CASE cv.size = 0
  BY <1>1 DEF Put
<1>2. CASE cv.size # 0
  <2>1. slot \in 1..MaxSlots /\ slot <= cv.size
    BY <1>2, SlotsAssumption DEF CertVectorType
  <2> HIDE DEF slot
  <2> DEFINE v == [cv.vector EXCEPT ![slot] = o]
  <2>2. v \in [1..MaxSlots -> CertOrigins \cup {EmptySlot}]
    BY <2>1 DEF CertVectorType
  <2>3. Put(cv, o) = [size |-> cv.size, capacity |-> cv.capacity, last_slot |-> slot,
                      vector |-> v]
    BY <1>2 DEF Put, slot, CertVectorType
  <2>4. slot \in 0..MaxSlots /\ cv.size \in 0..MaxSlots /\ cv.capacity \in 0..MaxSlots
        /\ cv.size <= cv.capacity
    BY <2>1, SlotsAssumption DEF CertVectorType
  <2> HIDE DEF v
  <2> QED BY <2>1, <2>2, <2>3, <2>4, VectorType
<1> QED BY <1>1, <1>2

LEMMA ResizeType ==
  ASSUME NEW cv \in CertVectorType, NEW n \in 0..MaxSlots
  PROVE  Resize(cv, n) \in CertVectorType
<1> DEFINE sz == IF n < cv.size THEN n ELSE cv.size
           grown == [i \in 1..MaxSlots |-> IF cv.capacity < i /\ i <= n
                                           THEN EmptySlot ELSE cv.vector[i]]
           cleared == [i \in 1..MaxSlots |-> IF n < i /\ i <= cv.size
                                             THEN EmptySlot ELSE cv.vector[i]]
<1>1. /\ grown \in [1..MaxSlots -> CertOrigins \cup {EmptySlot}]
      /\ cleared \in [1..MaxSlots -> CertOrigins \cup {EmptySlot}]
  BY DEF CertVectorType
<1> HIDE DEF grown, cleared
<1> DEFINE k == IF cv.last_slot > sz THEN sz ELSE cv.last_slot
<1>2. /\ cv.size \in 0..MaxSlots /\ cv.capacity \in 0..MaxSlots
      /\ cv.last_slot \in 0..MaxSlots
      /\ cv.last_slot <= cv.size /\ cv.size <= cv.capacity
  BY DEF CertVectorType
<1>3. CASE cv.capacity < n
  <2>1. Resize(cv, n) = [size |-> n, capacity |-> n, last_slot |-> cv.last_slot,
                         vector |-> grown]
    BY <1>3 DEF Resize, grown, CertVectorType
  <2>2. cv.last_slot <= n /\ n <= n
    BY <1>2, <1>3, SlotsAssumption
  <2> QED BY <1>1, <1>2, <2>1, <2>2, VectorType
<1>4. CASE ~(cv.capacity < n)
  <2>1. Resize(cv, n) = [size |-> sz, capacity |-> cv.capacity, last_slot |-> k,
                         vector |-> cleared]
    BY <1>4 DEF Resize, cleared, CertVectorType
  <2>2. sz \in 0..MaxSlots /\ k \in 0..MaxSlots /\ k <= sz /\ sz <= cv.capacity
    BY <1>2, SlotsAssumption
  <2> HIDE DEF sz, k
  <2> QED BY <1>1, <1>2, <2>1, <2>2, VectorType
<1> QED BY <1>3, <1>4

LEMMA PrepCredentialType ==
  ASSUME NEW s \in SessionType, NEW item \in Item, item.f.arg \in CertOrigins
  PROVE  PrepCredential(s, item) \in SessionType
<1> DEFINE cv == Put(s.certvec, item.f.arg)
           c  == [MkFrame("CREDENTIAL", 0) EXCEPT !.arg = item.f.arg,
                                                  !.val = cv.last_slot]
           t  == AddFrame([s EXCEPT !.certvec = cv], c)
           back == [item EXCEPT !.pri = -1]
<1>1. cv \in CertVectorType
  BY PutType DEF SessionType
<1>2. cv.last_slot \in Nat
  BY <1>1, SlotsAssumption DEF CertVectorType
<1> HIDE DEF cv
<1>3. MkFrame("CREDENTIAL", 0) \in Frame
  BY MkFrameType, ZeroIsStreamId DEF FrameTypes
<1>4. c \in Frame
  BY <1>2, <1>3, ItemFrame DEF Frame
<1> HIDE DEF c
<1>5. t \in SessionType
  BY <1>1, <1>4, CertUpdateType, AddFrameType
<1> HIDE DEF t
<1>6. back \in Item
  BY DEF Item
<1> HIDE DEF back
<1>7. t.ob_ss_pq \cup {back} \in SUBSET Item
  BY <1>5, <1>6 DEF SessionType
<1>8. [t EXCEPT !.ob_ss_pq = @ \cup {back}] \in SessionType
  BY <1>5, <1>7, QueuesType
<1> QED BY <1>8 DEF PrepCredential, t, c, cv, back

LEMMA PrepSynStreamType ==
  ASSUME NEW s \in SessionType, NEW item \in Item, NEW packs \in BOOLEAN
  PROVE  PrepSynStream(s, item, packs) \in SessionType
<1> DEFINE id == s.next_stream_id
           slot == IF s.server \/ ~FlowControl \/ CertOrigins = {} THEN 0
                   ELSE Find(s.certvec, item.f.arg)
           t == [s EXCEPT !.next_stream_id = @ + 2]
           sent == [item EXCEPT !.f = [@ EXCEPT !.id = id, !.val = slot]]
<1>1. t \in SessionType
  BY DEF SessionType
<1>2. slot \in Nat
  <2>1. Find(s.certvec, item.f.arg) \in 0..MaxSlots
    BY SlotsAssumption DEF Find
  <2> QED BY <2>1, SlotsAssumption
<1> HIDE DEF t, slot
<1>3. ASSUME NeedsCredential(s, item.f.arg)
      PROVE  PrepCredential(s, item) \in SessionType
  BY <1>3, PrepCredentialType DEF NeedsCredential
<1>4. ASSUME SynStreamSendable(s, item.f)
      PROVE  Activate(OpenStream(t, id, item.f.pri, "INITIAL"), sent) \in SessionType
  <2>1. id \in StreamId
    BY <1>4, BoundsAssumption DEF SynStreamSendable, SessionType, StreamId
  <2> HIDE DEF id
  <2>2. OpenStream(t, id, item.f.pri, "INITIAL") \in SessionType
    BY <1>1, <2>1, ItemFrame, OpenStreamType DEF States
  <2>3. [item.f EXCEPT !.id = id, !.val = slot] \in Frame
    BY <1>2, <2>1, ItemFrame DEF Frame
  <2>4. sent \in Item
    BY <2>3 DEF Item
  <2> HIDE DEF sent
  <2> QED BY <2>2, <2>4, ActivateType
<1> QED BY <1>1, <1>3, <1>4 DEF PrepSynStream, t, slot

LEMMA PrepFrameType ==
  ASSUME NEW s \in SessionType, NEW item \in Item, NEW rd \in ReadResult,
         NEW packs \in BOOLEAN
  PROVE  PrepFrame(s, item, rd, packs) \in SessionType
  BY PrepSynStreamType, ReadDataType, ActivateType DEF PrepFrame

LEMMA AobItemType ==
  ASSUME NEW s \in SessionType, s.aob.item # {}
  PROVE  Aob(s) \in Item
  BY DEF Aob, SessionType, AobType

\* What is charged on the window fits an int32_t, and the active item stays.
LEMMA ChargeWindowType ==
  ASSUME NEW s \in SessionType, s.aob.item # {}
  PROVE  ChargeWindow(s) \in SessionType /\ ChargeWindow(s).aob = s.aob
<1> DEFINE f == Aob(s).f
           word == s.aob.len + (IF s.aob.eof /\ f.fin THEN FinWord ELSE 0)
           str == s.streams[f.id]
           w == ToInt32(str.window_size - word)
<1>1. f.id \in StreamId
  BY AobItemType, ItemFrame
<1>2. str \in Stream
  BY <1>1, StreamAtType
<1>3. str.window_size \in Int
  BY <1>2, BoundsAssumption DEF Stream, Int32
<1>4. word \in Int
  BY BoundsAssumption DEF SessionType, AobType
<1> HIDE DEF word, str
<1>5. w \in Int32
  BY <1>3, <1>4, ToInt32Type
<1> HIDE DEF w
<1>6. [str EXCEPT !.window_size = w] \in Stream
  BY <1>2, <1>5 DEF Stream
<1>7. /\ PutStream(s, f.id, [str EXCEPT !.window_size = w]) \in SessionType
      /\ PutStream(s, f.id, [str EXCEPT !.window_size = w]).aob = s.aob
  <2>1. PutStream(s, f.id, [str EXCEPT !.window_size = w]) \in SessionType
    BY <1>1, <1>6, PutStreamType
  <2>2. PutStream(s, f.id, [str EXCEPT !.window_size = w]).aob = s.aob
    BY DEF PutStream, SessionType
  <2> QED BY <2>1, <2>2
<1> QED BY <1>7 DEF ChargeWindow, w, str, word

LEMMA PartialWriteType ==
  ASSUME NEW s \in SessionType, s.aob.item # {}
  PROVE  PartialWrite(s) \in SessionType
<1> DEFINE t == ChargeWindow(s)
<1>1. t \in SessionType
  BY ChargeWindowType
<1> HIDE DEF t
<1>2. t.aob \in AobType /\ s.aob.writes \in Nat
  BY <1>1 DEF SessionType, AobType
<1>3. [t.aob EXCEPT !.writes = s.aob.writes + 1] \in AobType
  BY <1>2 DEF AobType
<1>4. [t EXCEPT !.aob = [@ EXCEPT !.writes = s.aob.writes + 1]] \in SessionType
  BY <1>1, <1>3, AobUpdateType
<1> QED BY <1>4 DEF PartialWrite, t

LEMMA AfterStreamFrameType ==
  ASSUME NEW t \in SessionType, NEW f \in Frame, NEW st \in States
  PROVE  AfterStreamFrame(t, f, st) \in SessionType
<1> DEFINE flags == (IF f.fin THEN {"WR"} ELSE {})
                      \cup (IF f.type = "SYN_STREAM" /\ f.uni THEN {"RD"} ELSE {})
           u == CloseStreamIfShutRdwr(Shutdown(SetState(t, f.id, st), f.id, flags),
                                      f.id)
<1>1. f.id \in StreamId
  BY DEF Frame
<1>2. flags \in SUBSET {"RD", "WR"}
  OBVIOUS
<1> HIDE DEF flags
<1>3. u \in SessionType
  BY <1>1, <1>2, SetStateType, ShutdownType, CloseIfShutType
<1> HIDE DEF u
<1>4. SubmitData(u, f.id, TRUE) \in SessionType
  BY <1>1, <1>3, SubmitDataType
<1> QED BY <1>3, <1>4 DEF AfterStreamFrame, u, flags

LEMMA AfterDataType ==
  ASSUME NEW t \in SessionType, NEW item \in Item, NEW eof \in BOOLEAN,
         NEW rd \in ReadResult
  PROVE  AfterData(t, item, eof, rd) \in SessionType
<1> DEFINE id == item.f.id
           u == IF eof /\ item.f.fin /\ HasStream(t, id)
                THEN CloseStreamIfShutRdwr(Shutdown(t, id, {"WR"}), id) ELSE t
<1>1. id \in StreamId
  BY ItemFrame
<1>2. Shutdown(t, id, {"WR"}) \in SessionType
  BY <1>1, ShutdownType
<1>3. u \in SessionType
  BY <1>1, <1>2, CloseIfShutType
<1> HIDE DEF u
<1>4. u.ob_pq \cup {item} \in SUBSET Item
  BY <1>3 DEF SessionType
<1>5. [u EXCEPT !.ob_pq = @ \cup {item}] \in SessionType
  BY <1>3, <1>4, QueuesType
<1>6. ReadData(u, item, rd) \in SessionType
  BY <1>3, ReadDataType
<1> QED BY <1>3, <1>5, <1>6 DEF AfterData, u

LEMMA AfterFrameSentType ==
  ASSUME NEW s \in SessionType, s.aob.item # {}, NEW rd \in ReadResult
  PROVE  AfterFrameSent(s, rd) \in SessionType
<1> DEFINE item == Aob(s)
           f == item.f
           t == [s EXCEPT !.aob = NoAob]
<1>1. item \in Item
  BY AobItemType
<1> HIDE DEF item
<1>2. f \in Frame /\ f.id \in StreamId /\ f.val \in Nat
  BY <1>1, ItemFrame
<1>3. NoAob \in AobType
  BY DEF NoAob, AobType
<1>4. t \in SessionType
  BY <1>3, AobUpdateType
<1> HIDE DEF t
<1>5. /\ AfterStreamFrame(t, f, "OPENING") \in SessionType
      /\ AfterStreamFrame(t, f, "OPENED") \in SessionType
  BY <1>2, <1>4, AfterStreamFrameType DEF States
<1>6. AfterStreamFrame(t, f, t.streams[f.id].state) \in SessionType
  <2>1. t.streams[f.id].state \in States
    BY <1>2, <1>4, StreamAtType DEF Stream
  <2> QED BY <1>2, <1>4, <2>1, AfterStreamFrameType
<1>7. CloseStream(t, f.id) \in SessionType
  BY <1>2, <1>4, CloseStreamType
<1>8. /\ [t EXCEPT !.last_ping_unique_id = f.val] \in SessionType
      /\ [t EXCEPT !.goaway_flags = @ \cup {"SEND"}] \in SessionType
  BY <1>2, <1>4 DEF SessionType
<1>9. AfterData(t, item, s.aob.eof, rd) \in SessionType
  <2>1. s.aob.eof \in BOOLEAN
    BY DEF SessionType, AobType
  <2> QED BY <1>1, <1>4, <2>1, AfterDataType
<1> QED BY <1>4, <1>5, <1>6, <1>7, <1>8, <1>9 DEF AfterFrameSent, t, item

LEMMA CompleteWriteType ==
  ASSUME NEW s \in SessionType, s.aob.item # {}, NEW rd \in ReadResult
  PROVE  CompleteWrite(s, rd) \in SessionType
  BY ChargeWindowType, AfterFrameSentType DEF CompleteWrite
-----------------------------------------------------------------------------
(* spdylay_session_mem_recv.                                               *)

LEMMA ShutReadType ==
  ASSUME NEW s \in SessionType, NEW id \in StreamId
  PROVE  ShutRead(s, id) \in SessionType
<1>1. Shutdown(s, id, {"RD"}) \in SessionType
  BY ShutdownType
<1> QED BY <1>1, CloseIfShutType DEF ShutRead

LEMMA AcceptSynStreamType ==
  ASSUME NEW s \in SessionType, NEW f \in Frame
  PROVE  AcceptSynStream(s, f) \in SessionType
<1> DEFINE flags == (IF f.fin THEN {"RD"} ELSE {}) \cup (IF f.uni THEN {"WR"} ELSE {})
<1>1. f.id \in StreamId /\ f.pri \in 0..PriLowest
  BY DEF Frame
<1>2. OpenStream(s, f.id, f.pri, "OPENING") \in SessionType
  BY <1>1, OpenStreamType DEF States
<1>3. flags \in SUBSET {"RD", "WR"}
  OBVIOUS
<1> HIDE DEF flags
<1>4. Shutdown(OpenStream(s, f.id, f.pri, "OPENING"), f.id, flags) \in SessionType
  BY <1>1, <1>2, <1>3, ShutdownType
<1> QED BY <1>4 DEF AcceptSynStream, flags

LEMMA OnSynStreamType ==
  ASSUME NEW s \in SessionType, NEW f \in Frame
  PROVE  OnSynStreamReceived(s, f) \in SessionType
<1> DEFINE t == [s EXCEPT !.last_recv_stream_id = f.id]
           code == ValidateSynStream(t, f)
<1>1. f.id \in StreamId
  BY DEF Frame
<1>2. t \in SessionType
  BY <1>1 DEF SessionType
<1> HIDE DEF t
<1>3. code = "" \/ code \in StatusCodes
  BY DEF ValidateSynStream, StatusCodes
<1> HIDE DEF code
<1>4. code # "" => AddRstStream(t, f.id, code) \in SessionType
  BY <1>1, <1>2, <1>3, AddRstStreamType
<1>5. AddRstStream(s, f.id, "PROTOCOL_ERROR") \in SessionType
  BY <1>1, AddRstStreamType DEF StatusCodes
<1>6. FailSession(s) \in SessionType /\ AcceptSynStream(t, f) \in SessionType
  BY <1>2, FailSessionType, AcceptSynStreamType
<1> QED BY <1>4, <1>5, <1>6 DEF OnSynStreamReceived, t, code

LEMMA OnSynReplyType ==
  ASSUME NEW s \in SessionType, NEW f \in Frame
  PROVE  OnSynReplyReceived(s, f) \in SessionType
<1> DEFINE t == SetState(s, f.id, "OPENED")
<1>1. f.id \in StreamId
  BY DEF Frame
<1>2. t \in SessionType
  BY <1>1, SetStateType DEF States
<1> HIDE DEF t
<1>3. ShutRead(t, f.id) \in SessionType
  BY <1>1, <1>2, ShutReadType
<1>4. /\ AddRstStream(s, f.id, "STREAM_IN_USE") \in SessionType
      /\ AddRstStream(s, f.id, "PROTOCOL_ERROR") \in SessionType
  BY <1>1, AddRstStreamType DEF StatusCodes
<1> QED BY <1>2, <1>3, <1>4 DEF OnSynReplyReceived, t

LEMMA OnHeadersType ==
  ASSUME NEW s \in SessionType, NEW f \in Frame
  PROVE  OnHeadersReceived(s, f) \in SessionType
<1>1. f.id \in StreamId
  BY DEF Frame
<1>2. AddRstStream(s, f.id, "PROTOCOL_ERROR") \in SessionType
  BY <1>1, AddRstStreamType DEF StatusCodes
<1> QED BY <1>1, <1>2, ShutReadType DEF OnHeadersReceived

LEMMA RequeueType ==
  ASSUME NEW s \in SessionType, NEW moved \in [StreamId -> Stream],
         NEW ids \in SUBSET StreamId
  PROVE  Requeue(s, moved, ids) \in SessionType
<1> DEFINE freed == {i \in ids : Reopened(moved[i])}
           q == s.ob_pq \cup UNION {moved[i].deferred : i \in freed}
           strs == [i \in StreamId |-> IF i \in freed THEN Detach(moved[i])
                                                      ELSE moved[i]]
<1>1. \A i \in StreamId : moved[i] \in Stream /\ Detach(moved[i]) \in Stream
  BY DEF Detach, Stream
<1>2. q \in SUBSET Item
  <2>1. s.ob_pq \subseteq Item
    BY DEF SessionType
  <2>2. \A i \in freed : moved[i].deferred \subseteq Item
    BY <1>1 DEF Stream
  <2> QED BY <2>1, <2>2
<1>3. strs \in [StreamId -> Stream]
  BY <1>1
<1> HIDE DEF q, strs
<1>4. [s EXCEPT !.ob_pq = q, !.streams = strs] \in SessionType
  BY <1>2, <1>3 DEF SessionType
<1> QED BY <1>4 DEF Requeue, q, strs

LEMMA UpdateInitialWindowType ==
  ASSUME NEW s \in SessionType, NEW new \in Nat
  PROVE  UpdateInitialWindowSize(s, new) \in SessionType
<1> DEFINE moved(i) == IF ~HasStream(s, i) THEN NoStream
                       ELSE [s.streams[i] EXCEPT !.window_size =
                               ToInt32(new - ToInt32(ToInt32(s.remote.win) - @))]
<1>1. ASSUME NEW i \in StreamId PROVE moved(i) \in Stream
  <2> DEFINE w == ToInt32(new - ToInt32(ToInt32(s.remote.win)
                                          - s.streams[i].window_size))
  <2>1. s.streams[i] \in Stream
    BY StreamAtType
  <2>2. s.remote.win \in Int /\ s.streams[i].window_size \in Int
    BY <2>1, BoundsAssumption DEF SessionType, Settings, Stream, Int32
  <2>3. \A x \in Int : ToInt32(x) \in Int32 /\ ToInt32(x) \in Int
    BY ToInt32Type, BoundsAssumption DEF Int32
  <2>4. w \in Int32
    BY <2>2, <2>3
  <2> HIDE DEF w
  <2>5. [s.streams[i] EXCEPT !.window_size = w] \in Stream
    BY <2>1, <2>4 DEF Stream
  <2> QED BY <2>5, NoStreamType DEF w
<1> HIDE DEF moved
<1>2. [i \in StreamId |-> moved(i)] \in [StreamId -> Stream]
  BY <1>1
<1>3. LiveStreams(s) \in SUBSET StreamId
  BY DEF LiveStreams
<1>4. Requeue(s, [i \in StreamId |-> moved(i)], LiveStreams(s)) \in SessionType
  BY <1>2, <1>3, RequeueType
<1> QED BY <1>4 DEF UpdateInitialWindowSize, MovedWindows, moved

LEMMA SettingsUpdateType ==
  ASSUME NEW s \in SessionType, NEW v \in Nat
  PROVE  /\ [s EXCEPT !.remote = [@ EXCEPT !.max = v]] \in SessionType
         /\ [s EXCEPT !.remote = [@ EXCEPT !.win = v]] \in SessionType
         /\ [s EXCEPT !.local = [@ EXCEPT !.max = v]] \in SessionType
         /\ [s EXCEPT !.local = [@ EXCEPT !.win = v]] \in SessionType
<1>1. \A r \in Settings : [r EXCEPT !.max = v] \in Settings
                          /\ [r EXCEPT !.win = v] \in Settings
  BY DEF Settings
<1>2. s.remote \in Settings /\ s.local \in Settings
  BY DEF SessionType
<1>3. ASSUME NEW r \in Settings
      PROVE  [s EXCEPT !.remote = r] \in SessionType /\ [s EXCEPT !.local = r] \in SessionType
  BY DEF SessionType
<1> QED BY <1>1, <1>2, <1>3

LEMMA OnSettingsType ==
  ASSUME NEW s \in SessionType, NEW f \in Frame
  PROVE  OnSettingsReceived(s, f) \in SessionType
<1> DEFINE t == IF FlowControl /\ f.val <= Int32Max
                THEN UpdateInitialWindowSize(s, f.val) ELSE s
           n == IF f.val < MaxSlots THEN f.val ELSE MaxSlots
<1>1. f.val \in Nat
  BY DEF Frame
<1>2. t \in SessionType
  BY <1>1, UpdateInitialWindowType
<1>3. n \in 0..MaxSlots
  BY <1>1, SlotsAssumption
<1> HIDE DEF t, n
<1>4. /\ [s EXCEPT !.remote = [@ EXCEPT !.max = f.val]] \in SessionType
      /\ [t EXCEPT !.remote = [@ EXCEPT !.win = f.val]] \in SessionType
  BY <1>1, <1>2, SettingsUpdateType
<1>5. Resize(s.certvec, n) \in CertVectorType
  BY <1>3, ResizeType DEF SessionType
<1>6. [s EXCEPT !.certvec = Resize(@, n)] \in SessionType
  BY <1>5, CertUpdateType
<1> QED BY <1>4, <1>6 DEF OnSettingsReceived, t, n

LEMMA OnPingType ==
  ASSUME NEW s \in SessionType, NEW f \in Frame
  PROVE  OnPingReceived(s, f) \in SessionType
<1>1. f.val \in Nat
  BY DEF Frame
<1>2. [s EXCEPT !.last_ping_unique_id = 0] \in SessionType
  BY DEF SessionType
<1>3. AddPing(s, f.val) \in SessionType
  BY <1>1, AddPingType
<1> QED BY <1>2, <1>3 DEF OnPingReceived

LEMMA OnWindowUpdateType ==
  ASSUME NEW s \in SessionType, NEW f \in Frame
  PROVE  OnWindowUpdateReceived(s, f) \in SessionType
<1> DEFINE w == s.streams[f.id].window_size + f.val
           moved == [s.streams EXCEPT ![f.id] = [@ EXCEPT !.window_size = w]]
<1>1. f.id \in StreamId /\ f.val \in Nat
  BY DEF Frame
<1>2. AddRstStream(s, f.id, "FLOW_CONTROL_ERROR") \in SessionType
  BY <1>1, AddRstStreamType DEF StatusCodes
<1>3. s.streams[f.id] \in Stream
  BY <1>1, StreamAtType
<1>4. s.streams[f.id].window_size \in Int32
  BY <1>3 DEF Stream
<1>5. ASSUME ~(Int32Max - f.val < s.streams[f.id].window_size)
      PROVE  Requeue(s, moved, {f.id}) \in SessionType
  <2>1. w \in Int32
    BY <1>1, <1>4, <1>5, BoundsAssumption DEF Int32
  <2> HIDE DEF w
  <2>2. [s.streams[f.id] EXCEPT !.window_size = w] \in Stream
    BY <1>3, <2>1 DEF Stream
  <2>3. moved \in [StreamId -> Stream]
    BY <1>1, <2>2 DEF SessionType
  <2> HIDE DEF moved
  <2> QED BY <1>1, <2>3, RequeueType
<1> QED BY <1>2, <1>5 DEF OnWindowUpdateReceived

LEMMA OnCtrlType ==
  ASSUME NEW s \in SessionType, NEW f \in Frame
  PROVE  OnCtrlReceived(s, f) \in SessionType
<1>1. OnRstStreamReceived(s, f) \in SessionType
  BY CloseStreamType DEF OnRstStreamReceived, Frame
<1>2. OnGoawayReceived(s, f) \in SessionType
  BY DEF OnGoawayReceived, Frame, SessionType
<1> QED BY <1>1, <1>2, OnSynStreamType, OnSynReplyType, OnHeadersType, OnSettingsType,
           OnPingType, OnWindowUpdateType DEF OnCtrlReceived

LEMMA OnInvalidHeaderBlockType ==
  ASSUME NEW s \in SessionType, NEW f \in Frame
  PROVE  OnInvalidHeaderBlock(s, f) \in SessionType
<1>1. f.id \in StreamId
  BY DEF Frame
<1>2. /\ AddRstStream(s, f.id, "FRAME_TOO_LARGE") \in SessionType
      /\ AddRstStream(s, f.id, "PROTOCOL_ERROR") \in SessionType
  BY <1>1, AddRstStreamType DEF StatusCodes
<1> QED BY <1>2 DEF OnInvalidHeaderBlock

LEMMA OnDataType ==
  ASSUME NEW s \in SessionType, NEW f \in Frame
  PROVE  OnDataReceived(s, f) \in SessionType
<1>1. f.id \in StreamId
  BY DEF Frame
<1>2. /\ AddRstStream(s, f.id, "INVALID_STREAM") \in SessionType
      /\ AddRstStream(s, f.id, "PROTOCOL_ERROR") \in SessionType
  BY <1>1, AddRstStreamType DEF StatusCodes
<1> QED BY <1>1, <1>2, ShutReadType DEF OnDataReceived

LEMMA RecvWindowType ==
  ASSUME NEW s \in SessionType, NEW id \in StreamId, NEW n \in Nat
  PROVE  PutStream(s, id, [s.streams[id] EXCEPT !.recv_window_size = n]) \in SessionType
<1>1. [s.streams[id] EXCEPT !.recv_window_size = n] \in Stream
  BY StreamAtType DEF Stream
<1> QED BY <1>1, PutStreamType

LEMMA UpdateRecvWindowType ==
  ASSUME NEW s \in SessionType, NEW id \in StreamId, NEW n \in Nat
  PROVE  UpdateRecvWindowSize(s, id, n) \in SessionType
<1> DEFINE sum  == s.streams[id].recv_window_size + n
           recv == IF sum > Int32Max THEN Int32Max ELSE sum
           left(k) == PutStream(s, id, [s.streams[id] EXCEPT !.recv_window_size = k])
<1>1. recv \in Nat
  BY StreamAtType, BoundsAssumption DEF Stream
<1>2. left(0) \in SessionType /\ left(recv) \in SessionType
  BY <1>1, RecvWindowType
<1> HIDE DEF left, recv
<1>3. AddWindowUpdate(left(0), id, recv) \in SessionType
  BY <1>1, <1>2, AddWindowUpdateType
<1> QED BY <1>2, <1>3 DEF UpdateRecvWindowSize, left, recv

LEMMA IframeUpdateType ==
  ASSUME NEW s \in SessionType, NEW i \in IframeType
  PROVE  [s EXCEPT !.iframe = i] \in SessionType
  BY DEF SessionType

LEMMA RecvDataHeadType ==
  ASSUME NEW s \in SessionType, NEW f \in Frame
  PROVE  RecvDataHead(s, f) \in SessionType
<1>1. DataRecvAllowed(s, f.id) \in BOOLEAN
  BY DEF DataRecvAllowed
<1>2. [f |-> {f}, ign |-> ~DataRecvAllowed(s, f.id), off |-> 0] \in IframeType
  BY <1>1 DEF IframeType
<1> QED BY <1>2, IframeUpdateType DEF RecvDataHead

LEMMA RecvDataPayloadType ==
  ASSUME NEW s \in SessionType, s.iframe.f # {}, NEW n \in Nat
  PROVE  RecvDataPayload(s, n) \in SessionType
<1> DEFINE f   == CHOOSE g \in s.iframe.f : TRUE
           off == s.iframe.off + n
           last == off = f.val
           t == IF FlowControl /\ ~s.iframe.ign /\ n > 0 /\ ~(last /\ f.fin)
                THEN UpdateRecvWindowSize(s, f.id, n) ELSE s
<1>1. f \in Frame
  BY DEF SessionType, IframeType
<1>2. off \in Nat
  BY DEF SessionType, IframeType
<1> HIDE DEF f, off
<1>3. f.id \in StreamId
  BY <1>1 DEF Frame
<1>4. t \in SessionType
  BY <1>3, UpdateRecvWindowType
<1> HIDE DEF t
<1>5. t.iframe \in IframeType
  BY <1>4 DEF SessionType
<1>6. [t.iframe EXCEPT !.off = off] \in IframeType /\ NoIframe \in IframeType
  BY <1>2, <1>5 DEF IframeType, NoIframe
<1>7. OnDataReceived(t, f) \in SessionType
  BY <1>1, <1>4, OnDataType
<1>8. /\ [OnDataReceived(t, f) EXCEPT !.iframe = NoIframe] \in SessionType
      /\ [t EXCEPT !.iframe = [@ EXCEPT !.off = off]] \in SessionType
  BY <1>4, <1>6, <1>7, IframeUpdateType
<1> QED BY <1>8 DEF RecvDataPayload, t, f, off
-----------------------------------------------------------------------------
(* Calls of the application.                                               *)

LEMMA SubmitSynStreamType ==
  ASSUME NEW s \in SessionType, NEW f \in Frame
  PROVE  SubmitSynStream(s, f) \in SessionType
<1> DEFINE g == [f EXCEPT !.id = 0, !.assoc = IF s.server THEN @ ELSE 0]
<1>1. g \in Frame
  BY ZeroIsStreamId DEF Frame
<1> HIDE DEF g
<1>2. AddFrame(s, g) \in SessionType
  BY <1>1, AddFrameType
<1> QED BY <1>2 DEF SubmitSynStream, g

LEMMA SubmitPingType ==
  ASSUME NEW s \in SessionType PROVE SubmitPing(s) \in SessionType
<1> DEFINE uid == IF s.next_unique_id > MaxUniqueId
                  THEN IF s.server THEN 2 ELSE 1 ELSE s.next_unique_id
<1>1. uid \in Nat
  BY DEF SessionType
<1> HIDE DEF uid
<1>2. [s EXCEPT !.next_unique_id = uid + 2] \in SessionType
  BY <1>1 DEF SessionType
<1>3. AddPing([s EXCEPT !.next_unique_id = uid + 2], uid) \in SessionType
  BY <1>1, <1>2, AddPingType
<1> QED BY <1>3 DEF SubmitPing, uid

LEMMA SubmitSettingsType ==
  ASSUME NEW s \in SessionType, NEW f \in Frame
  PROVE  SubmitSettings(s, f) \in SessionType
<1> DEFINE t == AddFrame(s, f)
<1>1. t \in SessionType
  BY AddFrameType
<1> HIDE DEF t
<1>2. /\ [t EXCEPT !.local = [@ EXCEPT !.max = f.val]] \in SessionType
      /\ [t EXCEPT !.local = [@ EXCEPT !.win = f.val]] \in SessionType
  BY <1>1, SettingsUpdateType DEF Frame
<1> QED BY <1>1, <1>2 DEF SubmitSettings, t

LEMMA SubmitWindowUpdateType ==
  ASSUME NEW s \in SessionType, NEW id \in StreamId, NEW delta \in Nat
  PROVE  SubmitWindowUpdate(s, id, delta) \in SessionType
<1> DEFINE recv == s.streams[id].recv_window_size
           n == IF recv < delta THEN 0 ELSE recv - delta
           t == PutStream(s, id, [s.streams[id] EXCEPT !.recv_window_size = n])
<1>1. n \in Nat
  BY StreamAtType DEF Stream
<1> HIDE DEF n
<1>2. t \in SessionType
  BY <1>1, RecvWindowType
<1> HIDE DEF t
<1>3. AddWindowUpdate(t, id, delta) \in SessionType
  BY <1>2, AddWindowUpdateType
<1> QED BY <1>3 DEF SubmitWindowUpdate, t, n

LEMMA ResumeDataType ==
  ASSUME NEW s \in SessionType, NEW id \in StreamId
  PROVE  ResumeData(s, id) \in SessionType
<1> DEFINE t == PutStream(s, id, Detach(s.streams[id]))
<1>1. s.streams[id].deferred \in SUBSET Item
  BY StreamAtType DEF Stream
<1>2. Detach(s.streams[id]) \in Stream
  BY StreamAtType DEF Detach, Stream
<1>3. t \in SessionType
  BY <1>2, PutStreamType
<1> HIDE DEF t
<1>4. t.ob_pq \cup s.streams[id].deferred \in SUBSET Item
  BY <1>1, <1>3 DEF SessionType
<1>5. [t EXCEPT !.ob_pq = @ \cup s.streams[id].deferred] \in SessionType
  BY <1>3, <1>4, QueuesType
<1> QED BY <1>5 DEF ResumeData, t

LEMMA SetOriginType ==
  ASSUME NEW s \in SessionType, NEW o \in CertOrigins
  PROVE  SetInitialClientCertOrigin(s, o) \in SessionType
<1>1. Put(s.certvec, o) \in CertVectorType
  BY PutType DEF SessionType
<1>2. [s EXCEPT !.certvec = Put(@, o)] \in SessionType
  BY <1>1, CertUpdateType
<1> QED BY <1>2 DEF SetInitialClientCertOrigin
-----------------------------------------------------------------------------
(* The type invariant.                                                     *)

LEMMA SessionNewType ==
  ASSUME NEW server \in BOOLEAN PROVE SessionNew(server) \in SessionType
<1> DEFINE n == IF server THEN 0 ELSE CertVectorLength
<1>1. /\ n \in 0..MaxSlots /\ 0 \in 0..MaxSlots /\ 0 <= n /\ n <= n
      /\ [i \in 1..MaxSlots |-> EmptySlot] \in [1..MaxSlots -> CertOrigins \cup {EmptySlot}]
  BY BoundsAssumption, SlotsAssumption
<1> HIDE DEF n
<1>2. CertVectorInit(n) \in CertVectorType
  BY <1>1, VectorType DEF CertVectorInit
<1>3. NoAob \in AobType /\ NoIframe \in IframeType
  BY DEF NoAob, AobType, NoIframe, IframeType
<1>4. [max |-> InitialMaxConcurrent, win |-> InitialWindow] \in Settings
  BY BoundsAssumption DEF Settings
<1>5. [i \in StreamId |-> NoStream] \in [StreamId -> Stream]
  BY NoStreamType
<1> QED BY <1>2, <1>3, <1>4, <1>5, ZeroIsStreamId DEF SessionNew, SessionType, n

LEMMA TypeInit == Init => TypeOK
<1> SUFFICES ASSUME Init PROVE TypeOK
  OBVIOUS
<1>1. world.server \in BOOLEAN
  BY WorldsAssumption DEF Init, World
<1> QED BY <1>1, SessionNewType DEF Init, TypeOK

\* A step to a well-typed session, whatever it sends, keeps the invariant.
LEMMA StepType ==
  ASSUME TypeOK, NEW t \in SessionType, Step(t), finished' \subseteq StreamId
  PROVE  TypeOK'
  BY DEF TypeOK, Step, LiveStreams

LEMMA QuietType ==
  ASSUME TypeOK, NEW t \in SessionType, Quiet(t)
  PROVE  TypeOK'
  BY StepType DEF Quiet, TypeOK

LEMMA TypeNext == TypeOK /\ [Next]_vars => TypeOK'
<1> SUFFICES ASSUME TypeOK, [Next]_vars PROVE TypeOK'
  OBVIOUS
<1>0. /\ ses \in SessionType
      /\ world.app \subseteq Frame /\ world.peer \subseteq Frame /\ world.bad \subseteq Frame
      /\ world.reads \subseteq ReadResult
      /\ \A f \in Frame : f.id \in StreamId /\ f.val \in Nat /\ f.arg \in Args
  <2>1. world \in World
    BY WorldsAssumption DEF TypeOK
  <2> QED BY <2>1 DEF World, TypeOK, Frame
<1>1. CASE AppSynStream
  BY <1>0, <1>1, SubmitSynStreamType, QuietType DEF AppSynStream
<1>2. CASE AppStreamFrame
  BY <1>0, <1>2, AddFrameType, QuietType DEF AppStreamFrame
<1>3. CASE AppSettings
  BY <1>0, <1>3, SubmitSettingsType, QuietType DEF AppSettings
<1>4. CASE AppWindowUpdate
  BY <1>0, <1>4, SubmitWindowUpdateType, QuietType DEF AppWindowUpdate
<1>5. CASE AppPing
  BY <1>0, <1>5, SubmitPingType, QuietType DEF AppPing
<1>6. CASE AppGoaway
  BY <1>0, <1>6, SubmitGoawayType, QuietType DEF AppGoaway
<1>7. CASE AppFailSession
  BY <1>0, <1>7, FailSessionType, QuietType DEF AppFailSession
<1>8. CASE AppResumeData
  BY <1>0, <1>8, ResumeDataType, QuietType DEF AppResumeData, LiveStreams
<1>9. CASE AppSetOption
  <2>1. [ses EXCEPT !.auto_window_update = ~@] \in SessionType
    BY <1>0 DEF SessionType
  <2> QED BY <1>9, <2>1, QuietType DEF AppSetOption
<1>10. CASE AppSetClientCertOrigin
  BY <1>0, <1>10, SetOriginType, QuietType DEF AppSetClientCertOrigin
<1>11. CASE Prepare
  <2>1. PICK item \in PopNextObItem(ses), rd \in world.reads, packs \in BOOLEAN :
          Quiet(PrepFrame(Popped(ses, item), item, rd, packs))
    BY <1>11 DEF Prepare
  <2>2. item \in Item
    BY <1>0 DEF PopNextObItem, Top, SessionType
  <2>3. PrepFrame(Popped(ses, item), item, rd, packs) \in SessionType
    BY <1>0, <2>2, PoppedType, PrepFrameType
  <2> QED BY <2>1, <2>3, QuietType
<1>12. CASE SendPart
  BY <1>0, <1>12, PartialWriteType, QuietType DEF SendPart
<1>13. CASE SendRest
  <2>1. PICK rd \in world.reads : Step(CompleteWrite(ses, rd))
    BY <1>13 DEF SendRest
  <2>2. ses.aob.item # {}
    BY <1>13 DEF SendRest
  <2>3. CompleteWrite(ses, rd) \in SessionType
    BY <1>0, <2>2, CompleteWriteType
  <2>4. WireFrame(ses).id \in StreamId
    <3>1. Aob(ses) \in Item
      BY <1>0, <2>2, AobItemType
    <3>2. Aob(ses).f \in Frame
      BY <3>1, ItemFrame
    <3>3. WireFrame(ses).id = Aob(ses).f.id
      BY <3>2 DEF WireFrame, Frame
    <3> QED BY <1>0, <3>2, <3>3
  <2>5. finished' \subseteq StreamId
    BY <1>13, <2>4 DEF SendRest, TypeOK
  <2> QED BY <2>1, <2>3, <2>5, StepType
<1>14. CASE RecvCtrl
  BY <1>0, <1>14, OnCtrlType, QuietType DEF RecvCtrl
<1>15. CASE RecvBadBlock
  BY <1>0, <1>15, OnInvalidHeaderBlockType, QuietType DEF RecvBadBlock
<1>16. CASE RecvUnparsable
  BY <1>0, <1>16, FailSessionType, QuietType DEF RecvUnparsable
<1>17. CASE RecvHead
  BY <1>0, <1>17, RecvDataHeadType, QuietType DEF RecvHead
<1>18. CASE RecvPayload
  <2>1. PICK f \in ses.iframe.f : \E n \in 0..f.val : Quiet(RecvDataPayload(ses, n))
    BY <1>18 DEF RecvPayload
  <2>2. f \in Frame
    BY <1>0, <2>1 DEF SessionType, IframeType
  <2>3. PICK n \in 0..f.val : Quiet(RecvDataPayload(ses, n))
    BY <2>1
  <2>4. n \in Nat /\ ses.iframe.f # {}
    BY <1>0, <2>1, <2>2, <2>3
  <2> QED BY <1>0, <2>3, <2>4, RecvDataPayloadType, QuietType
<1>19. CASE UNCHANGED vars
  BY <1>19 DEF vars, TypeOK
<1> QED BY <1>1, <1>2, <1>3, <1>4, <1>5, <1>6, <1>7, <1>8, <1>9, <1>10, <1>11, <1>12,
           <1>13, <1>14, <1>15, <1>16, <1>17, <1>18, <1>19 DEF Next

\* The session of spdylay_session.c stays well typed for every set of frames,
\* every bound and every order of calls: windows stay within int32_t, stream IDs
\* below 2^31 and the certificate cursor inside the vector.
THEOREM TypeCorrect == Spec => []TypeOK
  BY TypeInit, TypeNext, PTL DEF Spec
-----------------------------------------------------------------------------
(* Streams and stream IDs.                                                 *)

\* From s to t no stream was opened and no stream ID spent.
Keeps(s, t) ==
  /\ t.server = s.server
  /\ t.next_stream_id = s.next_stream_id
  /\ t.last_recv_stream_id = s.last_recv_stream_id
  /\ LiveStreams(t) \subseteq LiveStreams(s)

LEMMA KeepsSelf == ASSUME NEW s PROVE Keeps(s, s)
  BY DEF Keeps

LEMMA KeepsTrans ==
  ASSUME NEW s, NEW t, NEW u, Keeps(s, t), Keeps(t, u)
  PROVE  Keeps(s, u)
  BY DEF Keeps

\* Fields that have nothing to do with streams and IDs.
LEMMA SameStreamsKeep ==
  ASSUME NEW s, NEW t, t.server = s.server, t.next_stream_id = s.next_stream_id,
         t.last_recv_stream_id = s.last_recv_stream_id, t.streams = s.streams
  PROVE  Keeps(s, t)
  BY DEF Keeps, LiveStreams, HasStream

LEMMA PutStreamKeeps ==
  ASSUME NEW s \in SessionType, NEW id \in StreamId, NEW str,
         str.state # "NONE" => HasStream(s, id)
  PROVE  Keeps(s, PutStream(s, id, str))
  BY DEF Keeps, PutStream, SessionType, LiveStreams, HasStream

LEMMA CountStreamKeeps ==
  ASSUME NEW s \in SessionType, NEW id, NEW n
  PROVE  Keeps(s, CountStream(s, id, n))
<1>1. Keeps(s, [s EXCEPT !.num_outgoing_streams = @ + n])
  BY SameStreamsKeep DEF SessionType
<1>2. Keeps(s, [s EXCEPT !.num_incoming_streams = @ + n])
  BY SameStreamsKeep DEF SessionType
<1> QED BY <1>1, <1>2, Zenon DEF CountStream

LEMMA CloseStreamKeeps ==
  ASSUME NEW s \in SessionType, NEW id \in StreamId
  PROVE  Keeps(s, CloseStream(s, id))
<1> DEFINE t == PutStream(s, id, NoStream)
<1>1. t \in SessionType
  BY PutStreamType, NoStreamType
<1>2. Keeps(s, t)
  <2>1. NoStream.state = "NONE" BY DEF NoStream
  <2> QED BY <2>1, PutStreamKeeps
<1> HIDE DEF t
<1>3. Keeps(s, CountStream(t, id, -1))
  BY <1>1, <1>2, CountStreamKeeps, KeepsTrans
<1> QED BY <1>3, KeepsSelf DEF CloseStream, t

LEMMA ShutdownKeeps ==
  ASSUME NEW s \in SessionType, NEW id \in StreamId, NEW flags
  PROVE  Keeps(s, Shutdown(s, id, flags))
<1>1. [s.streams[id] EXCEPT !.shut = @ \cup flags].state = s.streams[id].state
  BY StreamAtType DEF Stream
<1> QED BY <1>1, PutStreamKeeps DEF Shutdown, HasStream

LEMMA CloseIfShutKeeps ==
  ASSUME NEW s \in SessionType, NEW id \in StreamId
  PROVE  Keeps(s, CloseStreamIfShutRdwr(s, id))
  BY CloseStreamKeeps, KeepsSelf DEF CloseStreamIfShutRdwr

LEMMA SetStateKeeps ==
  ASSUME NEW s \in SessionType, NEW id \in StreamId, HasStream(s, id), NEW st
  PROVE  Keeps(s, SetState(s, id, st))
  BY PutStreamKeeps DEF SetState
-----------------------------------------------------------------------------
(* Queueing frames.                                                        *)

LEMMA QueueUpdatesKeep ==
  ASSUME NEW s \in SessionType, NEW n, NEW ss, NEW q
  PROVE  /\ Keeps(s, [s EXCEPT !.next_seq = n, !.ob_ss_pq = ss, !.ob_pq = q])
         /\ Keeps(s, [s EXCEPT !.ob_pq = q, !.ob_ss_pq = ss])
         /\ Keeps(s, [s EXCEPT !.ob_ss_pq = ss])
         /\ Keeps(s, [s EXCEPT !.ob_pq = q])
<1> DEFINE t == [s EXCEPT !.next_seq = n, !.ob_ss_pq = ss, !.ob_pq = q]
           u == [s EXCEPT !.ob_pq = q, !.ob_ss_pq = ss]
<1>1. Keeps(s, t)
  <2>1. /\ t.server = s.server /\ t.next_stream_id = s.next_stream_id
        /\ t.last_recv_stream_id = s.last_recv_stream_id /\ t.streams = s.streams
    BY DEF SessionType
  <2> QED BY <2>1, SameStreamsKeep DEF t
<1>2. Keeps(s, u)
  <2>1. /\ u.server = s.server /\ u.next_stream_id = s.next_stream_id
        /\ u.last_recv_stream_id = s.last_recv_stream_id /\ u.streams = s.streams
    BY DEF SessionType
  <2> QED BY <2>1, SameStreamsKeep DEF u
<1>3. Keeps(s, [s EXCEPT !.ob_ss_pq = ss])
  BY SameStreamsKeep DEF SessionType
<1>4. Keeps(s, [s EXCEPT !.ob_pq = q])
  BY SameStreamsKeep DEF SessionType
<1> QED BY <1>1, <1>2, <1>3, <1>4

LEMMA FieldUpdatesKeep ==
  ASSUME NEW s \in SessionType, NEW v, NEW w
  PROVE  /\ Keeps(s, [s EXCEPT !.aob = v])
         /\ Keeps(s, [s EXCEPT !.iframe = v])
         /\ Keeps(s, [s EXCEPT !.certvec = v])
         /\ Keeps(s, [s EXCEPT !.goaway_flags = v])
         /\ Keeps(s, [s EXCEPT !.last_good_stream_id = w, !.goaway_flags = v])
         /\ Keeps(s, [s EXCEPT !.remote = v])
         /\ Keeps(s, [s EXCEPT !.local = v])
         /\ Keeps(s, [s EXCEPT !.auto_window_update = v])
         /\ Keeps(s, [s EXCEPT !.last_ping_unique_id = v])
         /\ Keeps(s, [s EXCEPT !.next_unique_id = v])
<1>1. Keeps(s, [s EXCEPT !.aob = v]) /\ Keeps(s, [s EXCEPT !.iframe = v])
  BY SameStreamsKeep DEF SessionType
<1>2. Keeps(s, [s EXCEPT !.certvec = v]) /\ Keeps(s, [s EXCEPT !.goaway_flags = v])
  BY SameStreamsKeep DEF SessionType
<1> DEFINE t == [s EXCEPT !.last_good_stream_id = w, !.goaway_flags = v]
<1>3. Keeps(s, t)
  <2>1. /\ t.server = s.server /\ t.next_stream_id = s.next_stream_id
        /\ t.last_recv_stream_id = s.last_recv_stream_id /\ t.streams = s.streams
    BY DEF SessionType
  <2> QED BY <2>1, SameStreamsKeep DEF t
<1>4. Keeps(s, [s EXCEPT !.remote = v]) /\ Keeps(s, [s EXCEPT !.local = v])
  BY SameStreamsKeep DEF SessionType
<1>5. Keeps(s, [s EXCEPT !.auto_window_update = v])
  BY SameStreamsKeep DEF SessionType
<1>6. /\ Keeps(s, [s EXCEPT !.last_ping_unique_id = v])
      /\ Keeps(s, [s EXCEPT !.next_unique_id = v])
  BY SameStreamsKeep DEF SessionType
<1> QED BY <1>1, <1>2, <1>3, <1>4, <1>5, <1>6

LEMMA AddFrameKeeps ==
  ASSUME NEW s \in SessionType, NEW f \in Frame
  PROVE  Keeps(s, AddFrame(s, f))
<1> DEFINE item == [f |-> f, pri |-> FramePri(s, f), seq |-> s.next_seq]
           syn  == f.type = "SYN_STREAM"
           ss   == IF syn THEN s.ob_ss_pq \cup {item} ELSE s.ob_ss_pq
           pq   == IF syn THEN s.ob_pq ELSE s.ob_pq \cup {item}
           q    == [s EXCEPT !.next_seq = @ + 1, !.ob_ss_pq = ss, !.ob_pq = pq]
<1>1. f.id \in StreamId
  BY DEF Frame
<1>2. item \in Item
  BY FramePriType DEF Item, SessionType
<1> HIDE DEF item
<1>3. ss \in SUBSET Item /\ pq \in SUBSET Item /\ s.next_seq + 1 \in Nat
  BY <1>2 DEF SessionType
<1>4. AddFrame(s, f) = IF f.type = "RST_STREAM" /\ HasStream(s, f.id)
                       THEN SetState(q, f.id, "CLOSING") ELSE q
  BY DEF AddFrame, q, item
<1> HIDE DEF ss, pq
<1>5. q \in SessionType
  BY <1>3, QueuesType
<1>6. q.streams = s.streams /\ Keeps(s, q)
  BY QueueUpdatesKeep DEF SessionType
<1> HIDE DEF q
<1>7. HasStream(s, f.id) => Keeps(s, SetState(q, f.id, "CLOSING"))
  BY <1>1, <1>5, <1>6, SetStateKeeps, KeepsTrans DEF HasStream
<1> QED BY <1>4, <1>6, <1>7

LEMMA AddRstStreamKeeps ==
  ASSUME NEW s \in SessionType, NEW id \in StreamId, NEW code \in StatusCodes
  PROVE  Keeps(s, AddRstStream(s, id, code))
<1>1. "RST_STREAM" \in FrameTypes /\ code \in Args
  BY DEF FrameTypes, Args
<1>2. [MkFrame("RST_STREAM", id) EXCEPT !.arg = code] \in Frame
  BY <1>1, MkFrameType DEF Frame
<1> QED BY <1>2, AddFrameKeeps DEF AddRstStream

LEMMA AddPingKeeps ==
  ASSUME NEW s \in SessionType, NEW uid \in Nat
  PROVE  Keeps(s, AddPing(s, uid))
<1>1. "PING" \in FrameTypes
  BY DEF FrameTypes
<1>2. [MkFrame("PING", 0) EXCEPT !.val = uid] \in Frame
  BY <1>1, MkFrameType, ZeroIsStreamId DEF Frame
<1> QED BY <1>2, AddFrameKeeps DEF AddPing

LEMMA AddWindowUpdateKeeps ==
  ASSUME NEW s \in SessionType, NEW id \in StreamId, NEW delta \in Nat
  PROVE  Keeps(s, AddWindowUpdate(s, id, delta))
<1>1. "WINDOW_UPDATE" \in FrameTypes
  BY DEF FrameTypes
<1>2. [MkFrame("WINDOW_UPDATE", id) EXCEPT !.val = delta] \in Frame
  BY <1>1, MkFrameType DEF Frame
<1> QED BY <1>2, AddFrameKeeps DEF AddWindowUpdate

LEMMA SubmitGoawayKeeps ==
  ASSUME NEW s \in SessionType, NEW code \in Args
  PROVE  Keeps(s, SubmitGoaway(s, code))
<1>1. "GOAWAY" \in FrameTypes /\ s.last_recv_stream_id \in Nat
  BY BoundsAssumption DEF FrameTypes, SessionType, StreamId
<1>2. MkFrame("GOAWAY", 0) \in Frame
  BY <1>1, MkFrameType, ZeroIsStreamId
<1>3. [MkFrame("GOAWAY", 0) EXCEPT !.val = s.last_recv_stream_id, !.arg = code] \in Frame
  BY <1>1, <1>2 DEF Frame
<1> QED BY <1>3, AddFrameKeeps DEF SubmitGoaway

LEMMA FailSessionKeeps ==
  ASSUME NEW s \in SessionType PROVE Keeps(s, FailSession(s))
<1> DEFINE t == [s EXCEPT !.goaway_flags = @ \cup {"FAIL_ON_SEND"}]
<1>1. t \in SessionType
  BY DEF SessionType
<1>2. Keeps(s, t)
  BY FieldUpdatesKeep
<1>3. "PROTOCOL_ERROR" \in Args
  BY DEF Args, StatusCodes
<1> HIDE DEF t
<1>4. Keeps(s, SubmitGoaway(t, "PROTOCOL_ERROR"))
  BY <1>1, <1>2, <1>3, SubmitGoawayKeeps, KeepsTrans
<1> QED BY <1>4 DEF FailSession, t

LEMMA SubmitDataKeeps ==
  ASSUME NEW s \in SessionType, NEW id \in StreamId, NEW fin \in BOOLEAN
  PROVE  Keeps(s, SubmitData(s, id, fin))
<1>1. "DATA" \in FrameTypes
  BY DEF FrameTypes
<1>2. [MkFrame("DATA", id) EXCEPT !.fin = fin] \in Frame
  BY <1>1, MkFrameType DEF Frame
<1> QED BY <1>2, AddFrameKeeps DEF SubmitData
-----------------------------------------------------------------------------
(* spdylay_session_send, SYN_STREAM apart.                                 *)

LEMMA PoppedKeeps ==
  ASSUME NEW s \in SessionType, NEW item
  PROVE  Keeps(s, Popped(s, item))
  BY QueueUpdatesKeep DEF Popped

LEMMA ActivateKeeps ==
  ASSUME NEW s \in SessionType, NEW item
  PROVE  Keeps(s, Activate(s, item))
  BY FieldUpdatesKeep DEF Activate

LEMMA DeferDataKeeps ==
  ASSUME NEW s \in SessionType, NEW item \in Item, NEW flow
  PROVE  Keeps(s, DeferData(s, item, flow))
<1> DEFINE id == item.f.id
           str == [s.streams[id] EXCEPT !.deferred = @ \cup {item}, !.deferred_flow = flow]
<1>1. id \in StreamId
  BY ItemFrame
<1>2. s.streams[id] \in Stream
  BY <1>1, StreamAtType
<1>3. str.state = s.streams[id].state
  BY <1>2 DEF Stream
<1> HIDE DEF str
<1>4. Keeps(s, PutStream(s, id, str))
  BY <1>1, <1>3, PutStreamKeeps DEF HasStream
<1> QED BY <1>4 DEF DeferData, str

LEMMA ReadDataKeeps ==
  ASSUME NEW s \in SessionType, NEW item \in Item, NEW rd
  PROVE  Keeps(s, ReadData(s, item, rd))
<1>1. Keeps(s, DeferData(s, item, TRUE)) /\ Keeps(s, DeferData(s, item, FALSE))
  BY DeferDataKeeps
<1>2. "INTERNAL_ERROR" \in StatusCodes /\ item.f.id \in StreamId
  BY ItemFrame DEF StatusCodes
<1>3. Keeps(s, AddRstStream(s, item.f.id, "INTERNAL_ERROR"))
  BY <1>2, AddRstStreamKeeps
<1>4. \A a : Keeps(s, [s EXCEPT !.aob = a])
  BY FieldUpdatesKeep
<1> QED BY <1>1, <1>3, <1>4 DEF ReadData

LEMMA ChargeWindowKeeps ==
  ASSUME NEW s \in SessionType, s.aob.item # {}
  PROVE  Keeps(s, ChargeWindow(s))
<1> DEFINE id == Aob(s).f.id
<1>1. id \in StreamId
  BY AobItemType, ItemFrame
<1>2. s.streams[id] \in Stream
  BY <1>1, StreamAtType
<1>3. \A w : [s.streams[id] EXCEPT !.window_size = w].state = s.streams[id].state
  BY <1>2 DEF Stream
<1>4. \A w : Keeps(s, PutStream(s, id, [s.streams[id] EXCEPT !.window_size = w]))
  BY <1>1, <1>3, PutStreamKeeps DEF HasStream
<1> QED BY <1>4, KeepsSelf DEF ChargeWindow

LEMMA PartialWriteKeeps ==
  ASSUME NEW s \in SessionType, s.aob.item # {}
  PROVE  Keeps(s, PartialWrite(s))
<1> DEFINE t == ChargeWindow(s)
<1>1. t \in SessionType /\ Keeps(s, t)
  BY ChargeWindowType, ChargeWindowKeeps
<1> HIDE DEF t
<1>2. \A a : Keeps(s, [t EXCEPT !.aob = a])
  BY <1>1, FieldUpdatesKeep, KeepsTrans
<1> QED BY <1>2 DEF PartialWrite, t

LEMMA AfterStreamFrameKeeps ==
  ASSUME NEW t \in SessionType, NEW f \in Frame, NEW st \in States
  PROVE  Keeps(t, AfterStreamFrame(t, f, st))
<1> SUFFICES ASSUME HasStream(t, f.id) PROVE Keeps(t, AfterStreamFrame(t, f, st))
  BY KeepsSelf DEF AfterStreamFrame
<1> DEFINE flags == (IF f.fin THEN {"WR"} ELSE {})
                      \cup (IF f.type = "SYN_STREAM" /\ f.uni THEN {"RD"} ELSE {})
           a == SetState(t, f.id, st)
           b == Shutdown(a, f.id, flags)
           u == CloseStreamIfShutRdwr(b, f.id)
<1>1. f.id \in StreamId
  BY DEF Frame
<1>2. a \in SessionType /\ Keeps(t, a)
  BY <1>1, SetStateType, SetStateKeeps
<1>3. flags \in SUBSET {"RD", "WR"}
  OBVIOUS
<1> HIDE DEF a, flags
<1>4. b \in SessionType /\ Keeps(t, b)
  BY <1>1, <1>2, <1>3, ShutdownType, ShutdownKeeps, KeepsTrans
<1> HIDE DEF b
<1>5. u \in SessionType /\ Keeps(t, u)
  BY <1>1, <1>4, CloseIfShutType, CloseIfShutKeeps, KeepsTrans
<1> HIDE DEF u
<1>6. Keeps(t, SubmitData(u, f.id, TRUE))
  BY <1>1, <1>5, SubmitDataKeeps, KeepsTrans
<1> QED BY <1>5, <1>6 DEF AfterStreamFrame, u, b, a, flags

LEMMA AfterDataKeeps ==
  ASSUME NEW t \in SessionType, NEW item \in Item, NEW eof \in BOOLEAN,
         NEW rd \in ReadResult
  PROVE  Keeps(t, AfterData(t, item, eof, rd))
<1> DEFINE id == item.f.id
           a  == Shutdown(t, id, {"WR"})
           u  == IF eof /\ item.f.fin /\ HasStream(t, id)
                 THEN CloseStreamIfShutRdwr(a, id) ELSE t
<1>1. id \in StreamId
  BY ItemFrame
<1>2. a \in SessionType /\ Keeps(t, a)
  BY <1>1, ShutdownType, ShutdownKeeps
<1> HIDE DEF a
<1>3. /\ CloseStreamIfShutRdwr(a, id) \in SessionType
      /\ Keeps(t, CloseStreamIfShutRdwr(a, id))
  BY <1>1, <1>2, CloseIfShutType, CloseIfShutKeeps, KeepsTrans
<1>4. u \in SessionType /\ Keeps(t, u)
  BY <1>3, KeepsSelf
<1> HIDE DEF u
<1>5. Keeps(t, ReadData(u, item, rd))
  BY <1>4, ReadDataKeeps, KeepsTrans
<1>6. \A q : Keeps(t, [u EXCEPT !.ob_pq = q])
  BY <1>4, QueueUpdatesKeep, KeepsTrans
<1> QED BY <1>4, <1>5, <1>6 DEF AfterData, u, a

LEMMA CompleteWriteKeeps ==
  ASSUME NEW s \in SessionType, s.aob.item # {}, NEW rd \in ReadResult
  PROVE  Keeps(s, CompleteWrite(s, rd))
<1> DEFINE c == ChargeWindow(s)
           item == Aob(c)
           t == [c EXCEPT !.aob = NoAob]
<1>1. c \in SessionType /\ c.aob = s.aob /\ Keeps(s, c)
  BY ChargeWindowType, ChargeWindowKeeps
<1> HIDE DEF c
<1>2. item \in Item
  BY <1>1, AobItemType
<1>3. t \in SessionType
  <2>1. NoAob \in AobType BY DEF NoAob, AobType
  <2> QED BY <1>1, <2>1, AobUpdateType
<1>4. Keeps(s, t)
  BY <1>1, FieldUpdatesKeep, KeepsTrans
<1>5. c.aob.eof \in BOOLEAN
  BY <1>1 DEF SessionType, AobType
<1> HIDE DEF t, item
<1>6. item.f \in Frame /\ item.f.id \in StreamId
  BY <1>2, ItemFrame
<1>7. t.streams[item.f.id].state \in States
  BY <1>3, <1>6, StreamAtType DEF Stream
<1>8. \A st \in States : Keeps(s, AfterStreamFrame(t, item.f, st))
  BY <1>3, <1>4, <1>6, AfterStreamFrameKeeps, KeepsTrans
<1>9. Keeps(s, CloseStream(t, item.f.id))
  BY <1>3, <1>4, <1>6, CloseStreamKeeps, KeepsTrans
<1>10. \A v : Keeps(s, [t EXCEPT !.last_ping_unique_id = v])
  BY <1>3, <1>4, FieldUpdatesKeep, KeepsTrans
<1>11. \A v : Keeps(s, [t EXCEPT !.goaway_flags = v])
  BY <1>3, <1>4, FieldUpdatesKeep, KeepsTrans
<1>12. Keeps(s, AfterData(t, item, c.aob.eof, rd))
  BY <1>2, <1>3, <1>4, <1>5, AfterDataKeeps, KeepsTrans
<1>13. "OPENING" \in States /\ "OPENED" \in States
  BY DEF States
<1>14. Keeps(s, AfterFrameSent(c, rd))
  BY <1>4, <1>7, <1>8, <1>9, <1>10, <1>11, <1>12, <1>13 DEF AfterFrameSent, t, item
<1> QED BY <1>14 DEF CompleteWrite, c
-----------------------------------------------------------------------------
(* spdylay_session_mem_recv, SYN_STREAM apart.                             *)

LEMMA ShutReadKeeps ==
  ASSUME NEW s \in SessionType, NEW id \in StreamId
  PROVE  Keeps(s, ShutRead(s, id))
<1> DEFINE t == Shutdown(s, id, {"RD"})
<1>1. t \in SessionType /\ Keeps(s, t)
  BY ShutdownType, ShutdownKeeps
<1> HIDE DEF t
<1>2. Keeps(s, CloseStreamIfShutRdwr(t, id))
  BY <1>1, CloseIfShutKeeps, KeepsTrans
<1> QED BY <1>2 DEF ShutRead, t

LEMMA OnSynReplyKeeps ==
  ASSUME NEW s \in SessionType, NEW f \in Frame
  PROVE  Keeps(s, OnSynReplyReceived(s, f))
<1> DEFINE t == SetState(s, f.id, "OPENED")
<1>1. f.id \in StreamId
  BY DEF Frame
<1>2. t \in SessionType
  <2>1. "OPENED" \in States BY DEF States
  <2> QED BY <1>1, <2>1, SetStateType
<1>3. HasStream(s, f.id) => Keeps(s, t)
  BY <1>1, SetStateKeeps
<1> HIDE DEF t
<1>4. HasStream(s, f.id) => Keeps(s, ShutRead(t, f.id))
  BY <1>1, <1>2, <1>3, ShutReadKeeps, KeepsTrans
<1>5. /\ Keeps(s, AddRstStream(s, f.id, "STREAM_IN_USE"))
      /\ Keeps(s, AddRstStream(s, f.id, "PROTOCOL_ERROR"))
  <2>1. {"STREAM_IN_USE", "PROTOCOL_ERROR"} \subseteq StatusCodes
    BY DEF StatusCodes
  <2> QED BY <1>1, <2>1, AddRstStreamKeeps
<1> QED BY <1>3, <1>4, <1>5, KeepsSelf DEF OnSynReplyReceived, Readable, t

LEMMA OnHeadersKeeps ==
  ASSUME NEW s \in SessionType, NEW f \in Frame
  PROVE  Keeps(s, OnHeadersReceived(s, f))
<1>1. f.id \in StreamId /\ "PROTOCOL_ERROR" \in StatusCodes
  BY DEF Frame, StatusCodes
<1> QED BY <1>1, AddRstStreamKeeps, ShutReadKeeps, KeepsSelf DEF OnHeadersReceived

LEMMA RequeueKeeps ==
  ASSUME NEW s \in SessionType, NEW moved \in [StreamId -> Stream], NEW ids,
         \A i \in StreamId : moved[i].state # "NONE" => HasStream(s, i)
  PROVE  Keeps(s, Requeue(s, moved, ids))
<1> DEFINE freed == {i \in ids : Reopened(moved[i])}
           str == [i \in StreamId |-> IF i \in freed THEN Detach(moved[i]) ELSE moved[i]]
           q == s.ob_pq \cup UNION {moved[i].deferred : i \in freed}
           t == [s EXCEPT !.ob_pq = q, !.streams = str]
<1>1. \A i \in StreamId : str[i].state = moved[i].state
  BY DEF Detach, Stream
<1> HIDE DEF str, q, freed
<1>2. /\ t.server = s.server /\ t.next_stream_id = s.next_stream_id
      /\ t.last_recv_stream_id = s.last_recv_stream_id /\ t.streams = str
  BY DEF SessionType
<1>3. Keeps(s, t)
  BY <1>1, <1>2 DEF Keeps, LiveStreams, HasStream
<1> QED BY <1>3 DEF Requeue, t, q, str, freed

LEMMA OnWindowUpdateKeeps ==
  ASSUME NEW s \in SessionType, NEW f \in Frame
  PROVE  Keeps(s, OnWindowUpdateReceived(s, f))
<1> DEFINE id == f.id
           w == s.streams[id].window_size + f.val
           moved == [s.streams EXCEPT ![id] = [@ EXCEPT !.window_size = w]]
<1>1. id \in StreamId /\ f.val \in Nat /\ "FLOW_CONTROL_ERROR" \in StatusCodes
  BY DEF Frame, StatusCodes
<1>2. Keeps(s, AddRstStream(s, id, "FLOW_CONTROL_ERROR"))
  BY <1>1, AddRstStreamKeeps
<1>3. s.streams \in [StreamId -> Stream] /\ s.streams[id] \in Stream
  BY <1>1 DEF SessionType
<1>4. ASSUME ~(Int32Max - f.val < s.streams[id].window_size)
      PROVE  Keeps(s, Requeue(s, moved, {id}))
  <2>1. w \in Int32
    BY <1>1, <1>3, <1>4, BoundsAssumption DEF Stream, Int32
  <2> HIDE DEF w
  <2>2. [s.streams[id] EXCEPT !.window_size = w] \in Stream
    BY <1>3, <2>1 DEF Stream
  <2>3. moved \in [StreamId -> Stream]
    BY <1>1, <1>3, <2>2
  <2>4. \A i \in StreamId : moved[i].state # "NONE" => HasStream(s, i)
    BY <1>1, <1>3 DEF HasStream, Stream
  <2> HIDE DEF moved
  <2> QED BY <2>3, <2>4, RequeueKeeps
<1> QED BY <1>2, <1>4, KeepsSelf DEF OnWindowUpdateReceived

LEMMA UpdateInitialWindowKeeps ==
  ASSUME NEW s \in SessionType, NEW new \in Nat
  PROVE  Keeps(s, UpdateInitialWindowSize(s, new))
<1> DEFINE moved == MovedWindows(s, new)
<1>1. ASSUME NEW i \in StreamId
      PROVE  moved[i] \in Stream /\ (moved[i].state # "NONE" => HasStream(s, i))
  <2> DEFINE w == ToInt32(new - ToInt32(ToInt32(s.remote.win) - s.streams[i].window_size))
  <2>1. s.streams[i] \in Stream
    BY StreamAtType
  <2>2. s.remote.win \in Int /\ s.streams[i].window_size \in Int
    BY <2>1, BoundsAssumption DEF SessionType, Settings, Stream, Int32
  <2>3. \A x \in Int : ToInt32(x) \in Int32 /\ ToInt32(x) \in Int
    BY ToInt32Type, BoundsAssumption DEF Int32
  <2>4. w \in Int32
    BY <2>2, <2>3
  <2> HIDE DEF w
  <2>5. [s.streams[i] EXCEPT !.window_size = w] \in Stream
    BY <2>1, <2>4 DEF Stream
  <2>6. moved[i] = IF ~HasStream(s, i) THEN NoStream
                   ELSE [s.streams[i] EXCEPT !.window_size = w]
    BY DEF MovedWindows, w
  <2> QED BY <2>5, <2>6, NoStreamType DEF NoStream
<1>2. moved = [i \in StreamId |-> moved[i]]
  BY DEF MovedWindows
<1> HIDE DEF moved
<1>3. moved \in [StreamId -> Stream]
  BY <1>1, <1>2
<1>4. Keeps(s, Requeue(s, moved, LiveStreams(s)))
  BY <1>1, <1>3, RequeueKeeps
<1> QED BY <1>4 DEF UpdateInitialWindowSize, moved

LEMMA OnSettingsKeeps ==
  ASSUME NEW s \in SessionType, NEW f \in Frame
  PROVE  Keeps(s, OnSettingsReceived(s, f))
<1> DEFINE t == IF FlowControl /\ f.val <= Int32Max
                THEN UpdateInitialWindowSize(s, f.val) ELSE s
<1>1. f.val \in Nat
  BY DEF Frame
<1>2. t \in SessionType /\ Keeps(s, t)
  BY <1>1, UpdateInitialWindowType, UpdateInitialWindowKeeps, KeepsSelf
<1> HIDE DEF t
<1>3. \A r : Keeps(s, [s EXCEPT !.remote = r]) /\ Keeps(s, [t EXCEPT !.remote = r])
  BY <1>2, FieldUpdatesKeep, KeepsTrans
<1>4. \A cv : Keeps(s, [s EXCEPT !.certvec = cv])
  BY FieldUpdatesKeep
<1> QED BY <1>3, <1>4, KeepsSelf DEF OnSettingsReceived, t

LEMMA OnPingKeeps ==
  ASSUME NEW s \in SessionType, NEW f \in Frame
  PROVE  Keeps(s, OnPingReceived(s, f))
<1>1. f.val \in Nat
  BY DEF Frame
<1> QED BY <1>1, AddPingKeeps, FieldUpdatesKeep, KeepsSelf DEF OnPingReceived

LEMMA OnCtrlKeeps ==
  ASSUME NEW s \in SessionType, NEW f \in Frame, f.type # "SYN_STREAM"
  PROVE  Keeps(s, OnCtrlReceived(s, f))
<1>1. Keeps(s, OnRstStreamReceived(s, f))
  BY CloseStreamKeeps DEF OnRstStreamReceived, Frame
<1>2. Keeps(s, OnGoawayReceived(s, f))
  BY FieldUpdatesKeep DEF OnGoawayReceived
<1> QED BY <1>1, <1>2, OnSynReplyKeeps, OnHeadersKeeps, OnSettingsKeeps, OnPingKeeps,
           OnWindowUpdateKeeps, KeepsSelf DEF OnCtrlReceived

LEMMA OnInvalidHeaderBlockKeeps ==
  ASSUME NEW s \in SessionType, NEW f \in Frame
  PROVE  Keeps(s, OnInvalidHeaderBlock(s, f))
<1>1. f.id \in StreamId
  BY DEF Frame
<1>2. {"FRAME_TOO_LARGE", "PROTOCOL_ERROR"} \subseteq StatusCodes
  BY DEF StatusCodes
<1> QED BY <1>1, <1>2, AddRstStreamKeeps DEF OnInvalidHeaderBlock

LEMMA OnDataKeeps ==
  ASSUME NEW s \in SessionType, NEW f \in Frame
  PROVE  Keeps(s, OnDataReceived(s, f))
<1>1. f.id \in StreamId
  BY DEF Frame
<1>2. {"INVALID_STREAM", "PROTOCOL_ERROR"} \subseteq StatusCodes
  BY DEF StatusCodes
<1> QED BY <1>1, <1>2, AddRstStreamKeeps, ShutReadKeeps, KeepsSelf DEF OnDataReceived

LEMMA RecvWindowKeeps ==
  ASSUME NEW s \in SessionType, NEW id \in StreamId, NEW n
  PROVE  Keeps(s, PutStream(s, id, [s.streams[id] EXCEPT !.recv_window_size = n]))
<1>1. [s.streams[id] EXCEPT !.recv_window_size = n].state = s.streams[id].state
  BY StreamAtType DEF Stream
<1> QED BY <1>1, PutStreamKeeps DEF HasStream

LEMMA UpdateRecvWindowKeeps ==
  ASSUME NEW s \in SessionType, NEW id \in StreamId, NEW n \in Nat
  PROVE  Keeps(s, UpdateRecvWindowSize(s, id, n))
<1> DEFINE sum  == s.streams[id].recv_window_size + n
           recv == IF sum > Int32Max THEN Int32Max ELSE sum
           left(k) == PutStream(s, id, [s.streams[id] EXCEPT !.recv_window_size = k])
<1>1. recv \in Nat
  BY StreamAtType, BoundsAssumption DEF Stream
<1> HIDE DEF recv
<1>2. \A k \in Nat : left(k) \in SessionType /\ Keeps(s, left(k))
  BY RecvWindowType, RecvWindowKeeps
<1> HIDE DEF left
<1>3. Keeps(s, AddWindowUpdate(left(0), id, recv))
  BY <1>1, <1>2, AddWindowUpdateKeeps, KeepsTrans
<1> QED BY <1>1, <1>2, <1>3, KeepsSelf DEF UpdateRecvWindowSize, left, recv

LEMMA RecvDataHeadKeeps ==
  ASSUME NEW s \in SessionType, NEW f
  PROVE  Keeps(s, RecvDataHead(s, f))
  BY FieldUpdatesKeep DEF RecvDataHead

LEMMA RecvDataPayloadKeeps ==
  ASSUME NEW s \in SessionType, s.iframe.f # {}, NEW n \in Nat
  PROVE  Keeps(s, RecvDataPayload(s, n))
<1> DEFINE f   == CHOOSE g \in s.iframe.f : TRUE
           off == s.iframe.off + n
           last == off = f.val
           t == IF FlowControl /\ ~s.iframe.ign /\ n > 0 /\ ~(last /\ f.fin)
                THEN UpdateRecvWindowSize(s, f.id, n) ELSE s
           d == OnDataReceived(t, f)
<1>1. f \in Frame
  BY DEF SessionType, IframeType
<1> HIDE DEF f, off
<1>2. f.id \in StreamId
  BY <1>1 DEF Frame
<1>3. t \in SessionType /\ Keeps(s, t)
  BY <1>2, UpdateRecvWindowType, UpdateRecvWindowKeeps, KeepsSelf
<1> HIDE DEF t
<1>4. d \in SessionType /\ Keeps(s, d)
  BY <1>1, <1>3, OnDataType, OnDataKeeps, KeepsTrans
<1> HIDE DEF d
<1>5. \A v : Keeps(s, [t EXCEPT !.iframe = v]) /\ Keeps(s, [d EXCEPT !.iframe = v])
  BY <1>3, <1>4, FieldUpdatesKeep, KeepsTrans
<1> QED BY <1>5 DEF RecvDataPayload, d, t, f, off
-----------------------------------------------------------------------------
(* Calls of the application.                                               *)

LEMMA SubmitSynStreamKeeps ==
  ASSUME NEW s \in SessionType, NEW f \in Frame
  PROVE  Keeps(s, SubmitSynStream(s, f))
<1> DEFINE g == [f EXCEPT !.id = 0, !.assoc = IF s.server THEN @ ELSE 0]
<1>1. g \in Frame
  BY ZeroIsStreamId DEF Frame
<1> HIDE DEF g
<1>2. Keeps(s, AddFrame(s, g))
  BY <1>1, AddFrameKeeps
<1> QED BY <1>2, KeepsSelf DEF SubmitSynStream, g

LEMMA SubmitPingKeeps ==
  ASSUME NEW s \in SessionType PROVE Keeps(s, SubmitPing(s))
<1> DEFINE uid == IF s.next_unique_id > MaxUniqueId
                  THEN IF s.server THEN 2 ELSE 1 ELSE s.next_unique_id
           t == [s EXCEPT !.next_unique_id = uid + 2]
<1>1. uid \in Nat
  BY DEF SessionType
<1> HIDE DEF uid
<1>2. t \in SessionType
  BY <1>1 DEF SessionType
<1>3. Keeps(s, t)
  BY FieldUpdatesKeep
<1> HIDE DEF t
<1>4. Keeps(s, AddPing(t, uid))
  BY <1>1, <1>2, <1>3, AddPingKeeps, KeepsTrans
<1> QED BY <1>4 DEF SubmitPing, t, uid

LEMMA SubmitSettingsKeeps ==
  ASSUME NEW s \in SessionType, NEW f \in Frame
  PROVE  Keeps(s, SubmitSettings(s, f))
<1> DEFINE t == AddFrame(s, f)
<1>1. t \in SessionType /\ Keeps(s, t)
  BY AddFrameType, AddFrameKeeps
<1> HIDE DEF t
<1>2. \A v : Keeps(s, [t EXCEPT !.local = v])
  BY <1>1, FieldUpdatesKeep, KeepsTrans
<1> QED BY <1>1, <1>2 DEF SubmitSettings, t

LEMMA SubmitWindowUpdateKeeps ==
  ASSUME NEW s \in SessionType, NEW id \in StreamId, NEW delta \in Nat
  PROVE  Keeps(s, SubmitWindowUpdate(s, id, delta))
<1> DEFINE recv == s.streams[id].recv_window_size
           n == IF recv < delta THEN 0 ELSE recv - delta
           t == PutStream(s, id, [s.streams[id] EXCEPT !.recv_window_size = n])
<1>1. n \in Nat
  BY StreamAtType DEF Stream
<1> HIDE DEF n
<1>2. t \in SessionType /\ Keeps(s, t)
  BY <1>1, RecvWindowType, RecvWindowKeeps
<1> HIDE DEF t
<1>3. Keeps(s, AddWindowUpdate(t, id, delta))
  BY <1>2, AddWindowUpdateKeeps, KeepsTrans
<1> QED BY <1>3, KeepsSelf DEF SubmitWindowUpdate, t, n

LEMMA ResumeDataKeeps ==
  ASSUME NEW s \in SessionType, NEW id \in StreamId
  PROVE  Keeps(s, ResumeData(s, id))
<1> DEFINE t == PutStream(s, id, Detach(s.streams[id]))
<1>1. Detach(s.streams[id]) \in Stream /\ Detach(s.streams[id]).state = s.streams[id].state
  BY StreamAtType DEF Detach, Stream
<1>2. t \in SessionType /\ Keeps(s, t)
  BY <1>1, PutStreamType, PutStreamKeeps DEF HasStream
<1> HIDE DEF t
<1>3. \A q : Keeps(s, [t EXCEPT !.ob_pq = q])
  BY <1>2, QueueUpdatesKeep, KeepsTrans
<1> QED BY <1>3, KeepsSelf DEF ResumeData, t

LEMMA SetOriginKeeps ==
  ASSUME NEW s \in SessionType, NEW o
  PROVE  Keeps(s, SetInitialClientCertOrigin(s, o))
  BY FieldUpdatesKeep, KeepsSelf DEF SetInitialClientCertOrigin
-----------------------------------------------------------------------------
(* SYN_STREAM, sent and received: the only ways to a new stream.           *)

\* A stream of our own was opened, or its ID spent on a frame that did not pack.
OpensMine(s, t) ==
  /\ t.server = s.server
  /\ t.next_stream_id = s.next_stream_id + 2
  /\ t.last_recv_stream_id = s.last_recv_stream_id
  /\ LiveStreams(t) \subseteq LiveStreams(s) \cup {s.next_stream_id}

\* The peer used a new stream ID.
OpensTheirs(s, t) ==
  /\ t.server = s.server
  /\ t.next_stream_id = s.next_stream_id
  /\ IsNewPeerStreamId(s, t.last_recv_stream_id)
  /\ LiveStreams(t) \subseteq LiveStreams(s) \cup {t.last_recv_stream_id}

\* What a step of the library may do to the streams.
StreamStep(s, t) ==
  \/ Keeps(s, t)
  \/ s.goaway_flags = {} /\ (OpensMine(s, t) \/ OpensTheirs(s, t))

LEMMA OpenStreamOpens ==
  ASSUME NEW s \in SessionType, NEW id \in StreamId, NEW pri \in 0..PriLowest,
         NEW st \in States
  PROVE  LET t == OpenStream(s, id, pri, st)
         IN  /\ t.server = s.server /\ t.next_stream_id = s.next_stream_id
             /\ t.last_recv_stream_id = s.last_recv_stream_id
             /\ LiveStreams(t) \subseteq LiveStreams(s) \cup {id}
<1> DEFINE p == PutStream(s, id, StreamInit(s, pri, st))
           q == IF HasStream(s, id) THEN s ELSE p
<1>1. p \in SessionType
  BY StreamInitType, PutStreamType
<1>2. /\ p.server = s.server /\ p.next_stream_id = s.next_stream_id
      /\ p.last_recv_stream_id = s.last_recv_stream_id
      /\ LiveStreams(p) \subseteq LiveStreams(s) \cup {id}
  <2> DEFINE str == StreamInit(s, pri, st)
  <2> HIDE DEF str
  <2>1. p = [s EXCEPT !.streams[id] = str]
    BY DEF PutStream, str
  <2> QED BY <2>1 DEF SessionType, LiveStreams, HasStream
<1> HIDE DEF p
<1>3. q \in SessionType
  BY <1>1
<1>4. /\ q.server = s.server /\ q.next_stream_id = s.next_stream_id
      /\ q.last_recv_stream_id = s.last_recv_stream_id
      /\ LiveStreams(q) \subseteq LiveStreams(s) \cup {id}
  BY <1>2
<1> HIDE DEF q
<1>5. Keeps(q, CountStream(q, id, 1))
  BY <1>3, CountStreamKeeps
<1>6. OpenStream(s, id, pri, st) = CountStream(q, id, 1)
  BY DEF OpenStream, q, p
<1> QED BY <1>4, <1>5, <1>6 DEF Keeps

LEMMA PrepCredentialKeeps ==
  ASSUME NEW s \in SessionType, NEW item \in Item, item.f.arg \in CertOrigins
  PROVE  Keeps(s, PrepCredential(s, item))
<1> DEFINE o  == item.f.arg
           cv == Put(s.certvec, o)
           c  == [MkFrame("CREDENTIAL", 0) EXCEPT !.arg = o, !.val = cv.last_slot]
           r  == [s EXCEPT !.certvec = cv]
           t  == AddFrame(r, c)
<1>1. cv \in CertVectorType
  BY PutType DEF SessionType
<1> HIDE DEF cv
<1>2. r \in SessionType /\ Keeps(s, r)
  BY <1>1, CertUpdateType, FieldUpdatesKeep
<1> HIDE DEF r
<1>3. c \in Frame
  <2>1. cv.last_slot \in Nat
    BY <1>1, SlotsAssumption DEF CertVectorType
  <2>2. "CREDENTIAL" \in FrameTypes /\ o \in Args
    BY DEF FrameTypes, Args
  <2>3. MkFrame("CREDENTIAL", 0) \in Frame
    BY <2>2, MkFrameType, ZeroIsStreamId
  <2> QED BY <2>1, <2>2, <2>3 DEF Frame
<1> HIDE DEF c
<1>4. t \in SessionType /\ Keeps(s, t)
  BY <1>2, <1>3, AddFrameType, AddFrameKeeps, KeepsTrans
<1> HIDE DEF t
<1>5. \A ss : Keeps(s, [t EXCEPT !.ob_ss_pq = ss])
  BY <1>4, QueueUpdatesKeep, KeepsTrans
<1> QED BY <1>5 DEF PrepCredential, t, c, r, cv

LEMMA PrepSynStreamSteps ==
  ASSUME NEW s \in SessionType, NEW item \in Item, NEW packs \in BOOLEAN
  PROVE  StreamStep(s, PrepSynStream(s, item, packs))
<1> DEFINE id == s.next_stream_id
           t  == [s EXCEPT !.next_stream_id = @ + 2]
           o  == OpenStream(t, id, item.f.pri, "INITIAL")
<1>1. CASE ~SynStreamSendable(s, item.f)
  BY <1>1, KeepsSelf DEF PrepSynStream, StreamStep
<1>2. CASE SynStreamSendable(s, item.f) /\ NeedsCredential(s, item.f.arg)
  <2>1. item.f.arg \in CertOrigins
    BY <1>2 DEF NeedsCredential
  <2>2. Keeps(s, PrepCredential(s, item))
    BY <2>1, PrepCredentialKeeps
  <2> QED BY <1>2, <2>2 DEF PrepSynStream, StreamStep
<1>3. CASE SynStreamSendable(s, item.f) /\ ~NeedsCredential(s, item.f.arg)
  <2>1. s.goaway_flags = {} /\ id <= MaxStreamId
    BY <1>3 DEF SynStreamSendable
  <2>2. id \in StreamId
    BY <2>1, BoundsAssumption DEF SessionType, StreamId
  <2>3. t \in SessionType
    BY DEF SessionType
  <2>4. /\ t.server = s.server /\ t.next_stream_id = id + 2
        /\ t.last_recv_stream_id = s.last_recv_stream_id
        /\ LiveStreams(t) = LiveStreams(s)
    BY DEF SessionType, LiveStreams, HasStream
  <2>5. OpensMine(s, t)
    BY <2>4 DEF OpensMine
  <2> HIDE DEF t
  <2>6. item.f.pri \in 0..PriLowest /\ "INITIAL" \in States
    BY ItemFrame DEF States
  <2>7. o \in SessionType
    BY <2>2, <2>3, <2>6, OpenStreamType
  <2>8. OpensMine(s, o)
    BY <2>2, <2>3, <2>4, <2>6, OpenStreamOpens DEF OpensMine
  <2> HIDE DEF o
  <2>9. \A i : Keeps(o, Activate(o, i))
    BY <2>7, ActivateKeeps
  <2>10. \A i : OpensMine(s, Activate(o, i))
    BY <2>8, <2>9 DEF OpensMine, Keeps
  <2>11. OpensMine(s, PrepSynStream(s, item, packs))
    BY <1>3, <2>5, <2>10, Zenon DEF PrepSynStream, t, o
  <2> QED BY <2>1, <2>11 DEF StreamStep
<1> QED BY <1>1, <1>2, <1>3

LEMMA PrepFrameSteps ==
  ASSUME NEW s \in SessionType, NEW item \in Item, NEW rd \in ReadResult,
         NEW packs \in BOOLEAN
  PROVE  StreamStep(s, PrepFrame(s, item, rd, packs))
<1>1. Keeps(s, ReadData(s, item, rd)) /\ Keeps(s, Activate(s, item)) /\ Keeps(s, s)
  BY ReadDataKeeps, ActivateKeeps, KeepsSelf
<1>2. CASE item.f.type = "SYN_STREAM"
  BY <1>2, PrepSynStreamSteps DEF PrepFrame
<1>3. CASE item.f.type # "SYN_STREAM"
  BY <1>1, <1>3 DEF PrepFrame, StreamStep
<1> QED BY <1>2, <1>3

LEMMA AcceptSynStreamOpens ==
  ASSUME NEW s \in SessionType, NEW f \in Frame
  PROVE  LET t == AcceptSynStream(s, f)
         IN  /\ t.server = s.server /\ t.next_stream_id = s.next_stream_id
             /\ t.last_recv_stream_id = s.last_recv_stream_id
             /\ LiveStreams(t) \subseteq LiveStreams(s) \cup {f.id}
<1> DEFINE flags == (IF f.fin THEN {"RD"} ELSE {}) \cup (IF f.uni THEN {"WR"} ELSE {})
           o == OpenStream(s, f.id, f.pri, "OPENING")
<1>1. f.id \in StreamId /\ f.pri \in 0..PriLowest /\ "OPENING" \in States
  BY DEF Frame, States
<1>2. /\ o \in SessionType
      /\ o.server = s.server /\ o.next_stream_id = s.next_stream_id
      /\ o.last_recv_stream_id = s.last_recv_stream_id
      /\ LiveStreams(o) \subseteq LiveStreams(s) \cup {f.id}
  BY <1>1, OpenStreamType, OpenStreamOpens
<1> HIDE DEF o, flags
<1>3. Keeps(o, Shutdown(o, f.id, flags))
  BY <1>1, <1>2, ShutdownKeeps
<1>4. AcceptSynStream(s, f) = IF f.fin /\ f.uni THEN s ELSE Shutdown(o, f.id, flags)
  BY DEF AcceptSynStream, o, flags
<1> QED BY <1>2, <1>3, <1>4 DEF Keeps

LEMMA OnSynStreamSteps ==
  ASSUME NEW s \in SessionType, NEW f \in Frame
  PROVE  StreamStep(s, OnSynStreamReceived(s, f))
<1> DEFINE t == [s EXCEPT !.last_recv_stream_id = f.id]
           code == ValidateSynStream(t, f)
<1>1. f.id \in StreamId /\ "PROTOCOL_ERROR" \in StatusCodes
  BY DEF Frame, StatusCodes
<1>2. /\ Keeps(s, AddRstStream(s, f.id, "PROTOCOL_ERROR"))
      /\ Keeps(s, FailSession(s)) /\ Keeps(s, s)
  BY <1>1, AddRstStreamKeeps, FailSessionKeeps, KeepsSelf
<1>3. CASE s.goaway_flags # {} \/ s.last_recv_stream_id = f.id
             \/ ~IsNewPeerStreamId(s, f.id)
  BY <1>2, <1>3 DEF OnSynStreamReceived, StreamStep
<1>4. CASE s.goaway_flags = {} /\ s.last_recv_stream_id # f.id
             /\ IsNewPeerStreamId(s, f.id)
  <2>1. /\ t \in SessionType /\ t.server = s.server
        /\ t.next_stream_id = s.next_stream_id /\ t.last_recv_stream_id = f.id
        /\ LiveStreams(t) = LiveStreams(s)
    BY <1>1 DEF SessionType, LiveStreams, HasStream
  <2>2. code = "" \/ code \in StatusCodes
    BY DEF ValidateSynStream, StatusCodes
  <2>3. OnSynStreamReceived(s, f) = IF code # "" THEN AddRstStream(t, f.id, code)
                                    ELSE AcceptSynStream(t, f)
    BY <1>4 DEF OnSynStreamReceived
  <2> HIDE DEF t, code
  <2>4. CASE code # ""
    <3>1. Keeps(t, AddRstStream(t, f.id, code))
      BY <1>1, <2>1, <2>2, <2>4, AddRstStreamKeeps
    <3>2. OpensTheirs(s, AddRstStream(t, f.id, code))
      BY <1>4, <2>1, <3>1 DEF OpensTheirs, Keeps
    <3> QED BY <1>4, <2>3, <2>4, <3>2 DEF StreamStep
  <2>5. CASE code = ""
    <3>1. OpensTheirs(s, AcceptSynStream(t, f))
      BY <1>4, <2>1, AcceptSynStreamOpens DEF OpensTheirs
    <3> QED BY <1>4, <2>3, <2>5, <3>1 DEF StreamStep
  <2> QED BY <2>4, <2>5
<1> QED BY <1>3, <1>4
-----------------------------------------------------------------------------
(* Every step of the specification.                                        *)

LEMMA NextSteps ==
  ASSUME TypeOK, Next
  PROVE  /\ StreamStep(ses, ses')
         /\ closed' = closed \cup (LiveStreams(ses) \ LiveStreams(ses'))
<1>0. /\ ses \in SessionType
      /\ world.app \subseteq Frame /\ world.peer \subseteq Frame /\ world.bad \subseteq Frame
      /\ world.reads \subseteq ReadResult
      /\ \A f \in Frame : f.id \in StreamId /\ f.val \in Nat /\ f.arg \in Args
  <2>1. world \in World
    BY WorldsAssumption DEF TypeOK
  <2> QED BY <2>1 DEF World, TypeOK, Frame
<1>k. ASSUME NEW t, Keeps(ses, t), Quiet(t)
      PROVE  /\ StreamStep(ses, ses')
             /\ closed' = closed \cup (LiveStreams(ses) \ LiveStreams(ses'))
  BY <1>k DEF Quiet, Step, StreamStep
<1>q. ASSUME NEW t, StreamStep(ses, t), Quiet(t)
      PROVE  /\ StreamStep(ses, ses')
             /\ closed' = closed \cup (LiveStreams(ses) \ LiveStreams(ses'))
  BY <1>q DEF Quiet, Step
<1>1. CASE AppSynStream
  BY <1>0, <1>k, <1>1, SubmitSynStreamKeeps DEF AppSynStream
<1>2. CASE AppStreamFrame
  BY <1>0, <1>k, <1>2, AddFrameKeeps DEF AppStreamFrame
<1>3. CASE AppSettings
  BY <1>0, <1>k, <1>3, SubmitSettingsKeeps DEF AppSettings
<1>4. CASE AppWindowUpdate
  BY <1>0, <1>k, <1>4, SubmitWindowUpdateKeeps DEF AppWindowUpdate
<1>5. CASE AppPing
  BY <1>0, <1>k, <1>5, SubmitPingKeeps DEF AppPing
<1>6. CASE AppGoaway
  BY <1>0, <1>k, <1>6, SubmitGoawayKeeps DEF AppGoaway
<1>7. CASE AppFailSession
  BY <1>0, <1>k, <1>7, FailSessionKeeps DEF AppFailSession
<1>8. CASE AppResumeData
  BY <1>0, <1>k, <1>8, ResumeDataKeeps DEF AppResumeData, LiveStreams
<1>9. CASE AppSetOption
  BY <1>0, <1>k, <1>9, FieldUpdatesKeep DEF AppSetOption
<1>10. CASE AppSetClientCertOrigin
  BY <1>0, <1>k, <1>10, SetOriginKeeps DEF AppSetClientCertOrigin
<1>11. CASE Prepare
  <2>1. PICK item \in PopNextObItem(ses), rd \in world.reads, packs \in BOOLEAN :
          Quiet(PrepFrame(Popped(ses, item), item, rd, packs))
    BY <1>11 DEF Prepare
  <2>2. item \in Item
    BY <1>0 DEF PopNextObItem, Top, SessionType
  <2> DEFINE p == Popped(ses, item)
             t == PrepFrame(p, item, rd, packs)
  <2>3. /\ p \in SessionType /\ p.goaway_flags = ses.goaway_flags
        /\ p.server = ses.server /\ p.next_stream_id = ses.next_stream_id
        /\ p.last_recv_stream_id = ses.last_recv_stream_id
        /\ LiveStreams(p) = LiveStreams(ses)
    <3>1. /\ p.goaway_flags = ses.goaway_flags /\ p.streams = ses.streams
          /\ p.server = ses.server /\ p.next_stream_id = ses.next_stream_id
          /\ p.last_recv_stream_id = ses.last_recv_stream_id
      BY <1>0 DEF Popped, SessionType
    <3> QED BY <1>0, <3>1, PoppedType DEF LiveStreams, HasStream
  <2> HIDE DEF p
  <2>4. StreamStep(p, t)
    BY <1>0, <2>2, <2>3, PrepFrameSteps
  <2> HIDE DEF t
  <2>5. StreamStep(ses, t)
    BY <2>3, <2>4 DEF StreamStep, Keeps, OpensMine, OpensTheirs, IsNewPeerStreamId,
                      IsMyStreamId
  <2> QED BY <1>q, <2>1, <2>5 DEF t, p
<1>12. CASE SendPart
  BY <1>0, <1>k, <1>12, PartialWriteKeeps DEF SendPart
<1>13. CASE SendRest
  <2>1. PICK rd \in world.reads : Step(CompleteWrite(ses, rd))
    BY <1>13 DEF SendRest
  <2>2. Keeps(ses, CompleteWrite(ses, rd))
    BY <1>0, <1>13, CompleteWriteKeeps DEF SendRest
  <2> QED BY <2>1, <2>2 DEF Step, StreamStep
<1>14. CASE RecvCtrl
  <2>1. PICK f \in world.peer : Quiet(OnCtrlReceived(ses, f))
    BY <1>14 DEF RecvCtrl
  <2>2. CASE f.type = "SYN_STREAM"
    BY <1>0, <1>q, <2>1, <2>2, OnSynStreamSteps DEF OnCtrlReceived
  <2>3. CASE f.type # "SYN_STREAM"
    BY <1>0, <1>k, <2>1, <2>3, OnCtrlKeeps
  <2> QED BY <2>2, <2>3
<1>15. CASE RecvBadBlock
  BY <1>0, <1>k, <1>15, OnInvalidHeaderBlockKeeps DEF RecvBadBlock
<1>16. CASE RecvUnparsable
  BY <1>0, <1>k, <1>16, FailSessionKeeps DEF RecvUnparsable
<1>17. CASE RecvHead
  BY <1>0, <1>k, <1>17, RecvDataHeadKeeps DEF RecvHead
<1>18. CASE RecvPayload
  <2>1. PICK f \in ses.iframe.f : \E n \in 0..f.val : Quiet(RecvDataPayload(ses, n))
    BY <1>18 DEF RecvPayload
  <2>2. f \in Frame
    BY <1>0, <2>1 DEF SessionType, IframeType
  <2>3. PICK n \in 0..f.val : Quiet(RecvDataPayload(ses, n))
    BY <2>1
  <2>4. n \in Nat /\ ses.iframe.f # {}
    BY <1>0, <2>1, <2>2, <2>3
  <2> QED BY <1>0, <1>k, <2>3, <2>4, RecvDataPayloadKeeps
<1> QED BY <1>1, <1>2, <1>3, <1>4, <1>5, <1>6, <1>7, <1>8, <1>9, <1>10, <1>11, <1>12,
           <1>13, <1>14, <1>15, <1>16, <1>17, <1>18 DEF Next

\* Once GOAWAY was sent or received, or the session failed, no call, no frame of
\* the peer and no queued frame opens a stream in either direction.
THEOREM GoawayStopsStreams == Spec => NoStreamAfterGoaway
<1>1. TypeOK /\ [Next]_vars
        => [ses.goaway_flags # {} => LiveStreams(ses') \subseteq LiveStreams(ses)]_vars
  BY NextSteps DEF StreamStep, Keeps, vars
<1> QED BY <1>1, TypeCorrect, PTL DEF Spec, NoStreamAfterGoaway
-----------------------------------------------------------------------------
(* No stream ID is used twice.                                             *)

\* Inductive: the IDs of the map and the IDs of closed streams all lie behind
\* the counters of their initiators, and next_stream_id is an ID of ours.
Spent(s, i) ==
  IF IsMyStreamId(s, i) THEN i < s.next_stream_id ELSE i <= s.last_recv_stream_id

FreshInv ==
  /\ TypeOK
  /\ IsMyStreamId(ses, ses.next_stream_id)
  /\ \A i \in LiveStreams(ses) \cup closed : Spent(ses, i)
  /\ closed \cap LiveStreams(ses) = {}

LEMMA FreshInit == Init => FreshInv
<1> SUFFICES ASSUME Init PROVE FreshInv
  OBVIOUS
<1>1. TypeOK
  BY TypeInit
<1>2. LiveStreams(ses) = {} /\ closed = {}
  BY DEF Init, SessionNew, LiveStreams, HasStream, NoStream
<1>3. IsMyStreamId(ses, ses.next_stream_id)
  <2>1. ses.server = world.server /\ ses.next_stream_id = IF world.server THEN 2 ELSE 1
    BY DEF Init, SessionNew
  <2> QED BY <2>1 DEF IsMyStreamId
<1> QED BY <1>1, <1>2, <1>3 DEF FreshInv

LEMMA FreshNext == FreshInv /\ [Next]_vars => FreshInv'
<1> SUFFICES ASSUME FreshInv, [Next]_vars PROVE FreshInv'
  OBVIOUS
<1>1. TypeOK'
  BY TypeNext DEF FreshInv
<1>2. CASE UNCHANGED vars
  BY <1>1, <1>2 DEF FreshInv, vars, Spent, IsMyStreamId, LiveStreams, HasStream
<1>3. CASE Next
  <2> DEFINE s == ses
             t == ses'
             live == LiveStreams(ses)
             live2 == LiveStreams(ses')
  <2>1. /\ StreamStep(s, t) /\ closed' = closed \cup (live \ live2)
    BY <1>3, NextSteps DEF FreshInv
  <2>2. /\ s.next_stream_id \in Nat /\ s.last_recv_stream_id \in Nat
        /\ live \subseteq Nat /\ closed \subseteq Nat
    BY BoundsAssumption DEF FreshInv, TypeOK, SessionType, StreamId, LiveStreams
  <2>3. /\ IsMyStreamId(s, s.next_stream_id)
        /\ \A i \in live \cup closed : Spent(s, i)
        /\ closed \cap live = {}
    BY DEF FreshInv
  <2> HIDE DEF s, t, live, live2
  <2>4. SUFFICES /\ IsMyStreamId(t, t.next_stream_id)
                 /\ \A i \in live2 \cup closed' : Spent(t, i)
                 /\ closed' \cap live2 = {}
    BY <1>1 DEF FreshInv, s, t, live, live2
  <2>5. CASE Keeps(s, t)
    <3>1. live2 \subseteq live
      BY <2>5 DEF Keeps, live, live2, s, t
    <3> QED BY <2>1, <2>3, <2>5, <3>1 DEF Keeps, Spent, IsMyStreamId
  <2>6. CASE OpensMine(s, t)
    <3>1. live2 \subseteq live \cup {s.next_stream_id}
      BY <2>6 DEF OpensMine, live, live2, s, t
    <3>2. /\ t.server = s.server /\ t.next_stream_id = s.next_stream_id + 2
          /\ t.last_recv_stream_id = s.last_recv_stream_id
      BY <2>6 DEF OpensMine
    <3>3. IsMyStreamId(t, t.next_stream_id)
      BY <2>2, <2>3, <3>2 DEF IsMyStreamId
    <3>4. \A i \in live \cup closed \cup {s.next_stream_id} : Spent(t, i)
      BY <2>2, <2>3, <3>2 DEF Spent, IsMyStreamId
    <3>5. s.next_stream_id \notin closed
      BY <2>2, <2>3 DEF Spent
    <3> QED BY <2>1, <2>3, <3>1, <3>3, <3>4, <3>5
  <2>7. CASE OpensTheirs(s, t)
    <3> DEFINE id == t.last_recv_stream_id
    <3>1. live2 \subseteq live \cup {id}
      BY <2>7 DEF OpensTheirs, live, live2, s, t
    <3>2. /\ t.server = s.server /\ t.next_stream_id = s.next_stream_id
          /\ ~IsMyStreamId(s, id) /\ s.last_recv_stream_id < id /\ id \in Nat
      BY <1>1, <2>7, BoundsAssumption
         DEF OpensTheirs, IsNewPeerStreamId, t, TypeOK, SessionType, StreamId
    <3>3. IsMyStreamId(t, t.next_stream_id)
      BY <2>3, <3>2 DEF IsMyStreamId
    <3>4. \A i \in live \cup closed \cup {id} : Spent(t, i)
      BY <2>2, <2>3, <3>2 DEF Spent, IsMyStreamId
    <3>5. id \notin closed
      BY <2>2, <2>3, <3>2 DEF Spent
    <3> QED BY <2>1, <2>3, <3>1, <3>3, <3>4, <3>5
  <2> QED BY <2>1, <2>5, <2>6, <2>7 DEF StreamStep
<1> QED BY <1>2, <1>3

\* A session never uses a stream ID twice, in either direction: every stream in
\* the map is older than the next ID of its initiator and none that was closed
\* comes back.
THEOREM NoStreamIdReused == Spec => []StreamIdsFresh
<1>1. FreshInv => StreamIdsFresh
  <2> SUFFICES ASSUME FreshInv PROVE StreamIdsFresh
    OBVIOUS
  <2>1. \A i \in LiveStreams(ses) : Spent(ses, i)
    BY DEF FreshInv
  <2>2. \A i \in Mine : i < ses.next_stream_id
    BY <2>1 DEF Spent, Mine
  <2>3. \A i \in Theirs : i <= ses.last_recv_stream_id
    BY <2>1 DEF Spent, Mine, Theirs
  <2> QED BY <2>2, <2>3 DEF FreshInv, StreamIdsFresh
<1> QED BY <1>1, FreshInit, FreshNext, PTL DEF Spec
=============================================================================
