----------------------------- MODULE InboundProofs -----------------------------
(***************************************************************************)
(* That spdylay_session_mem_recv makes the same of the peer's bytes however*)
(* the transport cuts them, for every frame header length, buffer limit    *)
(* and stream of frames.  Good relates what the loop has in hand to the    *)
(* frames: it holds before and after every turn, with the bytes of this    *)
(* call still to come counted in.                                          *)
(***************************************************************************)
EXTENDS InboundFrame, NaturalsInduction, WellFoundedInduction, TLAPS

Frames == {c \in FrameType : c.nv >= -1 /\ c.bad <= c.len}

InboundSpec == InboundInit /\ [][InboundNext]_inboundVars

-----------------------------------------------------------------------------
(* The invariant.                                                          *)

FrameState ==
  [state : {"HEAD", "PAYLOAD", "PAYLOAD_IGN", "PRE_NV", "NV"},
   headbufoff : 0..HeadLen, off : Nat, buflen : Nat,
   error_code : {"NONE", "FRAME_TOO_LARGE", "ZLIB"}, inflated : Nat, given : Nat]

WorkType ==
  [f : FrameState, k : Nat, log : Seq({"DATA", "FRAME", "INVALID", "TOO_LARGE"} \X Nat),
   fed : Nat]

\* The inflated size of the first off bytes of the payload of c.
Inflated(c, off) == (off - c.nv) * c.grow

\* A frame without header block under reception.
PlainFrame(f, c) ==
  /\ ~c.ctrl => /\ f.state = IF c.allowed THEN "PAYLOAD" ELSE "PAYLOAD_IGN"
                /\ f.given = IF c.allowed THEN f.off ELSE 0
  /\ c.ctrl /\ c.nv = -1 => /\ f.state = IF c.len > MaxBuf THEN "PAYLOAD_IGN" ELSE "PAYLOAD"
                            /\ f.buflen = IF c.len > MaxBuf THEN 0 ELSE c.len
  /\ c.ctrl /\ c.nv >= c.len => /\ f.state = "PAYLOAD"
                                /\ f.error_code = "NONE" /\ f.inflated = 0

\* A frame in front of its header block, or in it.
BlockFrame(f, c) ==
  /\ f.state \in {"PRE_NV", "NV"}
  /\ f.state = "PRE_NV" =>
       /\ f.off <= c.nv /\ f.inflated = 0
       /\ f.error_code = IF c.len > MaxBuf THEN "FRAME_TOO_LARGE" ELSE "NONE"
  /\ f.state = "NV" =>
       /\ f.off >= c.nv
       /\ f.error_code = "ZLIB" <=> c.nv < c.bad /\ c.bad <= f.off
       /\ f.error_code = "FRAME_TOO_LARGE" => c.len > MaxBuf \/ Inflated(c, f.off) > MaxBuf
       /\ f.error_code = "NONE" => /\ c.len <= MaxBuf /\ Inflated(c, f.off) <= MaxBuf
                               /\ f.inflated = Inflated(c, f.off)

HasBlock(c) == c.ctrl /\ c.nv >= 0 /\ c.nv < c.len

InFrame(f, c) == IF HasBlock(c) THEN BlockFrame(f, c) ELSE PlainFrame(f, c)

BlockBytes(s, i) == Sums([j \in 1..Len(s) |-> Block(s[j])])[i]

\* The inflater has every byte of the blocks before, and of this one so far.
InStep(s, v) ==
  LET n == Len(v.log)
      c == s[n + 1]
  IN  (\A i \in 1..n : s[i].bad = 0) /\ (v.f.state # "HEAD" => c.bad = 0)
        => v.fed = BlockBytes(s, n) + IF v.f.state = "NV" THEN v.f.off - c.nv ELSE 0

\* What holds between frames and within one.
Base(s, R, v) ==
  /\ v \in WorkType
  /\ Len(v.log) <= Len(s)
  /\ \A i \in 1..Len(v.log) : v.log[i] = Reference(s[i])
  /\ R \in Nat /\ R <= Prefix(s, Len(s))
  /\ InStep(s, v)

Between(s, R, v) ==
  /\ Base(s, R, v)
  /\ v.f.headbufoff < HeadLen
  /\ v.f.state = "HEAD" /\ v.f.off = 0 /\ v.f.buflen = 0
  /\ v.f.error_code = "NONE" /\ v.f.inflated = 0 /\ v.f.given = 0
  /\ Prefix(s, Len(v.log)) + v.f.headbufoff + v.k = R

Within(s, R, v) ==
  /\ Base(s, R, v)
  /\ v.f.state # "HEAD"
  /\ Len(v.log) < Len(s)
  /\ v.f.off <= s[Len(v.log) + 1].len
  /\ InFrame(v.f, s[Len(v.log) + 1])
  /\ Prefix(s, Len(v.log)) + HeadLen + v.f.off + v.k = R

Good(s, R, v) ==
  \/ Between(s, R, v)
  \/ Within(s, R, v) /\ v.f.off < s[Len(v.log) + 1].len

\* The inductive invariant.
InboundInv == stream \in Streams /\ Good(stream, rcvd, Work(0))

-----------------------------------------------------------------------------
(* Sums.                                                                   *)

LEMMA LeastNumber ==
  ASSUME NEW T, T \subseteq Nat, T # {}
  PROVE  \E x \in T : \A y \in T : ~(y < x)
<1> DEFINE R == OpToRel(<, Nat)
<1>1. IsWellFoundedOn(R, Nat)
  BY NatLessThanWellFounded, Zenon
<1>2. \E x \in T : \A y \in T : ~(<<y, x>> \in R)
  <2> HIDE DEF R
  <2> QED
    BY <1>1, WFMin
<1>3. QED
  BY <1>2 DEF OpToRel

SumTo(g, n, f) == f = [i \in 0..n |-> IF i = 0 THEN 0 ELSE f[i - 1] + g[i]]

LEMMA SumExists ==
  ASSUME NEW g, NEW n \in Nat
  PROVE  \E f : SumTo(g, n, f)
<1> DEFINE T == {k \in Nat : ~\E f : SumTo(g, k, f)}
<1> SUFFICES ASSUME T # {} PROVE FALSE
  OBVIOUS
<1>1. PICK m \in T : \A k \in T : ~(k < m)
  <2>1. T \subseteq Nat
    OBVIOUS
  <2> HIDE DEF T
  <2>2. QED
    BY <2>1, LeastNumber
<1>2. m # 0
  <2> DEFINE f == [i \in 0..0 |-> 0]
  <2>1. f = [i \in 0..0 |-> IF i = 0 THEN 0 ELSE f[i - 1] + g[i]]
    OBVIOUS
  <2>2. SumTo(g, 0, f)
    BY <2>1 DEF SumTo
  <2>3. QED
    BY <2>2
<1>3. m \in Nat /\ m - 1 \in Nat /\ m - 1 < m
  BY <1>1, <1>2
<1>4. PICK f : SumTo(g, m - 1, f)
  BY <1>1, <1>3
<1>5. f = [i \in 0..(m - 1) |-> IF i = 0 THEN 0 ELSE f[i - 1] + g[i]]
  BY <1>4 DEF SumTo
<1> DEFINE h == [i \in 0..m |-> IF i = m THEN f[m - 1] + g[m] ELSE f[i]]
<1>6. ASSUME NEW i \in 0..m PROVE h[i] = IF i = 0 THEN 0 ELSE h[i - 1] + g[i]
  <2>1. CASE i = m
    <3>1. h[m - 1] = f[m - 1]
      BY <1>3
    <3>2. QED
      BY <2>1, <3>1, <1>2
  <2>2. CASE i # m
    <3>1. i \in 0..(m - 1)
      BY <2>2, <1>3
    <3>2. f[i] = IF i = 0 THEN 0 ELSE f[i - 1] + g[i]
      BY <3>1, <1>5
    <3>3. i # 0 => i - 1 \in 0..m /\ i - 1 # m
      BY <1>3, <3>1
    <3>4. QED
      BY <2>2, <3>2, <3>3
  <2>3. QED
    BY <2>1, <2>2
<1>7. h = [i \in 0..m |-> IF i = 0 THEN 0 ELSE h[i - 1] + g[i]]
  BY <1>6
<1>8. SumTo(g, m, h)
  BY <1>7 DEF SumTo
<1>9. QED
  BY <1>1, <1>8

\* Sums is what its recursive definition says.
LEMMA SumsFacts ==
  ASSUME NEW g \in Seq(Nat)
  PROVE  /\ Sums(g)[0] = 0
         /\ \A i \in 1..Len(g) : Sums(g)[i] = Sums(g)[i - 1] + g[i]
         /\ \A i \in 0..Len(g) : Sums(g)[i] \in Nat
<1> DEFINE n == Len(g)
<1>1. n \in Nat
  OBVIOUS
<1> DEFINE sum == CHOOSE f : SumTo(g, n, f)
<1>2. SumTo(g, n, sum)
  BY <1>1, SumExists
<1>3. Sums(g) = sum
  BY Zenon DEF Sums, SumTo
<1> HIDE DEF sum
<1>4. \A i \in 0..n : sum[i] = IF i = 0 THEN 0 ELSE sum[i - 1] + g[i]
  BY <1>2 DEF SumTo
<1> DEFINE T == {k \in 0..n : sum[k] \notin Nat}
<1>5. T = {}
  <2> SUFFICES ASSUME T # {} PROVE FALSE
    OBVIOUS
  <2>1. PICK m \in T : \A k \in T : ~(k < m)
    <3>1. T \subseteq Nat
      BY <1>1
    <3> HIDE DEF T
    <3>2. QED
      BY <3>1, LeastNumber
  <2>2. m # 0
    BY <1>1, <1>4, <2>1
  <2>3. m \in 1..n /\ m - 1 \in 0..n /\ m - 1 < m
    BY <1>1, <2>1, <2>2
  <2>4. sum[m - 1] \in Nat /\ g[m] \in Nat
    BY <2>1, <2>3
  <2>5. sum[m] = sum[m - 1] + g[m]
    BY <1>4, <2>2, <2>3
  <2>6. QED
    BY <2>1, <2>4, <2>5
<1>6. sum[0] = 0
  BY <1>1, <1>4
<1>7. ASSUME NEW i \in 1..n PROVE sum[i] = sum[i - 1] + g[i]
  <2>1. i \in 0..n /\ i # 0
    BY <1>1
  <2>2. QED
    BY <1>4, <2>1
<1>8. QED
  BY <1>3, <1>5, <1>6, <1>7

LEMMA PrefixFacts ==
  ASSUME NEW s \in Seq(Frames)
  PROVE  /\ Prefix(s, 0) = 0
         /\ \A i \in 1..Len(s) : Prefix(s, i) = Prefix(s, i - 1) + HeadLen + s[i].len
         /\ \A i \in 0..Len(s) : Prefix(s, i) \in Nat
<1> DEFINE g == [j \in 1..Len(s) |-> HeadLen + s[j].len]
<1>1. \A j \in 1..Len(s) : s[j].len \in Nat
  BY DEF Frames, FrameType
<1>2. g \in Seq(Nat) /\ Len(g) = Len(s)
  BY <1>1, InboundAssumption
<1>3. /\ Sums(g)[0] = 0
      /\ \A i \in 1..Len(s) : Sums(g)[i] = Sums(g)[i - 1] + g[i]
      /\ \A i \in 0..Len(s) : Sums(g)[i] \in Nat
  <2> HIDE DEF g
  <2> QED
    BY <1>2, SumsFacts
<1>4. \A i : Prefix(s, i) = Sums(g)[i]
  BY DEF Prefix
<1>5. ASSUME NEW i \in 1..Len(s) PROVE Prefix(s, i) = Prefix(s, i - 1) + HeadLen + s[i].len
  <2>1. g[i] = HeadLen + s[i].len
    OBVIOUS
  <2>2. Prefix(s, i) = Prefix(s, i - 1) + g[i]
    BY <1>3, <1>4
  <2>3. Prefix(s, i - 1) \in Nat
    <3>1. i - 1 \in 0..Len(s)
      OBVIOUS
    <3>2. QED
      BY <3>1, <1>3, <1>4
  <2> HIDE DEF g
  <2>4. QED
    BY <2>1, <2>2, <2>3, <1>1, InboundAssumption
<1>6. QED
  BY <1>3, <1>4, <1>5

LEMMA BlockType ==
  ASSUME NEW c \in Frames
  PROVE  Block(c) \in Nat
  BY DEF Block, Frames, FrameType

LEMMA BlockBytesFacts ==
  ASSUME NEW s \in Seq(Frames)
  PROVE  /\ BlockBytes(s, 0) = 0
         /\ \A i \in 1..Len(s) : BlockBytes(s, i) = BlockBytes(s, i - 1) + Block(s[i])
         /\ \A i \in 0..Len(s) : BlockBytes(s, i) \in Nat
<1> DEFINE g == [j \in 1..Len(s) |-> Block(s[j])]
<1>1. \A j \in 1..Len(s) : Block(s[j]) \in Nat
  BY BlockType
<1>2. g \in Seq(Nat) /\ Len(g) = Len(s)
  BY <1>1
<1>3. /\ Sums(g)[0] = 0
      /\ \A i \in 1..Len(s) : Sums(g)[i] = Sums(g)[i - 1] + g[i]
      /\ \A i \in 0..Len(s) : Sums(g)[i] \in Nat
  <2> HIDE DEF g
  <2> QED
    BY <1>2, SumsFacts
<1>4. \A i : BlockBytes(s, i) = Sums(g)[i]
  BY DEF BlockBytes
<1>5. QED
  BY <1>3, <1>4

-----------------------------------------------------------------------------
(* The parts of a turn.                                                    *)

LEMMA LeastFacts ==
  ASSUME NEW a \in Nat, NEW b \in Nat
  PROVE  /\ Least(a, b) \in Nat /\ Least(a, b) <= a /\ Least(a, b) <= b
         /\ Least(a, b) = a \/ Least(a, b) = b
  BY DEF Least

LEMMA ProductFacts ==
  ASSUME NEW a \in Nat, NEW b \in Nat, NEW g \in Nat
  PROVE  /\ a * g \in Nat
         /\ (a + b) * g = a * g + b * g
  OBVIOUS

LEMMA FrameFacts ==
  ASSUME NEW c \in Frames
  PROVE  /\ c.ctrl \in BOOLEAN /\ c.nv \in Int /\ c.nv >= -1 /\ c.len \in Nat
         /\ c.bad \in Nat /\ c.bad <= c.len /\ c.grow \in Nat /\ c.allowed \in BOOLEAN
  BY DEF Frames, FrameType

LEMMA WorkFacts ==
  ASSUME NEW v \in WorkType
  PROVE  /\ v.f \in FrameState /\ v.k \in Nat /\ v.fed \in Nat
         /\ Len(v.log) \in Nat
         /\ v.f.headbufoff \in 0..HeadLen /\ v.f.off \in Nat /\ v.f.buflen \in Nat
         /\ v.f.inflated \in Nat /\ v.f.given \in Nat
         /\ v.f.error_code \in {"NONE", "FRAME_TOO_LARGE", "ZLIB"}
         /\ v.f.state \in {"HEAD", "PAYLOAD", "PAYLOAD_IGN", "PRE_NV", "NV"}
<1>1. v.f \in FrameState /\ v.k \in Nat /\ v.fed \in Nat
  BY DEF WorkType
<1>2. v.log \in Seq({"DATA", "FRAME", "INVALID", "TOO_LARGE"} \X Nat)
  BY DEF WorkType
<1>3. Len(v.log) \in Nat
  BY <1>2
<1>4. QED
  BY <1>1, <1>3 DEF FrameState

LEMMA CurrentFacts ==
  ASSUME stream \in Seq(Frames), NEW v \in WorkType, Len(v.log) < Len(stream)
  PROVE  /\ Current(v) \in Frames
         /\ Len(v.log) + 1 \in 1..Len(stream)
<1>1. Len(v.log) \in Nat /\ Len(stream) \in Nat
  BY WorkFacts
<1>2. QED
  BY <1>1 DEF Current

\* A turn changes the frame under reception and the counts: r is v with those.
Onward(v, r, f, k, d) == r \in WorkType /\ r.f = f /\ r.k = k /\ r.log = v.log /\ r.fed = d

LEMMA Rework ==
  ASSUME NEW v \in WorkType, NEW f \in FrameState, NEW k \in Nat, NEW d \in Nat
  PROVE  /\ Onward(v, [v EXCEPT !.f = f], f, v.k, v.fed)
         /\ Onward(v, [v EXCEPT !.f = f, !.k = k], f, k, v.fed)
         /\ Onward(v, [v EXCEPT !.f = f, !.fed = d], f, v.k, d)
  BY DEF WorkType, Onward

\* The bytes of a header are taken, and the payload begun once it is complete.
LEMMA HeadTurn ==
  ASSUME stream \in Seq(Frames), NEW R, NEW v, Between(stream, R, v), v.k > 0
  PROVE  /\ Between(stream, R, ReadHead(v)) \/ Within(stream, R, ReadHead(v))
         /\ ReadHead(v).k < v.k
<1> DEFINE len == Len(v.log)
           n   == Least(HeadLen - v.f.headbufoff, v.k)
           t   == [v EXCEPT !.f = [v.f EXCEPT !.headbufoff = v.f.headbufoff + n], !.k = v.k - n]
           c   == stream[len + 1]
<1>1. Base(stream, R, v) /\ v \in WorkType
  BY DEF Between, Base
<1>2. /\ v.k \in Nat /\ v.f.headbufoff \in Nat /\ v.f.headbufoff < HeadLen
      /\ HeadLen \in Nat \ {0} /\ MaxBuf \in Nat /\ len \in Nat /\ v.fed \in Nat /\ Len(stream) \in Nat
  BY <1>1, WorkFacts, InboundAssumption DEF Between
<1>3. n \in Nat /\ n > 0 /\ n <= v.k /\ v.f.headbufoff + n <= HeadLen
  <2>1. HeadLen - v.f.headbufoff \in Nat /\ HeadLen - v.f.headbufoff > 0
    BY <1>2
  <2>2. QED
    BY <1>2, <2>1 DEF Least
<1>4. len < Len(stream)
  <2>1. Prefix(stream, len) \in Nat /\ Prefix(stream, Len(stream)) \in Nat
    BY <1>1, <1>2, PrefixFacts DEF Base
  <2>2. Prefix(stream, len) + v.f.headbufoff + v.k = R /\ R <= Prefix(stream, Len(stream))
    BY DEF Between, Base
  <2>3. len # Len(stream)
    BY <1>2, <2>1, <2>2
  <2>4. QED
    BY <1>1, <1>2, <2>3 DEF Base
<1>5. c \in Frames /\ len + 1 \in 1..Len(stream)
  BY <1>1, <1>4, CurrentFacts DEF Current
<1>6. Prefix(stream, len) \in Nat
  BY <1>2, <1>4, PrefixFacts
<1>7. /\ v.f.state = "HEAD" /\ v.f.off = 0 /\ v.f.buflen = 0
      /\ v.f.error_code = "NONE" /\ v.f.inflated = 0 /\ v.f.given = 0
  BY DEF Between
<1> DEFINE tf == [v.f EXCEPT !.headbufoff = v.f.headbufoff + n]
<1>8. /\ tf \in FrameState /\ tf.headbufoff = v.f.headbufoff + n
      /\ tf.state = "HEAD" /\ tf.off = 0 /\ tf.buflen = 0
      /\ tf.error_code = "NONE" /\ tf.inflated = 0 /\ tf.given = 0
  <2>1. v.f \in FrameState
    BY <1>1, WorkFacts
  <2>2. v.f.headbufoff + n \in 0..HeadLen
    BY <1>2, <1>3
  <2> HIDE DEF n
  <2>3. QED
    BY <1>7, <2>1, <2>2 DEF FrameState
<1> HIDE DEF tf
<1>9. t \in WorkType /\ t.f = tf /\ t.k = v.k - n /\ t.log = v.log /\ t.fed = v.fed
  <2> DEFINE k1 == v.k - n
  <2>1. k1 \in Nat
    BY <1>2, <1>3
  <2> HIDE DEF k1
  <2>2. Onward(v, [v EXCEPT !.f = tf, !.k = k1], tf, k1, v.fed)
    BY <1>1, <1>2, <1>8, <2>1, Rework
  <2>3. t = [v EXCEPT !.f = tf, !.k = k1]
    BY DEF tf, k1
  <2> HIDE DEF t, n
  <2>4. k1 = v.k - n
    BY DEF k1
  <2>5. QED
    BY <2>2, <2>3, <2>4 DEF Onward
<1>10. /\ \A i \in 1..len : v.log[i] = Reference(stream[i])
       /\ R \in Nat /\ R <= Prefix(stream, Len(stream))
       /\ InStep(stream, v)
  BY <1>1 DEF Base
<1>11. BlockBytes(stream, len) \in Nat
  BY <1>2, <1>4, BlockBytesFacts
<1>12. (\A i \in 1..len : stream[i].bad = 0) => v.fed = BlockBytes(stream, len)
  BY <1>7, <1>10, <1>11 DEF InStep
<1>13. Prefix(stream, len) + v.f.headbufoff + v.k = R
  BY DEF Between
<1>14. ReadHead(v) = IF v.f.headbufoff + n = HeadLen THEN BeginPayload(t) ELSE t
  <2>1. ReadHead(v) = IF t.f.headbufoff = HeadLen THEN BeginPayload(t) ELSE t
    BY DEF ReadHead
  <2> HIDE DEF t, n
  <2>2. QED
    BY <2>1, <1>8, <1>9
<1> HIDE DEF t, n
<1>15. CASE v.f.headbufoff + n # HeadLen
  <2>1. InStep(stream, t)
    BY <1>2, <1>8, <1>9, <1>11, <1>12 DEF InStep
  <2>2. Base(stream, R, t)
    BY <1>10, <1>9, <2>1, <1>4, <1>2 DEF Base
  <2>3. Prefix(stream, Len(t.log)) + t.f.headbufoff + t.k = R
    BY <1>2, <1>3, <1>6, <1>8, <1>9, <1>13
  <2>4. Between(stream, R, t)
    BY <1>2, <1>3, <1>8, <1>9, <1>15, <2>2, <2>3 DEF Between
  <2>5. QED
    BY <1>2, <1>3, <1>9, <1>14, <1>15, <2>4
<1>16. CASE v.f.headbufoff + n = HeadLen
  <2> DEFINE big == c.len > MaxBuf
             b   == BeginPayload(t)
  <2>1. /\ c.ctrl \in BOOLEAN /\ c.nv \in Int /\ c.nv >= -1 /\ c.len \in Nat
        /\ c.bad \in Nat /\ c.bad <= c.len /\ c.grow \in Nat /\ c.allowed \in BOOLEAN
    BY <1>5, FrameFacts
  <2>2. Current(t) = c
    BY <1>9 DEF Current
  <2>3. \E bf \in FrameState : b = [t EXCEPT !.f = bf] /\ bf.off = 0 /\ InFrame(bf, c)
                              /\ bf.state \notin {"HEAD", "NV"}
    <3>1. tf \in FrameState
      BY <1>8
    <3> HIDE DEF c
    <3>2. CASE ~c.ctrl
      <4> DEFINE bf == [tf EXCEPT !.state = IF c.allowed THEN "PAYLOAD" ELSE "PAYLOAD_IGN"]
      <4>1. bf \in FrameState /\ bf.off = 0 /\ bf.given = 0
            /\ bf.state = IF c.allowed THEN "PAYLOAD" ELSE "PAYLOAD_IGN"
        BY <1>8, <3>1, <2>1 DEF FrameState
      <4>2. b = [t EXCEPT !.f = bf]
        BY <2>2, <3>2, <1>9 DEF BeginPayload
      <4> HIDE DEF bf
      <4>3. InFrame(bf, c)
        BY <2>1, <3>2, <4>1 DEF InFrame, HasBlock, PlainFrame
      <4>4. QED
        BY <2>1, <4>1, <4>2, <4>3
    <3>3. CASE c.ctrl /\ c.nv = -1
      <4> DEFINE bf == [tf EXCEPT !.state = IF big THEN "PAYLOAD_IGN" ELSE "PAYLOAD",
                                  !.error_code = IF big THEN "FRAME_TOO_LARGE" ELSE "NONE",
                                  !.buflen = IF big THEN 0 ELSE c.len]
      <4>1. bf \in FrameState /\ bf.off = 0 /\ bf.buflen = (IF big THEN 0 ELSE c.len)
            /\ bf.state = IF big THEN "PAYLOAD_IGN" ELSE "PAYLOAD"
        BY <1>8, <3>1, <2>1 DEF FrameState
      <4>2. b = [t EXCEPT !.f = bf]
        BY <2>2, <3>3, <1>9 DEF BeginPayload
      <4> HIDE DEF bf
      <4>3. InFrame(bf, c)
        BY <2>1, <3>3, <4>1 DEF InFrame, HasBlock, PlainFrame
      <4>4. QED
        BY <2>1, <4>1, <4>2, <4>3
    <3>4. CASE c.ctrl /\ c.nv # -1
      <4> DEFINE bf == [tf EXCEPT !.state = IF c.nv < c.len THEN "PRE_NV" ELSE "PAYLOAD",
                                  !.error_code = IF c.nv < c.len /\ big
                                                 THEN "FRAME_TOO_LARGE" ELSE "NONE",
                                  !.buflen = c.nv]
      <4>1. bf \in FrameState /\ bf.off = 0 /\ bf.inflated = 0
            /\ bf.state = (IF c.nv < c.len THEN "PRE_NV" ELSE "PAYLOAD")
            /\ bf.error_code = IF c.nv < c.len /\ big THEN "FRAME_TOO_LARGE" ELSE "NONE"
        <5>1. c.nv \in Nat
          BY <2>1, <3>4
        <5>2. QED
          BY <1>8, <3>1, <2>1, <5>1 DEF FrameState
      <4>2. b = [t EXCEPT !.f = bf]
        BY <2>2, <3>4, <1>9 DEF BeginPayload
      <4> HIDE DEF bf
      <4>3. InFrame(bf, c)
        BY <2>1, <3>4, <4>1 DEF InFrame, HasBlock, PlainFrame, BlockFrame
      <4>4. QED
        BY <2>1, <4>1, <4>2, <4>3
    <3>5. QED
      BY <2>1, <3>2, <3>3, <3>4
  <2>4. PICK bf \in FrameState : b = [t EXCEPT !.f = bf] /\ bf.off = 0 /\ InFrame(bf, c)
                                /\ bf.state \notin {"HEAD", "NV"}
    BY <2>3
  <2>5. b \in WorkType /\ b.f = bf /\ b.k = v.k - n /\ b.log = v.log /\ b.fed = v.fed
    <3> HIDE DEF b
    <3>1. t.k \in Nat /\ t.fed \in Nat
      BY <1>9, WorkFacts
    <3>2. Onward(t, b, bf, t.k, t.fed)
      BY <1>9, <2>4, <3>1, Rework
    <3>3. QED
      BY <1>9, <3>2 DEF Onward
  <2> HIDE DEF b
  <2>6. InStep(stream, b)
    BY <1>2, <1>11, <1>12, <2>4, <2>5 DEF InStep
  <2>7. Base(stream, R, b)
    BY <1>10, <2>5, <2>6, <1>4, <1>2 DEF Base
  <2>8. Prefix(stream, Len(b.log)) + HeadLen + b.f.off + b.k = R
    <3>1. Len(b.log) = len /\ b.f.off = 0 /\ b.k = v.k - n
      BY <2>4, <2>5
    <3> HIDE DEF len
    <3>2. QED
      BY <1>2, <1>3, <1>6, <1>13, <1>16, <3>1
  <2>9. Within(stream, R, b)
    BY <1>4, <2>1, <2>4, <2>5, <2>7, <2>8 DEF Within
  <2>10. QED
    BY <1>2, <1>3, <1>14, <1>16, <2>5, <2>9 DEF b
<1>17. QED
  BY <1>15, <1>16

\* The frame is complete, and comes to what it should.
LEMMA OutcomeIsReference ==
  ASSUME NEW f \in FrameState, NEW v \in WorkType, v.f = f, Current(v) \in Frames,
         InFrame(f, Current(v)), f.off = Current(v).len
  PROVE  /\ Outcome(v) = Reference(Current(v))
         /\ Outcome(v) \in {"DATA", "FRAME", "INVALID", "TOO_LARGE"} \X Nat
<1> DEFINE c == Current(v)
<1>1. /\ c.ctrl \in BOOLEAN /\ c.nv \in Int /\ c.nv >= -1 /\ c.len \in Nat
      /\ c.bad \in Nat /\ c.bad <= c.len /\ c.grow \in Nat /\ c.allowed \in BOOLEAN
  BY FrameFacts
<1>2. MaxBuf \in Nat
  BY InboundAssumption
<1>3. /\ f.off = c.len /\ f.given \in Nat /\ f.inflated \in Nat /\ f.buflen \in Nat
      /\ f.error_code \in {"NONE", "FRAME_TOO_LARGE", "ZLIB"}
  BY DEF FrameState
<1>4. Outcome(v) = IF ~c.ctrl THEN <<"DATA", f.given>>
                   ELSE IF c.nv = -1
                   THEN IF f.buflen = c.len THEN <<"FRAME", 0>> ELSE <<"INVALID", 0>>
                   ELSE IF f.error_code = "FRAME_TOO_LARGE" THEN <<"TOO_LARGE", 0>>
                   ELSE IF f.error_code = "NONE" /\ f.inflated > 0
                   THEN <<"FRAME", 0>> ELSE <<"INVALID", 0>>
  BY DEF Outcome
<1>5. InFrame(f, c)
  OBVIOUS
<1> HIDE DEF c
<1>6. Outcome(v) = Reference(c)
  <2>1. CASE ~c.ctrl
    BY <1>1, <1>3, <1>4, <1>5, <2>1 DEF InFrame, HasBlock, PlainFrame, Reference
  <2>2. CASE c.ctrl /\ c.nv = -1
    <3>1. Reference(c) = <<IF c.len > MaxBuf THEN "INVALID" ELSE "FRAME", 0>>
      BY <2>2 DEF Reference
    <3>2. f.buflen = IF c.len > MaxBuf THEN 0 ELSE c.len
      BY <1>1, <1>5, <2>2 DEF InFrame, HasBlock, PlainFrame
    <3>3. QED
      BY <1>1, <1>2, <1>4, <2>2, <3>1, <3>2
  <2>3. CASE c.ctrl /\ c.nv # -1 /\ c.nv >= c.len
    <3>1. Block(c) = 0
      BY <1>1, <2>3 DEF Block
    <3>2. Reference(c) = <<"INVALID", 0>>
      BY <1>1, <2>3, <3>1 DEF Reference
    <3>3. f.error_code = "NONE" /\ f.inflated = 0
      BY <1>1, <1>5, <2>3 DEF InFrame, HasBlock, PlainFrame
    <3>4. QED
      BY <1>1, <1>4, <2>3, <3>2, <3>3
  <2>4. CASE c.ctrl /\ c.nv # -1 /\ c.nv < c.len
    <3>1. c.nv \in Nat /\ Block(c) = c.len - c.nv /\ Block(c) \in Nat /\ Block(c) # 0
      BY <1>1, <2>4 DEF Block
    <3>2. BlockFrame(f, c)
      BY <1>1, <1>5, <2>4 DEF InFrame, HasBlock
    <3>3. f.state = "NV"
      BY <1>1, <1>3, <2>4, <3>2 DEF BlockFrame
    <3>4. Inflated(c, f.off) = Block(c) * c.grow /\ Block(c) * c.grow \in Nat
      <4>1. Inflated(c, f.off) = Block(c) * c.grow
        BY <1>3, <3>1 DEF Inflated
      <4>2. QED
        BY <1>1, <3>1, <4>1, ProductFacts
    <3> DEFINE x == Block(c) * c.grow
    <3> HIDE DEF x
    <3>5. /\ f.error_code = "ZLIB" <=> c.nv < c.bad /\ c.bad <= f.off
          /\ f.error_code = "FRAME_TOO_LARGE" => c.len > MaxBuf \/ x > MaxBuf
          /\ f.error_code = "NONE" => c.len <= MaxBuf /\ x <= MaxBuf /\ f.inflated = x
      BY <3>2, <3>3, <3>4 DEF BlockFrame, x
    <3>6. CASE c.bad > c.nv
      <4>1. Reference(c) = <<"INVALID", 0>>
        BY <1>1, <2>4, <3>1, <3>6 DEF Reference
      <4>2. f.error_code = "ZLIB"
        BY <1>1, <1>3, <3>1, <3>5, <3>6
      <4>3. QED
        BY <1>1, <1>4, <2>4, <4>1, <4>2
    <3>7. CASE ~(c.bad > c.nv)
      <4>1. Reference(c) = <<IF c.len > MaxBuf \/ x > MaxBuf THEN "TOO_LARGE"
                             ELSE IF x = 0 THEN "INVALID" ELSE "FRAME", 0>>
        BY <1>1, <2>4, <3>1, <3>7 DEF Reference, x
      <4>2. f.error_code # "ZLIB"
        BY <1>1, <3>1, <3>5, <3>7
      <4>3. x \in Nat
        BY <3>4 DEF x
      <4>4. CASE f.error_code = "FRAME_TOO_LARGE"
        BY <1>4, <2>4, <3>5, <4>1, <4>4
      <4>5. CASE f.error_code = "NONE"
        BY <1>1, <1>2, <1>4, <2>4, <3>5, <4>1, <4>3, <4>5
      <4>6. QED
        BY <1>3, <4>2, <4>4, <4>5
    <3>8. QED
      BY <3>6, <3>7
  <2>5. QED
    BY <1>1, <2>1, <2>2, <2>3, <2>4
<1>7. Outcome(v) \in {"DATA", "FRAME", "INVALID", "TOO_LARGE"} \X Nat
  BY <1>3, <1>4
<1>8. QED
  BY <1>6, <1>7 DEF c

LEMMA FinishTurn ==
  ASSUME stream \in Seq(Frames), NEW R, NEW v, Within(stream, R, v),
         v.f.off = Current(v).len
  PROVE  Between(stream, R, Process(v)) /\ Process(v).k = v.k
<1> DEFINE len == Len(v.log)
           c   == stream[len + 1]
           p   == Process(v)
           o   == Outcome(v)
<1>1. Base(stream, R, v) /\ v \in WorkType /\ len < Len(stream)
  BY DEF Within, Base
<1>2. /\ v.f \in FrameState /\ v.k \in Nat /\ v.fed \in Nat /\ len \in Nat
      /\ HeadLen \in Nat \ {0} /\ Len(stream) \in Nat
  BY <1>1, WorkFacts, InboundAssumption
<1>3. Current(v) = c /\ c \in Frames /\ len + 1 \in 1..Len(stream)
  BY <1>1, CurrentFacts DEF Current
<1>4. InFrame(v.f, c) /\ v.f.off = c.len /\ v.f.state # "HEAD"
  BY <1>3 DEF Within
<1>5. o = Reference(c) /\ o \in {"DATA", "FRAME", "INVALID", "TOO_LARGE"} \X Nat
  BY <1>1, <1>2, <1>3, <1>4, OutcomeIsReference
<1> DEFINE L == {"DATA", "FRAME", "INVALID", "TOO_LARGE"} \X Nat
<1>6. v.log \in Seq(L)
  BY <1>1 DEF WorkType
<1>7. Append(v.log, o) \in Seq(L)
  <2> HIDE DEF L, o
  <2> QED
    BY <1>5, <1>6 DEF L
<1>8. Reset \in FrameState
  BY <1>2 DEF Reset, FrameState
<1>9. /\ p \in WorkType /\ p.f = Reset /\ p.k = v.k /\ p.fed = v.fed
      /\ p.log = Append(v.log, o)
  <2> HIDE DEF o
  <2>1. p = [v EXCEPT !.log = Append(v.log, o), !.f = Reset]
    BY DEF Process, o
  <2>2. QED
    BY <1>1, <1>7, <1>8, <2>1 DEF WorkType
<1> HIDE DEF p
<1>10. Len(p.log) = len + 1 /\ p.log[len + 1] = o /\ \A i \in 1..len : p.log[i] = v.log[i]
  <2> HIDE DEF L, o
  <2> QED
    BY <1>6, <1>9
<1> HIDE DEF o, L
<1>11. /\ \A i \in 1..len : v.log[i] = Reference(stream[i])
       /\ R \in Nat /\ R <= Prefix(stream, Len(stream))
       /\ InStep(stream, v)
  BY <1>1 DEF Base
<1>12. \A i \in 1..(len + 1) : p.log[i] = Reference(stream[i])
  <2>1. ASSUME NEW i \in 1..(len + 1) PROVE p.log[i] = Reference(stream[i])
    <3>1. CASE i = len + 1
      BY <1>5, <1>10, <3>1
    <3>2. CASE i # len + 1
      <4>1. i \in 1..len
        BY <1>2, <3>2
      <4>2. QED
        BY <1>10, <1>11, <4>1
    <3>3. QED
      BY <3>1, <3>2
  <2>2. QED
    BY <2>1
<1>13. /\ Prefix(stream, len) \in Nat /\ BlockBytes(stream, len) \in Nat
       /\ Prefix(stream, len + 1) = Prefix(stream, len) + HeadLen + c.len
       /\ BlockBytes(stream, len + 1) = BlockBytes(stream, len) + Block(c)
  <2>1. len \in 0..Len(stream) /\ (len + 1) - 1 = len
    BY <1>1, <1>2
  <2>2. QED
    BY <1>3, <2>1, PrefixFacts, BlockBytesFacts
<1>14. p.f.state = "HEAD" /\ p.f.headbufoff = 0 /\ p.f.off = 0 /\ p.f.buflen = 0
       /\ p.f.error_code = "NONE" /\ p.f.inflated = 0 /\ p.f.given = 0
  BY <1>9 DEF Reset
<1>15. InStep(stream, p)
  <2> SUFFICES ASSUME \A i \in 1..(len + 1) : stream[i].bad = 0
               PROVE  v.fed = BlockBytes(stream, len + 1)
    BY <1>2, <1>9, <1>10, <1>13, <1>14 DEF InStep
  <2>1. (\A i \in 1..len : stream[i].bad = 0) /\ c.bad = 0
    BY <1>2
  <2>2. v.fed = BlockBytes(stream, len) + IF v.f.state = "NV" THEN v.f.off - c.nv ELSE 0
    BY <1>4, <1>11, <2>1 DEF InStep
  <2>3. Block(c) = IF v.f.state = "NV" THEN v.f.off - c.nv ELSE 0
    <3>1. c.ctrl \in BOOLEAN /\ c.nv \in Int /\ c.nv >= -1 /\ c.len \in Nat /\ c.allowed \in BOOLEAN
      BY <1>3, FrameFacts
    <3>2. CASE HasBlock(c)
      BY <1>4, <3>1, <3>2 DEF InFrame, BlockFrame, HasBlock, Block
    <3>3. CASE ~HasBlock(c)
      BY <1>4, <3>1, <3>3 DEF InFrame, PlainFrame, HasBlock, Block
    <3>4. QED
      BY <3>2, <3>3
  <2>4. QED
    BY <1>13, <2>2, <2>3
<1>16. Base(stream, R, p)
  <2>1. Len(p.log) <= Len(stream)
    BY <1>1, <1>2, <1>10
  <2>2. QED
    BY <1>9, <1>10, <1>11, <1>12, <1>15, <2>1 DEF Base
<1>17. Prefix(stream, len) + HeadLen + v.f.off + v.k = R
  BY DEF Within
<1>18. Prefix(stream, Len(p.log)) + p.f.headbufoff + p.k = R
  <2> HIDE DEF len, c
  <2>1. c.len \in Nat
    BY <1>3, FrameFacts
  <2>2. QED
    BY <1>2, <1>4, <1>9, <1>10, <1>13, <1>14, <1>17, <2>1
<1>19. p.f.headbufoff < HeadLen
  BY <1>2, <1>14
<1>20. QED
  BY <1>9, <1>14, <1>16, <1>18, <1>19 DEF Between, p

\* r is v with the next n bytes of the payload dealt with, short of counting them.
Dealt(v, n, r) ==
  /\ r \in WorkType /\ n \in Nat /\ n <= v.k /\ v.f.off + n <= Current(v).len
  /\ r.k = v.k /\ r.log = v.log /\ r.f.off = v.f.off /\ r.f.state = v.f.state
  /\ v.f.state # "NV" => r.fed = v.fed
  /\ v.f.state = "NV" /\ Current(v).bad = 0 => r.fed = v.fed + n
  /\ InFrame([r.f EXCEPT !.off = v.f.off + n], Current(v))

Counted(v, n, t) ==
  t.f.off = v.f.off + n /\ t.k = v.k - n /\ t.log = v.log /\ t.f.state = v.f.state

LEMMA Advance ==
  ASSUME stream \in Seq(Frames), NEW R, NEW v, Within(stream, R, v), NEW n, NEW r, Dealt(v, n, r)
  PROVE  LET t == [r EXCEPT !.f = [r.f EXCEPT !.off = r.f.off + n], !.k = r.k - n]
         IN  Within(stream, R, t) /\ Counted(v, n, t)
<1> DEFINE t == [r EXCEPT !.f = [r.f EXCEPT !.off = r.f.off + n], !.k = r.k - n]
<1> USE DEF Dealt
<1> DEFINE len == Len(v.log)
           c   == stream[len + 1]
           tf  == [r.f EXCEPT !.off = v.f.off + n]
           k1  == v.k - n
<1>1. Base(stream, R, v) /\ v \in WorkType /\ len < Len(stream)
  BY DEF Within, Base
<1>2. /\ v.f.off \in Nat /\ v.k \in Nat /\ v.fed \in Nat /\ len \in Nat
      /\ r.f \in FrameState /\ r.fed \in Nat
      /\ HeadLen \in Nat \ {0} /\ Len(stream) \in Nat
  BY <1>1, WorkFacts, InboundAssumption
<1>3. Current(v) = c /\ c \in Frames /\ len + 1 \in 1..Len(stream)
  BY <1>1, CurrentFacts DEF Current
<1>4. c.nv \in Int /\ c.len \in Nat /\ c.bad \in Nat
  BY <1>3, FrameFacts
<1>5. k1 \in Nat /\ v.f.off + n \in Nat
  BY <1>2
<1>6. tf \in FrameState /\ tf.off = v.f.off + n /\ tf.state = v.f.state
  BY <1>2, <1>5 DEF FrameState
<1>7. t = [r EXCEPT !.f = tf, !.k = k1]
  OBVIOUS
<1> HIDE DEF t, tf, k1
<1>8. Onward(r, t, tf, k1, r.fed)
  <2>1. Onward(r, [r EXCEPT !.f = tf, !.k = k1], tf, k1, r.fed)
    BY <1>2, <1>5, <1>6, Rework
  <2>2. QED
    BY <1>7, <2>1, Zenon
<1>9. /\ t \in WorkType /\ t.f = tf /\ t.k = k1 /\ t.log = v.log /\ t.fed = r.fed
  BY <1>8 DEF Onward
<1>10. t.f.off = v.f.off + n /\ t.f.state = v.f.state /\ t.k = v.k - n
  BY <1>6, <1>9 DEF k1
<1>11. /\ \A i \in 1..len : v.log[i] = Reference(stream[i])
       /\ R \in Nat /\ R <= Prefix(stream, Len(stream))
       /\ InStep(stream, v)
  BY <1>1 DEF Base
<1>12. /\ v.f.state # "HEAD" /\ Prefix(stream, len) + HeadLen + v.f.off + v.k = R
  BY DEF Within
<1>13. InStep(stream, t)
  <2>1. BlockBytes(stream, len) \in Nat
    <3>1. len \in 0..Len(stream)
      BY <1>1, <1>2
    <3>2. QED
      BY ONLY stream \in Seq(Frames), <3>1, BlockBytesFacts
  <2>2. CASE v.f.state = "NV"
    <3> SUFFICES ASSUME \A i \in 1..len : stream[i].bad = 0, c.bad = 0
                 PROVE  t.fed = BlockBytes(stream, len) + (t.f.off - c.nv)
      <4>1. Len(t.log) = len /\ t.f.state = "NV"
        BY <1>9, <1>10, <2>2
      <4>2. QED
        BY <4>1 DEF InStep
    <3>1. v.fed = BlockBytes(stream, len) + (v.f.off - c.nv)
      BY <1>11, <2>2 DEF InStep
    <3>2. t.fed = v.fed + n
      BY <1>3, <1>9, <2>2
    <3> HIDE DEF c, len
    <3>3. QED
      BY <1>2, <1>4, <1>10, <2>1, <3>1, <3>2
  <2>3. CASE v.f.state # "NV"
    BY <1>2, <1>9, <1>10, <1>11, <1>12, <2>1, <2>3 DEF InStep
  <2>4. QED
    BY <2>2, <2>3
<1>14. Base(stream, R, t)
  BY <1>1, <1>2, <1>9, <1>11, <1>13 DEF Base
<1>15. Prefix(stream, Len(t.log)) + HeadLen + t.f.off + t.k = R
  <2>1. Prefix(stream, len) \in Nat
    BY <1>1, <1>2, PrefixFacts
  <2>2. Len(t.log) = len
    BY <1>9
  <2> HIDE DEF len
  <2>3. QED
    BY <1>2, <1>10, <1>12, <2>1, <2>2
<1>16. InFrame(t.f, c)
  BY <1>3, <1>9 DEF tf
<1>17. Within(stream, R, t)
  BY <1>1, <1>3, <1>9, <1>10, <1>12, <1>14, <1>15, <1>16 DEF Within
<1>18. Counted(v, n, t)
  BY <1>9, <1>10 DEF Counted
<1>19. QED
  BY <1>17, <1>18 DEF t

\* The next n bytes of the block are inflated.
LEMMA InflateTurn ==
  ASSUME stream \in Seq(Frames), NEW R, NEW v, Within(stream, R, v), v.f.state = "NV",
         NEW n \in Nat, n <= v.k, v.f.off + n <= Current(v).len,
         NEW r, r = Inflate(v, n)
  PROVE  /\ r \in WorkType /\ r.k = v.k /\ r.log = v.log
         /\ r.f.off = v.f.off /\ r.f.state = "NV"
         /\ Current(v).bad = 0 => r.fed = v.fed + n
         /\ InFrame([r.f EXCEPT !.off = v.f.off + n], Current(v))
<1> DEFINE c   == Current(v)
           off == v.f.off
           had == IF v.f.error_code = "FRAME_TOO_LARGE" THEN 0 ELSE v.f.inflated
           out == had + n * c.grow
           ok  == v.f.error_code \in {"NONE", "FRAME_TOO_LARGE"}
           hit == off < c.bad /\ c.bad <= off + n
           x   == Inflated(c, off)
           y   == Inflated(c, off + n)
<1>1. v \in WorkType /\ Len(v.log) < Len(stream)
  BY DEF Within, Base
<1>2. c \in Frames
  BY <1>1, CurrentFacts
<1>3. /\ c.ctrl \in BOOLEAN /\ c.nv \in Int /\ c.nv >= -1 /\ c.len \in Nat
      /\ c.bad \in Nat /\ c.bad <= c.len /\ c.grow \in Nat
  BY <1>2, FrameFacts
<1>4. /\ v.f \in FrameState /\ off \in Nat /\ v.k \in Nat /\ v.fed \in Nat /\ v.f.inflated \in Nat
      /\ v.f.error_code \in {"NONE", "FRAME_TOO_LARGE", "ZLIB"} /\ MaxBuf \in Nat
  BY <1>1, WorkFacts, InboundAssumption
<1>5. InFrame(v.f, c)
  BY DEF Within, Current
<1>6. HasBlock(c) /\ BlockFrame(v.f, c)
  BY <1>3, <1>5 DEF InFrame, PlainFrame, HasBlock
<1>7. c.nv \in Nat /\ off >= c.nv /\ c.ctrl /\ c.nv < c.len
  BY <1>3, <1>6 DEF HasBlock, BlockFrame
<1>8. n * c.grow \in Nat /\ x \in Nat /\ y = x + n * c.grow
  <2>1. off - c.nv \in Nat /\ off + n - c.nv = (off - c.nv) + n
    BY <1>4, <1>7
  <2> DEFINE a == off - c.nv
  <2> HIDE DEF a
  <2>2. a * c.grow \in Nat /\ n * c.grow \in Nat /\ (a + n) * c.grow = a * c.grow + n * c.grow
    BY <1>3, <2>1, ProductFacts DEF a
  <2>3. x = a * c.grow /\ y = (a + n) * c.grow
    <3>1. (off + n) - c.nv = a + n
      BY <1>3, <1>4 DEF a
    <3>2. x = a * c.grow
      BY DEF Inflated, a
    <3>3. y = (a + n) * c.grow
      BY <3>1, Zenon DEF Inflated
    <3>4. QED
      BY <3>2, <3>3
  <2>4. QED
    BY <2>2, <2>3
<1>9. /\ v.f.error_code = "ZLIB" <=> c.nv < c.bad /\ c.bad <= off
      /\ v.f.error_code = "FRAME_TOO_LARGE" => c.len > MaxBuf \/ x > MaxBuf
      /\ v.f.error_code = "NONE" => c.len <= MaxBuf /\ x <= MaxBuf /\ v.f.inflated = x
  BY <1>6 DEF BlockFrame
<1>10. r = IF ~ok THEN v
           ELSE IF hit THEN [v EXCEPT !.f.error_code = "ZLIB", !.fed = v.fed + n]
           ELSE [v EXCEPT !.f = [v.f EXCEPT !.inflated = out,
                                            !.error_code = IF out > MaxBuf
                                                           THEN "FRAME_TOO_LARGE" ELSE @],
                          !.fed = v.fed + n]
  BY DEF Inflate
<1>11. out \in Nat
  BY <1>4, <1>8
<1> HIDE DEF c, x, y
<1>12. SUFFICES /\ r \in WorkType /\ r.k = v.k /\ r.log = v.log
                /\ r.f \in FrameState /\ r.f.off = off /\ r.f.state = "NV"
                /\ c.bad = 0 => r.fed = v.fed + n
                /\ r.f.error_code = "ZLIB" <=> c.nv < c.bad /\ c.bad <= off + n
                /\ r.f.error_code = "FRAME_TOO_LARGE" => c.len > MaxBuf \/ y > MaxBuf
                /\ r.f.error_code = "NONE" => c.len <= MaxBuf /\ y <= MaxBuf /\ r.f.inflated = y
  <2> DEFINE g == [r.f EXCEPT !.off = off + n]
  <2>1. /\ g.off = off + n /\ g.state = "NV" /\ g.error_code = r.f.error_code
        /\ g.inflated = r.f.inflated
    BY <1>4, <1>12 DEF FrameState
  <2> HIDE DEF g
  <2>2. BlockFrame(g, c)
    BY <1>4, <1>7, <1>12, <2>1 DEF BlockFrame, y
  <2>3. InFrame(g, c)
    BY <1>6, <2>2 DEF InFrame
  <2>4. QED
    BY <1>12, <2>3 DEF c, g
<1>13. CASE ~ok
  <2>1. r = v
    BY <1>10, <1>13
  <2>2. v.f.error_code = "ZLIB"
    BY <1>4, <1>13
  <2>3. c.nv < c.bad /\ c.bad <= off + n /\ c.bad # 0
    BY <1>3, <1>4, <1>7, <1>9, <2>2
  <2>4. QED
    BY <1>1, <1>4, <2>1, <2>2, <2>3
<1>14. CASE ok /\ hit
  <2> DEFINE rf == [v.f EXCEPT !.error_code = "ZLIB"]
             d1 == v.fed + n
  <2>1. rf \in FrameState /\ rf.off = off /\ rf.state = "NV" /\ rf.error_code = "ZLIB"
    BY <1>4 DEF FrameState
  <2>2. r = [v EXCEPT !.f = rf, !.fed = d1]
    BY <1>10, <1>14
  <2>3. d1 \in Nat
    BY <1>4
  <2> HIDE DEF rf, d1
  <2>4 Onward(v, r, rf, v.k, d1)
    <3>1. Onward(v, [v EXCEPT !.f = rf, !.fed = d1], rf, v.k, d1)
      BY <1>1, <1>4, <2>1, <2>3, Rework
    <3>2. QED
      BY <2>2, <3>1, Zenon
  <2>5. r \in WorkType /\ r.k = v.k /\ r.log = v.log /\ r.f = rf /\ r.fed = d1
    BY <2>4 DEF Onward
  <2>6. c.nv < c.bad /\ c.bad <= off + n
    BY <1>3, <1>4, <1>7, <1>14
  <2>7. QED
    BY <2>1, <2>5, <2>6 DEF d1
<1>15. CASE ok /\ ~hit
  <2> DEFINE e1 == IF out > MaxBuf THEN "FRAME_TOO_LARGE" ELSE v.f.error_code
             rf == [v.f EXCEPT !.inflated = out, !.error_code = e1]
             d1 == v.fed + n
  <2>1. r = [v EXCEPT !.f = rf, !.fed = d1]
    BY <1>10, <1>15
  <2>2. d1 \in Nat /\ e1 \in {"NONE", "FRAME_TOO_LARGE", "ZLIB"} /\ e1 # "ZLIB"
    BY <1>4, <1>15
  <2>3. e1 = "FRAME_TOO_LARGE" => c.len > MaxBuf \/ y > MaxBuf
    BY <1>3, <1>4, <1>8, <1>9, <1>15
  <2>4. e1 = "NONE" => c.len <= MaxBuf /\ y <= MaxBuf /\ out = y
    BY <1>3, <1>4, <1>8, <1>9, <1>15
  <2> HIDE DEF e1, out, ok, hit
  <2>5. rf \in FrameState /\ rf.off = off /\ rf.state = "NV" /\ rf.error_code = e1 /\ rf.inflated = out
    BY <1>4, <1>11, <2>2 DEF FrameState
  <2> HIDE DEF rf, d1
  <2>6 Onward(v, r, rf, v.k, d1)
    <3>1. Onward(v, [v EXCEPT !.f = rf, !.fed = d1], rf, v.k, d1)
      BY <1>1, <1>4, <2>2, <2>5, Rework
    <3>2. QED
      BY <2>1, <3>1, Zenon
  <2>7. r \in WorkType /\ r.k = v.k /\ r.log = v.log /\ r.f = rf /\ r.fed = d1
    BY <2>6 DEF Onward
  <2>8. ~(c.nv < c.bad /\ c.bad <= off + n)
    BY <1>3, <1>4, <1>7, <1>9, <1>15 DEF ok, hit
  <2>9. QED
    BY <2>2, <2>3, <2>4, <2>5, <2>7, <2>8 DEF d1
<1>16. QED
  BY <1>13, <1>14, <1>15

\* The bytes in front of the block.
LEMMA PreNvTurn ==
  ASSUME stream \in Seq(Frames), NEW R, NEW v, Within(stream, R, v),
         v.k > 0 \/ v.f.off = Current(v).len, NEW u, u = ReadPreNv(v)
  PROVE  /\ Within(stream, R, u) /\ u.log = v.log /\ u.k <= v.k
         /\ u.f.state = "PRE_NV" => u.k = 0 /\ v.k > 0 /\ u.f.off < Current(v).len
<1> DEFINE len == Len(v.log)
           c   == stream[len + 1]
           off == v.f.off
           n   == Least(c.nv - off, Least(v.k, c.len - off))
<1>1. Base(stream, R, v) /\ v \in WorkType /\ len < Len(stream)
  BY DEF Within, Base
<1>2. /\ v.f \in FrameState /\ off \in Nat /\ v.k \in Nat /\ v.fed \in Nat /\ len \in Nat
      /\ HeadLen \in Nat \ {0} /\ Len(stream) \in Nat /\ MaxBuf \in Nat
  BY <1>1, WorkFacts, InboundAssumption
<1>3. CASE v.f.state # "PRE_NV"
  BY <1>2, <1>3 DEF ReadPreNv
<1>4. CASE v.f.state = "PRE_NV"
  <2>1. Current(v) = c /\ c \in Frames /\ len + 1 \in 1..Len(stream)
    BY <1>1, CurrentFacts DEF Current
  <2>2. /\ c.ctrl \in BOOLEAN /\ c.nv \in Int /\ c.nv >= -1 /\ c.len \in Nat
        /\ c.bad \in Nat /\ c.bad <= c.len /\ c.grow \in Nat
    BY <2>1, FrameFacts
  <2>3. InFrame(v.f, c) /\ off <= c.len
    BY DEF Within
  <2>4. HasBlock(c) /\ BlockFrame(v.f, c)
    BY <1>4, <2>2, <2>3 DEF InFrame, PlainFrame, HasBlock
  <2>5. /\ c.nv \in Nat /\ off <= c.nv /\ c.ctrl /\ c.nv < c.len /\ v.f.inflated = 0
        /\ v.f.error_code = IF c.len > MaxBuf THEN "FRAME_TOO_LARGE" ELSE "NONE"
    BY <1>4, <2>2, <2>4 DEF HasBlock, BlockFrame
  <2>6. v.k > 0
    BY <1>2, <2>1, <2>2, <2>5
  <2>7. n \in Nat /\ n <= v.k /\ off + n <= c.nv /\ (off + n # c.nv => n = v.k)
    <3> HIDE DEF c
    <3> QED
      BY <1>2, <2>2, <2>5 DEF Least
  <2> DEFINE st == IF off + n = c.nv THEN "NV" ELSE "PRE_NV"
             uf == [v.f EXCEPT !.off = off + n, !.state = st]
             k1 == v.k - n
  <2>8. u = [v EXCEPT !.f = uf, !.k = k1]
    BY <1>4, <2>1 DEF ReadPreNv
  <2> HIDE DEF c, n
  <2>9. k1 \in Nat /\ off + n \in Nat /\ st \in {"PRE_NV", "NV"}
    BY <1>2, <2>7
  <2> HIDE DEF st
  <2>10. /\ uf \in FrameState /\ uf.off = off + n /\ uf.state = st
         /\ uf.error_code = v.f.error_code /\ uf.inflated = v.f.inflated
    BY <1>2, <2>9 DEF FrameState
  <2> HIDE DEF uf, k1
  <2>11. Onward(v, u, uf, k1, v.fed)
    <3>1. Onward(v, [v EXCEPT !.f = uf, !.k = k1], uf, k1, v.fed)
      BY <1>1, <1>2, <2>9, <2>10, Rework
    <3>2. QED
      BY <2>8, <3>1, Zenon
  <2>12. u \in WorkType /\ u.f = uf /\ u.k = k1 /\ u.log = v.log /\ u.fed = v.fed
    BY <2>11 DEF Onward
  <2>13. /\ u.f.off = off + n /\ u.k = v.k - n /\ u.f.state = st
         /\ u.f.error_code = v.f.error_code /\ u.f.inflated = 0
    BY <2>5, <2>10, <2>12 DEF k1
  <2>14. st = IF off + n = c.nv THEN "NV" ELSE "PRE_NV"
    BY DEF st
  <2>15. BlockFrame(u.f, c)
    <3>1. CASE st = "NV"
      <4>1. off + n = c.nv
        BY <2>14, <3>1
      <4>2. Inflated(c, c.nv) = 0
        <5>1. c.nv - c.nv = 0 /\ 0 * c.grow = 0
          BY <2>2
        <5>2. QED
          BY <5>1, Zenon DEF Inflated
      <4>3. QED
        BY <1>2, <2>2, <2>5, <2>13, <3>1, <4>1, <4>2 DEF BlockFrame
    <3>2. CASE st = "PRE_NV"
      BY <2>5, <2>7, <2>13, <3>2 DEF BlockFrame
    <3>3. QED
      BY <2>9, <3>1, <3>2
  <2>16. /\ \A i \in 1..len : v.log[i] = Reference(stream[i])
         /\ R \in Nat /\ R <= Prefix(stream, Len(stream))
         /\ InStep(stream, v)
    BY <1>1 DEF Base
  <2>17. InStep(stream, u)
    <3>1. BlockBytes(stream, len) \in Nat
      BY <1>1, <1>2, BlockBytesFacts
    <3> SUFFICES ASSUME \A i \in 1..len : stream[i].bad = 0, c.bad = 0
                 PROVE  v.fed = BlockBytes(stream, len)
                                + IF st = "NV" THEN (off + n) - c.nv ELSE 0
      <4>1. Len(u.log) = len /\ u.f.state = st /\ u.f.off = off + n /\ u.fed = v.fed
        BY <2>12, <2>13
      <4>2. st # "HEAD"
        BY <2>9
      <4>3. QED
        BY <4>1, <4>2 DEF InStep, c
    <3>2. v.fed = BlockBytes(stream, len)
      BY <1>4, <2>16, <3>1 DEF InStep, c
    <3>3. st = "NV" => (off + n) - c.nv = 0
      BY <1>2, <2>2, <2>7, <2>14
    <3>4. QED
      BY <3>1, <3>2, <3>3
  <2>18. Base(stream, R, u)
    BY <1>1, <1>2, <2>12, <2>16, <2>17 DEF Base
  <2>19. Prefix(stream, Len(u.log)) + HeadLen + u.f.off + u.k = R
    <3>1. Prefix(stream, len) \in Nat
      BY <1>1, <1>2, PrefixFacts
    <3>2. Len(u.log) = len
      BY <2>12
    <3>3. Prefix(stream, len) + HeadLen + off + v.k = R
      BY DEF Within
    <3> HIDE DEF len
    <3>4. QED
      BY <1>2, <2>7, <2>13, <3>1, <3>2, <3>3
  <2>20. InFrame(u.f, c)
    BY <2>4, <2>15 DEF InFrame
  <2>21. u.f.state # "HEAD" /\ u.f.off <= c.len
    BY <1>2, <2>2, <2>5, <2>7, <2>9, <2>13
  <2>22. Within(stream, R, u)
    <3>1. Len(u.log) = len /\ c = stream[len + 1]
      BY <2>12 DEF c
    <3>2. QED
      BY <1>1, <2>18, <2>19, <2>20, <2>21, <3>1 DEF Within
  <2>23. u.f.state = "PRE_NV" => u.k = 0 /\ u.f.off < c.len
    BY <1>2, <2>2, <2>5, <2>7, <2>13, <2>14
  <2>24. QED
    BY <1>2, <2>1, <2>6, <2>7, <2>12, <2>13, <2>22, <2>23
<1>5. QED
  BY <1>3, <1>4

\* A turn over the payload: it takes a byte if there is one to take.
LEMMA PayloadTurn ==
  ASSUME stream \in Seq(Frames), NEW R, NEW w, Within(stream, R, w),
         w.k > 0 \/ w.f.off = Current(w).len
  PROVE  /\ Good(stream, R, ReadPayload(w))
         /\ ReadPayload(w).k <= w.k
         /\ w.f.off < Current(w).len => ReadPayload(w).k < w.k
<1> DEFINE q == ReadPreNv(w)
           c == Current(q)
           n == IF q.f.state = "PRE_NV" THEN 0 ELSE Least(q.k, c.len - q.f.off)
           v == IF q.f.state = "NV" THEN Inflate(q, n)
                ELSE IF ~c.ctrl /\ q.f.state # "PAYLOAD_IGN"
                THEN [q EXCEPT !.f = [q.f EXCEPT !.given = q.f.given + n]] ELSE q
           t == [v EXCEPT !.f = [v.f EXCEPT !.off = v.f.off + n], !.k = v.k - n]
<1>1. ReadPayload(w) = IF t.f.off = c.len THEN Process(t) ELSE t
  BY DEF ReadPayload
<1> HIDE DEF q
<1>2. /\ Within(stream, R, q) /\ q.log = w.log /\ q.k <= w.k
      /\ q.f.state = "PRE_NV" => q.k = 0 /\ w.k > 0 /\ q.f.off < Current(w).len
  BY PreNvTurn DEF q
<1>3. c = Current(w)
  BY <1>2 DEF Current
<1> HIDE DEF c
<1>4. /\ q \in WorkType /\ Len(q.log) < Len(stream) /\ q.f.off <= c.len /\ InFrame(q.f, c)
      /\ Prefix(stream, Len(q.log)) + HeadLen + q.f.off + q.k = R
  BY <1>2 DEF Within, Base, Current, c
<1>5. /\ w \in WorkType /\ Prefix(stream, Len(w.log)) + HeadLen + w.f.off + w.k = R
      /\ w.f.off <= c.len
  BY <1>3 DEF Within, Base, Current
<1>6. c \in Frames /\ Current(q) = c
  BY <1>4, CurrentFacts DEF c
<1>7. c.ctrl \in BOOLEAN /\ c.nv \in Int /\ c.nv >= -1 /\ c.len \in Nat /\ c.allowed \in BOOLEAN
  BY <1>6, FrameFacts
<1>8. /\ q.f \in FrameState /\ q.f.off \in Nat /\ q.k \in Nat /\ q.f.given \in Nat
      /\ w.f.off \in Nat /\ w.k \in Nat /\ HeadLen \in Nat /\ q.fed \in Nat
      /\ Len(q.log) \in Nat /\ Len(stream) \in Nat
  BY <1>4, <1>5, WorkFacts, InboundAssumption
<1>9. /\ n \in Nat /\ n <= q.k /\ q.f.off + n <= c.len
      /\ q.f.state # "PRE_NV" => n = q.k \/ q.f.off + n = c.len
  BY <1>4, <1>7, <1>8 DEF Least
<1>10. w.f.off + w.k = q.f.off + q.k
  <2>1. Prefix(stream, Len(q.log)) \in Nat
    BY <1>4, <1>8, PrefixFacts
  <2> DEFINE P == Prefix(stream, Len(q.log))
  <2>2. P + HeadLen + q.f.off + q.k = P + HeadLen + w.f.off + w.k
    BY <1>2, <1>4, <1>5
  <2> HIDE DEF P
  <2>3. P \in Nat
    BY <2>1 DEF P
  <2>4. q.f.off \in Nat /\ q.k \in Nat /\ w.f.off \in Nat /\ w.k \in Nat /\ HeadLen \in Nat
    BY <1>8
  <2>5. QED
    BY ONLY <2>2, <2>3, <2>4
<1> HIDE DEF n
<1>11. /\ v \in WorkType /\ v.k = q.k /\ v.log = q.log
       /\ v.f.off = q.f.off /\ v.f.state = q.f.state
       /\ q.f.state # "NV" => v.fed = q.fed
       /\ q.f.state = "NV" /\ c.bad = 0 => v.fed = q.fed + n
       /\ InFrame([v.f EXCEPT !.off = q.f.off + n], c)
  <2>1. CASE q.f.state = "NV"
    <3>1. v = Inflate(q, n)
      BY <2>1
    <3> HIDE DEF v
    <3>2. QED
      BY <1>2, <1>6, <1>9, <2>1, <3>1, InflateTurn
  <2>2. CASE q.f.state # "NV" /\ ~c.ctrl /\ q.f.state # "PAYLOAD_IGN"
    <3> DEFINE vf == [q.f EXCEPT !.given = q.f.given + n]
               g  == [vf EXCEPT !.off = q.f.off + n]
    <3>1. v = [q EXCEPT !.f = vf]
      BY <2>2
    <3>2. q.f.given + n \in Nat /\ q.f.off + n \in Nat
      BY <1>8, <1>9
    <3>3. vf \in FrameState /\ vf.off = q.f.off /\ vf.state = q.f.state /\ vf.given = q.f.given + n
      BY <1>8, <3>2 DEF FrameState
    <3> HIDE DEF vf
    <3>4. g.off = q.f.off + n /\ g.state = q.f.state /\ g.given = q.f.given + n
      BY <3>2, <3>3 DEF FrameState
    <3>5. Onward(q, [q EXCEPT !.f = vf], vf, q.k, q.fed)
      BY <1>4, <1>8, <3>3, Rework
    <3>6. v \in WorkType /\ v.f = vf /\ v.k = q.k /\ v.log = q.log /\ v.fed = q.fed
      BY <3>1, <3>5 DEF Onward
    <3> HIDE DEF v, g
    <3>7. InFrame(g, c)
      BY <1>4, <1>7, <1>8, <1>9, <2>2, <3>4 DEF InFrame, HasBlock, PlainFrame
    <3>8. QED
      BY <2>2, <3>3, <3>6, <3>7 DEF g
  <2>3. CASE q.f.state # "NV" /\ ~(~c.ctrl /\ q.f.state # "PAYLOAD_IGN")
    <3> DEFINE g == [q.f EXCEPT !.off = q.f.off + n]
    <3>1. v = q
      BY <2>3
    <3>2. q.f.off + n \in Nat
      BY <1>8, <1>9
    <3>3. /\ g.off = q.f.off + n /\ g.state = q.f.state /\ g.given = q.f.given
          /\ g.buflen = q.f.buflen /\ g.error_code = q.f.error_code /\ g.inflated = q.f.inflated
      BY <1>8, <3>2 DEF FrameState
    <3> HIDE DEF v, g
    <3>4. InFrame(g, c)
      <4>1. CASE HasBlock(c)
        <5>1. q.f.state = "PRE_NV" /\ n = 0
          BY <1>4, <2>3, <4>1 DEF InFrame, BlockFrame, n
        <5>2. g.off = q.f.off
          BY <1>8, <3>3, <5>1
        <5>3. QED
          BY <1>4, <3>3, <4>1, <5>1, <5>2 DEF InFrame, BlockFrame
      <4>2. CASE ~HasBlock(c)
        BY <1>4, <1>7, <2>3, <3>3, <4>2 DEF InFrame, PlainFrame, HasBlock
      <4>3. QED
        BY <4>1, <4>2
    <3>5. QED
      BY <1>4, <2>3, <3>1, <3>4 DEF g
  <2>4. QED
    BY <2>1, <2>2, <2>3
<1> HIDE DEF v
<1>12. /\ Within(stream, R, t) /\ t.f.off = q.f.off + n /\ t.k = q.k - n /\ t.log = q.log
       /\ t.f.state = q.f.state
  <2>1. Dealt(q, n, v)
    BY <1>6, <1>9, <1>11 DEF Dealt
  <2>2. Within(stream, R, q)
    BY <1>2
  <2>3. Within(stream, R, t) /\ Counted(q, n, t)
    BY ONLY stream \in Seq(Frames), <2>1, <2>2, Advance, Zenon
  <2> HIDE DEF t
  <2>4. QED
    BY <2>3 DEF Counted
<1> HIDE DEF t
<1>13. Current(t) = c
  BY <1>12 DEF Current, c
<1>14. t.k <= w.k /\ (w.f.off < c.len => t.k < w.k)
  <2>1. t.k <= w.k /\ t.f.off + t.k = w.f.off + w.k
    BY <1>2, <1>8, <1>9, <1>10, <1>12
  <2>2. ASSUME w.f.off < c.len PROVE t.k < w.k
    <3>1. w.k > 0
      BY <1>3, <1>7, <1>8, <2>2
    <3>2. CASE q.f.state = "PRE_NV"
      BY <1>2, <1>8, <1>9, <1>12, <3>1, <3>2
    <3>3. CASE q.f.state # "PRE_NV"
      BY <1>2, <1>7, <1>8, <1>9, <1>10, <1>12, <2>2, <3>1, <3>3
    <3>4. QED
      BY <3>2, <3>3
  <2>3. QED
    BY <2>1, <2>2
<1>15. CASE t.f.off = c.len
  <2>1. Between(stream, R, Process(t)) /\ Process(t).k = t.k
    BY <1>12, <1>13, <1>15, FinishTurn
  <2>2. QED
    BY <1>1, <1>3, <1>14, <1>15, <2>1 DEF Good
<1>16. CASE t.f.off # c.len
  <2>1. t.f.off < c.len
    <3>1. t.f.off = q.f.off + n /\ q.f.off + n <= c.len
      BY <1>9, <1>12
    <3>2. t.f.off \in Nat /\ t.f.off <= c.len
      BY ONLY <1>8, <1>9, <3>1
    <3>3. QED
      BY ONLY <1>7, <1>16, <3>2
  <2>2. Good(stream, R, t)
    BY <1>12, <1>13, <2>1 DEF Good, Current
  <2>3. QED
    BY <1>1, <1>3, <1>14, <1>16, <2>2
<1>17. QED
  BY <1>15, <1>16

-----------------------------------------------------------------------------
(* The loop.                                                               *)

\* A turn keeps Good, and takes a byte if there is one.
LEMMA OneTurn ==
  ASSUME stream \in Seq(Frames), NEW R, NEW w, Good(stream, R, w)
  PROVE  /\ Good(stream, R, Turn(w))
         /\ w.k = 0 => Turn(w) = w
         /\ w.k # 0 => Turn(w).k < w.k
<1>1. w \in WorkType
  BY DEF Good, Between, Within, Base
<1>2. w.k \in Nat
  BY <1>1, WorkFacts
<1>3. CASE Between(stream, R, w)
  <2>1. w.f.state = "HEAD"
    BY <1>3 DEF Between
  <2>2. CASE w.k = 0
    BY <1>2, <2>1, <2>2 DEF Turn
  <2>3. CASE w.k # 0
    <3> DEFINE h == ReadHead(w)
    <3>1. w.k > 0
      BY <1>2, <2>3
    <3>2. (Between(stream, R, h) \/ Within(stream, R, h)) /\ h.k < w.k
      BY <1>3, <3>1, HeadTurn
    <3>3. Turn(w) = IF Drained(h) THEN h ELSE ReadPayload(h)
      BY <2>1, <2>3 DEF Turn
    <3> HIDE DEF h
    <3>4. h \in WorkType
      BY <3>2 DEF Between, Within, Base
    <3>5. h.k \in Nat
      BY <3>4, WorkFacts
    <3>6. CASE Between(stream, R, h)
      <4>1. Drained(h)
        BY <3>6 DEF Between, Drained
      <4>2. QED
        BY <2>3, <3>2, <3>3, <3>6, <4>1 DEF Good
    <3>7. CASE Within(stream, R, h)
      <4>1. /\ h.f.state # "HEAD" /\ Len(h.log) < Len(stream)
            /\ h.f.off <= Current(h).len
        BY <3>7 DEF Within, Current
      <4>2. h.f.off \in Nat /\ Current(h).len \in Nat
        <5>1. Current(h) \in Frames
          BY <3>4, <4>1, CurrentFacts
        <5>2. QED
          BY <3>4, <5>1, WorkFacts, FrameFacts
      <4>3. CASE Drained(h)
        <5>1. h.f.off < Current(h).len
          BY <4>1, <4>3 DEF Drained
        <5>2. Good(stream, R, h)
          BY <3>7, <5>1 DEF Good, Current
        <5>3. QED
          BY <2>3, <3>2, <3>3, <4>3, <5>2
      <4>4. CASE ~Drained(h)
        <5>1. h.k > 0 \/ h.f.off = Current(h).len
          BY <3>5, <4>1, <4>2, <4>4 DEF Drained
        <5>2. Good(stream, R, ReadPayload(h)) /\ ReadPayload(h).k <= h.k
          BY <3>7, <5>1, PayloadTurn
        <5>3. ReadPayload(h) \in WorkType
          BY <5>2 DEF Good, Between, Within, Base
        <5>4. ReadPayload(h).k \in Nat
          BY <5>3, WorkFacts
        <5>5. ReadPayload(h).k < w.k
          BY ONLY <1>2, <3>2, <3>5, <5>2, <5>4
        <5>6. QED
          BY <2>3, <3>3, <4>4, <5>2, <5>5
      <4>5. QED
        BY <4>3, <4>4
    <3>8. QED
      BY <3>2, <3>6, <3>7
  <2>4. QED
    BY <2>2, <2>3
<1>4. CASE Within(stream, R, w) /\ w.f.off < stream[Len(w.log) + 1].len
  <2>1. w.f.state # "HEAD" /\ w.f.off < Current(w).len
    BY <1>4 DEF Within, Current
  <2>2. Turn(w) = IF Drained(w) THEN w ELSE ReadPayload(w)
    BY <2>1 DEF Turn
  <2>3. Drained(w) <=> w.k = 0
    BY <2>1 DEF Drained
  <2>4. CASE w.k = 0
    BY <2>2, <2>3, <2>4
  <2>5. CASE w.k # 0
    <3>1. w.k > 0
      BY <1>2, <2>5
    <3>2. Good(stream, R, ReadPayload(w)) /\ ReadPayload(w).k < w.k
      BY <1>4, <2>1, <3>1, PayloadTurn
    <3>3. QED
      BY <2>2, <2>3, <2>5, <3>2
  <2>6. QED
    BY <2>4, <2>5
<1>5. QED
  BY <1>3, <1>4 DEF Good

RunTo(w, n, f) == f = [i \in 0..n |-> IF i = 0 THEN w ELSE Turn(f[i - 1])]

LEMMA RunExists ==
  ASSUME NEW w, NEW n \in Nat
  PROVE  \E f : RunTo(w, n, f)
<1> DEFINE T == {k \in Nat : ~\E f : RunTo(w, k, f)}
<1> SUFFICES ASSUME T # {} PROVE FALSE
  OBVIOUS
<1>1. PICK m \in T : \A k \in T : ~(k < m)
  <2>1. T \subseteq Nat
    OBVIOUS
  <2> HIDE DEF T
  <2>2. QED
    BY <2>1, LeastNumber
<1>2. m # 0
  <2> DEFINE f == [i \in 0..0 |-> w]
  <2>1. f = [i \in 0..0 |-> IF i = 0 THEN w ELSE Turn(f[i - 1])]
    OBVIOUS
  <2>2. RunTo(w, 0, f)
    BY <2>1 DEF RunTo
  <2>3. QED
    BY <2>2
<1>3. m \in Nat /\ m - 1 \in Nat /\ m - 1 < m
  BY <1>1, <1>2
<1>4. PICK f : RunTo(w, m - 1, f)
  BY <1>1, <1>3
<1>5. f = [i \in 0..(m - 1) |-> IF i = 0 THEN w ELSE Turn(f[i - 1])]
  BY <1>4 DEF RunTo
<1> DEFINE g == [i \in 0..m |-> IF i = m THEN Turn(f[m - 1]) ELSE f[i]]
<1>6. ASSUME NEW i \in 0..m PROVE g[i] = IF i = 0 THEN w ELSE Turn(g[i - 1])
  <2>1. CASE i = m
    <3>1. g[m - 1] = f[m - 1]
      BY <1>3
    <3>2. QED
      BY <2>1, <3>1, <1>2
  <2>2. CASE i # m
    <3>1. i \in 0..(m - 1)
      BY <2>2, <1>3
    <3>2. f[i] = IF i = 0 THEN w ELSE Turn(f[i - 1])
      BY <3>1, <1>5
    <3>3. i # 0 => i - 1 \in 0..m /\ i - 1 # m
      BY <1>3, <3>1
    <3>4. QED
      BY <2>2, <3>2, <3>3
  <2>3. QED
    BY <2>1, <2>2
<1>7. g = [i \in 0..m |-> IF i = 0 THEN w ELSE Turn(g[i - 1])]
  BY <1>6
<1>8. RunTo(w, m, g)
  BY <1>7 DEF RunTo
<1>9. QED
  BY <1>1, <1>8

\* The loop keeps Good and leaves no byte behind.
LEMMA LoopGood ==
  ASSUME stream \in Seq(Frames), NEW R, NEW w, Good(stream, R, w)
  PROVE  Good(stream, R, Loop(w)) /\ Loop(w).k = 0
<1> DEFINE n == w.k
<1>1. n \in Nat
  <2>1. w \in WorkType
    BY DEF Good, Between, Within, Base
  <2>2. QED
    BY <2>1, WorkFacts
<1> DEFINE run == CHOOSE f : RunTo(w, n, f)
<1>2. RunTo(w, n, run)
  BY <1>1, RunExists
<1>3. Loop(w) = run[n]
  BY Zenon DEF Loop, RunTo
<1> HIDE DEF run, n
<1>4. \A i \in 0..n : run[i] = IF i = 0 THEN w ELSE Turn(run[i - 1])
  BY <1>2 DEF RunTo
<1> DEFINE T == {k \in 0..n : ~(Good(stream, R, run[k]) /\ run[k].k <= n - k)}
<1>5. T = {}
  <2> SUFFICES ASSUME T # {} PROVE FALSE
    OBVIOUS
  <2>1. PICK m \in T : \A k \in T : ~(k < m)
    <3>1. T \subseteq Nat
      BY <1>1
    <3> HIDE DEF T
    <3>2. QED
      BY <3>1, LeastNumber
  <2>2. m # 0
    <3>1. run[0] = w
      BY <1>1, <1>4
    <3>2. QED
      BY <1>1, <3>1 DEF n
  <2>3. m \in 1..n /\ m - 1 \in 0..n /\ m - 1 < m
    BY <1>1, <2>2
  <2>4. Good(stream, R, run[m - 1]) /\ run[m - 1].k <= n - (m - 1)
    BY <2>1, <2>3
  <2>5. run[m] = Turn(run[m - 1])
    BY <1>4, <2>2, <2>3
  <2> DEFINE a == run[m - 1]
  <2>6. a \in WorkType
    BY <2>4 DEF Good, Between, Within, Base
  <2>7. a.k \in Nat
    BY <2>6, WorkFacts
  <2>8. /\ Good(stream, R, Turn(a))
        /\ a.k = 0 => Turn(a) = a
        /\ a.k # 0 => Turn(a).k < a.k
    BY <2>4, OneTurn
  <2>9. Turn(a) \in WorkType
    BY <2>8 DEF Good, Between, Within, Base
  <2>10. Turn(a).k \in Nat
    BY <2>9, WorkFacts
  <2>11. Turn(a).k <= n - m
    <3> HIDE DEF a
    <3>1. a.k <= n - (m - 1)
      BY <2>4 DEF a
    <3>2. QED
      BY ONLY <1>1, <2>3, <2>7, <2>8, <2>10, <3>1
  <2>12. QED
    BY <2>1, <2>5, <2>8, <2>11
<1>6. Good(stream, R, run[n]) /\ run[n].k <= 0
  BY <1>1, <1>5
<1>7. run[n] \in WorkType
  BY <1>6 DEF Good, Between, Within, Base
<1>8. run[n].k \in Nat
  BY <1>7, WorkFacts
<1>9. QED
  BY <1>3, <1>6, <1>8

-----------------------------------------------------------------------------
(* The specification.                                                      *)

LEMMA StreamsType ==
  ASSUME stream \in Streams
  PROVE  stream \in Seq(Frames)
  BY InboundAssumption DEF Frames

\* Nothing received yet.
LEMMA InboundStart == InboundInit => InboundInv
<1> SUFFICES ASSUME InboundInit PROVE InboundInv
  OBVIOUS
<1> DEFINE v == Work(0)
<1>1. stream \in Seq(Frames) /\ stream \in Streams
  BY StreamsType DEF InboundInit
<1>2. HeadLen \in Nat \ {0}
  BY InboundAssumption
<1>3. /\ v = [f |-> Reset, k |-> 0, log |-> <<>>, fed |-> 0] /\ rcvd = 0
  BY DEF InboundInit, Work
<1>4. Reset \in FrameState
  BY <1>2 DEF Reset, FrameState
<1>5. v \in WorkType /\ v.f = Reset /\ v.k = 0 /\ v.log = <<>> /\ v.fed = 0 /\ Len(v.log) = 0
  <2> DEFINE L == Seq({"DATA", "FRAME", "INVALID", "TOO_LARGE"} \X Nat)
  <2>1. <<>> \in L /\ Len(<<>>) = 0
    OBVIOUS
  <2>2. v.f = Reset /\ v.k = 0 /\ v.log = <<>> /\ v.fed = 0
    BY <1>3
  <2>3. v \in [f : FrameState, k : Nat, log : L, fed : Nat]
    <3> HIDE DEF L, v
    <3> QED
      BY <1>3, <1>4, <2>1
  <2>4. QED
    BY <2>1, <2>2, <2>3 DEF WorkType
<1> HIDE DEF v
<1>6. /\ v.f.state = "HEAD" /\ v.f.headbufoff = 0 /\ v.f.off = 0 /\ v.f.buflen = 0
      /\ v.f.error_code = "NONE" /\ v.f.inflated = 0 /\ v.f.given = 0
  BY <1>5 DEF Reset
<1>7. Prefix(stream, 0) = 0 /\ BlockBytes(stream, 0) = 0
  BY <1>1, PrefixFacts, BlockBytesFacts
<1>8. Len(stream) \in Nat /\ Prefix(stream, Len(stream)) \in Nat
  <2>1. Len(stream) \in Nat
    BY <1>1
  <2>2. QED
    BY <1>1, <2>1, PrefixFacts
<1>9. InStep(stream, v)
  BY <1>5, <1>6, <1>7 DEF InStep
<1>10. Base(stream, rcvd, v)
  BY <1>3, <1>5, <1>8, <1>9 DEF Base
<1>11. Between(stream, rcvd, v)
  BY <1>2, <1>3, <1>5, <1>6, <1>7, <1>10 DEF Between
<1>12. QED
  BY <1>1, <1>11 DEF InboundInv, Good, v

\* More bytes in hand: the same, for a count that is larger by as many.
LEMMA MoreBytes ==
  ASSUME stream \in Seq(Frames), rcvd \in Nat, Good(stream, rcvd, Work(0)), NEW k \in Nat,
         rcvd + k <= Prefix(stream, Len(stream))
  PROVE  Good(stream, rcvd + k, Work(k))
<1> DEFINE v == Work(0)
           w == Work(k)
           R == rcvd + k
<1>1. v \in WorkType /\ v.k = 0
  BY DEF Good, Between, Within, Base, Work
<1>2. w.f = v.f /\ w.log = v.log /\ w.fed = v.fed /\ w.k = k
  BY DEF Work
<1>3. w \in WorkType
  BY <1>1 DEF Work, WorkType
<1>4. v.k + k = w.k /\ R \in Nat /\ v.f.headbufoff \in Nat /\ v.f.off \in Nat /\ Len(v.log) \in Nat
  BY <1>1, <1>2, WorkFacts, InboundAssumption
<1>5. HeadLen \in Nat /\ Len(stream) \in Nat
  BY InboundAssumption
<1> HIDE DEF v, w
<1>6. Good(stream, rcvd, v)
  BY DEF v
<1>7. InStep(stream, v) => InStep(stream, w)
  BY <1>2 DEF InStep
<1>8. Base(stream, rcvd, v) => Base(stream, R, w)
  BY <1>2, <1>3, <1>4, <1>7 DEF Base
<1>9. Len(v.log) <= Len(stream) => Prefix(stream, Len(v.log)) \in Nat
  BY <1>4, <1>5, PrefixFacts
<1>10. CASE Between(stream, rcvd, v)
  <2>1. Prefix(stream, Len(w.log)) + w.f.headbufoff + w.k = R
    <3>1. Prefix(stream, Len(v.log)) \in Nat
      BY <1>9, <1>10 DEF Between, Base
    <3>2. Prefix(stream, Len(v.log)) + v.f.headbufoff + v.k = rcvd
      BY <1>10 DEF Between
    <3>3. QED
      BY <1>1, <1>2, <1>4, <3>1, <3>2
  <2>2. QED
    BY <1>2, <1>8, <1>10, <2>1 DEF Good, Between, R, w
<1>11. CASE Within(stream, rcvd, v) /\ v.f.off < stream[Len(v.log) + 1].len
  <2>1. Prefix(stream, Len(w.log)) + HeadLen + w.f.off + w.k = R
    <3>1. Prefix(stream, Len(v.log)) \in Nat
      BY <1>9, <1>11 DEF Within, Base
    <3>2. Prefix(stream, Len(v.log)) + HeadLen + v.f.off + v.k = rcvd
      BY <1>11 DEF Within
    <3>3. QED
      BY <1>1, <1>2, <1>4, <1>5, <3>1, <3>2
  <2>2. QED
    BY <1>2, <1>8, <1>11, <2>1 DEF Good, Within, R, w
<1>12. QED
  BY <1>6, <1>10, <1>11 DEF Good

LEMMA InboundStep == InboundInv /\ [InboundNext]_inboundVars => InboundInv'
<1> SUFFICES ASSUME InboundInv, [InboundNext]_inboundVars PROVE InboundInv'
  OBVIOUS
<1>1. stream \in Streams /\ stream \in Seq(Frames) /\ Good(stream, rcvd, Work(0))
  BY StreamsType DEF InboundInv
<1>2. CASE UNCHANGED inboundVars
  BY <1>2, <1>1 DEF inboundVars, InboundInv, Work
<1>3. ASSUME NEW k \in 1..MaxChunk, MemRecv(k) PROVE InboundInv'
  <2>1. k \in Nat
    BY InboundAssumption
  <2>2. rcvd \in Nat
    BY <1>1 DEF Good, Between, Within, Base
  <2>3. rcvd + k <= Prefix(stream, Len(stream))
    BY <1>3 DEF MemRecv
  <2>4. Good(stream, rcvd + k, Work(k))
    BY <1>1, <2>1, <2>2, <2>3, MoreBytes
  <2> DEFINE w == Loop(Work(k))
  <2>5. Good(stream, rcvd + k, w) /\ w.k = 0
    BY <1>1, <2>4, LoopGood
  <2>6. iframe' = w.f /\ log' = w.log /\ fed' = w.fed /\ rcvd' = rcvd + k /\ stream' = stream
    BY <1>3 DEF MemRecv
  <2> HIDE DEF w
  <2>7. w \in WorkType
    BY <2>5 DEF Good, Between, Within, Base
  <2>8. w = [f |-> w.f, k |-> w.k, log |-> w.log, fed |-> w.fed]
    BY <2>7 DEF WorkType
  <2>9. Work(0)' = [f |-> iframe', k |-> 0, log |-> log', fed |-> fed']
    BY DEF Work
  <2>10. Work(0)' = w
    BY <2>5, <2>6, <2>8, <2>9
  <2>11. Good(stream', rcvd', Work(0)')
    BY <2>5, <2>6, <2>10
  <2>12. QED
    BY <1>1, <2>6, <2>11 DEF InboundInv
<1>4. QED
  BY <1>2, <1>3 DEF InboundNext

LEMMA InboundInvariant == InboundSpec => []InboundInv
  BY InboundStart, InboundStep, PTL DEF InboundSpec

-----------------------------------------------------------------------------
(* The theorems.                                                           *)

\* Every frame the peer sends is processed as if it had arrived in one piece,
\* and in order, wherever the calls of mem_recv cut the stream: for every header
\* length, limit, stream of frames and sequence of calls.
THEOREM FramesWhole == InboundSpec => []ChunkingInvisible
<1>1. InboundInv => ChunkingInvisible
  <2> SUFFICES ASSUME InboundInv PROVE ChunkingInvisible
    OBVIOUS
  <2>1. Work(0).log = log
    BY DEF Work
  <2>2. \A i \in 1..Len(Work(0).log) : Work(0).log[i] = Reference(stream[i])
    BY DEF InboundInv, Good, Between, Within, Base
  <2>3. QED
    BY <2>1, <2>2 DEF ChunkingInvisible
<1>2. QED
  BY <1>1, InboundInvariant, PTL

\* mem_recv processes a frame in the call that brings its last byte: the bytes
\* received lie between the end of the frames processed and the end of the next.
THEOREM FramesOnTime == InboundSpec => []NoFrameHeldBack
<1>1. InboundInv => NoFrameHeldBack
  <2> SUFFICES ASSUME InboundInv PROVE NoFrameHeldBack
    OBVIOUS
  <2> DEFINE v == Work(0)
             n == Len(log)
  <2>1. v.log = log /\ v.k = 0
    BY DEF Work
  <2>2. stream \in Seq(Frames) /\ Good(stream, rcvd, v)
    BY StreamsType DEF InboundInv
  <2>3. v \in WorkType /\ n <= Len(stream) /\ rcvd \in Nat
    BY <2>1, <2>2 DEF Good, Between, Within, Base
  <2>4. n \in Nat /\ v.f.headbufoff \in Nat /\ v.f.off \in Nat /\ HeadLen \in Nat /\ Len(stream) \in Nat
    BY <2>1, <2>2, <2>3, WorkFacts, InboundAssumption
  <2>5. Prefix(stream, n) \in Nat
    BY <2>2, <2>3, <2>4, PrefixFacts
  <2>6. n < Len(stream) => /\ Prefix(stream, n + 1) = Prefix(stream, n) + HeadLen + stream[n + 1].len
                           /\ stream[n + 1].len \in Nat
    <3> SUFFICES ASSUME n < Len(stream)
                 PROVE  /\ Prefix(stream, n + 1) = Prefix(stream, n) + HeadLen + stream[n + 1].len
                        /\ stream[n + 1].len \in Nat
      OBVIOUS
    <3>1. n + 1 \in 1..Len(stream) /\ (n + 1) - 1 = n
      BY <2>4
    <3>2. stream[n + 1] \in Frames
      BY <2>2, <3>1
    <3>3. QED
      BY <2>2, <3>1, <3>2, PrefixFacts, FrameFacts
  <2>7. CASE Between(stream, rcvd, v)
    <3>1. v.f.headbufoff < HeadLen /\ Prefix(stream, n) + v.f.headbufoff = rcvd
      BY <2>1, <2>4, <2>5, <2>7 DEF Between
    <3>2. QED
      BY <2>4, <2>5, <2>6, <3>1 DEF NoFrameHeldBack
  <2>8. CASE Within(stream, rcvd, v) /\ v.f.off < stream[Len(v.log) + 1].len
    <3>1. v.f.off < stream[n + 1].len /\ n < Len(stream) /\ Prefix(stream, n) + HeadLen + v.f.off = rcvd
      BY <2>1, <2>4, <2>5, <2>8 DEF Within
    <3> HIDE DEF v
    <3>2. QED
      BY <2>4, <2>5, <2>6, <3>1 DEF NoFrameHeldBack
  <2>9. QED
    BY <2>2, <2>7, <2>8 DEF Good
<1>2. QED
  BY <1>1, InboundInvariant, PTL

\* Between frames the inflater has consumed every byte of every header block so
\* far, those of frames above the limit included: the zlib context that all
\* frames share is where the peer's deflater left it.
THEOREM ContextInStep == InboundSpec => []InflaterInStep
<1>1. InboundInv => InflaterInStep
  <2> SUFFICES ASSUME InboundInv, iframe.state = "HEAD",
                      \A i \in 1..Len(log) : stream[i].bad = 0
               PROVE  fed = BlockBytes(stream, Len(log))
    BY DEF InflaterInStep, BlockBytes
  <2> DEFINE v == Work(0)
             n == Len(log)
  <2>1. v.log = log /\ v.fed = fed /\ v.f = iframe
    BY DEF Work
  <2>2. stream \in Seq(Frames) /\ v \in WorkType /\ InStep(stream, v) /\ n <= Len(stream)
    BY <2>1, StreamsType DEF InboundInv, Good, Between, Within, Base
  <2>3. n \in Nat /\ Len(stream) \in Nat
    BY <2>1, <2>2, WorkFacts
  <2>4. BlockBytes(stream, n) \in Nat
    BY <2>2, <2>3, BlockBytesFacts
  <2> HIDE DEF v
  <2>5. QED
    BY <2>1, <2>2, <2>4 DEF InStep
<1>2. QED
  BY <1>1, InboundInvariant, PTL
=============================================================================
