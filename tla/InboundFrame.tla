----------------------------- MODULE InboundFrame -----------------------------
(***************************************************************************)
(* spdylay_session_mem_recv as a machine over bytes: the transport hands   *)
(* over the stream of the peer in pieces of any length, frame boundaries   *)
(* fall anywhere, and name/value header blocks are inflated as they come.  *)
(* A definition marked `mutant' is a plausible bug in the one after it.    *)
(***************************************************************************)
EXTENDS Integers, Sequences

CONSTANTS
  HeadLen,   \* SPDYLAY_HEAD_LEN
  MaxBuf,    \* session->max_recv_ctrl_frame_buf
  Streams,   \* what the peer may send: sequences of frames
  MaxChunk   \* bound: bytes per call

(* ctrl: a control frame.  nv: bytes of payload before the header block, -1 *)
(* if the frame has none.  len: payload length.  bad: the payload byte at   *)
(* which inflate fails, 0 if none.  grow: inflated bytes per byte.          *)
(* allowed: spdylay_session_check_data_recv_allowed.                        *)
FrameType == [ctrl : BOOLEAN, nv : Int, len : Nat, bad : Nat, grow : Nat, allowed : BOOLEAN]

ASSUME InboundAssumption ==
  /\ HeadLen \in Nat \ {0} /\ MaxBuf \in Nat /\ MaxChunk \in Nat \ {0}
  /\ Streams \subseteq Seq({c \in FrameType : c.nv >= -1 /\ c.bad <= c.len})

VARIABLES
  stream,   \* the frames the peer sends
  iframe,   \* session->iframe
  rcvd,     \* bytes received so far
  log,      \* history: how each frame was processed
  fed       \* history: bytes the inflater has consumed

inboundVars == <<stream, iframe, rcvd, log, fed>>

\* spdylay_inbound_frame_reset
Reset == [state |-> "HEAD", headbufoff |-> 0, off |-> 0, buflen |-> 0,
          error_code |-> "NONE", inflated |-> 0, given |-> 0]

Least(a, b) == IF a < b THEN a ELSE b

\* What the loop of mem_recv works on; k counts the bytes not looked at yet.
Work(k) == [f |-> iframe, k |-> k, log |-> log, fed |-> fed]

Current(w) == stream[Len(w.log) + 1]

\* The header is complete: how the payload will be taken.
BeginPayload(w) ==
  LET c   == Current(w)
      big == c.len > MaxBuf
  IN  IF ~c.ctrl
      THEN [w EXCEPT !.f.state = IF c.allowed THEN "PAYLOAD" ELSE "PAYLOAD_IGN"]
      ELSE IF c.nv = -1
      THEN [w EXCEPT !.f = [w.f EXCEPT
              !.state = IF big THEN "PAYLOAD_IGN" ELSE "PAYLOAD",
              !.error_code = IF big THEN "FRAME_TOO_LARGE" ELSE "NONE",
              !.buflen = IF big THEN 0 ELSE c.len]]
      ELSE [w EXCEPT !.f = [w.f EXCEPT
              !.state = IF c.nv < c.len THEN "PRE_NV" ELSE "PAYLOAD",
              !.error_code = IF c.nv < c.len /\ big THEN "FRAME_TOO_LARGE" ELSE "NONE",
              !.buflen = c.nv]]

ReadHead(w) ==
  LET n == Least(HeadLen - w.f.headbufoff, w.k)
      t == [w EXCEPT !.f = [w.f EXCEPT !.headbufoff = w.f.headbufoff + n], !.k = w.k - n]
  IN  IF t.f.headbufoff = HeadLen THEN BeginPayload(t) ELSE t

\* Mutant: only the bytes of this call count against the limit.
InflateForgets(w, n) ==
  LET c   == Current(w)
      out == n * c.grow
  IN  IF w.f.error_code \notin {"NONE", "FRAME_TOO_LARGE"} THEN w
      ELSE IF w.f.off < c.bad /\ c.bad <= w.f.off + n
      THEN [w EXCEPT !.f.error_code = "ZLIB", !.fed = w.fed + n]
      ELSE [w EXCEPT !.f = [w.f EXCEPT
                       !.inflated = out,
                       !.error_code = IF out > MaxBuf THEN "FRAME_TOO_LARGE" ELSE @],
                     !.fed = w.fed + n]

\* Mutant: a frame that is too large is skipped.
InflateSkips(w, n) ==
  LET c   == Current(w)
      out == w.f.inflated + n * c.grow
  IN  IF w.f.error_code # "NONE" THEN w
      ELSE IF w.f.off < c.bad /\ c.bad <= w.f.off + n
      THEN [w EXCEPT !.f.error_code = "ZLIB", !.fed = w.fed + n]
      ELSE [w EXCEPT !.f = [w.f EXCEPT
                       !.inflated = out,
                       !.error_code = IF out > MaxBuf THEN "FRAME_TOO_LARGE" ELSE @],
                     !.fed = w.fed + n]

\* spdylay_zlib_inflate_hd on the next n bytes of the header block.  A frame
\* that is too large is inflated too, to keep the zlib context in step.
Inflate(w, n) ==
  LET c   == Current(w)
      had == IF w.f.error_code = "FRAME_TOO_LARGE" THEN 0 ELSE w.f.inflated
      out == had + n * c.grow
  IN  IF w.f.error_code \notin {"NONE", "FRAME_TOO_LARGE"} THEN w
      ELSE IF w.f.off < c.bad /\ c.bad <= w.f.off + n
      THEN [w EXCEPT !.f.error_code = "ZLIB", !.fed = w.fed + n]
      ELSE [w EXCEPT !.f = [w.f EXCEPT
                       !.inflated = out,
                       !.error_code = IF out > MaxBuf THEN "FRAME_TOO_LARGE" ELSE @],
                     !.fed = w.fed + n]

\* spdylay_session_process_ctrl_frame and _data_frame: FRAME goes to its
\* handler, TOO_LARGE resets the stream, INVALID fails the session.
Outcome(w) ==
  LET c == Current(w)
  IN  IF ~c.ctrl THEN <<"DATA", w.f.given>>
      ELSE IF c.nv = -1
      THEN IF w.f.buflen = c.len THEN <<"FRAME", 0>> ELSE <<"INVALID", 0>>
      ELSE IF w.f.error_code = "FRAME_TOO_LARGE" THEN <<"TOO_LARGE", 0>>
      ELSE IF w.f.error_code = "NONE" /\ w.f.inflated > 0
      THEN <<"FRAME", 0>> ELSE <<"INVALID", 0>>

Process(w) == [w EXCEPT !.log = Append(w.log, Outcome(w)), !.f = Reset]

\* Bytes in front of the header block.
ReadPreNv(w) ==
  LET c == Current(w)
      n == Least(c.nv - w.f.off, Least(w.k, c.len - w.f.off))
  IN  IF w.f.state # "PRE_NV" THEN w
      ELSE [w EXCEPT !.f = [w.f EXCEPT !.off = w.f.off + n,
                                       !.state = IF w.f.off + n = c.nv THEN "NV" ELSE @],
                     !.k = w.k - n]

ReadPayload(w) ==
  LET u == ReadPreNv(w)
      c == Current(u)
      n == IF u.f.state = "PRE_NV" THEN 0 ELSE Least(u.k, c.len - u.f.off)
      v == IF u.f.state = "NV" THEN Inflate(u, n)
           ELSE IF ~c.ctrl /\ u.f.state # "PAYLOAD_IGN"
           THEN [u EXCEPT !.f = [u.f EXCEPT !.given = u.f.given + n]] ELSE u
      t == [v EXCEPT !.f = [v.f EXCEPT !.off = v.f.off + n], !.k = v.k - n]
  IN  IF t.f.off = c.len THEN Process(t) ELSE t

\* Mutant: an empty payload waits for the next bytes.
DrainedEarly(w) == w.f.state = "HEAD" \/ w.k = 0

\* The loop of mem_recv ends after the header, or for want of payload.
Drained(w) == w.f.state = "HEAD" \/ (w.k = 0 /\ w.f.off < Current(w).len)

\* One turn of the loop, which leaves things as they are once it has ended.
Turn(w) ==
  LET h == IF w.f.state = "HEAD" THEN ReadHead(w) ELSE w
  IN  IF w.f.state = "HEAD" /\ w.k = 0 THEN w ELSE IF Drained(h) THEN h ELSE ReadPayload(h)

\* The loop; every turn but the last takes a byte or more.
Loop(w) ==
  LET run[i \in 0..w.k] == IF i = 0 THEN w ELSE Turn(run[i - 1]) IN run[w.k]

\* The sums of the first 0, 1, ... elements of g, and the bytes of the first i
\* frames of s.
Sums(g) == LET sum[i \in 0..Len(g)] == IF i = 0 THEN 0 ELSE sum[i - 1] + g[i] IN sum
Prefix(s, i) == Sums([j \in 1..Len(s) |-> HeadLen + s[j].len])[i]

InboundInit ==
  /\ stream \in Streams
  /\ iframe = Reset /\ rcvd = 0 /\ log = <<>> /\ fed = 0

MemRecv(k) ==
  /\ rcvd + k <= Prefix(stream, Len(stream))
  /\ LET w == Loop(Work(k))
     IN  iframe' = w.f /\ log' = w.log /\ fed' = w.fed
  /\ rcvd' = rcvd + k
  /\ UNCHANGED stream

InboundNext == \E k \in 1..MaxChunk : MemRecv(k)

-----------------------------------------------------------------------------
Block(c) == IF c.ctrl /\ c.nv >= 0 /\ c.nv < c.len THEN c.len - c.nv ELSE 0

\* What a frame should come to, looked at as a whole.
Reference(c) ==
  CASE ~c.ctrl -> <<"DATA", IF c.allowed THEN c.len ELSE 0>>
    [] c.ctrl /\ c.nv = -1 -> <<IF c.len > MaxBuf THEN "INVALID" ELSE "FRAME", 0>>
    [] c.ctrl /\ c.nv >= 0 /\ (Block(c) = 0 \/ c.bad > c.nv) -> <<"INVALID", 0>>
    [] OTHER -> <<IF c.len > MaxBuf \/ Block(c) * c.grow > MaxBuf THEN "TOO_LARGE"
                  ELSE IF Block(c) * c.grow = 0 THEN "INVALID" ELSE "FRAME", 0>>

\* Every frame is processed as if it had arrived in one piece, and in order,
\* wherever the reads of the transport cut the stream.
ChunkingInvisible == \A i \in 1..Len(log) : log[i] = Reference(stream[i])

\* A frame is processed by the call that brings its last byte: not before, and
\* without waiting for the next frame (an empty payload included).
NoFrameHeldBack ==
  /\ Prefix(stream, Len(log)) <= rcvd
  /\ Len(log) < Len(stream) => rcvd < Prefix(stream, Len(log) + 1)

\* Between frames the inflater has seen every byte of every header block, those
\* of oversized frames included, unless a block was corrupt: the shared zlib
\* context stays in step with the peer's.
InflaterInStep ==
  iframe.state = "HEAD" /\ (\A i \in 1..Len(log) : stream[i].bad = 0)
    => fed = Sums([j \in 1..Len(stream) |-> Block(stream[j])])[Len(log)]
=============================================================================
