----------------------------- MODULE ChunkBuffer -----------------------------
(***************************************************************************)
(* lib/spdylay_buffer.c: the list of chunks a header block is inflated     *)
(* into and read back from.  The chunks survive a reset and are written    *)
(* over by the next block.  A definition marked `mutant' is a plausible    *)
(* bug in the one after it.                                                *)
(***************************************************************************)
EXTENDS Integers, Sequences, SequencesExt

CONSTANTS
  ChunkLen,   \* buffer->capacity, 4096 for the inflater
  MaxChunks,  \* bound: chunks that can be allocated before malloc() fails
  Symbols,    \* values of an octet that are written
  Garbage     \* what malloc() returns

ASSUME BufferAssumption == ChunkLen \in Nat \ {0} /\ MaxChunks \in Nat /\ Garbage \notin Symbols

VARIABLES
  buffer,   \* the buffer; chunk 0 is the dummy root
  written   \* history: what was written since the last reset

bufferVars == <<buffer, written>>

BufferNew == [chunks |-> <<>>, current |-> 0, last_offset |-> ChunkLen, len |-> 0]

\* spdylay_buffer_reset
BufferReset(b) == [b EXCEPT !.current = 0, !.len = 0, !.last_offset = ChunkLen]

BufferAvail(b) == ChunkLen - b.last_offset

CanAlloc(b) == b.current < Len(b.chunks) \/ Len(b.chunks) < MaxChunks

\* Mutant: a chunk is always new and goes to the end.
BufferAllocFresh(b) ==
  [b EXCEPT !.chunks = Append(@, [i \in 1..ChunkLen |-> Garbage]),
            !.current = Len(b.chunks) + 1, !.len = @ + BufferAvail(b), !.last_offset = 0]

\* spdylay_buffer_alloc: the next chunk, an old one if there is one.
BufferAlloc(b) ==
  [b EXCEPT !.chunks = IF b.current < Len(@) THEN @
                       ELSE Append(@, [i \in 1..ChunkLen |-> Garbage]),
            !.current = @ + 1, !.len = @ + BufferAvail(b), !.last_offset = 0]

\* memcpy to spdylay_buffer_get, and spdylay_buffer_advance
BufferPut(b, data) ==
  [b EXCEPT !.chunks[b.current] =
              [i \in 1..ChunkLen |-> IF i - b.last_offset \in 1..Len(data)
                                     THEN data[i - b.last_offset] ELSE @[i]],
            !.last_offset = @ + Len(data), !.len = @ + Len(data)]

\* A turn of the loop of spdylay_buffer_write, which ends when no data or no memory
\* is left.
WriteTurn(v) ==
  LET c == IF BufferAvail(v.b) = 0 THEN BufferAlloc(v.b) ELSE v.b
      n == IF Len(v.rest) < BufferAvail(c) THEN Len(v.rest) ELSE BufferAvail(c)
  IN  IF v.rest = <<>> \/ (BufferAvail(v.b) = 0 /\ ~CanAlloc(v.b)) THEN v
      ELSE [b |-> BufferPut(c, SubSeq(v.rest, 1, n)), rest |-> SubSeq(v.rest, n + 1, Len(v.rest))]

\* spdylay_buffer_write: the buffer and what of data is left.  A turn takes an octet
\* at least.
BufferWrite(b, data) ==
  LET run[i \in 0..Len(data)] ==
        IF i = 0 THEN [b |-> b, rest |-> data] ELSE WriteTurn(run[i - 1])
  IN  run[Len(data)]

\* A reader stands in a chunk, at an offset.
ReaderNew == [current |-> 1, offset |-> 0]

\* A step inside a chunk, of spdylay_buffer_reader_data and _reader_advance.
ReaderMove(r, n) ==
  IF r.offset + n = ChunkLen THEN [current |-> r.current + 1, offset |-> 0]
  ELSE [r EXCEPT !.offset = @ + n]

\* A turn of the loop of spdylay_buffer_reader_data; n octets are still to be read.
ReadTurn(b, v) ==
  LET k == IF v.n < ChunkLen - v.r.offset THEN v.n ELSE ChunkLen - v.r.offset
  IN  IF v.n = 0 THEN v
      ELSE [r |-> ReaderMove(v.r, k), n |-> v.n - k,
            out |-> v.out \o SubSeq(b.chunks[v.r.current], v.r.offset + 1, v.r.offset + k)]

\* spdylay_buffer_reader_data (and the integers read with it): n octets and the
\* reader after them; skipping moves the reader in the same way.
ReaderData(b, r, n) ==
  LET run[i \in 0..n] == IF i = 0 THEN [r |-> r, n |-> n, out |-> <<>>] ELSE ReadTurn(b, run[i - 1])
  IN  run[n]

BufferInit == buffer = BufferNew /\ written = <<>>

WriteBuffer(data) ==
  LET w == BufferWrite(buffer, data)
  IN  /\ buffer' = w.b
      /\ written' = written \o SubSeq(data, 1, Len(data) - Len(w.rest))

\* A turn of the loop of spdylay_zlib_inflate_hd: room for more, then what
\* inflate() puts there.
InflateTurn(data) ==
  LET b == IF BufferAvail(buffer) = 0 THEN BufferAlloc(buffer) ELSE buffer
  IN  /\ BufferAvail(buffer) = 0 => CanAlloc(buffer)
      /\ Len(data) <= BufferAvail(b)
      /\ buffer' = BufferPut(b, data)
      /\ written' = written \o data

ResetBuffer == buffer' = BufferReset(buffer) /\ written' = <<>>

BufferNext ==
  \/ ResetBuffer
  \/ \E data \in SeqOf(Symbols, ChunkLen + 1) : WriteBuffer(data) \/ InflateTurn(data)
-----------------------------------------------------------------------------
\* The next k octets of a buffer, or what is left of it.
ReadPiece(b, k, v) ==
  LET left == b.len - Len(v.out)
      d == ReaderData(b, v.r, IF left < k THEN left ELSE k)
  IN  [r |-> d.r, out |-> v.out \o d.out]

\* What a reader gets in pieces of k octets.
ReadInPieces(b, k) ==
  LET run[i \in 0..b.len] ==
        IF i = 0 THEN [r |-> ReaderNew, out |-> <<>>] ELSE ReadPiece(b, k, run[i - 1])
  IN  run[b.len].out

\* A reader gets back what was written since the last reset, in pieces of any
\* size: nothing of an earlier block that used the chunks, nothing left out or
\* uninitialized between chunks, and the length is exact.
BufferReadsBack ==
  /\ buffer.len = Len(written) /\ buffer.last_offset <= ChunkLen
  /\ \A k \in 1..(ChunkLen + 1) : ReadInPieces(buffer, k) = written
=============================================================================
