------------------------------ MODULE FrameCodec ------------------------------
(***************************************************************************)
(* lib/spdylay_frame.c: frames and name/value blocks as octets, packed by  *)
(* one endpoint and unpacked by the other, and lib/spdylay_npn.c.  Blocks  *)
(* pass through zlib (external) in between, which gives back what it was   *)
(* given.  An octet has Radix values; shifts and masks of the code become  *)
(* divisions and remainders.  A definition marked `mutant' is a plausible  *)
(* bug in the one after it.                                                *)
(***************************************************************************)
EXTENDS Integers, Sequences, SequencesExt, FiniteSets

CONSTANTS
  Radix,      \* values of an octet, 256 in the code
  LenSize2,   \* octets of a length in a block of SPDY/2, 2 in the code
  LenSize3,   \* the same of SPDY/3, 4 in the code
  Downcase,   \* upper-case octet -> octet
  Illegal,    \* octets below 0x20, besides 0, or above 0x7e
  Table3to2,  \* spdylay_nv_3to2: pairs of names
  Jobs        \* what is packed or unpacked

ASSUME CodecAssumption ==
  /\ Radix \in Nat /\ Radix % 4 = 0 /\ Radix >= 4
  /\ LenSize2 \in Nat \ {0} /\ LenSize3 \in Nat \ {0}
  /\ DOMAIN Downcase \cup Illegal \subseteq 1..(Radix - 1)

VARIABLES
  job,    \* what is asked for
  wire,   \* the octets between the endpoints, <<>> before they are packed
  got     \* what came of it

codecVars == <<job, wire, got>>

Pending == [ret |-> "PENDING"]

\* spdylay_put_uint16be, _put_uint32be and their inverses, on k octets.
PutUint(n, k) == [i \in 1..k |-> (n \div Radix^(k - i)) % Radix]
GetUint(s) ==
  LET value[i \in 0..Len(s)] == IF i = 0 THEN 0 ELSE value[i - 1] * Radix + s[i]
  IN  value[Len(s)]

Octets(s, off, n) == SubSeq(s, off + 1, off + n)
Overwrite(s, off, t) ==
  [i \in 1..Len(s) |-> IF i - off \in 1..Len(t) THEN t[i - off] ELSE s[i]]

LengthMask == Radix^3 - 1
StreamIdMask == Radix^4 \div 2 - 1
Masked(n, mask) == n % (mask + 1)
LenSize(version) == IF version = 2 THEN LenSize2 ELSE LenSize3
-----------------------------------------------------------------------------
(* Name/value blocks.  A list is a sequence of [name, val].                *)

\* strcmp: the order of the names.
NameLE(a, b) ==
  \/ IsPrefix(a, b)
  \/ \E i \in 1..Len(a) \cap 1..Len(b) :
       a[i] < b[i] /\ \A j \in 1..(i - 1) : a[j] = b[j]

\* qsort by name.  The order it leaves equal names in is not specified; here
\* they keep theirs, as with the merge sort of glibc.
NvSort(nv) ==
  LET insert(s, p) ==
        LET n == Cardinality({i \in 1..Len(s) : NameLE(s[i].name, p.name)})
        IN  SubSeq(s, 1, n) \o <<p>> \o SubSeq(s, n + 1, Len(s))
  IN  FoldLeft(insert, <<>>, nv)

NvDowncase(nv) ==
  LET low(o) == IF o \in DOMAIN Downcase THEN Downcase[o] ELSE o
  IN  [i \in 1..Len(nv) |->
         [nv[i] EXCEPT !.name = [j \in 1..Len(@) |-> low(@[j])]]]

\* Mutant: the list is not sorted.
NvNormCopyUnsorted(nv) == NvDowncase(nv)

NvNormCopy(nv) == NvSort(NvDowncase(nv))

NvCheckNull(nv) == \A i \in 1..Len(nv) : nv[i].name # <<>>

\* The names that a row of the table translates, from column `from' to `to'.
Renamed(nv, from, to) ==
  [i \in 1..Len(nv) |->
     [nv[i] EXCEPT !.name = IF \E r \in Table3to2 : r[from] = @
                            THEN (CHOOSE r \in Table3to2 : r[from] = @)[to] ELSE @]]
Nv3to2(nv) == Renamed(nv, 1, 2)
Nv2to3(nv) == Renamed(nv, 2, 1)

\* Mutant: the octet between two values of a name is forgotten.
CountNvSpaceJoined(nv, ls) ==
  LET step(a, p) ==
        IF a.prev = p.name THEN [a EXCEPT !.sum = @ + Len(p.val)]
        ELSE [prev |-> p.name, sum |-> a.sum + Len(p.name) + Len(p.val) + 2 * ls]
  IN  FoldLeft(step, [prev |-> <<>>, sum |-> ls], nv).sum

\* What spdylay_frame_alloc_pack_nv reserves for the block.
CountNvSpace(nv, ls) ==
  LET step(a, p) ==
        IF a.prev = p.name THEN [a EXCEPT !.sum = @ + Len(p.val) + 1]
        ELSE [prev |-> p.name, sum |-> a.sum + Len(p.name) + Len(p.val) + 2 * ls]
  IN  FoldLeft(step, [prev |-> <<>>, sum |-> ls], nv).sum

\* Neighbours with one name share an entry, their values joined by a NUL; the
\* length of the value is written again for each.
PackNv(nv, ls) ==
  LET step(a, p) ==
        IF a.prev = p.name
        THEN LET n == a.vallen + Len(p.val) + 1
             IN  [a EXCEPT !.vallen = n,
                           !.buf = Overwrite(@, a.valpos, PutUint(n, ls)) \o <<0>> \o p.val]
        ELSE LET key == a.buf \o PutUint(Len(p.name), ls) \o p.name
             IN  [num |-> a.num + 1, prev |-> p.name, vallen |-> Len(p.val),
                  valpos |-> Len(key),
                  buf |-> key \o PutUint(Len(p.val), ls) \o p.val]
      a == FoldLeft(step, [num |-> 0, prev |-> <<>>, vallen |-> 0, valpos |-> 0,
                           buf |-> PutUint(0, ls)], nv)
  IN  Overwrite(a.buf, 0, PutUint(a.num, ls))

\* A length at off and the string that follows it, if both are in the block.
Field(in, off, ls) ==
  LET fits == Len(in) - off >= ls
      n    == IF fits THEN GetUint(Octets(in, off, ls)) ELSE 0
  IN  [ok |-> fits /\ Len(in) - off - ls >= n, from |-> off + ls, to |-> off + ls + n]

\* The first pass: the pairs and the octets of text, or ok = FALSE.
RECURSIVE CountPairs(_, _, _, _)
CountPairs(in, ls, n, c) ==
  LET k == Field(in, c.off, ls)
      v == Field(in, k.to, ls)
      nuls == {i \in (v.from + 1)..v.to : i > Len(in) \/ in[i] = 0}
  IN  IF n = 0 THEN [c EXCEPT !.ok = c.off = Len(in)]
      ELSE IF ~k.ok \/ ~v.ok THEN [c EXCEPT !.ok = FALSE]
      ELSE CountPairs(in, ls, n - 1,
             [c EXCEPT !.off = v.to, !.nvlen = @ + 1 + Cardinality(nuls),
                       !.buflen = @ + (k.to - k.from) + 1 + (v.to - v.from) + 1])

CountUnpackNvSpace(in, ls) ==
  LET none == [ok |-> FALSE, off |-> ls, nvlen |-> 0, buflen |-> 0]
  IN  IF Len(in) < ls THEN none
      ELSE CountPairs(in, ls, GetUint(Octets(in, 0, ls)), none)

\* n octets at off as the second pass reads them: it does not check any more.
Read(in, off, n) == [i \in 1..n |-> IF off + i <= Len(in) THEN in[off + i] ELSE 0]

SplitNul(val) ==
  FoldLeft(LAMBDA segs, o : IF o = 0 THEN Append(segs, <<>>)
                            ELSE Append(Front(segs), Append(Last(segs), o)),
           <<<<>>>>, val)

IllegalName(name) ==
  name = <<>> \/ \E i \in 1..Len(name) : name[i] \in {0} \cup Illegal \cup DOMAIN Downcase

\* The second pass copies names and values and splits the values; id stands
\* for the address of the name.
RECURSIVE CopyPairs(_, _, _, _)
CopyPairs(in, ls, n, a) ==
  LET klen == GetUint(Read(in, a.off, ls))
      name == Read(in, a.off + ls, klen)
      voff == a.off + ls + klen
      vlen == GetUint(Read(in, voff, ls))
      segs == SplitNul(Read(in, voff + ls, vlen))
  IN  IF n = 0 THEN a
      ELSE CopyPairs(in, ls, n - 1,
             [off |-> voff + ls + vlen, text |-> a.text + klen + 1 + vlen + 1,
              nv |-> a.nv \o [i \in 1..Len(segs) |->
                                [name |-> name, val |-> segs[i], id |-> n]],
              bad |-> a.bad \/ IllegalName(name)
                      \/ \E i \in 1..(Len(segs) - 1) : segs[i] = <<>>])

\* Mutant: a name may come twice.
RepeatsNever(nv) == FALSE

\* Two neighbours of the sorted list have one name at two addresses.
Repeats(nv) ==
  \E i \in 1..(Len(nv) - 1) : nv[i].name = nv[i + 1].name /\ nv[i].id # nv[i + 1].id

UnpackNv(in, ls) ==
  LET c   == CountUnpackNvSpace(in, ls)
      a   == CopyPairs(in, ls, GetUint(Read(in, 0, ls)),
                       [off |-> ls, text |-> 0, nv |-> <<>>, bad |-> FALSE])
      nv  == IF a.bad THEN a.nv ELSE NvSort(a.nv)
      bad == a.bad \/ Repeats(nv)
  IN  IF ~c.ok THEN [ret |-> "INVALID_FRAME"]
      ELSE [ret |-> IF bad THEN "INVALID_HEADER_BLOCK" ELSE "OK",
            nv |-> [i \in 1..Len(nv) |-> [name |-> nv[i].name, val |-> nv[i].val]],
            counted |-> c, copied |-> a]
-----------------------------------------------------------------------------
(* Frames.  A frame is a record with the header fields version, type and   *)
(* flags and the fields of its type; nvlen is the length of the deflated   *)
(* block of those that carry one.                                          *)

NvTypes == {"SYN_STREAM", "SYN_REPLY", "HEADERS"}
TypeCode ==
  [SYN_STREAM |-> 1, SYN_REPLY |-> 2, RST_STREAM |-> 3, SETTINGS |-> 4, PING |-> 6,
   GOAWAY |-> 7, HEADERS |-> 8, WINDOW_UPDATE |-> 9, CREDENTIAL |-> 10]

HeadLength == 8
NvOffset(type, version) ==
  IF type = "SYN_STREAM" THEN 18 ELSE IF version = 2 THEN 14 ELSE 12

Chunks(certs) == FoldLeft(LAMBDA n, c : n + 4 + Len(c), 0, certs)

\* hd.length as the _init functions set it, or as pack does once the block is
\* deflated.
HdLength(f) ==
  CASE f.type \in NvTypes -> NvOffset(f.type, f.version) + f.nvlen - HeadLength
    [] f.type = "PING" -> 4
    [] f.type = "GOAWAY" -> IF f.version = 2 THEN 4 ELSE 8
    [] f.type \in {"RST_STREAM", "WINDOW_UPDATE"} -> 8
    [] f.type = "SETTINGS" -> 4 + Len(f.iv) * 8
    [] f.type = "CREDENTIAL" -> 2 + 4 + Len(f.proof) + Chunks(f.certs)

\* 0x80 of the first octet marks a control frame; flags overwrite the first
\* octet of the length.
PackCtrlHd(f) ==
  LET v == PutUint(f.version, 2)
      n == PutUint(HdLength(f), 4)
  IN  <<(v[1] % (Radix \div 2)) + (Radix \div 2), v[2]>> \o PutUint(TypeCode[f.type], 2)
        \o <<f.flags>> \o Tail(n)

UnpackCtrlHd(head) ==
  [version |-> Masked(GetUint(Octets(head, 0, 2)), Radix^2 \div 2 - 1),
   type    |-> CHOOSE t \in DOMAIN TypeCode : TypeCode[t] = GetUint(Octets(head, 2, 2)),
   flags   |-> head[5], length |-> Masked(GetUint(Octets(head, 4, 4)), LengthMask)]

\* The ID of a setting is little endian in SPDY/2, with the flags behind it.
PackEntry(version, e) ==
  LET id == PutUint(e.settings_id, 3)
  IN  (IF version = 2 THEN Reverse(id) \o <<e.flags>> ELSE <<e.flags>> \o id)
        \o PutUint(e.value, 4)

\* Mutant: network byte order in SPDY/2 too.
UnpackEntryBE(version, s) ==
  [settings_id |-> GetUint(IF version = 2 THEN Octets(s, 0, 3) ELSE Octets(s, 1, 3)),
   flags |-> IF version = 2 THEN s[4] ELSE s[1], value |-> GetUint(Octets(s, 4, 4))]

UnpackEntry(version, s) ==
  [settings_id |-> GetUint(IF version = 2 THEN Reverse(Octets(s, 0, 3)) ELSE Octets(s, 1, 3)),
   flags |-> IF version = 2 THEN s[4] ELSE s[1], value |-> GetUint(Octets(s, 4, 4))]

\* framelen octets are cleared before the fields are written.
Zeroed(framelen, octets) == octets \o [i \in 1..(framelen - Len(octets)) |-> 0]

\* The priority has two bits in both versions.
PackSynStream(f) ==
  Zeroed(NvOffset(f.type, f.version) + f.nvlen,
         PackCtrlHd(f) \o PutUint(f.stream_id, 4) \o PutUint(f.assoc_stream_id, 4)
           \o <<(f.pri * (Radix \div 4)) % Radix, IF f.version = 3 THEN f.slot ELSE 0>>)

PackSynReply(f) ==
  Zeroed(NvOffset(f.type, f.version) + f.nvlen, PackCtrlHd(f) \o PutUint(f.stream_id, 4))

PackHeaders(f) ==
  Zeroed(NvOffset(f.type, f.version) + f.nvlen, PackCtrlHd(f) \o PutUint(f.stream_id, 4))

PackPing(f) == Zeroed(12, PackCtrlHd(f) \o PutUint(f.unique_id, 4))

PackGoaway(f) ==
  Zeroed(IF f.version = 2 THEN 12 ELSE 16,
         PackCtrlHd(f) \o PutUint(f.last_good_stream_id, 4)
           \o (IF f.version = 3 THEN PutUint(f.status_code, 4) ELSE <<>>))

PackRstStream(f) ==
  Zeroed(16, PackCtrlHd(f) \o PutUint(f.stream_id, 4) \o PutUint(f.status_code, 4))

PackWindowUpdate(f) ==
  Zeroed(16, PackCtrlHd(f) \o PutUint(f.stream_id, 4) \o PutUint(f.delta_window_size, 4))

PackSettings(f) ==
  Zeroed(HeadLength + HdLength(f),
         PackCtrlHd(f) \o PutUint(Len(f.iv), 4)
           \o FoldLeft(LAMBDA s, e : s \o PackEntry(f.version, e), <<>>, f.iv))

PackCredential(f) ==
  Zeroed(HeadLength + 2 + 4 + Len(f.proof) + Chunks(f.certs),
         PackCtrlHd(f) \o PutUint(f.slot, 2) \o PutUint(Len(f.proof), 4) \o f.proof
           \o FoldLeft(LAMBDA s, c : s \o PutUint(Len(c), 4) \o c, <<>>, f.certs))

PackFrame(f) ==
  CASE f.type = "SYN_STREAM" -> PackSynStream(f)
    [] f.type = "SYN_REPLY" -> PackSynReply(f)
    [] f.type = "HEADERS" -> PackHeaders(f)
    [] f.type = "PING" -> PackPing(f)
    [] f.type = "GOAWAY" -> PackGoaway(f)
    [] f.type = "RST_STREAM" -> PackRstStream(f)
    [] f.type = "WINDOW_UPDATE" -> PackWindowUpdate(f)
    [] f.type = "SETTINGS" -> PackSettings(f)
    [] f.type = "CREDENTIAL" -> PackCredential(f)

\* The number of certificates in p, or -1.
CountUnpackCert(p) ==
  LET RECURSIVE from(_, _)
      from(n, off) == LET c == Field(p, off, 4)
                      IN  IF ~c.ok THEN -1 ELSE IF c.to = Len(p) THEN n ELSE from(n + 1, c.to)
  IN  from(1, 0)

\* spdylay_frame_unpack_cert: copies n certificates without looking at the end.
UnpackCert(p, n) ==
  LET take(a, i) == LET len == GetUint(Read(p, a.off, 4))
                    IN  [off |-> a.off + 4 + len, certs |-> Append(a.certs, Read(p, a.off + 4, len))]
  IN  FoldLeft(take, [off |-> 0, certs |-> <<>>], [i \in 1..n |-> i])

InvalidFrame == [ret |-> "INVALID_FRAME"]

UnpackCredential(hd, p) ==
  LET proof == Field(p, 2, 4)
      rest  == SubSeq(p, proof.to + 1, Len(p))
      n     == CountUnpackCert(rest)
      a     == UnpackCert(rest, n)
  IN  IF Len(p) < 10 \/ ~proof.ok \/ n < 0 THEN InvalidFrame
      ELSE [ret |-> "OK", hd |-> hd, slot |-> GetUint(Octets(p, 0, 2)),
            proof |-> Octets(p, proof.from, proof.to - proof.from),
            certs |-> a.certs, left |-> Len(rest) - a.off]

Word(p, i) == GetUint(Octets(p, i, 4))
Id(p, i) == Masked(Word(p, i), StreamIdMask)

\* The functions _without_nv; p ends where the block starts.
UnpackSynStream(hd, p) ==
  IF HeadLength + Len(p) # NvOffset(hd.type, hd.version) THEN InvalidFrame
  ELSE [ret |-> "OK", hd |-> hd, stream_id |-> Id(p, 0), assoc_stream_id |-> Id(p, 4),
        pri |-> p[9] \div (Radix \div 4), slot |-> IF hd.version = 3 THEN p[10] ELSE 0]

UnpackSynReply(hd, p) ==
  IF HeadLength + Len(p) # NvOffset(hd.type, hd.version) THEN InvalidFrame
  ELSE [ret |-> "OK", hd |-> hd, stream_id |-> Id(p, 0)]

UnpackHeaders(hd, p) ==
  IF HeadLength + Len(p) # NvOffset(hd.type, hd.version) THEN InvalidFrame
  ELSE [ret |-> "OK", hd |-> hd, stream_id |-> Id(p, 0)]

UnpackPing(hd, p) ==
  IF Len(p) # 4 THEN InvalidFrame ELSE [ret |-> "OK", hd |-> hd, unique_id |-> Word(p, 0)]

UnpackGoaway(hd, p) ==
  IF Len(p) # (IF hd.version = 2 THEN 4 ELSE 8) THEN InvalidFrame
  ELSE [ret |-> "OK", hd |-> hd, last_good_stream_id |-> Id(p, 0),
        status_code |-> IF hd.version = 3 THEN Word(p, 4) ELSE 0]

UnpackRstStream(hd, p) ==
  IF Len(p) # 8 THEN InvalidFrame
  ELSE [ret |-> "OK", hd |-> hd, stream_id |-> Id(p, 0), status_code |-> Word(p, 4)]

UnpackWindowUpdate(hd, p) ==
  IF Len(p) # 8 THEN InvalidFrame
  ELSE [ret |-> "OK", hd |-> hd, stream_id |-> Id(p, 0), delta_window_size |-> Id(p, 4)]

UnpackSettings(hd, p) ==
  IF Len(p) < 4 THEN InvalidFrame
  ELSE IF Len(p) # 4 + Word(p, 0) * 8 THEN InvalidFrame
  ELSE [ret |-> "OK", hd |-> hd,
        iv |-> [i \in 1..Word(p, 0) |->
                  UnpackEntry(hd.version, Octets(p, 4 + (i - 1) * 8, 8))]]

UnpackFrame(head, p) ==
  LET hd == UnpackCtrlHd(head)
  IN  CASE hd.type = "SYN_STREAM" -> UnpackSynStream(hd, p)
        [] hd.type = "SYN_REPLY" -> UnpackSynReply(hd, p)
        [] hd.type = "HEADERS" -> UnpackHeaders(hd, p)
        [] hd.type = "PING" -> UnpackPing(hd, p)
        [] hd.type = "GOAWAY" -> UnpackGoaway(hd, p)
        [] hd.type = "RST_STREAM" -> UnpackRstStream(hd, p)
        [] hd.type = "WINDOW_UPDATE" -> UnpackWindowUpdate(hd, p)
        [] hd.type = "SETTINGS" -> UnpackSettings(hd, p)
        [] hd.type = "CREDENTIAL" -> UnpackCredential(hd, p)
-----------------------------------------------------------------------------
(* Next protocol negotiation, on the list of names the server offers.      *)

NpnVersion(proto) == CASE proto = "spdy/3" -> 3 [] proto = "spdy/2" -> 2 [] OTHER -> 0

\* Mutant: the first name that is known wins.
SelectFirst(in) ==
  LET known == {i \in 1..Len(in) : NpnVersion(in[i]) # 0 \/ in[i] = "http/1.1"}
      first == CHOOSE i \in known : \A j \in known : i <= j
  IN  IF known = {} THEN [ret |-> "OK", version |-> -1, out |-> ""]
      ELSE [ret |-> "OK", version |-> NpnVersion(in[first]), out |-> in[first]]

SelectNextProtocol(in) ==
  LET spdy == {i \in 1..Len(in) : NpnVersion(in[i]) # 0}
      http == {i \in 1..Len(in) : in[i] = "http/1.1"}
      first == CHOOSE i \in spdy : \A j \in spdy : i <= j
  IN  IF spdy # {} THEN [ret |-> "OK", version |-> NpnVersion(in[first]), out |-> in[first]]
      ELSE IF http # {} THEN [ret |-> "OK", version |-> 0, out |-> "http/1.1"]
      ELSE [ret |-> "OK", version |-> -1, out |-> ""]
-----------------------------------------------------------------------------
CodecInit == job \in Jobs /\ wire = <<>> /\ got = Pending

\* A list is submitted, normalised and, when its turn comes, packed.
PackBlock ==
  /\ job.kind = "nv" /\ wire = <<>> /\ got = Pending
  /\ IF NvCheckNull(job.nv)
     THEN LET nv == NvNormCopy(job.nv)
          IN  /\ wire' = PackNv(IF job.version = 2 THEN NvSort(Nv3to2(nv)) ELSE nv,
                                LenSize(job.version))
              /\ UNCHANGED got
     ELSE got' = [ret |-> "INVALID_ARGUMENT"] /\ UNCHANGED wire
  /\ UNCHANGED job

\* Octets of any origin arrive as an inflated block.
ReceiveBlock ==
  /\ job.kind = "block" /\ wire = <<>> /\ got = Pending
  /\ got' = UnpackNv(job.in, LenSize(job.version))
  /\ UNCHANGED <<job, wire>>

UnpackBlock ==
  /\ job.kind = "nv" /\ wire # <<>> /\ got = Pending
  /\ \E r \in {UnpackNv(wire, LenSize(job.version))} :
       got' = IF r.ret = "OK" /\ job.version = 2 THEN [r EXCEPT !.nv = Nv2to3(@)] ELSE r
  /\ UNCHANGED <<job, wire>>

\* spdylay_frame_alloc_pack_nv refuses a block that is too large.
SendFrame ==
  /\ job.kind = "frame" /\ wire = <<>> /\ got = Pending
  /\ IF job.f.type \in NvTypes /\ HdLength(job.f) > LengthMask
     THEN got' = [ret |-> "FRAME_TOO_LARGE"] /\ UNCHANGED wire
     ELSE wire' = PackFrame(job.f) /\ UNCHANGED got
  /\ UNCHANGED job

\* The receiver takes hd.length octets after the head for the payload and
\* keeps those in front of the block.
RecvFrame ==
  /\ job.kind = "frame" /\ wire # <<>> /\ got = Pending
  /\ LET head == Octets(wire, 0, HeadLength)
         hd   == UnpackCtrlHd(head)
         n    == IF hd.type \in NvTypes
                 THEN NvOffset(hd.type, hd.version) - HeadLength ELSE hd.length
     IN  got' = UnpackFrame(head, Octets(wire, HeadLength, n))
  /\ UNCHANGED <<job, wire>>

\* A CREDENTIAL payload of any origin.
RecvCredential ==
  /\ job.kind = "credential" /\ got = Pending
  /\ got' = UnpackCredential([type |-> "CREDENTIAL"], job.in)
  /\ UNCHANGED <<job, wire>>

SelectProtocol ==
  /\ job.kind = "npn" /\ got = Pending
  /\ got' = SelectNextProtocol(job.offer)
  /\ UNCHANGED <<job, wire>>

CodecNext ==
  \/ PackBlock \/ ReceiveBlock \/ UnpackBlock
  \/ SendFrame \/ RecvFrame \/ RecvCredential \/ SelectProtocol
-----------------------------------------------------------------------------
\* Sizes are computed apart from what they are for, and agree: a block fills what
\* was reserved for it, whatever names repeat; and whatever octets arrive, the pass
\* that copies a block reads and writes exactly what the pass that counted has
\* checked and allocated (the assertion at the end of spdylay_frame_unpack_nv).
CountsExact ==
  /\ job.kind = "nv" /\ wire # <<>> =>
       LET nv == NvNormCopy(job.nv)
       IN  Len(wire) = CountNvSpace(IF job.version = 2 THEN NvSort(Nv3to2(nv)) ELSE nv,
                                    LenSize(job.version))
  /\ job.kind \in {"nv", "block"} /\ got.ret \in {"OK", "INVALID_HEADER_BLOCK"} =>
       LET in == IF job.kind = "nv" THEN wire ELSE job.in
       IN  /\ got.copied.off = Len(in)
           /\ Len(got.copied.nv) = got.counted.nvlen
           /\ got.copied.text = got.counted.buflen

\* What an application has to observe because submission does not check it:
\* names are printable, only the last value of a name may be empty, lengths fit
\* their fields, and a list for SPDY/2 avoids the names the table translates to.
Sendable(nv, version) ==
  LET norm == NvNormCopy(nv)
      max  == Radix^LenSize(version) - 1
      vals(n) == {i \in 1..Len(norm) : norm[i].name = n}
      joined(n) == FoldSet(LAMBDA i, s : s + Len(norm[i].val) + 1, -1, vals(n))
  IN  /\ \A i \in 1..Len(norm) :
           /\ ~IllegalName(norm[i].name) /\ Len(norm[i].name) <= max
           /\ joined(norm[i].name) <= max
           /\ norm[i].val = <<>> => \A j \in vals(norm[i].name) : j <= i
           /\ version = 2 => \A r \in Table3to2 : norm[i].name # r[2]
      /\ Cardinality({norm[i].name : i \in 1..Len(norm)}) <= max

Multiset(nv) == [p \in Range(nv) |-> Cardinality({i \in 1..Len(nv) : nv[i] = p})]

\* The peer gets the list that was submitted, with names in lower case, although
\* it was sorted, translated, joined, split and sorted again on the way.
NvRoundTrip ==
  job.kind = "nv" /\ got.ret \notin {"PENDING", "INVALID_ARGUMENT"}
    /\ Sendable(job.nv, job.version) =>
      got.ret = "OK" /\ Multiset(got.nv) = Multiset(NvDowncase(job.nv))

\* What is accepted, whatever octets it came from, can be passed on: a name/value
\* block packs again into a block that is accepted and gives the same list, and a
\* CREDENTIAL is the concatenation of what was taken from it, to the last octet.
AcceptedCanBeForwarded ==
  got.ret = "OK" =>
    /\ job.kind = "block" =>
         LET ls == LenSize(job.version)
         IN  \A r \in {UnpackNv(PackNv(got.nv, ls), ls)} : r.ret = "OK" /\ r.nv = got.nv
    /\ job.kind = "credential" =>
         /\ got.left = 0
         /\ PutUint(got.slot, 2) \o PutUint(Len(got.proof), 4) \o got.proof
              \o FoldLeft(LAMBDA s, c : s \o PutUint(Len(c), 4) \o c, <<>>, got.certs) = job.in

\* A frame of any type and version comes out as it went in, and the length in
\* its head, which the _init and pack functions compute apart, is what follows
\* the head: the next frame starts where the receiver looks for it.
FrameRoundTrip ==
  job.kind = "frame" /\ wire # <<>> /\ got # Pending
    /\ (job.f.type \in {"SETTINGS", "CREDENTIAL"} => HdLength(job.f) <= LengthMask) =>
      /\ got.ret = "OK"
      /\ got.hd = [version |-> job.f.version, type |-> job.f.type, flags |-> job.f.flags,
                   length |-> Len(wire) - HeadLength]
      /\ \A x \in DOMAIN got \cap DOMAIN job.f : x # "pri" => got[x] = job.f[x]

\* SPDY is chosen if it is offered at all, wherever http/1.1 stands in the list,
\* and the version the session is made for is the one of the name that is
\* answered.
SpdyPreferred ==
  job.kind = "npn" /\ got # Pending =>
    /\ (\E i \in 1..Len(job.offer) : NpnVersion(job.offer[i]) # 0) => got.version > 0
    /\ got.version >= 0 => NpnVersion(got.out) = got.version

\* spdylay.h: "The priority of this frame. 0 is the highest priority value. Use
\* spdylay_session_get_pri_lowest() to know the lowest priority value."
PriorityKept ==
  job.kind = "frame" /\ job.f.type = "SYN_STREAM" /\ wire # <<>> /\ got # Pending
    => got.pri = job.f.pri
=============================================================================
