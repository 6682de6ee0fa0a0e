---------------------------- MODULE PriorityQueue ----------------------------
(***************************************************************************)
(* The binary heap of lib/spdylay_pq.c with the order of                   *)
(* spdylay_outbound_item_compar.  Index i of the C array is q[i + 1].  A   *)
(* definition marked `mutant' is a plausible bug in the one after it.      *)
(***************************************************************************)
EXTENDS Integers, Sequences, SequencesExt

CONSTANTS
  Pris,         \* priorities of the items
  Seqs,         \* sequence numbers of the items
  InitCapacity  \* 4096 in spdylay_pq_init

ASSUME QueueAssumption ==
  Pris \subseteq Int /\ Seqs \subseteq Nat /\ InitCapacity \in Nat \ {0}

VARIABLES
  q,         \* the first `length' entries of the array
  capacity,  \* entries that are allocated
  popped     \* history: what the last pop took off, as a set

queueVars == <<q, capacity, popped>>

Items == [pri : Pris, seq : Seqs]

Compar(i, j) ==
  IF i.pri = j.pri THEN i.seq - j.seq ELSE i.pri - j.pri

Swap(s, i, j) == [s EXCEPT ![i + 1] = s[j + 1], ![j + 1] = s[i + 1]]

Parent(index) == (index - 1) \div 2

\* One call of bubble_up, on h.s at h.i; it calls itself for what this gives,
\* unless this is h again.
UpCall(h) ==
  LET parent == Parent(h.i)
  IN  IF h.i > 0 /\ Compar(h.s[parent + 1], h.s[h.i + 1]) > 0
      THEN [s |-> Swap(h.s, parent, h.i), i |-> parent] ELSE h

\* An index goes up less often than there are entries.
BubbleUp(s, index) ==
  LET run[k \in 0..Len(s)] == IF k = 0 THEN [s |-> s, i |-> index] ELSE UpCall(run[k - 1])
  IN  run[Len(s)].s

\* Mutant: the right child is not looked at.
MinIndexLeft(s, index) ==
  LET l == index * 2 + 1
  IN  IF l < Len(s) /\ Compar(s[index + 1], s[l + 1]) > 0 THEN l ELSE index

\* The child BubbleDown descends to, or index itself.
MinIndex(s, index) ==
  LET l == index * 2 + 1
      better(m, j) == IF j < Len(s) /\ Compar(s[m + 1], s[j + 1]) > 0 THEN j ELSE m
  IN  better(better(index, l), l + 1)

\* One call of bubble_down, as UpCall is one of bubble_up.
DownCall(h) ==
  LET m == MinIndex(h.s, h.i)
  IN  IF m = h.i THEN h ELSE [s |-> Swap(h.s, h.i, m), i |-> m]

BubbleDown(s, index) ==
  LET run[k \in 0..Len(s)] == IF k = 0 THEN [s |-> s, i |-> index] ELSE DownCall(run[k - 1])
  IN  run[Len(s)].s

PqPush(s, item) == BubbleUp(Append(s, item), Len(s))

\* The last entry takes the place of the first one.
PqPop(s) ==
  IF Len(s) <= 1 THEN <<>> ELSE BubbleDown([Front(s) EXCEPT ![1] = Last(s)], 0)

QueueInit == q = <<>> /\ capacity = InitCapacity /\ popped = {}

\* An item is in the queue once: its owner pushes it.  A store behind the
\* allocated entries would be undefined; it is taken to be lost.
Push(item) ==
  /\ item \notin Range(q)
  /\ capacity' = IF capacity <= Len(q) THEN capacity * 2 ELSE capacity
  /\ q' = IF Len(q) < capacity' THEN PqPush(q, item) ELSE q
  /\ popped' = {}

Pop ==
  /\ q # <<>>
  /\ q' = PqPop(q)
  /\ popped' = {q[1]}
  /\ UNCHANGED capacity

QueueNext == Pop \/ \E item \in Items : Push(item)

-----------------------------------------------------------------------------
Ordered == INSTANCE OrderedQueue WITH items <- Range(q), out <- popped

\* The heap implements the ordered queue as which the session's queues are
\* modelled: nothing is lost or duplicated by the swaps or when the array grows,
\* and what is popped is the least item of (pri, seq).
ImplementsOrderedQueue == Ordered!Spec
=============================================================================
