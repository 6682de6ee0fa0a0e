------------------------------ MODULE StreamMap ------------------------------
(***************************************************************************)
(* The treap of lib/spdylay_map.c that holds the streams of a session: a   *)
(* binary search tree on the keys whose shape is a heap on the hashes of   *)
(* the keys, linked by parent and child pointers.  The hash is an          *)
(* arbitrary function, chosen initially.  A definition marked `mutant' is  *)
(* a plausible bug in the one after it.                                    *)
(***************************************************************************)
EXTENDS Integers, FiniteSets, Sequences, SequencesExt

CONSTANTS
  Keys,       \* stream IDs
  MaxHash     \* bound: hashes are 1..MaxHash (entry->priority)

ASSUME MapAssumption == Keys \subseteq Nat \ {0} /\ MaxHash \in Nat \ {0}

VARIABLES
  map,    \* root, size and the entries
  hash,   \* hash32shift
  keys    \* history: the keys that are in the map

mapVars == <<map, hash, keys>>

Null == 0
Sides == {"left", "right"}
Other(d) == IF d = "left" THEN "right" ELSE "left"

\* An entry that is in no map.
Unlinked == [parent |-> Null, child |-> [d \in Sides |-> Null]]

MapInit == [root |-> Null, size |-> 0, entry |-> [k \in Keys |-> Unlinked]]

\* The link to old, in its parent or the root, now leads to new.
Relink(m, old, new) ==
  LET p == m.entry[old].parent
  IN  IF p = Null THEN [m EXCEPT !.root = new]
      ELSE [m EXCEPT !.entry[p].child = [d \in Sides |-> IF @[d] = old THEN new ELSE @[d]]]

SetParent(m, k, p) == IF k = Null THEN m ELSE [m EXCEPT !.entry[k].parent = p]

\* Mutant: the middle subtree is dropped.
RotateLossy(m, e, d) ==
  LET top == m.entry[e].child[Other(d)]
      t   == Relink(m, e, top)
  IN  [t EXCEPT !.entry[e].child[Other(d)] = Null, !.entry[e].parent = top,
                !.entry[top].child[d] = e,
                !.entry[top].parent = m.entry[e].parent]

\* rotate_left and rotate_right, with the update of the root in the callers:
\* e goes down on side d, its child on the other side takes its place.
Rotate(m, e, d) ==
  LET top == m.entry[e].child[Other(d)]
      mid == m.entry[top].child[d]
      t   == SetParent(Relink(m, e, top), mid, e)
  IN  [t EXCEPT !.entry[e].child[Other(d)] = mid, !.entry[e].parent = top,
                !.entry[top].child[d] = e,
                !.entry[top].parent = m.entry[e].parent]

\* The path of spdylay_map_find, _insert and _remove: the entry with the key, or
\* the one below which it belongs.
RECURSIVE Descend(_, _, _)
Descend(m, e, k) ==
  LET d == IF k < e THEN "left" ELSE "right"
  IN  IF k = e \/ m.entry[e].child[d] = Null THEN e
      ELSE Descend(m, m.entry[e].child[d], k)

MapFind(m, k) ==
  IF m.root = Null THEN Null
  ELSE LET e == Descend(m, m.root, k) IN IF e = k THEN e ELSE Null

\* e is larger than its child on side d.
Heavier(m, e, d) == m.entry[e].child[d] # Null /\ hash[e] > hash[m.entry[e].child[d]]

RECURSIVE RotateUp(_, _)
RotateUp(m, e) ==
  IF \E d \in Sides : Heavier(m, e, d)
  THEN LET d   == IF Heavier(m, e, "left") THEN "left" ELSE "right"
           top == m.entry[e].child[d]
           t   == Rotate(m, e, Other(d))
       IN  IF t.entry[top].parent = Null THEN t
           ELSE RotateUp(t, t.entry[top].parent)
  ELSE m

MapInsert(m, k) ==
  IF m.root = Null THEN [m EXCEPT !.root = k, !.size = 1]
  ELSE LET p == Descend(m, m.root, k)
           d == IF k < p THEN "left" ELSE "right"
       IN  IF p = k THEN m
           ELSE [RotateUp([m EXCEPT !.entry[p].child[d] = k, !.entry[k].parent = p], p)
                   EXCEPT !.size = @ + 1]

\* Rotates e down until it has at most one child, which takes its place.
RECURSIVE Unlink(_, _)
Unlink(m, e) ==
  LET l == m.entry[e].child["left"]
      r == m.entry[e].child["right"]
      c == IF l = Null THEN r ELSE l
  IN  IF l = Null \/ r = Null
      THEN SetParent(Relink(m, e, c), c, m.entry[e].parent)
      ELSE Unlink(Rotate(m, e, IF hash[l] < hash[r] THEN "right" ELSE "left"), e)

\* The caller frees the entry.
MapRemove(m, k) ==
  IF MapFind(m, k) = Null THEN m
  ELSE [Unlink(m, k) EXCEPT !.size = @ - 1, !.entry[k] = Unlinked]

RECURSIVE LeftMost(_, _)
LeftMost(m, e) ==
  IF m.entry[e].child["left"] = Null THEN e ELSE LeftMost(m, m.entry[e].child["left"])

RECURSIVE LeftMostLeaf(_, _)
LeftMostLeaf(m, e) ==
  LET f == LeftMost(m, e)
  IN  IF m.entry[f].child["right"] = Null THEN f
      ELSE LeftMostLeaf(m, m.entry[f].child["right"])

\* Up the parent pointers as long as we come from the right.
RECURSIVE Ascend(_, _)
Ascend(m, e) ==
  LET p == m.entry[e].parent
  IN  IF p # Null /\ m.entry[p].child["right"] = e THEN Ascend(m, p) ELSE p

TraverseInorder(m, e) ==
  IF m.entry[e].child["right"] # Null THEN LeftMost(m, m.entry[e].child["right"])
  ELSE Ascend(m, e)

\* Mutant: stops above the leaves.
TraversePostorderHigh(m, p, e) ==
  IF p # Null /\ m.entry[p].child["left"] = e /\ m.entry[p].child["right"] # Null
  THEN LeftMost(m, m.entry[p].child["right"]) ELSE p

TraversePostorder(m, p, e) ==
  IF p # Null /\ m.entry[p].child["left"] = e /\ m.entry[p].child["right"] # Null
  THEN LeftMostLeaf(m, m.entry[p].child["right"]) ELSE p

\* The entries spdylay_map_each calls its function with.
RECURSIVE EachFrom(_, _)
EachFrom(m, e) == IF e = Null THEN <<>> ELSE <<e>> \o EachFrom(m, TraverseInorder(m, e))
MapEach(m) == IF m.root = Null THEN <<>> ELSE EachFrom(m, LeftMost(m, m.root))

\* The entries spdylay_map_each_free frees; only their parent is looked at later.
RECURSIVE EachFreeFrom(_, _)
EachFreeFrom(m, e) ==
  IF e = Null THEN <<>>
  ELSE <<e>> \o EachFreeFrom(m, TraversePostorder(m, m.entry[e].parent, e))
MapEachFree(m) ==
  IF m.root = Null THEN <<>> ELSE EachFreeFrom(m, LeftMostLeaf(m, m.root))

TreapInit == map = MapInit /\ keys = {} /\ hash \in [Keys -> 1..MaxHash]

InsertKey(k) == map' = MapInsert(map, k) /\ keys' = keys \cup {k} /\ UNCHANGED hash

RemoveKey(k) == map' = MapRemove(map, k) /\ keys' = keys \ {k} /\ UNCHANGED hash

TreapNext == \E k \in Keys : InsertKey(k) \/ RemoveKey(k)

-----------------------------------------------------------------------------
\* Looking a key up finds it exactly when it was inserted and not removed since,
\* whatever the hashes and the rotations they caused; spdylay_map_size, which
\* want_read and want_write rely on, is exact even when a key was inserted or
\* removed twice; and the depth depends on the hashes, not on the order of arrival.
FindsExactly ==
  /\ \A k \in Keys : MapFind(map, k) = IF k \in keys THEN k ELSE Null
  /\ map.size = Cardinality(keys)
  /\ \A k \in keys, d \in Sides : ~Heavier(map, k, d)

\* Walking the tree over the parent pointers visits every entry once: in the order
\* of the keys, so that a new initial window reaches every stream, and in
\* post-order, so that an entry is freed after its children.
WalksExact ==
  LET s == MapEachFree(map)
  IN  /\ MapEach(map) = SetToSortSeq(keys, <)
      /\ Range(s) = keys /\ Len(s) = Cardinality(keys)
      /\ \A i \in 1..Len(s), j \in 1..Len(s) : map.entry[s[i]].parent = s[j] => i < j
=============================================================================
