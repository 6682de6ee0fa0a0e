----------------------------- MODULE CertVector -----------------------------
(***************************************************************************)
(* The client certificate vector of a client session                       *)
(* (lib/spdylay_client_cert_vector.c): slots 1..size of an allocation of   *)
(* `capacity' pointers, filled round robin behind `last_slot'.  The        *)
(* operators map a vector to a vector; EmptySlot stands for NULL.  A       *)
(* definition marked `mutant' is a plausible bug in the one after it.      *)
(***************************************************************************)
EXTENDS Integers

CONSTANT MaxSlots   \* SPDYLAY_MAX_CLIENT_CERT_VECTOR_LENGTH

ASSUME SlotsAssumption == MaxSlots \in Nat \ {0}

EmptySlot == "NULL"

\* Only slots 1..capacity are allocated and 1..size are in use.
CertVectorInit(n) ==
  [size |-> n, capacity |-> n, last_slot |-> 0,
   vector |-> [i \in 1..MaxSlots |-> EmptySlot]]

\* Mutant: every resize starts the round again.
ResizeRestarts(cv, n) ==
  IF cv.capacity < n THEN [cv EXCEPT !.size = n, !.capacity = n, !.last_slot = 0]
  ELSE LET sz == IF n < cv.size THEN n ELSE cv.size
       IN  [cv EXCEPT !.size = sz, !.last_slot = 0,
                      !.vector = [i \in 1..MaxSlots |-> IF n < i THEN EmptySlot ELSE @[i]]]

\* Growing past the capacity reallocates; anything else can only shrink the
\* usable prefix and clears the slots that fall off it.
Resize(cv, n) ==
  IF cv.capacity < n
  THEN [cv EXCEPT !.size = n, !.capacity = n,
                  !.vector = [i \in 1..MaxSlots |-> IF cv.capacity < i /\ i <= n
                                                    THEN EmptySlot ELSE @[i]]]
  ELSE LET sz == IF n < cv.size THEN n ELSE cv.size
       IN  [cv EXCEPT !.size = sz,
                      !.last_slot = IF @ > sz THEN sz ELSE @,
                      !.vector = [i \in 1..MaxSlots |->
                                    IF n < i /\ i <= cv.size
                                    THEN EmptySlot ELSE @[i]]]

\* The scan stops at the first empty slot.
FoundAt(cv, o, i) ==
  /\ i <= cv.size /\ cv.vector[i] = o
  /\ \A j \in 1..(i - 1) : cv.vector[j] \notin {EmptySlot, o}

\* The slot of the origin, 0 when it has none.
Find(cv, o) ==
  IF \E i \in 1..MaxSlots : FoundAt(cv, o, i)
  THEN CHOOSE i \in 1..MaxSlots : FoundAt(cv, o, i)
  ELSE 0

\* Mutant: last_slot, which counts from 1, is taken for an index from 0.
PutSkipping(cv, o) ==
  IF cv.size = 0 THEN cv
  ELSE LET slot == ((cv.last_slot + 1) % cv.size) + 1
       IN  [cv EXCEPT !.last_slot = slot, !.vector = [@ EXCEPT ![slot] = o]]

\* Round robin behind last_slot; the new slot is last_slot of the result.
Put(cv, o) ==
  IF cv.size = 0
  THEN cv
  ELSE LET slot == IF cv.last_slot = cv.size THEN 1 ELSE cv.last_slot + 1
       IN  [cv EXCEPT !.last_slot = slot, !.vector[slot] = o]
=============================================================================
