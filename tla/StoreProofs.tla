----------------------------- MODULE StoreProofs -----------------------------
(***************************************************************************)
(* The containers of the library.  The certificate vector keeps every      *)
(* registered origin findable, for every size of the vector, every set of  *)
(* origins and every sequence of registrations and resizes; the buffer for *)
(* header blocks gives back what was written to it, for chunks of every    *)
(* length; and the heap of PriorityQueue implements OrderedQueue, for all  *)
(* priorities, sequence numbers and lengths.                               *)
(***************************************************************************)
EXTENDS CertStore, ChunkBuffer, PriorityQueue, SequenceTheorems, WellFoundedInduction, TLAPS

\* The occupied slots are a prefix of the slots in use, ...
Prefix ==
  \A i, j \in 1..MaxSlots :
    i < j /\ cv.vector[j] # EmptySlot => cv.vector[i] # EmptySlot

\* ... which covers everything up to the cursor and nothing past the size, ...
CursorInPrefix ==
  \A i \in 1..MaxSlots :
    /\ i <= cv.last_slot => cv.vector[i] # EmptySlot
    /\ i > cv.size => cv.vector[i] = EmptySlot

\* ... and no origin has two slots.
NoDuplicates ==
  \A i, j \in 1..MaxSlots :
    cv.vector[i] = cv.vector[j] /\ cv.vector[i] # EmptySlot => i = j

CertInv == CertTypeOK /\ Prefix /\ CursorInPrefix /\ NoDuplicates

\* The scan of spdylay_client_cert_vector_find returns the only slot of an
\* origin, because no empty slot comes before it.
LEMMA FoundInPrefix ==
  ASSUME CertInv, NEW i \in 1..cv.size, cv.vector[i] # EmptySlot
  PROVE  Find(cv, cv.vector[i]) = i
<1> DEFINE o == cv.vector[i]
<1>1. i \in 1..MaxSlots /\ cv.size \in 0..MaxSlots
  BY SlotsAssumption DEF CertInv, CertTypeOK
<1>2. FoundAt(cv, o, i)
  BY <1>1, SlotsAssumption DEF FoundAt, CertInv, Prefix, NoDuplicates
<1>3. ASSUME NEW j \in 1..MaxSlots, FoundAt(cv, o, j) PROVE j = i
  BY <1>1, <1>3, SlotsAssumption DEF FoundAt, CertInv, NoDuplicates
<1> HIDE DEF o
<1>4. Find(cv, o) = i
  BY <1>1, <1>2, <1>3 DEF Find
<1> QED BY <1>4 DEF o

\* An origin that is not found is in no slot.
LEMMA NotFoundNotStored ==
  ASSUME CertInv, NEW o \in Origins, Find(cv, o) = 0, NEW i \in 1..MaxSlots
  PROVE  cv.vector[i] # o
<1> SUFFICES ASSUME cv.vector[i] = o PROVE FALSE
  OBVIOUS
<1>1. o # EmptySlot
  BY StoreAssumption
<1>2. i \in 1..cv.size
  BY <1>1, SlotsAssumption DEF CertInv, CertTypeOK, CursorInPrefix
<1>3. Find(cv, cv.vector[i]) = i
  BY <1>1, <1>2, FoundInPrefix
<1> QED BY <1>2, <1>3 DEF CertInv, CertTypeOK

LEMMA CertInit == Init => CertInv
  BY SlotsAssumption, StoreAssumption
  DEF Init, CertInv, CertTypeOK, Prefix, CursorInPrefix, NoDuplicates, CertVectorInit

LEMMA RegisterKeepsInv ==
  ASSUME CertInv, NEW o \in Origins, Register(o)
  PROVE  CertInv'
<1> DEFINE slot == IF cv.last_slot = cv.size THEN 1 ELSE cv.last_slot + 1
<1>0. o # EmptySlot
  BY StoreAssumption
<1>1. /\ cv.size \in 1..MaxSlots /\ cv.capacity \in 0..MaxSlots
      /\ cv.last_slot \in 0..cv.size /\ cv.size <= cv.capacity
      /\ cv.vector \in [1..MaxSlots -> Origins \cup {EmptySlot}]
  BY SlotsAssumption DEF Register, CertInv, CertTypeOK
<1>2. slot \in 1..cv.size /\ slot \in 1..MaxSlots
  BY <1>1, SlotsAssumption
<1>3. cv' = [cv EXCEPT !.last_slot = slot, !.vector[slot] = o]
  BY <1>1, SlotsAssumption DEF Register, Put
<1> HIDE DEF slot
<1>4. /\ cv'.size = cv.size /\ cv'.capacity = cv.capacity /\ cv'.last_slot = slot
      /\ cv'.vector = [cv.vector EXCEPT ![slot] = o]
  BY <1>3 DEF CertInv, CertTypeOK
<1>5. CertTypeOK'
  <2>1. cv' = [size |-> cv'.size, capacity |-> cv'.capacity,
               last_slot |-> cv'.last_slot, vector |-> cv'.vector]
    BY <1>3 DEF CertInv, CertTypeOK
  <2>2. cv'.vector \in [1..MaxSlots -> Origins \cup {EmptySlot}]
    BY <1>1, <1>2, <1>4
  <2> QED BY <1>1, <1>2, <1>4, <2>1, <2>2, SlotsAssumption DEF CertTypeOK
<1>6. \A i \in 1..MaxSlots : i < slot => cv.vector[i] # EmptySlot
  BY <1>1, <1>2, SlotsAssumption DEF slot, CertInv, CursorInPrefix
<1>7. Prefix'
  BY <1>0, <1>1, <1>2, <1>4, <1>6, SlotsAssumption DEF Prefix, CertInv
<1>8. CursorInPrefix'
  BY <1>0, <1>1, <1>2, <1>4, <1>6, SlotsAssumption DEF CursorInPrefix, CertInv
<1>9. \A i \in 1..MaxSlots : cv.vector[i] # o
  BY NotFoundNotStored DEF Register
<1>10. NoDuplicates'
  BY <1>1, <1>2, <1>4, <1>9 DEF NoDuplicates, CertInv
<1> QED BY <1>5, <1>7, <1>8, <1>10 DEF CertInv

LEMMA AskKeepsInv ==
  ASSUME CertInv, NEW n \in 0..MaxSlots, Ask(n)
  PROVE  CertInv'
<1>1. /\ cv.size \in 0..MaxSlots /\ cv.capacity \in 0..MaxSlots
      /\ cv.last_slot \in 0..cv.size /\ cv.size <= cv.capacity
      /\ cv.vector \in [1..MaxSlots -> Origins \cup {EmptySlot}]
      /\ n \in 0..MaxSlots
  BY SlotsAssumption DEF CertInv, CertTypeOK
<1>2. CASE cv.capacity < n
  <2>1. /\ cv'.size = n /\ cv'.capacity = n /\ cv'.last_slot = cv.last_slot
        /\ cv'.vector = [i \in 1..MaxSlots |-> IF cv.capacity < i /\ i <= n
                                               THEN EmptySlot ELSE cv.vector[i]]
    BY <1>2 DEF Ask, Resize, CertInv, CertTypeOK
  <2>2. cv' = [size |-> cv'.size, capacity |-> cv'.capacity,
               last_slot |-> cv'.last_slot, vector |-> cv'.vector]
    BY <1>2 DEF Ask, Resize, CertInv, CertTypeOK
  <2>3. \A i \in 1..MaxSlots : cv'.vector[i] = cv.vector[i]
    BY <1>1, <2>1, SlotsAssumption DEF CertInv, CursorInPrefix
  <2>4. cv'.vector \in [1..MaxSlots -> Origins \cup {EmptySlot}]
    BY <1>1, <2>1
  <2>5. CertTypeOK'
    BY <1>1, <1>2, <2>1, <2>2, <2>4, SlotsAssumption DEF CertTypeOK
  <2>6. Prefix' /\ NoDuplicates'
    BY <2>3 DEF Prefix, NoDuplicates, CertInv
  <2>7. CursorInPrefix'
    BY <1>1, <1>2, <2>1, <2>3, SlotsAssumption DEF CursorInPrefix, CertInv
  <2> QED BY <2>5, <2>6, <2>7 DEF CertInv
<1>3. CASE ~(cv.capacity < n)
  <2> DEFINE sz == IF n < cv.size THEN n ELSE cv.size
  <2>1. /\ cv'.size = sz /\ cv'.capacity = cv.capacity
        /\ cv'.last_slot = IF cv.last_slot > sz THEN sz ELSE cv.last_slot
        /\ cv'.vector = [i \in 1..MaxSlots |-> IF n < i /\ i <= cv.size
                                               THEN EmptySlot ELSE cv.vector[i]]
    BY <1>3 DEF Ask, Resize, CertInv, CertTypeOK
  <2>2. cv' = [size |-> cv'.size, capacity |-> cv'.capacity,
               last_slot |-> cv'.last_slot, vector |-> cv'.vector]
    BY <1>3 DEF Ask, Resize, CertInv, CertTypeOK
  <2>3. \A i \in 1..MaxSlots :
          /\ i <= sz => cv'.vector[i] = cv.vector[i]
          /\ i > sz => cv'.vector[i] = EmptySlot
    BY <1>1, <2>1, SlotsAssumption DEF CertInv, CursorInPrefix
  <2>4. cv'.vector \in [1..MaxSlots -> Origins \cup {EmptySlot}]
    BY <1>1, <2>1
  <2>5. CertTypeOK'
    BY <1>1, <1>3, <2>1, <2>2, <2>4, SlotsAssumption DEF CertTypeOK
  <2>6. sz \in 0..MaxSlots
    BY <1>1
  <2> HIDE DEF sz
  <2>7. Prefix' /\ NoDuplicates'
    BY <2>3, <2>6, SlotsAssumption DEF Prefix, NoDuplicates, CertInv
  <2>8. CursorInPrefix'
    BY <1>1, <2>1, <2>3, <2>6, SlotsAssumption DEF CursorInPrefix, CertInv
  <2> QED BY <2>5, <2>7, <2>8 DEF CertInv
<1> QED BY <1>2, <1>3

LEMMA CertNext == CertInv /\ [Next]_vars => CertInv'
<1> SUFFICES ASSUME CertInv, [Next]_vars PROVE CertInv'
  OBVIOUS
<1>1. CASE UNCHANGED vars
  BY <1>1 DEF vars, CertInv, CertTypeOK, Prefix, CursorInPrefix, NoDuplicates
<1>2. CASE \E o \in Origins : Register(o)
  BY <1>2, RegisterKeepsInv
<1>3. CASE \E n \in 0..MaxSlots : Ask(n)
  BY <1>3, AskKeepsInv
<1> QED BY <1>1, <1>2, <1>3 DEF Next

\* Every registration and every resize keeps the vector well formed: the cursor
\* inside the slots in use, those inside the allocation.
THEOREM CertTypeCorrect == Spec => []CertTypeOK
<1>1. CertInv => CertTypeOK
  BY DEF CertInv
<1> QED BY <1>1, CertInit, CertNext, PTL DEF Spec

\* Whatever was registered and resized, an origin in the vector is found in its
\* slot: the early stop of spdylay_client_cert_vector_find never hides one, so no
\* CREDENTIAL is sent twice for an origin the server still has.
THEOREM OriginsAlwaysFound == Spec => []OriginsFound
<1>1. CertInv => OriginsFound
  BY FoundInPrefix DEF OriginsFound
<1> QED BY <1>1, CertInit, CertNext, PTL DEF Spec
-----------------------------------------------------------------------------
(* The round robin replaces the oldest certificate.                        *)

\* The place of slot i in the round: the cursor has the last one.
Turn(v, i) == IF i > v.last_slot THEN i - v.size ELSE i

\* Slots are filled in the order of the round, wherever resizing has left the
\* cursor and the end of the vector.
Aged ==
  \A i, j \in 1..cv.size :
    cv.vector[i] # EmptySlot /\ cv.vector[j] # EmptySlot /\ Turn(cv, i) < Turn(cv, j)
      => <<cv.vector[i], cv.vector[j]>> \in older

\* Cutting the vector to s slots, or letting it grow, leaves the slots that stay
\* in the same order of the round.
LEMMA TurnsKept ==
  ASSUME NEW v, NEW u, v.size \in Nat, u.size \in Nat,
         v.last_slot \in 0..v.size, u.last_slot \in 0..u.size,
         \/ u.last_slot = v.last_slot
         \/ u.last_slot = u.size /\ u.size < v.last_slot,
         NEW i \in 1..v.size, NEW j \in 1..v.size, i <= u.size, j <= u.size,
         Turn(u, i) < Turn(u, j)
  PROVE  Turn(v, i) < Turn(v, j)
  BY SMT DEF Turn

LEMMA StoredSlots ==
  ASSUME NEW v, NEW i \in 1..v.size, v.vector[i] # EmptySlot
  PROVE  v.vector[i] \in Stored(v)
  BY DEF Stored

LEMMA RegisterKeepsAged ==
  ASSUME CertInv, Aged, NEW o \in Origins, Register(o)
  PROVE  Aged'
<1> DEFINE slot == IF cv.last_slot = cv.size THEN 1 ELSE cv.last_slot + 1
<1>0. o # EmptySlot
  BY StoreAssumption
<1>1. /\ cv.size \in 1..MaxSlots /\ cv.last_slot \in 0..cv.size
      /\ cv.vector \in [1..MaxSlots -> Origins \cup {EmptySlot}]
  BY SlotsAssumption DEF Register, CertInv, CertTypeOK
<1>2. slot \in 1..cv.size /\ slot \in 1..MaxSlots
  BY <1>1, SlotsAssumption
<1>3. /\ cv'.size = cv.size /\ cv'.last_slot = slot
      /\ cv'.vector = [cv.vector EXCEPT ![slot] = o]
  BY <1>1, SlotsAssumption DEF Register, Put, CertInv, CertTypeOK
<1>4. older' = Kept(cv') \cup ((Stored(cv') \ {o}) \X {o})
  BY DEF Register
<1> SUFFICES ASSUME NEW i \in 1..cv.size, NEW j \in 1..cv.size,
                    cv'.vector[i] # EmptySlot, cv'.vector[j] # EmptySlot,
                    Turn(cv', i) < Turn(cv', j)
             PROVE  <<cv'.vector[i], cv'.vector[j]>> \in older'
  BY <1>3 DEF Aged
<1>5. i \in 1..MaxSlots /\ j \in 1..MaxSlots
  BY <1>1, SlotsAssumption
<1>6. cv'.vector[i] \in Stored(cv') /\ cv'.vector[j] \in Stored(cv')
  BY <1>3, StoredSlots
<1>7. i # slot
  BY <1>1, <1>2, <1>3 DEF Turn
<1>8. cv'.vector[i] = cv.vector[i] /\ cv.vector[i] # o
  BY <1>1, <1>3, <1>5, <1>7, NotFoundNotStored DEF Register
<1>9. CASE j = slot
  BY <1>1, <1>2, <1>3, <1>4, <1>6, <1>8, <1>9
<1>10. CASE j # slot
  <2>1. cv'.vector[j] = cv.vector[j]
    BY <1>1, <1>3, <1>5, <1>10
  <2>2. Turn(cv, i) < Turn(cv, j)
    BY <1>1, <1>2, <1>3, <1>7, <1>10 DEF Turn
  <2>3. <<cv.vector[i], cv.vector[j]>> \in older
    BY <2>1, <2>2, <1>8 DEF Aged
  <2>4. QED
    BY <2>1, <2>3, <1>4, <1>6, <1>8 DEF Kept
<1>11. QED
  BY <1>9, <1>10

LEMMA AskKeepsAged ==
  ASSUME CertInv, Aged, NEW n \in 0..MaxSlots, Ask(n)
  PROVE  Aged'
<1>1. /\ cv.size \in 0..MaxSlots /\ cv.capacity \in 0..MaxSlots
      /\ cv.last_slot \in 0..cv.size /\ cv.size <= cv.capacity
      /\ cv.vector \in [1..MaxSlots -> Origins \cup {EmptySlot}]
      /\ n \in 0..MaxSlots
  BY SlotsAssumption DEF CertInv, CertTypeOK
<1>2. older' = Kept(cv')
  BY DEF Ask
<1>3. /\ cv'.size \in 0..MaxSlots /\ cv'.last_slot \in 0..cv'.size
      /\ \/ cv'.last_slot = cv.last_slot
         \/ cv'.last_slot = cv'.size /\ cv'.size < cv.last_slot
      /\ \A i \in 1..MaxSlots : cv'.vector[i] = cv.vector[i] \/ cv'.vector[i] = EmptySlot
  <2>1. CASE cv.capacity < n
    <3>1. /\ cv'.size = n /\ cv'.last_slot = cv.last_slot
          /\ cv'.vector = [i \in 1..MaxSlots |-> IF cv.capacity < i /\ i <= n
                                                 THEN EmptySlot ELSE cv.vector[i]]
      BY <2>1 DEF Ask, Resize, CertInv, CertTypeOK
    <3>2. QED
      BY <1>1, <2>1, <3>1, SlotsAssumption
  <2>2. CASE ~(cv.capacity < n)
    <3> DEFINE sz == IF n < cv.size THEN n ELSE cv.size
    <3>1. /\ cv'.size = sz
          /\ cv'.last_slot = IF cv.last_slot > sz THEN sz ELSE cv.last_slot
          /\ cv'.vector = [i \in 1..MaxSlots |-> IF n < i /\ i <= cv.size
                                                 THEN EmptySlot ELSE cv.vector[i]]
      BY <2>2 DEF Ask, Resize, CertInv, CertTypeOK
    <3>2. QED
      BY <1>1, <3>1, SlotsAssumption
  <2>3. QED
    BY <2>1, <2>2
<1> SUFFICES ASSUME NEW i \in 1..cv'.size, NEW j \in 1..cv'.size,
                    cv'.vector[i] # EmptySlot, cv'.vector[j] # EmptySlot,
                    Turn(cv', i) < Turn(cv', j)
             PROVE  <<cv'.vector[i], cv'.vector[j]>> \in older'
  BY DEF Aged
<1>4. i \in 1..MaxSlots /\ j \in 1..MaxSlots
  BY <1>3, SlotsAssumption
<1>5. cv'.vector[i] = cv.vector[i] /\ cv'.vector[j] = cv.vector[j]
  BY <1>3, <1>4
<1>6. i \in 1..cv.size /\ j \in 1..cv.size
  BY <1>1, <1>4, <1>5, SlotsAssumption DEF CertInv, CursorInPrefix
<1>7. Turn(cv, i) < Turn(cv, j)
  <2>1. cv.size \in Nat /\ cv'.size \in Nat /\ i <= cv'.size /\ j <= cv'.size
    BY <1>1, <1>3, SlotsAssumption
  <2>2. QED
    BY <1>1, <1>3, <1>6, <2>1, TurnsKept
<1>8. <<cv.vector[i], cv.vector[j]>> \in older
  BY <1>5, <1>6, <1>7 DEF Aged
<1>9. cv'.vector[i] \in Stored(cv') /\ cv'.vector[j] \in Stored(cv')
  BY StoredSlots
<1>10. QED
  BY <1>2, <1>5, <1>8, <1>9 DEF Kept

LEMMA AgedStep == CertInv /\ Aged /\ [Next]_vars => Aged'
<1> SUFFICES ASSUME CertInv, Aged, [Next]_vars PROVE Aged'
  OBVIOUS
<1>1. CASE UNCHANGED vars
  BY <1>1 DEF vars, Aged, Turn
<1>2. CASE \E o \in Origins : Register(o)
  BY <1>2, RegisterKeepsAged
<1>3. CASE \E n \in 0..MaxSlots : Ask(n)
  BY <1>3, AskKeepsAged
<1>4. QED
  BY <1>1, <1>2, <1>3 DEF Next

\* What one step may replace, as in EvictsOldest.
OldestGivesWay ==
  \A i \in 1..cv.size :
    cv'.size = cv.size /\ cv.vector[i] # cv'.vector[i] /\ cv.vector[i] # EmptySlot
      => \A o \in Stored(cv) \ {cv.vector[i]} : <<cv.vector[i], o>> \in older

LEMMA RegisterEvicts ==
  ASSUME CertInv, Aged, NEW o \in Origins, Register(o)
  PROVE  OldestGivesWay
<1> DEFINE slot == IF cv.last_slot = cv.size THEN 1 ELSE cv.last_slot + 1
<1>1. /\ cv.size \in 1..MaxSlots /\ cv.last_slot \in 0..cv.size
      /\ cv.vector \in [1..MaxSlots -> Origins \cup {EmptySlot}]
  BY SlotsAssumption DEF Register, CertInv, CertTypeOK
<1>2. slot \in 1..cv.size /\ slot \in 1..MaxSlots
  BY <1>1, SlotsAssumption
<1>3. cv'.vector = [cv.vector EXCEPT ![slot] = o]
  BY <1>1, SlotsAssumption DEF Register, Put, CertInv, CertTypeOK
<1> SUFFICES ASSUME NEW i \in 1..cv.size, cv.vector[i] # cv'.vector[i], cv.vector[i] # EmptySlot,
                    NEW p \in Stored(cv) \ {cv.vector[i]}
             PROVE  <<cv.vector[i], p>> \in older
  BY DEF OldestGivesWay
<1>4. i \in 1..MaxSlots
  BY <1>1, SlotsAssumption
<1>5. i = slot
  BY <1>1, <1>3, <1>4
<1>6. PICK j \in 1..cv.size : p = cv.vector[j] /\ p # EmptySlot
  BY DEF Stored
<1>7. j # slot
  BY <1>5, <1>6
<1>8. Turn(cv, slot) < Turn(cv, j)
  BY <1>1, <1>2, <1>6, <1>7 DEF Turn
<1>9. QED
  BY <1>5, <1>6, <1>8 DEF Aged

\* Resizing that leaves the size alone leaves the slots alone.
LEMMA AskEvictsNone ==
  ASSUME CertInv, NEW n \in 0..MaxSlots, Ask(n)
  PROVE  OldestGivesWay
<1>1. /\ cv.size \in 0..MaxSlots /\ cv.capacity \in 0..MaxSlots
      /\ cv.size <= cv.capacity /\ n \in 0..MaxSlots
  BY SlotsAssumption DEF CertInv, CertTypeOK
<1> SUFFICES ASSUME NEW i \in 1..cv.size, cv'.size = cv.size
             PROVE  cv.vector[i] = cv'.vector[i]
  BY DEF OldestGivesWay
<1>2. i \in 1..MaxSlots
  BY <1>1, SlotsAssumption
<1>3. CASE cv.capacity < n
  BY <1>1, <1>2, <1>3, SlotsAssumption DEF Ask, Resize, CertInv, CertTypeOK
<1>4. CASE ~(cv.capacity < n)
  <2> DEFINE sz == IF n < cv.size THEN n ELSE cv.size
  <2>1. /\ cv'.size = sz
        /\ cv'.vector = [k \in 1..MaxSlots |-> IF n < k /\ k <= cv.size
                                               THEN EmptySlot ELSE cv.vector[k]]
    BY <1>4 DEF Ask, Resize, CertInv, CertTypeOK
  <2>2. QED
    BY <1>1, <1>2, <2>1, SlotsAssumption
<1>5. QED
  BY <1>3, <1>4

LEMMA StepEvictsOldest == CertInv /\ Aged /\ [Next]_vars => [OldestGivesWay]_vars
<1> SUFFICES ASSUME CertInv, Aged, Next PROVE OldestGivesWay
  OBVIOUS
<1>1. QED
  BY RegisterEvicts, AskEvictsNone DEF Next

\* Whatever the sequence of registrations and resizes, growing a vector whose
\* round has wrapped included, the certificate that spdylay_client_cert_vector_put
\* replaces is the one that was registered first of those in the vector.
THEOREM OldestEvicted == Spec => EvictsOldest
<1>1. Init => Aged
  <2>1. Init => \A i \in 1..cv.size : cv.vector[i] = EmptySlot
    BY SlotsAssumption, StoreAssumption DEF Init, CertVectorInit
  <2>2. QED
    BY <2>1 DEF Aged
<1>2. Spec => [](CertInv /\ Aged)
  BY <1>1, CertInit, CertNext, AgedStep, PTL DEF Spec
<1>3. QED
  BY <1>2, StepEvictsOldest, PTL DEF Spec, EvictsOldest, OldestGivesWay
-----------------------------------------------------------------------------
(***************************************************************************)
(* Induction, for sets: a set of numbers has a least one, so that a set    *)
(* closed under i + 1 below n has all of 0..n.                             *)
(***************************************************************************)
LEMMA LeastNumber ==
  ASSUME NEW T, T \subseteq Nat, T # {}
  PROVE  \E x \in T : \A y \in T : ~(y < x)
<1> DEFINE R == OpToRel(<, Nat)
<1>1. IsWellFoundedOn(R, Nat)
  BY NatLessThanWellFounded, Zenon
<1>2. \E x \in T : \A y \in T : ~(<<y, x>> \in R)
  <2> HIDE DEF R
  <2> QED
    BY <1>1, WFMin
<1>3. QED
  BY <1>2 DEF OpToRel

LEMMA UpTo ==
  ASSUME NEW n \in Nat, NEW T, 0 \in T, \A i \in 0..(n - 1) : i \in T => i + 1 \in T
  PROVE  \A i \in 0..n : i \in T
<1> DEFINE U == {i \in 0..n : i \notin T}
<1> SUFFICES ASSUME U # {} PROVE FALSE
  OBVIOUS
<1>1. U \subseteq Nat
  OBVIOUS
<1>2. PICK x \in U : \A y \in U : ~(y < x)
  <2> HIDE DEF U
  <2> QED
    BY <1>1, LeastNumber
<1>3. x # 0 /\ x \in 0..n /\ x \notin T
  BY <1>2
<1>4. x - 1 \in 0..(n - 1) /\ x - 1 < x
  BY <1>3
<1>5. x - 1 \in T
  BY <1>2, <1>4
<1>6. (x - 1) + 1 \in T
  BY <1>4, <1>5
<1>7. QED
  BY <1>3, <1>6

\* f is the states after each of n turns F of a loop that starts at w; as long as they
\* are in D.
Loop(n, D, w, F, f) == f[0] = w /\ \A i \in 1..n : f[i - 1] \in D => f[i] = F[f[i - 1]]

\* A turn stays in D, and lessens the measure M until it is zero.
Lessens(D, F, M) ==
  F \in [D -> D] /\ M \in [D -> Nat] /\ \A x \in D : M[F[x]] < M[x] \/ M[F[x]] = 0

\* A loop has a run of n turns.
LEMMA LoopExists ==
  ASSUME NEW n \in Nat, NEW D, NEW w \in D, NEW F, NEW M, Lessens(D, F, M)
  PROVE  \E f : f \in [0..n -> D] /\ Loop(n, D, w, F, f)
<1> DEFINE Run(m, f) == f[0] = w /\ \A i \in 1..m : f[i] = F[f[i - 1]]
           T == {m \in 0..n : \E f \in [0..m -> D] : Run(m, f)}
<1> F \in [D -> D]
  BY DEF Lessens
<1>1. 0 \in T
  <2> DEFINE f == [i \in 0..0 |-> w]
  <2>1. f \in [0..0 -> D] /\ f[0] = w /\ 1..0 = {}
    OBVIOUS
  <2> HIDE DEF f
  <2>2. Run(0, f)
    BY <2>1
  <2>3. QED
    BY <2>1, <2>2
<1>2. ASSUME NEW m \in 0..(n - 1), m \in T PROVE m + 1 \in T
  <2>1. PICK f \in [0..m -> D] : Run(m, f)
    BY <1>2
  <2> DEFINE g == [i \in 0..(m + 1) |-> IF i = m + 1 THEN F[f[m]] ELSE f[i]]
  <2>2. m \in 0..m /\ f[m] \in D /\ F[f[m]] \in D /\ m \in Nat /\ m # m + 1 /\ 0 # m + 1
    OBVIOUS
  <2>3. \A i \in 0..(m + 1) : i # m + 1 => i \in 0..m
    OBVIOUS
  <2>4. g \in [0..(m + 1) -> D]
    BY <2>2, <2>3
  <2>5. g[0] = w /\ g[m + 1] = F[f[m]] /\ \A i \in 0..m : g[i] = f[i]
    BY <2>1, <2>2
  <2> HIDE DEF g
  <2>6. ASSUME NEW i \in 1..(m + 1) PROVE g[i] = F[g[i - 1]]
    <3>1. CASE i = m + 1
      BY <2>2, <2>5, <3>1
    <3>2. CASE i # m + 1
      <4>1. i \in 1..m /\ i \in 0..m /\ i - 1 \in 0..m
        BY <2>2, <3>2
      <4>2. QED
        BY <2>1, <2>5, <4>1
    <3>3. QED
      BY <3>1, <3>2
  <2>7. Run(m + 1, g)
    BY <2>5, <2>6
  <2>8. m + 1 \in 0..n
    OBVIOUS
  <2> HIDE DEF Run
  <2>9. QED
    BY <2>4, <2>7, <2>8
<1>3. n \in T
  <2> HIDE DEF T
  <2>1. \A m \in 0..n : m \in T
    BY <1>1, <1>2, UpTo
  <2>2. QED
    BY <2>1
<1>4. QED
  BY <1>3 DEF Loop

\* The measure is zero in the end if it is n at most in the beginning.
LEMMA LoopEnds ==
  ASSUME NEW n \in Nat, NEW D, NEW w \in D, NEW F, NEW M, Lessens(D, F, M), M[w] <= n,
         NEW f, Loop(n, D, w, F, f)
  PROVE  f[n] \in D /\ M[f[n]] = 0
<1> /\ F \in [D -> D] /\ M \in [D -> Nat] /\ f[0] = w
    /\ \A x \in D : M[F[x]] < M[x] \/ M[F[x]] = 0
    /\ \A i \in 1..n : f[i - 1] \in D => f[i] = F[f[i - 1]]
  BY DEF Lessens, Loop
<1> DEFINE T == {i \in 0..n : f[i] \in D /\ M[f[i]] <= n - i}
<1>1. 0 \in T
  OBVIOUS
<1>2. ASSUME NEW i \in 0..(n - 1), i \in T PROVE i + 1 \in T
  <2> DEFINE x == f[i]
             y == f[i + 1]
  <2>1. x \in D /\ M[x] <= n - i /\ M[x] \in Nat
    BY <1>2
  <2>2. i + 1 \in 1..n /\ (i + 1) - 1 = i /\ i + 1 \in 0..n /\ i \in Nat
    OBVIOUS
  <2>3. y = F[x]
    BY <2>1, <2>2
  <2> HIDE DEF x, y
  <2>4. y \in D /\ M[y] \in Nat /\ (M[y] < M[x] \/ M[y] = 0)
    BY <2>1, <2>3
  <2>5. M[y] <= n - (i + 1)
    BY <2>1, <2>2, <2>4
  <2>6. QED
    BY <2>2, <2>4, <2>5 DEF y
<1>3. n \in T
  <2> HIDE DEF T
  <2>1. \A i \in 0..n : i \in T
    BY <1>1, <1>2, UpTo
  <2>2. QED
    BY <2>1
<1>4. M[f[n]] \in Nat /\ M[f[n]] <= n - n /\ f[n] \in D
  BY <1>3
<1>5. QED
  BY <1>4
-----------------------------------------------------------------------------
(* The buffer: octet o of chunk c is octet Base(c) + o of what was written. *)

Chunk == [1..ChunkLen -> Symbols \cup {Garbage}]
BufferType == [chunks : Seq(Chunk), current : Nat, last_offset : Nat, len : Nat]

Base(c) == (c - 1) * ChunkLen

\* The buffer b holds w.
Holds(b, w) ==
  /\ b \in BufferType /\ w \in Seq(Symbols)
  /\ b.current <= Len(b.chunks) /\ (b.current = 0 => b.last_offset = ChunkLen) /\ b.last_offset <= ChunkLen
  /\ b.len = Base(b.current) + b.last_offset /\ b.len = Len(w)
  /\ \A c \in 1..b.current, o \in 1..ChunkLen :
       Base(c) + o <= b.len => w[Base(c) + o] = b.chunks[c][o]

BufferInv == Holds(buffer, written)

\* Chunks follow each other, ...
LEMMA BaseStep ==
  ASSUME NEW c \in Nat
  PROVE  Base(c) \in Int /\ Base(c + 1) = Base(c) + ChunkLen /\ Base(1) = 0 /\ Base(0) + ChunkLen = 0
  BY BufferAssumption DEF Base

\* ... and do not overlap.
LEMMA BaseOrder ==
  ASSUME NEW c \in Nat, NEW d \in Nat, c < d
  PROVE  Base(c) + ChunkLen <= Base(d)
<1> DEFINE k == (d - 1) - c
<1>1. k \in Nat /\ d - 1 = c + k /\ ChunkLen \in Nat
  BY BufferAssumption
<1>2. k * ChunkLen \in Nat
  BY <1>1
<1> HIDE DEF k
<1>3. (c + k) * ChunkLen = c * ChunkLen + k * ChunkLen /\ c * ChunkLen \in Nat
  BY <1>1
<1>4. Base(c) + ChunkLen = c * ChunkLen
  BY <1>1 DEF Base
<1>5. QED
  BY <1>1, <1>2, <1>3, <1>4 DEF Base

\* A new buffer holds nothing, ...
LEMMA NewHolds == Holds(BufferNew, <<>>)
<1>1. ChunkLen \in Nat /\ Base(0) + ChunkLen = 0
  BY BaseStep, BufferAssumption
<1>2. BufferNew \in BufferType
  BY <1>1 DEF BufferNew, BufferType
<1>3. 1..0 = {}
  OBVIOUS
<1>4. QED
  BY <1>1, <1>2, <1>3 DEF Holds, BufferNew

\* ... and so does one that was reset, with the chunks it has.
LEMMA ResetHolds ==
  ASSUME NEW b, NEW w, Holds(b, w)
  PROVE  Holds(BufferReset(b), <<>>)
<1> DEFINE v == BufferReset(b)
<1>1. ChunkLen \in Nat /\ Base(0) + ChunkLen = 0 /\ b \in BufferType
  BY BaseStep, BufferAssumption DEF Holds
<1>2. v \in BufferType /\ v.current = 0 /\ v.len = 0 /\ v.last_offset = ChunkLen /\ v.chunks = b.chunks
  BY <1>1 DEF BufferReset, BufferType
<1>3. b.chunks \in Seq(Chunk) /\ Len(b.chunks) \in Nat /\ 1..0 = {}
  BY <1>1 DEF BufferType
<1> HIDE DEF v
<1>4. Holds(v, <<>>)
  BY <1>1, <1>2, <1>3 DEF Holds
<1>5. QED
  BY <1>4 DEF v

\* The next chunk, taken when the current one is full: no octet moves.
LEMMA AllocHolds ==
  ASSUME NEW b, NEW w, Holds(b, w), BufferAvail(b) = 0
  PROVE  LET v == BufferAlloc(b)
         IN  Holds(v, w) /\ v.current > 0 /\ v.last_offset = 0
<1> DEFINE v == BufferAlloc(b)
           g == [i \in 1..ChunkLen |-> Garbage]
           n == Len(b.chunks)
<1>1. /\ b \in BufferType /\ b.chunks \in Seq(Chunk) /\ n \in Nat /\ b.current \in Nat /\ b.len \in Nat
      /\ ChunkLen \in Nat \ {0} /\ b.last_offset = ChunkLen /\ g \in Chunk /\ b.current <= n
  BY BufferAssumption DEF Holds, BufferType, BufferAvail, Chunk
<1> HIDE DEF g
<1> DEFINE h == IF b.current < n THEN b.chunks ELSE Append(b.chunks, g)
<1>10. h \in Seq(Chunk) /\ b.current + 1 <= Len(h) /\ \A c \in 1..b.current : h[c] = b.chunks[c]
  BY <1>1
<1>9. v = [b EXCEPT !.chunks = h, !.current = b.current + 1, !.len = b.len + (ChunkLen - b.last_offset),
                    !.last_offset = 0]
  BY <1>1 DEF BufferAlloc, BufferAvail, BufferType, g
<1> HIDE DEF v, h
<1>11. b.len + (ChunkLen - b.last_offset) = b.len /\ b.current + 1 \in Nat
  BY <1>1
<1>2. v \in BufferType /\ v.chunks = h /\ v.current = b.current + 1 /\ v.len = b.len /\ v.last_offset = 0
  BY <1>1, <1>9, <1>10, <1>11 DEF BufferType
<1>3. v.current <= Len(v.chunks) /\ \A c \in 1..b.current : v.chunks[c] = b.chunks[c]
  BY <1>2, <1>10
<1>5. v.len = Base(v.current) + v.last_offset
  <2>1. Base(b.current) \in Int /\ Base(b.current + 1) = Base(b.current) + ChunkLen
    BY <1>1, BaseStep
  <2>2. b.len = Base(b.current) + ChunkLen
    BY <1>1 DEF Holds
  <2>3. Base(v.current) = Base(b.current) + ChunkLen
    BY <1>2, <2>1
  <2>4. QED
    BY <1>1, <1>2, <2>1, <2>2, <2>3
<1>6. ASSUME NEW c \in 1..v.current, NEW o \in 1..ChunkLen, Base(c) + o <= v.len
      PROVE  w[Base(c) + o] = v.chunks[c][o]
  <2>1. c # v.current
    <3>1. Base(v.current) \in Int
      BY <1>2, <1>11, BaseStep
    <3>2. QED
      BY <1>1, <1>2, <1>5, <1>6, <3>1
  <2>2. c \in 1..b.current
    BY <1>1, <1>2, <2>1
  <2>3. QED
    BY <1>2, <1>3, <1>6, <2>2 DEF Holds
<1>7. Holds(v, w)
  BY <1>1, <1>2, <1>3, <1>5, <1>6 DEF Holds
<1>8. QED
  BY <1>1, <1>2, <1>7 DEF v

\* What is put behind the last octet follows it.
LEMMA PutHolds ==
  ASSUME NEW b, NEW w, Holds(b, w), NEW data \in Seq(Symbols), b.current > 0, Len(data) <= BufferAvail(b)
  PROVE  Holds(BufferPut(b, data), w \o data)
<1> DEFINE v == BufferPut(b, data)
           k == b.current
           f == b.last_offset
           n == Len(data)
           x == [i \in 1..ChunkLen |-> IF i - f \in 1..n THEN data[i - f] ELSE b.chunks[k][i]]
           u == w \o data
<1>1. /\ b \in BufferType /\ b.chunks \in Seq(Chunk) /\ Len(b.chunks) \in Nat /\ k \in 1..Len(b.chunks)
      /\ b.len \in Nat /\ b.len = Len(w) /\ w \in Seq(Symbols) /\ k \in Nat
      /\ ChunkLen \in Nat \ {0} /\ f \in 0..ChunkLen /\ n \in Nat /\ f + n <= ChunkLen
  BY BufferAssumption DEF Holds, BufferType, BufferAvail
<1>2. b.chunks[k] \in Chunk /\ x \in Chunk
  BY <1>1 DEF Chunk
<1> DEFINE h == [b.chunks EXCEPT ![k] = x]
<1>13. v = [b EXCEPT !.chunks = h, !.last_offset = f + n, !.len = b.len + n]
  BY <1>1 DEF BufferPut, BufferType
<1> HIDE DEF v
<1>4. u \in Seq(Symbols) /\ Len(u) = b.len + n
      /\ (\A i \in 1..b.len : u[i] = w[i]) /\ (\A i \in 1..n : u[b.len + i] = data[i])
  BY <1>1
<1> HIDE DEF u
<1>14. /\ h \in Seq(Chunk) /\ Len(h) = Len(b.chunks) /\ h[k] = x
       /\ \A c \in 1..Len(b.chunks) : c # k => h[c] = b.chunks[c]
  <2> HIDE DEF x, k
  <2>1. QED
    BY <1>1, <1>2
<1> HIDE DEF h, x
<1>15. f + n \in Nat /\ f + n <= ChunkLen /\ b.len + n \in Nat
  BY <1>1
<1>3. v \in BufferType /\ v.chunks = h /\ v.current = k /\ v.last_offset = f + n /\ v.len = b.len + n
  BY <1>1, <1>13, <1>14, <1>15 DEF BufferType
<1>5. /\ Len(v.chunks) = Len(b.chunks) /\ v.chunks[k] = x
      /\ \A c \in 1..Len(b.chunks) : c # k => v.chunks[c] = b.chunks[c]
  BY <1>3, <1>14
<1>7. b.len = Base(k) + f /\ Base(k) \in Int
  BY <1>1, BaseStep DEF Holds
<1>8. ASSUME NEW c \in 1..k, NEW o \in 1..ChunkLen, Base(c) + o <= v.len
      PROVE  u[Base(c) + o] = v.chunks[c][o]
  <2>1. c \in Nat /\ c \in 1..Len(b.chunks) /\ Base(c) \in Int
    <3>1. c \in Nat /\ c \in 1..Len(b.chunks)
      BY <1>1
    <3>2. QED
      BY <3>1, BaseStep
  <2>2. Base(c) + o \in Nat \ {0}
    <3>1. Base(1) = 0 /\ Base(c) >= 0
      <4>1. CASE c = 1
        BY <4>1, BaseStep
      <4>2. CASE c # 1
        BY <1>1, <2>1, <4>2, BaseStep, BaseOrder
      <4>3. QED
        BY <4>1, <4>2
    <3>2. QED
      BY <2>1, <3>1
  <2>3. CASE c # k
    <3>1. Base(c) + ChunkLen <= Base(k)
      BY <1>1, <2>1, <2>3, BaseOrder
    <3>2. Base(c) + o <= b.len
      BY <1>1, <1>7, <2>1, <3>1
    <3>3. w[Base(c) + o] = b.chunks[c][o]
      BY <3>2 DEF Holds
    <3>4. Base(c) + o \in 1..b.len
      BY <1>1, <2>2, <3>2
    <3>5. QED
      BY <1>4, <1>5, <2>1, <2>3, <3>3, <3>4
  <2>4. CASE c = k /\ o <= f
    <3>1. Base(c) + o <= b.len
      BY <1>1, <1>7, <2>4
    <3>2. w[Base(c) + o] = b.chunks[c][o]
      BY <3>1 DEF Holds
    <3>3. x[o] = b.chunks[k][o]
      BY <1>1, <2>4 DEF x
    <3>4. Base(c) + o \in 1..b.len
      BY <1>1, <2>2, <3>1
    <3>5. QED
      BY <1>4, <1>5, <2>4, <3>2, <3>3, <3>4
  <2>5. CASE c = k /\ o > f
    <3>1. o - f \in 1..n /\ Base(c) + o = b.len + (o - f)
      <4>1. Base(c) + o <= b.len + n /\ Base(c) = Base(k)
        BY <1>3, <1>8, <2>5
      <4> HIDE DEF k, f, n
      <4>2. QED
        BY <1>1, <1>7, <2>5, <4>1
    <3>2. x[o] = data[o - f]
      BY <3>1 DEF x
    <3>3. QED
      BY <1>4, <1>5, <2>5, <3>1, <3>2
  <2>6. QED
    BY <1>1, <2>3, <2>4, <2>5
<1>9. v.len = Base(v.current) + v.last_offset
  BY <1>1, <1>3, <1>7
<1>10. v.current <= Len(v.chunks) /\ v.current # 0
  BY <1>1, <1>3, <1>5
<1>11. Holds(v, u)
  <2> HIDE DEF k, f, n, x
  <2>1. QED
    BY <1>3, <1>4, <1>8, <1>9, <1>10, <1>15 DEF Holds
<1>12. QED
  BY <1>11 DEF v, u
-----------------------------------------------------------------------------
(* Writing.                                                                *)

\* v is what is left to do after c of data was written behind w.
Written(w, data, c, v) ==
  /\ v \in [b : BufferType, rest : Seq(Symbols)]
  /\ c \in Seq(Symbols) /\ data = c \o v.rest /\ Holds(v.b, w \o c)

\* Concatenation is associative.
LEMMA Regroup ==
  ASSUME NEW s \in Seq(Symbols), NEW t \in Seq(Symbols), NEW u \in Seq(Symbols)
  PROVE  (s \o t) \o u = s \o (t \o u)
  BY ConcatAssociative, SMT

\* A turn of spdylay_buffer_write writes more of the data.
LEMMA WriteTurnHolds ==
  ASSUME NEW w \in Seq(Symbols), NEW data, NEW c, NEW v, Written(w, data, c, v)
  PROVE  \E d : Written(w, data, d, WriteTurn(v))
<1> DEFINE stop == v.rest = <<>> \/ (BufferAvail(v.b) = 0 /\ ~CanAlloc(v.b))
           b == IF BufferAvail(v.b) = 0 THEN BufferAlloc(v.b) ELSE v.b
           n == IF Len(v.rest) < BufferAvail(b) THEN Len(v.rest) ELSE BufferAvail(b)
           s == SubSeq(v.rest, 1, n)
           t == SubSeq(v.rest, n + 1, Len(v.rest))
<1>1. CASE stop
  BY <1>1 DEF WriteTurn
<1>2. CASE ~stop
  <2>1. WriteTurn(v) = [b |-> BufferPut(b, s), rest |-> t]
    BY <1>2 DEF WriteTurn
  <2>2. /\ c \in Seq(Symbols) /\ v.rest \in Seq(Symbols) /\ Len(v.rest) \in Nat /\ data = c \o v.rest
        /\ Holds(v.b, w \o c)
    BY DEF Written
  <2>3. Holds(b, w \o c) /\ b.current > 0
    <3>1. CASE BufferAvail(v.b) = 0
      BY <2>2, <3>1, AllocHolds
    <3>2. CASE BufferAvail(v.b) # 0
      <4>1. v.b.current # 0 /\ v.b.current \in Nat
        BY <2>2, <3>2, BufferAssumption DEF Holds, BufferAvail, BufferType
      <4>2. QED
        BY <2>2, <3>2, <4>1
    <3>3. QED
      BY <3>1, <3>2
  <2> HIDE DEF b
  <2>4. BufferAvail(b) \in Nat
    BY <2>3, BufferAssumption DEF Holds, BufferType, BufferAvail
  <2>5. n \in 0..Len(v.rest) /\ n <= BufferAvail(b)
    BY <2>2, <2>4
  <2> HIDE DEF n
  <2>6. s \in Seq(Symbols) /\ t \in Seq(Symbols) /\ Len(s) = n
    BY <2>2, <2>5
  <2>7. v.rest = s \o t
    <3>1. SubSeq(v.rest, 1, n) \o SubSeq(v.rest, n + 1, Len(v.rest)) = SubSeq(v.rest, 1, Len(v.rest))
      <4>1. 1 \in 1..Len(v.rest) + 1 /\ n \in (1 - 1)..Len(v.rest) /\ Len(v.rest) \in n..Len(v.rest)
        BY <2>2, <2>5
      <4>2. QED
        BY <2>2, <4>1, ConcatAdjacentSubSeq
    <3>2. SubSeq(v.rest, 1, Len(v.rest)) = v.rest
      BY <2>2, SubSeqFull
    <3>3. QED
      BY <3>1, <3>2
  <2> HIDE DEF s, t
  <2>8. data = (c \o s) \o t
    <3>1. (c \o s) \o t = c \o (s \o t)
      BY <2>2, <2>6, Regroup
    <3>2. QED
      BY <2>2, <2>7, <3>1
  <2>9. Holds(BufferPut(b, s), (w \o c) \o s)
    BY <2>3, <2>5, <2>6, PutHolds
  <2>10. (w \o c) \o s = w \o (c \o s)
    BY <2>2, <2>6, Regroup
  <2>11. c \o s \in Seq(Symbols)
    BY <2>2, <2>6
  <2>12. Written(w, data, c \o s, WriteTurn(v))
    <3>1. BufferPut(b, s) \in BufferType
      BY <2>9 DEF Holds
    <3>2. WriteTurn(v) \in [b : BufferType, rest : Seq(Symbols)]
      BY <2>1, <2>6, <3>1
    <3>3. QED
      BY <2>1, <2>8, <2>9, <2>10, <2>11, <3>2 DEF Written
  <2>13. QED
    BY <2>12
<1>3. QED
  BY <1>1, <1>2

WriteRun(b, data, f) ==
  f = [i \in 0..Len(data) |-> IF i = 0 THEN [b |-> b, rest |-> data] ELSE WriteTurn(f[i - 1])]

\* spdylay_buffer_write writes a prefix of the data, whatever memory there is.
LEMMA WriteHolds ==
  ASSUME NEW b, NEW w, Holds(b, w), NEW data \in Seq(Symbols)
  PROVE  \E c : Written(w, data, c, BufferWrite(b, data))
<1> DEFINE n == Len(data)
           x == [b |-> b, rest |-> data]
           D == {v \in [b : BufferType, rest : Seq(Symbols)] : \E c : Written(w, data, c, v)}
           F == [v \in D |-> WriteTurn(v)]
           M == [v \in D |-> 0]
           run == CHOOSE f : WriteRun(b, data, f)
<1>1. n \in Nat /\ w \in Seq(Symbols) /\ b \in BufferType
  BY DEF Holds
<1>2. x \in D
  <2>1. data = <<>> \o data /\ w \o <<>> = w /\ <<>> \in Seq(Symbols)
    BY <1>1, ConcatEmptySeq
  <2>2. Written(w, data, <<>>, x)
    BY <1>1, <2>1 DEF Written
  <2>3. QED
    BY <1>1, <2>2
<1>3. ASSUME NEW v \in D PROVE WriteTurn(v) \in D
  <2>1. PICK c : Written(w, data, c, v)
    OBVIOUS
  <2>2. PICK d : Written(w, data, d, WriteTurn(v))
    BY <1>1, <2>1, WriteTurnHolds
  <2>3. QED
    BY <2>2 DEF Written
<1> HIDE DEF D, x, n
<1>4. Lessens(D, F, M) /\ (\A v \in D : F[v] = WriteTurn(v)) /\ M[x] = 0
  BY <1>2, <1>3 DEF Lessens
<1> HIDE DEF F, M
<1>5. PICK f : f \in [0..n -> D] /\ Loop(n, D, x, F, f)
  BY <1>1, <1>2, <1>4, LoopExists
<1>6. WriteRun(b, data, f)
  <2>1. ASSUME NEW i \in 0..n PROVE f[i] = IF i = 0 THEN x ELSE WriteTurn(f[i - 1])
    <3>1. CASE i = 0
      BY <1>5, <3>1 DEF Loop
    <3>2. CASE i # 0
      <4>1. i \in 1..n /\ i - 1 \in 0..n
        BY <1>1, <3>2
      <4>2. f[i - 1] \in D
        BY <1>5, <4>1
      <4>3. QED
        BY <1>4, <1>5, <3>2, <4>1, <4>2 DEF Loop
    <3>3. QED
      BY <3>1, <3>2
  <2>2. QED
    BY <1>5, <2>1 DEF WriteRun, n, x
<1>7. WriteRun(b, data, run)
  BY <1>6
<1>8. BufferWrite(b, data) = run[n]
  BY Zenon DEF BufferWrite, WriteRun, n
<1> HIDE DEF run
<1>9. run[0] = x /\ \A i \in 1..n : run[i] = WriteTurn(run[i - 1])
  BY <1>1, <1>7 DEF WriteRun, n, x
<1>10. run[n] \in D
  <2>1. Loop(n, D, x, F, run)
    BY <1>4, <1>9 DEF Loop
  <2>2. M[x] <= n
    BY <1>1, <1>4
  <2>3. QED
    BY <1>1, <1>2, <1>4, <2>1, <2>2, LoopEnds
<1>11. QED
  BY <1>8, <1>10 DEF D
-----------------------------------------------------------------------------
(* Reading.                                                                *)

\* The reader r stands behind octet p.
At(r, p) ==
  /\ r \in [current : Nat, offset : Nat] /\ r.current > 0 /\ r.offset < ChunkLen
  /\ p = Base(r.current) + r.offset

\* v is what a reader that is to get n octets of w behind octet p has got so far.
Got(w, p, n, v) ==
  /\ v \in [r : [current : Nat, offset : Nat], n : Nat, out : Seq(Symbols)]
  /\ v.n + Len(v.out) = n /\ At(v.r, p + Len(v.out))
  /\ \A i \in 1..Len(v.out) : v.out[i] = w[p + i]

LEMMA MoveAt ==
  ASSUME NEW r, NEW p \in Nat, At(r, p), NEW k \in Nat, r.offset + k <= ChunkLen
  PROVE  At(ReaderMove(r, k), p + k)
<1>1. /\ r \in [current : Nat, offset : Nat] /\ r.current \in Nat /\ r.offset \in Nat
      /\ r.current > 0 /\ r.offset < ChunkLen /\ p = Base(r.current) + r.offset /\ ChunkLen \in Nat \ {0}
  BY BufferAssumption DEF At
<1>2. Base(r.current) \in Int /\ Base(r.current + 1) = Base(r.current) + ChunkLen
  BY <1>1, BaseStep
<1>3. CASE r.offset + k = ChunkLen
  <2> DEFINE u == [current |-> r.current + 1, offset |-> 0]
  <2>1. ReaderMove(r, k) = u
    BY <1>3 DEF ReaderMove
  <2>2. p + k = Base(u.current) + u.offset
    BY <1>1, <1>2, <1>3
  <2>3. u \in [current : Nat, offset : Nat] /\ u.current > 0 /\ u.offset < ChunkLen
    BY <1>1
  <2>4. QED
    BY <2>1, <2>2, <2>3 DEF At
<1>4. CASE r.offset + k # ChunkLen
  <2> DEFINE u == [r EXCEPT !.offset = r.offset + k]
  <2>1. ReaderMove(r, k) = u
    BY <1>4 DEF ReaderMove
  <2>2. u \in [current : Nat, offset : Nat] /\ u.current = r.current /\ u.offset = r.offset + k
    BY <1>1
  <2> HIDE DEF u
  <2>3. p + k = Base(u.current) + u.offset /\ u.current > 0 /\ u.offset < ChunkLen
    BY <1>1, <1>2, <1>4, <2>2
  <2>4. QED
    BY <2>1, <2>2, <2>3 DEF At
<1>5. QED
  BY <1>3, <1>4

\* s is k octets of w behind octet p.
Piece(w, p, k, s) == s \in Seq(Symbols) /\ Len(s) = k /\ \A i \in 1..k : s[i] = w[p + i]

\* The octets behind a reader are those of its chunk.
LEMMA ChunkAt ==
  ASSUME NEW b, NEW w, Holds(b, w), NEW r, NEW p \in Nat, At(r, p), NEW k \in Nat \ {0},
         r.offset + k <= ChunkLen, p + k <= Len(w)
  PROVE  Piece(w, p, k, SubSeq(b.chunks[r.current], r.offset + 1, r.offset + k))
<1> DEFINE at == r.current
           f == r.offset
           c == b.chunks[at]
           s == SubSeq(c, f + 1, f + k)
<1>1. /\ at \in Nat /\ f \in Nat /\ at > 0 /\ f < ChunkLen /\ p = Base(at) + f /\ ChunkLen \in Nat \ {0}
      /\ b.current \in Nat /\ b.last_offset \in Nat /\ b.last_offset <= ChunkLen /\ b.len \in Nat
      /\ b.len = Base(b.current) + b.last_offset /\ b.len = Len(w) /\ w \in Seq(Symbols) /\ f + k <= ChunkLen
  BY BufferAssumption DEF At, Holds, BufferType
<1> HIDE DEF at, f
<1>2. Base(at) \in Int /\ Base(b.current) \in Int
  BY <1>1, BaseStep
<1>3. at \in 1..b.current
  <2> SUFFICES ASSUME b.current < at PROVE FALSE
    BY <1>1
  <2>1. Base(b.current) + ChunkLen <= Base(at)
    BY <1>1, BaseOrder
  <2> DEFINE x == Base(at)
             y == Base(b.current)
             z == b.last_offset
             m == Len(w)
  <2>2. /\ x \in Int /\ y \in Int /\ z \in Nat /\ z <= ChunkLen /\ ChunkLen \in Nat /\ m = y + z /\ p = x + f
        /\ f \in Nat /\ p + k <= m /\ y + ChunkLen <= x
    BY <1>1, <1>2, <2>1
  <2> HIDE DEF x, y, z, m
  <2>3. QED
    BY <2>2
<1>4. ASSUME NEW i \in 1..k PROVE c[f + i] = w[p + i] /\ w[p + i] \in Symbols
  <2>1. f + i \in 1..ChunkLen /\ Base(at) + (f + i) = p + i /\ p + i \in 1..Len(w) /\ p + i <= b.len
    <3> DEFINE x == Base(at)
               m == Len(w)
    <3>1. x \in Int /\ p = x + f /\ f \in Nat /\ f + k <= ChunkLen /\ ChunkLen \in Nat /\ p + k <= m /\ m \in Nat
      BY <1>1, <1>2
    <3> HIDE DEF x, m
    <3>2. f + i \in 1..ChunkLen /\ x + (f + i) = p + i /\ p + i \in 1..m /\ p + i <= m
      BY <3>1
    <3>3. QED
      BY <1>1, <3>2 DEF x, m
  <2>2. w[Base(at) + (f + i)] = c[f + i]
    BY <1>3, <2>1 DEF Holds
  <2>3. QED
    BY <1>1, <2>1, <2>2
<1> HIDE DEF c
<1>5. f + 1 \in Int /\ f + k \in Int /\ f + 1 <= f + k /\ (f + k) - (f + 1) + 1 = k
  BY <1>1
<1>6. ASSUME NEW j \in (f + 1)..(f + k) PROVE c[j] \in Symbols
  <2>1. j - f \in 1..k /\ f + (j - f) = j
    BY <1>1
  <2>2. QED
    BY <1>4, <2>1
<1>7. /\ SubSeq(c, f + 1, f + k) \in Seq(Symbols)
      /\ Len(SubSeq(c, f + 1, f + k)) = k
      /\ \A i \in 1..k : SubSeq(c, f + 1, f + k)[i] = c[(f + 1) + i - 1]
  BY <1>5, <1>6, SubSeqProperties
<1>8. \A i \in 1..k : (f + 1) + i - 1 = f + i
  BY <1>1
<1>9. QED
  BY <1>4, <1>7, <1>8 DEF Piece, c, at, f

LEMMA ReadTurnGot ==
  ASSUME NEW b, NEW w, Holds(b, w), NEW p \in Nat, NEW n \in Nat, p + n <= Len(w), NEW v, Got(w, p, n, v)
  PROVE  LET u == ReadTurn(b, v) IN Got(w, p, n, u) /\ (u.n < v.n \/ u.n = 0)
<1> DEFINE u == ReadTurn(b, v)
           k == IF v.n < ChunkLen - v.r.offset THEN v.n ELSE ChunkLen - v.r.offset
           s == SubSeq(b.chunks[v.r.current], v.r.offset + 1, v.r.offset + k)
           l == Len(v.out)
<1>1. /\ v.n \in Nat /\ v.out \in Seq(Symbols) /\ l \in Nat /\ v.n + l = n /\ At(v.r, p + l)
      /\ v.r.offset \in Nat /\ v.r.offset < ChunkLen /\ ChunkLen \in Nat
      /\ \A i \in 1..l : v.out[i] = w[p + i]
  BY BufferAssumption DEF Got, At
<1>2. CASE v.n = 0
  BY <1>2 DEF ReadTurn
<1>3. CASE v.n # 0
  <2>1. k \in Nat \ {0} /\ k <= v.n /\ v.r.offset + k <= ChunkLen
    <3> DEFINE m == v.n
               f == v.r.offset
    <3>1. m \in Nat \ {0} /\ f \in Nat /\ f < ChunkLen /\ ChunkLen \in Nat
      BY <1>1, <1>3
    <3>2. k = IF m < ChunkLen - f THEN m ELSE ChunkLen - f
      OBVIOUS
    <3> HIDE DEF m, f, k
    <3>3. k \in Nat \ {0} /\ k <= m /\ f + k <= ChunkLen
      BY <3>1, <3>2
    <3>4. QED
      BY <3>3 DEF m, f
  <2>2. u = [r |-> ReaderMove(v.r, k), n |-> v.n - k, out |-> v.out \o s]
    BY <1>3 DEF ReadTurn
  <2> HIDE DEF k
  <2>3. p + l \in Nat /\ (p + l) + k <= Len(w) /\ Len(w) \in Nat
    <3>1. Len(w) \in Nat
      BY DEF Holds
    <3>2. QED
      BY <1>1, <2>1, <3>1
  <2>4. s \in Seq(Symbols) /\ Len(s) = k /\ \A i \in 1..k : s[i] = w[(p + l) + i]
    <3> DEFINE x == p + l
               r == v.r
    <3>1. x \in Nat /\ x + k <= Len(w) /\ At(r, x) /\ k \in Nat \ {0} /\ r.offset + k <= ChunkLen
      BY <1>1, <2>1, <2>3
    <3> HIDE DEF x, r
    <3>2. Piece(w, x, k, SubSeq(b.chunks[r.current], r.offset + 1, r.offset + k))
      BY <3>1, ChunkAt
    <3>3. QED
      BY <3>2 DEF Piece, x, r
  <2>5. At(ReaderMove(v.r, k), (p + l) + k)
    BY <1>1, <2>1, <2>3, MoveAt
  <2> HIDE DEF s, u
  <2> DEFINE o == v.out
             t == o \o s
  <2>13. o \in Seq(Symbols) /\ l = Len(o) /\ s \in Seq(Symbols) /\ Len(s) = k
    BY <1>1, <2>4
  <2>6. t \in Seq(Symbols) /\ Len(t) = l + k
        /\ (\A i \in 1..l : t[i] = o[i]) /\ (\A i \in 1..k : t[l + i] = s[i])
    <3> HIDE DEF o, l
    <3>1. QED
      BY <2>1, <2>13
  <2> HIDE DEF t, l
  <2>7. ASSUME NEW i \in 1..(l + k) PROVE t[i] = w[p + i]
    <3>1. CASE i <= l
      BY <1>1, <2>6, <3>1
    <3>2. CASE i > l
      <4>1. i - l \in 1..k /\ l + (i - l) = i /\ (p + l) + (i - l) = p + i
        BY <1>1, <2>1, <3>2
      <4>2. t[l + (i - l)] = w[(p + l) + (i - l)]
        BY <2>4, <2>6, <4>1
      <4>3. QED
        BY <4>1, <4>2
    <3>3. QED
      BY <1>1, <2>1, <3>1, <3>2
  <2>8. v.n - k \in Nat /\ (v.n - k) + (l + k) = n /\ v.n - k < v.n /\ p + (l + k) = (p + l) + k
    <3> DEFINE m == v.n
    <3>1. m \in Nat /\ l \in Nat /\ m + l = n /\ k \in Nat \ {0} /\ k <= m
      BY <1>1, <2>1
    <3> HIDE DEF m
    <3>2. m - k \in Nat /\ (m - k) + (l + k) = n /\ m - k < m /\ p + (l + k) = (p + l) + k
      BY <3>1
    <3>3. QED
      BY <3>2 DEF m
  <2>9. ReaderMove(v.r, k) \in [current : Nat, offset : Nat]
    BY <2>5 DEF At
  <2>10. u \in [r : [current : Nat, offset : Nat], n : Nat, out : Seq(Symbols)]
         /\ u.r = ReaderMove(v.r, k) /\ u.n = v.n - k /\ u.out = t
    BY <2>2, <2>6, <2>8, <2>9 DEF t
  <2>11. Got(w, p, n, u)
    BY <2>5, <2>6, <2>7, <2>8, <2>10 DEF Got
  <2>12. QED
    BY <2>8, <2>10, <2>11 DEF u
<1>4. QED
  BY <1>2, <1>3
ReadRun(b, r, n, f) ==
  f = [i \in 0..n |-> IF i = 0 THEN [r |-> r, n |-> n, out |-> <<>>] ELSE ReadTurn(b, f[i - 1])]

\* spdylay_buffer_reader_data yields the next n octets.
LEMMA ReaderDataGot ==
  ASSUME NEW b, NEW w, Holds(b, w), NEW r, NEW p \in Nat, At(r, p), NEW n \in Nat, p + n <= Len(w)
  PROVE  LET d == ReaderData(b, r, n) IN At(d.r, p + n) /\ Piece(w, p, n, d.out)
<1> DEFINE x == [r |-> r, n |-> n, out |-> <<>>]
           Q == [r : [current : Nat, offset : Nat], n : Nat, out : Seq(Symbols)]
           D == {v \in Q : Got(w, p, n, v)}
           F == [v \in D |-> ReadTurn(b, v)]
           M == [v \in D |-> v.n]
           run == CHOOSE f : ReadRun(b, r, n, f)
<1>1. x \in D
  <2>1. x \in Q /\ x.n = n /\ x.out = <<>> /\ x.r = r /\ Len(<<>>) = 0 /\ <<>> \in Seq(Symbols)
    BY DEF At
  <2> HIDE DEF x
  <2>2. n + 0 = n /\ p + 0 = p /\ 1..0 = {}
    OBVIOUS
  <2>3. Got(w, p, n, x)
    BY <2>1, <2>2 DEF Got
  <2>4. QED
    BY <2>1, <2>3
<1>2. ASSUME NEW v \in D PROVE ReadTurn(b, v) \in D /\ (ReadTurn(b, v).n < v.n \/ ReadTurn(b, v).n = 0) /\ v.n \in Nat
  <2>1. Got(w, p, n, v)
    OBVIOUS
  <2> DEFINE u == ReadTurn(b, v)
  <2>2. Got(w, p, n, u) /\ (u.n < v.n \/ u.n = 0)
    BY <2>1, ReadTurnGot
  <2> HIDE DEF u
  <2>3. u \in D /\ v.n \in Nat
    BY <2>1, <2>2 DEF Got
  <2>4. QED
    BY <2>2, <2>3 DEF u
<1>3. x.n = n
  OBVIOUS
<1> HIDE DEF D, x
<1>4. Lessens(D, F, M) /\ (\A v \in D : F[v] = ReadTurn(b, v) /\ M[v] = v.n) /\ M[x] <= n
  BY <1>1, <1>2, <1>3 DEF Lessens
<1> HIDE DEF F, M
<1>5. PICK f : f \in [0..n -> D] /\ Loop(n, D, x, F, f)
  BY <1>1, <1>4, LoopExists
<1>6. ReadRun(b, r, n, f)
  <2>1. ASSUME NEW i \in 0..n PROVE f[i] = IF i = 0 THEN x ELSE ReadTurn(b, f[i - 1])
    <3>1. CASE i = 0
      BY <1>5, <3>1 DEF Loop
    <3>2. CASE i # 0
      <4>1. i \in 1..n /\ i - 1 \in 0..n
        BY <3>2
      <4>2. f[i - 1] \in D
        BY <1>5, <4>1
      <4>3. QED
        BY <1>4, <1>5, <3>2, <4>1, <4>2 DEF Loop
    <3>3. QED
      BY <3>1, <3>2
  <2>2. QED
    BY <1>5, <2>1 DEF ReadRun, x
<1>7. ReadRun(b, r, n, run)
  BY <1>6
<1>8. ReaderData(b, r, n) = run[n]
  BY Zenon DEF ReaderData, ReadRun
<1> HIDE DEF run
<1>9. run[0] = x /\ \A i \in 1..n : run[i] = ReadTurn(b, run[i - 1])
  BY <1>7 DEF ReadRun, x
<1>10. Loop(n, D, x, F, run)
  BY <1>4, <1>9 DEF Loop
<1> DEFINE d == run[n]
<1>11. d \in D /\ M[d] = 0
  BY <1>1, <1>4, <1>10, LoopEnds
<1> HIDE DEF d
<1>12. Got(w, p, n, d) /\ d.n = 0
  BY <1>4, <1>11 DEF D
<1>13. d.out \in Seq(Symbols) /\ Len(d.out) = n
  BY <1>12 DEF Got
<1>14. At(d.r, p + n) /\ Piece(w, p, n, d.out)
  BY <1>12, <1>13 DEF Got, Piece
<1>15. QED
  BY <1>8, <1>14 DEF d

\* What a reader that began at the beginning of w has got.
Read(w, v) ==
  /\ v \in [r : [current : Nat, offset : Nat], out : Seq(Symbols)]
  /\ Len(v.out) <= Len(w) /\ At(v.r, Len(v.out)) /\ \A i \in 1..Len(v.out) : v.out[i] = w[i]

\* A piece goes on behind the last one, and is empty only at the end.
LEMMA ReadPieceGot ==
  ASSUME NEW b, NEW w, Holds(b, w), NEW k \in Nat \ {0}, NEW v, Read(w, v)
  PROVE  LET u == ReadPiece(b, k, v)
         IN  /\ Read(w, u) /\ Len(u.out) \in Nat /\ Len(v.out) \in Nat
             /\ (Len(u.out) > Len(v.out) \/ Len(u.out) = Len(w))
<1> DEFINE l == Len(v.out)
           m == IF b.len - l < k THEN b.len - l ELSE k
           d == ReaderData(b, v.r, m)
           o == v.out
           t == o \o d.out
           u == ReadPiece(b, k, v)
<1>1. /\ b.len = Len(w) /\ Len(w) \in Nat /\ o \in Seq(Symbols) /\ l \in Nat /\ l <= Len(w) /\ l = Len(o)
      /\ At(v.r, l) /\ \A i \in 1..l : o[i] = w[i]
  BY DEF Holds, Read
<1>2. u = [r |-> d.r, out |-> t]
  BY DEF ReadPiece
<1>3. m \in Nat /\ l + m <= Len(w) /\ (m > 0 \/ l = Len(w))
  <2> DEFINE x == Len(w)
  <2>1. x \in Nat /\ l \in Nat /\ l <= x /\ m = IF x - l < k THEN x - l ELSE k
    BY <1>1
  <2> HIDE DEF x, l, m
  <2>2. m \in Nat /\ l + m <= x /\ (m > 0 \/ l = x)
    BY <2>1
  <2>3. QED
    BY <2>2 DEF x
<1> HIDE DEF m, l
<1>4. At(d.r, l + m) /\ Piece(w, l, m, d.out)
  BY <1>1, <1>3, ReaderDataGot
<1> HIDE DEF d, u, o
<1>5. d.out \in Seq(Symbols) /\ Len(d.out) = m /\ \A i \in 1..m : d.out[i] = w[l + i]
  BY <1>4 DEF Piece
<1> DEFINE e == d.out
<1>6. t = o \o e /\ e \in Seq(Symbols) /\ Len(e) = m
  BY <1>5
<1> HIDE DEF e, t
<1>7. t \in Seq(Symbols) /\ Len(t) = l + m
      /\ (\A i \in 1..l : t[i] = o[i]) /\ (\A i \in 1..m : t[l + i] = e[i])
  <2>0. o \in Seq(Symbols) /\ e \in Seq(Symbols)
    BY <1>1, <1>6
  <2>1. Len(o \o e) = Len(o) + Len(e) /\ o \o e \in Seq(Symbols)
    BY <2>0
  <2>2. /\ \A i \in 1..Len(o) : (o \o e)[i] = o[i]
        /\ \A i \in 1..Len(e) : (o \o e)[Len(o) + i] = e[i]
    BY <2>0
  <2>3. QED
    BY <1>1, <1>6, <2>1, <2>2, Zenon
<1>8. ASSUME NEW i \in 1..(l + m) PROVE t[i] = w[i]
  <2>1. CASE i <= l
    BY <1>1, <1>7, <2>1
  <2>2. CASE i > l
    <3>1. i - l \in 1..m /\ l + (i - l) = i
      BY <1>1, <1>3, <2>2
    <3>2. t[l + (i - l)] = w[l + (i - l)]
      BY <1>5, <1>7, <3>1 DEF e
    <3>3. QED
      BY <3>1, <3>2
  <2>3. QED
    BY <1>1, <1>3, <2>1, <2>2
<1>9. d.r \in [current : Nat, offset : Nat]
  BY <1>4 DEF At
<1>10. u \in [r : [current : Nat, offset : Nat], out : Seq(Symbols)] /\ u.r = d.r /\ u.out = t
  BY <1>2, <1>7, <1>9
<1>11. Read(w, u)
  BY <1>3, <1>4, <1>7, <1>8, <1>10 DEF Read
<1>12. Len(u.out) = l + m /\ l + m \in Nat /\ (l + m > l \/ l + m = Len(w))
  BY <1>1, <1>3, <1>7, <1>10
<1>13. QED
  BY <1>1, <1>11, <1>12 DEF u, l, o

PiecesRun(b, k, f) ==
  f = [i \in 0..b.len |-> IF i = 0 THEN [r |-> ReaderNew, out |-> <<>>] ELSE ReadPiece(b, k, f[i - 1])]

\* A reader gets what the buffer holds, in pieces of any size.
LEMMA PiecesGot ==
  ASSUME NEW b, NEW w, Holds(b, w), NEW k \in Nat \ {0}
  PROVE  ReadInPieces(b, k) = w
<1> DEFINE n == b.len
           x == [r |-> ReaderNew, out |-> <<>>]
           D == {v \in [r : [current : Nat, offset : Nat], out : Seq(Symbols)] : Read(w, v)}
           F == [v \in D |-> ReadPiece(b, k, v)]
           M == [v \in D |-> n - Len(v.out)]
           run == CHOOSE f : PiecesRun(b, k, f)
<1>1. n \in Nat /\ n = Len(w) /\ w \in Seq(Symbols)
  BY DEF Holds, BufferType
<1>2. x \in D /\ x.out = <<>> /\ Len(<<>>) = 0
  <2>1. x.out = <<>> /\ Len(<<>>) = 0 /\ <<>> \in Seq(Symbols) /\ x.r = ReaderNew /\ 1..0 = {}
    OBVIOUS
  <2>2. ReaderNew \in [current : Nat, offset : Nat] /\ ReaderNew.current = 1 /\ ReaderNew.offset = 0
    BY DEF ReaderNew
  <2>3. At(ReaderNew, 0)
    <3>1. Base(1) = 0 /\ 0 < ChunkLen
      BY BaseStep, BufferAssumption
    <3>2. QED
      BY <2>2, <3>1 DEF At
  <2>4. x \in [r : [current : Nat, offset : Nat], out : Seq(Symbols)]
    BY <2>1, <2>2
  <2> HIDE DEF x
  <2>5. Read(w, x)
    BY <1>1, <2>1, <2>3, <2>4 DEF Read
  <2>6. QED
    BY <2>1, <2>4, <2>5
<1>3. ASSUME NEW v \in D
      PROVE  LET u == ReadPiece(b, k, v)
             IN  /\ u \in D /\ n - Len(v.out) \in Nat
                 /\ n - Len(u.out) < n - Len(v.out) \/ n - Len(u.out) = 0
  <2> DEFINE u == ReadPiece(b, k, v)
             y == Len(u.out)
             z == Len(v.out)
  <2>1. Read(w, v)
    OBVIOUS
  <2>2. Read(w, u) /\ y \in Nat /\ z \in Nat /\ (y > z \/ y = Len(w))
    BY <2>1, ReadPieceGot
  <2>3. y <= n /\ z <= n
    BY <1>1, <2>1, <2>2 DEF Read
  <2> HIDE DEF y, z, n
  <2>4. n - z \in Nat /\ (n - y < n - z \/ n - y = 0)
    BY <1>1, <2>2, <2>3
  <2>5. u \in D
    BY <2>2 DEF Read
  <2>6. QED
    BY <2>4, <2>5 DEF y, z
<1> HIDE DEF n, D, x
<1>4. /\ Lessens(D, F, M) /\ M[x] <= n
      /\ \A v \in D : F[v] = ReadPiece(b, k, v) /\ M[v] = n - Len(v.out)
  <2>1. F \in [D -> D] /\ M \in [D -> Nat]
    BY <1>3
  <2>2. ASSUME NEW v \in D PROVE M[F[v]] < M[v] \/ M[F[v]] = 0
    <3> DEFINE u == ReadPiece(b, k, v)
    <3>1. F[v] = u /\ u \in D
      BY <1>3
    <3> HIDE DEF u
    <3>2. M[u] = n - Len(u.out) /\ M[v] = n - Len(v.out)
      BY <3>1
    <3>3. n - Len(u.out) < n - Len(v.out) \/ n - Len(u.out) = 0
      BY <1>3 DEF u
    <3>4. QED
      BY <3>1, <3>2, <3>3
  <2>3. M[x] <= n
    BY <1>1, <1>2
  <2>4. QED
    BY <2>1, <2>2, <2>3 DEF Lessens
<1> HIDE DEF F, M
<1>5. PICK f : f \in [0..n -> D] /\ Loop(n, D, x, F, f)
  BY <1>1, <1>2, <1>4, LoopExists
<1>6. PiecesRun(b, k, f)
  <2>1. ASSUME NEW i \in 0..n PROVE f[i] = IF i = 0 THEN x ELSE ReadPiece(b, k, f[i - 1])
    <3>1. CASE i = 0
      BY <1>5, <3>1 DEF Loop
    <3>2. CASE i # 0
      <4>1. i \in 1..n /\ i - 1 \in 0..n
        BY <1>1, <3>2
      <4>2. f[i - 1] \in D
        BY <1>5, <4>1
      <4>3. QED
        BY <1>4, <1>5, <3>2, <4>1, <4>2 DEF Loop
    <3>3. QED
      BY <3>1, <3>2
  <2>2. QED
    BY <1>5, <2>1 DEF PiecesRun, x, n
<1>7. PiecesRun(b, k, run)
  BY <1>6
<1>8. ReadInPieces(b, k) = run[n].out
  BY Zenon DEF ReadInPieces, PiecesRun, n
<1> HIDE DEF run
<1>9. run[0] = x /\ \A i \in 1..n : run[i] = ReadPiece(b, k, run[i - 1])
  <2>1. run = [i \in 0..n |-> IF i = 0 THEN x ELSE ReadPiece(b, k, run[i - 1])]
    BY <1>7 DEF PiecesRun, x, n
  <2>2. 0 \in 0..n /\ \A i \in 1..n : i \in 0..n /\ i # 0
    BY <1>1
  <2>3. QED
    BY <2>1, <2>2
<1>10. Loop(n, D, x, F, run)
  BY <1>4, <1>9 DEF Loop
<1> DEFINE d == run[n]
<1>11. d \in D /\ M[d] = 0
  BY <1>1, <1>2, <1>4, <1>10, LoopEnds
<1> HIDE DEF d
<1>12. Read(w, d) /\ n - Len(d.out) = 0
  BY <1>4, <1>11 DEF D
<1> DEFINE o == d.out
<1>13. o \in Seq(Symbols) /\ Len(o) = Len(w) /\ \A i \in 1..Len(o) : o[i] = w[i]
  BY <1>1, <1>12 DEF Read
<1> HIDE DEF o
<1>14. o = w
  BY <1>1, <1>13, SeqEqual
<1>15. QED
  BY <1>8, <1>14 DEF d, o
-----------------------------------------------------------------------------
BufferSpec == BufferInit /\ [][BufferNext]_bufferVars

\* The data of an action are octets.
LEMMA Octets ==
  ASSUME NEW data \in SeqOf(Symbols, ChunkLen + 1)
  PROVE  data \in Seq(Symbols)
<1>1. PICK m \in 0..(ChunkLen + 1) : data \in [1..m -> Symbols]
  BY DEF SeqOf
<1>2. m \in Nat
  BY BufferAssumption
<1>3. QED
  BY <1>1, <1>2

\* What spdylay_buffer_write took of the data is what the history has.
LEMMA WriteBufferHolds ==
  ASSUME NEW data \in Seq(Symbols), BufferInv, WriteBuffer(data)
  PROVE  BufferInv'
<1> DEFINE v == BufferWrite(buffer, data)
<1>1. PICK c : Written(written, data, c, v)
  BY WriteHolds DEF BufferInv
<1>2. buffer' = v.b /\ written' = written \o SubSeq(data, 1, Len(data) - Len(v.rest))
  BY DEF WriteBuffer
<1> HIDE DEF v
<1> DEFINE r == v.rest
<1>3. c \in Seq(Symbols) /\ r \in Seq(Symbols) /\ data = c \o r /\ Holds(v.b, written \o c)
  BY <1>1 DEF Written
<1> HIDE DEF r
<1>4. SubSeq(data, 1, Len(data) - Len(r)) = c
  <2>1. Len(c \o r) - Len(r) = Len(c)
    BY <1>3
  <2>2. SubSeq(c \o r, 1, Len(c)) = c
    BY <1>3
  <2>3. QED
    BY <1>3, <2>1, <2>2
<1>5. written' = written \o c
  BY <1>2, <1>4 DEF r
<1>6. QED
  BY <1>2, <1>3, <1>5 DEF BufferInv

\* Room for more is made before inflate() writes.
LEMMA InflateTurnHolds ==
  ASSUME NEW data \in Seq(Symbols), BufferInv, InflateTurn(data)
  PROVE  BufferInv'
<1> DEFINE b == IF BufferAvail(buffer) = 0 THEN BufferAlloc(buffer) ELSE buffer
<1>1. Holds(buffer, written)
  BY DEF BufferInv
<1>2. Len(data) <= BufferAvail(b) /\ buffer' = BufferPut(b, data) /\ written' = written \o data
  BY DEF InflateTurn
<1>3. Holds(b, written) /\ b.current > 0
  <2>1. CASE BufferAvail(buffer) = 0
    BY <1>1, <2>1, AllocHolds
  <2>2. CASE BufferAvail(buffer) # 0
    BY <1>1, <2>2, BufferAssumption DEF Holds, BufferAvail, BufferType
  <2>3. QED
    BY <2>1, <2>2
<1> HIDE DEF b
<1>4. Holds(BufferPut(b, data), written \o data)
  BY <1>2, <1>3, PutHolds
<1>5. QED
  BY <1>2, <1>4 DEF BufferInv

\* Every step keeps the invariant.
LEMMA BufferKept ==
  ASSUME BufferInv, [BufferNext]_bufferVars
  PROVE  BufferInv'
<1>1. CASE ResetBuffer
  BY <1>1, ResetHolds DEF ResetBuffer, BufferInv
<1>2. ASSUME NEW data \in SeqOf(Symbols, ChunkLen + 1), WriteBuffer(data) PROVE BufferInv'
  BY <1>2, Octets, WriteBufferHolds
<1>3. ASSUME NEW data \in SeqOf(Symbols, ChunkLen + 1), InflateTurn(data) PROVE BufferInv'
  BY <1>3, Octets, InflateTurnHolds
<1>4. CASE UNCHANGED bufferVars
  BY <1>4 DEF bufferVars, BufferInv
<1>5. QED
  BY <1>1, <1>2, <1>3, <1>4 DEF BufferNext

\* BufferReadsBack, for chunks of any length and any number of them: whatever is
\* written to the buffer (spdylay_buffer_write) or inflated into it
\* (spdylay_zlib_inflate_hd) after however many resets, the reader gets those octets
\* and no others, in pieces of any size.
THEOREM BlocksReadBack == BufferSpec => []BufferReadsBack
<1>1. BufferInit => BufferInv
  BY NewHolds DEF BufferInit, BufferInv
<1>2. BufferInv /\ [BufferNext]_bufferVars => BufferInv'
  BY BufferKept
<1>3. BufferInv => BufferReadsBack
  <2> SUFFICES ASSUME Holds(buffer, written) PROVE BufferReadsBack
    BY DEF BufferInv
  <2>1. buffer.len = Len(written) /\ buffer.last_offset <= ChunkLen
    BY DEF Holds
  <2>2. ASSUME NEW k \in 1..(ChunkLen + 1) PROVE ReadInPieces(buffer, k) = written
    <3>1. k \in Nat \ {0}
      BY BufferAssumption
    <3>2. QED
      BY <3>1, PiecesGot
  <2>3. QED
    BY <2>1, <2>2 DEF BufferReadsBack
<1>4. QED
  BY <1>1, <1>2, <1>3, PTL DEF BufferSpec
-----------------------------------------------------------------------------
(* The heap of the outbound queues.  What bubble_up and bubble_down        *)
(* compute is shown by induction on the number of their calls, in the form *)
(* of LeastNumber.                                                         *)

QueueSpec == QueueInit /\ [][QueueNext]_queueVars

\* The order of the items.

AtMost(a, b) == Compar(a, b) <= 0

LEMMA ItemType ==
  ASSUME NEW a \in Items
  PROVE  a.pri \in Int /\ a.seq \in Int
<1>1. a.pri \in Pris /\ a.seq \in Seqs
  BY DEF Items
<1>2. Pris \subseteq Int /\ Seqs \subseteq Nat
  BY QueueAssumption
<1>3. Seqs \subseteq Int
  BY <1>2
<1>4. QED
  BY <1>1, <1>2, <1>3, Zenon

LEMMA OrderTotal ==
  ASSUME NEW a \in Items, NEW b \in Items
  PROVE  /\ AtMost(a, b) \/ AtMost(b, a)
         /\ Compar(a, b) > 0 => AtMost(b, a)
         /\ ~(Compar(a, b) > 0) <=> AtMost(a, b)
         /\ AtMost(a, a)
  BY ItemType DEF AtMost, Compar

LEMMA OrderTransitive ==
  ASSUME NEW a \in Items, NEW b \in Items, NEW c \in Items, AtMost(a, b), AtMost(b, c)
  PROVE  AtMost(a, c)
  BY ItemType DEF AtMost, Compar

LEMMA OrderStrict ==
  ASSUME NEW a \in Items, NEW b \in Items, AtMost(a, b), a # b
  PROVE  a.pri < b.pri \/ (a.pri = b.pri /\ a.seq < b.seq)
<1>1. a.pri # b.pri \/ a.seq # b.seq
  BY DEF Items
<1>2. QED
  BY <1>1, ItemType DEF AtMost, Compar
-----------------------------------------------------------------------------
(* Sequences of items without repetition.                                  *)

OneToOne(s) == \A i, j \in 1..Len(s) : s[i] = s[j] => i = j

\* Arrays of n items, R altogether.
Arrays(n, R) == {s \in Seq(Items) : Len(s) = n /\ Range(s) = R /\ OneToOne(s)}

LEMMA SeqFacts ==
  ASSUME NEW s \in Seq(Items)
  PROVE  /\ Len(s) \in Nat /\ DOMAIN s = 1..Len(s)
         /\ s \in [1..Len(s) -> Items]
         /\ Range(s) = {s[i] : i \in 1..Len(s)}
  BY DEF Range

LEMMA SwapKeeps ==
  ASSUME NEW n \in Nat, NEW R, NEW s \in Arrays(n, R), NEW i \in 0..(n - 1), NEW j \in 0..(n - 1)
  PROVE  /\ Swap(s, i, j) \in Arrays(n, R)
         /\ Swap(s, i, j)[i + 1] = s[j + 1] /\ Swap(s, i, j)[j + 1] = s[i + 1]
         /\ \A k \in 0..(n - 1) : k # i /\ k # j => Swap(s, i, j)[k + 1] = s[k + 1]
<1> DEFINE t == Swap(s, i, j)
<1>1. s \in Seq(Items) /\ Len(s) = n /\ Range(s) = R /\ OneToOne(s)
  BY DEF Arrays
<1>2. s \in [1..n -> Items] /\ R = {s[k] : k \in 1..n}
  BY <1>1, SeqFacts
<1>3. i + 1 \in 1..n /\ j + 1 \in 1..n
  OBVIOUS
<1>4. t = [k \in 1..n |-> IF k = j + 1 THEN s[i + 1] ELSE IF k = i + 1 THEN s[j + 1] ELSE s[k]]
  BY <1>2, <1>3 DEF Swap
<1> HIDE DEF t
<1>5. t \in [1..n -> Items]
  BY <1>2, <1>3, <1>4
<1>6. t \in Seq(Items) /\ Len(t) = n
  BY <1>5
<1>7. Range(t) = {t[k] : k \in 1..n}
  BY <1>6, SeqFacts
<1>8. \A k \in 1..n : t[k] \in R
  BY <1>2, <1>3, <1>4
<1>9. \A k \in 1..n : \E m \in 1..n : t[m] = s[k]
  BY <1>3, <1>4
<1>10. Range(t) = R
  BY <1>2, <1>7, <1>8, <1>9
<1>11. OneToOne(t)
  BY <1>1, <1>3, <1>4, <1>6 DEF OneToOne
<1>12. t \in Arrays(n, R)
  BY <1>6, <1>10, <1>11 DEF Arrays
<1>13. \A k \in 0..(n - 1) : k + 1 \in 1..n
  OBVIOUS
<1>14. QED
  BY <1>3, <1>4, <1>12, <1>13 DEF t
-----------------------------------------------------------------------------
(* The shape of the heap.                                                  *)

LEMMA ParentFacts ==
  ASSUME NEW j \in Nat, j > 0
  PROVE  /\ Parent(j) \in Nat /\ Parent(j) < j
         /\ j = 2 * Parent(j) + 1 \/ j = 2 * Parent(j) + 2
  BY DEF Parent

LEMMA ChildFacts ==
  ASSUME NEW i \in Nat
  PROVE  Parent(i * 2 + 1) = i /\ Parent((i * 2 + 1) + 1) = i
  BY DEF Parent

Below(s, j) == AtMost(s[Parent(j) + 1], s[j + 1])

Heap(s) == \A j \in 1..(Len(s) - 1) : Below(s, j)

\* The entry at i may be too small for its place, or too large.
HeapButAbove(s, i) == \A j \in 1..(Len(s) - 1) : j # i => Below(s, j)
HeapButBelow(s, i) == \A j \in 1..(Len(s) - 1) : Parent(j) # i => Below(s, j)

\* Without it the heap would be one.
Bridged(s, i) ==
  \A j \in 1..(Len(s) - 1) : i > 0 /\ Parent(j) = i => AtMost(s[Parent(i) + 1], s[j + 1])

\* The root of a heap is its least item.
LEMMA RootIsLeast ==
  ASSUME NEW s \in Seq(Items), Heap(s), NEW j \in 0..(Len(s) - 1)
  PROVE  AtMost(s[1], s[j + 1])
<1> DEFINE n == Len(s)
           T == {k \in 0..(n - 1) : ~AtMost(s[1], s[k + 1])}
<1>1. n \in Nat
  OBVIOUS
<1>2. \A k \in 0..(n - 1) : s[k + 1] \in Items
  OBVIOUS
<1> SUFFICES ASSUME T # {} PROVE FALSE
  OBVIOUS
<1>3. T \subseteq Nat
  OBVIOUS
<1>4. PICK m \in T : \A k \in T : ~(k < m)
  <2> HIDE DEF T
  <2> QED
    BY <1>3, LeastNumber
<1>5. m \in 0..(n - 1) /\ ~AtMost(s[1], s[m + 1])
  OBVIOUS
<1> HIDE DEF n
<1>6. m # 0
  <2>1. AtMost(s[0 + 1], s[0 + 1])
    BY <1>1, <1>2, <1>5, OrderTotal
  <2>2. QED
    BY <1>5, <2>1
<1>7. m \in 1..(n - 1) /\ m \in Nat /\ m > 0
  BY <1>1, <1>5, <1>6
<1>8. Parent(m) \in Nat /\ Parent(m) < m
  BY <1>7, ParentFacts
<1>9. Parent(m) \in 0..(n - 1) /\ 0 \in 0..(n - 1)
  BY <1>1, <1>7, <1>8
<1>10. AtMost(s[1], s[Parent(m) + 1])
  BY <1>4, <1>8, <1>9
<1>11. AtMost(s[Parent(m) + 1], s[m + 1])
  BY <1>7 DEF n, Heap, Below
<1>12. s[0 + 1] \in Items /\ s[Parent(m) + 1] \in Items /\ s[m + 1] \in Items
  BY <1>2, <1>5, <1>9
<1>13. QED
  BY <1>5, <1>10, <1>11, <1>12, OrderTransitive
-----------------------------------------------------------------------------
(* bubble_up.                                                              *)

UpRun(s, index, n, f) ==
  f = [k \in 0..n |-> IF k = 0 THEN [s |-> s, i |-> index] ELSE UpCall(f[k - 1])]

LEMMA UpRunExists ==
  ASSUME NEW s, NEW index, NEW n \in Nat
  PROVE  \E f : UpRun(s, index, n, f)
<1> DEFINE h == [s |-> s, i |-> index]
           T == {k \in Nat : ~\E f : UpRun(s, index, k, f)}
<1> SUFFICES ASSUME T # {} PROVE FALSE
  OBVIOUS
<1>1. PICK m \in T : \A k \in T : ~(k < m)
  <2>1. T \subseteq Nat
    OBVIOUS
  <2> HIDE DEF T
  <2>2. QED
    BY <2>1, LeastNumber
<1> HIDE DEF h
<1>2. m # 0
  <2> DEFINE f == [k \in 0..0 |-> h]
  <2>1. f = [k \in 0..0 |-> IF k = 0 THEN h ELSE UpCall(f[k - 1])]
    OBVIOUS
  <2>2. UpRun(s, index, 0, f)
    BY <2>1 DEF UpRun, h
  <2>3. QED
    BY <2>2
<1>3. m \in Nat /\ m - 1 \in Nat /\ m - 1 < m
  BY <1>1, <1>2
<1>4. PICK f : UpRun(s, index, m - 1, f)
  BY <1>1, <1>3
<1>5. f = [k \in 0..(m - 1) |-> IF k = 0 THEN h ELSE UpCall(f[k - 1])]
  BY <1>4 DEF UpRun, h
<1> DEFINE g == [k \in 0..m |-> IF k = m THEN UpCall(f[m - 1]) ELSE f[k]]
<1>6. ASSUME NEW k \in 0..m
      PROVE  g[k] = IF k = 0 THEN h ELSE UpCall(g[k - 1])
  <2>1. CASE k = m
    <3>1. g[m - 1] = f[m - 1]
      BY <1>3
    <3>2. QED
      BY <2>1, <3>1, <1>2
  <2>2. CASE k # m
    <3>1. k \in 0..(m - 1)
      BY <2>2, <1>3
    <3>2. f[k] = IF k = 0 THEN h ELSE UpCall(f[k - 1])
      BY <3>1, <1>5
    <3>3. k # 0 => k - 1 \in 0..m /\ k - 1 # m
      BY <1>3, <3>1
    <3>4. QED
      BY <2>2, <3>2, <3>3
  <2>3. QED
    BY <2>1, <2>2
<1>7. g = [k \in 0..m |-> IF k = 0 THEN h ELSE UpCall(g[k - 1])]
  BY <1>6
<1>8. UpRun(s, index, m, g)
  BY <1>7 DEF UpRun, h
<1>9. QED
  BY <1>1, <1>8

\* What holds at first and is kept by every call holds in the end.
LEMMA BubbleUpInduction ==
  ASSUME NEW s \in Seq(Items), NEW index, NEW G, [s |-> s, i |-> index] \in G[0],
         \A k \in 1..Len(s) : \A h \in G[k - 1] : UpCall(h) \in G[k]
  PROVE  \E h \in G[Len(s)] : BubbleUp(s, index) = h.s
<1> DEFINE n == Len(s)
           run == CHOOSE f : UpRun(s, index, n, f)
<1>1. n \in Nat
  OBVIOUS
<1>2. UpRun(s, index, n, run)
  BY <1>1, UpRunExists
<1>3. BubbleUp(s, index) = run[n].s
  BY Zenon DEF BubbleUp, UpRun
<1> HIDE DEF run, n
<1>4. \A k \in 0..n : run[k] = IF k = 0 THEN [s |-> s, i |-> index] ELSE UpCall(run[k - 1])
  BY <1>2 DEF UpRun
<1> DEFINE T == {k \in 0..n : run[k] \notin G[k]}
<1>5. T = {}
  <2> SUFFICES ASSUME T # {} PROVE FALSE
    OBVIOUS
  <2>1. PICK m \in T : \A k \in T : ~(k < m)
    <3>1. T \subseteq Nat
      BY <1>1
    <3> HIDE DEF T
    <3>2. QED
      BY <3>1, LeastNumber
  <2>2. m # 0
    BY <1>1, <1>4, <2>1
  <2>3. m \in 1..n /\ m - 1 \in 0..n /\ m - 1 < m
    BY <1>1, <2>2
  <2>4. run[m - 1] \in G[m - 1]
    BY <2>1, <2>3
  <2>5. run[m] = UpCall(run[m - 1])
    BY <1>4, <2>2, <2>3
  <2>6. QED
    BY <2>3, <2>4, <2>5 DEF n
<1>6. run[n] \in G[n]
  BY <1>1, <1>5
<1>7. QED
  BY <1>3, <1>6 DEF n

\* Where a call of bubble_up leaves the heap: the entry at i may only be too small.
Rising(n, R) ==
  {h \in [s : Arrays(n, R), i : 0..(n - 1)] : HeapButAbove(h.s, h.i) /\ Bridged(h.s, h.i)}

UpStops(h) == h.i = 0 \/ Below(h.s, h.i)

LEMMA UpCallKeeps ==
  ASSUME NEW n \in Nat, NEW R, NEW h \in Rising(n, R)
  PROVE  /\ UpCall(h) \in Rising(n, R)
         /\ UpStops(h) => UpCall(h) = h
         /\ ~UpStops(h) => UpCall(h).i < h.i
<1> DEFINE s == h.s
           i == h.i
           p == Parent(i)
<1>1. s \in Arrays(n, R) /\ i \in 0..(n - 1) /\ HeapButAbove(s, i) /\ Bridged(s, i)
  BY DEF Rising
<1>2. s \in Seq(Items) /\ Len(s) = n
  BY <1>1 DEF Arrays
<1>3. \A k \in 0..(n - 1) : s[k + 1] \in Items
  BY <1>2
<1>4. CASE UpStops(h)
  <2>1. UpCall(h) = h
    <3>1. CASE i = 0
      BY <3>1 DEF UpCall
    <3>2. CASE i # 0
      <4>1. i \in Nat /\ i > 0
        BY <1>1, <3>2
      <4>2. p \in Nat /\ p < i
        BY <4>1, ParentFacts
      <4>3. p \in 0..(n - 1)
        BY <1>1, <4>2
      <4>4. AtMost(s[p + 1], s[i + 1])
        BY <1>4, <3>2 DEF UpStops, Below
      <4>5. ~(Compar(s[p + 1], s[i + 1]) > 0)
        BY <1>1, <1>3, <4>3, <4>4, OrderTotal
      <4>6. QED
        BY <4>5 DEF UpCall
    <3>3. QED
      BY <3>1, <3>2
  <2>2. QED
    BY <2>1, <1>4
<1>5. CASE ~UpStops(h)
  <2>1. i \in Nat /\ i > 0 /\ i \in 1..(n - 1) /\ ~AtMost(s[p + 1], s[i + 1])
    BY <1>1, <1>5 DEF UpStops, Below
  <2>2. p \in Nat /\ p < i
    BY <2>1, ParentFacts
  <2>3. p \in 0..(n - 1)
    BY <2>1, <2>2
  <2>4. Compar(s[p + 1], s[i + 1]) > 0 /\ AtMost(s[i + 1], s[p + 1])
    BY <1>1, <1>3, <2>1, <2>3, OrderTotal
  <2> DEFINE t == Swap(s, p, i)
  <2>5. UpCall(h) = [s |-> t, i |-> p]
    BY <2>1, <2>4 DEF UpCall
  <2> HIDE DEF s, i, p
  <2>6. /\ t \in Arrays(n, R) /\ t[p + 1] = s[i + 1] /\ t[i + 1] = s[p + 1]
        /\ \A k \in 0..(n - 1) : k # p /\ k # i => t[k + 1] = s[k + 1]
    BY <1>1, <2>3, SwapKeeps
  <2> HIDE DEF t
  <2>7. Len(t) = n
    BY <2>6 DEF Arrays
  <2>8. ASSUME NEW j \in 1..(n - 1)
        PROVE  /\ j \in Nat /\ j > 0 /\ j \in 0..(n - 1)
               /\ Parent(j) \in Nat /\ Parent(j) < j /\ Parent(j) \in 0..(n - 1)
    <3>1. j \in Nat /\ j > 0 /\ j \in 0..(n - 1)
      OBVIOUS
    <3>2. Parent(j) \in Nat /\ Parent(j) < j
      BY <3>1, ParentFacts
    <3>3. QED
      BY <3>1, <3>2
  <2>9. HeapButAbove(t, p)
    <3> SUFFICES ASSUME NEW j \in 1..(n - 1), j # p
                 PROVE  AtMost(t[Parent(j) + 1], t[j + 1])
      BY <2>7 DEF HeapButAbove, Below
    <3>1. CASE j = i
      BY <3>1, <2>4, <2>6 DEF p
    <3>2. CASE j # i /\ Parent(j) = i
      <4>1. AtMost(s[p + 1], s[j + 1])
        BY <3>2, <1>1, <1>2, <2>1 DEF Bridged, p
      <4>2. QED
        BY <3>2, <4>1, <2>6, <2>8
    <3>3. CASE j # i /\ Parent(j) = p
      <4>1. AtMost(s[p + 1], s[j + 1])
        BY <3>3, <1>1, <1>2 DEF HeapButAbove, Below
      <4>2. AtMost(s[i + 1], s[j + 1])
        BY <4>1, <1>1, <1>3, <2>3, <2>4, <2>8, OrderTransitive
      <4>3. QED
        BY <3>3, <4>2, <2>6, <2>8
    <3>4. CASE j # i /\ Parent(j) # i /\ Parent(j) # p
      <4>1. AtMost(s[Parent(j) + 1], s[j + 1])
        BY <3>4, <1>1, <1>2 DEF HeapButAbove, Below
      <4>2. QED
        BY <3>4, <4>1, <2>6, <2>8
    <3>5. QED
      BY <3>1, <3>2, <3>3, <3>4
  <2>10. Bridged(t, p)
    <3> SUFFICES ASSUME NEW j \in 1..(n - 1), p > 0, Parent(j) = p
                 PROVE  AtMost(t[Parent(p) + 1], t[j + 1])
      BY <2>7 DEF Bridged
    <3>1. p \in 1..(n - 1)
      BY <2>3
    <3>2. Parent(p) \in Nat /\ Parent(p) < p /\ Parent(p) \in 0..(n - 1)
      BY <3>1, <2>8
    <3>3. t[Parent(p) + 1] = s[Parent(p) + 1]
      BY <3>2, <2>2, <2>3, <2>6, <2>1
    <3>4. AtMost(s[Parent(p) + 1], s[p + 1])
      BY <3>1, <1>1, <1>2, <2>1, <2>2 DEF HeapButAbove, Below
    <3>5. CASE j = i
      BY <3>3, <3>4, <3>5, <2>6
    <3>6. CASE j # i
      <4>1. AtMost(s[p + 1], s[j + 1])
        BY <3>6, <1>1, <1>2 DEF HeapButAbove, Below
      <4>2. AtMost(s[Parent(p) + 1], s[j + 1])
        BY <4>1, <3>2, <3>4, <1>3, <2>3, <2>8, OrderTransitive
      <4>3. j # p
        BY <2>8
      <4>4. QED
        BY <4>2, <4>3, <3>3, <3>6, <2>6, <2>8
    <3>7. QED
      BY <3>5, <3>6
  <2>11. UpCall(h) \in Rising(n, R)
    BY <2>3, <2>5, <2>6, <2>9, <2>10 DEF Rising
  <2>12. QED
    BY <2>2, <2>5, <2>11, <1>5 DEF i
<1>6. QED
  BY <1>4, <1>5
-----------------------------------------------------------------------------
(* A push.                                                                 *)

LEMMA PushKeepsHeap ==
  ASSUME NEW n \in Nat, NEW R, NEW s \in Arrays(n, R), Heap(s), NEW x \in Items, x \notin R
  PROVE  PqPush(s, x) \in Arrays(n + 1, R \cup {x}) /\ Heap(PqPush(s, x))
<1> DEFINE t == Append(s, x)
           Q == R \cup {x}
           G == [k \in 0..(n + 1) |-> {h \in Rising(n + 1, Q) : UpStops(h) \/ h.i + k <= n}]
<1>1. s \in Seq(Items) /\ Len(s) = n /\ Range(s) = R /\ OneToOne(s)
  BY DEF Arrays
<1>2. /\ t \in Seq(Items) /\ Len(t) = n + 1 /\ t[n + 1] = x
      /\ \A k \in 1..n : t[k] = s[k]
  BY <1>1
<1> HIDE DEF t
<1>3. t \in Arrays(n + 1, Q)
  <2>1. Range(t) = {t[k] : k \in 1..(n + 1)} /\ R = {s[k] : k \in 1..n}
    BY <1>1, <1>2, SeqFacts
  <2>2. Range(t) = Q
    <3>1. ASSUME NEW k \in 1..(n + 1) PROVE t[k] \in Q
      <4>1. k \in 1..n \/ k = n + 1
        OBVIOUS
      <4>2. QED
        BY <4>1, <1>2, <2>1
    <3>2. ASSUME NEW y \in Q PROVE \E k \in 1..(n + 1) : t[k] = y
      <4>1. CASE y = x
        <5>1. n + 1 \in 1..(n + 1)
          OBVIOUS
        <5>2. QED
          BY <4>1, <5>1, <1>2
      <4>2. CASE y \in R
        <5>1. PICK k \in 1..n : s[k] = y
          BY <4>2, <2>1
        <5>2. k \in 1..(n + 1)
          OBVIOUS
        <5>3. QED
          BY <5>1, <5>2, <1>2
      <4>3. QED
        BY <4>1, <4>2
    <3>3. QED
      BY <3>1, <3>2, <2>1
  <2>3. OneToOne(t)
    <3> SUFFICES ASSUME NEW i \in 1..(n + 1), NEW j \in 1..(n + 1), t[i] = t[j]
                 PROVE  i = j
      BY <1>2 DEF OneToOne
    <3>1. \A k \in 1..n : t[k] # x
      BY <1>2, <2>1
    <3>2. (i \in 1..n \/ i = n + 1) /\ (j \in 1..n \/ j = n + 1)
      OBVIOUS
    <3>3. QED
      BY <3>1, <3>2, <1>1, <1>2 DEF OneToOne
  <2>4. QED
    BY <1>2, <2>2, <2>3 DEF Arrays
<1>4. [s |-> t, i |-> n] \in Rising(n + 1, Q)
  <2>1. ASSUME NEW j \in 1..n
        PROVE  j \in Nat /\ j > 0 /\ Parent(j) \in Nat /\ Parent(j) < j
    BY ParentFacts
  <2>2. HeapButAbove(t, n)
    <3> SUFFICES ASSUME NEW j \in 1..n, j # n
                 PROVE  AtMost(t[Parent(j) + 1], t[j + 1])
      BY <1>2 DEF HeapButAbove, Below
    <3>1. j \in 1..(n - 1) /\ j + 1 \in 1..n /\ Parent(j) + 1 \in 1..n
      BY <2>1
    <3>2. AtMost(s[Parent(j) + 1], s[j + 1])
      BY <3>1, <1>1 DEF Heap, Below
    <3>3. QED
      BY <3>1, <3>2, <1>2
  <2>3. Bridged(t, n)
    <3>1. \A j \in 1..n : Parent(j) # n
      BY <2>1
    <3>2. QED
      BY <3>1, <1>2 DEF Bridged
  <2>4. n \in 0..((n + 1) - 1)
    OBVIOUS
  <2>5. QED
    BY <1>3, <2>2, <2>3, <2>4 DEF Rising
<1>5. [s |-> t, i |-> n] \in G[0]
  BY <1>4
<1>6. ASSUME NEW k \in 1..(n + 1), NEW h \in G[k - 1]
      PROVE  UpCall(h) \in G[k]
  <2>1. k - 1 \in 0..(n + 1) /\ k \in 0..(n + 1) /\ n + 1 \in Nat
    OBVIOUS
  <2>2. h \in Rising(n + 1, Q) /\ (UpStops(h) \/ h.i + (k - 1) <= n)
    BY <2>1
  <2>3. /\ UpCall(h) \in Rising(n + 1, Q)
        /\ UpStops(h) => UpCall(h) = h
        /\ ~UpStops(h) => UpCall(h).i < h.i
    BY <2>1, <2>2, UpCallKeeps
  <2>4. h.i \in Nat /\ UpCall(h).i \in Nat
    BY <2>2, <2>3 DEF Rising
  <2>5. UpStops(UpCall(h)) \/ UpCall(h).i + k <= n
    BY <2>2, <2>3, <2>4
  <2>6. QED
    BY <2>1, <2>3, <2>5
<1> HIDE DEF G
<1>7. PICK h \in G[n + 1] : BubbleUp(t, n) = h.s
  BY <1>2, <1>5, <1>6, BubbleUpInduction
<1>8. h \in Rising(n + 1, Q) /\ UpStops(h)
  <2>1. n + 1 \in 0..(n + 1)
    OBVIOUS
  <2>2. h \in Rising(n + 1, Q) /\ (UpStops(h) \/ h.i + (n + 1) <= n)
    BY <2>1, <1>7 DEF G
  <2>3. h.i \in Nat
    BY <2>2 DEF Rising
  <2>4. QED
    BY <2>2, <2>3
<1>9. h.s \in Arrays(n + 1, Q) /\ HeapButAbove(h.s, h.i)
  BY <1>8 DEF Rising
<1>10. Heap(h.s)
  <2> SUFFICES ASSUME NEW j \in 1..(Len(h.s) - 1)
               PROVE  Below(h.s, j)
    BY DEF Heap
  <2>1. CASE j = h.i
    BY <2>1, <1>8 DEF UpStops
  <2>2. CASE j # h.i
    BY <2>2, <1>9 DEF HeapButAbove
  <2>3. QED
    BY <2>1, <2>2
<1>11. PqPush(s, x) = BubbleUp(t, n)
  BY <1>1 DEF PqPush, t
<1>12. QED
  BY <1>7, <1>9, <1>10, <1>11
-----------------------------------------------------------------------------
(* bubble_down.                                                            *)

DownRun(s, index, n, f) ==
  f = [k \in 0..n |-> IF k = 0 THEN [s |-> s, i |-> index] ELSE DownCall(f[k - 1])]

LEMMA DownRunExists ==
  ASSUME NEW s, NEW index, NEW n \in Nat
  PROVE  \E f : DownRun(s, index, n, f)
<1> DEFINE h == [s |-> s, i |-> index]
           T == {k \in Nat : ~\E f : DownRun(s, index, k, f)}
<1> SUFFICES ASSUME T # {} PROVE FALSE
  OBVIOUS
<1>1. PICK m \in T : \A k \in T : ~(k < m)
  <2>1. T \subseteq Nat
    OBVIOUS
  <2> HIDE DEF T
  <2>2. QED
    BY <2>1, LeastNumber
<1> HIDE DEF h
<1>2. m # 0
  <2> DEFINE f == [k \in 0..0 |-> h]
  <2>1. f = [k \in 0..0 |-> IF k = 0 THEN h ELSE DownCall(f[k - 1])]
    OBVIOUS
  <2>2. DownRun(s, index, 0, f)
    BY <2>1 DEF DownRun, h
  <2>3. QED
    BY <2>2
<1>3. m \in Nat /\ m - 1 \in Nat /\ m - 1 < m
  BY <1>1, <1>2
<1>4. PICK f : DownRun(s, index, m - 1, f)
  BY <1>1, <1>3
<1>5. f = [k \in 0..(m - 1) |-> IF k = 0 THEN h ELSE DownCall(f[k - 1])]
  BY <1>4 DEF DownRun, h
<1> DEFINE g == [k \in 0..m |-> IF k = m THEN DownCall(f[m - 1]) ELSE f[k]]
<1>6. ASSUME NEW k \in 0..m
      PROVE  g[k] = IF k = 0 THEN h ELSE DownCall(g[k - 1])
  <2>1. CASE k = m
    <3>1. g[m - 1] = f[m - 1]
      BY <1>3
    <3>2. QED
      BY <2>1, <3>1, <1>2
  <2>2. CASE k # m
    <3>1. k \in 0..(m - 1)
      BY <2>2, <1>3
    <3>2. f[k] = IF k = 0 THEN h ELSE DownCall(f[k - 1])
      BY <3>1, <1>5
    <3>3. k # 0 => k - 1 \in 0..m /\ k - 1 # m
      BY <1>3, <3>1
    <3>4. QED
      BY <2>2, <3>2, <3>3
  <2>3. QED
    BY <2>1, <2>2
<1>7. g = [k \in 0..m |-> IF k = 0 THEN h ELSE DownCall(g[k - 1])]
  BY <1>6
<1>8. DownRun(s, index, m, g)
  BY <1>7 DEF DownRun, h
<1>9. QED
  BY <1>1, <1>8

\* What holds at first and is kept by every call holds in the end.
LEMMA BubbleDownInduction ==
  ASSUME NEW s \in Seq(Items), NEW index, NEW G, [s |-> s, i |-> index] \in G[0],
         \A k \in 1..Len(s) : \A h \in G[k - 1] : DownCall(h) \in G[k]
  PROVE  \E h \in G[Len(s)] : BubbleDown(s, index) = h.s
<1> DEFINE n == Len(s)
           run == CHOOSE f : DownRun(s, index, n, f)
<1>1. n \in Nat
  OBVIOUS
<1>2. DownRun(s, index, n, run)
  BY <1>1, DownRunExists
<1>3. BubbleDown(s, index) = run[n].s
  BY Zenon DEF BubbleDown, DownRun
<1> HIDE DEF run, n
<1>4. \A k \in 0..n : run[k] = IF k = 0 THEN [s |-> s, i |-> index] ELSE DownCall(run[k - 1])
  BY <1>2 DEF DownRun
<1> DEFINE T == {k \in 0..n : run[k] \notin G[k]}
<1>5. T = {}
  <2> SUFFICES ASSUME T # {} PROVE FALSE
    OBVIOUS
  <2>1. PICK m \in T : \A k \in T : ~(k < m)
    <3>1. T \subseteq Nat
      BY <1>1
    <3> HIDE DEF T
    <3>2. QED
      BY <3>1, LeastNumber
  <2>2. m # 0
    BY <1>1, <1>4, <2>1
  <2>3. m \in 1..n /\ m - 1 \in 0..n /\ m - 1 < m
    BY <1>1, <2>2
  <2>4. run[m - 1] \in G[m - 1]
    BY <2>1, <2>3
  <2>5. run[m] = DownCall(run[m - 1])
    BY <1>4, <2>2, <2>3
  <2>6. QED
    BY <2>3, <2>4, <2>5 DEF n
<1>6. run[n] \in G[n]
  BY <1>1, <1>5
<1>7. QED
  BY <1>3, <1>6 DEF n


\* Where a call of bubble_down leaves the heap: the entry at i may only be too large.
Sinking(n, R) ==
  {h \in [s : Arrays(n, R), i : 0..(n - 1)] : HeapButBelow(h.s, h.i) /\ Bridged(h.s, h.i)}

DownStops(h) == \A j \in 1..(Len(h.s) - 1) : Parent(j) = h.i => Below(h.s, j)

\* The entry at MinIndex is no larger than the one at i and its children.
LEMMA MinIndexIsLeast ==
  ASSUME NEW n \in Nat, NEW R, NEW s \in Arrays(n, R), NEW i \in 0..(n - 1)
  PROVE  LET m == MinIndex(s, i)
         IN  /\ m = i \/ (m \in 1..(n - 1) /\ Parent(m) = i /\ i < m)
             /\ AtMost(s[m + 1], s[i + 1])
             /\ \A j \in 1..(n - 1) : Parent(j) = i => AtMost(s[m + 1], s[j + 1])
<1> DEFINE l == i * 2 + 1
           b == IF l < n /\ Compar(s[i + 1], s[l + 1]) > 0 THEN l ELSE i
           m == IF l + 1 < n /\ Compar(s[b + 1], s[(l + 1) + 1]) > 0 THEN l + 1 ELSE b
<1>1. s \in Seq(Items) /\ Len(s) = n
  BY DEF Arrays
<1>2. MinIndex(s, i) = m
  BY <1>1 DEF MinIndex
<1>3. \A k \in 0..(n - 1) : s[k + 1] \in Items
  BY <1>1
<1>4. i \in Nat /\ l \in Nat /\ i < l /\ Parent(l) = i /\ Parent(l + 1) = i
  BY ChildFacts
<1>5. \A j \in 1..(n - 1) : Parent(j) = i => j = l \/ j = l + 1
  BY ParentFacts
<1> HIDE DEF l
<1>6. /\ b = i \/ (b = l /\ l < n)
      /\ AtMost(s[b + 1], s[i + 1])
      /\ l < n => AtMost(s[b + 1], s[l + 1])
  <2>1. CASE l < n
    <3>1. l \in 0..(n - 1)
      BY <2>1, <1>4
    <3>2. QED
      BY <2>1, <3>1, <1>3, OrderTotal
  <2>2. CASE ~(l < n)
    BY <2>2, <1>3, OrderTotal
  <2>3. QED
    BY <2>1, <2>2
<1>7. b \in 0..(n - 1)
  BY <1>4, <1>6
<1> HIDE DEF b
<1>8. /\ m = b \/ (m = l + 1 /\ l + 1 < n)
      /\ AtMost(s[m + 1], s[b + 1])
      /\ l + 1 < n => AtMost(s[m + 1], s[(l + 1) + 1])
  <2>1. CASE l + 1 < n
    <3>1. l + 1 \in 0..(n - 1)
      BY <2>1, <1>4
    <3>2. QED
      BY <2>1, <3>1, <1>3, <1>7, OrderTotal
  <2>2. CASE ~(l + 1 < n)
    BY <2>2, <1>3, <1>7, OrderTotal
  <2>3. QED
    BY <2>1, <2>2
<1>9. m \in 0..(n - 1)
  BY <1>4, <1>7, <1>8
<1> HIDE DEF m
<1>10. m = i \/ (m \in 1..(n - 1) /\ Parent(m) = i /\ i < m)
  BY <1>4, <1>6, <1>8
<1>11. AtMost(s[m + 1], s[i + 1])
  BY <1>3, <1>6, <1>7, <1>8, <1>9, OrderTransitive
<1>12. ASSUME NEW j \in 1..(n - 1), Parent(j) = i
       PROVE  AtMost(s[m + 1], s[j + 1])
  <2>1. j \in 0..(n - 1) /\ j < n /\ (j = l \/ j = l + 1)
    BY <1>5, <1>12
  <2>2. CASE j = l
    BY <2>1, <2>2, <1>3, <1>6, <1>7, <1>8, <1>9, OrderTransitive
  <2>3. CASE j = l + 1
    BY <2>1, <2>3, <1>8
  <2>4. QED
    BY <2>1, <2>2, <2>3
<1>13. QED
  BY <1>2, <1>10, <1>11, <1>12

LEMMA StopsMeansStop ==
  ASSUME NEW n \in Nat, NEW R, NEW h \in Sinking(n, R), DownStops(h)
  PROVE  DownCall(h) = h
<1> DEFINE s == h.s
           i == h.i
           m == MinIndex(s, i)
           l == i * 2 + 1
<1>1. s \in Arrays(n, R) /\ i \in 0..(n - 1)
  BY DEF Sinking
<1>2. s \in Seq(Items) /\ Len(s) = n
  BY <1>1 DEF Arrays
<1>3. \A k \in 0..(n - 1) : s[k + 1] \in Items
  BY <1>2
<1>4. i \in Nat /\ l \in Nat /\ l > 0 /\ Parent(l) = i /\ Parent(l + 1) = i
  BY <1>1, ChildFacts
<1>5. ASSUME NEW j \in {l, l + 1}, j < n
      PROVE  ~(Compar(s[i + 1], s[j + 1]) > 0)
  <2>1. j \in 1..(n - 1) /\ j \in 0..(n - 1) /\ Parent(j) = i
    BY <1>4, <1>5
  <2>2. AtMost(s[i + 1], s[j + 1])
    BY <2>1, <1>2 DEF DownStops, Below
  <2>3. QED
    BY <2>1, <2>2, <1>1, <1>3, OrderTotal
<1>6. m = i
  BY <1>2, <1>5 DEF MinIndex
<1>7. QED
  BY <1>6 DEF DownCall

LEMMA DownCallKeeps ==
  ASSUME NEW n \in Nat, NEW R, NEW h \in Sinking(n, R)
  PROVE  /\ DownCall(h) \in Sinking(n, R)
         /\ DownCall(h) = h => DownStops(h)
         /\ DownCall(h) # h => h.i < DownCall(h).i
<1> DEFINE s == h.s
           i == h.i
           m == MinIndex(s, i)
<1>1. s \in Arrays(n, R) /\ i \in 0..(n - 1) /\ HeapButBelow(s, i) /\ Bridged(s, i)
  BY DEF Sinking
<1>2. s \in Seq(Items) /\ Len(s) = n
  BY <1>1 DEF Arrays
<1>3. /\ m = i \/ (m \in 1..(n - 1) /\ Parent(m) = i /\ i < m)
      /\ AtMost(s[m + 1], s[i + 1])
      /\ \A j \in 1..(n - 1) : Parent(j) = i => AtMost(s[m + 1], s[j + 1])
  <2> HIDE DEF s, i
  <2>1. QED
    BY <1>1, MinIndexIsLeast
<1>4. CASE m = i
  <2>1. DownCall(h) = h
    BY <1>4 DEF DownCall
  <2>2. DownStops(h)
    BY <1>2, <1>3, <1>4 DEF DownStops, Below
  <2>3. QED
    BY <2>1, <2>2
<1>5. CASE m # i
  <2> DEFINE t == Swap(s, i, m)
  <2>1. DownCall(h) = [s |-> t, i |-> m]
    BY <1>5 DEF DownCall
  <2> HIDE DEF m
  <2>2. m \in 1..(n - 1) /\ Parent(m) = i /\ i < m /\ m \in 0..(n - 1) /\ i \in Nat
    BY <1>1, <1>3, <1>5
  <2>3. DownCall(h).i = m
    BY <2>1
  <2> HIDE DEF s, i
  <2>4. /\ t \in Arrays(n, R) /\ t[i + 1] = s[m + 1] /\ t[m + 1] = s[i + 1]
        /\ \A k \in 0..(n - 1) : k # i /\ k # m => t[k + 1] = s[k + 1]
    BY <1>1, <2>2, SwapKeeps
  <2> HIDE DEF t
  <2>5. Len(t) = n
    BY <2>4 DEF Arrays
  <2>6. ASSUME NEW j \in 1..(n - 1)
        PROVE  /\ j \in Nat /\ j > 0 /\ j \in 0..(n - 1)
               /\ Parent(j) \in Nat /\ Parent(j) < j /\ Parent(j) \in 0..(n - 1)
    <3>1. j \in Nat /\ j > 0 /\ j \in 0..(n - 1)
      OBVIOUS
    <3>2. Parent(j) \in Nat /\ Parent(j) < j
      BY <3>1, ParentFacts
    <3>3. QED
      BY <3>1, <3>2
  <2>7. HeapButBelow(t, m)
    <3> SUFFICES ASSUME NEW j \in 1..(n - 1), Parent(j) # m
                 PROVE  AtMost(t[Parent(j) + 1], t[j + 1])
      BY <2>5 DEF HeapButBelow, Below
    <3>1. CASE j = m
      BY <3>1, <1>3, <2>2, <2>4
    <3>2. CASE j # m /\ Parent(j) = i
      <4>1. j # i
        BY <3>2, <2>6
      <4>2. QED
        BY <3>2, <4>1, <1>3, <2>4, <2>6
    <3>3. CASE j = i
      <4>1. AtMost(s[Parent(i) + 1], s[m + 1])
        BY <3>3, <1>1, <1>2, <2>2, <2>6 DEF Bridged
      <4>2. t[Parent(i) + 1] = s[Parent(i) + 1]
        BY <3>3, <2>2, <2>4, <2>6
      <4>3. QED
        BY <3>3, <4>1, <4>2, <2>4
    <3>4. CASE j # m /\ j # i /\ Parent(j) # i
      <4>1. AtMost(s[Parent(j) + 1], s[j + 1])
        BY <3>4, <1>1, <1>2 DEF HeapButBelow, Below
      <4>2. QED
        BY <3>4, <4>1, <2>4, <2>6
    <3>5. QED
      BY <3>1, <3>2, <3>3, <3>4
  <2>8. Bridged(t, m)
    <3> SUFFICES ASSUME NEW j \in 1..(n - 1), Parent(j) = m
                 PROVE  AtMost(t[Parent(m) + 1], t[j + 1])
      BY <2>5 DEF Bridged
    <3>1. m < j /\ j # m /\ j # i
      BY <2>2, <2>6
    <3>2. AtMost(s[m + 1], s[j + 1])
      BY <1>1, <1>2, <2>2 DEF HeapButBelow, Below
    <3>3. QED
      BY <3>1, <3>2, <2>2, <2>4, <2>6
  <2>9. DownCall(h) \in Sinking(n, R)
    BY <2>1, <2>2, <2>4, <2>7, <2>8 DEF Sinking
  <2>10. DownCall(h) # h
    BY <2>3, <1>5 DEF i
  <2>11. QED
    BY <2>2, <2>3, <2>9, <2>10 DEF i
<1>6. QED
  BY <1>4, <1>5
-----------------------------------------------------------------------------
(* A pop.                                                                  *)

LEMMA SinkToHeap ==
  ASSUME NEW n \in Nat, NEW R, NEW t \in Arrays(n, R), n > 0, HeapButBelow(t, 0)
  PROVE  BubbleDown(t, 0) \in Arrays(n, R) /\ Heap(BubbleDown(t, 0))
<1> DEFINE G == [k \in 0..n |-> {h \in Sinking(n, R) : DownStops(h) \/ h.i >= k}]
<1>1. t \in Seq(Items) /\ Len(t) = n
  BY DEF Arrays
<1>2. [s |-> t, i |-> 0] \in Sinking(n, R)
  BY DEF Sinking, Bridged
<1>3. [s |-> t, i |-> 0] \in G[0]
  BY <1>2
<1>4. ASSUME NEW k \in 1..n, NEW h \in G[k - 1]
      PROVE  DownCall(h) \in G[k]
  <2>1. k - 1 \in 0..n /\ k \in 0..n
    OBVIOUS
  <2>2. h \in Sinking(n, R) /\ (DownStops(h) \/ h.i >= k - 1)
    BY <2>1
  <2>3. /\ DownCall(h) \in Sinking(n, R)
        /\ DownCall(h) = h => DownStops(h)
        /\ DownCall(h) # h => h.i < DownCall(h).i
    BY <2>2, DownCallKeeps
  <2>4. h.i \in Nat /\ DownCall(h).i \in Nat
    BY <2>2, <2>3 DEF Sinking
  <2>5. DownStops(h) => DownCall(h) = h
    BY <2>2, StopsMeansStop
  <2>6. DownStops(DownCall(h)) \/ DownCall(h).i >= k
    BY <2>1, <2>2, <2>3, <2>4, <2>5
  <2>7. QED
    BY <2>1, <2>3, <2>6
<1> HIDE DEF G
<1>5. PICK h \in G[n] : BubbleDown(t, 0) = h.s
  BY <1>1, <1>3, <1>4, BubbleDownInduction
<1>6. h \in Sinking(n, R) /\ DownStops(h)
  <2>1. n \in 0..n
    OBVIOUS
  <2>2. h \in Sinking(n, R) /\ (DownStops(h) \/ h.i >= n)
    BY <2>1, <1>5 DEF G
  <2>3. h.i \in 0..(n - 1)
    BY <2>2 DEF Sinking
  <2>4. QED
    BY <2>2, <2>3
<1>7. h.s \in Arrays(n, R) /\ HeapButBelow(h.s, h.i)
  BY <1>6 DEF Sinking
<1>8. Heap(h.s)
  BY <1>6, <1>7 DEF Heap, DownStops, HeapButBelow
<1>9. QED
  BY <1>5, <1>7, <1>8

\* What pop leaves: the items but the least one, as a heap again.
LEMMA PopKeepsHeap ==
  ASSUME NEW n \in Nat, NEW R, NEW s \in Arrays(n, R), Heap(s), n > 0
  PROVE  PqPop(s) \in Arrays(n - 1, R \ {s[1]}) /\ Heap(PqPop(s))
<1> DEFINE Q == R \ {s[1]}
<1>1. s \in Seq(Items) /\ Len(s) = n /\ OneToOne(s) /\ R = {s[k] : k \in 1..n}
  BY SeqFacts DEF Arrays
<1>2. CASE n = 1
  <2>1. PqPop(s) = <<>>
    BY <1>1, <1>2 DEF PqPop
  <2>2. Q = {}
    BY <1>1, <1>2
  <2>3. <<>> \in Seq(Items) /\ Len(<<>>) = 0
    OBVIOUS
  <2>4. Range(<<>>) = {}
    BY DEF Range
  <2>5. OneToOne(<<>>) /\ Heap(<<>>)
    BY <2>3 DEF OneToOne, Heap
  <2>6. QED
    BY <1>2, <2>1, <2>2, <2>3, <2>4, <2>5 DEF Arrays
<1>3. CASE n # 1
  <2> DEFINE t == [Front(s) EXCEPT ![1] = Last(s)]
             p == n - 1
  <2>1. p \in Nat /\ p > 0 /\ 1 \in 1..p /\ n \in 1..n
    BY <1>3
  <2>2. PqPop(s) = BubbleDown(t, 0)
    BY <1>1, <1>3 DEF PqPop
  <2>3. Front(s) \in [1..p -> Items] /\ \A k \in 1..p : Front(s)[k] = s[k]
    <3>1. Front(s) = SubSeq(s, 1, p)
      BY <1>1 DEF Front
    <3>2. SubSeq(s, 1, p) = [k \in 1..p |-> s[k]]
      BY <1>1, <2>1
    <3>3. \A k \in 1..p : s[k] \in Items
      BY <1>1, <2>1
    <3> HIDE DEF p
    <3>4. QED
      BY <3>1, <3>2, <3>3
  <2>4. Last(s) = s[n]
    BY <1>1 DEF Last
  <2>5. t = [k \in 1..p |-> IF k = 1 THEN s[n] ELSE s[k]]
    BY <2>3, <2>4
  <2> HIDE DEF t
  <2>6. \A k \in 1..n : s[k] \in Items
    BY <1>1
  <2>7. \A k \in 1..p : k \in 1..n /\ k # n
    OBVIOUS
  <2>8. t \in [1..p -> Items]
    BY <2>1, <2>5, <2>6, <2>7
  <2>9. t \in Seq(Items) /\ Len(t) = p
    BY <2>1, <2>8
  <2>10. Range(t) = Q
    <3>1. Range(t) = {t[k] : k \in 1..p}
      BY <2>9, SeqFacts
    <3>2. 1 \in 1..n
      BY <2>1
    <3>3. ASSUME NEW k \in 1..p PROVE t[k] \in Q
      BY <1>1, <1>3, <2>1, <2>5, <2>7, <3>2 DEF OneToOne
    <3>4. ASSUME NEW y \in Q PROVE \E k \in 1..p : t[k] = y
      <4>1. PICK k \in 1..n : s[k] = y
        BY <1>1
      <4>2. k # 1
        BY <4>1
      <4>3. CASE k = n
        BY <4>1, <4>3, <2>1, <2>5
      <4>4. CASE k # n
        <5>1. k \in 1..p
          BY <4>4
        <5>2. QED
          BY <5>1, <4>1, <4>2, <2>5
      <4>5. QED
        BY <4>3, <4>4
    <3>5. QED
      BY <3>1, <3>3, <3>4
  <2>11. OneToOne(t)
    BY <1>1, <2>1, <2>5, <2>7, <2>9 DEF OneToOne
  <2>12. t \in Arrays(p, Q)
    BY <2>9, <2>10, <2>11 DEF Arrays
  <2>13. HeapButBelow(t, 0)
    <3> SUFFICES ASSUME NEW j \in 1..(p - 1), Parent(j) # 0
                 PROVE  AtMost(t[Parent(j) + 1], t[j + 1])
      BY <2>9 DEF HeapButBelow, Below
    <3>1. j \in Nat /\ j > 0
      OBVIOUS
    <3>2. Parent(j) \in Nat /\ Parent(j) < j
      BY <3>1, ParentFacts
    <3>3. j \in 1..(n - 1) /\ j + 1 \in 1..p /\ Parent(j) + 1 \in 1..p /\ j + 1 # 1 /\ Parent(j) + 1 # 1
      BY <3>1, <3>2
    <3>4. AtMost(s[Parent(j) + 1], s[j + 1])
      BY <3>3, <1>1 DEF Heap, Below
    <3>5. QED
      BY <3>3, <3>4, <2>5
  <2> HIDE DEF p, Q
  <2>14. BubbleDown(t, 0) \in Arrays(p, Q) /\ Heap(BubbleDown(t, 0))
    BY <2>1, <2>12, <2>13, SinkToHeap
  <2>15. QED
    BY <2>2, <2>14 DEF p, Q
<1>4. QED
  BY <1>2, <1>3
-----------------------------------------------------------------------------
(* The refinement.                                                         *)

\* The array is a heap without repetitions, within the allocation.
HeapInv ==
  /\ q \in Seq(Items) /\ OneToOne(q) /\ Heap(q)
  /\ capacity \in Nat /\ capacity > 0 /\ Len(q) <= capacity

LEMMA HeapStart == QueueInit => HeapInv
<1> SUFFICES ASSUME QueueInit PROVE HeapInv
  OBVIOUS
<1>1. q = <<>> /\ capacity = InitCapacity /\ InitCapacity \in Nat \ {0}
  BY QueueAssumption DEF QueueInit
<1>2. q \in Seq(Items) /\ Len(q) = 0
  BY <1>1
<1>3. OneToOne(q) /\ Heap(q)
  BY <1>2 DEF OneToOne, Heap
<1>4. QED
  BY <1>1, <1>2, <1>3 DEF HeapInv

LEMMA PushStep ==
  ASSUME HeapInv, NEW item \in Items, Push(item)
  PROVE  HeapInv' /\ Range(q') = Range(q) \cup {item} /\ item \notin Range(q) /\ popped' = {}
<1> DEFINE n == Len(q)
<1>1. q \in Arrays(n, Range(q)) /\ n \in Nat /\ Heap(q)
  BY DEF HeapInv, Arrays
<1>2. capacity \in Nat /\ capacity > 0 /\ n <= capacity
  BY DEF HeapInv
<1>3. capacity' = (IF capacity <= n THEN capacity * 2 ELSE capacity) /\ item \notin Range(q) /\ popped' = {}
  BY DEF Push
<1>4. capacity' \in Nat /\ capacity' > 0 /\ n < capacity'
  BY <1>1, <1>2, <1>3
<1>5. q' = PqPush(q, item)
  BY <1>4 DEF Push
<1> HIDE DEF n
<1>6. q' \in Arrays(n + 1, Range(q) \cup {item}) /\ Heap(q')
  BY <1>1, <1>3, <1>5, PushKeepsHeap
<1>7. q' \in Seq(Items) /\ Len(q') = n + 1 /\ OneToOne(q') /\ Range(q') = Range(q) \cup {item}
  BY <1>6 DEF Arrays
<1>8. Len(q') <= capacity'
  BY <1>1, <1>4, <1>7
<1>9. QED
  BY <1>3, <1>4, <1>6, <1>7, <1>8 DEF HeapInv

LEMMA PopStep ==
  ASSUME HeapInv, Pop
  PROVE  /\ HeapInv' /\ q[1] \in Range(q) /\ Range(q') = Range(q) \ {q[1]} /\ popped' = {q[1]}
         /\ \A j \in Range(q) \ {q[1]} : Ordered!Less(q[1], j)
<1> DEFINE n == Len(q)
<1>1. q \in Arrays(n, Range(q)) /\ n \in Nat /\ Heap(q) /\ q \in Seq(Items)
  BY DEF HeapInv, Arrays
<1>2. n > 0 /\ q' = PqPop(q) /\ popped' = {q[1]} /\ capacity' = capacity
  BY <1>1 DEF Pop
<1>3. Range(q) = {q[k] : k \in 1..n}
  BY <1>1, SeqFacts
<1>4. 1 \in 1..n /\ q[1] \in Range(q) /\ q[1] \in Items
  BY <1>1, <1>2, <1>3
<1>5. ASSUME NEW y \in Range(q) \ {q[1]}
      PROVE  Ordered!Less(q[1], y)
  <2>1. PICK k \in 1..n : y = q[k]
    BY <1>3
  <2>2. k - 1 \in 0..(n - 1) /\ (k - 1) + 1 = k /\ y \in Items
    BY <1>1, <2>1
  <2>3. AtMost(q[1], q[(k - 1) + 1])
    BY <1>1, <2>2, RootIsLeast
  <2>4. QED
    BY <1>4, <2>1, <2>2, <2>3, OrderStrict DEF Ordered!Less
<1> HIDE DEF n
<1>6. q' \in Arrays(n - 1, Range(q) \ {q[1]}) /\ Heap(q')
  BY <1>1, <1>2, PopKeepsHeap
<1>7. q' \in Seq(Items) /\ Len(q') = n - 1 /\ OneToOne(q') /\ Range(q') = Range(q) \ {q[1]}
  BY <1>6 DEF Arrays
<1>8. Len(q') <= capacity' /\ capacity' \in Nat /\ capacity' > 0
  BY <1>1, <1>2, <1>7 DEF HeapInv, n
<1>9. QED
  BY <1>2, <1>4, <1>5, <1>6, <1>7, <1>8 DEF HeapInv

LEMMA QueueStep ==
  HeapInv /\ [QueueNext]_queueVars => HeapInv' /\ [Ordered!Next]_<<Range(q), popped>>
<1> SUFFICES ASSUME HeapInv, [QueueNext]_queueVars
             PROVE  HeapInv' /\ [Ordered!Next]_<<Range(q), popped>>
  OBVIOUS
<1>1. ASSUME NEW item \in Items, Push(item)
      PROVE  HeapInv' /\ Ordered!Next
  <2>1. HeapInv' /\ Range(q') = Range(q) \cup {item} /\ item \notin Range(q) /\ popped' = {}
    BY <1>1, PushStep
  <2>2. Range(q)' = Range(q')
    OBVIOUS
  <2>3. QED
    BY <2>1, <2>2 DEF Ordered!Next, Ordered!Push
<1>2. CASE Pop
  <2>1. /\ HeapInv' /\ q[1] \in Range(q) /\ Range(q') = Range(q) \ {q[1]} /\ popped' = {q[1]}
        /\ \A j \in Range(q) \ {q[1]} : Ordered!Less(q[1], j)
    BY <1>2, PopStep
  <2>2. Ordered!Pop
    BY <2>1 DEF Ordered!Pop
  <2>3. QED
    BY <2>1, <2>2 DEF Ordered!Next
<1>3. CASE UNCHANGED queueVars
  BY <1>3 DEF queueVars, HeapInv, OneToOne, Heap, Below
<1>4. QED
  BY <1>1, <1>2, <1>3 DEF QueueNext

\* The array heap of spdylay_pq.c is the ordered queue that SessionState takes it
\* for: push adds the item and nothing else, across every growth of the array,
\* and pop takes off the least item of (pri, seq), whatever was pushed before.
THEOREM HeapImplementsQueue == QueueSpec => ImplementsOrderedQueue
<1>1. QueueInit => Ordered!Init
  <2>1. Range(<<>>) = {}
    BY DEF Range
  <2>2. QED
    BY <2>1 DEF QueueInit, Ordered!Init
<1>2. QED
  BY <1>1, HeapStart, QueueStep, PTL DEF QueueSpec, ImplementsOrderedQueue, Ordered!Spec
=============================================================================
