------------------------------ MODULE CertStore ------------------------------
(***************************************************************************)
(* The client certificate vector over the life of a session: origins are   *)
(* registered before the first request to them and the server resizes the  *)
(* vector with SETTINGS_CLIENT_CERTIFICATE_VECTOR_SIZE at any time.        *)
(***************************************************************************)
EXTENDS CertVector

CONSTANTS
  Origins,   \* origins with a certificate
  InitSize   \* SPDYLAY_INITIAL_CLIENT_CERT_VECTOR_LENGTH

ASSUME StoreAssumption ==
  Origins \subseteq STRING /\ EmptySlot \notin Origins /\ InitSize \in 0..MaxSlots

VARIABLES
  cv,     \* the vector
  older   \* history: <<a, b>> for origins in the vector, a registered before b

vars == <<cv, older>>

Stored(v) == {v.vector[i] : i \in 1..v.size} \ {EmptySlot}

\* older without the origins that are no longer stored.
Kept(v) == older \cap (Stored(v) \X Stored(v))

Init == cv = CertVectorInit(InitSize) /\ older = {}

\* spdylay_session_prep_credential puts an origin it did not find;
\* spdylay_session_set_initial_client_cert_origin puts the first one.
Register(o) ==
  /\ cv.size > 0 /\ Find(cv, o) = 0
  /\ cv' = Put(cv, o)
  /\ older' = Kept(cv') \cup ((Stored(cv') \ {o}) \X {o})

Ask(n) ==
  /\ cv' = Resize(cv, n)
  /\ older' = Kept(cv')

Next ==
  \/ \E o \in Origins : Register(o)
  \/ \E n \in 0..MaxSlots : Ask(n)

Spec == Init /\ [][Next]_vars
-----------------------------------------------------------------------------
\* The type of the vector, and the cursor never leaves the slots in use: put
\* writes inside the allocation.
CertTypeOK ==
  /\ cv \in [size : 0..MaxSlots, capacity : 0..MaxSlots, last_slot : 0..MaxSlots,
             vector : [1..MaxSlots -> Origins \cup {EmptySlot}]]
  /\ cv.last_slot <= cv.size
  /\ cv.size <= cv.capacity

\* A stored origin is found again, in the slot the server knows it by, although
\* spdylay_client_cert_vector_find stops at the first empty slot and resizing
\* moves the end of the vector.
OriginsFound ==
  \A i \in 1..cv.size : cv.vector[i] # EmptySlot => Find(cv, cv.vector[i]) = i

\* The certificate that gives way to a new one is the one registered first.
EvictsOldest ==
  [][\A i \in 1..cv.size :
       cv'.size = cv.size /\ cv.vector[i] # cv'.vector[i] /\ cv.vector[i] # EmptySlot
         => \A o \in Stored(cv) \ {cv.vector[i]} : <<cv.vector[i], o>> \in older]_vars
=============================================================================
