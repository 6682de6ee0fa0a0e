--------------------------- MODULE ListenerProofs ---------------------------
(***************************************************************************)
(* Proofs about ShrpxListener, for every number of workers and clients and *)
(* every size of a WorkerEvent: the main thread's records and the workers' *)
(* reads of the socket pairs stay in step.                                 *)
(***************************************************************************)
EXTENDS ShrpxListener, TLAPS

\* The safety part of what the listener and its workers do.
ListenSpec == ListenInit /\ [][ListenNext]_listenVars

Fates == {"waiting", "queued", "handler", "closed", "leaked"}

ListenTypeOK ==
  /\ attempts \in Nat /\ workers \in Nat /\ rr \in Nat
  /\ sent \in [Slots -> Seq(Clients)]
  /\ arrived \in [Slots -> Nat] /\ taken \in [Slots -> Nat]
  /\ due \in [Slots -> BOOLEAN]
  /\ fate \in [Clients -> Fates]

\* Every worker that exists or may still be made has a slot of workers_.
SlotsEnough == 1..(workers + attempts) \subseteq Slots

\* A client that nobody accepted is in no socket pair.
WaitingOutside ==
  \A w \in Slots : \A i \in 1..Len(sent[w]) : fate[sent[w][i]] # "waiting"

\* PassedOnce is not inductive by itself: accepting a client keeps it unique
\* only because a waiting client was in no stream before.
ListenInv == ListenTypeOK /\ SlotsEnough /\ WaitingOutside /\ PassedOnce
-----------------------------------------------------------------------------
(* Arithmetic of records.                                                  *)

LEMMA DivMod ==
  ASSUME NEW r \in Nat \ {0}, NEW x \in Nat
  PROVE  /\ x \div r \in Nat /\ x % r \in Nat
         /\ x = r * (x \div r) + (x % r)
         /\ x % r < r
  BY SMT

LEMMA TimesMonotone ==
  ASSUME NEW r \in Nat \ {0}, NEW a \in Int, NEW b \in Int
  PROVE  r * a <= r * b <=> a <= b
  BY SMT

LEMMA TimesMod ==
  ASSUME NEW r \in Nat \ {0}, NEW a \in Nat
  PROVE  (r * a) % r = 0
  BY SMT

LEMMA TimesPlus ==
  ASSUME NEW r \in Int, NEW a \in Int, NEW b \in Int
  PROVE  r * (a + b) = r * a + r * b
  BY SMT

LEMMA Beyond ==
  ASSUME NEW r \in Nat \ {0}, NEW x \in Nat, NEW a \in Nat, NEW t \in Nat, t <= a, a <= x
  PROVE  ~(x + r <= t)
  BY SMT

\* What on_read removes: whole records, all of which were written.
LEMMA RecordsWritten ==
  ASSUME ListenTypeOK, Aligned, NEW w \in Slots
  PROVE  /\ Records(w) \in Nat
         /\ taken[w] \div RecLen \in Nat
         /\ taken[w] = RecLen * (taken[w] \div RecLen)
         /\ (taken[w] \div RecLen) + Records(w) <= Len(sent[w])
         /\ taken[w] + RecLen * Records(w) = RecLen * ((taken[w] \div RecLen) + Records(w))
         /\ taken[w] + RecLen * Records(w) <= arrived[w]
<1> DEFINE t == taken[w] \div RecLen
           n == Records(w)
<1>1. RecLen \in Nat \ {0}
  BY ListenAssumption
<1>2. taken[w] \in Nat /\ arrived[w] \in Nat /\ sent[w] \in Seq(Clients)
  BY DEF ListenTypeOK
<1>3. taken[w] % RecLen = 0 /\ taken[w] <= arrived[w] /\ arrived[w] <= RecLen * Len(sent[w])
  BY DEF Aligned
<1>4. Len(sent[w]) \in Nat
  BY <1>2
<1>5. t \in Nat /\ taken[w] = RecLen * t
  <2>1. t \in Nat /\ taken[w] = RecLen * t + (taken[w] % RecLen)
    BY <1>1, <1>2, DivMod
  <2> HIDE DEF t
  <2>2. RecLen * t \in Nat
    BY <1>1, <2>1
  <2>3. QED
    BY <1>3, <2>1, <2>2
<1>6. arrived[w] - taken[w] \in Nat
  BY <1>2, <1>3
<1>7. /\ n \in Nat /\ (arrived[w] - taken[w]) % RecLen \in Nat
      /\ arrived[w] - taken[w] = RecLen * n + ((arrived[w] - taken[w]) % RecLen)
  BY <1>1, <1>6, DivMod DEF Records
<1> HIDE DEF t, n
<1>8. RecLen * n \in Nat /\ RecLen * t \in Nat
  BY <1>1, <1>5, <1>7
<1>9. taken[w] + RecLen * n <= arrived[w]
  BY <1>2, <1>7, <1>8
<1>10. RecLen * (t + n) = RecLen * t + RecLen * n
  BY <1>1, <1>5, <1>7, TimesPlus
<1>11. taken[w] + RecLen * n = RecLen * (t + n)
  BY <1>5, <1>10
<1>12. RecLen * Len(sent[w]) \in Nat
  BY <1>1, <1>4
<1>13. RecLen * (t + n) <= RecLen * Len(sent[w])
  BY <1>2, <1>3, <1>8, <1>9, <1>11, <1>12
<1>14. t + n \in Int /\ Len(sent[w]) \in Int
  BY <1>4, <1>5, <1>7
<1>15. t + n <= Len(sent[w])
  BY <1>1, <1>13, <1>14, TimesMonotone
<1>16. QED
  BY <1>5, <1>7, <1>9, <1>11, <1>15 DEF t, n
-----------------------------------------------------------------------------
(* The parts of PassedOnce, to be taken one at a time.                     *)

FateByPlace ==
  \A w \in Slots : \A i \in 1..Len(sent[w]) :
    fate[sent[w][i]] \in IF RecLen * i <= taken[w] THEN {"handler", "closed"} ELSE {"queued"}

OnePlace ==
  \A w \in Slots : \A i \in 1..Len(sent[w]) :
    \A v \in Slots : \A j \in 1..Len(sent[v]) : sent[v][j] = sent[w][i] => v = w /\ j = i

QueuedInside ==
  \A c \in Clients : fate[c] = "queued" =>
    \E w \in Slots : \E i \in 1..Len(sent[w]) : sent[w][i] = c

LEMMA PassedParts == PassedOnce <=> Aligned /\ FateByPlace /\ OnePlace /\ QueuedInside
  BY DEF PassedOnce, FateByPlace, OnePlace, QueuedInside
-----------------------------------------------------------------------------
LEMMA ListenStart == ListenInit => ListenInv
<1> SUFFICES ASSUME ListenInit PROVE ListenInv
  OBVIOUS
<1> USE DEF ListenInit
<1>0. RecLen \in Nat \ {0}
  BY ListenAssumption
<1>1. PICK m \in NumWorkers : attempts = IF m > 1 THEN m ELSE 0
  OBVIOUS
<1>2. m \in Nat /\ 1..m \subseteq Slots
  BY <1>1, ListenAssumption
<1>3. attempts \in Nat /\ attempts <= m
  BY <1>1, <1>2
<1>4. \A w \in Slots : sent[w] = <<>> /\ Len(sent[w]) = 0
  OBVIOUS
<1>5. ListenTypeOK
  BY <1>3 DEF ListenTypeOK, Fates
<1>6. SlotsEnough
  BY <1>2, <1>3 DEF SlotsEnough
<1>7. WaitingOutside
  BY <1>4 DEF WaitingOutside
<1>8. 0 % RecLen = 0 /\ RecLen * 0 = 0
  BY <1>0
<1>9. Aligned
  BY <1>4, <1>8 DEF Aligned
<1>10. FateByPlace /\ OnePlace
  BY <1>4 DEF FateByPlace, OnePlace
<1>11. QueuedInside
  BY DEF QueuedInside
<1>12. QED
  BY <1>5, <1>6, <1>7, <1>9, <1>10, <1>11, PassedParts DEF ListenInv
-----------------------------------------------------------------------------
(* The steps.                                                              *)

LEMMA CreateWorkerKeeps == ListenInv /\ CreateWorker => ListenInv'
<1> SUFFICES ASSUME ListenInv, CreateWorker PROVE ListenInv'
  OBVIOUS
<1>1. attempts \in Nat /\ workers \in Nat /\ SlotsEnough
  BY DEF ListenInv, ListenTypeOK
<1>2. PICK a \in Nat, k \in Nat :
        attempts' = a /\ workers' = k /\ k + a <= workers + attempts
  <2>1. attempts - 1 \in Nat /\ attempts' = attempts - 1
    BY <1>1 DEF CreateWorker
  <2>2. CASE workers' = workers
    <3>1. workers + (attempts - 1) <= workers + attempts
      BY <1>1
    <3>2. QED
      BY <1>1, <2>1, <2>2, <3>1
  <2>3. CASE workers' = workers + 1
    <3>1. (workers + 1) + (attempts - 1) <= workers + attempts /\ workers + 1 \in Nat
      BY <1>1
    <3>2. QED
      BY <1>1, <2>1, <2>3, <3>1
  <2>4. QED
    BY <2>2, <2>3 DEF CreateWorker
<1>3. ListenTypeOK'
  BY <1>2 DEF ListenInv, ListenTypeOK, CreateWorker
<1>4. 1..(k + a) \subseteq 1..(workers + attempts)
  BY <1>1, <1>2
<1>5. SlotsEnough'
  BY <1>1, <1>2, <1>4 DEF SlotsEnough
<1>6. WaitingOutside' /\ PassedOnce'
  BY DEF ListenInv, CreateWorker, WaitingOutside, PassedOnce, Aligned
<1>7. QED
  BY <1>3, <1>5, <1>6 DEF ListenInv

LEMMA AcceptHereKeeps ==
  ASSUME ListenInv, NEW c \in Clients, fate[c] = "waiting", AcceptHere(c),
         UNCHANGED <<attempts, workers, arrived, taken, due>>
  PROVE  ListenInv'
<1>1. PICK f \in {"handler", "leaked"} : fate' = [fate EXCEPT ![c] = f]
  BY DEF AcceptHere
<1>2. sent' = sent /\ rr' = rr
  BY DEF AcceptHere
<1>3. ListenTypeOK'
  BY <1>1, <1>2 DEF ListenInv, ListenTypeOK, Fates
<1>4. \A w \in Slots : \A i \in 1..Len(sent[w]) : sent[w][i] # c /\ sent[w][i] \in Clients
  BY DEF ListenInv, ListenTypeOK, WaitingOutside
<1>5. \A w \in Slots : \A i \in 1..Len(sent[w]) : fate'[sent[w][i]] = fate[sent[w][i]]
  BY <1>1, <1>4 DEF ListenInv, ListenTypeOK
<1>6. \A b \in Clients : fate'[b] = "queued" => fate[b] = "queued"
  BY <1>1 DEF ListenInv, ListenTypeOK
<1>7. WaitingOutside'
  BY <1>2, <1>5 DEF ListenInv, WaitingOutside
<1>8. Aligned /\ FateByPlace /\ OnePlace /\ QueuedInside
  BY PassedParts DEF ListenInv
<1>9. Aligned' /\ OnePlace'
  BY <1>2, <1>8 DEF Aligned, OnePlace
<1>10. FateByPlace'
  BY <1>2, <1>5, <1>8 DEF FateByPlace
<1>11. QueuedInside'
  BY <1>2, <1>6, <1>8 DEF QueuedInside
<1>12. PassedOnce'
  BY <1>9, <1>10, <1>11 DEF PassedOnce, FateByPlace, OnePlace, QueuedInside
<1>13. QED
  BY <1>3, <1>7, <1>12 DEF ListenInv, SlotsEnough

LEMMA AcceptPassKeeps ==
  ASSUME ListenInv, attempts = 0, NEW c \in Clients, fate[c] = "waiting", AcceptPass(c),
         UNCHANGED <<attempts, workers, arrived, taken, due>>
  PROVE  ListenInv'
<1> DEFINE s == (rr % workers) + 1
<1>1. workers > 0 /\ workers \in Nat /\ rr \in Nat
  BY DEF AcceptPass, ListenInv, ListenTypeOK
<1>2. s \in Slots
  <2>1. rr % workers \in Nat /\ rr % workers < workers
    BY <1>1, DivMod
  <2>2. s \in 1..workers
    BY <1>1, <2>1
  <2>3. 1..workers \subseteq Slots
    BY <1>1 DEF ListenInv, SlotsEnough
  <2>4. QED
    BY <2>2, <2>3
<1>3. sent' = [sent EXCEPT ![s] = Append(@, c)] /\ fate' = [fate EXCEPT ![c] = "queued"] /\ rr' = rr + 1
  BY DEF AcceptPass
<1> HIDE DEF s
<1>4. sent \in [Slots -> Seq(Clients)] /\ fate \in [Clients -> Fates]
  BY DEF ListenInv, ListenTypeOK
<1>5. /\ sent' \in [Slots -> Seq(Clients)]
      /\ \A w \in Slots : w # s => sent'[w] = sent[w]
      /\ sent'[s] = Append(sent[s], c)
  BY <1>2, <1>3, <1>4
<1>6. /\ Len(sent'[s]) = Len(sent[s]) + 1 /\ Len(sent[s]) \in Nat
      /\ sent'[s][Len(sent[s]) + 1] = c
      /\ \A i \in 1..Len(sent[s]) : sent'[s][i] = sent[s][i]
  BY <1>2, <1>4, <1>5
<1>7. /\ fate' \in [Clients -> Fates] /\ fate'[c] = "queued"
      /\ \A b \in Clients : b # c => fate'[b] = fate[b]
  BY <1>3, <1>4 DEF Fates
<1>8. \A w \in Slots : \A i \in 1..Len(sent[w]) : sent[w][i] # c /\ sent[w][i] \in Clients
  BY DEF ListenInv, ListenTypeOK, WaitingOutside
<1>9. Aligned /\ FateByPlace /\ OnePlace /\ QueuedInside
  BY PassedParts DEF ListenInv
\* A place in a stream afterwards is one from before, or the new one.
<1>10. ASSUME NEW w \in Slots, NEW i \in 1..Len(sent'[w])
       PROVE  \/ w = s /\ i = Len(sent[s]) + 1 /\ sent'[w][i] = c
              \/ i \in 1..Len(sent[w]) /\ sent'[w][i] = sent[w][i] /\ sent'[w][i] # c
  BY <1>5, <1>6, <1>8
<1>11. ListenTypeOK'
  BY <1>1, <1>3, <1>5, <1>7 DEF ListenInv, ListenTypeOK
<1>12. WaitingOutside'
  <2> SUFFICES ASSUME NEW w \in Slots, NEW i \in 1..Len(sent'[w])
               PROVE  fate'[sent'[w][i]] # "waiting"
    BY DEF WaitingOutside
  <2>1. CASE sent'[w][i] = c
    BY <2>1, <1>7
  <2>2. CASE i \in 1..Len(sent[w]) /\ sent'[w][i] = sent[w][i] /\ sent'[w][i] # c
    BY <2>2, <1>7, <1>8 DEF ListenInv, WaitingOutside
  <2>3. QED
    BY <2>1, <2>2, <1>10
<1>13. RecLen \in Nat \ {0}
  BY ListenAssumption
<1>14. Aligned'
  <2>1. RecLen * (Len(sent[s]) + 1) = RecLen * Len(sent[s]) + RecLen /\ RecLen * Len(sent[s]) \in Nat
    BY <1>6, <1>13
  <2>2. arrived \in [Slots -> Nat]
    BY DEF ListenInv, ListenTypeOK
  <2>3. arrived[s] <= RecLen * (Len(sent[s]) + 1)
    BY <2>1, <2>2, <1>2, <1>9, <1>13 DEF Aligned
  <2>4. QED
    BY <2>3, <1>5, <1>6, <1>9 DEF Aligned
<1>15. ~(RecLen * (Len(sent[s]) + 1) <= taken[s])
  <2>1. RecLen * (Len(sent[s]) + 1) = RecLen * Len(sent[s]) + RecLen /\ RecLen * Len(sent[s]) \in Nat
    BY <1>6, <1>13
  <2>2. arrived[s] \in Nat /\ taken[s] \in Nat
    BY <1>2 DEF ListenInv, ListenTypeOK
  <2>3. taken[s] <= arrived[s] /\ arrived[s] <= RecLen * Len(sent[s])
    BY <1>2, <1>9 DEF Aligned
  <2>4. ~(RecLen * Len(sent[s]) + RecLen <= taken[s])
    BY <2>1, <2>2, <2>3, <1>13, Beyond
  <2>5. QED
    BY <2>1, <2>4
<1>16. FateByPlace'
  <2> SUFFICES ASSUME NEW w \in Slots, NEW i \in 1..Len(sent'[w])
               PROVE  fate'[sent'[w][i]] \in
                        IF RecLen * i <= taken[w] THEN {"handler", "closed"} ELSE {"queued"}
    BY DEF FateByPlace
  <2>1. CASE w = s /\ i = Len(sent[s]) + 1 /\ sent'[w][i] = c
    BY <2>1, <1>7, <1>15
  <2>2. CASE i \in 1..Len(sent[w]) /\ sent'[w][i] = sent[w][i] /\ sent'[w][i] # c
    BY <2>2, <1>7, <1>8, <1>9 DEF FateByPlace
  <2>3. QED
    BY <2>1, <2>2, <1>10
<1>17. OnePlace'
  <2> SUFFICES ASSUME NEW w \in Slots, NEW i \in 1..Len(sent'[w]),
                      NEW v \in Slots, NEW j \in 1..Len(sent'[v]), sent'[v][j] = sent'[w][i]
               PROVE  v = w /\ j = i
    BY DEF OnePlace
  <2>1. CASE sent'[w][i] = c
    BY <2>1, <1>10
  <2>2. CASE sent'[w][i] # c
    <3>1. /\ i \in 1..Len(sent[w]) /\ sent'[w][i] = sent[w][i]
          /\ j \in 1..Len(sent[v]) /\ sent'[v][j] = sent[v][j]
      BY <2>2, <1>10
    <3>2. QED
      BY <3>1, <1>9 DEF OnePlace
  <2>3. QED
    BY <2>1, <2>2
<1>18. QueuedInside'
  <2> SUFFICES ASSUME NEW b \in Clients, fate'[b] = "queued"
               PROVE  \E w \in Slots : \E i \in 1..Len(sent'[w]) : sent'[w][i] = b
    BY DEF QueuedInside
  <2>1. CASE b = c
    <3>1. Len(sent[s]) + 1 \in 1..Len(sent'[s])
      BY <1>6
    <3>2. QED
      BY <2>1, <3>1, <1>2, <1>6
  <2>2. CASE b # c
    <3>0. PICK w \in Slots : \E i \in 1..Len(sent[w]) : sent[w][i] = b
      BY <2>2, <1>7, <1>9 DEF QueuedInside
    <3>1. PICK i \in 1..Len(sent[w]) : sent[w][i] = b
      BY <3>0
    <3>2. i \in 1..Len(sent'[w]) /\ sent'[w][i] = b
      BY <3>1, <1>5, <1>6
    <3>3. QED
      BY <3>2
  <2>3. QED
    BY <2>1, <2>2
<1>19. PassedOnce'
  BY <1>14, <1>16, <1>17, <1>18 DEF PassedOnce, FateByPlace, OnePlace, QueuedInside
<1>20. QED
  BY <1>11, <1>12, <1>19 DEF ListenInv, SlotsEnough

LEMMA ArriveKeeps ==
  ASSUME ListenInv, NEW w \in Slots, Arrive(w)
  PROVE  ListenInv'
<1>1. RecLen \in Nat \ {0}
  BY ListenAssumption
<1>2. arrived \in [Slots -> Nat] /\ taken \in [Slots -> Nat] /\ sent[w] \in Seq(Clients)
  BY DEF ListenInv, ListenTypeOK
<1>3. RecLen * Len(sent[w]) \in Nat
  BY <1>1, <1>2
<1>4. PICK n \in (arrived[w] + 1)..(RecLen * Len(sent[w])) : arrived' = [arrived EXCEPT ![w] = n]
  BY DEF Arrive
<1>5. n \in Nat /\ arrived[w] <= n /\ n <= RecLen * Len(sent[w])
  BY <1>2, <1>3, <1>4
<1>6. ListenTypeOK'
  BY <1>4, <1>5 DEF ListenInv, ListenTypeOK, Arrive
<1>7. Aligned'
  <2>1. taken[w] <= n
    BY <1>2, <1>5 DEF ListenInv, PassedOnce, Aligned
  <2>2. QED
    BY <2>1, <1>2, <1>4, <1>5 DEF ListenInv, PassedOnce, Aligned, Arrive
<1>8. SlotsEnough' /\ WaitingOutside' /\ PassedOnce'
  BY <1>7 DEF ListenInv, SlotsEnough, WaitingOutside, PassedOnce, Arrive
<1>9. QED
  BY <1>6, <1>8 DEF ListenInv

LEMMA WorkerReadKeeps ==
  ASSUME ListenInv, NEW w \in Slots, WorkerRead(w)
  PROVE  ListenInv'
<1> DEFINE t == taken[w] \div RecLen
           n == Records(w)
           now == {Client(w, k) : k \in 1..n}
<1>1. RecLen \in Nat \ {0}
  BY ListenAssumption
<1>2. PICK failed \in SUBSET now : fate' = Handled(w, failed)
  BY DEF WorkerRead
<1>3. taken' = [taken EXCEPT ![w] = @ + RecLen * n]
  BY DEF WorkerRead
<1>4. /\ UNCHANGED <<attempts, workers, rr, sent, arrived>>
      /\ due' = [due EXCEPT ![w] = FALSE]
  BY DEF WorkerRead
<1>5. Aligned /\ FateByPlace /\ OnePlace /\ QueuedInside
  BY PassedParts DEF ListenInv
<1>6. /\ n \in Nat /\ t \in Nat /\ taken[w] = RecLen * t /\ t + n <= Len(sent[w])
      /\ taken[w] + RecLen * n = RecLen * (t + n)
      /\ taken[w] + RecLen * n <= arrived[w]
  BY <1>5, RecordsWritten DEF ListenInv
<1>7. now = {sent[w][t + k] : k \in 1..n}
  BY DEF Client
<1>8. fate' = [c \in Clients |-> IF c \notin now THEN fate[c]
                                 ELSE IF c \in failed THEN "closed" ELSE "handler"]
  BY <1>2 DEF Handled
<1> HIDE DEF t, n, now
<1>9. sent \in [Slots -> Seq(Clients)] /\ fate \in [Clients -> Fates] /\ taken \in [Slots -> Nat]
  BY DEF ListenInv, ListenTypeOK
<1>10. \A c \in Clients : /\ c \notin now => fate'[c] = fate[c]
                          /\ c \in now => fate'[c] \in {"handler", "closed"}
  BY <1>8
\* What is removed is what stood in the places t + 1 to t + n of w's stream.
<1>11. ASSUME NEW v \in Slots, NEW i \in 1..Len(sent[v])
       PROVE  /\ sent[v][i] \in Clients
              /\ sent[v][i] \in now <=> v = w /\ t < i /\ i <= t + n
  <2>1. Len(sent[v]) \in Nat /\ sent[v][i] \in Clients /\ Len(sent[w]) \in Nat
    BY <1>9
  <2>2. ASSUME sent[v][i] \in now
        PROVE  v = w /\ t < i /\ i <= t + n
    <3>1. PICK k \in 1..n : sent[v][i] = sent[w][t + k]
      BY <2>2, <1>7
    <3>2. t + k \in 1..Len(sent[w]) /\ t < t + k /\ t + k <= t + n
      BY <1>6, <2>1
    <3>3. v = w /\ i = t + k
      BY <3>1, <3>2, <1>5 DEF OnePlace
    <3>4. QED
      BY <3>2, <3>3
  <2>3. ASSUME v = w, t < i, i <= t + n
        PROVE  sent[v][i] \in now
    <3>1. i - t \in 1..n /\ t + (i - t) = i
      BY <1>6, <2>1, <2>3
    <3>2. QED
      BY <3>1, <2>3, <1>7
  <2>4. QED
    BY <2>1, <2>2, <2>3
<1>12. ListenTypeOK'
  <2>1. fate' \in [Clients -> Fates]
    BY <1>8, <1>9 DEF Fates
  <2>2. taken' \in [Slots -> Nat]
    <3>1. RecLen * n \in Nat
      BY <1>1, <1>6
    <3>2. QED
      BY <3>1, <1>3, <1>9
  <2>3. QED
    BY <2>1, <2>2, <1>4 DEF ListenInv, ListenTypeOK
<1>13. WaitingOutside'
  <2> SUFFICES ASSUME NEW v \in Slots, NEW i \in 1..Len(sent[v])
               PROVE  fate'[sent[v][i]] # "waiting"
    BY <1>4 DEF WaitingOutside
  <2>1. QED
    BY <1>10, <1>11 DEF ListenInv, WaitingOutside
<1>14. Aligned'
  <2>1. (RecLen * (t + n)) % RecLen = 0
    BY <1>1, <1>6, TimesMod
  <2>2. QED
    BY <2>1, <1>3, <1>4, <1>5, <1>6, <1>9 DEF Aligned
<1>15. FateByPlace'
  <2> SUFFICES ASSUME NEW v \in Slots, NEW i \in 1..Len(sent[v])
               PROVE  fate'[sent[v][i]] \in
                        IF RecLen * i <= taken'[v] THEN {"handler", "closed"} ELSE {"queued"}
    BY <1>4 DEF FateByPlace
  <2>1. Len(sent[v]) \in Nat
    BY <1>9
  <2>2. CASE v # w
    BY <2>2, <1>3, <1>5, <1>9, <1>10, <1>11 DEF FateByPlace
  <2>3. CASE v = w
    <3>1. taken'[v] = RecLen * (t + n)
      BY <2>3, <1>3, <1>6, <1>9
    <3>2. RecLen * i <= taken'[v] <=> i <= t + n
      BY <3>1, <1>1, <1>6, <2>1, TimesMonotone
    <3>3. RecLen * i <= taken[v] <=> i <= t
      BY <2>3, <1>1, <1>6, <2>1, TimesMonotone
    <3>4. CASE i <= t
      <4>1. fate[sent[v][i]] \in {"handler", "closed"}
        BY <3>3, <3>4, <1>5 DEF FateByPlace
      <4>2. i <= t + n
        BY <3>4, <1>6, <2>1
      <4>3. QED
        BY <4>1, <4>2, <3>2, <1>10, <1>11
    <3>5. CASE t < i /\ i <= t + n
      BY <3>5, <3>2, <2>3, <1>10, <1>11
    <3>6. CASE t < i /\ ~(i <= t + n)
      <4>1. ~(RecLen * i <= taken[v])
        BY <3>3, <3>6, <1>6, <2>1
      <4>2. fate[sent[v][i]] \in {"queued"}
        BY <4>1, <1>5 DEF FateByPlace
      <4>3. QED
        BY <4>2, <3>2, <3>6, <1>10, <1>11
    <3>7. QED
      BY <3>4, <3>5, <3>6, <1>6, <2>1
  <2>4. QED
    BY <2>2, <2>3
<1>16. QueuedInside'
  <2>1. \A c \in Clients : fate'[c] = "queued" => fate[c] = "queued"
    BY <1>10
  <2>2. QED
    BY <2>1, <1>4, <1>5 DEF QueuedInside
<1>17. PassedOnce'
  BY <1>4, <1>5, <1>14, <1>15, <1>16 DEF PassedOnce, FateByPlace, OnePlace, QueuedInside
<1>18. QED
  BY <1>4, <1>12, <1>13, <1>17 DEF ListenInv, SlotsEnough

LEMMA ListenStep == ListenInv /\ [ListenNext]_listenVars => ListenInv'
<1> SUFFICES ASSUME ListenInv, [ListenNext]_listenVars PROVE ListenInv'
  OBVIOUS
<1>1. CASE CreateWorker
  BY <1>1, CreateWorkerKeeps
<1>2. CASE Accept
  <2>1. PICK c \in Clients : fate[c] = "waiting" /\ (AcceptHere(c) \/ AcceptPass(c))
    BY <1>2 DEF Accept
  <2>2. attempts = 0 /\ UNCHANGED <<attempts, workers, arrived, taken, due>>
    BY <1>2 DEF Accept
  <2>3. QED
    BY <2>1, <2>2, AcceptHereKeeps, AcceptPassKeeps
<1>3. ASSUME NEW w \in Slots, Arrive(w) PROVE ListenInv'
  BY <1>3, ArriveKeeps
<1>4. ASSUME NEW w \in Slots, WorkerRead(w) PROVE ListenInv'
  BY <1>4, WorkerReadKeeps
<1>5. CASE UNCHANGED listenVars
  BY <1>5 DEF listenVars, ListenInv, ListenTypeOK, SlotsEnough, WaitingOutside, PassedOnce, Aligned
<1>6. QED
  BY <1>1, <1>2, <1>3, <1>4, <1>5 DEF ListenNext

\* However the threads run and however the octets of a socket pair arrive, every
\* client that ListenHandler::accept_connection passed on is in the stream of one
\* worker, once, and has a handler (or was closed) exactly when on_read of
\* ThreadEventReceiver has taken its record, which it never cuts in two.
THEOREM ClientsPassedOnce == ListenSpec => []PassedOnce
<1>1. ListenInv => PassedOnce
  BY DEF ListenInv
<1>2. QED
  BY <1>1, ListenStart, ListenStep, PTL DEF ListenSpec
=============================================================================
