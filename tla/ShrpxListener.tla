---------------------------- MODULE ShrpxListener ----------------------------
(***************************************************************************)
(* How shrpx spreads its clients over threads: ListenHandler               *)
(* (shrpx_listen_handler.cc) accepts in the main thread and writes a       *)
(* WorkerEvent for each client into the socket pair of a worker;           *)
(* ThreadEventReceiver (shrpx_thread_event_receiver.cc) reads them in the  *)
(* worker's thread (shrpx_worker.cc).  A socket pair is a stream of octets *)
(* that arrive in pieces of any size; it is modelled by the records        *)
(* written to it and how far its octets have got.                          *)
(* A definition marked `mutant' is a plausible bug in the one after it.    *)
(***************************************************************************)
EXTENDS Integers, Sequences

CONSTANTS
  NumWorkers,  \* the values of num_worker (option -n) to consider
  Slots,       \* workers_, 1..n for the largest of them
  Clients,     \* bound: clients that come, 1..n in that order
  RecLen       \* sizeof(WorkerEvent), in pieces that arrive together

ASSUME ListenAssumption ==
  /\ NumWorkers \subseteq Nat /\ RecLen \in Nat \ {0}
  /\ \A n \in NumWorkers : 1..n \subseteq Slots

VARIABLES
  attempts,  \* iterations of create_worker_thread still to come
  workers,   \* num_worker_
  rr,        \* worker_round_robin_cnt_
  sent,      \* worker -> clients written to its socket pair
  arrived,   \* worker -> octets that its input buffer has got
  taken,     \* worker -> octets that on_read has removed from it
  due,       \* worker -> a read callback is due
  fate       \* client -> waiting (not accepted), queued, handler, closed or leaked

listenVars == <<attempts, workers, rr, sent, arrived, taken, due, fate>>

\* event_loop: worker threads are made only when there are to be several.
ListenInit ==
  /\ attempts \in {IF n > 1 THEN n ELSE 0 : n \in NumWorkers}
  /\ workers = 0 /\ rr = 0
  /\ sent = [w \in Slots |-> <<>>]
  /\ arrived = [w \in Slots |-> 0]
  /\ taken = [w \in Slots |-> 0]
  /\ due = [w \in Slots |-> FALSE]
  /\ fate = [c \in Clients |-> "waiting"]

\* One iteration of create_worker_thread: it fails when socketpair() or
\* pthread_create() does, and the next one takes the same slot.
CreateWorker ==
  /\ attempts > 0
  /\ attempts' = attempts - 1
  /\ workers' \in {workers, workers + 1}
  /\ UNCHANGED <<rr, sent, arrived, taken, due, fate>>

\* ListenHandler::accept_connection without workers: accept_ssl_connection
\* makes a handler, or fails and nobody closes the socket.
AcceptHere(c) ==
  /\ workers = 0
  /\ \E f \in {"handler", "leaked"} : fate' = [fate EXCEPT ![c] = f]
  /\ UNCHANGED <<rr, sent>>

\* ListenHandler::accept_connection with workers.
AcceptPass(c) ==
  /\ workers > 0
  /\ sent' = [sent EXCEPT ![(rr % workers) + 1] = Append(@, c)]
  /\ fate' = [fate EXCEPT ![c] = "queued"]
  /\ rr' = rr + 1

\* The listener calls back: the event loop runs after create_worker_thread.
Accept ==
  /\ attempts = 0
  /\ \E c \in Clients :
       /\ fate[c] = "waiting" /\ \A b \in Clients : b < c => fate[b] # "waiting"
       /\ AcceptHere(c) \/ AcceptPass(c)
  /\ UNCHANGED <<attempts, workers, arrived, taken, due>>

\* Octets get from the main thread's output buffer to the worker's input.
Arrive(w) ==
  /\ \E n \in (arrived[w] + 1)..(RecLen * Len(sent[w])) : arrived' = [arrived EXCEPT ![w] = n]
  /\ due' = [due EXCEPT ![w] = TRUE]
  /\ UNCHANGED <<attempts, workers, rr, sent, taken, fate>>

\* Mutant: one WorkerEvent per callback.
RecordsOne(w) == IF arrived[w] - taken[w] >= RecLen THEN 1 ELSE 0

\* Whole WorkerEvents in the input buffer of worker w.
Records(w) == (arrived[w] - taken[w]) \div RecLen

\* The client in the k-th WorkerEvent that on_read removes.
Client(w, k) == sent[w][(taken[w] \div RecLen) + k]

\* Mutant: a client whose handler could not be made is forgotten.
HandledClosing(w, failed) ==
  LET now == {Client(w, k) : k \in 1..Records(w)}
  IN  [c \in Clients |-> IF c \notin now \/ c \in failed THEN fate[c] ELSE "handler"]

\* What becomes of the clients; accept_ssl_connection fails for `failed'.
Handled(w, failed) ==
  LET now == {Client(w, k) : k \in 1..Records(w)}
  IN  [c \in Clients |-> IF c \notin now THEN fate[c]
                         ELSE IF c \in failed THEN "closed" ELSE "handler"]

\* ThreadEventReceiver::on_read
WorkerRead(w) ==
  /\ due[w]
  /\ \E failed \in SUBSET {Client(w, k) : k \in 1..Records(w)} : fate' = Handled(w, failed)
  /\ taken' = [taken EXCEPT ![w] = @ + RecLen * Records(w)]
  /\ due' = [due EXCEPT ![w] = FALSE]
  /\ UNCHANGED <<attempts, workers, rr, sent, arrived>>

ListenNext ==
  \/ CreateWorker
  \/ Accept
  \/ \E w \in Slots : Arrive(w) \/ WorkerRead(w)

\* Octets written to a socket pair arrive, and a callback that is due is made:
\* each worker's event loop runs in its own thread.
ListenFairness ==
  \A w \in Slots : WF_listenVars(Arrive(w)) /\ WF_listenVars(WorkerRead(w))
-----------------------------------------------------------------------------
\* What on_read removes is whole WorkerEvents, of clients that were written and
\* arrived.
Aligned ==
  \A w \in Slots : /\ taken[w] % RecLen = 0
                   /\ taken[w] <= arrived[w] /\ arrived[w] <= RecLen * Len(sent[w])

\* A client that is passed to a worker is in the stream of one worker, once, and
\* waits there or has been read: none is handled twice, none is forgotten, and the
\* workers cut the stream where the main thread joined it.
PassedOnce ==
  /\ Aligned
  /\ \A w \in Slots : \A i \in 1..Len(sent[w]) :
       /\ fate[sent[w][i]] \in IF RecLen * i <= taken[w] THEN {"handler", "closed"} ELSE {"queued"}
       /\ \A v \in Slots : \A j \in 1..Len(sent[v]) : sent[v][j] = sent[w][i] => v = w /\ j = i
  /\ \A c \in Clients : fate[c] = "queued" =>
       \E w \in Slots : \E i \in 1..Len(sent[w]) : sent[w][i] = c

\* Every client that was passed on is taken by its worker: a client stays queued
\* until it is, and again and again none is queued.
ClientsServed == []<>(\A c \in Clients : fate[c] # "queued")
=============================================================================
