---------------------------- MODULE OrderedQueue ----------------------------
(***************************************************************************)
(* What an outbound queue promises: items leave it in the order of         *)
(* (pri, seq), whatever the order in which they were put in.               *)
(***************************************************************************)
EXTENDS Integers

CONSTANT Items   \* records with the fields pri and seq

VARIABLES items, out   \* what is queued; the item the last pop returned

Less(i, j) == i.pri < j.pri \/ (i.pri = j.pri /\ i.seq < j.seq)

Init == items = {} /\ out = {}

Push(i) == i \notin items /\ items' = items \cup {i} /\ out' = {}

Pop ==
  \E i \in items :
    /\ \A j \in items \ {i} : Less(i, j)
    /\ items' = items \ {i}
    /\ out' = {i}

Next == Pop \/ \E i \in Items : Push(i)

Spec == Init /\ [][Next]_<<items, out>>
=============================================================================
