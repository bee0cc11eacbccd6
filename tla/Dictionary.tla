----------------------------- MODULE Dictionary -----------------------------
(***************************************************************************)
(* What hashtable.h promises to its callers: a collection of values, each  *)
(* found under its key.  It is a multimap: connection.c stores a second    *)
(* connection under an address that is already there, and the header does  *)
(* not say which of the two a lookup finds.                                *)
(***************************************************************************)
CONSTANTS Key, Value, KeyOf, NULL

VARIABLES stored,  \* the values in the table
          answer   \* the key of the last call and what it returned

vars == <<stored, answer>>

Under(k) == {v \in stored : KeyOf[v] = k}
Answers(k) == IF Under(k) = {} THEN {NULL} ELSE Under(k)

NoAnswer == <<NULL, NULL>>

Init == stored = {} /\ answer = NoAnswer

\* A value is stored, or there was no memory and nothing happened.
Set(v) ==
  /\ v \notin stored
  /\ \/ stored' = stored \cup {v} /\ answer' = <<KeyOf[v], v>>
     \/ answer' = <<KeyOf[v], NULL>> /\ UNCHANGED stored

Get(k) == answer' \in {k} \X Answers(k) /\ UNCHANGED stored

Remove(k) == answer' \in {k} \X Answers(k) /\ stored' = stored \ {answer'[2]}

\* hashtable_foreach_remove() drops the values its callback condemns, one by one.
Drop(v) == v \in stored /\ stored' = stored \ {v} /\ UNCHANGED answer

Destroy == stored' = {} /\ answer' = NoAnswer

Next ==
  \/ \E v \in Value : Set(v) \/ Drop(v)
  \/ \E k \in Key : Get(k) \/ Remove(k)
  \/ Destroy

Spec == Init /\ [][Next]_vars
=============================================================================
