------------------------------- MODULE IdSet --------------------------------
(***************************************************************************)
(* What the extraction asks of the ID tracker (idtracker.h): a set of ids  *)
(* that answers, when an id is put in, whether it was there already.  The  *)
(* node stage writes a node exactly when the answer is FALSE.              *)
(***************************************************************************)
EXTENDS Naturals

CONSTANT Ids

VARIABLES
  ids,     \* the ids flagged since the last reset
  asked,   \* the id of the last call, 0 before any
  result   \* what that call returned

Init == ids = {} /\ asked = 0 /\ result = FALSE

Reset == ids' = {} /\ UNCHANGED <<asked, result>>

Set(id) == ids' = ids \cup {id} /\ asked' = id /\ result' = (id \in ids)

Get(id) == UNCHANGED ids /\ asked' = id /\ result' = (id \in ids)

Next == Reset \/ \E id \in Ids : Set(id) \/ Get(id)

Spec == Init /\ [][Next]_<<ids, asked, result>>
=============================================================================
