------------------------------ MODULE WayIndex ------------------------------
(***************************************************************************)
(* What the spatial index of ways promises, whatever its representation:   *)
(* each grid cell holds the set of the ways that begin in it, a way is     *)
(* added to one cell once, and reading a cell returns exactly the ways it  *)
(* holds.  WayBlocks is the implementation.                                *)
(***************************************************************************)
CONSTANTS Cells, WayIds, NoAnswer

VARIABLES
  contents,  \* contents[c]: the ways indexed in cell c
  answer     \* what the last completed read of a cell returned, or NoAnswer

indexVars == <<contents, answer>>

Indexed == UNION {contents[c] : c \in Cells}

Init ==
  /\ contents = [c \in Cells |-> {}]
  /\ answer = NoAnswer

AddWay(c, w) ==
  /\ w \notin Indexed
  /\ contents' = [contents EXCEPT ![c] = @ \cup {w}]
  /\ UNCHANGED answer

ReadCell(c) ==
  /\ answer' = [cell |-> c, ways |-> contents[c]]
  /\ UNCHANGED contents

Forget ==
  /\ answer' = NoAnswer
  /\ UNCHANGED contents

Next ==
  \/ \E c \in Cells, w \in WayIds : AddWay(c, w)
  \/ \E c \in Cells : ReadCell(c)
  \/ Forget

Spec == Init /\ [][Next]_indexVars
=============================================================================
