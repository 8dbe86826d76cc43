---------------------------- MODULE MCVexServer -----------------------------
(***************************************************************************)
(* Two requests at a time, for a good box, one upside down, one off the    *)
(* map and one without a side.                                             *)
(***************************************************************************)
EXTENDS VexServer

Q(n, s, e, w) == [north |-> n, south |-> s, east |-> e, west |-> w]
MCQueries == {Q(2, 1, 4, 3), Q(1, 2, 4, 3), Q(91, 1, 4, 3), Q(2, NaN, 4, 3)}
=============================================================================
