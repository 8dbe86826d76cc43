---------------------------- MODULE MCIDTracker -----------------------------
(***************************************************************************)
(* Three bins of three bits, and ids past them: 9 is in the bin behind the *)
(* array, and 12 and 23, with an int of eight values, in the first and the *)
(* last of negative index.  The tracker has 2^33 bits for ids below 10^10  *)
(* (vex.c:42), so that the loader accepts ids it ends the process on; in   *)
(* thousand millions these are 9 bits, ids 0 to 9.                         *)
(***************************************************************************)
EXTENDS IDTracker

MCIds == (0 .. BIN_SIZE * N_BINS) \cup {12, 23}
=============================================================================
