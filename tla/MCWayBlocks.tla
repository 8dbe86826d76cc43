---------------------------- MODULE MCWayBlocks -----------------------------
(***************************************************************************)
(* Two cells and six ways, three in each.  With two slots per block each   *)
(* cell overflows into a second block, and the four blocks needed are one  *)
(* more than the file has room for, so new_way_block also dies.            *)
(***************************************************************************)
EXTENDS WayBlocks

CONSTANTS north, south

MCCellOf == [w \in WayIds |-> IF w <= 3 THEN north ELSE south]
=============================================================================
