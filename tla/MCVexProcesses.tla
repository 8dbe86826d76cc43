--------------------------- MODULE MCVexProcesses ---------------------------
(***************************************************************************)
(* Two loaders and two extractors, so that loads meet loads and reads meet *)
(* reads, with one database on disk and the one in memory.                 *)
(***************************************************************************)
EXTENDS VexProcesses
=============================================================================
