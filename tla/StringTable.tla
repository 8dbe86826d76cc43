---------------------------- MODULE StringTable -----------------------------
(***************************************************************************)
(* What the PBF writer asks of dedup.c: a table that gives each distinct   *)
(* string one index, densely from 0 in the order they first came, and that *)
(* can be listed in the order of the indexes.                              *)
(***************************************************************************)
EXTENDS Naturals, Sequences

CONSTANTS Strings, NULL

VARIABLES
  table,   \* the strings in the table; the string at i has index i - 1
  asked,   \* the string last given to dedup
  result,  \* the index it returned
  listed   \* the last listing, or NULL once it was freed

Init == table = <<>> /\ asked = NULL /\ result = 0 /\ listed = NULL

Has(s)     == \E i \in 1 .. Len(table) : table[i] = s
IndexOf(s) == (CHOOSE i \in 1 .. Len(table) : table[i] = s) - 1

Find(s) ==
  /\ Has(s)
  /\ asked' = s /\ result' = IndexOf(s)
  /\ UNCHANGED <<table, listed>>

Add(s) ==
  /\ ~Has(s)
  /\ table' = Append(table, s)
  /\ asked' = s /\ result' = Len(table)
  /\ UNCHANGED listed

List == listed' = table /\ UNCHANGED <<table, asked, result>>

Clear == table' = <<>> /\ listed' = NULL /\ UNCHANGED <<asked, result>>

Next == List \/ Clear \/ \E s \in Strings : Find(s) \/ Add(s)

Spec == Init /\ [][Next]_<<table, asked, result, listed>>
=============================================================================
