------------------------------ MODULE MCDedup -------------------------------
(***************************************************************************)
(* Five strings in two chains, three of them in one.                       *)
(***************************************************************************)
EXTENDS Dedup

CONSTANTS s1, s2, s3, s4, s5

MCStrings == {s1, s2, s3, s4, s5}
MCHash == [s \in MCStrings |-> IF s \in {s1, s2, s3} THEN 0 ELSE 1]
=============================================================================
