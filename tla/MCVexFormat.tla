---------------------------- MODULE MCVexFormat -----------------------------
(***************************************************************************)
(* Groups of two bits and words of nine.  Ids sit on both sides of every   *)
(* length of the encoding of their differences, up to the whole double     *)
(* word, and coordinates at both ends of their range.                      *)
(***************************************************************************)
EXTENDS VexFormat

CONSTANTS none, name, text

MCStrings   == {none, name, text}
MCLength(s) == CASE s = none -> 0 [] s = name -> 4 [] s = text -> 17

Ends  == {0} \cup UNION {{2 ^ k - 1, 2 ^ k} : k \in 1 .. 16}
Tags  == {<<>>, <<[key |-> name, val |-> text], [key |-> text, val |-> none]>>}
Sides == {-128, 0, 127}

Node(id, x, y, tags)  == [type |-> "NODE", id |-> id, coord |-> [x |-> x, y |-> y], tags |-> tags]
AWay(id, refs, tags)  == [type |-> "WAY", id |-> id, refs |-> refs, tags |-> tags]
Rel(id)               == [type |-> "RELATION", id |-> id, tags |-> <<>>]

Ids     == {<<Node(i, 1, 2, <<>>), Node(j, 3, -4, <<>>)>> : i, j \in Ends \ {0}}
Corners == {<<Node(2, x1, y1, t), Node(3, x2, y2, <<>>)>> :
              x1, y1, x2, y2 \in Sides, t \in Tags}
\* The third list is stored in front of another one.
Refs    == {<<-5>>, <<5, 4, -5>>, <<3, -9, 7>>, <<65536, -1>>}
Ways    == {<<Node(9, 0, 0, <<>>), AWay(i, a, t), AWay(j, b, <<>>), Rel(1), AWay(500, <<-7>>, t)>> :
              i, j \in {1, 8, 300}, a, b \in Refs, t \in Tags}
MCStreams == Ids \cup Corners \cup Ways
=============================================================================
