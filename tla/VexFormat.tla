----------------------------- MODULE VexFormat ------------------------------
(***************************************************************************)
(* The VEX output format (vex.c, vexbin_...): nodes, then ways, as they    *)
(* come from an extraction (the variable out of VexDatabase), each written *)
(* at once and coded as differences from what was written before.  One     *)
(* variable holds the last node id, for the nodes and then for the         *)
(* references of all ways.  Relations are not written in this format.      *)
(*                                                                         *)
(* A way comes with its stored list, whose last reference is negative.  A  *)
(* string is one cell of the output after the bytes of its length.         *)
(***************************************************************************)
EXTENDS IntPack, SequencesExt

CONSTANTS
  Streams,      \* sequences of elements an extraction may write
  Strings,      \* keys and values of tags
  Length(_),    \* bytes in a string
  COORD_RANGE,  \* 2^32, the range of a coordinate
  VARINT_BUF    \* 10, the bytes of varint_buf

VARIABLES
  stream, at,   \* the elements, and the index of the next to write
  last_x, last_y, last_node_id, last_way_id,
  ofile         \* the bytes and strings written

vars == <<stream, at, last_x, last_y, last_node_id, last_way_id, ofile>>

Coords == -(COORD_RANGE \div 2) .. COORD_RANGE \div 2 - 1

\* vexbin_write_init
Init ==
  /\ stream \in Streams /\ at = 1
  /\ last_x = 0 /\ last_y = 0 /\ last_node_id = 0 /\ last_way_id = 0
  /\ ofile = <<>>

Wrapped(n) == ((n + COORD_RANGE \div 2) % COORD_RANGE) - COORD_RANGE \div 2

(* The difference of two 32-bit coordinates in a 32-bit variable.  Past    *)
(* the range its value is undefined: the build cuts it, or keeps all of it *)
(* in a wider register on the way to vexbin_write_signed.                  *)
CoordDeltas(xy, last) == {xy - last, Wrapped(xy - last)}

write_string(s) == uint64_pack(Length(s)) \o (IF Length(s) = 0 THEN <<>> ELSE <<s>>)

write_tags(tags) ==
  uint64_pack(Len(tags)) \o
    FlattenSeq([i \in 1 .. Len(tags) |->
                  write_string(tags[i].key) \o write_string(tags[i].val)])

Elem == stream[at]
Writes(type) == at =< Len(stream) /\ Elem.type = type

write_node ==
  /\ Writes("NODE")
  /\ \E dx \in CoordDeltas(Elem.coord.x, last_x), dy \in CoordDeltas(Elem.coord.y, last_y) :
       ofile' = ofile \o sint64_pack(Elem.id - last_node_id)
                      \o sint64_pack(dx) \o sint64_pack(dy) \o write_tags(Elem.tags)
  /\ last_node_id' = Elem.id /\ last_x' = Elem.coord.x /\ last_y' = Elem.coord.y
  /\ at' = at + 1
  /\ UNCHANGED <<stream, last_way_id>>

Abs(n) == IF n < 0 THEN -n ELSE n

\* The references up to the one with the end mark.
ListIn(refs) == SubSeq(refs, 1, Min({i \in 1 .. Len(refs) : refs[i] < 0}))

\* Mutant of RefDeltas: the end mark of the way before is left on its reference.
RefDeltasMarked(refs, last) ==
  [i \in 1 .. Len(refs) |->
     Abs(refs[i]) - IF i > 1 THEN refs[i - 1]
                    ELSE IF at > 1 /\ stream[at - 1].type = "WAY" THEN -last ELSE last]

\* The references of a list as differences, the first from the last one written.
RefDeltas(refs, last) ==
  [i \in 1 .. Len(refs) |-> Abs(refs[i]) - IF i = 1 THEN last ELSE Abs(refs[i - 1])]

write_way ==
  /\ Writes("WAY")
  /\ LET refs   == ListIn(Elem.refs)
         n_refs == Len(refs)
         deltas == RefDeltas(refs, last_node_id)
     IN  /\ ofile' = ofile \o sint64_pack(Elem.id - last_way_id) \o uint64_pack(n_refs)
                           \o FlattenSeq([i \in 1 .. n_refs |-> sint64_pack(deltas[i])])
                           \o write_tags(Elem.tags)
         /\ last_node_id' = Abs(refs[n_refs])
  /\ last_way_id' = Elem.id
  /\ at' = at + 1
  /\ UNCHANGED <<stream, last_x, last_y>>

\* "TODO Output relations in VEX format"
SkipRelation ==
  /\ Writes("RELATION")
  /\ at' = at + 1
  /\ UNCHANGED <<stream, last_x, last_y, last_node_id, last_way_id, ofile>>

\* The file is closed.
Closed == at > Len(stream) /\ UNCHANGED vars

Next == write_node \/ write_way \/ SkipRelation \/ Closed

Spec == Init /\ [][Next]_vars

-----------------------------------------------------------------------------
(* Properties.                                                             *)

TypeOK ==
  /\ stream \in Streams /\ at \in 1 .. Len(stream) + 1
  /\ last_x \in Coords /\ last_y \in Coords /\ last_node_id \in Nat /\ last_way_id \in Nat
  /\ ofile \in Seq(Byte \cup Strings)

(* "max length of a 64 bit varint is 10 bytes" (vex.c:672): whatever is    *)
(* packed ends within the buffer it is packed into.                        *)
VarintsFit ==
  \A i \in VARINT_BUF .. Len(ofile) :
    \E j \in i - VARINT_BUF + 1 .. i : ofile[j] \notin Group .. 2 * Group - 1

(* A reader of the format.  It keeps its place and the last values, and    *)
(* takes the types of the elements to read from elsewhere: nothing in the  *)
(* file tells how many nodes there are and where the ways begin.           *)
NoString == CHOOSE s \in Strings : Length(s) = 0

ReadString(i) ==
  LET length == ReadLength(ofile, i)
  IN  IF length.value = 0 THEN [value |-> NoString, next |-> length.next]
      ELSE [value |-> ofile[length.next], next |-> length.next + 1]

ReadTags(i) ==
  LET n == ReadLength(ofile, i)
      ReadTag(r, k) ==
        LET key == ReadString(r.next)
            val == ReadString(key.next)
        IN  [value |-> Append(r.value, [key |-> key.value, val |-> val.value]),
             next |-> val.next]
  IN  FoldLeft(ReadTag, [value |-> <<>>, next |-> n.next], [k \in 1 .. n.value |-> k])

ReadNode(r) ==
  LET id   == ReadSigned(ofile, r.next)
      dx   == ReadSigned(ofile, id.next)
      dy   == ReadSigned(ofile, dx.next)
      tags == ReadTags(dy.next)
      node == r.node + id.value
      x    == Wrapped(r.x + dx.value)
      y    == Wrapped(r.y + dy.value)
  IN  [r EXCEPT !.next = tags.next, !.node = node, !.x = x, !.y = y,
                !.read = Append(@, [type |-> "NODE", id |-> node,
                                    coord |-> [x |-> x, y |-> y], tags |-> tags.value])]

ReadWay(r) ==
  LET id   == ReadSigned(ofile, r.next)
      n    == ReadLength(ofile, id.next)
      ReadRef(s, k) ==
        LET d == ReadSigned(ofile, s.next)
        IN  [next |-> d.next, node |-> s.node + d.value,
             refs |-> Append(s.refs, s.node + d.value)]
      list == FoldLeft(ReadRef, [next |-> n.next, node |-> r.node, refs |-> <<>>],
                       [k \in 1 .. n.value |-> k])
      tags == ReadTags(list.next)
      way  == r.way + id.value
  IN  [r EXCEPT !.next = tags.next, !.node = list.node, !.way = way,
                !.read = Append(@, [type |-> "WAY", id |-> way, refs |-> list.refs,
                                    tags |-> tags.value])]

Read(elements) ==
  FoldLeft(LAMBDA r, e : IF e.type = "NODE" THEN ReadNode(r) ELSE ReadWay(r),
           [next |-> 1, node |-> 0, way |-> 0, x |-> 0, y |-> 0, read |-> <<>>],
           elements)

\* What an element says, without the mark at the end of its list.
Plain(e) ==
  IF e.type = "NODE" THEN e
  ELSE [e EXCEPT !.refs = LET refs == ListIn(@) IN [i \in 1 .. Len(refs) |-> Abs(refs[i])]]

(* The bytes written so far are those of the elements written so far, with *)
(* nothing between and after them: deltas that wrap, grow past a word or   *)
(* go down, lists of several ways and empty strings all come back          *)
(* (vex.c:707-768, intpack.c:47-121).                                      *)
StreamReadsBack ==
  LET given == SelectSeq(SubSeq(stream, 1, at - 1), LAMBDA e : e.type # "RELATION")
      r     == Read(given)
  IN  /\ r.next = Len(ofile) + 1
      /\ r.read = [i \in 1 .. Len(given) |-> Plain(given[i])]
=============================================================================
