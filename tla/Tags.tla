-------------------------------- MODULE Tags --------------------------------
(***************************************************************************)
(* The compact form of tags and roles (tags.c).  A tag whose key and value *)
(* are in the tables becomes a positive code, one whose key is in the list *)
(* of free-text keys a negative code and its value, any other one the code *)
(* 0 and both strings.  A role becomes its place in a list, or 0.          *)
(*                                                                         *)
(* A list of tags is a run of codes and strings, closed by the code        *)
(* INT8_MAX.  Codes are one byte.  A string with its closing 0 is one cell *)
(* here.                                                                   *)
(*                                                                         *)
(* The strings to encode carry a length and the table's strings are        *)
(* compared over that length only, so a string is also found in one it is  *)
(* the beginning of.  Here strings are names, and Begins tells which of    *)
(* them are beginnings of others.                                          *)
(***************************************************************************)
EXTENDS Integers, Sequences, SequencesExt, FiniteSetsExt

CONSTANTS
  KeyTables,     \* tables: a sequence of [key, vals]
  FreeTextKeys,
  RelationRoles, \* from index 1; relation_roles[0] is OtherRole
  Begins,        \* the pairs <<s, t>> of strings, s a beginning of t and not t
  INT8_MAX       \* the largest code in a byte, and the end of a list

ASSUME ByteAssumption == INT8_MAX \in Nat
ASSUME TableAssumption ==
  /\ KeyTables \in Seq([key : STRING, vals : Seq(STRING)])
  /\ FreeTextKeys \in Seq(STRING) /\ RelationRoles \in Seq(STRING)

OtherRole == "[OTHER]"

\* memcmp(name, s.data, s.len) == 0
Found(name, s) == s = name \/ <<s, name>> \in Begins

Matches(names, s) == {i \in 1 .. Len(names) : Found(names[i], s)}

\* The codes of the tables before table t.
AddCodes(codes, table) == codes + Len(table.vals)
CodesBefore(t)         == FoldLeft(AddCodes, 0, SubSeq(KeyTables, 1, t - 1))

\* All codes are bytes, and none is the end of a list (119 pairs and 32 keys).
ASSUME CodeAssumption ==
  CodesBefore(Len(KeyTables) + 1) < INT8_MAX /\ Len(FreeTextKeys) =< INT8_MAX + 1

(* Only the first table whose key matches is searched for the value; when  *)
(* it is not there, the key is looked for among the free-text keys.        *)
encode_tag(tag) ==
  LET found == {t \in 1 .. Len(KeyTables) : Found(KeyTables[t].key, tag.key)}
      vals  == IF found = {} THEN {} ELSE Matches(KeyTables[Min(found)].vals, tag.val)
      free  == Matches(FreeTextKeys, tag.key)
  IN  CASE vals # {}               -> CodesBefore(Min(found)) + Min(vals)
        [] vals = {} /\ free # {}  -> -Min(free)
        [] OTHER                   -> 0

\* Cut to a signed byte.
Int8(n) == ((n + INT8_MAX + 1) % (2 * (INT8_MAX + 1))) - INT8_MAX - 1

\* What write_tags writes of a tag: the code, and the strings it leaves open.
TagCells(tag) ==
  LET code == Int8(encode_tag(tag))
  IN  <<code>> \o (CASE code = 0 -> <<tag.key, tag.val>>
                     [] code < 0 -> <<tag.val>>
                     [] code > 0 -> <<>>)

AddTag(cells, tag) == cells \o TagCells(tag)

\* Mutant of TagList: the last tag takes the place of the end of the list.
TagListOpen(tags) == FoldLeft(AddTag, <<>>, tags)

TagList(tags) == FoldLeft(AddTag, <<>>, tags) \o <<INT8_MAX>>

\* The tag whose code is the i-th cell, and the cells it takes.
decode_tag(data, i) ==
  LET code  == data[i]
      table == Max({t \in 1 .. Len(KeyTables) : CodesBefore(t) < code})
  IN  CASE code = 0 -> [key |-> data[i + 1], val |-> data[i + 2], size |-> 3]
        [] code < 0 -> [key |-> FreeTextKeys[-code], val |-> data[i + 1], size |-> 2]
        [] code > 0 -> [key |-> KeyTables[table].key,
                        val |-> KeyTables[table].vals[code - CodesBefore(table)],
                        size |-> 1]

\* The tags from the i-th cell to the end of the list, which is inside the file.
TagsFrom(data, i) ==
  LET tags[j \in 1 .. Len(data)] ==
        IF data[j] = INT8_MAX THEN <<>>
        ELSE LET tag  == decode_tag(data, j)
                 next == j + tag.size
                 rest == IF next \in j + 1 .. Len(data) THEN tags[next] ELSE <<>>
             IN  <<[key |-> tag.key, val |-> tag.val]>> \o rest
  IN  tags[i]

encode_role(role) ==
  LET found == Matches(RelationRoles, role) IN IF found = {} THEN 0 ELSE Min(found)

decode_role(code) == IF code = 0 THEN OtherRole ELSE RelationRoles[code]

(* The keys write_tags leaves out: created_by, import_uuid, attribution    *)
(* and their beginnings, and all keys that begin with source or tiger:.    *)
Skipped(key) ==
  \/ \E name \in {"created_by", "import_uuid", "attribution"} : Found(name, key)
  \/ \E name \in {"source", "tiger:"} : Found(key, name)
=============================================================================
