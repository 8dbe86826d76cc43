------------------------------ MODULE PbfWrite ------------------------------
(***************************************************************************)
(* The PBF writer (pbf-write.c) as the extraction uses it (vex.c:886-954): *)
(* nodes, then ways, then relations are buffered in blocks; a full block,  *)
(* and at the end of each stage what remains, is written as one data blob  *)
(* with its own string table.                                              *)
(*                                                                         *)
(* A buffered element does not hold its strings but the places of its      *)
(* keys and values in kv_buff, which in turn holds indexes into the table: *)
(* both are reset with every blob.  Dedup implements the table.  The       *)
(* references of a way and the members of a relation go into arrays of     *)
(* their own, from malloc.  Coordinates are left out, and so is the header *)
(* blob, which pbf_write_begin writes before all others.                   *)
(*                                                                         *)
(* An element is [type, id, tags, ids, roles]; ids are the references or   *)
(* members as they are stored, the last one negative.                      *)
(***************************************************************************)
EXTENDS Integers, Sequences, SequencesExt, FiniteSetsExt

CONSTANTS
  Extracts,        \* the element sequences an extraction may write
  PBF_BLOCK_SIZE,  \* elements in a block
  MAX_KEYS_VALS    \* key and value indexes in kv_buff

Stages == <<"NODE", "WAY", "RELATION">>
Types  == ToSet(Stages)
StageOf(type) == CHOOSE s \in 1 .. 3 : Stages[s] = type

ASSUME SizeAssumption == PBF_BLOCK_SIZE \in Nat \ {0} /\ MAX_KEYS_VALS \in Nat

\* An extraction calls for its nodes, then its ways, then its relations.
Element == [type : Types, id : Int, tags : Seq(STRING \X STRING), ids : Seq(Int),
            roles : Seq(STRING)]
ASSUME ExtractsAssumption ==
  /\ Extracts \subseteq Seq(Element)
  /\ \A es \in Extracts : \A i, j \in 1 .. Len(es) :
       i < j => StageOf(es[i].type) =< StageOf(es[j].type)

VARIABLES
  input, at,   \* the elements to write, and the index of the next
  stage,       \* the extraction's stage, 4 once it has ended
  block,       \* node_block, way_block and rel_block
  kv_buff, kv_n,
  heap,        \* the arrays in use, by the index of the element they were made for
  table,       \* the strings deduplicated for the next blob
  blobs,       \* the data blobs written
  crashed      \* kv_alloc returned NULL and the pointer was used

vars == <<input, at, stage, block, kv_buff, kv_n, heap, table, blobs, crashed>>

NoElements == [t \in Types |-> <<>>]

\* pbf_write_begin
Init ==
  /\ input \in Extracts /\ at = 1 /\ stage = 1
  /\ block = NoElements
  /\ kv_buff = [i \in 0 .. MAX_KEYS_VALS - 1 |-> 0] /\ kv_n = 0
  /\ heap = {} /\ table = <<>> /\ blobs = <<>> /\ crashed = FALSE

-----------------------------------------------------------------------------
(* The string table: indexes from 0 in the order of first use.             *)

Dedup_dedup(t, s) == IF s \in ToSet(t) THEN t ELSE Append(t, s)
DedupTag(t, tag)  == Dedup_dedup(Dedup_dedup(t, tag[1]), tag[2])
IndexOf(t, s) == (CHOOSE i \in 1 .. Len(t) : t[i] = s) - 1

\* Roles are deduplicated before tags, and only relations have any.
Deduped(t, e) == FoldLeft(DedupTag, FoldLeft(Dedup_dedup, t, e.roles), e.tags)

(* load_tags: room for the keys, then for the values, then both are filled *)
(* tag by tag.                                                             *)
RoomForTags(e) == e.tags = <<>> \/ kv_n + 2 * Len(e.tags) =< MAX_KEYS_VALS
Filled(e, t) ==
  [i \in DOMAIN kv_buff |->
     LET n == Len(e.tags)
     IN  CASE i \in kv_n .. kv_n + n - 1 -> IndexOf(t, e.tags[i - kv_n + 1][1])
           [] i \in kv_n + n .. kv_n + 2 * n - 1 ->
                IndexOf(t, e.tags[i - kv_n - n + 1][2])
           [] OTHER -> kv_buff[i]]

Abs(n) == IF n < 0 THEN -n ELSE n

\* Mutant of Deltas: the last id keeps its mark.
DeltasMarked(ids) == [i \in 1 .. Len(ids) |-> ids[i] - IF i = 1 THEN 0 ELSE Abs(ids[i - 1])]

\* References and members are delta-coded in their list, without the mark.
Deltas(ids) == [i \in 1 .. Len(ids) |-> Abs(ids[i]) - IF i = 1 THEN 0 ELSE Abs(ids[i - 1])]

-----------------------------------------------------------------------------
(* write_pbf_data_blob.                                                    *)

Packed(b, kvs) ==
  [id    |-> b.id,
   keys  |-> [i \in 1 .. b.n |-> kvs[b.keys + i - 1]],
   vals  |-> [i \in 1 .. b.n |-> kvs[b.vals + i - 1]],
   ids   |-> b.ids,
   roles |-> b.roles]
Blob(types, blk, kvs, t) ==
  [elements |-> [y \in Types |-> IF y \in types THEN [i \in 1 .. Len(blk[y]) |->
                                                        Packed(blk[y][i], kvs)]
                                 ELSE <<>>],
   strings  |-> t]

\* Mutant of Freed: the relations are counted once their block is empty.
FreedNone(types, blk) == {}

(* The arrays freed when blocks are reset, those of nodes first.  The loop *)
(* over the ways runs to the number of nodes, so that no way's array is    *)
(* freed unless nodes are left in their block while ways are written.      *)
Freed(types, blk) ==
  LET n == IF "NODE" \in types THEN 0 ELSE Len(blk["NODE"])
  IN  {blk["WAY"][w].array : w \in {v \in 1 .. Len(blk["WAY"]) : "WAY" \in types /\ v =< n}}
      \cup {blk["RELATION"][r].array :
              r \in {v \in 1 .. Len(blk["RELATION"]) : "RELATION" \in types}}

\* Mutant of Emptied: the count of the block is not reset.
NotEmptied(types, blk) == blk

\* The blocks written are emptied.
Emptied(types, blk) == [y \in Types |-> IF y \in types THEN <<>> ELSE blk[y]]

\* Mutant of WriteBlob: kv_buff is filled on from where it was.
WriteBlobKeepKeys(types, blk, kvs, t, arrays) ==
  /\ blobs' = Append(blobs, Blob(types, blk, kvs, t))
  /\ table' = <<>> /\ UNCHANGED kv_n
  /\ heap' = arrays \ Freed(types, blk)
  /\ block' = Emptied(types, blk)

WriteBlob(types, blk, kvs, t, arrays) ==
  /\ blobs' = Append(blobs, Blob(types, blk, kvs, t))
  /\ table' = <<>> /\ kv_n' = 0
  /\ heap' = arrays \ Freed(types, blk)
  /\ block' = Emptied(types, blk)

-----------------------------------------------------------------------------
(* The calls of the extraction.                                            *)

Writes(type) ==
  ~crashed /\ stage < 4 /\ Stages[stage] = type
  /\ at =< Len(input) /\ input[at].type = type

\* Buffers input[at]; a full block is written at once.
Buffer(type) ==
  LET e    == input[at]
      t    == Deduped(table, e)
      kvs  == Filled(e, t)
      item == [id |-> e.id, n |-> Len(e.tags), keys |-> kv_n,
               vals |-> kv_n + Len(e.tags),
               roles |-> [i \in 1 .. Len(e.roles) |-> IndexOf(t, e.roles[i])],
               ids |-> Deltas(e.ids), array |-> at]
      arrays == IF type = "NODE" THEN heap ELSE heap \cup {at}
      full == [block EXCEPT ![type] = Append(@, item)]
  IN  /\ RoomForTags(e)
      /\ kv_buff' = kvs
      /\ IF Len(full[type]) = PBF_BLOCK_SIZE
         THEN WriteBlob({type}, full, kvs, t, arrays)
         ELSE /\ block' = full /\ table' = t /\ kv_n' = kv_n + 2 * Len(e.tags)
              /\ heap' = arrays /\ UNCHANGED blobs
      /\ at' = at + 1
      /\ UNCHANGED <<input, stage, crashed>>

pbf_write_node == Writes("NODE") /\ Buffer("NODE")

pbf_write_way == Writes("WAY") /\ Buffer("WAY")

pbf_write_relation == Writes("RELATION") /\ Buffer("RELATION")

\* kv_alloc has no room and returns NULL, through which load_tags writes.
WriteThroughNull ==
  /\ \E type \in Types : Writes(type)
  /\ ~RoomForTags(input[at])
  /\ crashed' = TRUE
  /\ UNCHANGED <<input, at, stage, block, kv_buff, kv_n, heap, table, blobs>>

\* Mutant of EndStage: the flush comes once, after the last stage.
EndStageUnflushed ==
  /\ ~crashed /\ stage < 4
  /\ at =< Len(input) => input[at].type # Stages[stage]
  /\ IF block # NoElements /\ stage = 3
     THEN WriteBlob(Types, block, kv_buff, table, heap)
     ELSE UNCHANGED <<block, kv_n, heap, table, blobs>>
  /\ stage' = stage + 1
  /\ UNCHANGED <<input, at, kv_buff, crashed>>

\* The extraction has no more elements of this stage: pbf_write_flush.
EndStage ==
  /\ ~crashed /\ stage < 4
  /\ at =< Len(input) => input[at].type # Stages[stage]
  /\ IF block # NoElements
     THEN WriteBlob(Types, block, kv_buff, table, heap)
     ELSE UNCHANGED <<block, kv_n, heap, table, blobs>>
  /\ stage' = stage + 1
  /\ UNCHANGED <<input, at, kv_buff, crashed>>

Next ==
  \/ pbf_write_node \/ pbf_write_way \/ pbf_write_relation
  \/ WriteThroughNull \/ EndStage

Spec == Init /\ [][Next]_vars

-----------------------------------------------------------------------------
(* Properties.                                                             *)

TypeOK ==
  /\ input \in Extracts /\ at \in 1 .. Len(input) + 1 /\ stage \in 1 .. 4
  /\ DOMAIN block = Types /\ kv_n \in 0 .. MAX_KEYS_VALS
  /\ \A type \in Types : Len(block[type]) < PBF_BLOCK_SIZE
  /\ \A i \in DOMAIN kv_buff : kv_buff[i] \in Nat
  /\ heap \subseteq 1 .. Len(input) /\ crashed \in BOOLEAN

\* An element read back from a blob, its strings looked up in the blob's table.
AddDelta(id, delta) == id + delta
Decoded(type, p, strings) ==
  [type  |-> type, id |-> p.id,
   ids   |-> [i \in 1 .. Len(p.ids) |-> FoldLeft(AddDelta, 0, SubSeq(p.ids, 1, i))],
   tags  |-> [i \in 1 .. Len(p.keys) |-> <<strings[p.keys[i] + 1], strings[p.vals[i] + 1]>>],
   roles |-> [i \in 1 .. Len(p.roles) |-> strings[p.roles[i] + 1]]]
ElementsOf(b, type) ==
  [i \in 1 .. Len(b.elements[type]) |-> Decoded(type, b.elements[type][i], b.strings)]
Elements(b) ==
  ElementsOf(b, "NODE") \o ElementsOf(b, "WAY") \o ElementsOf(b, "RELATION")
Given(e) == [e EXCEPT !.ids = [i \in 1 .. Len(@) |-> Abs(@[i])]]
AllGiven(es) == [i \in 1 .. Len(es) |-> Given(es[i])]
AddElements(es, b) == es \o Elements(b)
Read(bs) == FoldLeft(AddElements, <<>>, bs)

(* What is in the file and in the buffers decodes to the elements written  *)
(* so far, in their order, each with its own tags, references, members and *)
(* roles: no string index is left pointing into a table or a kv_buff that  *)
(* was reset (pbf-write.c:232-238).                                        *)
DecodesAsWritten ==
  Read(blobs) \o Elements(Blob(Types, block, kv_buff, table)) =
    AllGiven(SubSeq(input, 1, at - 1))

(* Once the extraction has ended the file has all of it, in blobs that     *)
(* pbf_read accepts and other programs require: one type in each, none     *)
(* empty, none larger than a block, nodes before ways before relations.    *)
FileReadsBack ==
  /\ \A i \in 1 .. Len(blobs) :
       \E type \in Types :
         /\ Len(blobs[i].elements[type]) \in 1 .. PBF_BLOCK_SIZE
         /\ \A other \in Types \ {type} : blobs[i].elements[other] = <<>>
  /\ \A i, j \in 1 .. Len(blobs) : \A s, u \in 1 .. 3 :
       /\ i < j
       /\ blobs[i].elements[Stages[s]] # <<>> /\ blobs[j].elements[Stages[u]] # <<>>
       => s =< u
  /\ stage = 4 => Read(blobs) = AllGiven(input)

Buffered(type) == {block[type][i] : i \in 1 .. Len(block[type])}

(* The arrays of all that is buffered are still there when it is packed,   *)
(* and one that is there belongs to something buffered, but for those of   *)
(* the ways written, none of which is ever freed (pbf-write.c:131-149).    *)
ArraysInUse ==
  /\ {b.array : b \in Buffered("WAY") \cup Buffered("RELATION")} \subseteq heap
  /\ \A a \in heap : \/ input[a].type = "WAY"
                     \/ \E b \in Buffered("RELATION") : b.array = a

AddTags(n, b) == n + b.n
Tags(items)   == FoldLeft(AddTags, 0, items)

(* kv_alloc gives up (pbf-write.c:161-164) for what is buffered now: the   *)
(* tags of blobs already written take no room.                             *)
FullOfBuffered ==
  crashed =>
    2 * (Len(input[at].tags) + Tags(block["NODE"]) + Tags(block["WAY"])
         + Tags(block["RELATION"])) > MAX_KEYS_VALS
=============================================================================
