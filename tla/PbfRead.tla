------------------------------ MODULE PbfRead -------------------------------
(***************************************************************************)
(* The PBF reader (pbf-read.c): pbf_read walks the blobs of a file and     *)
(* hands the elements of each primitive group to callbacks.  It stops      *)
(* early when the groups leave the order nodes, ways, relations, or when   *)
(* no callback is left for what comes.                                     *)
(*                                                                         *)
(* A file is a sequence of blobs [type, body, groups, sizes].  The body is *)
(* "ok", or it is one the reader fails on: "unparsable" (the Blob          *)
(* message), "no data" (neither zlib nor raw data, or a wrong size), "bad  *)
(* block" (the header or primitive block in it).  A group is [nodes,       *)
(* dense, ways, relations], where dense is a sequence of nodes or NoDense. *)
(* The sizes are those of the allocations that unpacking the blob's header,*)
(* the blob and its block takes from the slab.                             *)
(***************************************************************************)
EXTENDS Slab, Sequences, FiniteSetsExt

CONSTANTS
  Files,        \* the files that may be read
  CallbackSets, \* the types that callbacks may be given for, in one use
  NoDense,      \* the group has no DenseNodes message
  MAX_TAGS,     \* tags of a dense node that fit the buffers
  GRANULARITY, LAT_OFFSET  \* of every block

ASSUME SizeAssumption ==
  MAX_TAGS \in Nat /\ GRANULARITY \in Int /\ LAT_OFFSET \in Int

(* What a file may hold.  A tag is a pair of string indexes, and the key   *)
(* is not the empty string 0.  No allocation is empty.                     *)
Nodes     == [type : {"NODE"}, id : Int, lat : Int, tags : Seq((Nat \ {0}) \X Nat)]
Ways      == [type : {"WAY"}, id : Int]
Relations == [type : {"RELATION"}, id : Int]
GroupSet  == [nodes : Seq(Nodes), dense : {NoDense} \cup Seq(Nodes),
              ways : Seq(Ways), relations : Seq(Relations)]
Sizes     == Seq(Nat \ {0})
BlobSet   == [type : {"OSMHeader", "OSMData", "other"},
              body : {"ok", "unparsable", "no data", "bad block"},
              groups : Seq(GroupSet),
              sizes : [header : Sizes, blob : Sizes, block : Sizes]]

ASSUME FileAssumption ==
  /\ Files \subseteq Seq(BlobSet)
  /\ CallbackSets \subseteq SUBSET {"NODE", "WAY", "RELATION"}

Types == <<"NODE", "WAY", "RELATION">>
PHASE(type) == CHOOSE i \in 0 .. 2 : Types[i + 1] = type

VARIABLES
  file,      \* the blobs
  callbacks, \* the types that have a callback
  blob,      \* the blob being read
  group,     \* the primitive group being handled
  header,    \* the header block was read
  slab_next, \* the place of the next allocation in the slab
  phase,     \* the type of the last groups, -1 < phase
  pc,        \* where the reader is, or how it ended
  n, id, lat, kv0,  \* the dense node being decoded, and the sums so far
  delivered  \* the elements handed to the callbacks

dense_state == <<n, id, lat, kv0>>
input == <<file, callbacks>>
vars == <<input, blob, group, header, slab_next, phase, pc, dense_state, delivered>>

Init ==
  /\ file \in Files /\ callbacks \in CallbackSets
  /\ blob = 1 /\ group = 1 /\ header = FALSE /\ phase = 0
  /\ pc = "blob" /\ slab_next = slab_reset
  /\ n = 1 /\ id = 0 /\ lat = LAT_OFFSET /\ kv0 = 1
  /\ delivered = <<>>

Blob  == file[blob]
Group == Blob.groups[group]

\* Sequences one after another.
Join(s, t) == s \o t
Concat(seqs) == FoldLeft(Join, <<>>, seqs)

(* How a PBF file holds dense nodes: ids and latitudes delta-coded, and    *)
(* one array of the keys and values of all nodes, each node's closed by    *)
(* the empty string 0; no array when no node has a tag.                    *)
Deltas(s) == [i \in 1 .. Len(s) |-> IF i = 1 THEN s[1] ELSE s[i] - s[i - 1]]
DenseOf(nodes) ==
  [ids  |-> Deltas([i \in 1 .. Len(nodes) |-> nodes[i].id]),
   lats |-> Deltas([i \in 1 .. Len(nodes) |-> nodes[i].lat]),
   keys_vals |->
     IF \A i \in 1 .. Len(nodes) : nodes[i].tags = <<>> THEN <<>>
     ELSE Concat([i \in 1 .. Len(nodes) |-> Concat(nodes[i].tags) \o <<0>>])]

-----------------------------------------------------------------------------
(* enforce_ordering.                                                       *)

Has(g, type) == CASE type = "NODE"     -> g.dense # NoDense \/ g.nodes # <<>>
                  [] type = "WAY"      -> g.ways # <<>>
                  [] type = "RELATION" -> g.relations # <<>>
TypesOf(g)      == {t \in ToSet(Types) : Has(g, t)}
\* -1 for a group with no element
element_type(g) == IF TypesOf(g) = {} THEN -1 ELSE Max({PHASE(t) : t \in TypesOf(g)})

\* Mutant of Exhausted: ways are thought wanted only for relations.
ExhaustedBeforeWays(p) ==
  \/ p = PHASE("WAY") /\ "RELATION" \notin callbacks
  \/ p = PHASE("RELATION") /\ "RELATION" \notin callbacks

\* No callback is left when the phase advances to p.
Exhausted(p) ==
  \/ p = PHASE("WAY") /\ {"WAY", "RELATION"} \cap callbacks = {}
  \/ p = PHASE("RELATION") /\ "RELATION" \notin callbacks

\* Mutant of enforce_ordering: groups may go back to an earlier type.
EnforceTypesOnly(g) ==
  \/ Cardinality(TypesOf(g)) > 1
  \/ element_type(g) > phase /\ Exhausted(element_type(g))

enforce_ordering(g) ==
  \/ Cardinality(TypesOf(g)) > 1
  \/ element_type(g) < phase
  \/ element_type(g) > phase /\ Exhausted(element_type(g))

-----------------------------------------------------------------------------
(* pbf_read, one blob at a time.                                           *)

AtBlob == pc = "blob" /\ blob =< Len(file)

\* The blob's header, the blob, and a primitive block from it, all in the slab.
blobh   == Unpack(slab_next, Blob.sizes.header)
message == Unpack(blobh.next, Blob.sizes.blob)
block   == Unpack(message.next, Blob.sizes.block)

\* The header and the data of the blob are there.
HasData ==
  /\ AtBlob /\ Blob.body \in {"ok", "bad block"}
  /\ ~blobh.null /\ ~blobh.past /\ ~message.null /\ ~message.past

\* Mutant of NextBlob: the slab is not reset.
NextBlobNoReset == blob' = blob + 1 /\ pc' = "blob" /\ UNCHANGED slab_next

NextBlob == blob' = blob + 1 /\ pc' = "blob" /\ slab_next' = slab_reset

\* The header block is not taken from the slab.
ReadHeader ==
  /\ HasData /\ ~header /\ Blob.type = "OSMHeader" /\ Blob.body = "ok"
  /\ header' = TRUE
  /\ NextBlob
  /\ UNCHANGED <<input, group, phase, dense_state, delivered>>

SkipBlob ==
  /\ HasData /\ header /\ Blob.type # "OSMData"
  /\ NextBlob
  /\ UNCHANGED <<input, group, header, phase, dense_state, delivered>>

End(how) ==
  /\ pc' = how
  /\ UNCHANGED <<input, blob, group, header, slab_next, phase, dense_state, delivered>>

(* "error unpacking blob header", "neither compressed nor raw data",       *)
(* "expected first blob to be a header", "failed to read OSM header        *)
(* message", "error unpacking primitive block"                             *)
Die ==
  /\ \/ AtBlob /\ ~blobh.past /\ blobh.null
     \/ AtBlob /\ ~message.past /\ ~message.null /\ Blob.body = "no data"
     \/ HasData /\ ~header /\ (Blob.type # "OSMHeader" \/ Blob.body = "bad block")
     \/ /\ HasData /\ header /\ Blob.type = "OSMData" /\ ~block.past
        /\ block.null \/ Blob.body = "bad block"
  /\ End("died")

(* A Blob message that does not parse, or finds no room, is NULL; the test *)
(* that should find this looks at the header again, and the NULL is read.  *)
ReadNullBlob ==
  /\ AtBlob /\ ~blobh.null /\ ~blobh.past /\ ~message.past
  /\ message.null \/ Blob.body = "unparsable"
  /\ End("crashed")

(* A message is unpacked past the end of the slab: the process ends, or    *)
(* memory of something else is overwritten, and nothing is said of what    *)
(* follows then.                                                           *)
WritePastSlab ==
  /\ AtBlob
  /\ \/ blobh.past \/ message.past
     \/ HasData /\ header /\ Blob.type = "OSMData" /\ block.past
  /\ \E how \in {"crashed", "overrun"} : End(how)

OpenBlock ==
  /\ HasData /\ header /\ Blob.type = "OSMData" /\ Blob.body = "ok"
  /\ ~block.null /\ ~block.past
  /\ pc' = "group" /\ group' = 1 /\ slab_next' = block.next
  /\ UNCHANGED <<input, blob, header, phase, dense_state, delivered>>

EndFile == pc = "blob" /\ blob > Len(file) /\ End("done")

(* handle_primitive_block, one group at a time.                            *)

StopAtGroup ==
  /\ pc = "group" /\ group =< Len(Blob.groups)
  /\ enforce_ordering(Group)
  /\ phase' = IF Cardinality(TypesOf(Group)) > 1 THEN phase
              ELSE Max({phase, element_type(Group)})
  /\ pc' = "stopped"
  /\ UNCHANGED <<input, blob, group, header, slab_next, dense_state, delivered>>

\* Mutant of Called: elements are handed over whatever the callbacks.
CalledAlways(type, elements) == elements

Called(type, elements) == IF type \in callbacks THEN elements ELSE <<>>
\* Coordinates reach the callback in units of the grid plus the offset.
Scaled(node) == [node EXCEPT !.lat = LAT_OFFSET + node.lat * GRANULARITY]

\* All of the group but the dense nodes.
HandleGroup ==
  /\ pc = "group" /\ group =< Len(Blob.groups)
  /\ ~enforce_ordering(Group)
  /\ phase' = Max({phase, element_type(Group)})
  /\ delivered' = delivered \o Called("WAY", Group.ways)
                            \o Called("NODE", [i \in 1 .. Len(Group.nodes) |->
                                                 Scaled(Group.nodes[i])])
                            \o Called("RELATION", Group.relations)
  /\ IF Group.dense # NoDense /\ "NODE" \in callbacks
     THEN /\ pc' = "dense" /\ UNCHANGED group
          /\ n' = 1 /\ id' = 0 /\ lat' = LAT_OFFSET /\ kv0' = 1
     ELSE group' = group + 1 /\ UNCHANGED <<pc, dense_state>>
  /\ UNCHANGED <<input, blob, header, slab_next>>

\* The place of the empty string that closes the list beginning at kv0.
Terminator(kvs) == Min({i \in kv0 .. Len(kvs) : (i - kv0) % 2 = 0 /\ kvs[i] = 0})

\* Tags past MAX_TAGS are passed over; without an array kv0 still advances.
HandleDenseNode ==
  /\ pc = "dense" /\ n =< Len(Group.dense)
  /\ LET dense == DenseOf(Group.dense)
         end   == IF dense.keys_vals = <<>> THEN kv0 ELSE Terminator(dense.keys_vals)
         kv1   == Min({(end - kv0) \div 2, MAX_TAGS})
         tag(i) == <<dense.keys_vals[kv0 + 2 * i - 2], dense.keys_vals[kv0 + 2 * i - 1]>>
     IN  /\ id' = id + dense.ids[n]
         /\ lat' = lat + dense.lats[n] * GRANULARITY
         /\ kv0' = end + 1
         /\ delivered' = Append(delivered,
              [type |-> "NODE", id |-> id', lat |-> lat',
               tags |-> [i \in 1 .. kv1 |-> tag(i)]])
  /\ n' = n + 1
  /\ UNCHANGED <<input, blob, group, header, slab_next, phase, pc>>

EndDense ==
  /\ pc = "dense" /\ n > Len(Group.dense)
  /\ pc' = "group" /\ group' = group + 1
  /\ UNCHANGED <<input, blob, header, slab_next, phase, dense_state, delivered>>

EndBlock ==
  /\ pc = "group" /\ group > Len(Blob.groups)
  /\ NextBlob
  /\ UNCHANGED <<input, group, header, phase, dense_state, delivered>>

Next ==
  \/ ReadHeader \/ SkipBlob \/ Die \/ ReadNullBlob \/ WritePastSlab \/ OpenBlock
  \/ EndFile
  \/ StopAtGroup \/ HandleGroup \/ HandleDenseNode \/ EndDense \/ EndBlock

Spec == Init /\ [][Next]_vars

-----------------------------------------------------------------------------
(* Properties.                                                             *)

Ends == {"done", "stopped", "died", "crashed", "overrun"}

TypeOK ==
  /\ file \in Files /\ callbacks \in CallbackSets /\ blob \in 1 .. Len(file) + 1 /\ group \in Nat
  /\ header \in BOOLEAN /\ phase \in 0 .. 2
  /\ pc \in {"blob", "group", "dense"} \cup Ends
  /\ n \in Nat /\ kv0 \in Nat
  /\ \A i \in 1 .. Len(delivered) : delivered[i].type \in callbacks

GroupsIn(b) == IF b.type = "OSMData" /\ b.body = "ok" THEN b.groups ELSE <<>>
Groups(f)   == Concat([i \in 1 .. Len(f) |-> GroupsIn(f[i])])

\* What the callbacks should be given of a group: tags in excess are dropped.
Cut(node) == [node EXCEPT !.tags = SubSeq(@, 1, Min({Len(@), MAX_TAGS}))]
Wanted(g) ==
  Called("WAY", g.ways)
  \o Called("NODE", [i \in 1 .. Len(g.nodes) |-> Scaled(g.nodes[i])])
  \o Called("NODE", IF g.dense = NoDense THEN <<>>
                    ELSE [i \in 1 .. Len(g.dense) |-> Scaled(Cut(g.dense[i]))])
  \o Called("RELATION", g.relations)
WantedOf(gs) == Concat([i \in 1 .. Len(gs) |-> Wanted(gs[i])])
AllWanted(f) == WantedOf(Groups(f))

(* What the callbacks receive is a prefix of the file's elements, and      *)
(* never a way after a relation or a node after either: handle_way relies  *)
(* on the nodes being there (vex.c:484-488, 538-540).  Each dense node     *)
(* comes with its own id, latitude and first MAX_TAGS tags, whatever the   *)
(* nodes before it had (pbf-read.c:181-209).                               *)
PrefixInOrder ==
  /\ IsPrefix(delivered, AllWanted(file))
  /\ \A i, j \in 1 .. Len(delivered) :
       i < j => PHASE(delivered[i].type) =< PHASE(delivered[j].type)

Sorted(f) ==
  LET gs == Groups(f)
  IN  /\ \A i \in 1 .. Len(gs) : Cardinality(TypesOf(gs[i])) = 1
      /\ \A i, j \in 1 .. Len(gs) : i < j => element_type(gs[i]) =< element_type(gs[j])

(* Stopping "just to save time" (pbf-read.c:92) costs no element: when the *)
(* reader returns, a sorted file has been delivered whole.                 *)
NothingMissed ==
  pc \in {"done", "stopped"} /\ Sorted(file) => delivered = AllWanted(file)

AddSize(sum, size) == sum + size
Total(sizes) == FoldLeft(AddSize, 0, sizes)
Used(sizes)  == Total(sizes.header) + Total(sizes.blob) + Total(sizes.block)

(* A blob is read or not whatever was read before it: what fails is the    *)
(* first blob, for not being a header, or one that is bad by itself or     *)
(* takes more than the whole slab.  What the blobs before it took is given *)
(* back by then, on every path around the loop (pbf-read.c:298-301).       *)
FailsOnBadBlob ==
  pc \in {"died", "crashed", "overrun"} =>
    \/ blob = 1 /\ Blob.type # "OSMHeader"
    \/ Blob.body # "ok"
    \/ Used(Blob.sizes) > SLAB_SIZE
=============================================================================
