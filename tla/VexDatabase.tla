---------------------------- MODULE VexDatabase -----------------------------
(***************************************************************************)
(* One database (vex.c): the loader's handlers fill memory-mapped arrays   *)
(* from a sorted sequence of elements, and an extraction reads them back   *)
(* for a bounding box in three stages, nodes, ways and relations.          *)
(*                                                                         *)
(* A handler makes several stores, in the order of the code, and the       *)
(* loader can be killed between any two; the stores it made stay in the    *)
(* files.  Extractions run once the loader has stopped (VexProcesses), the *)
(* ways of a cell are a set (WayBlocks implements it) and so are the ids   *)
(* already written (IDTracker implements it).                              *)
(***************************************************************************)
EXTENDS Tags

CONSTANTS
  Inputs,            \* the element sequences a load may be given
  Boxes,             \* the bounding boxes an extraction may be given
  MAX_NODE_ID, MAX_WAY_ID, MAX_REL_ID, MAX_REL_MEMBERS,
  MAX_REF_INDEX,     \* UINT32_MAX, the last node reference
  ID_WIDTH,          \* 2^32, what a member id is cut to
  COORD_WIDTH,       \* 2^32, the range of an internal coordinate
  CELL_WIDTH,        \* 2^(32 - GRID_BITS), coordinates in a bin
  MAX_SUBFILES,
  NODE_IDS_PER_WAY_ID, WAY_IDS_PER_REL_ID,  \* 16 and 64
  SUBFILE_WAY_IDS,   \* 2^26, way ids in a tag subfile
  MAX_TAG_POSITION   \* UINT32_MAX, the last position a tag list is let begin at

ASSUME WidthAssumption ==
  /\ CELL_WIDTH \in Nat \ {0} /\ COORD_WIDTH \in Nat /\ COORD_WIDTH > 1
  /\ COORD_WIDTH % (2 * CELL_WIDTH) = 0
ASSUME LimitAssumption ==
  /\ {MAX_NODE_ID, MAX_WAY_ID, MAX_REL_ID, ID_WIDTH, SUBFILE_WAY_IDS,
      NODE_IDS_PER_WAY_ID, WAY_IDS_PER_REL_ID} \subseteq Nat \ {0}
  /\ MAX_SUBFILES \in Nat /\ MAX_TAG_POSITION \in Nat /\ MAX_TAG_POSITION > 1
  /\ MAX_REL_MEMBERS \in Nat /\ MAX_REL_MEMBERS > 1
\* nodes[] is indexed with a reference's index as well as with node ids.
ASSUME RefAssumption == MAX_REF_INDEX \in Nat /\ MAX_REF_INDEX < MAX_NODE_ID

Bins     == 0 .. (COORD_WIDTH \div CELL_WIDTH) - 1
Cells    == Bins \X Bins
NoCell   == <<>>
NodeIds  == 0 .. MAX_NODE_ID - 1
WayIds   == 0 .. MAX_WAY_ID - 1
RelIds   == 0 .. MAX_REL_ID - 1
RefIndex == 0 .. MAX_REF_INDEX
Origin   == [x |-> 0, y |-> 0]

\* What the callbacks are given: coordinates in 32 bits, ids delta-coded in lists.
Coords   == -(COORD_WIDTH \div 2) .. COORD_WIDTH \div 2 - 1
Points   == [x : Coords, y : Coords]
TagLists == Seq([key : STRING, val : STRING])
NodeElems == [type : {"NODE"}, id : Nat, coord : Points, tags : TagLists]
WayElems  == [type : {"WAY"}, id : Nat, refs : Seq(Int), tags : TagLists]
RelElems  == [type : {"RELATION"}, id : Nat \ {0}, tags : TagLists,
              members : Seq([type : {"NODE", "WAY", "RELATION"}, id : Int, role : STRING])]

(* The elements of a load, as pbf_read delivers them (PbfRead): by type.   *)
(* An id stands for one element of a type, and the ids that handlers index *)
(* the files with untested, those of the first reference and of the first  *)
(* member, are in the files.                                               *)
ASSUME InputAssumption ==
  /\ Inputs \subseteq Seq(NodeElems \cup WayElems \cup RelElems)
  /\ \A elems \in Inputs : \A i, j \in 1 .. Len(elems) :
       /\ elems[i].type = elems[j].type /\ elems[i].id = elems[j].id => i = j
       /\ i < j => /\ elems[j].type = "NODE" => elems[i].type = "NODE"
                   /\ elems[i].type = "RELATION" => elems[j].type = "RELATION"
  /\ \A elems \in Inputs : \A i \in 1 .. Len(elems) :
       LET e == elems[i]
       IN  /\ e.type = "WAY" /\ e.refs # <<>> => e.refs[1] \in NodeIds
           /\ e.type = "RELATION" /\ e.members # <<>> =>
                LET id == e.members[1].id % ID_WIDTH
                IN  /\ e.members[1].type = "NODE" => id \in NodeIds
                    /\ e.members[1].type = "WAY" => id \in WayIds

\* "min lat must be less than max lat", which internal coordinates may round to equal.
ASSUME BoxAssumption ==
  Boxes \subseteq {b \in [min : Points, max : Points] :
                     b.min.x =< b.max.x /\ b.min.y =< b.max.y}

VARIABLES
  \* the loader and its counters
  input, at,        \* the elements, and the index of the one being handled
  pc,               \* the loader's next step, or why it stopped
  item, ref_id,     \* the next reference or member, and the last id decoded
  n_node_refs, n_rel_members, ways_loaded,
  \* the files
  nodes, ways, node_refs, relations, rel_members, cell_ways, head_relation,
  tag_files,
  \* the extraction
  box, stage,
  cells,            \* the cells this stage has still to enter
  ways_left,        \* the ways of the current cell still to read
  relation_id,      \* the relation of the current cell to write, or 0
  seen,             \* the ids flagged in the ID tracker
  out               \* the elements written

loader   == <<input, at, pc, item, ref_id>>
counters == <<n_node_refs, n_rel_members, ways_loaded>>
lists    == <<node_refs, rel_members, tag_files>>
files    == <<nodes, ways, relations, cell_ways, head_relation, lists>>
scan     == <<cells, ways_left, relation_id, seen, out>>
reader   == <<box, stage, scan>>
vars     == <<loader, counters, files, reader>>

Elem == input[at]

\* New files are sparse: they read as zeros.  Whoever maps a tag subfile puts an
\* empty list at its beginning.
Init ==
  /\ input \in Inputs /\ at = 1 /\ pc = "element" /\ item = 1 /\ ref_id = 0
  /\ n_node_refs = 0 /\ n_rel_members = 1 /\ ways_loaded = 0
  /\ nodes = [n \in NodeIds |-> [coord |-> Origin, tags |-> 0]]
  /\ ways = [w \in WayIds |-> [node_ref_offset |-> 0, tags |-> 0]]
  /\ node_refs = [i \in RefIndex |-> 0]
  /\ relations = [r \in RelIds |-> [member_offset |-> 0, tags |-> 0, next |-> 0]]
  /\ rel_members =
       [i \in 0 .. MAX_REL_MEMBERS - 1 |-> [role |-> 0, element_type |-> "NODE", id |-> 0]]
  /\ cell_ways = [c \in Cells |-> {}]
  /\ head_relation = [c \in Cells |-> 0]
  /\ tag_files = [s \in 0 .. MAX_SUBFILES - 1 |-> <<INT8_MAX>>]
  /\ box = [min |-> Origin, max |-> Origin] /\ stage = "none"
  /\ cells = {} /\ ways_left = {} /\ relation_id = 0 /\ seen = {} /\ out = <<>>

-----------------------------------------------------------------------------
(* The spatial grid and the tag subfiles.                                  *)

\* A coordinate is cast to unsigned, then shifted.
bin(xy) == (xy % COORD_WIDTH) \div CELL_WIDTH

get_grid_cell_for_coord(coord) == <<bin(coord.x), bin(coord.y)>>

(* A negative id means the list has one member.  When the first member is  *)
(* a way, its offset into node_refs is used as a node's id.                *)
get_grid_cell_for_relation(r) ==
  LET first_member == rel_members[relations[r].member_offset]
  IN  CASE first_member.id < 0 -> NoCell
        [] first_member.id >= 0 /\ first_member.element_type = "NODE" ->
             get_grid_cell_for_coord(nodes[first_member.id].coord)
        [] first_member.id >= 0 /\ first_member.element_type = "WAY" ->
             get_grid_cell_for_coord(
               nodes[ways[first_member.id].node_ref_offset].coord)
        [] OTHER -> NoCell

\* All types are scaled to the range of way ids.
scaled_id(osmid, type) ==
  CASE type = "NODE"     -> osmid \div NODE_IDS_PER_WAY_ID
    [] type = "WAY"      -> osmid
    [] type = "RELATION" -> osmid * WAY_IDS_PER_REL_ID
subfile_index_for_id(osmid, type) == scaled_id(osmid, type) \div SUBFILE_WAY_IDS

\* "MAX_SUBFILES must be larger than": every id in the files has a subfile.
ASSUME SubfileAssumption ==
  /\ \A n \in NodeIds : subfile_index_for_id(n, "NODE") < MAX_SUBFILES
  /\ \A w \in WayIds : subfile_index_for_id(w, "WAY") < MAX_SUBFILES
  /\ \A r \in RelIds : subfile_index_for_id(r, "RELATION") < MAX_SUBFILES

Keep(kept, tag) == IF Skipped(tag.key) THEN kept ELSE Append(kept, tag)
Kept(tags) == FoldLeft(Keep, <<>>, tags)

\* Position p is the cell p + 1 of the subfile.
TagsAt(osmid, type, position) ==
  TagsFrom(tag_files[subfile_index_for_id(osmid, type)], position + 1)

-----------------------------------------------------------------------------
(* The loader.                                                             *)

\* Mutant of Refuses: ids are tested with > in the place of >=.
RefusesLate(e) ==
  \/ e.type = "NODE" /\ (e.id > MAX_NODE_ID \/ ways_loaded > 0)
  \/ e.type = "WAY" /\ e.id > MAX_WAY_ID
  \/ e.type = "RELATION" /\ e.id > MAX_REL_ID

\* Why a handler refuses an element before it stores anything.
Refuses(e) ==
  \/ e.type = "NODE" /\ (e.id >= MAX_NODE_ID \/ ways_loaded > 0)
  \/ e.type = "WAY" /\ e.id >= MAX_WAY_ID
  \/ e.type = "RELATION" /\ e.id >= MAX_REL_ID

Handles(type) ==
  pc = "element" /\ at =< Len(input) /\ Elem.type = type /\ ~Refuses(Elem)

NextElement == pc' = "element" /\ at' = at + 1 /\ UNCHANGED <<input, item, ref_id>>
Continue(p) == pc' = p /\ UNCHANGED <<input, at, item, ref_id>>
StartList   == item' = 1 /\ ref_id' = 0 /\ UNCHANGED <<input, at>>

HandleNode ==
  /\ Handles("NODE")
  /\ nodes' = [nodes EXCEPT ![Elem.id].coord = Elem.coord]
  /\ Continue("tags")
  /\ UNCHANGED <<counters, ways, relations, cell_ways, head_relation, lists, reader>>

HandleWay ==
  /\ Handles("WAY")
  /\ ways' = [ways EXCEPT ![Elem.id].node_ref_offset = n_node_refs]
  /\ StartList /\ pc' = "refs"
  /\ UNCHANGED <<counters, nodes, relations, cell_ways, head_relation, lists, reader>>

\* The reference is stored before the index is found to be the last.
CopyRef ==
  /\ pc = "refs" /\ item =< Len(Elem.refs)
  /\ ref_id' = ref_id + Elem.refs[item]
  /\ node_refs' = [node_refs EXCEPT ![n_node_refs] = ref_id']
  /\ item' = item + 1
  /\ IF n_node_refs = MAX_REF_INDEX
     THEN pc' = "dead" /\ UNCHANGED n_node_refs
     ELSE n_node_refs' = n_node_refs + 1 /\ UNCHANGED pc
  /\ UNCHANGED <<input, at, n_rel_members, ways_loaded, nodes, ways, relations,
                 rel_members, cell_ways, head_relation, tag_files, reader>>

(* node_refs[n_node_refs - 1] *= -1, with an unsigned index: the last      *)
(* reference of this way, or of the way before when this one has none.     *)
EndRefs ==
  /\ pc = "refs" /\ item > Len(Elem.refs)
  /\ node_refs' = [node_refs EXCEPT ![(n_node_refs - 1) % (MAX_REF_INDEX + 1)] = -@]
  /\ Continue("index")
  /\ UNCHANGED <<counters, nodes, ways, relations, rel_members, cell_ways,
                 head_relation, tag_files, reader>>

IndexWay ==
  /\ pc = "index" /\ Elem.refs # <<>>
  /\ LET cell == get_grid_cell_for_coord(nodes[Elem.refs[1]].coord)
     IN  cell_ways' = [cell_ways EXCEPT ![cell] = @ \cup {Elem.id}]
  /\ ways_loaded' = ways_loaded + 1
  /\ Continue("tags")
  /\ UNCHANGED <<n_node_refs, n_rel_members, nodes, ways, relations,
                 head_relation, lists, reader>>

\* way->refs[0] of an empty list is read through a null pointer.
ReadNoRef ==
  /\ pc = "index" /\ Elem.refs = <<>>
  /\ Continue("dead")
  /\ UNCHANGED <<counters, files, reader>>

\* A list without members is skipped; one too long ends the load.
HandleRelation ==
  /\ Handles("RELATION")
  /\ IF Elem.members = <<>>
     THEN NextElement /\ UNCHANGED relations
     ELSE /\ relations' = [relations EXCEPT ![Elem.id].member_offset = n_rel_members]
          /\ StartList
          /\ pc' = IF n_rel_members + Len(Elem.members) >= MAX_REL_MEMBERS
                   THEN "dead" ELSE "members"
  /\ UNCHANGED <<counters, nodes, ways, cell_ways, head_relation, lists, reader>>

CopyMember ==
  /\ pc = "members" /\ item =< Len(Elem.members)
  /\ ref_id' = ref_id + Elem.members[item].id
  /\ rel_members' = [rel_members EXCEPT ![n_rel_members] =
       [role |-> encode_role(Elem.members[item].role),
        element_type |-> Elem.members[item].type, id |-> ref_id' % ID_WIDTH]]
  /\ n_rel_members' = n_rel_members + 1
  /\ item' = item + 1
  /\ UNCHANGED <<input, at, pc, n_node_refs, ways_loaded, nodes, ways, relations,
                 node_refs, cell_ways, head_relation, tag_files, reader>>

EndMembers ==
  /\ pc = "members" /\ item > Len(Elem.members)
  /\ rel_members' = [rel_members EXCEPT ![n_rel_members - 1].id = -@]
  /\ Continue("tags")
  /\ UNCHANGED <<counters, nodes, ways, relations, node_refs, cell_ways,
                 head_relation, tag_files, reader>>

\* The subfile of the element's tags, its write position, and what is to be written.
Subfile  == subfile_index_for_id(Elem.id, Elem.type)
Position == Len(tag_files[Subfile])
NewCells == IF Kept(Elem.tags) = <<>> THEN <<>> ELSE TagList(Kept(Elem.tags))

\* A subfile is asked for with UINT32_MAX bytes, and resized to one less.
SubfileSize == MAX_TAG_POSITION - 1
TagsFit     == Position + Len(NewCells) =< SubfileSize

(* write_tags appends the list to the subfile of the element's id, then    *)
(* the handler stores its position: 0 when no tag is kept.  Neither "Need  *)
(* more subfiles than expected" (SubfileAssumption) nor, while every list  *)
(* fits, "A tag file index has overflowed" can end the load.               *)
WriteTags ==
  /\ pc = "tags" /\ TagsFit
  /\ tag_files' = [tag_files EXCEPT ![Subfile] = @ \o NewCells]
  /\ LET offset == IF NewCells = <<>> THEN 0 ELSE Position
     IN  CASE Elem.type = "NODE" ->
                /\ nodes' = [nodes EXCEPT ![Elem.id].tags = offset]
                /\ NextElement /\ UNCHANGED <<ways, relations>>
           [] Elem.type = "WAY" ->
                /\ ways' = [ways EXCEPT ![Elem.id].tags = offset]
                /\ NextElement /\ UNCHANGED <<nodes, relations>>
           [] Elem.type = "RELATION" ->
                /\ relations' = [relations EXCEPT ![Elem.id].tags = offset]
                /\ Continue("next") /\ UNCHANGED <<nodes, ways>>
  /\ UNCHANGED <<counters, node_refs, rel_members, cell_ways, head_relation, reader>>

(* Only where a list begins is tested, and against a position behind the   *)
(* file: this list goes on past the subfile.  The part that fits is kept;  *)
(* the rest ends the process, or is lost with the last page, or goes into  *)
(* the file that happens to be mapped behind, and nothing is said of what  *)
(* follows then.                                                           *)
OverrunTags ==
  /\ pc = "tags" /\ ~TagsFit
  /\ tag_files' = [tag_files EXCEPT ![Subfile] =
                     SubSeq(@ \o NewCells, 1, SubfileSize)]
  /\ \E outcome \in {"dead", "overrun"} : Continue(outcome)
  /\ UNCHANGED <<counters, nodes, ways, relations, cell_ways, head_relation,
                 node_refs, rel_members, reader>>

\* Mutant of SetRelationNext: next is read after the head was set.
SetRelationNextToItself ==
  /\ pc = "next"
  /\ relations' = [relations EXCEPT ![Elem.id].next =
                     IF get_grid_cell_for_relation(Elem.id) = NoCell THEN 0 ELSE Elem.id]
  /\ IF get_grid_cell_for_relation(Elem.id) = NoCell
     THEN NextElement ELSE Continue("head")
  /\ UNCHANGED <<counters, nodes, ways, cell_ways, head_relation, lists, reader>>

\* A relation without a cell keeps next = 0 and is in no list.
SetRelationNext ==
  /\ pc = "next"
  /\ LET cell == get_grid_cell_for_relation(Elem.id)
     IN  IF cell = NoCell
         THEN /\ relations' = [relations EXCEPT ![Elem.id].next = 0]
              /\ NextElement
         ELSE /\ relations' = [relations EXCEPT ![Elem.id].next = head_relation[cell]]
              /\ Continue("head")
  /\ UNCHANGED <<counters, nodes, ways, cell_ways, head_relation, lists, reader>>

SetRelationHead ==
  /\ pc = "head"
  /\ head_relation' =
       [head_relation EXCEPT ![get_grid_cell_for_relation(Elem.id)] = Elem.id]
  /\ NextElement
  /\ UNCHANGED <<counters, nodes, ways, relations, cell_ways, lists, reader>>

Die ==
  /\ pc = "element" /\ at =< Len(input) /\ Refuses(Elem)
  /\ Continue("dead")
  /\ UNCHANGED <<counters, files, reader>>

FinishLoad ==
  /\ pc = "element" /\ at > Len(input)
  /\ Continue("loaded")
  /\ UNCHANGED <<counters, files, reader>>

Stopped == pc \in {"loaded", "dead"}

Overrun == pc = "overrun" /\ UNCHANGED vars

Kill ==
  /\ ~Stopped /\ pc # "overrun"
  /\ Continue("dead")
  /\ UNCHANGED <<counters, files, reader>>

Load ==
  \/ HandleNode \/ HandleWay \/ CopyRef \/ EndRefs \/ IndexWay \/ ReadNoRef
  \/ HandleRelation \/ CopyMember \/ EndMembers \/ WriteTags \/ OverrunTags
  \/ SetRelationNext \/ SetRelationHead \/ Die \/ FinishLoad

-----------------------------------------------------------------------------
(* The extraction.                                                         *)

Stages == <<"NODE", "WAY", "RELATION", "done">>
StageAfter(s) == CHOOSE t \in ToSet(Stages) :
                   \E i \in 1 .. 3 : Stages[i] = s /\ Stages[i + 1] = t

\* Mutant of BoxCells: < in the place of <=.
BoxCellsOpen(b) ==
  (bin(b.min.x) .. bin(b.max.x) - 1) \X (bin(b.min.y) .. bin(b.max.y) - 1)

\* Mutant of BoxCells: x and y are exchanged.
BoxCellsCrossed(b) ==
  (bin(b.min.y) .. bin(b.max.y)) \X (bin(b.min.x) .. bin(b.max.x))

\* for x from min_xbin to max_xbin, for y from min_ybin to max_ybin
BoxCells(b) ==
  (bin(b.min.x) .. bin(b.max.x)) \X (bin(b.min.y) .. bin(b.max.y))
FirstCell ==
  CHOOSE c \in cells : \A d \in cells : c[1] < d[1] \/ (c[1] = d[1] /\ c[2] =< d[2])

\* A list of references ends with the first negative one.
Ended(offset)  == \E i \in offset .. MAX_REF_INDEX : node_refs[i] < 0
RefsAt(offset) ==
  LET end == Min({i \in offset .. MAX_REF_INDEX : node_refs[i] < 0})
  IN  [i \in 1 .. end - offset + 1 |->
         IF offset + i - 1 = end THEN -node_refs[end] ELSE node_refs[offset + i - 1]]

\* All that is stored from offset on, for a list that does not end there.
RefsOnward(offset) ==
  [i \in 1 .. MAX_REF_INDEX - offset + 1 |-> node_refs[offset + i - 1]]

MembersAt(offset) ==
  LET end == Min({i \in offset .. MAX_REL_MEMBERS - 1 : rel_members[i].id < 0})
  IN  [i \in 1 .. end - offset + 1 |->
         [role |-> decode_role(rel_members[offset + i - 1].role),
          type |-> rel_members[offset + i - 1].element_type,
          id   |-> IF offset + i - 1 = end THEN -rel_members[end].id
                   ELSE rel_members[offset + i - 1].id]]

NodeOut(n) == [type |-> "NODE", id |-> n, coord |-> nodes[n].coord,
               tags |-> TagsAt(n, "NODE", nodes[n].tags)]
WayOut(w)  == [type |-> "WAY", id |-> w, refs |-> RefsAt(ways[w].node_ref_offset),
               tags |-> TagsAt(w, "WAY", ways[w].tags)]
RelOut(r)  == [type |-> "RELATION", id |-> r,
               members |-> MembersAt(relations[r].member_offset),
               tags |-> TagsAt(r, "RELATION", relations[r].tags)]

\* Also beside one that never ends: their locks are shared.
StartExtract(b) ==
  /\ Stopped /\ stage \in {"none", "done", "crashed", "endless"}
  /\ box' = b /\ stage' = "NODE" /\ cells' = BoxCells(b)
  /\ ways_left' = {} /\ relation_id' = 0 /\ seen' = {} /\ out' = <<>>
  /\ UNCHANGED <<loader, counters, files>>

CellDone == ways_left = {} /\ relation_id = 0

EnterCell ==
  /\ stage \in {"NODE", "WAY", "RELATION"} /\ CellDone /\ cells # {}
  /\ cells' = cells \ {FirstCell}
  /\ IF stage = "RELATION"
     THEN relation_id' = head_relation[FirstCell] /\ UNCHANGED ways_left
     ELSE ways_left' = cell_ways[FirstCell] /\ UNCHANGED relation_id
  /\ UNCHANGED <<loader, counters, files, box, stage, seen, out>>

\* Mutant of WriteNode: the answer of the ID tracker is not looked at.
WriteNodeAgain(s, n) == [seen |-> s.seen \cup {n}, out |-> Append(s.out, NodeOut(n))]

\* A node is flagged, and written if it was not flagged before.
WriteNode(s, n) ==
  IF n \in s.seen THEN s
  ELSE [seen |-> s.seen \cup {n}, out |-> Append(s.out, NodeOut(n))]

\* Mutant of WriteNodes: continue passes over the step to the next reference.
WriteNodesStuck(w) ==
  /\ stage = "NODE" /\ w \in ways_left /\ Ended(ways[w].node_ref_offset)
  /\ LET refs    == RefsAt(ways[w].node_ref_offset)
         written == FoldLeft(WriteNode, [seen |-> seen, out |-> out], refs)
     IN  /\ seen' = written.seen /\ out' = written.out
         /\ ways_left' = IF Cardinality(seen' \ seen) = Len(refs) THEN ways_left \ {w}
                         ELSE ways_left
  /\ UNCHANGED <<loader, counters, files, box, stage, cells, relation_id>>

WriteNodes(w) ==
  /\ stage = "NODE" /\ w \in ways_left /\ Ended(ways[w].node_ref_offset)
  /\ LET written == FoldLeft(WriteNode, [seen |-> seen, out |-> out],
                             RefsAt(ways[w].node_ref_offset))
     IN  seen' = written.seen /\ out' = written.out
  /\ ways_left' = ways_left \ {w}
  /\ UNCHANGED <<loader, counters, files, box, stage, cells, relation_id>>

WriteWay(w) ==
  /\ stage = "WAY" /\ w \in ways_left /\ Ended(ways[w].node_ref_offset)
  /\ out' = Append(out, WayOut(w))
  /\ ways_left' = ways_left \ {w}
  /\ UNCHANGED <<loader, counters, files, box, stage, cells, relation_id, seen>>

(* The node stage counts its index in 32 bits: a list that does not end    *)
(* goes on at index 0, up to the first reference below zero there, and its *)
(* way counts as done; or round and round, when none is left in the file.  *)
WalkRound(w) ==
  /\ stage = "NODE" /\ w \in ways_left
  /\ ~Ended(ways[w].node_ref_offset) /\ Ended(0)
  /\ LET written == FoldLeft(WriteNode, [seen |-> seen, out |-> out],
                             RefsOnward(ways[w].node_ref_offset) \o RefsAt(0))
     IN  seen' = written.seen /\ out' = written.out
  /\ ways_left' = ways_left \ {w}
  /\ UNCHANGED <<loader, counters, files, box, stage, cells, relation_id>>

WalkForever(w) ==
  /\ stage = "NODE" /\ w \in ways_left
  /\ ~Ended(ways[w].node_ref_offset) /\ ~Ended(0)
  /\ LET written == FoldLeft(WriteNode, [seen |-> seen, out |-> out],
                             RefsOnward(ways[w].node_ref_offset) \o RefsOnward(0))
     IN  seen' = written.seen /\ out' = written.out
  /\ stage' = "endless"
  /\ UNCHANGED <<loader, counters, files, box, cells, ways_left, relation_id>>

\* The way stage walks a pointer, out of the mapped file.
ReadPastEnd(w) ==
  /\ stage = "WAY" /\ w \in ways_left
  /\ ~Ended(ways[w].node_ref_offset)
  /\ stage' = "crashed"
  /\ UNCHANGED <<loader, counters, files, box, scan>>

WriteRelation ==
  /\ stage = "RELATION" /\ relation_id > 0
  /\ out' = Append(out, RelOut(relation_id))
  /\ relation_id' = relations[relation_id].next
  /\ UNCHANGED <<loader, counters, files, box, stage, cells, ways_left, seen>>

EndStage ==
  /\ stage \in {"NODE", "WAY", "RELATION"} /\ CellDone /\ cells = {}
  /\ stage' = StageAfter(stage)
  /\ cells' = IF stage = "RELATION" THEN {} ELSE BoxCells(box)
  /\ UNCHANGED <<loader, counters, files, box, ways_left, relation_id, seen, out>>

Extract ==
  \/ EnterCell \/ WriteRelation \/ EndStage
  \/ \E w \in WayIds : \/ WriteNodes(w) \/ WalkRound(w) \/ WalkForever(w)
                        \/ WriteWay(w) \/ ReadPastEnd(w)

Next == Load \/ Overrun \/ Kill \/ Extract \/ \E b \in Boxes : StartExtract(b)

Spec == Init /\ [][Next]_vars

\* A running extraction goes on; nobody has to kill, load or ask for one.
FairSpec == Spec /\ WF_vars(Extract)

-----------------------------------------------------------------------------
(* Properties.                                                             *)

LoadSteps == {"element", "refs", "index", "members", "tags", "next", "head",
              "loaded", "dead", "overrun"}

TypeOK ==
  /\ input \in Inputs /\ at \in 1 .. Len(input) + 1 /\ pc \in LoadSteps
  /\ n_node_refs \in RefIndex /\ n_rel_members \in 1 .. MAX_REL_MEMBERS - 1
  /\ nodes \in [NodeIds -> [coord : [x : Int, y : Int], tags : 0 .. MAX_TAG_POSITION]]
  /\ ways \in [WayIds -> [node_ref_offset : RefIndex, tags : 0 .. MAX_TAG_POSITION]]
  /\ relations \in [RelIds -> [member_offset : 0 .. MAX_REL_MEMBERS - 1,
                               tags : 0 .. MAX_TAG_POSITION, next : RelIds]]
  /\ cell_ways \in [Cells -> SUBSET WayIds]
  /\ head_relation \in [Cells -> RelIds]
  /\ cells \subseteq Cells /\ ways_left \subseteq WayIds /\ relation_id \in RelIds

\* What the input says, whatever the loader made of it.
AddDelta(id, delta) == id + delta
Decoded(deltas) ==
  [i \in 1 .. Len(deltas) |-> FoldLeft(AddDelta, 0, SubSeq(deltas, 1, i))]
Refs(e)    == Decoded(e.refs)
Members(e) ==
  LET ids == Decoded([i \in 1 .. Len(e.members) |-> e.members[i].id])
  IN  [i \in 1 .. Len(e.members) |->
         [role |-> e.members[i].role, type |-> e.members[i].type, id |-> ids[i]]]
Given(type)    == {e \in ToSet(input) : e.type = type}
\* A node that was not in the input reads as zeros.
CoordOf(n) == IF \E e \in Given("NODE") : e.id = n
            THEN (CHOOSE e \in Given("NODE") : e.id = n).coord ELSE Origin
HasCell(e) == Len(e.members) > 1 /\ e.members[1].type # "RELATION"

\* The relation k links down the list of a cell, 0 past its end.
Link(c, k) ==
  LET link[j \in 0 .. k] ==
        IF j = 0 THEN head_relation[c] ELSE relations[link[j - 1]].next
  IN  link[k]
LinkedAt(r)  == {p \in Cells \X (0 .. MAX_REL_ID) : Link(p[1], p[2]) = r}
VisibleWays  == UNION {cell_ways[c] : c \in Cells}
VisibleRels  == {r \in RelIds \ {0} : LinkedAt(r) # {}}

\* A string of the tables comes back as one of them that it is, or that it begins.
SameTag(given, read) == Found(read.key, given.key) /\ Found(read.val, given.val)
SameTags(given, read) ==
  Len(read) = Len(given) /\ \A i \in 1 .. Len(given) : SameTag(given[i], read[i])
SameRole(given, read) ==
  \/ read \in ToSet(RelationRoles) /\ Found(read, given)
  \/ read = OtherRole /\ \A name \in ToSet(RelationRoles) : ~Found(name, given)
SameMembers(given, read) ==
  /\ Len(read) = Len(given)
  /\ \A i \in 1 .. Len(given) :
       /\ read[i].type = given[i].type /\ read[i].id = given[i].id
       /\ SameRole(given[i].role, read[i].role)

StoredNode(e) == nodes[e.id].coord = e.coord
StoredWay(e)  ==
  /\ e.id \in cell_ways[get_grid_cell_for_coord(CoordOf(Refs(e)[1]))]
  /\ Cardinality({c \in Cells : e.id \in cell_ways[c]}) = 1
  /\ Ended(ways[e.id].node_ref_offset)
  /\ RefsAt(ways[e.id].node_ref_offset) = Refs(e)
StoredRel(e)  ==
  /\ Cardinality(LinkedAt(e.id)) = 1
  /\ SameMembers(Members(e), MembersAt(relations[e.id].member_offset))
StoredTags(e) ==
  SameTags(Kept(e.tags),
           CASE e.type = "NODE"     -> NodeOut(e.id).tags
             [] e.type = "WAY"      -> TagsAt(e.id, "WAY", ways[e.id].tags)
             [] e.type = "RELATION" -> TagsAt(e.id, "RELATION", relations[e.id].tags))

Prefix(n, type) == {input[i] : i \in {j \in 1 .. n : input[j].type = type}}
IdsOf(S)        == {e.id : e \in S}

(* Wherever the loader was stopped, a reader sees a prefix of the input:   *)
(* the ways and relations it can reach are those of the first n elements,  *)
(* each in one place, with exactly the node references or members of the   *)
(* input and with their tags.  The last way alone may miss its tags: it is *)
(* indexed before they are stored (vex.c:510-532).  Left out are loads     *)
(* that wrote past a tag file, and inputs with a way without nodes, which  *)
(* takes the end of the list before it away.                               *)
PrefixStored ==
  pc # "overrun" /\ (\A e \in Given("WAY") : e.refs # <<>>) =>
  \E n \in 0 .. Len(input) :
    /\ VisibleWays = IdsOf(Prefix(n, "WAY"))
    /\ VisibleRels = IdsOf({e \in Prefix(n, "RELATION") : HasCell(e)})
    /\ \A e \in Prefix(n, "NODE") : StoredNode(e)
    /\ \A e \in Prefix(n, "WAY") : StoredWay(e)
    /\ \A e \in Prefix(n, "RELATION") : HasCell(e) => StoredRel(e)
    /\ \A i \in 1 .. n :
         \/ StoredTags(input[i])
         \/ i = n /\ input[n].type = "WAY" /\ ways[input[n].id].tags = 0
         \/ input[i].type = "RELATION" /\ ~HasCell(input[i])
    /\ pc = "loaded" => n = Len(input)

\* Every reference of a way written is a node written before it.
Closed ==
  \A i \in 1 .. Len(out) :
    out[i].type = "WAY" =>
      \A k \in 1 .. Len(out[i].refs) :
        \E j \in 1 .. i - 1 : out[j].type = "NODE" /\ out[j].id = out[i].refs[k]

(* The output closes over the references of its ways: whenever a way is    *)
(* written, each of its nodes was written before, and nothing is written   *)
(* twice, although ways share nodes and lists repeat them (vex.c:922-944). *)
ClosedOnce ==
  /\ Closed
  /\ \A i, j \in 1 .. Len(out) :
       out[i].type = out[j].type /\ out[i].id = out[j].id => i = j

Inside(p, b) == /\ b.min.x =< p.x /\ p.x =< b.max.x
                /\ b.min.y =< p.y /\ p.y =< b.max.y
\* The box grown to the cells it touches.
Near(p, b) ==
  Inside(p, [min |-> [x |-> b.min.x - CELL_WIDTH + 1, y |-> b.min.y - CELL_WIDTH + 1],
             max |-> [x |-> b.max.x + CELL_WIDTH - 1, y |-> b.max.y + CELL_WIDTH - 1]])
Written(type) == {out[i].id : i \in {j \in 1 .. Len(out) : out[j].type = type}}
FirstNode(e)  == IF e.type = "WAY" THEN Refs(e)[1] ELSE Members(e)[1].id
\* What is filed by where it begins: ways, and relations of several members, at a node.
Selectable == Given("WAY") \cup {e \in Given("RELATION") :
                                   HasCell(e) /\ e.members[1].type = "NODE"}

(* "perform bounding-box extracts" (README.md:4): the extract of a         *)
(* complete load has every way whose first node is inside the box, and     *)
(* every relation of several members whose first member is such a node.    *)
(* It says nothing of other relations, which are filed by something else   *)
(* or nowhere (vex.c:304-318), nor of nodes: they come with ways only.     *)
BoxComplete ==
  pc = "loaded" /\ stage = "done" =>
    \A e \in Selectable :
      Inside(CoordOf(FirstNode(e)), box) => e.id \in Written(e.type)

(* No way and no such relation begins farther away than the cells the box  *)
(* touches: coordinates on the two sides of zero, whose bins are at        *)
(* opposite ends of the grid, do not bring in each other's cells           *)
(* (vex.c:292-294, 851).  The other nodes of a way lie where they may.     *)
BoxTight ==
  \A e \in Selectable :
    e.id \in Written(e.type) => Near(CoordOf(FirstNode(e)), box)

(* The relations and ways of a complete load come back as they were given: *)
(* the references and members undone of their delta coding, the tags that  *)
(* write_tags keeps, the coordinates, and zeros for a node never loaded.   *)
(* A key, value or role may come back as a longer string of the tables     *)
(* that it begins (tags.c:238, 321), and as nothing else.                  *)
OutputGiven ==
  pc = "loaded" =>
    \A i \in 1 .. Len(out) :
      LET o == out[i]
          g == {e \in Given(o.type) : e.id = o.id}
      IN  \/ o.type = "NODE" /\ g = {} /\ o.coord = Origin /\ o.tags = <<>>
          \/ \E e \in g :
               /\ SameTags(Kept(e.tags), o.tags)
               /\ o.type = "NODE" => o.coord = e.coord
               /\ o.type = "WAY" => o.refs = Refs(e)
               /\ o.type = "RELATION" => SameMembers(Members(e), o.members)

EachEnds == \A w \in VisibleWays : Ended(ways[w].node_ref_offset)

(* An extraction ends: no chain of relations goes round, and no list of    *)
(* references does unless the files hold no end of a list at all, what the *)
(* loader leaves after a way without nodes that follows the only whole one *)
(* (RefListsEnd).  It ends well when each way has its list (vex.c:886-954).*)
ExtractionEnds ==
  /\ (stage = "NODE" /\ (Ended(0) \/ VisibleWays = {})) ~> (stage \in {"done", "crashed"})
  /\ (stage = "NODE" /\ EachEnds) ~> (stage = "done")

-----------------------------------------------------------------------------
(* What the sources say and the code does not do.                          *)

(* "Return the GridCell containing the first member of the given relation" *)
(* (vex.c:301): a relation whose first member is a loaded way is linked    *)
(* from the cell that way is indexed in.                                   *)
RelationByFirstMember ==
  \A c \in Cells : \A e \in Given("RELATION") :
    \A w \in cell_ways[c] :
      /\ e.id \in VisibleRels
      /\ Members(e)[1].type = "WAY" /\ Members(e)[1].id = w
      => \E k \in 0 .. MAX_REL_ID : Link(c, k) = e.id

(* "a negative node ID is used to signal the end of the list"              *)
(* (vex.c:497-498): every list a stopped loader indexed ends, and so does  *)
(* every extraction that reads them.                                       *)
RefListsEnd == (stage = "NODE") ~> (stage \in {"done", "crashed"})
=============================================================================
