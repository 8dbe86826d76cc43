------------------------- MODULE VexDatabaseProofs --------------------------
(***************************************************************************)
(* What one database promises, for every input, box and limit: the types,  *)
(* that an extract closes over the references of its ways and has nothing  *)
(* twice, and that its ways, and its relations of several members whose    *)
(* first is a node, are those that begin in the box or close to it; what   *)
(* the files hold of each element, so that an extract gives back what was  *)
(* loaded, and that a load that stops anywhere leaves a prefix of its      *)
(* input to be read.                                                       *)
(***************************************************************************)
EXTENDS VexDatabase, FiniteSetTheorems, SequenceTheorems, TLAPS

Writing == INSTANCE SeqFold WITH op <- WriteNode
Keeping == INSTANCE SeqFold WITH op <- Keep
Adding  == INSTANCE SeqFold WITH op <- AddTag
Codes   == INSTANCE SeqFold WITH op <- AddCodes

-----------------------------------------------------------------------------
(* The types of all variables.                                             *)

Elements == NodeElems \cup WayElems \cup RelElems
NodeRec == [coord : [x : Int, y : Int], tags : 0 .. MAX_TAG_POSITION]
WayRec  == [node_ref_offset : RefIndex, tags : 0 .. MAX_TAG_POSITION]
RelRec  == [member_offset : 0 .. MAX_REL_MEMBERS - 1, tags : 0 .. MAX_TAG_POSITION,
            next : RelIds]
MemberRec == [role : Nat, element_type : {"NODE", "WAY", "RELATION"}, id : Int]
Cell == Int \cup STRING

LoaderType ==
  /\ input \in Inputs /\ at \in 1 .. Len(input) + 1 /\ pc \in LoadSteps
  /\ item \in Nat \ {0} /\ ref_id \in Int
  /\ n_node_refs \in RefIndex /\ n_rel_members \in 1 .. MAX_REL_MEMBERS - 1
  /\ ways_loaded \in Nat
FilesType ==
  /\ nodes \in [NodeIds -> NodeRec]
  /\ ways \in [WayIds -> WayRec]
  /\ node_refs \in [RefIndex -> Int]
  /\ relations \in [RelIds -> RelRec]
  /\ rel_members \in [0 .. MAX_REL_MEMBERS - 1 -> MemberRec]
  /\ cell_ways \in [Cells -> SUBSET WayIds]
  /\ head_relation \in [Cells -> RelIds]
  /\ tag_files \in [0 .. MAX_SUBFILES - 1 -> Seq(Cell)]
ReaderType ==
  /\ box \in [min : Points, max : Points]
  /\ stage \in {"none", "NODE", "WAY", "RELATION", "done", "crashed", "endless"}
  /\ cells \subseteq Cells /\ ways_left \subseteq WayIds /\ relation_id \in RelIds
  /\ \E T : out \in Seq(T)

\* An element whose id is in the files.
InFile(e) == \/ e.type = "NODE" /\ e.id \in NodeIds
             \/ e.type = "WAY" /\ e.id \in WayIds
             \/ e.type = "RELATION" /\ e.id \in RelIds /\ e.members # <<>>

\* A member from which a cell can be taken.
FirstInFile(m) ==
  m.id >= 0 => /\ m.element_type = "NODE" => m.id \in NodeIds
               /\ m.element_type = "WAY" => m.id \in WayIds

(* The element being handled is one that its handler took, and the first   *)
(* member of its list is what the input gave.                              *)
Busy == {"refs", "index", "members", "tags", "next", "head"}
Current ==
  /\ pc \in Busy => at \in 1 .. Len(input) /\ InFile(Elem)
  /\ pc \in {"refs", "index"} => Elem.type = "WAY"
  /\ pc \in {"members", "next", "head"} => Elem.type = "RELATION"
  /\ pc = "members" =>
       /\ item =< Len(Elem.members) + 1
       /\ item = 1 => ref_id = 0
       /\ n_rel_members = relations[Elem.id].member_offset + item - 1
       /\ n_rel_members + Len(Elem.members) + 1 - item < MAX_REL_MEMBERS
  /\ pc \in Busy /\ Elem.type = "RELATION" /\ (pc = "members" => item > 1) =>
       FirstInFile(rel_members[relations[Elem.id].member_offset])
  /\ pc = "members" /\ item > 1 =>
       rel_members[relations[Elem.id].member_offset].id >= 0

IType == LoaderType /\ FilesType /\ ReaderType /\ Current

-----------------------------------------------------------------------------
(* Lemmas about the operators.                                             *)

LEMMA FoldsAreFolds ==
  /\ \A s, list : FoldLeft(WriteNode, s, list) = Writing!Fold(s, list)
  /\ \A s, list : FoldLeft(Keep, s, list) = Keeping!Fold(s, list)
  /\ \A s, list : FoldLeft(AddTag, s, list) = Adding!Fold(s, list)
  /\ \A s, list : FoldLeft(AddCodes, s, list) = Codes!Fold(s, list)
<1>1. \A s, list : FoldLeft(WriteNode, s, list) = Writing!Fold(s, list)
  BY DEF Writing!Fold, Writing!Folds, FoldLeft, MapThenFoldSet,
         Max, Writing!Max
<1>2. \A s, list : FoldLeft(Keep, s, list) = Keeping!Fold(s, list)
  BY DEF Keeping!Fold, Keeping!Folds, FoldLeft, MapThenFoldSet,
         Max, Keeping!Max
<1>3. \A s, list : FoldLeft(AddTag, s, list) = Adding!Fold(s, list)
  BY DEF Adding!Fold, Adding!Folds, FoldLeft, MapThenFoldSet,
         Max, Adding!Max
<1>4. \A s, list : FoldLeft(AddCodes, s, list) = Codes!Fold(s, list)
  BY DEF Codes!Fold, Codes!Folds, FoldLeft, MapThenFoldSet,
         Max, Codes!Max
<1>5. QED
  BY <1>1, <1>2, <1>3, <1>4

\* A set of naturals that is not empty has a smallest member.
LEMMA MinIn ==
  ASSUME NEW S, S \subseteq Nat, S # {}
  PROVE  Min(S) \in S /\ \A k \in S : Min(S) =< k
<1> DEFINE N == {n \in Nat : (\E k \in S : k =< n) => \E m \in S : \A k \in S : m =< k}
<1>1. 0 \in N
  <2>1. ASSUME NEW m \in S, m =< 0  PROVE \A k \in S : m =< k
    BY <2>1
  <2>2. QED
    BY <2>1
<1>2. ASSUME NEW n \in Nat, n \in N  PROVE n + 1 \in N
  <2>1. ASSUME NEW m \in S, m =< n + 1, ~ \E k \in S : k =< n
        PROVE  \A k \in S : m =< k
    BY <2>1
  <2>2. QED
    BY <1>2, <2>1
<1>3. Nat \subseteq N
  <2> HIDE DEF N
  <2>1. QED
    BY <1>1, <1>2, Keeping!InductiveSet
<1>4. \E m \in S : \A k \in S : m =< k
  <2>1. PICK n \in S : TRUE
    OBVIOUS
  <2>2. n \in N /\ n =< n
    BY <1>3
  <2>3. QED
    BY <2>2
<1>5. QED
  BY <1>4 DEF Min

\* Division by a positive number keeps the order, and is kept by it up to one bin.
LEMMA DivOrder ==
  ASSUME NEW c \in Nat \ {0}, NEW x \in Nat, NEW y \in Nat
  PROVE  /\ x =< y => x \div c =< y \div c
         /\ x \div c =< y \div c => x < y + c
<1> DEFINE p == x \div c
           q == y \div c
<1>1. /\ p \in Int /\ c * p =< x /\ x < c * p + c
      /\ q \in Int /\ c * q =< y /\ y < c * q + c
  OBVIOUS
<1> HIDE DEF p, q
<1>2. ASSUME x =< y, q + 1 =< p  PROVE FALSE
  <2>1. c * (q + 1) =< c * p
    BY <1>1, <1>2
  <2>2. c * (q + 1) = c * q + c
    BY <1>1
  <2>3. QED
    BY <1>1, <1>2, <2>1, <2>2
<1>3. ASSUME p =< q  PROVE x < y + c
  <2>1. c * p =< c * q
    BY <1>1, <1>3
  <2>2. QED
    BY <1>1, <2>1
<1>4. QED
  BY <1>1, <1>2, <1>3 DEF p, q

\* The grid has as many columns west of zero as east of it.
LEMMA HalfGrid ==
  /\ COORD_WIDTH \div 2 \in Nat /\ COORD_WIDTH = 2 * (COORD_WIDTH \div 2)
  /\ \A x \in Nat : x < COORD_WIDTH => x \div CELL_WIDTH < COORD_WIDTH \div CELL_WIDTH
  /\ \A x, y \in Nat : x < COORD_WIDTH \div 2 /\ y >= COORD_WIDTH \div 2 =>
       x \div CELL_WIDTH < y \div CELL_WIDTH
<1> DEFINE C == CELL_WIDTH
           W == COORD_WIDTH
           k == W \div (2 * C)
<1>1. k \in Nat /\ C \in Nat \ {0} /\ W = (2 * C) * k
  <2>1. 2 * C \in Nat \ {0} /\ W \in Nat /\ W % (2 * C) = 0
    BY WidthAssumption
  <2>2. QED
    BY <2>1, WidthAssumption
<1> HIDE DEF k, C, W
<1>2. C * k \in Nat /\ (2 * C) * k = 2 * (C * k) /\ C * (2 * k) = 2 * (C * k)
  BY <1>1
<1>3. W = 2 * (C * k) /\ W \div 2 = C * k
  BY <1>1, <1>2
<1>4. ASSUME NEW x \in Nat, NEW m \in Nat
      PROVE  (x < C * m => x \div C < m) /\ (x >= C * m => x \div C >= m)
  <2> DEFINE p == x \div C
  <2>1. p \in Int /\ C * p =< x /\ x < C * p + C
    BY <1>1
  <2> HIDE DEF p
  <2>2. ASSUME x < C * m, p >= m  PROVE FALSE
    <3>1. C * p >= C * m
      BY <1>1, <2>1, <2>2
    <3>2. C * p \in Int /\ C * m \in Int
      BY <1>1, <2>1
    <3>3. QED
      BY <2>1, <2>2, <3>1, <3>2
  <2>3. ASSUME x >= C * m, p + 1 =< m  PROVE FALSE
    <3>1. C * (p + 1) =< C * m
      BY <1>1, <2>1, <2>3
    <3>2. C * (p + 1) = C * p + C /\ C * p \in Int /\ C * m \in Int
      BY <1>1, <2>1
    <3>3. QED
      BY <1>1, <2>1, <2>3, <3>1, <3>2
  <2>4. QED
    BY <2>1, <2>2, <2>3 DEF p
<1>5. W \div C = 2 * k
  <2>1. 2 * k \in Nat /\ W \in Nat /\ W >= C * (2 * k)
    BY <1>1, <1>2, <1>3
  <2>2. W \div C >= 2 * k
    BY <1>4, <2>1
  <2>3. W < C * (2 * k + 1)
    <3>1. C * (2 * k + 1) = C * (2 * k) + C
      BY <1>1
    <3>2. QED
      BY <1>1, <1>2, <1>3, <3>1
  <2>4. W \div C < 2 * k + 1
    BY <1>1, <1>4, <2>1, <2>3
  <2>5. W \div C \in Int
    BY <1>1, <2>1
  <2>6. QED
    BY <1>1, <2>2, <2>4, <2>5
<1>6. \A x \in Nat : x < W => x \div C < W \div C
  <2>1. W = C * (2 * k) /\ 2 * k \in Nat
    BY <1>1, <1>2, <1>3
  <2>2. QED
    BY <1>4, <1>5, <2>1
<1>7. \A x, y \in Nat : x < W \div 2 /\ y >= W \div 2 => x \div C < y \div C
  <2>1. \A x \in Nat : x \div C \in Int
    BY <1>1
  <2>2. \A x \in Nat : x < W \div 2 => x \div C < k
    BY <1>1, <1>3, <1>4
  <2>3. \A y \in Nat : y >= W \div 2 => y \div C >= k
    BY <1>1, <1>3, <1>4
  <2>4. ASSUME NEW x \in Nat, NEW y \in Nat, x < W \div 2, y >= W \div 2
        PROVE  x \div C < y \div C
    <3> DEFINE p == x \div C
               q == y \div C
    <3>1. p \in Int /\ q \in Int /\ p < k /\ q >= k
      BY <2>1, <2>2, <2>3, <2>4
    <3> HIDE DEF p, q
    <3>2. p < q
      BY <1>1, <3>1
    <3>3. QED
      BY <3>2 DEF p, q
  <2>5. QED
    BY <2>4
<1>8. QED
  BY <1>2, <1>3, <1>6, <1>7 DEF C, W

LEMMA BinType ==
  ASSUME NEW x \in Int
  PROVE  bin(x) \in Bins
<1>1. x % COORD_WIDTH \in Nat /\ x % COORD_WIDTH < COORD_WIDTH
  BY WidthAssumption
<1>2. COORD_WIDTH \div CELL_WIDTH \in Int
  BY WidthAssumption
<1>3. (x % COORD_WIDTH) \div CELL_WIDTH \in Nat
  BY <1>1, WidthAssumption
<1>4. QED
  BY <1>1, <1>2, <1>3, HalfGrid DEF bin, Bins

LEMMA CellType ==
  ASSUME NEW coord, coord.x \in Int, coord.y \in Int
  PROVE  get_grid_cell_for_coord(coord) \in Cells
BY BinType DEF get_grid_cell_for_coord, Cells

LEMMA InputType ==
  ASSUME input \in Inputs
  PROVE  /\ input \in Seq(Elements)
         /\ \A i \in 1 .. Len(input) : input[i] \in Elements
<1>1. input \in Seq(Elements)
  BY InputAssumption DEF Elements
<1>2. QED
  BY <1>1, ElementOfSeq

LEMMA SubfileType ==
  ASSUME NEW e \in Elements
  PROVE  subfile_index_for_id(e.id, e.type) \in Nat
<1>1. e.id \in Nat /\ e.type \in {"NODE", "WAY", "RELATION"}
  BY DEF Elements, NodeElems, WayElems, RelElems
<1>2. CASE e.type = "NODE"
  <2>1. scaled_id(e.id, e.type) = e.id \div NODE_IDS_PER_WAY_ID
    BY <1>2, Zenon DEF scaled_id
  <2>2. QED
    BY <1>1, <2>1, LimitAssumption DEF subfile_index_for_id
<1>3. CASE e.type = "WAY"
  <2>1. scaled_id(e.id, e.type) = e.id
    BY <1>3 DEF scaled_id
  <2>2. QED
    BY <1>1, <2>1, LimitAssumption DEF subfile_index_for_id
<1>4. CASE e.type = "RELATION"
  <2>1. scaled_id(e.id, e.type) = e.id * WAY_IDS_PER_REL_ID
    BY <1>4 DEF scaled_id
  <2>2. e.id * WAY_IDS_PER_REL_ID \in Nat
    BY <1>1, LimitAssumption
  <2>3. QED
    BY <2>1, <2>2, LimitAssumption DEF subfile_index_for_id
<1>5. QED
  BY <1>1, <1>2, <1>3, <1>4

LEMMA KeptType ==
  ASSUME NEW tags \in TagLists
  PROVE  Kept(tags) \in TagLists /\ Kept(<<>>) = <<>>
<1> DEFINE Tag == [key : STRING, val : STRING]
<1>2. <<>> \in Seq(Tag) /\ tags \in Seq(Tag)
  BY DEF TagLists
<1> HIDE DEF Tag
<1>1. ASSUME NEW kept \in Seq(Tag), NEW tag \in Tag  PROVE Keep(kept, tag) \in Seq(Tag)
  <2>1. Append(kept, tag) \in Seq(Tag)
    BY AppendProperties
  <2>2. QED
    BY <2>1 DEF Keep
<1>3. Keeping!Fold(<<>>, tags) \in Seq(Tag)
  BY <1>1, <1>2, Keeping!FoldType
<1>4. Keeping!Fold(<<>>, <<>>) = <<>>
  BY Keeping!FoldEmpty
<1>5. QED
  BY <1>3, <1>4, FoldsAreFolds DEF Kept, Tag, TagLists

LEMMA EncodeTagType ==
  ASSUME NEW tag
  PROVE  encode_tag(tag) \in Int
<1> DEFINE found == {t \in 1 .. Len(KeyTables) : Found(KeyTables[t].key, tag.key)}
           vals  == IF found = {} THEN {} ELSE Matches(KeyTables[Min(found)].vals, tag.val)
           free  == Matches(FreeTextKeys, tag.key)
<1>1. vals \subseteq Nat /\ free \subseteq Nat
  BY DEF Matches
<1>2. CASE vals # {}
  <2>1. Min(vals) \in Nat
    BY <1>1, <1>2, MinIn
  <2>2. found # {} /\ found \subseteq Nat
    BY <1>2
  <2>3. Min(found) \in found
    BY <2>2, MinIn
  <2>4. CodesBefore(Min(found)) \in Nat
    <3> DEFINE Table == [key : STRING, vals : Seq(STRING)]
               list == SubSeq(KeyTables, 1, Min(found) - 1)
    <3>1. \A n \in Nat, t \in Table : AddCodes(n, t) \in Nat
      BY DEF AddCodes
    <3>2. list \in Seq(Table)
      <4>1. KeyTables \in Seq(Table) /\ Min(found) \in 1 .. Len(KeyTables)
        BY <2>3, TableAssumption
      <4> HIDE DEF found, Table
      <4>2. QED
        BY <4>1, SubSeqProperties
    <3> HIDE DEF Table, list
    <3>3. Codes!Fold(0, list) \in Nat
      BY <3>1, <3>2, Codes!FoldType
    <3>4. QED
      BY <3>3, FoldsAreFolds DEF CodesBefore, list
  <2>5. encode_tag(tag) = CodesBefore(Min(found)) + Min(vals)
    BY <1>2, Zenon DEF encode_tag
  <2>6. QED
    BY <2>1, <2>4, <2>5
<1>3. CASE vals = {} /\ free # {}
  <2>1. Min(free) \in Nat
    BY <1>1, <1>3, MinIn
  <2>2. encode_tag(tag) = -Min(free)
    BY <1>3, Zenon DEF encode_tag
  <2>3. QED
    BY <2>1, <2>2
<1>4. CASE vals = {} /\ free = {}
  <2>1. encode_tag(tag) = 0
    BY <1>4, Zenon DEF encode_tag
  <2>2. QED
    BY <2>1
<1>5. QED
  BY <1>2, <1>3, <1>4

LEMMA Int8Type ==
  ASSUME NEW n \in Int
  PROVE  Int8(n) \in -(INT8_MAX + 1) .. INT8_MAX
<1>1. (n + INT8_MAX + 1) % (2 * (INT8_MAX + 1)) \in 0 .. 2 * (INT8_MAX + 1) - 1
  BY ByteAssumption
<1>2. QED
  BY <1>1, ByteAssumption DEF Int8

LEMMA TagCellsType ==
  ASSUME NEW tag \in [key : STRING, val : STRING]
  PROVE  TagCells(tag) \in Seq(Cell)
<1> DEFINE code == Int8(encode_tag(tag))
<1>1. code \in Int
  BY EncodeTagType, Int8Type, ByteAssumption
<1> HIDE DEF code
<1>2. <<code>> \in Seq(Cell) /\ <<tag.key, tag.val>> \in Seq(Cell) /\ <<tag.val>> \in Seq(Cell)
  BY <1>1 DEF Cell
<1>3. CASE code = 0
  <2>1. TagCells(tag) = <<code>> \o <<tag.key, tag.val>>
    BY <1>3 DEF TagCells, code
  <2>2. QED
    BY <1>2, <2>1
<1>4. CASE code < 0
  <2>1. TagCells(tag) = <<code>> \o <<tag.val>>
    BY <1>1, <1>4 DEF TagCells, code
  <2>2. QED
    BY <1>2, <2>1
<1>5. CASE code > 0
  <2>1. TagCells(tag) = <<code>> \o <<>>
    BY <1>1, <1>5 DEF TagCells, code
  <2>2. QED
    BY <1>2, <2>1
<1>6. QED
  BY <1>1, <1>3, <1>4, <1>5

LEMMA TagListType ==
  ASSUME NEW tags \in TagLists
  PROVE  TagList(tags) \in Seq(Cell)
<1> DEFINE Tag == [key : STRING, val : STRING]
<1>1. \A data \in Seq(Cell), tag \in Tag : AddTag(data, tag) \in Seq(Cell)
  BY TagCellsType DEF AddTag
<1>2. <<>> \in Seq(Cell) /\ tags \in Seq(Tag)
  BY DEF TagLists
<1> HIDE DEF Tag
<1>3. Adding!Fold(<<>>, tags) \in Seq(Cell)
  BY <1>1, <1>2, Adding!FoldType
<1>4. <<INT8_MAX>> \in Seq(Cell)
  BY ByteAssumption DEF Cell
<1>5. QED
  BY <1>3, <1>4, FoldsAreFolds DEF TagList

LEMMA EncodeRoleType ==
  ASSUME NEW role
  PROVE  encode_role(role) \in Nat
<1>1. Matches(RelationRoles, role) \subseteq Nat
  BY DEF Matches
<1>2. QED
  BY <1>1, MinIn DEF encode_role

LEMMA NewCellsType ==
  ASSUME IType, pc = "tags"
  PROVE  /\ Elem \in Elements /\ Subfile \in 0 .. MAX_SUBFILES - 1
         /\ NewCells \in Seq(Cell)
         /\ NewCells # <<>> => Elem.tags # <<>>
<1>1. Elem \in Elements
  BY InputType DEF IType, LoaderType, Current, Busy, Elem
<1>2. Elem.tags \in TagLists
  BY <1>1 DEF Elements, NodeElems, WayElems, RelElems
<1>3. Kept(Elem.tags) \in TagLists /\ Kept(<<>>) = <<>>
  BY <1>2, KeptType
<1>4. NewCells \in Seq(Cell)
  BY <1>3, TagListType DEF NewCells
<1>5. Subfile \in Nat /\ Subfile < MAX_SUBFILES
  <2>1. InFile(Elem)
    BY DEF IType, Current, Busy
  <2>2. Subfile < MAX_SUBFILES
    BY <2>1, SubfileAssumption DEF InFile, Subfile
  <2>3. QED
    BY <1>1, <2>2, SubfileType DEF Subfile
<1>6. QED
  BY <1>1, <1>3, <1>4, <1>5, LimitAssumption DEF NewCells

\* The cell of the relation being linked, once its first member is known.
LEMMA RelationCellType ==
  ASSUME IType, NEW r \in RelIds, FirstInFile(rel_members[relations[r].member_offset])
  PROVE  get_grid_cell_for_relation(r) \in Cells \cup {NoCell}
<1> DEFINE m == rel_members[relations[r].member_offset]
<1>1. m \in MemberRec
  BY DEF IType, FilesType, RelRec
<1>2. \A n \in NodeIds : get_grid_cell_for_coord(nodes[n].coord) \in Cells
  BY CellType DEF IType, FilesType, NodeRec
<1>3. \A w \in WayIds : ways[w].node_ref_offset \in NodeIds
  BY RefAssumption, LimitAssumption DEF IType, FilesType, WayRec, RefIndex, NodeIds
<1>4. FirstInFile(m)
  OBVIOUS
<1> DEFINE n == m.id >= 0 /\ m.element_type = "NODE"
           w == m.id >= 0 /\ m.element_type = "WAY"
<1>5. CASE n
  <2>1. m.id \in NodeIds
    BY <1>4, <1>5 DEF FirstInFile
  <2>2. get_grid_cell_for_relation(r) = get_grid_cell_for_coord(nodes[m.id].coord)
    BY <1>1, <1>5 DEF get_grid_cell_for_relation, MemberRec
  <2>3. QED
    BY <1>2, <2>1, <2>2
<1>6. CASE w
  <2>1. m.id \in WayIds
    BY <1>4, <1>6 DEF FirstInFile
  <2>2. get_grid_cell_for_relation(r)
          = get_grid_cell_for_coord(nodes[ways[m.id].node_ref_offset].coord)
    BY <1>1, <1>6 DEF get_grid_cell_for_relation, MemberRec
  <2>3. QED
    BY <1>2, <1>3, <2>1, <2>2
<1>7. CASE ~n /\ ~w
  BY <1>1, <1>7 DEF get_grid_cell_for_relation, MemberRec
<1>8. QED
  BY <1>5, <1>6, <1>7

\* Each field of a relation's record can be stored alone.
LEMMA RelationFields ==
  ASSUME relations \in [RelIds -> RelRec], NEW r \in RelIds
  PROVE  /\ \A v \in 0 .. MAX_REL_MEMBERS - 1 :
              [relations EXCEPT ![r].member_offset = v] \in [RelIds -> RelRec]
         /\ \A v \in 0 .. MAX_TAG_POSITION :
              [relations EXCEPT ![r].tags = v] \in [RelIds -> RelRec]
         /\ \A v \in RelIds : [relations EXCEPT ![r].next = v] \in [RelIds -> RelRec]
<1>1. \A v \in 0 .. MAX_REL_MEMBERS - 1 : [relations[r] EXCEPT !.member_offset = v] \in RelRec
  BY DEF RelRec
<1>2. \A v \in 0 .. MAX_TAG_POSITION : [relations[r] EXCEPT !.tags = v] \in RelRec
  BY DEF RelRec
<1>3. \A v \in RelIds : [relations[r] EXCEPT !.next = v] \in RelRec
  BY DEF RelRec
<1>4. QED
  BY <1>1, <1>2, <1>3

-----------------------------------------------------------------------------
(* Every step keeps the types.                                             *)

LEMMA InitType == Init => IType
<1> SUFFICES ASSUME Init  PROVE IType
  OBVIOUS
<1> USE DEF Init
<1>1. LoaderType
  <2>1. Len(input) \in Nat
    BY InputType
  <2>2. QED
    BY <2>1, RefAssumption, LimitAssumption DEF LoaderType, LoadSteps, RefIndex
<1>2. FilesType
  <2>1. 0 \in RefIndex /\ 0 \in RelIds /\ 0 \in 0 .. MAX_REL_MEMBERS - 1
        /\ 0 \in 0 .. MAX_TAG_POSITION
    BY RefAssumption, LimitAssumption DEF RefIndex, RelIds
  <2>2. <<INT8_MAX>> \in Seq(Cell)
    BY ByteAssumption DEF Cell
  <2>3. QED
    BY <2>1, <2>2 DEF FilesType, NodeRec, WayRec, RelRec, MemberRec, Origin
<1>3. ReaderType
  <2>1. Origin \in Points
    <3>1. 0 \in Coords
      BY WidthAssumption DEF Coords
    <3>2. QED
      BY <3>1 DEF Points, Origin
  <2>2. 0 \in RelIds
    BY LimitAssumption DEF RelIds
  <2>3. out \in Seq({})
    OBVIOUS
  <2>4. QED
    BY <2>1, <2>2, <2>3 DEF ReaderType
<1>4. Current
  BY DEF Current, Busy
<1>5. QED
  BY <1>1, <1>2, <1>3, <1>4 DEF IType

\* What a handler that takes an element may take for granted.
LEMMA Taken ==
  ASSUME IType, NEW type \in {"NODE", "WAY", "RELATION"}, Handles(type)
  PROVE  /\ at \in 1 .. Len(input) /\ Elem \in Elements /\ Elem.type = type
         /\ type = "NODE" => Elem \in NodeElems /\ Elem.id \in NodeIds
         /\ type = "WAY" => Elem \in WayElems /\ Elem.id \in WayIds
         /\ type = "RELATION" => Elem \in RelElems /\ Elem.id \in RelIds
<1>1. at \in 1 .. Len(input) /\ Elem.type = type /\ ~Refuses(Elem)
  BY InputType DEF IType, LoaderType, Handles
<1>2. Elem \in Elements
  BY <1>1, InputType DEF IType, LoaderType, Elem
<1>3. Elem.id \in Nat
  BY <1>2 DEF Elements, NodeElems, WayElems, RelElems
<1>4. QED
  BY <1>1, <1>2, <1>3, LimitAssumption
     DEF Refuses, Elements, NodeElems, WayElems, RelElems, NodeIds, WayIds, RelIds

LEMMA HandleNodeType == IType /\ HandleNode => IType'
<1> SUFFICES ASSUME IType, HandleNode  PROVE IType'
  OBVIOUS
<1> USE DEF HandleNode, Continue, counters, lists, reader, scan
<1>1. at \in 1 .. Len(input) /\ Elem \in NodeElems /\ Elem.id \in NodeIds /\ Elem.type = "NODE"
  BY Taken
<1>2. LoaderType'
  BY DEF IType, LoaderType, LoadSteps
<1>3. FilesType'
  <2>1. Elem.coord \in [x : Int, y : Int]
    BY <1>1, WidthAssumption DEF NodeElems, Points, Coords
  <2>2. nodes' \in [NodeIds -> NodeRec]
    BY <1>1, <2>1 DEF IType, FilesType, NodeRec
  <2>3. QED
    BY <2>2 DEF IType, FilesType
<1>4. ReaderType'
  BY DEF IType, ReaderType
<1>5. Current'
  BY <1>1 DEF Current, Busy, InFile, Elem
<1>6. QED
  BY <1>2, <1>3, <1>4, <1>5 DEF IType

LEMMA HandleWayType == IType /\ HandleWay => IType'
<1> SUFFICES ASSUME IType, HandleWay  PROVE IType'
  OBVIOUS
<1> USE DEF HandleWay, StartList, counters, lists, reader, scan
<1>1. at \in 1 .. Len(input) /\ Elem \in WayElems /\ Elem.id \in WayIds /\ Elem.type = "WAY"
  BY Taken
<1>2. LoaderType'
  BY DEF IType, LoaderType, LoadSteps
<1>3. FilesType'
  <2>1. ways' \in [WayIds -> WayRec]
    BY <1>1 DEF IType, FilesType, LoaderType, WayRec
  <2>2. QED
    BY <2>1 DEF IType, FilesType
<1>4. ReaderType'
  BY DEF IType, ReaderType
<1>5. Current'
  BY <1>1 DEF Current, Busy, InFile, Elem
<1>6. QED
  BY <1>2, <1>3, <1>4, <1>5 DEF IType

LEMMA CopyRefType == IType /\ CopyRef => IType'
<1> SUFFICES ASSUME IType, CopyRef  PROVE IType'
  OBVIOUS
<1> USE DEF CopyRef, counters, lists, reader, scan
<1>1. at \in 1 .. Len(input) /\ Elem.type = "WAY" /\ InFile(Elem)
  BY DEF IType, Current, Busy
<1>2. Elem \in WayElems
  BY <1>1, InputType DEF IType, LoaderType, Elem, Elements, NodeElems, WayElems, RelElems
<1>3. Elem.refs \in Seq(Int) /\ item \in 1 .. Len(Elem.refs)
  BY <1>2 DEF WayElems, IType, LoaderType
<1>4. Elem.refs[item] \in Int
  BY <1>3
<1>5. ref_id' \in Int
  BY <1>4 DEF IType, LoaderType
<1>6. LoaderType'
  BY <1>5, RefAssumption DEF IType, LoaderType, LoadSteps, RefIndex
<1>7. FilesType'
  BY <1>5 DEF IType, FilesType
<1>8. ReaderType'
  BY DEF IType, ReaderType
<1>9. Current'
  BY <1>1 DEF Current, Busy, InFile, Elem
<1>10. QED
  BY <1>6, <1>7, <1>8, <1>9 DEF IType

LEMMA EndRefsType == IType /\ EndRefs => IType'
<1> SUFFICES ASSUME IType, EndRefs  PROVE IType'
  OBVIOUS
<1> USE DEF EndRefs, Continue, counters, lists, reader, scan
<1>1. at \in 1 .. Len(input) /\ Elem.type = "WAY" /\ InFile(Elem)
  BY DEF IType, Current, Busy
<1>2. LoaderType'
  BY DEF IType, LoaderType, LoadSteps
<1>3. FilesType'
  <2>1. ASSUME NEW i \in RefIndex  PROVE [node_refs EXCEPT ![i] = -@] \in [RefIndex -> Int]
    BY DEF IType, FilesType
  <2>2. (n_node_refs - 1) % (MAX_REF_INDEX + 1) \in RefIndex
    BY RefAssumption DEF IType, LoaderType, RefIndex
  <2>3. node_refs' \in [RefIndex -> Int]
    BY <2>1, <2>2
  <2>4. QED
    BY <2>3 DEF IType, FilesType
<1>4. ReaderType'
  BY DEF IType, ReaderType
<1>5. Current'
  BY <1>1 DEF Current, Busy, InFile, Elem
<1>6. QED
  BY <1>2, <1>3, <1>4, <1>5 DEF IType

LEMMA IndexWayType == IType /\ IndexWay => IType'
<1> SUFFICES ASSUME IType, IndexWay  PROVE IType'
  OBVIOUS
<1> USE DEF IndexWay, Continue, counters, lists, reader, scan
<1>1. at \in 1 .. Len(input) /\ Elem.type = "WAY" /\ InFile(Elem)
  BY DEF IType, Current, Busy
<1>2. LoaderType'
  BY DEF IType, LoaderType, LoadSteps
<1>3. FilesType'
  <2>1. cell_ways' \in [Cells -> SUBSET WayIds]
    BY <1>1 DEF IType, FilesType, InFile
  <2>2. QED
    BY <2>1 DEF IType, FilesType
<1>4. ReaderType'
  BY DEF IType, ReaderType
<1>5. Current'
  BY <1>1 DEF Current, Busy, InFile, Elem
<1>6. QED
  BY <1>2, <1>3, <1>4, <1>5 DEF IType

LEMMA HandleRelationType == IType /\ HandleRelation => IType'
<1> SUFFICES ASSUME IType, HandleRelation  PROVE IType'
  OBVIOUS
<1> USE DEF HandleRelation, StartList, NextElement, counters, lists, reader, scan
<1>1. at \in 1 .. Len(input) /\ Elem \in RelElems /\ Elem.id \in RelIds /\ Elem.type = "RELATION"
  BY Taken
<1>2. Len(Elem.members) \in Nat
  BY <1>1 DEF RelElems
<1>3. LoaderType'
  <2>1. at + 1 \in 1 .. Len(input) + 1
    BY <1>1, InputType DEF IType, LoaderType
  <2>2. QED
    BY <2>1 DEF IType, LoaderType, LoadSteps
<1>4. FilesType'
  <2>1. relations' \in [RelIds -> RelRec]
    <3>1. CASE Elem.members = <<>>
      BY <3>1 DEF IType, FilesType
    <3>2. CASE Elem.members # <<>>
      <4>1. relations' = [relations EXCEPT ![Elem.id].member_offset = n_rel_members]
        BY <3>2
      <4>2. n_rel_members \in 0 .. MAX_REL_MEMBERS - 1
        BY LimitAssumption DEF IType, LoaderType
      <4>3. QED
        BY <1>1, <4>1, <4>2, RelationFields DEF IType, FilesType
    <3>3. QED
      BY <3>1, <3>2
  <2>2. QED
    BY <2>1 DEF IType, FilesType
<1>5. ReaderType'
  BY DEF IType, ReaderType
<1>6. Current'
  <2>1. CASE Elem.members = <<>>
    BY <2>1 DEF Current, Busy
  <2>2. CASE Elem.members # <<>>
    <3>1. relations'[Elem.id].member_offset = n_rel_members
      BY <1>1, <2>2 DEF IType, FilesType, RelRec
    <3>2. n_rel_members \in Nat
      BY LimitAssumption DEF IType, LoaderType
    <3> DEFINE len == Len(Elem.members)
    <3>3. CASE n_rel_members + len >= MAX_REL_MEMBERS
      BY <2>2, <3>3 DEF Current, Busy
    <3>4. CASE n_rel_members + len < MAX_REL_MEMBERS
      <4>1. pc' = "members" /\ item' = 1 /\ ref_id' = 0 /\ Elem' = Elem
        BY <1>2, <2>2, <3>2, <3>4, LimitAssumption DEF Elem
      <4>2. n_rel_members' = relations'[Elem.id].member_offset + item' - 1
        BY <3>1, <3>2, <4>1
      <4>3. n_rel_members' + len + 1 - item' < MAX_REL_MEMBERS
        BY <1>2, <3>2, <3>4, <4>1
      <4>4. InFile(Elem)
        BY <1>1, <2>2 DEF InFile
      <4> HIDE DEF HandleRelation
      <4>5. at' = at /\ input' = input
        BY <2>2 DEF HandleRelation
      <4>6. QED
        BY <1>1, <1>2, <4>1, <4>2, <4>3, <4>4, <4>5 DEF Current, Busy, InFile
    <3>5. QED
      BY <1>2, <3>2, <3>3, <3>4, LimitAssumption
  <2>3. QED
    BY <2>1, <2>2
<1>7. QED
  BY <1>3, <1>4, <1>5, <1>6 DEF IType

LEMMA CopyMemberType == IType /\ CopyMember => IType'
<1> SUFFICES ASSUME IType, CopyMember  PROVE IType'
  OBVIOUS
<1> DEFINE m == Elem.members[item]
           cell == [role |-> encode_role(m.role), element_type |-> m.type,
                    id |-> ref_id' % ID_WIDTH]
           first == relations[Elem.id].member_offset
<1>1. at \in 1 .. Len(input) /\ Elem.type = "RELATION" /\ InFile(Elem) /\ pc = "members"
  BY DEF IType, Current, Busy, CopyMember
<1>2. Elem \in RelElems /\ Elem.id \in RelIds
  BY <1>1, InputType
     DEF IType, LoaderType, Elem, Elements, NodeElems, WayElems, RelElems, InFile
<1>3. item \in 1 .. Len(Elem.members) /\ Len(Elem.members) \in Nat /\ Elem.members # <<>>
  BY <1>1, <1>2 DEF RelElems, IType, LoaderType, CopyMember, InFile
<1>4. m \in [type : {"NODE", "WAY", "RELATION"}, id : Int, role : STRING]
  <2>1. Elem.members \in Seq([type : {"NODE", "WAY", "RELATION"}, id : Int, role : STRING])
    BY <1>2 DEF RelElems
  <2>2. QED
    BY <1>3, <2>1, ElementOfSeq
<1>5. ref_id' = ref_id + m.id /\ ref_id' \in Int
  BY <1>4 DEF IType, LoaderType, CopyMember
<1>6. cell \in MemberRec
  <2>1. ref_id' % ID_WIDTH \in Int
    BY <1>5, LimitAssumption
  <2>2. QED
    BY <1>4, <2>1, EncodeRoleType DEF MemberRec
<1>7. /\ n_rel_members = first + item - 1
      /\ n_rel_members + Len(Elem.members) + 1 - item < MAX_REL_MEMBERS
      /\ item = 1 => ref_id = 0
  BY <1>1 DEF IType, Current
<1>8. n_rel_members \in 1 .. MAX_REL_MEMBERS - 1 /\ first \in Nat
  BY <1>2, LimitAssumption DEF IType, LoaderType, FilesType, RelRec
<1>9. rel_members' = [rel_members EXCEPT ![n_rel_members] = cell]
  BY DEF CopyMember
<1>10. /\ n_rel_members' = n_rel_members + 1 /\ item' = item + 1
       /\ UNCHANGED <<input, at, pc, n_node_refs, ways_loaded, nodes, ways, relations,
                      node_refs, cell_ways, head_relation, tag_files, reader>>
  BY DEF CopyMember
<1>11. LoaderType'
  <2>1. n_rel_members + 1 < MAX_REL_MEMBERS
    <3> DEFINE len == Len(Elem.members)
    <3>1. /\ len \in Nat /\ item \in 1 .. len /\ n_rel_members \in Nat
          /\ n_rel_members + len + 1 - item < MAX_REL_MEMBERS
      BY <1>3, <1>7, <1>8
    <3> HIDE DEF len
    <3>2. QED
      BY <3>1, LimitAssumption
  <2>2. n_rel_members' \in 1 .. MAX_REL_MEMBERS - 1
    BY <1>8, <1>10, <2>1, LimitAssumption
  <2>3. QED
    BY <1>3, <1>5, <1>10, <2>2 DEF IType, LoaderType
<1>12. FilesType'
  <2>1. rel_members' \in [0 .. MAX_REL_MEMBERS - 1 -> MemberRec]
    BY <1>6, <1>8, <1>9 DEF IType, FilesType
  <2>2. QED
    BY <1>10, <2>1 DEF IType, FilesType
<1>13. ReaderType'
  BY <1>10 DEF IType, ReaderType, reader, scan
<1>14. FirstInFile(rel_members'[first]) /\ rel_members'[first].id >= 0
  <2>1. CASE item = 1
    <3>1. rel_members'[first] = cell
      BY <1>7, <1>8, <1>9, <2>1 DEF IType, FilesType
    <3>2. ref_id' = Elem.members[1].id
      BY <1>4, <1>5, <1>7, <2>1
    <3> DEFINE id == Elem.members[1].id % ID_WIDTH
    <3>3. /\ Elem.members[1].type = "NODE" => id \in NodeIds
          /\ Elem.members[1].type = "WAY" => id \in WayIds
      BY <1>1, <1>3, InputAssumption DEF Elem, IType, LoaderType
    <3>4. cell.id = id /\ cell.element_type = Elem.members[1].type /\ id >= 0
      BY <1>4, <2>1, <3>2, LimitAssumption
    <3>5. QED
      BY <3>1, <3>3, <3>4 DEF FirstInFile
  <2>2. CASE item # 1
    <3>1. rel_members'[first] = rel_members[first]
      BY <1>3, <1>7, <1>8, <1>9, <2>2 DEF IType, FilesType
    <3>2. FirstInFile(rel_members[first]) /\ rel_members[first].id >= 0
      BY <1>1, <1>3, <2>2 DEF IType, Current, Busy
    <3>3. QED
      BY <3>1, <3>2
  <2>3. QED
    BY <2>1, <2>2
<1>15. Current'
  <2>1. Elem' = Elem /\ InFile(Elem)' /\ Len(Elem.members) \in Nat
    BY <1>1, <1>3, <1>10 DEF Elem, InFile
  <2>2. item' =< Len(Elem.members) + 1 /\ item' # 1
    BY <1>3, <1>10
  <2>3. n_rel_members' = first + item' - 1
    BY <1>3, <1>7, <1>8, <1>10
  <2>4. n_rel_members' + Len(Elem.members) + 1 - item' < MAX_REL_MEMBERS
    <3> DEFINE len == Len(Elem.members)
    <3>1. /\ len \in Nat /\ item \in 1 .. len /\ n_rel_members \in Nat
          /\ n_rel_members + len + 1 - item < MAX_REL_MEMBERS
          /\ n_rel_members' = n_rel_members + 1 /\ item' = item + 1
      BY <1>3, <1>7, <1>8, <1>10
    <3> HIDE DEF len
    <3>2. n_rel_members' + len + 1 - item' < MAX_REL_MEMBERS
      BY <3>1, LimitAssumption
    <3>3. QED
      BY <3>2 DEF len
  <2>5. /\ pc' = "members" /\ relations' = relations /\ at' \in 1 .. Len(input')
        /\ Elem'.type = "RELATION"
    BY <1>1, <1>10, <2>1
  <2> HIDE DEF m, cell
  <2>6. /\ FirstInFile(rel_members[relations[Elem.id].member_offset])'
        /\ rel_members'[relations'[Elem'.id].member_offset].id >= 0
    BY <1>14, <2>1, <2>5 DEF FirstInFile
  <2>7. QED
    BY <2>1, <2>2, <2>3, <2>4, <2>5, <2>6 DEF Current, Busy
<1>16. QED
  BY <1>11, <1>12, <1>13, <1>15 DEF IType

LEMMA EndMembersType == IType /\ EndMembers => IType'
<1> SUFFICES ASSUME IType, EndMembers  PROVE IType'
  OBVIOUS
<1> DEFINE last == n_rel_members - 1
           first == relations[Elem.id].member_offset
<1>1. at \in 1 .. Len(input) /\ Elem.type = "RELATION" /\ InFile(Elem) /\ pc = "members"
  BY DEF IType, Current, Busy, EndMembers
<1>2. Elem \in RelElems /\ Elem.id \in RelIds
  BY <1>1, InputType
     DEF IType, LoaderType, Elem, Elements, NodeElems, WayElems, RelElems, InFile
<1>3. item > 1 /\ n_rel_members = first + item - 1
  BY <1>1, <1>2 DEF RelElems, IType, LoaderType, EndMembers, InFile, Current
<1>4. last \in 0 .. MAX_REL_MEMBERS - 1 /\ first \in 0 .. MAX_REL_MEMBERS - 1
  BY <1>2, LimitAssumption DEF IType, LoaderType, FilesType, RelRec
<1>5. rel_members' = [rel_members EXCEPT ![last].id = -@]
  BY DEF EndMembers
<1>6. rel_members[last] \in MemberRec /\ rel_members[first] \in MemberRec
  BY <1>4 DEF IType, FilesType
<1>7. [rel_members[last] EXCEPT !.id = -@] \in MemberRec
  BY <1>6 DEF MemberRec
<1>8. /\ pc' = "tags"
      /\ UNCHANGED <<input, at, item, ref_id, n_node_refs, n_rel_members, ways_loaded,
                     nodes, ways, relations, node_refs, cell_ways, head_relation,
                     tag_files, reader>>
  BY DEF EndMembers, Continue, counters
<1>9. LoaderType'
  BY <1>8 DEF IType, LoaderType, LoadSteps
<1>10. FilesType'
  <2>1. rel_members' \in [0 .. MAX_REL_MEMBERS - 1 -> MemberRec]
    BY <1>4, <1>5, <1>7 DEF IType, FilesType
  <2>2. QED
    BY <1>8, <2>1 DEF IType, FilesType
<1>11. ReaderType'
  BY <1>8 DEF IType, ReaderType, reader, scan
<1>12. FirstInFile(rel_members'[first])
  <2>1. FirstInFile(rel_members[first])
    BY <1>1, <1>3 DEF IType, Current, Busy
  <2>2. CASE first = last
    <3>1. /\ rel_members'[first].id = -rel_members[first].id
          /\ rel_members'[first].element_type = rel_members[first].element_type
      BY <1>4, <1>5, <1>6, <2>2 DEF IType, FilesType, MemberRec
    <3>2. rel_members'[first].id >= 0 =>
            \/ /\ rel_members[first].id >= 0
               /\ rel_members'[first].id = rel_members[first].id
            \/ rel_members[first].id < 0
      BY <1>6, <3>1 DEF MemberRec
    <3>3. rel_members[first].id >= 0
      BY <1>1, <1>3 DEF IType, Current
    <3>4. QED
      BY <1>6, <2>1, <3>1, <3>2, <3>3 DEF FirstInFile, MemberRec
  <2>3. CASE first # last
    <3>1. rel_members'[first] = rel_members[first]
      BY <1>4, <1>5, <2>3 DEF IType, FilesType
    <3>2. QED
      BY <2>1, <3>1
  <2>4. QED
    BY <2>2, <2>3
<1>13. Current'
  <2>1. Elem' = Elem /\ InFile(Elem)'
    BY <1>1, <1>8 DEF Elem, InFile
  <2>2. FirstInFile(rel_members[relations[Elem.id].member_offset])'
    BY <1>8, <1>12, <2>1 DEF FirstInFile
  <2>3. QED
    BY <1>1, <1>8, <2>1, <2>2 DEF Current, Busy
<1>14. QED
  BY <1>9, <1>10, <1>11, <1>13 DEF IType

LEMMA WriteTagsType == IType /\ WriteTags => IType'
<1> SUFFICES ASSUME IType, WriteTags  PROVE IType'
  OBVIOUS
<1> DEFINE offset == IF NewCells = <<>> THEN 0 ELSE Position
<1>1. at \in 1 .. Len(input) /\ InFile(Elem) /\ pc = "tags"
  BY DEF IType, Current, Busy, WriteTags
<1>2. Elem \in Elements
  BY <1>1, InputType DEF IType, LoaderType, Elem
<1>3. tag_files' \in [0 .. MAX_SUBFILES - 1 -> Seq(Cell)]
  <2>1. Subfile \in 0 .. MAX_SUBFILES - 1 /\ NewCells \in Seq(Cell)
    BY <1>1, NewCellsType
  <2>2. tag_files[Subfile] \o NewCells \in Seq(Cell)
    BY <2>1 DEF IType, FilesType
  <2>3. tag_files' = [tag_files EXCEPT ![Subfile] = tag_files[Subfile] \o NewCells]
    BY DEF WriteTags
  <2>4. QED
    BY <2>2, <2>3 DEF IType, FilesType
<1>4. offset \in 0 .. MAX_TAG_POSITION
  <2>1. Subfile \in 0 .. MAX_SUBFILES - 1 /\ NewCells \in Seq(Cell)
    BY <1>1, NewCellsType
  <2>2. Position \in Nat
    BY <2>1 DEF Position, IType, FilesType
  <2>3. Len(NewCells) \in Nat /\ Position + Len(NewCells) =< SubfileSize
    BY <2>1 DEF WriteTags, TagsFit
  <2>4. QED
    BY <2>2, <2>3, LimitAssumption DEF SubfileSize
<1> HIDE DEF offset
<1>5. UNCHANGED <<counters, node_refs, rel_members, cell_ways, head_relation, reader>>
  BY DEF WriteTags
<1>6. /\ Elem.type = "NODE" =>
           /\ nodes' = [nodes EXCEPT ![Elem.id].tags = offset]
           /\ NextElement /\ UNCHANGED <<ways, relations>>
      /\ Elem.type = "WAY" =>
           /\ ways' = [ways EXCEPT ![Elem.id].tags = offset]
           /\ NextElement /\ UNCHANGED <<nodes, relations>>
      /\ Elem.type = "RELATION" =>
           /\ relations' = [relations EXCEPT ![Elem.id].tags = offset]
           /\ Continue("next") /\ UNCHANGED <<nodes, ways>>
  BY DEF WriteTags, offset
<1>7. Elem.type \in {"NODE", "WAY", "RELATION"}
  BY <1>2 DEF Elements, NodeElems, WayElems, RelElems
<1>8. LoaderType'
  <2>1. at + 1 \in 1 .. Len(input) + 1
    BY <1>1, InputType DEF IType, LoaderType
  <2>2. QED
    BY <1>5, <1>6, <1>7, <2>1
       DEF IType, LoaderType, LoadSteps, NextElement, Continue, counters
<1>9. FilesType'
  <2>1. CASE Elem.type = "NODE"
    <3>1. Elem.id \in NodeIds
      BY <1>1, <2>1 DEF InFile
    <3>2. [nodes[Elem.id] EXCEPT !.tags = offset] \in NodeRec
      BY <1>4, <3>1 DEF IType, FilesType, NodeRec
    <3>3. nodes' \in [NodeIds -> NodeRec]
      BY <1>6, <2>1, <3>2 DEF IType, FilesType
    <3>4. QED
      BY <1>3, <1>5, <1>6, <2>1, <3>3 DEF IType, FilesType
  <2>2. CASE Elem.type = "WAY"
    <3>1. Elem.id \in WayIds
      BY <1>1, <2>2 DEF InFile
    <3>2. [ways[Elem.id] EXCEPT !.tags = offset] \in WayRec
      BY <1>4, <3>1 DEF IType, FilesType, WayRec
    <3>3. ways' \in [WayIds -> WayRec]
      BY <1>6, <2>2, <3>2 DEF IType, FilesType
    <3>4. QED
      BY <1>3, <1>5, <1>6, <2>2, <3>3 DEF IType, FilesType
  <2>3. CASE Elem.type = "RELATION"
    <3>1. Elem.id \in RelIds
      BY <1>1, <2>3 DEF InFile
    <3>2. relations' \in [RelIds -> RelRec]
      BY <1>4, <1>6, <2>3, <3>1, RelationFields DEF IType, FilesType
    <3>3. QED
      BY <1>3, <1>5, <1>6, <2>3, <3>2 DEF IType, FilesType
  <2>4. QED
    BY <1>7, <2>1, <2>2, <2>3
<1>10. ReaderType'
  BY <1>5 DEF IType, ReaderType, reader, scan
<1>11. Current'
  <2>1. CASE Elem.type \in {"NODE", "WAY"}
    BY <1>6, <2>1 DEF NextElement, Current, Busy
  <2>2. CASE Elem.type = "RELATION"
    <3>1. /\ pc' = "next" /\ Elem' = Elem /\ at' = at /\ input' = input
      BY <1>6, <2>2 DEF Continue, Elem
    <3>2. Elem.id \in RelIds
      BY <1>1, <2>2 DEF InFile
    <3>3. relations'[Elem.id].member_offset = relations[Elem.id].member_offset
      BY <1>6, <2>2, <3>2 DEF IType, FilesType, RelRec
    <3>4. FirstInFile(rel_members[relations[Elem.id].member_offset])
      BY <1>1, <2>2 DEF IType, Current, Busy
    <3>5. FirstInFile(rel_members'[relations'[Elem.id].member_offset])
      BY <1>5, <3>3, <3>4
    <3>6. QED
      BY <1>1, <2>2, <3>1, <3>5 DEF Current, Busy, InFile, FirstInFile
  <2>3. QED
    BY <1>7, <2>1, <2>2
<1>12. QED
  BY <1>8, <1>9, <1>10, <1>11 DEF IType

LEMMA OverrunTagsType == IType /\ OverrunTags => IType'
<1> SUFFICES ASSUME IType, OverrunTags  PROVE IType'
  OBVIOUS
<1>1. pc' \in {"dead", "overrun"} /\ UNCHANGED <<input, at, item, ref_id>>
  BY DEF OverrunTags, Continue
<1>2. tag_files' \in [0 .. MAX_SUBFILES - 1 -> Seq(Cell)]
  <2>1. Subfile \in 0 .. MAX_SUBFILES - 1 /\ NewCells \in Seq(Cell)
    BY NewCellsType DEF OverrunTags
  <2> DEFINE list == tag_files[Subfile] \o NewCells
  <2>2. list \in Seq(Cell)
    BY <2>1 DEF IType, FilesType
  <2>3. tag_files' = [tag_files EXCEPT ![Subfile] = SubSeq(list, 1, SubfileSize)]
    BY DEF OverrunTags
  <2>4. Len(list) >= SubfileSize
    BY <2>1, LimitAssumption DEF OverrunTags, TagsFit, SubfileSize, Position, IType, FilesType
  <2> HIDE DEF list
  <2>5. SubSeq(list, 1, SubfileSize) \in Seq(Cell)
    <3>1. \A i \in 1 .. SubfileSize : list[i] \in Cell
      BY <2>2, <2>4, ElementOfSeq, LimitAssumption DEF SubfileSize
    <3>2. QED
      BY <3>1, SubSeqProperties, LimitAssumption DEF SubfileSize
  <2>6. QED
    BY <2>3, <2>5 DEF IType, FilesType
<1>3. UNCHANGED <<counters, nodes, ways, relations, cell_ways, head_relation,
                  node_refs, rel_members, reader>>
  BY DEF OverrunTags
<1>4. LoaderType'
  BY <1>1, <1>3 DEF IType, LoaderType, LoadSteps, counters
<1>5. FilesType'
  BY <1>2, <1>3 DEF IType, FilesType
<1>6. ReaderType'
  BY <1>3 DEF IType, ReaderType, reader, scan
<1>7. Current'
  BY <1>1 DEF Current, Busy
<1>8. QED
  BY <1>4, <1>5, <1>6, <1>7 DEF IType

LEMMA SetRelationNextType == IType /\ SetRelationNext => IType'
<1> SUFFICES ASSUME IType, SetRelationNext  PROVE IType'
  OBVIOUS
<1> DEFINE cell == get_grid_cell_for_relation(Elem.id)
<1>1. /\ at \in 1 .. Len(input) /\ InFile(Elem) /\ pc = "next" /\ Elem.type = "RELATION"
      /\ FirstInFile(rel_members[relations[Elem.id].member_offset])
  BY DEF IType, Current, Busy, SetRelationNext
<1>2. Elem.id \in RelIds
  BY <1>1 DEF InFile
<1>3. cell \in Cells \cup {NoCell}
  BY <1>1, <1>2, RelationCellType
<1> HIDE DEF cell
<1>4. UNCHANGED <<counters, nodes, ways, cell_ways, head_relation, lists, reader>>
  BY DEF SetRelationNext
<1>5. /\ cell = NoCell => /\ relations' = [relations EXCEPT ![Elem.id].next = 0]
                          /\ NextElement
      /\ cell # NoCell =>
           /\ relations' = [relations EXCEPT ![Elem.id].next = head_relation[cell]]
           /\ Continue("head")
  BY DEF SetRelationNext, cell
<1>6. LoaderType'
  <2>1. at + 1 \in 1 .. Len(input) + 1
    BY <1>1, InputType DEF IType, LoaderType
  <2>2. QED
    BY <1>4, <1>5, <2>1
       DEF IType, LoaderType, LoadSteps, NextElement, Continue, counters
<1>7. FilesType'
  <2>1. 0 \in RelIds /\ (cell # NoCell => head_relation[cell] \in RelIds)
    BY <1>3, LimitAssumption DEF RelIds, IType, FilesType
  <2>2. relations' \in [RelIds -> RelRec]
    BY <1>2, <1>5, <2>1, RelationFields DEF IType, FilesType
  <2>3. QED
    BY <1>4, <2>2 DEF IType, FilesType, lists
<1>8. ReaderType'
  BY <1>4 DEF IType, ReaderType, reader, scan
<1>9. Current'
  <2>1. CASE cell = NoCell
    BY <1>5, <2>1 DEF NextElement, Current, Busy
  <2>2. CASE cell # NoCell
    <3>1. pc' = "head" /\ Elem' = Elem /\ at' = at /\ input' = input
      BY <1>5, <2>2 DEF Continue, Elem
    <3>2. relations'[Elem.id].member_offset = relations[Elem.id].member_offset
      BY <1>2, <1>5, <2>2 DEF IType, FilesType, RelRec
    <3>3. FirstInFile(rel_members'[relations'[Elem.id].member_offset])
      BY <1>1, <1>4, <3>2 DEF lists
    <3>4. QED
      BY <1>1, <3>1, <3>3 DEF Current, Busy, InFile, FirstInFile
  <2>3. QED
    BY <2>1, <2>2
<1>10. QED
  BY <1>6, <1>7, <1>8, <1>9 DEF IType

LEMMA SetRelationHeadType == IType /\ SetRelationHead => IType'
<1> SUFFICES ASSUME IType, SetRelationHead  PROVE IType'
  OBVIOUS
<1>1. at \in 1 .. Len(input) /\ InFile(Elem) /\ Elem.type = "RELATION"
  BY DEF IType, Current, Busy, SetRelationHead
<1>2. head_relation' \in [Cells -> RelIds]
  BY <1>1 DEF IType, FilesType, SetRelationHead, InFile
<1>3. NextElement /\ UNCHANGED <<counters, nodes, ways, relations, cell_ways, lists, reader>>
  BY DEF SetRelationHead
<1>4. LoaderType'
  <2>1. at + 1 \in 1 .. Len(input) + 1
    BY <1>1, InputType DEF IType, LoaderType
  <2>2. QED
    BY <1>3, <2>1 DEF IType, LoaderType, LoadSteps, NextElement, counters
<1>5. FilesType'
  BY <1>2, <1>3 DEF IType, FilesType, lists
<1>6. ReaderType'
  BY <1>3 DEF IType, ReaderType, reader, scan
<1>7. Current'
  BY <1>3 DEF NextElement, Current, Busy
<1>8. QED
  BY <1>4, <1>5, <1>6, <1>7 DEF IType

\* The steps that only end the load.
LEMMA StopType ==
  ASSUME IType, ReadNoRef \/ Die \/ FinishLoad \/ Kill
  PROVE  IType'
<1>1. (\E p \in {"dead", "loaded"} : Continue(p)) /\ UNCHANGED <<counters, files, reader>>
  BY DEF ReadNoRef, Die, FinishLoad, Kill
<1>2. LoaderType'
  BY <1>1 DEF IType, LoaderType, LoadSteps, Continue, counters
<1>3. FilesType'
  BY <1>1 DEF IType, FilesType, files, lists
<1>4. ReaderType'
  BY <1>1 DEF IType, ReaderType, reader, scan
<1>5. Current'
  BY <1>1 DEF Continue, Current, Busy
<1>6. QED
  BY <1>2, <1>3, <1>4, <1>5 DEF IType

LEMMA LoadType == IType /\ Load => IType'
BY HandleNodeType, HandleWayType, CopyRefType, EndRefsType, IndexWayType,
   HandleRelationType, CopyMemberType, EndMembersType, WriteTagsType, OverrunTagsType,
   SetRelationNextType, SetRelationHeadType, StopType DEF Load

LEMMA StagesInOrder ==
  /\ StageAfter("NODE") = "WAY"
  /\ StageAfter("WAY") = "RELATION"
  /\ StageAfter("RELATION") = "done"
<1>1. ToSet(Stages) = {"NODE", "WAY", "RELATION", "done"}
  <2>1. DOMAIN Stages = 1 .. 4
    BY DEF Stages
  <2>2. QED
    BY <2>1 DEF ToSet, Stages
<1>2. Stages[1] = "NODE" /\ Stages[2] = "WAY" /\ Stages[3] = "RELATION" /\ Stages[4] = "done"
  BY DEF Stages
<1>3. \A s, t : (\E i \in 1 .. 3 : Stages[i] = s /\ Stages[i + 1] = t)
                <=> <<s, t>> \in {<<"NODE", "WAY">>, <<"WAY", "RELATION">>,
                                  <<"RELATION", "done">>}
  BY <1>2
<1>4. QED
  BY <1>1, <1>3 DEF StageAfter

LEMMA FirstCellType ==
  ASSUME IType, cells # {}
  PROVE  FirstCell \in cells
<1>1. cells \subseteq Cells /\ \A c \in cells : c[1] \in Nat /\ c[2] \in Nat
  BY DEF IType, ReaderType, Cells, Bins
<1> DEFINE X == {c[1] : c \in cells}
<1>2. X # {} /\ X \subseteq Nat
  BY <1>1
<1>3. PICK a \in cells : \A c \in cells : a[1] =< c[1]
  <2>1. Min(X) \in X /\ \A x \in X : Min(X) =< x
    BY <1>2, MinIn
  <2>2. PICK a \in cells : a[1] = Min(X)
    BY <2>1
  <2>3. \A c \in cells : a[1] =< c[1]
    BY <2>1, <2>2
  <2>4. QED
    BY <2>3
<1> DEFINE row == {c \in cells : c[1] = a[1]}
           Y == {c[2] : c \in row}
<1>4. Y # {} /\ Y \subseteq Nat
  BY <1>1, <1>3
<1>5. PICK b \in row : \A c \in row : b[2] =< c[2]
  <2>1. Min(Y) \in Y /\ \A y \in Y : Min(Y) =< y
    BY <1>4, MinIn
  <2>2. PICK b \in row : b[2] = Min(Y)
    BY <2>1
  <2>3. \A c \in row : b[2] =< c[2]
    BY <2>1, <2>2
  <2>4. QED
    BY <2>3
<1>6. \A d \in cells : b[1] < d[1] \/ (b[1] = d[1] /\ b[2] =< d[2])
  BY <1>1, <1>3, <1>5
<1>7. QED
  BY <1>5, <1>6 DEF FirstCell

LEMMA BoxCellsType ==
  ASSUME NEW b \in [min : Points, max : Points]
  PROVE  BoxCells(b) \subseteq Cells
<1>1. \A p \in Points : bin(p.x) \in Bins /\ bin(p.y) \in Bins
  BY BinType, WidthAssumption DEF Points, Coords
<1>2. \A i, j \in Bins : i .. j \subseteq Bins
  BY WidthAssumption DEF Bins
<1>3. QED
  BY <1>1, <1>2 DEF BoxCells, Cells

\* No store after one that writes nothing but the reader's state.
LEMMA ReaderStep ==
  ASSUME IType, UNCHANGED <<loader, counters, files>>, ReaderType'
  PROVE  IType'
<1>1. LoaderType'
  BY DEF IType, LoaderType, loader, counters
<1>2. FilesType'
  BY DEF IType, FilesType, files, lists
<1>3. Current'
  BY DEF IType, Current, FirstInFile, InFile, Elem, loader, counters, files, lists
<1>4. QED
  BY <1>1, <1>2, <1>3 DEF IType

LEMMA AppendAny ==
  ASSUME NEW T, NEW s \in Seq(T), NEW x
  PROVE  /\ s \in Seq(T \cup {x}) /\ Append(s, x) \in Seq(T \cup {x})
         /\ \E U : Append(s, x) \in Seq(U)
<1>1. s \in Seq(T \cup {x})
  <2>1. \A i \in 1 .. Len(s) : s[i] \in T \cup {x}
    BY ElementOfSeq
  <2>2. QED
    BY <2>1
<1>2. Append(s, x) \in Seq(T \cup {x})
  BY <1>1, AppendProperties
<1>3. QED
  BY <1>1, <1>2

LEMMA StartExtractType ==
  ASSUME IType, NEW b \in Boxes, StartExtract(b)
  PROVE  IType'
<1>1. b \in [min : Points, max : Points]
  BY BoxAssumption
<1>2. 0 \in RelIds
  BY LimitAssumption DEF RelIds
<1>3. out' \in Seq({})
  BY DEF StartExtract
<1>4. ReaderType'
  BY <1>1, <1>2, <1>3, BoxCellsType DEF StartExtract, ReaderType
<1>5. QED
  BY <1>4, ReaderStep DEF StartExtract

LEMMA EnterCellType == IType /\ EnterCell => IType'
<1> SUFFICES ASSUME IType, EnterCell  PROVE IType'
  OBVIOUS
<1>1. FirstCell \in Cells
  BY FirstCellType DEF EnterCell, IType, ReaderType
<1>2. head_relation[FirstCell] \in RelIds /\ cell_ways[FirstCell] \subseteq WayIds
  BY <1>1 DEF IType, FilesType
<1>3. ReaderType'
  BY <1>2 DEF EnterCell, IType, ReaderType
<1>4. QED
  BY <1>3, ReaderStep DEF EnterCell

\* The references of a list that ends are those of its places.
LEMMA RefsAtType ==
  ASSUME IType, NEW offset \in RefIndex, Ended(offset)
  PROVE  RefsAt(offset) \in Seq(Int)
<1> DEFINE S == {i \in offset .. MAX_REF_INDEX : node_refs[i] < 0}
           end == Min(S)
<1>1. S # {} /\ S \subseteq Nat
  BY DEF Ended, RefIndex
<1>2. end \in S
  BY <1>1, MinIn
<1>3. end \in offset .. MAX_REF_INDEX
  BY <1>2
<1>4. RefsAt(offset) = [i \in 1 .. end - offset + 1 |->
         IF offset + i - 1 = end THEN -node_refs[end] ELSE node_refs[offset + i - 1]]
  BY DEF RefsAt
<1> HIDE DEF S, end
<1>5. offset \in Nat /\ \A i \in offset .. MAX_REF_INDEX : node_refs[i] \in Int
  BY RefAssumption DEF IType, FilesType, RefIndex
<1>6. end - offset + 1 \in Nat
  BY <1>3, <1>5, RefAssumption
<1>7. \A i \in 1 .. end - offset + 1 : offset + i - 1 \in offset .. MAX_REF_INDEX
  BY <1>3, <1>5, RefAssumption
<1>8. \A i \in 1 .. end - offset + 1 :
        (IF offset + i - 1 = end THEN -node_refs[end] ELSE node_refs[offset + i - 1]) \in Int
  BY <1>3, <1>5, <1>7
<1>9. QED
  BY <1>4, <1>6, <1>8

\* So are the references of all places from one on.
LEMMA RefsOnwardType ==
  ASSUME IType, NEW offset \in RefIndex
  PROVE  RefsOnward(offset) \in Seq(Int)
<1>1. offset \in Nat /\ MAX_REF_INDEX - offset + 1 \in Nat
  BY RefAssumption DEF RefIndex
<1>2. \A i \in 1 .. MAX_REF_INDEX - offset + 1 : node_refs[offset + i - 1] \in Int
  BY <1>1, RefAssumption DEF IType, FilesType, RefIndex
<1>3. QED
  BY <1>1, <1>2 DEF RefsOnward

\* Whatever references are walked, the output remains a sequence.
LEMMA WalkType ==
  ASSUME IType, NEW refs \in Seq(Int)
  PROVE  \E U : FoldLeft(WriteNode, [seen |-> seen, out |-> out], refs).out \in Seq(U)
<1> DEFINE start == [seen |-> seen, out |-> out]
<1>2. PICK T : out \in Seq(T)
  BY DEF IType, ReaderType
<1> DEFINE U == T \cup {NodeOut(n) : n \in Int}
           S == seen \cup Int
           A == [seen : SUBSET S, out : Seq(U)]
<1>3. start \in A
  <2>1. out \in Seq(U)
    <3>1. \A i \in 1 .. Len(out) : out[i] \in U
      BY <1>2, ElementOfSeq
    <3>2. QED
      BY <1>2, <3>1
  <2> HIDE DEF U
  <2>2. QED
    BY <2>1
<1>4. ASSUME NEW a \in A, NEW n \in Int  PROVE WriteNode(a, n) \in A
  <2>1. NodeOut(n) \in U /\ n \in S
    OBVIOUS
  <2> HIDE DEF U, S
  <2>2. Append(a.out, NodeOut(n)) \in Seq(U) /\ a.seen \cup {n} \in SUBSET S
    BY <2>1, AppendProperties
  <2>3. QED
    BY <2>2 DEF WriteNode
<1> DEFINE written == FoldLeft(WriteNode, start, refs)
<1>5. written \in A
  <2> HIDE DEF A, start
  <2>1. Writing!Fold(start, refs) \in A
    BY <1>3, <1>4, Writing!FoldType
  <2>2. QED
    BY <2>1, FoldsAreFolds
<1>6. written.out \in Seq(U)
  <2> HIDE DEF written, U
  <2>1. QED
    BY <1>5
<1> HIDE DEF U
<1>7. QED
  BY <1>6

\* The references that a way's node stage walks, and where they are of use.
LEMMA WalkedRefs ==
  ASSUME IType, NEW w \in WayIds
  PROVE  LET offset == ways[w].node_ref_offset
         IN  /\ Ended(offset) => RefsAt(offset) \in Seq(Int)
             /\ Ended(0) => RefsOnward(offset) \o RefsAt(0) \in Seq(Int)
             /\ RefsOnward(offset) \o RefsOnward(0) \in Seq(Int)
<1>1. ways[w].node_ref_offset \in RefIndex /\ 0 \in RefIndex
  BY RefAssumption DEF IType, FilesType, WayRec, RefIndex
<1>2. \A offset \in RefIndex : RefsOnward(offset) \in Seq(Int)
  BY RefsOnwardType
<1>3. \A offset \in RefIndex : Ended(offset) => RefsAt(offset) \in Seq(Int)
  BY RefsAtType
<1>4. QED
  BY <1>1, <1>2, <1>3, ConcatProperties

LEMMA WriteNodesType ==
  ASSUME IType, NEW w \in WayIds, WriteNodes(w)
  PROVE  IType'
<1>1. \E U : out' \in Seq(U)
  BY WalkedRefs, WalkType DEF WriteNodes
<1>2. ReaderType'
  BY <1>1 DEF WriteNodes, IType, ReaderType
<1>3. QED
  BY <1>2, ReaderStep DEF WriteNodes

LEMMA WalkRoundType ==
  ASSUME IType, NEW w \in WayIds, WalkRound(w)
  PROVE  IType'
<1>1. \E U : out' \in Seq(U)
  BY WalkedRefs, WalkType DEF WalkRound
<1>2. ReaderType'
  BY <1>1 DEF WalkRound, IType, ReaderType
<1>3. QED
  BY <1>2, ReaderStep DEF WalkRound

LEMMA WalkForeverType ==
  ASSUME IType, NEW w \in WayIds, WalkForever(w)
  PROVE  IType'
<1>1. \E U : out' \in Seq(U)
  BY WalkedRefs, WalkType DEF WalkForever
<1>2. ReaderType'
  BY <1>1 DEF WalkForever, IType, ReaderType
<1>3. QED
  BY <1>2, ReaderStep DEF WalkForever

LEMMA WriteWayType ==
  ASSUME IType, NEW w \in WayIds, WriteWay(w)
  PROVE  IType'
<1>1. \E U : out' \in Seq(U)
  BY AppendAny DEF WriteWay, IType, ReaderType
<1>2. ReaderType'
  BY <1>1 DEF WriteWay, IType, ReaderType
<1>3. QED
  BY <1>2, ReaderStep DEF WriteWay

LEMMA ReadPastEndType ==
  ASSUME IType, NEW w \in WayIds, ReadPastEnd(w)
  PROVE  IType'
<1>1. ReaderType'
  BY DEF ReadPastEnd, IType, ReaderType, scan
<1>2. QED
  BY <1>1, ReaderStep DEF ReadPastEnd

LEMMA WriteRelationType == IType /\ WriteRelation => IType'
<1> SUFFICES ASSUME IType, WriteRelation  PROVE IType'
  OBVIOUS
<1>1. \E U : out' \in Seq(U)
  BY AppendAny DEF WriteRelation, IType, ReaderType
<1>2. relations[relation_id].next \in RelIds
  BY DEF IType, ReaderType, FilesType, RelRec
<1>3. ReaderType'
  BY <1>1, <1>2 DEF WriteRelation, IType, ReaderType
<1>4. QED
  BY <1>3, ReaderStep DEF WriteRelation

LEMMA EndStageType == IType /\ EndStage => IType'
<1> SUFFICES ASSUME IType, EndStage  PROVE IType'
  OBVIOUS
<1>1. BoxCells(box) \subseteq Cells
  BY BoxCellsType DEF IType, ReaderType
<1>2. StageAfter(stage) \in {"WAY", "RELATION", "done"}
  BY StagesInOrder DEF EndStage
<1>3. ReaderType'
  BY <1>1, <1>2 DEF EndStage, IType, ReaderType
<1>4. QED
  BY <1>3, ReaderStep DEF EndStage

LEMMA NextType == IType /\ [Next]_vars => IType'
<1> SUFFICES ASSUME IType, [Next]_vars  PROVE IType'
  OBVIOUS
<1>1. CASE Load
  BY <1>1, LoadType
<1>2. CASE Extract
  BY <1>2, EnterCellType, WriteRelationType, EndStageType, WriteNodesType, WalkRoundType,
     WalkForeverType, WriteWayType, ReadPastEndType DEF Extract
<1>3. CASE \E b \in Boxes : StartExtract(b)
  BY <1>3, StartExtractType
<1>4. CASE Kill
  BY <1>4, StopType
<1>5. CASE Overrun \/ UNCHANGED vars
  <2>1. UNCHANGED <<loader, counters, files, reader>>
    BY <1>5 DEF Overrun, vars
  <2>2. ReaderType'
    BY <2>1 DEF IType, ReaderType, reader, scan
  <2>3. QED
    BY <2>1, <2>2, ReaderStep
<1>6. QED
  BY <1>1, <1>2, <1>3, <1>4, <1>5 DEF Next

(* The arrays of one database hold what their types say, whatever is       *)
(* loaded and extracted, and wherever the loader stops (vex.c:459-599).    *)
THEOREM Invariance == Spec => [](TypeOK /\ IType)
<1>1. IType => TypeOK
  BY DEF IType, LoaderType, FilesType, ReaderType, TypeOK, NodeRec, WayRec, RelRec
<1>2. QED
  BY <1>1, InitType, NextType, PTL DEF Spec

-----------------------------------------------------------------------------
(* What the loader has stored.                                             *)

\* The coordinates of a node and its cell, as the elements give them.
CoordIn(elems, n) ==
  LET given == {e \in ToSet(elems) : e.type = "NODE"}
  IN  IF \E e \in given : e.id = n THEN (CHOOSE e \in given : e.id = n).coord ELSE Origin
CellIn(elems, n) == get_grid_cell_for_coord(CoordIn(elems, n))

NodeFirst(e) == Len(e.members) > 1 /\ e.members[1].type = "NODE"
FirstId(e)   == e.members[1].id % ID_WIDTH

Indexed(e) == e.refs # <<>> /\ e.id \in cell_ways[CellIn(input, e.refs[1])]

\* The i-th element has been stored under its id and indexed.
Past(i) == i < at \/ (i = at /\ pc \in {"tags", "dead", "overrun"})

NodesStored ==
  /\ \A i \in 1 .. Len(input) :
       input[i].type = "NODE" /\ (i < at \/ (i = at /\ pc = "tags")) =>
         input[i].id \in NodeIds /\ nodes[input[i].id].coord = input[i].coord
  /\ \A n \in NodeIds :
       (\A i \in 1 .. Len(input) : i =< at => ~(input[i].type = "NODE" /\ input[i].id = n))
       => nodes[n].coord = Origin

WaysIndexed ==
  /\ \A c \in Cells : \A w \in cell_ways[c] :
       \E i \in 1 .. Len(input) :
         /\ Past(i) /\ input[i].type = "WAY" /\ input[i].id = w /\ input[i].refs # <<>>
         /\ c = CellIn(input, input[i].refs[1])
  /\ \A i \in 1 .. Len(input) :
       input[i].type = "WAY" /\ (i < at \/ (i = at /\ pc = "tags")) => Indexed(input[i])

\* Relations that can be in a list, and those the loader has put into one.
ListAt(i, r) == /\ i \in 1 .. Len(input) /\ input[i].type = "RELATION"
                /\ input[i].id = r /\ input[i].members # <<>>
Linked(r) == \E i \in 1 .. at - 1 : ListAt(i, r)

(* The lists do not meet: a linked relation has one predecessor, which is  *)
(* the head of one cell or one other relation.                             *)
Chained ==
  /\ \A c \in Cells : head_relation[c] # 0 => Linked(head_relation[c])
  /\ \A c, d \in Cells : head_relation[c] = head_relation[d] /\ c # d => head_relation[c] = 0
  /\ \A r \in RelIds : Linked(r) /\ relations[r].next # 0 =>
       /\ Linked(relations[r].next) /\ relations[r].next # r
       /\ \A c \in Cells : head_relation[c] # relations[r].next
       /\ \A q \in RelIds : Linked(q) /\ relations[q].next = relations[r].next => q = r

\* Between the two stores that put a relation at the head of a list.
Linking ==
  pc = "head" =>
    LET c == get_grid_cell_for_relation(Elem.id)
    IN  c \in Cells /\ relations[Elem.id].next = head_relation[c]

(* Every linked relation that begins with a node is in the list of its     *)
(* cell: a set with the head that is closed under next has it.             *)
Reached ==
  \A i \in 1 .. at - 1 : \A S \in SUBSET RelIds :
    /\ ListAt(i, input[i].id) /\ NodeFirst(input[i])
    /\ head_relation[CellIn(input, FirstId(input[i]))] \in S
    /\ \A r \in S : Linked(r) => relations[r].next \in S
    => input[i].id \in S

(* Those relations are in no other list: L gives the members of the list   *)
(* of each cell.                                                           *)
Lists(L) ==
  /\ \A c \in Cells :
       /\ L[c] \subseteq RelIds /\ head_relation[c] \in L[c] \cup {0}
       /\ \A r \in L[c] : Linked(r) /\ relations[r].next \in L[c] \cup {0}
  /\ \A i \in 1 .. at - 1 : \A c \in Cells :
       ListAt(i, input[i].id) /\ NodeFirst(input[i]) /\ input[i].id \in L[c] =>
         c = CellIn(input, FirstId(input[i]))

FirstKept ==
  /\ pc \in {"members", "tags", "next", "head"} /\ Elem.type = "RELATION"
  /\ (pc = "members" => item > 1) /\ NodeFirst(Elem)
  => LET m == rel_members[relations[Elem.id].member_offset]
     IN  m.element_type = "NODE" /\ m.id = FirstId(Elem)

Resting ==
  /\ stage # "none" => Stopped
  /\ pc = "loaded" => at > Len(input)

Stored == /\ NodesStored /\ WaysIndexed /\ Chained /\ Linking /\ Reached
          /\ (\E L : Lists(L)) /\ FirstKept /\ Resting

LEMMA CoordOfIn == \A n : CoordOf(n) = CoordIn(input, n)
BY DEF CoordOf, CoordIn, Given

\* The i-th and the j-th element: their types, ids and order.
LEMMA InputOrder ==
  ASSUME input \in Inputs, NEW i \in 1 .. Len(input), NEW j \in 1 .. Len(input)
  PROVE  /\ input[i].type = input[j].type /\ input[i].id = input[j].id => i = j
         /\ i < j /\ input[j].type = "NODE" => input[i].type = "NODE"
         /\ i < j /\ input[i].type = "RELATION" => input[j].type = "RELATION"
BY InputAssumption

\* Once a way or a relation is being handled, all nodes are stored.
LEMMA CoordStored ==
  ASSUME IType, NodesStored, NEW n \in NodeIds, at > Len(input) \/ Elem.type # "NODE"
  PROVE  CoordIn(input, n) = nodes[n].coord
<1> DEFINE given == {e \in ToSet(input) : e.type = "NODE"}
<1>1. /\ input \in Inputs /\ Len(input) \in Nat /\ at \in 1 .. Len(input) + 1
      /\ ToSet(input) = {input[i] : i \in 1 .. Len(input)}
  <2>1. input \in Inputs /\ at \in 1 .. Len(input) + 1 /\ input \in Seq(Elements)
    BY InputType DEF IType, LoaderType
  <2>2. DOMAIN input = 1 .. Len(input) /\ Len(input) \in Nat
    BY <2>1
  <2>3. QED
    BY <2>1, <2>2 DEF ToSet
<1>2. ASSUME NEW i \in 1 .. Len(input), input[i].type = "NODE"  PROVE i < at
  BY <1>1, <1>2, InputOrder DEF Elem
<1>3. CASE \E e \in given : e.id = n
  <2> DEFINE e == CHOOSE e \in given : e.id = n
  <2>1. e \in given /\ e.id = n
    BY <1>3
  <2>2. CoordIn(input, n) = e.coord
    BY <1>3 DEF CoordIn
  <2> HIDE DEF e
  <2>3. PICK i \in 1 .. Len(input) : e = input[i] /\ input[i].type = "NODE"
    BY <1>1, <2>1
  <2>4. nodes[n].coord = e.coord
    BY <1>2, <2>1, <2>3 DEF NodesStored
  <2>5. QED
    BY <2>2, <2>4
<1>4. CASE ~\E e \in given : e.id = n
  <2>1. \A i \in 1 .. Len(input) : ~(input[i].type = "NODE" /\ input[i].id = n)
    BY <1>1, <1>4
  <2>2. CoordIn(input, n) = Origin
    BY <1>4 DEF CoordIn
  <2>3. QED
    BY <2>1, <2>2 DEF NodesStored
<1>5. QED
  BY <1>3, <1>4

LEMMA InitStored == Init => Stored
<1> SUFFICES ASSUME Init  PROVE Stored
  OBVIOUS
<1> USE DEF Init
<1>1. NodesStored
  BY DEF NodesStored
<1>2. WaysIndexed
  BY DEF WaysIndexed
<1>3. \A r : ~Linked(r)
  BY DEF Linked
<1>4. Chained /\ Linking /\ Reached
  BY <1>3 DEF Chained, Linking, Reached
<1>5. Lists([c \in Cells |-> {}])
  BY DEF Lists
<1>6. FirstKept /\ Resting
  BY DEF FirstKept, Resting
<1>7. QED
  BY <1>1, <1>2, <1>4, <1>5, <1>6 DEF Stored

-----------------------------------------------------------------------------
(* Most steps leave most of it alone.                                      *)

KeepsNodes ==
  /\ input' = input /\ \A n \in NodeIds : nodes'[n].coord = nodes[n].coord
  /\ \/ at' = at /\ (pc' = "tags" /\ Elem.type = "NODE" => pc = "tags")
     \/ at' = at + 1 /\ pc' = "element" /\ (Elem.type = "NODE" => pc = "tags")
KeepsWays ==
  /\ input' = input /\ cell_ways' = cell_ways
  /\ \/ /\ at' = at /\ (pc' = "tags" /\ Elem.type = "WAY" => pc = "tags")
        /\ Elem.type = "WAY" /\ pc \in {"tags", "dead", "overrun"} =>
             pc' \in {"tags", "dead", "overrun"}
     \/ at' = at + 1 /\ pc' = "element" /\ (Elem.type = "WAY" => pc = "tags")
KeepsLists ==
  /\ input' = input /\ head_relation' = head_relation /\ pc' # "head"
  /\ \A r \in RelIds : relations'[r].next = relations[r].next
  /\ at' = at \/ (at' = at + 1 /\ ~ListAt(at, Elem.id))

LEMMA KeepNodes ==
  ASSUME IType, NodesStored, KeepsNodes
  PROVE  NodesStored'
<1>1. at \in Nat /\ Len(input) \in Nat
  BY InputType DEF IType, LoaderType
<1>2. ASSUME NEW i \in 1 .. Len(input'), input'[i].type = "NODE",
             i < at' \/ (i = at' /\ pc' = "tags")
      PROVE  input'[i].id \in NodeIds /\ nodes'[input'[i].id].coord = input'[i].coord
  <2>1. i < at \/ (i = at /\ pc = "tags")
    BY <1>1, <1>2 DEF KeepsNodes, Elem
  <2>2. QED
    BY <1>2, <2>1 DEF KeepsNodes, NodesStored
<1>3. ASSUME NEW n \in NodeIds,
             \A i \in 1 .. Len(input') :
               i =< at' => ~(input'[i].type = "NODE" /\ input'[i].id = n)
      PROVE  nodes'[n].coord = Origin
  <2>1. \A i \in 1 .. Len(input) : i =< at => ~(input[i].type = "NODE" /\ input[i].id = n)
    BY <1>1, <1>3 DEF KeepsNodes
  <2>2. QED
    BY <2>1 DEF KeepsNodes, NodesStored
<1>4. QED
  BY <1>2, <1>3 DEF NodesStored

LEMMA KeepWays ==
  ASSUME IType, WaysIndexed, KeepsWays
  PROVE  WaysIndexed'
<1>1. at \in Nat /\ Len(input) \in Nat /\ input' = input /\ cell_ways' = cell_ways
  BY InputType DEF IType, LoaderType, KeepsWays
<1>2. ASSUME NEW i \in 1 .. Len(input), input[i].type = "WAY", Past(i)  PROVE Past(i)'
  BY <1>1, <1>2 DEF KeepsWays, Past, Elem
<1>3. ASSUME NEW i \in 1 .. Len(input), input[i].type = "WAY",
             i < at' \/ (i = at' /\ pc' = "tags")
      PROVE  i < at \/ (i = at /\ pc = "tags")
  BY <1>1, <1>3 DEF KeepsWays, Elem
<1>4. ASSUME NEW c \in Cells, NEW w \in cell_ways[c]
      PROVE  \E i \in 1 .. Len(input) :
               /\ Past(i)' /\ input[i].type = "WAY" /\ input[i].id = w /\ input[i].refs # <<>>
               /\ c = CellIn(input, input[i].refs[1])
  BY <1>2 DEF WaysIndexed
<1>5. ASSUME NEW i \in 1 .. Len(input), input[i].type = "WAY",
             i < at' \/ (i = at' /\ pc' = "tags")
      PROVE  Indexed(input[i])
  BY <1>3, <1>5 DEF WaysIndexed
<1>6. \A e : Indexed(e)' <=> Indexed(e)
  BY <1>1 DEF Indexed
<1>7. QED
  BY <1>1, <1>4, <1>5, <1>6 DEF WaysIndexed

LEMMA KeepLists ==
  ASSUME IType, Chained, Reached, \E L : Lists(L), KeepsLists
  PROVE  Chained' /\ Linking' /\ Reached' /\ \E L : Lists(L)'
<1>1. /\ at \in Nat \ {0} /\ Len(input) \in Nat /\ input' = input
      /\ head_relation' = head_relation
      /\ \A r \in RelIds : relations'[r].next = relations[r].next
  BY InputType DEF IType, LoaderType, KeepsLists
<1>2. \A i, r : ListAt(i, r)' <=> ListAt(i, r)
  BY <1>1 DEF ListAt
<1>3. ASSUME NEW i \in 1 .. at' - 1, NEW r, ListAt(i, r)  PROVE i \in 1 .. at - 1
  BY <1>1, <1>3 DEF KeepsLists, ListAt, Elem
<1>4. \A i \in 1 .. at - 1 : i \in 1 .. at' - 1
  BY <1>1 DEF KeepsLists
<1>5. \A r : Linked(r)' <=> Linked(r)
  BY <1>2, <1>3, <1>4 DEF Linked
<1>6. \A r : Linked(r) => r \in Nat \ {0}
  <2>1. \A i \in 1 .. Len(input) : input[i].type = "RELATION" => input[i].id \in Nat \ {0}
    BY InputType DEF IType, LoaderType, Elements, NodeElems, WayElems, RelElems
  <2>2. QED
    BY <2>1 DEF Linked, ListAt
<1>7. Chained'
  BY <1>1, <1>5 DEF Chained
<1>8. Linking'
  BY DEF KeepsLists, Linking
<1>9. Reached'
  <2>1. ASSUME NEW i \in 1 .. at' - 1, NEW S \in SUBSET RelIds,
               ListAt(i, input[i].id), NodeFirst(input[i]),
               head_relation[CellIn(input, FirstId(input[i]))] \in S,
               \A r \in S : Linked(r) => relations'[r].next \in S
        PROVE  input[i].id \in S
    <3>1. i \in 1 .. at - 1
      BY <1>3, <2>1
    <3>2. \A r \in S : Linked(r) => relations[r].next \in S
      BY <1>1, <2>1
    <3>3. QED
      BY <2>1, <3>1, <3>2 DEF Reached
  <2>2. QED
    BY <1>1, <1>2, <1>5, <2>1 DEF Reached
<1>10. \E L : Lists(L)'
  <2>1. PICK L : Lists(L)
    OBVIOUS
  <2>2. \A c \in Cells :
          /\ L[c] \subseteq RelIds /\ head_relation'[c] \in L[c] \cup {0}
          /\ \A r \in L[c] : Linked(r)' /\ relations'[r].next \in L[c] \cup {0}
    BY <1>1, <1>5, <2>1 DEF Lists
  <2>3. ASSUME NEW i \in 1 .. at' - 1, NEW c \in Cells, ListAt(i, input[i].id),
               NodeFirst(input[i]), input[i].id \in L[c]
        PROVE  c = CellIn(input, FirstId(input[i]))
    BY <1>3, <2>1, <2>3 DEF Lists
  <2>4. Lists(L)'
    BY <1>1, <1>2, <2>2, <2>3 DEF Lists
  <2>5. QED
    BY <2>4
<1>11. QED
  BY <1>7, <1>8, <1>9, <1>10

Quiet == KeepsNodes /\ KeepsWays /\ KeepsLists

\* Steps of the loader that only store what no list, cell or coordinate shows.
LEMMA QuietLoad ==
  ASSUME IType,
         \/ HandleWay \/ CopyRef \/ EndRefs \/ ReadNoRef \/ CopyMember \/ EndMembers
         \/ OverrunTags \/ Die \/ FinishLoad \/ Kill
  PROVE  Quiet
<1>1. input' = input /\ at' = at /\ UNCHANGED <<nodes, relations, cell_ways, head_relation>>
  BY DEF HandleWay, CopyRef, EndRefs, ReadNoRef, CopyMember, EndMembers, OverrunTags,
         Die, FinishLoad, Kill, StartList, Continue, files, lists
<1>2. pc' = "tags" => pc = "members" /\ Elem.type = "RELATION"
  <2>1. pc = "members" => Elem.type = "RELATION"
    BY DEF IType, Current
  <2>2. pc' = "tags" => pc = "members"
    BY DEF HandleWay, CopyRef, EndRefs, ReadNoRef, CopyMember, EndMembers, OverrunTags,
           Die, FinishLoad, Kill, StartList, Continue
  <2>3. QED
    BY <2>1, <2>2
<1>3. pc' # "head"
  BY DEF HandleWay, CopyRef, EndRefs, ReadNoRef, CopyMember, EndMembers, OverrunTags,
         Die, FinishLoad, Kill, StartList, Continue, Stopped
<1>4. pc \in {"tags", "dead", "overrun"} => pc' \in {"tags", "dead", "overrun"}
  BY DEF HandleWay, CopyRef, EndRefs, ReadNoRef, CopyMember, EndMembers, OverrunTags,
         Die, FinishLoad, Kill, StartList, Continue, Handles, Stopped
<1>5. QED
  BY <1>1, <1>2, <1>3, <1>4 DEF Quiet, KeepsNodes, KeepsWays, KeepsLists

LEMMA QuietRelation ==
  ASSUME IType, HandleRelation
  PROVE  Quiet
<1>1. /\ Elem.type = "RELATION" /\ pc = "element" /\ Elem.id \in RelIds
      /\ relations \in [RelIds -> RelRec]
  BY Taken DEF HandleRelation, Handles, IType, FilesType
<1>2. input' = input /\ UNCHANGED <<nodes, cell_ways, head_relation>>
  BY DEF HandleRelation, StartList, NextElement
<1>3. \A r \in RelIds : relations'[r].next = relations[r].next
  <2>1. CASE Elem.members = <<>>
    BY <2>1 DEF HandleRelation
  <2>2. CASE Elem.members # <<>>
    <3>1. relations' = [relations EXCEPT ![Elem.id].member_offset = n_rel_members]
      BY <2>2 DEF HandleRelation
    <3>2. QED
      BY <1>1, <3>1 DEF RelRec
  <2>3. QED
    BY <2>1, <2>2
<1>4. \/ at' = at + 1 /\ Elem.members = <<>> /\ pc' = "element"
      \/ at' = at /\ pc' \in {"dead", "members"}
  BY DEF HandleRelation, StartList, NextElement
<1>5. QED
  BY <1>1, <1>2, <1>3, <1>4 DEF Quiet, KeepsNodes, KeepsWays, KeepsLists, ListAt, Elem

LEMMA QuietTags ==
  ASSUME IType, WriteTags
  PROVE  Quiet
<1> DEFINE offset == IF NewCells = <<>> THEN 0 ELSE Position
<1>1. pc = "tags" /\ Elem.type \in {"NODE", "WAY", "RELATION"} /\ InFile(Elem)
  BY NewCellsType DEF WriteTags, Elements, NodeElems, WayElems, RelElems, IType, Current, Busy
<1>2. /\ UNCHANGED <<cell_ways, head_relation>>
      /\ Elem.type = "NODE" =>
           /\ nodes' = [nodes EXCEPT ![Elem.id].tags = offset]
           /\ NextElement /\ UNCHANGED <<ways, relations>>
      /\ Elem.type = "WAY" =>
           /\ ways' = [ways EXCEPT ![Elem.id].tags = offset]
           /\ NextElement /\ UNCHANGED <<nodes, relations>>
      /\ Elem.type = "RELATION" =>
           /\ relations' = [relations EXCEPT ![Elem.id].tags = offset]
           /\ Continue("next") /\ UNCHANGED <<nodes, ways>>
  BY DEF WriteTags
<1> HIDE DEF offset
<1>3. \A n \in NodeIds : nodes'[n].coord = nodes[n].coord
  <2>1. CASE Elem.type = "NODE"
    <3>1. Elem.id \in NodeIds /\ nodes \in [NodeIds -> NodeRec]
      BY <1>1, <2>1 DEF IType, FilesType, InFile
    <3>2. nodes' = [nodes EXCEPT ![Elem.id].tags = offset]
      BY <1>2, <2>1
    <3>3. QED
      BY <3>1, <3>2 DEF NodeRec
  <2>2. QED
    BY <1>1, <1>2, <2>1
<1>4. \A r \in RelIds : relations'[r].next = relations[r].next
  <2>1. CASE Elem.type = "RELATION"
    BY <1>1, <1>2, <2>1 DEF IType, FilesType, RelRec, InFile
  <2>2. QED
    BY <1>1, <1>2, <2>1
<1>5. \/ Elem.type # "RELATION" /\ at' = at + 1 /\ pc' = "element"
      \/ Elem.type = "RELATION" /\ at' = at /\ pc' = "next"
  BY <1>1, <1>2 DEF NextElement, Continue
<1>6. input' = input
  BY <1>1, <1>2 DEF NextElement, Continue
<1>7. QED
  BY <1>1, <1>2, <1>3, <1>4, <1>5, <1>6
     DEF Quiet, KeepsNodes, KeepsWays, KeepsLists, ListAt, Elem

\* A node's coordinates are stored under an id that no other node has.
LEMMA NodeStored ==
  ASSUME IType, NodesStored, HandleNode
  PROVE  NodesStored' /\ KeepsWays /\ KeepsLists
<1>1. /\ at \in 1 .. Len(input) /\ Elem.id \in NodeIds /\ Elem.type = "NODE"
      /\ pc = "element" /\ pc' = "tags" /\ input \in Inputs /\ Len(input) \in Nat
  BY Taken, InputType DEF HandleNode, Handles, Continue, IType, LoaderType
<1>2. /\ nodes' = [nodes EXCEPT ![Elem.id].coord = Elem.coord]
      /\ input' = input /\ at' = at /\ UNCHANGED <<cell_ways, head_relation, relations>>
  BY DEF HandleNode, Continue
<1>3. \A n \in NodeIds :
        nodes'[n].coord = IF n = Elem.id THEN Elem.coord ELSE nodes[n].coord
  BY <1>1, <1>2 DEF IType, FilesType, NodeRec
<1>4. ASSUME NEW i \in 1 .. Len(input), input[i].type = "NODE", i =< at
      PROVE  input[i].id \in NodeIds /\ nodes'[input[i].id].coord = input[i].coord
  <2>1. CASE i = at
    BY <1>1, <1>3, <2>1 DEF Elem
  <2>2. CASE i < at
    <3>1. input[i].id # Elem.id
      BY <1>1, <1>4, <2>2, InputOrder DEF Elem
    <3>2. QED
      BY <1>3, <1>4, <2>2, <3>1 DEF NodesStored
  <2>3. QED
    BY <1>1, <1>4, <2>1, <2>2
<1>5. ASSUME NEW n \in NodeIds,
             \A i \in 1 .. Len(input) : i =< at => ~(input[i].type = "NODE" /\ input[i].id = n)
      PROVE  nodes'[n].coord = Origin
  <2>1. n # Elem.id
    BY <1>1, <1>5 DEF Elem
  <2>2. QED
    BY <1>3, <1>5, <2>1 DEF NodesStored
<1>6. NodesStored'
  BY <1>1, <1>2, <1>4, <1>5 DEF NodesStored
<1>7. QED
  BY <1>1, <1>2, <1>6 DEF KeepsWays, KeepsLists

\* A way is indexed in the cell of its first node, which is stored by then.
LEMMA WayIndexed ==
  ASSUME IType, NodesStored, WaysIndexed, IndexWay
  PROVE  WaysIndexed' /\ KeepsNodes /\ KeepsLists
<1> DEFINE cell == get_grid_cell_for_coord(nodes[Elem.refs[1]].coord)
<1>1. /\ at \in 1 .. Len(input) /\ Elem.type = "WAY" /\ pc = "index" /\ pc' = "tags"
      /\ Elem.refs # <<>> /\ input \in Inputs /\ Len(input) \in Nat
  BY InputType DEF IndexWay, Continue, IType, LoaderType, Current, Busy
<1>2. Elem.refs[1] \in NodeIds
  BY <1>1, InputAssumption DEF Elem
<1>3. cell = CellIn(input, Elem.refs[1]) /\ cell \in Cells
  BY <1>1, <1>2, CoordStored, CellType DEF CellIn, IType, FilesType, NodeRec
<1>4. /\ cell_ways' = [cell_ways EXCEPT ![cell] = @ \cup {Elem.id}]
      /\ input' = input /\ at' = at /\ UNCHANGED <<nodes, head_relation, relations>>
  BY DEF IndexWay, Continue
<1> HIDE DEF cell
<1>5. /\ cell_ways'[cell] = cell_ways[cell] \cup {Elem.id}
      /\ \A c \in Cells : cell_ways[c] \subseteq cell_ways'[c]
      /\ \A c \in Cells : \A w \in cell_ways'[c] : w \in cell_ways[c] \/ (c = cell /\ w = Elem.id)
  BY <1>3, <1>4 DEF IType, FilesType
<1>6. ASSUME NEW c \in Cells, NEW w \in cell_ways'[c]
      PROVE  \E i \in 1 .. Len(input) :
               /\ Past(i)' /\ input[i].type = "WAY" /\ input[i].id = w /\ input[i].refs # <<>>
               /\ c = CellIn(input, input[i].refs[1])
  <2>1. CASE w \in cell_ways[c]
    <3>1. \A i \in 1 .. Len(input) : Past(i) => Past(i)'
      BY <1>1, <1>4 DEF Past
    <3>2. QED
      BY <2>1, <3>1 DEF WaysIndexed
  <2>2. CASE c = cell /\ w = Elem.id
    <3>1. ASSUME NEW i \in 1 .. Len(input), i = at
          PROVE  /\ Past(i)' /\ input[i].type = "WAY" /\ input[i].id = w
                 /\ input[i].refs # <<>> /\ c = CellIn(input, input[i].refs[1])
      BY <1>1, <1>3, <1>4, <2>2, <3>1 DEF Past, Elem
    <3>2. QED
      BY <1>1, <3>1
  <2>3. QED
    BY <1>5, <2>1, <2>2
<1>7. ASSUME NEW i \in 1 .. Len(input), input[i].type = "WAY", i =< at
      PROVE  Indexed(input[i])'
  <2>1. CASE i = at
    BY <1>1, <1>3, <1>4, <1>5, <2>1 DEF Indexed, Elem
  <2>2. CASE i < at
    <3>1. Indexed(input[i])
      BY <1>7, <2>2 DEF WaysIndexed
    <3>2. CASE CellIn(input, input[i].refs[1]) \in Cells
      BY <1>4, <1>5, <3>1, <3>2 DEF Indexed
    <3>3. CASE CellIn(input, input[i].refs[1]) \notin Cells
      BY <1>3, <1>4, <3>1, <3>3 DEF Indexed, IType, FilesType
    <3>4. QED
      BY <3>2, <3>3
  <2>3. QED
    BY <1>1, <1>7, <2>1, <2>2
<1>8. WaysIndexed'
  BY <1>1, <1>4, <1>6, <1>7 DEF WaysIndexed
<1>9. QED
  BY <1>1, <1>4, <1>8 DEF KeepsNodes, KeepsLists

-----------------------------------------------------------------------------
(* Putting a relation into the list of its cell.                           *)

\* The relation being linked: what holds until it is in its list.
LEMMA BeingLinked ==
  ASSUME IType, pc \in {"next", "head"}
  PROVE  /\ at \in 1 .. Len(input) /\ Elem.id \in RelIds \ {0} /\ ListAt(at, Elem.id)
         /\ ~Linked(Elem.id) /\ Elem.type = "RELATION"
         /\ FirstInFile(rel_members[relations[Elem.id].member_offset])
<1>1. /\ at \in 1 .. Len(input) /\ Elem.type = "RELATION" /\ InFile(Elem)
      /\ input \in Inputs /\ Len(input) \in Nat
      /\ FirstInFile(rel_members[relations[Elem.id].member_offset])
  BY InputType DEF IType, LoaderType, Current, Busy
<1>2. Elem.id # 0
  BY <1>1, InputType DEF Elem, Elements, NodeElems, WayElems, RelElems
<1>3. ListAt(at, Elem.id) /\ Elem.id \in RelIds \ {0}
  BY <1>1, <1>2 DEF ListAt, InFile, Elem
<1>4. ASSUME NEW i \in 1 .. at - 1, ListAt(i, Elem.id)  PROVE FALSE
  BY <1>1, <1>4, InputOrder DEF ListAt, Elem
<1>5. QED
  BY <1>1, <1>3, <1>4 DEF Linked

LEMMA LinkedType ==
  ASSUME IType
  PROVE  \A r : Linked(r) => r # 0
<1>1. \A i \in 1 .. Len(input) : input[i].type = "RELATION" => input[i].id # 0
  BY InputType DEF IType, LoaderType, Elements, NodeElems, WayElems, RelElems
<1>2. QED
  BY <1>1 DEF Linked, ListAt

LEMMA OneMoreLinked ==
  ASSUME IType, pc \in {"next", "head"}, input' = input, at' = at + 1
  PROVE  /\ \A i, r : ListAt(i, r)' <=> ListAt(i, r)
         /\ \A r : Linked(r)' <=> Linked(r) \/ r = Elem.id
<1>1. at \in Nat \ {0} /\ ListAt(at, Elem.id)
  BY BeingLinked DEF ListAt
<1>2. \A i, r : ListAt(i, r)' <=> ListAt(i, r)
  BY DEF ListAt
<1>3. \A i : i \in 1 .. at' - 1 <=> i \in 1 .. at - 1 \/ i = at
  BY <1>1
<1>4. \A r : ListAt(at, r) <=> r = Elem.id
  BY <1>1 DEF ListAt
<1>5. QED
  BY <1>2, <1>3, <1>4 DEF Linked

LEMMA OwnCell ==
  ASSUME IType, NodesStored, FirstKept, pc \in {"next", "head"}, NodeFirst(Elem)
  PROVE  /\ get_grid_cell_for_relation(Elem.id) = CellIn(input, FirstId(Elem))
         /\ CellIn(input, FirstId(Elem)) \in Cells
<1> DEFINE m == rel_members[relations[Elem.id].member_offset]
<1>1. /\ at \in 1 .. Len(input) /\ Elem.type = "RELATION" /\ Elem.id \in RelIds
      /\ input \in Inputs /\ FirstInFile(m)
  BY BeingLinked DEF IType, LoaderType
<1>2. m.element_type = "NODE" /\ m.id = FirstId(Elem)
  BY <1>1 DEF FirstKept
<1>3. FirstId(Elem) \in Nat
  <2>1. Elem \in RelElems /\ Elem.members # <<>> /\ Len(Elem.members) > 1
    BY <1>1, InputType DEF Elem, Elements, NodeElems, WayElems, RelElems, NodeFirst
  <2>2. Elem.members[1].id \in Int
    <3>1. /\ 1 \in 1 .. Len(Elem.members)
          /\ Elem.members \in Seq([type : {"NODE", "WAY", "RELATION"}, id : Int, role : STRING])
      BY <2>1 DEF RelElems
    <3>2. Elem.members[1] \in [type : {"NODE", "WAY", "RELATION"}, id : Int, role : STRING]
      BY <3>1, ElementOfSeq
    <3>3. QED
      BY <3>2
  <2>3. QED
    BY <2>2, LimitAssumption DEF FirstId
<1>4. FirstId(Elem) \in NodeIds
  BY <1>1, <1>2, <1>3 DEF FirstInFile
<1>5. CoordIn(input, FirstId(Elem)) = nodes[FirstId(Elem)].coord
  BY <1>1, <1>4, CoordStored
<1>6. get_grid_cell_for_relation(Elem.id) = get_grid_cell_for_coord(nodes[FirstId(Elem)].coord)
  BY <1>2, <1>3 DEF get_grid_cell_for_relation
<1>7. get_grid_cell_for_coord(nodes[FirstId(Elem)].coord) \in Cells
  BY <1>4, CellType DEF IType, FilesType, NodeRec
<1>8. QED
  BY <1>5, <1>6, <1>7 DEF CellIn

\* The relation's own cell reads the same after its next was stored.
LEMMA NextKeepsCell ==
  ASSUME IType, NEW r \in RelIds, NEW v,
         relations' = [relations EXCEPT ![r].next = v],
         UNCHANGED <<rel_members, nodes, ways>>
  PROVE  /\ relations'[r].next = v
         /\ \A q \in RelIds \ {r} : relations'[q].next = relations[q].next
         /\ get_grid_cell_for_relation(r)' = get_grid_cell_for_relation(r)
<1>1. /\ relations'[r].next = v /\ relations'[r].member_offset = relations[r].member_offset
      /\ \A q \in RelIds \ {r} : relations'[q].next = relations[q].next
  BY DEF IType, FilesType, RelRec
<1>2. get_grid_cell_for_relation(r)' = get_grid_cell_for_relation(r)
  BY <1>1 DEF get_grid_cell_for_relation
<1>3. QED
  BY <1>1, <1>2

LEMMA NextStored ==
  ASSUME IType, NodesStored, Chained, Reached, NEW L, Lists(L), FirstKept, SetRelationNext
  PROVE  /\ KeepsNodes /\ KeepsWays
         /\ Chained' /\ Linking' /\ Reached' /\ Lists(L)'
<1>0. PICK e : e = Elem.id
  OBVIOUS
<1> DEFINE cell == get_grid_cell_for_relation(Elem.id)
<1>1. /\ at \in 1 .. Len(input) /\ Elem.id \in RelIds \ {0} /\ ListAt(at, Elem.id)
      /\ ~Linked(e) /\ Elem.type = "RELATION" /\ pc = "next"
      /\ FirstInFile(rel_members[relations[Elem.id].member_offset])
  BY <1>0, BeingLinked DEF SetRelationNext
<1>2. cell \in Cells \cup {NoCell}
  BY <1>1, RelationCellType
<1>3. /\ UNCHANGED <<counters, nodes, ways, cell_ways, head_relation, lists, reader>>
      /\ cell = NoCell => /\ relations' = [relations EXCEPT ![e].next = 0]
                          /\ NextElement
      /\ cell # NoCell =>
           /\ relations' = [relations EXCEPT ![e].next = head_relation[cell]]
           /\ Continue("head")
  BY <1>0 DEF SetRelationNext
<1>4. /\ cell = NoCell => relations'[e].next = 0
      /\ cell # NoCell => relations'[e].next = head_relation[cell]
      /\ \A q \in RelIds \ {e} : relations'[q].next = relations[q].next
      /\ get_grid_cell_for_relation(e)' = cell
  BY <1>0, <1>1, <1>3, NextKeepsCell DEF lists
<1>5. \A r : Linked(r) => r # e /\ r # 0
  BY <1>1, LinkedType
<1>6. KeepsNodes /\ KeepsWays
  BY <1>1, <1>3 DEF KeepsNodes, KeepsWays, NextElement, Continue
<1>7. input' = input /\ head_relation' = head_relation
  BY <1>3 DEF NextElement, Continue
<1> HIDE DEF cell
<1>8. CASE cell = NoCell
  <2>1. at' = at + 1 /\ pc' = "element"
    BY <1>3, <1>8 DEF NextElement
  <2>2. /\ \A i, r : ListAt(i, r)' <=> ListAt(i, r)
        /\ \A r : Linked(r)' <=> Linked(r) \/ r = e
    BY <1>0, <1>1, <1>7, <2>1, OneMoreLinked
  <2>3. ~NodeFirst(Elem)
    <3>1. NoCell \notin Cells
      BY DEF NoCell, Cells
    <3>2. QED
      BY <1>1, <1>8, <3>1, OwnCell DEF cell
  <2>4. Chained'
    BY <1>4, <1>5, <1>7, <1>8, <2>2 DEF Chained
  <2>5. Linking'
    BY <2>1 DEF Linking
  <2>6. \A i \in 1 .. at' - 1 : i \in 1 .. at - 1 \/ i = at
    BY <1>1, <2>1
  <2>7. Reached'
    <3>1. ASSUME NEW i \in 1 .. at' - 1, NEW S \in SUBSET RelIds,
                 ListAt(i, input[i].id), NodeFirst(input[i]),
                 head_relation[CellIn(input, FirstId(input[i]))] \in S,
                 \A r \in S : Linked(r)' => relations'[r].next \in S
          PROVE  input[i].id \in S
      <4>1. i \in 1 .. at - 1
        BY <2>3, <2>6, <3>1 DEF Elem
      <4>2. \A r \in S : Linked(r) => relations[r].next \in S
        BY <1>4, <1>5, <2>2, <3>1
      <4>3. QED
        BY <3>1, <4>1, <4>2 DEF Reached
    <3>2. QED
      BY <1>7, <2>2, <3>1 DEF Reached
  <2>8. Lists(L)'
    <3>1. \A c \in Cells :
            /\ L[c] \subseteq RelIds /\ head_relation'[c] \in L[c] \cup {0}
            /\ \A r \in L[c] : Linked(r)' /\ relations'[r].next \in L[c] \cup {0}
      BY <1>4, <1>5, <1>7, <2>2 DEF Lists
    <3>2. ASSUME NEW i \in 1 .. at' - 1, NEW c \in Cells, ListAt(i, input[i].id),
                 NodeFirst(input[i]), input[i].id \in L[c]
          PROVE  c = CellIn(input, FirstId(input[i]))
      BY <2>3, <2>6, <3>2 DEF Lists, Elem
    <3>3. QED
      BY <1>7, <2>2, <3>1, <3>2 DEF Lists
  <2>9. QED
    BY <1>6, <2>4, <2>5, <2>7, <2>8
<1>9. CASE cell # NoCell
  <2>1. at' = at /\ pc' = "head" /\ Elem' = Elem
    BY <1>3, <1>9 DEF Continue, Elem
  <2>2. /\ \A i, r : ListAt(i, r)' <=> ListAt(i, r)
        /\ \A r : Linked(r)' <=> Linked(r)
    BY <1>7, <2>1 DEF ListAt, Linked
  <2>3. Chained'
    BY <1>4, <1>5, <1>7, <2>2 DEF Chained
  <2>4. Linking'
    BY <1>0, <1>2, <1>4, <1>7, <1>9, <2>1 DEF Linking
  <2>5. Reached'
    <3>1. ASSUME NEW i \in 1 .. at - 1, NEW S \in SUBSET RelIds,
                 ListAt(i, input[i].id), NodeFirst(input[i]),
                 head_relation[CellIn(input, FirstId(input[i]))] \in S,
                 \A r \in S : Linked(r) => relations'[r].next \in S
          PROVE  input[i].id \in S
      <4>1. \A r \in S : Linked(r) => relations[r].next \in S
        BY <1>4, <1>5, <3>1
      <4>2. QED
        BY <3>1, <4>1 DEF Reached
    <3>2. QED
      BY <1>7, <2>1, <2>2, <3>1 DEF Reached
  <2>6. Lists(L)'
    <3>1. \A c \in Cells :
            /\ L[c] \subseteq RelIds /\ head_relation'[c] \in L[c] \cup {0}
            /\ \A r \in L[c] : Linked(r)' /\ relations'[r].next \in L[c] \cup {0}
      BY <1>4, <1>5, <1>7, <2>2 DEF Lists
    <3>2. QED
      BY <1>7, <2>1, <2>2, <3>1 DEF Lists
  <2>7. QED
    BY <1>6, <2>3, <2>4, <2>5, <2>6
<1>10. QED
  BY <1>8, <1>9

LEMMA HeadStored ==
  ASSUME IType, NodesStored, Chained, Linking, Reached, NEW L, Lists(L), FirstKept,
         SetRelationHead
  PROVE  /\ KeepsNodes /\ KeepsWays
         /\ Chained' /\ Linking' /\ Reached' /\ \E M : Lists(M)'
<1>0. PICK e : e = Elem.id
  OBVIOUS
<1>1. PICK cell : cell = get_grid_cell_for_relation(Elem.id)
  OBVIOUS
<1>2. /\ at \in 1 .. Len(input) /\ e \in RelIds \ {0} /\ ListAt(at, e)
      /\ ~Linked(e) /\ Elem.type = "RELATION" /\ pc = "head"
  BY <1>0, BeingLinked DEF SetRelationHead
<1>3. cell \in Cells /\ relations[e].next = head_relation[cell]
  BY <1>0, <1>1, <1>2 DEF Linking
<1>4. /\ UNCHANGED <<counters, nodes, ways, relations, cell_ways, lists, reader>>
      /\ head_relation' = [head_relation EXCEPT ![cell] = e]
      /\ input' = input /\ at' = at + 1 /\ pc' = "element"
  BY <1>0, <1>1 DEF SetRelationHead, NextElement
<1>5. /\ head_relation'[cell] = e
      /\ \A c \in Cells \ {cell} : head_relation'[c] = head_relation[c]
  BY <1>3, <1>4 DEF IType, FilesType
<1>6. /\ \A i, r : ListAt(i, r)' <=> ListAt(i, r)
      /\ \A r : Linked(r)' <=> Linked(r) \/ r = e
  BY <1>0, <1>2, <1>4, OneMoreLinked
<1>7. \A r : Linked(r) => r # e /\ r # 0
  BY <1>2, LinkedType
<1>8. KeepsNodes /\ KeepsWays
  BY <1>2, <1>4 DEF KeepsNodes, KeepsWays
<1>9. Linking'
  BY <1>4 DEF Linking
<1>10. \A i \in 1 .. at' - 1 : i \in 1 .. at - 1 \/ i = at
  BY <1>2, <1>4
<1>11. NodeFirst(Elem) => cell = CellIn(input, FirstId(Elem))
  BY <1>1, <1>2, OwnCell
<1>12. Chained'
  <2>1. ASSUME NEW c \in Cells, head_relation'[c] # 0  PROVE Linked(head_relation[c])'
    <3>1. PICK h : h = head_relation'[c]
      OBVIOUS
    <3>2. h = e \/ Linked(h)
      BY <1>5, <2>1, <3>1 DEF Chained
    <3>3. QED
      BY <1>6, <3>1, <3>2
  <2>2. \A c, d \in Cells : head_relation'[c] = head_relation'[d] /\ c # d =>
          head_relation'[c] = 0
    BY <1>5, <1>7 DEF Chained
  <2>3. ASSUME NEW r \in RelIds, Linked(r), relations[r].next # 0
        PROVE  /\ Linked(relations[r].next)' /\ relations[r].next # r
               /\ \A c \in Cells : head_relation'[c] # relations[r].next
               /\ \A q \in RelIds : Linked(q)' /\ relations[q].next = relations[r].next => q = r
    <3>1. /\ Linked(relations[r].next) /\ relations[r].next # r
          /\ \A c \in Cells : head_relation[c] # relations[r].next
          /\ \A q \in RelIds : Linked(q) /\ relations[q].next = relations[r].next => q = r
      BY <2>3 DEF Chained
    <3>2. relations[r].next # e
      BY <1>7, <3>1
    <3>3. relations[e].next # relations[r].next
      BY <1>3, <3>1
    <3>4. Linked(relations[r].next)'
      <4>1. PICK n : n = relations[r].next
        OBVIOUS
      <4>2. n = relations'[r].next
        BY <1>4, <4>1
      <4>3. QED
        BY <1>4, <1>6, <3>1, <4>1, <4>2
    <3>5. QED
      BY <1>5, <1>6, <3>1, <3>2, <3>3, <3>4
  <2>4. ASSUME relations[e].next # 0
        PROVE  /\ Linked(relations[e].next) /\ relations[e].next # e
               /\ \A c \in Cells : head_relation'[c] # relations[e].next
               /\ \A q \in RelIds : Linked(q)' /\ relations[q].next = relations[e].next => q = e
    <3>1. Linked(head_relation[cell]) /\ head_relation[cell] # e
      BY <1>3, <1>7, <2>4 DEF Chained
    <3>2. \A c \in Cells \ {cell} : head_relation[c] # head_relation[cell]
      BY <1>3, <2>4 DEF Chained
    <3>3. \A q \in RelIds : Linked(q) => relations[q].next # head_relation[cell]
      BY <1>3, <2>4 DEF Chained
    <3>4. QED
      BY <1>3, <1>5, <1>6, <3>1, <3>2, <3>3
  <2>5. ASSUME NEW r \in RelIds, Linked(r)', relations'[r].next # 0
        PROVE  /\ Linked(relations[r].next)' /\ relations'[r].next # r
               /\ \A c \in Cells : head_relation'[c] # relations'[r].next
               /\ \A q \in RelIds : Linked(q)' /\ relations'[q].next = relations'[r].next => q = r
    <3>1. relations' = relations
      BY <1>4
    <3>2. CASE r = e
      <4>1. PICK n : n = relations[r].next
        OBVIOUS
      <4>2. Linked(n)' /\ n = relations'[r].next
        BY <1>6, <2>4, <2>5, <3>1, <3>2, <4>1
      <4>3. QED
        BY <2>4, <2>5, <3>1, <3>2, <4>1, <4>2
    <3>3. CASE r # e
      BY <1>6, <2>3, <2>5, <3>1, <3>3
    <3>4. QED
      BY <3>2, <3>3
  <2>6. QED
    BY <2>1, <2>2, <2>5 DEF Chained
<1>13. Reached'
  <2>1. ASSUME NEW i \in 1 .. at' - 1, NEW S \in SUBSET RelIds,
               ListAt(i, input[i].id), NodeFirst(input[i]),
               head_relation'[CellIn(input, FirstId(input[i]))] \in S,
               \A r \in S : Linked(r)' => relations[r].next \in S
        PROVE  input[i].id \in S
    <3> DEFINE c == CellIn(input, FirstId(input[i]))
    <3>1. \A r \in S : Linked(r) => relations[r].next \in S
      BY <1>6, <2>1
    <3>2. CASE i = at
      BY <1>0, <1>5, <1>11, <2>1, <3>2 DEF Elem
    <3>3. CASE i \in 1 .. at - 1
      <4>1. head_relation[c] \in S
        <5>1. CASE c = cell
          <6>1. e \in S
            BY <1>5, <2>1, <5>1
          <6>2. QED
            BY <1>3, <1>6, <2>1, <5>1, <6>1
        <5>2. CASE c # cell
          <6>1. head_relation'[c] = head_relation[c]
            BY <1>4, <5>2 DEF IType, FilesType
          <6>2. QED
            BY <2>1, <6>1
        <5>3. QED
          BY <5>1, <5>2
      <4>2. QED
        BY <2>1, <3>1, <3>3, <4>1 DEF Reached
    <3>4. QED
      BY <1>10, <3>2, <3>3
  <2>2. QED
    BY <1>4, <1>6, <2>1 DEF Reached
<1>14. \E M : Lists(M)'
  <2> DEFINE M == [c \in Cells |-> IF c = cell THEN L[c] \cup {e} ELSE L[c]]
  <2>1. ASSUME NEW c \in Cells
        PROVE  /\ M[c] \subseteq RelIds /\ head_relation'[c] \in M[c] \cup {0}
               /\ \A r \in M[c] : Linked(r)' /\ relations[r].next \in M[c] \cup {0}
    BY <1>2, <1>3, <1>5, <1>6 DEF Lists
  <2>2. ASSUME NEW i \in 1 .. at' - 1, NEW c \in Cells, ListAt(i, input[i].id),
               NodeFirst(input[i]), input[i].id \in M[c]
        PROVE  c = CellIn(input, FirstId(input[i]))
    <3>1. CASE i = at
      <4>1. input[i].id = e /\ \A d \in Cells : e \notin L[d]
        BY <1>0, <1>7, <3>1 DEF Lists, Elem
      <4>2. c = cell
        BY <2>2, <4>1
      <4>3. QED
        BY <1>11, <2>2, <3>1, <4>2 DEF Elem
    <3>2. CASE i \in 1 .. at - 1
      <4>1. input[i].id # e
        <5>1. Linked(input[i].id)
          BY <2>2, <3>2 DEF Linked
        <5>2. QED
          BY <1>7, <5>1
      <4>2. input[i].id \in L[c]
        BY <2>2, <4>1
      <4>3. QED
        BY <2>2, <3>2, <4>2 DEF Lists
    <3>3. QED
      BY <1>10, <3>1, <3>2
  <2> HIDE DEF M
  <2>3. Lists(M)'
    BY <1>4, <1>6, <2>1, <2>2 DEF Lists
  <2>4. QED
    BY <2>3
<1>15. QED
  BY <1>8, <1>9, <1>12, <1>13, <1>14

LEMMA FirstCopied ==
  ASSUME IType, FirstKept, CopyMember
  PROVE  FirstKept'
<1> DEFINE first == relations[Elem.id].member_offset
<1>1. SUFFICES ASSUME NodeFirst(Elem)
               PROVE  /\ rel_members'[first].element_type = "NODE"
                      /\ rel_members'[first].id = FirstId(Elem)
  <2>1. Elem' = Elem /\ relations' = relations
    BY DEF CopyMember, Elem
  <2>2. QED
    BY <1>1, <2>1 DEF FirstKept, NodeFirst, FirstId
<1>2. /\ at \in 1 .. Len(input) /\ Elem.type = "RELATION" /\ InFile(Elem)
      /\ pc = "members" /\ n_rel_members = first + item - 1 /\ (item = 1 => ref_id = 0)
  BY DEF IType, Current, Busy, CopyMember
<1>3. Elem \in RelElems /\ Elem.id \in RelIds
  BY <1>2, InputType
     DEF IType, LoaderType, Elem, Elements, NodeElems, WayElems, RelElems, InFile
<1>4. /\ first \in Nat /\ n_rel_members \in 0 .. MAX_REL_MEMBERS - 1 /\ item \in Nat \ {0}
      /\ DOMAIN rel_members = 0 .. MAX_REL_MEMBERS - 1
  BY <1>3, LimitAssumption DEF IType, LoaderType, FilesType, RelRec
<1>5. CASE item = 1
  <2>1. rel_members'[first] = [role |-> encode_role(Elem.members[1].role),
                               element_type |-> Elem.members[1].type,
                               id |-> ref_id' % ID_WIDTH]
    BY <1>2, <1>4, <1>5 DEF CopyMember
  <2>2. Elem.members[1].id \in Int
    <3>1. /\ 1 \in 1 .. Len(Elem.members)
          /\ Elem.members \in Seq([type : {"NODE", "WAY", "RELATION"}, id : Int, role : STRING])
      BY <1>1, <1>3 DEF RelElems, NodeFirst
    <3>2. Elem.members[1] \in [type : {"NODE", "WAY", "RELATION"}, id : Int, role : STRING]
      BY <3>1, ElementOfSeq
    <3>3. QED
      BY <3>2
  <2>3. ref_id' = Elem.members[1].id
    BY <1>2, <1>5, <2>2 DEF CopyMember
  <2>4. QED
    BY <1>1, <2>1, <2>3 DEF NodeFirst, FirstId
<1>6. CASE item # 1
  <2>1. rel_members'[first] = rel_members[first]
    BY <1>2, <1>4, <1>6 DEF CopyMember
  <2>2. QED
    BY <1>1, <1>2, <1>4, <1>6, <2>1 DEF FirstKept
<1>7. QED
  BY <1>5, <1>6

LEMMA FirstNotLast ==
  ASSUME IType, FirstKept, EndMembers
  PROVE  FirstKept'
<1> DEFINE first == relations[Elem.id].member_offset
<1>1. SUFFICES ASSUME NodeFirst(Elem)
               PROVE  /\ rel_members'[first].element_type = "NODE"
                      /\ rel_members'[first].id = FirstId(Elem)
  <2>1. Elem' = Elem /\ relations' = relations
    BY DEF EndMembers, Continue, Elem
  <2>2. QED
    BY <1>1, <2>1 DEF FirstKept, NodeFirst, FirstId
<1>2. /\ at \in 1 .. Len(input) /\ Elem.type = "RELATION" /\ InFile(Elem)
      /\ pc = "members" /\ n_rel_members = first + item - 1
  BY DEF IType, Current, Busy, EndMembers
<1>3. Elem \in RelElems /\ Elem.id \in RelIds
  BY <1>2, InputType
     DEF IType, LoaderType, Elem, Elements, NodeElems, WayElems, RelElems, InFile
<1>4. first \in Nat /\ item \in Nat /\ n_rel_members \in Nat
  BY <1>3, LimitAssumption DEF IType, LoaderType, FilesType, RelRec
<1>5. item > 2
  <2>1. Len(Elem.members) \in Nat
    BY <1>3 DEF RelElems
  <2>2. QED
    BY <1>1, <1>4, <2>1 DEF EndMembers, NodeFirst
<1>6. n_rel_members - 1 # first
  BY <1>2, <1>4, <1>5
<1>7. rel_members'[first] = rel_members[first]
  BY <1>6 DEF EndMembers, IType, FilesType
<1>8. QED
  BY <1>1, <1>2, <1>4, <1>5, <1>7 DEF FirstKept

LEMMA FirstStays ==
  ASSUME IType, FirstKept, WriteTags \/ SetRelationNext
  PROVE  FirstKept'
<1>1. /\ at \in 1 .. Len(input) /\ pc \in {"tags", "next"} /\ InFile(Elem)
      /\ Elem.type \in {"NODE", "WAY", "RELATION"}
  <2>1. /\ at \in 1 .. Len(input) /\ pc \in {"tags", "next"} /\ InFile(Elem)
    BY DEF IType, Current, Busy, WriteTags, SetRelationNext
  <2>2. QED
    BY <2>1 DEF InFile
<1>2. CASE Elem.type # "RELATION"
  <2>1. pc' = "element"
    BY <1>1, <1>2 DEF WriteTags, SetRelationNext, NextElement, IType, Current
  <2>2. QED
    BY <2>1 DEF FirstKept
<1>3. CASE Elem.type = "RELATION"
  <2>1. Elem.id \in RelIds
    BY <1>1, <1>3 DEF InFile
  <2>2. CASE pc' = "element"
    BY <2>2 DEF FirstKept
  <2>3. CASE pc' # "element"
    <3>1. Elem' = Elem /\ pc' \in {"next", "head"} /\ rel_members' = rel_members
      BY <1>3, <2>3 DEF WriteTags, SetRelationNext, NextElement, Continue, Elem, lists
    <3>2. relations'[Elem.id].member_offset = relations[Elem.id].member_offset
      <4>1. CASE WriteTags
        <5>1. PICK v : relations' = [relations EXCEPT ![Elem.id].tags = v]
          BY <1>3, <4>1 DEF WriteTags
        <5>2. QED
          BY <2>1, <5>1 DEF IType, FilesType, RelRec
      <4>2. CASE SetRelationNext
        <5>1. PICK v : relations' = [relations EXCEPT ![Elem.id].next = v]
          BY <4>2 DEF SetRelationNext
        <5>2. QED
          BY <2>1, <5>1 DEF IType, FilesType, RelRec
      <4>3. QED
        BY <4>1, <4>2
    <3>3. QED
      BY <1>1, <1>3, <3>1, <3>2 DEF FirstKept, NodeFirst, FirstId
  <2>4. QED
    BY <2>2, <2>3
<1>4. QED
  BY <1>2, <1>3

LEMMA FirstElsewhere ==
  ASSUME IType,
         \/ HandleNode \/ HandleWay \/ CopyRef \/ EndRefs \/ IndexWay \/ ReadNoRef
         \/ HandleRelation \/ OverrunTags \/ SetRelationHead \/ Die
         \/ FinishLoad \/ Kill
  PROVE  FirstKept'
<1>1. CASE HandleNode \/ IndexWay
  <2>1. Elem' = Elem /\ Elem.type # "RELATION"
    BY <1>1 DEF HandleNode, IndexWay, Continue, Elem, Handles, IType, Current
  <2>2. QED
    BY <2>1 DEF FirstKept
<1>2. CASE HandleRelation
  <2>1. pc' \in {"element", "dead"} \/ (pc' = "members" /\ item' = 1)
    BY <1>2 DEF HandleRelation, NextElement, StartList
  <2>2. QED
    BY <2>1 DEF FirstKept
<1>3. CASE \/ HandleWay \/ CopyRef \/ EndRefs \/ ReadNoRef \/ OverrunTags
           \/ SetRelationHead \/ Die \/ FinishLoad \/ Kill
  <2>1. pc' \notin {"members", "tags", "next", "head"}
    BY <1>3 DEF HandleWay, CopyRef, EndRefs, ReadNoRef, OverrunTags,
                SetRelationHead, Die, FinishLoad, Kill, Continue, NextElement, StartList
  <2>2. QED
    BY <2>1 DEF FirstKept
<1>4. QED
  BY <1>1, <1>2, <1>3

LEMMA LoadRests ==
  ASSUME IType, Resting, Load \/ Kill
  PROVE  stage = "none" /\ reader' = reader /\ Resting'
<1>1. pc \notin {"loaded", "dead", "overrun"} /\ reader' = reader
  BY DEF Load, HandleNode, HandleWay, CopyRef, EndRefs, IndexWay, ReadNoRef, HandleRelation,
         CopyMember, EndMembers, WriteTags, OverrunTags, SetRelationNext,
         SetRelationHead, Die, FinishLoad, Kill, Handles, Stopped
<1>2. stage = "none" /\ stage' = "none"
  BY <1>1 DEF Resting, Stopped, reader
<1>3. ASSUME pc' = "loaded"  PROVE FinishLoad
  <2>1. CASE WriteTags
    <3>1. Elem.type \in {"NODE", "WAY", "RELATION"}
      BY <2>1 DEF WriteTags, IType, Current, Busy, InFile
    <3>2. pc' \in {"element", "next"}
      BY <2>1, <3>1 DEF WriteTags, NextElement, Continue
    <3>3. QED
      BY <1>3, <3>2
  <2>2. CASE \/ HandleNode \/ HandleWay \/ CopyRef \/ EndRefs \/ IndexWay \/ ReadNoRef
             \/ HandleRelation \/ CopyMember \/ EndMembers
    BY <1>1, <1>3, <2>2 DEF HandleNode, HandleWay, CopyRef, EndRefs, IndexWay, ReadNoRef,
       HandleRelation, CopyMember, EndMembers, NextElement, Continue, StartList
  <2>3. CASE \/ OverrunTags \/ SetRelationNext \/ SetRelationHead \/ Die \/ Kill
    BY <1>1, <1>3, <2>3 DEF OverrunTags, SetRelationNext, SetRelationHead, Die, Kill,
       NextElement, Continue
  <2>4. QED
    BY <2>1, <2>2, <2>3 DEF Load
<1>4. QED
  BY <1>1, <1>2, <1>3 DEF Resting, FinishLoad, Continue

LEMMA LoadStored ==
  ASSUME IType, Stored, Load \/ Kill
  PROVE  Stored'
<1>1. Resting'
  BY LoadRests DEF Stored
<1>2. FirstKept'
  BY FirstCopied, FirstNotLast, FirstStays, FirstElsewhere DEF Stored, Load
<1>3. ASSUME Quiet  PROVE Stored'
  <2>1. NodesStored'
    BY <1>3, KeepNodes DEF Quiet, Stored
  <2>2. WaysIndexed'
    BY <1>3, KeepWays DEF Quiet, Stored
  <2>3. Chained' /\ Linking' /\ Reached' /\ \E L : Lists(L)'
    BY <1>3, KeepLists DEF Quiet, Stored
  <2>4. QED
    BY <1>1, <1>2, <2>1, <2>2, <2>3 DEF Stored
<1>4. CASE \/ HandleWay \/ CopyRef \/ EndRefs \/ ReadNoRef \/ CopyMember \/ EndMembers
           \/ OverrunTags \/ Die \/ FinishLoad \/ Kill
  BY <1>3, <1>4, QuietLoad
<1>5. CASE HandleRelation \/ WriteTags
  BY <1>3, <1>5, QuietRelation, QuietTags
<1>6. CASE HandleNode
  <2>1. NodesStored' /\ WaysIndexed'
    BY <1>6, NodeStored, KeepWays DEF Stored
  <2>2. Chained' /\ Linking' /\ Reached' /\ \E L : Lists(L)'
    BY <1>6, NodeStored, KeepLists DEF Stored
  <2>3. QED
    BY <1>1, <1>2, <2>1, <2>2 DEF Stored
<1>7. CASE IndexWay
  <2>1. NodesStored' /\ WaysIndexed'
    BY <1>7, WayIndexed, KeepNodes DEF Stored
  <2>2. Chained' /\ Linking' /\ Reached' /\ \E L : Lists(L)'
    BY <1>7, WayIndexed, KeepLists DEF Stored
  <2>3. QED
    BY <1>1, <1>2, <2>1, <2>2 DEF Stored
<1>8. CASE SetRelationNext \/ SetRelationHead
  <2>1. KeepsNodes /\ KeepsWays
    BY <1>8, NextStored, HeadStored DEF Stored
  <2>2. NodesStored' /\ WaysIndexed'
    BY <2>1, KeepNodes, KeepWays DEF Stored
  <2>3. Chained' /\ Linking' /\ Reached' /\ \E L : Lists(L)'
    BY <1>8, NextStored, HeadStored DEF Stored
  <2>4. QED
    BY <1>1, <1>2, <2>2, <2>3 DEF Stored
<1>9. QED
  BY <1>4, <1>5, <1>6, <1>7, <1>8 DEF Load

\* Nothing that is stored changes while an extraction runs.
LEMMA SameStored ==
  ASSUME Stored, UNCHANGED <<loader, counters, files>>, Resting'
  PROVE  Stored'
<1> USE DEF loader, counters, files, lists
<1>1. input' = input /\ at' = at /\ pc' = pc /\ Elem' = Elem
  BY DEF Elem
<1>2. NodesStored' /\ WaysIndexed'
  BY <1>1 DEF Stored, NodesStored, WaysIndexed, Past, Indexed
<1>3. \A r : Linked(r)' <=> Linked(r)
  BY <1>1 DEF Linked, ListAt
<1>4. \A i, r : ListAt(i, r)' <=> ListAt(i, r)
  BY <1>1 DEF ListAt
<1>5. Chained' /\ Reached' /\ \E L : Lists(L)'
  BY <1>1, <1>3, <1>4 DEF Stored, Chained, Reached, Lists
<1>6. Linking' /\ FirstKept'
  BY <1>1 DEF Stored, Linking, FirstKept, get_grid_cell_for_relation
<1>7. QED
  BY <1>2, <1>5, <1>6 DEF Stored

-----------------------------------------------------------------------------
(* What the extraction has written.                                        *)

\* The ids of one type in a sequence of elements.
IdsIn(s, type) == {s[i].id : i \in {j \in 1 .. Len(s) : s[j].type = type}}
OnceIn(s) == \A i, j \in 1 .. Len(s) : s[i].type = s[j].type /\ s[i].id = s[j].id => i = j
ClosedIn(s) ==
  \A i \in 1 .. Len(s) :
    s[i].type = "WAY" =>
      \A k \in 1 .. Len(s[i].refs) :
        \E j \in 1 .. i - 1 : s[j].type = "NODE" /\ s[j].id = s[i].refs[k]

Entered == BoxCells(box) \ cells
\* A list that does not end is walked too, and its way never written.
NodesDone(w) ==
  Ended(ways[w].node_ref_offset) =>
    \A k \in 1 .. Len(RefsAt(ways[w].node_ref_offset)) :
      RefsAt(ways[w].node_ref_offset)[k] \in seen

\* A relation of one of the lists of the box: its head or behind one written.
OnList(r) == \/ \E c \in Entered : head_relation[c] = r
             \/ \E q \in Written("RELATION") : relations[q].next = r

ReadsNodes ==
  /\ stage = "none" => out = <<>>
  /\ stage # "none" => cells \subseteq BoxCells(box)
  /\ stage \in {"NODE", "WAY"} =>
       Written("NODE") = seen /\ Written("RELATION") = {} /\ relation_id = 0
  /\ stage \in {"NODE", "WAY"} /\ ways_left # {} =>
       \E c \in Entered : ways_left \subseteq cell_ways[c]
  /\ stage = "NODE" =>
       Written("WAY") = {} /\ \A c \in Entered : \A w \in cell_ways[c] \ ways_left : NodesDone(w)
  /\ stage = "WAY" => \A c \in BoxCells(box) : \A w \in cell_ways[c] : NodesDone(w)

ReadsWays ==
  /\ stage # "none" => \A w \in Written("WAY") : \E c \in BoxCells(box) : w \in cell_ways[c]
  /\ stage = "WAY" =>
       /\ ways_left \cap Written("WAY") = {}
       /\ \A c \in Entered : cell_ways[c] \subseteq Written("WAY") \cup ways_left
       /\ \A w \in Written("WAY") : \E c \in Entered : w \in cell_ways[c]
  /\ stage \in {"RELATION", "done"} => \A c \in BoxCells(box) : cell_ways[c] \subseteq Written("WAY")

ReadsRelations ==
  /\ stage \in {"crashed", "endless"} => Written("RELATION") = {}
  /\ stage = "done" => cells = {} /\ relation_id = 0
  /\ stage \in {"RELATION", "done"} =>
       /\ ways_left = {} /\ relation_id \notin Written("RELATION")
       /\ Written("RELATION") \subseteq RelIds
       /\ \A r \in Written("RELATION") \cup {relation_id} : r # 0 => Linked(r) /\ OnList(r)
       /\ \A c \in Entered : head_relation[c] \in Written("RELATION") \cup {0, relation_id}
       /\ \A r \in Written("RELATION") :
            r # 0 /\ relations[r].next \in Written("RELATION") \cup {0, relation_id}

\* What is written of the lists belongs to the cells of the box.
ListsOf(L) ==
  /\ Lists(L)
  /\ stage \in {"RELATION", "done"} =>
       \A r \in Written("RELATION") \cup {relation_id} :
         r # 0 => \E c \in BoxCells(box) : r \in L[c]

Reading == /\ ReadsNodes /\ ReadsWays /\ ReadsRelations /\ (\E L : ListsOf(L))
           /\ OnceIn(out) /\ ClosedIn(out)

LEMMA WrittenIds ==
  /\ \A type : Written(type) = IdsIn(out, type)
  /\ ClosedOnce <=> ClosedIn(out) /\ OnceIn(out)
BY DEF Written, IdsIn, ClosedOnce, Closed, ClosedIn, OnceIn

LEMMA AppendIds ==
  ASSUME NEW T, NEW s \in Seq(T), NEW o
  PROVE  /\ IdsIn(Append(s, o), o.type) = IdsIn(s, o.type) \cup {o.id}
         /\ \A type : type # o.type => IdsIn(Append(s, o), type) = IdsIn(s, type)
         /\ OnceIn(s) /\ o.id \notin IdsIn(s, o.type) => OnceIn(Append(s, o))
         /\ /\ ClosedIn(s)
            /\ o.type = "WAY" => \A k \in 1 .. Len(o.refs) : o.refs[k] \in IdsIn(s, "NODE")
            => ClosedIn(Append(s, o))
<1> DEFINE t == Append(s, o)
           n == Len(s)
<1>1. n \in Nat /\ Len(t) = n + 1 /\ t[n + 1] = o /\ \A i \in 1 .. n : t[i] = s[i]
  BY AppendAny, AppendProperties, LenProperties
<1> HIDE DEF t
<1>2. ASSUME NEW type
      PROVE  IdsIn(t, type) = IdsIn(s, type) \cup (IF type = o.type THEN {o.id} ELSE {})
  <2>1. \A i \in 1 .. n + 1 : i \in 1 .. n \/ i = n + 1
    BY <1>1
  <2>2. 1 .. n \subseteq 1 .. n + 1 /\ n + 1 \in 1 .. n + 1
    BY <1>1
  <2>3. QED
    BY <1>1, <2>1, <2>2 DEF IdsIn
<1>3. ASSUME OnceIn(s), o.id \notin IdsIn(s, o.type)  PROVE OnceIn(t)
  <2>1. \A i \in 1 .. n : ~(s[i].type = o.type /\ s[i].id = o.id)
    BY <1>3 DEF IdsIn
  <2>2. ASSUME NEW i \in 1 .. n + 1, NEW j \in 1 .. n + 1,
               t[i].type = t[j].type, t[i].id = t[j].id
        PROVE  i = j
    <3>1. CASE i \in 1 .. n /\ j \in 1 .. n
      BY <1>1, <1>3, <2>2, <3>1 DEF OnceIn
    <3>2. CASE i = n + 1 /\ j \in 1 .. n
      BY <1>1, <2>1, <2>2, <3>2
    <3>3. CASE j = n + 1 /\ i \in 1 .. n
      BY <1>1, <2>1, <2>2, <3>3
    <3>4. QED
      BY <1>1, <3>1, <3>2, <3>3
  <2>3. QED
    BY <1>1, <2>2 DEF OnceIn
<1>4. ASSUME ClosedIn(s),
             o.type = "WAY" => \A k \in 1 .. Len(o.refs) : o.refs[k] \in IdsIn(s, "NODE")
      PROVE  ClosedIn(t)
  <2>1. ASSUME NEW i \in 1 .. n + 1, t[i].type = "WAY", NEW k \in 1 .. Len(t[i].refs)
        PROVE  \E j \in 1 .. i - 1 : t[j].type = "NODE" /\ t[j].id = t[i].refs[k]
    <3>1. CASE i \in 1 .. n
      <4>1. PICK j \in 1 .. i - 1 : s[j].type = "NODE" /\ s[j].id = s[i].refs[k]
        BY <1>1, <1>4, <2>1, <3>1 DEF ClosedIn
      <4>2. j \in 1 .. n
        BY <1>1, <3>1
      <4>3. QED
        BY <1>1, <3>1, <4>1, <4>2
    <3>2. CASE i = n + 1
      <4>1. o.refs[k] \in IdsIn(s, "NODE")
        BY <1>1, <1>4, <2>1, <3>2
      <4>2. PICK j \in 1 .. n : s[j].type = "NODE" /\ s[j].id = o.refs[k]
        BY <4>1 DEF IdsIn
      <4>3. j \in 1 .. i - 1
        BY <1>1, <3>2
      <4>4. QED
        BY <1>1, <3>2, <4>2, <4>3
    <3>3. QED
      BY <1>1, <3>1, <3>2
  <2>2. QED
    BY <1>1, <2>1 DEF ClosedIn
<1>5. QED
  BY <1>2, <1>3, <1>4 DEF t

(* Writing the nodes of a list: every reference is flagged, what was       *)
(* flagged stays so, and the flagged ids are those written, each once.     *)
LEMMA NodesWritten ==
  ASSUME NEW T, out \in Seq(T), NEW refs \in Seq(Int),
         IdsIn(out, "NODE") = seen, IdsIn(out, "WAY") = {}, IdsIn(out, "RELATION") = {},
         OnceIn(out)
  PROVE  LET a == FoldLeft(WriteNode, [seen |-> seen, out |-> out], refs)
         IN  /\ IdsIn(a.out, "NODE") = a.seen /\ IdsIn(a.out, "WAY") = {}
             /\ IdsIn(a.out, "RELATION") = {} /\ OnceIn(a.out)
             /\ seen \subseteq a.seen
             /\ \A k \in 1 .. Len(refs) : refs[k] \in a.seen
<1> DEFINE start == [seen |-> seen, out |-> out]
           U == T \cup {NodeOut(n) : n \in Int}
           A == [seen : SUBSET (seen \cup Int), out : Seq(U)]
           Good(a) == /\ IdsIn(a.out, "NODE") = a.seen /\ IdsIn(a.out, "WAY") = {}
                      /\ IdsIn(a.out, "RELATION") = {} /\ OnceIn(a.out)
                      /\ seen \subseteq a.seen
           Flagged(s, a) == \A k \in 1 .. Len(s) : s[k] \in a.seen
           P == {p \in Seq(Int) \X A : Good(p[2]) /\ Flagged(p[1], p[2])}
<1>1. <<<<>>, start>> \in P
  <2>1. out \in Seq(U)
    <3>1. \A i \in 1 .. Len(out) : out[i] \in U
      BY ElementOfSeq
    <3>2. QED
      BY <3>1
  <2> HIDE DEF U
  <2>2. start \in A /\ <<>> \in Seq(Int)
    BY <2>1
  <2>3. Good(start) /\ Flagged(<<>>, start)
    OBVIOUS
  <2>4. QED
    BY <2>2, <2>3
<1>2. ASSUME NEW s \in Seq(Int), NEW n \in Int, NEW a, <<s, a>> \in P
      PROVE  <<Append(s, n), WriteNode(a, n)>> \in P
  <2>1. a \in A /\ Good(a) /\ Flagged(s, a)
    BY <1>2
  <2>2. Append(s, n) \in Seq(Int) /\ Len(Append(s, n)) = Len(s) + 1 /\ Len(s) \in Nat
        /\ Append(s, n)[Len(s) + 1] = n /\ \A k \in 1 .. Len(s) : Append(s, n)[k] = s[k]
    BY AppendProperties, LenProperties
  <2>3. \A k \in 1 .. Len(s) + 1 : k \in 1 .. Len(s) \/ k = Len(s) + 1
    BY <2>2
  <2> DEFINE b == WriteNode(a, n)
             o == NodeOut(n)
  <2>4. CASE n \in a.seen
    <3>1. b = a
      BY <2>4 DEF WriteNode
    <3>2. Flagged(Append(s, n), a)
      BY <2>1, <2>2, <2>3, <2>4
    <3>3. QED
      BY <2>1, <2>2, <3>1, <3>2
  <2>5. CASE n \notin a.seen
    <3>1. b.seen = a.seen \cup {n} /\ b.out = Append(a.out, o)
          /\ b = [seen |-> a.seen \cup {n}, out |-> Append(a.out, o)]
      BY <2>5 DEF WriteNode
    <3>2. o \in U /\ o.type = "NODE" /\ o.id = n
      BY DEF NodeOut
    <3>3. a.out \in Seq(U) /\ a.seen \subseteq seen \cup Int
      BY <2>1
    <3> HIDE DEF U, o, b
    <3>4. b \in A
      <4>1. Append(a.out, o) \in Seq(U)
        BY <3>2, <3>3, AppendProperties
      <4>2. QED
        BY <3>1, <3>3, <4>1
    <3>5. /\ IdsIn(b.out, "NODE") = a.seen \cup {n} /\ IdsIn(b.out, "WAY") = {}
          /\ IdsIn(b.out, "RELATION") = {} /\ OnceIn(b.out)
      <4> DEFINE t == Append(a.out, o)
      <4>1. /\ IdsIn(t, o.type) = IdsIn(a.out, o.type) \cup {o.id}
            /\ \A type : type # o.type => IdsIn(t, type) = IdsIn(a.out, type)
            /\ OnceIn(a.out) /\ o.id \notin IdsIn(a.out, o.type) => OnceIn(t)
        BY <3>3, AppendIds
      <4>2. IdsIn(a.out, "NODE") = a.seen /\ IdsIn(a.out, "WAY") = {}
            /\ IdsIn(a.out, "RELATION") = {} /\ OnceIn(a.out)
        BY <2>1
      <4> HIDE DEF t, Good
      <4>3. /\ IdsIn(t, "NODE") = a.seen \cup {n} /\ IdsIn(t, "WAY") = {}
            /\ IdsIn(t, "RELATION") = {} /\ OnceIn(t)
        BY <2>5, <3>2, <4>1, <4>2
      <4>4. QED
        BY <3>1, <4>3 DEF t
    <3>6. Flagged(Append(s, n), b)
      BY <2>1, <2>2, <2>3, <3>1
    <3>7. Good(b)
      BY <2>1, <3>1, <3>5
    <3> HIDE DEF A, Good, Flagged
    <3>8. QED
      BY <2>2, <3>4, <3>6, <3>7 DEF b
  <2>6. QED
    BY <2>4, <2>5
<1> DEFINE a == Writing!Fold(start, refs)
<1>3. <<refs, a>> \in P
  <2> HIDE DEF P, start
  <2>1. \A s \in Seq(Int), n \in Int : <<s, Writing!Fold(start, s)>> \in P =>
          <<Append(s, n), WriteNode(Writing!Fold(start, s), n)>> \in P
    BY <1>2
  <2>2. QED
    BY <1>1, <2>1, Writing!FoldInduction
<1>4. Good(a) /\ Flagged(refs, a)
  BY <1>3
<1>5. FoldLeft(WriteNode, start, refs) = a
  BY FoldsAreFolds
<1> HIDE DEF a
<1>6. QED
  BY <1>4, <1>5

-----------------------------------------------------------------------------
(* Every step of an extraction.                                            *)

LEMMA SameFiles ==
  ASSUME UNCHANGED <<loader, counters, files>>
  PROVE  /\ input' = input /\ cell_ways' = cell_ways /\ head_relation' = head_relation
         /\ relations' = relations /\ ways' = ways /\ pc' = pc /\ at' = at
         /\ \A r : Linked(r)' <=> Linked(r)
         /\ \A L : Lists(L)' <=> Lists(L)
         /\ \A o : (Ended(o)' <=> Ended(o)) /\ RefsAt(o)' = RefsAt(o)
<1>1. /\ input' = input /\ cell_ways' = cell_ways /\ head_relation' = head_relation
      /\ relations' = relations /\ ways' = ways /\ node_refs' = node_refs /\ at' = at
      /\ pc' = pc
  BY DEF loader, counters, files, lists
<1>2. \A i, r : ListAt(i, r)' <=> ListAt(i, r)
  BY <1>1 DEF ListAt
<1>3. \A r : Linked(r)' <=> Linked(r)
  BY <1>1, <1>2 DEF Linked
<1>4. \A L : Lists(L)' <=> Lists(L)
  BY <1>1, <1>2, <1>3 DEF Lists
<1>5. ASSUME NEW o  PROVE (Ended(o)' <=> Ended(o)) /\ RefsAt(o)' = RefsAt(o)
  BY <1>1 DEF Ended, RefsAt
<1>6. QED
  BY <1>1, <1>3, <1>4, <1>5

\* What is only a matter of the files is not asked again when they stay.
LEMMA SameOut ==
  ASSUME UNCHANGED <<loader, counters, files>>, out' = out
  PROVE  /\ \A type : Written(type)' = Written(type)
         /\ OnceIn(out)' <=> OnceIn(out)
         /\ ClosedIn(out)' <=> ClosedIn(out)
<1>1. QED
  BY DEF Written, OnceIn, ClosedIn

LEMMA InitReading == Init => Reading
<1> SUFFICES ASSUME Init  PROVE Reading
  OBVIOUS
<1>1. out = <<>> /\ stage = "none"
  BY DEF Init
<1>2. OnceIn(out) /\ ClosedIn(out)
  BY <1>1 DEF OnceIn, ClosedIn
<1>3. ReadsNodes /\ ReadsWays /\ ReadsRelations
  BY <1>1 DEF ReadsNodes, ReadsWays, ReadsRelations
<1>4. \E L : ListsOf(L)
  BY <1>1, InitStored DEF Stored, ListsOf
<1>5. QED
  BY <1>2, <1>3, <1>4 DEF Reading

LEMMA LoadReading ==
  ASSUME IType, Stored, Reading, Load \/ Kill
  PROVE  Reading'
<1>1. stage' = "none" /\ out' = <<>> /\ stage = "none" /\ out = <<>>
  BY LoadRests DEF Stored, Reading, ReadsNodes, reader, scan
<1>2. (OnceIn(out) /\ ClosedIn(out))'
  BY <1>1 DEF OnceIn, ClosedIn
<1>3. (ReadsNodes /\ ReadsWays /\ ReadsRelations)'
  BY <1>1 DEF ReadsNodes, ReadsWays, ReadsRelations
<1>4. \E L : ListsOf(L)'
  BY <1>1, LoadStored DEF Stored, ListsOf
<1>5. QED
  BY <1>2, <1>3, <1>4 DEF Reading

LEMMA StartReading ==
  ASSUME IType, Stored, NEW b \in Boxes, StartExtract(b)
  PROVE  Reading'
<1>1. /\ stage' = "NODE" /\ out' = <<>> /\ cells' = BoxCells(box') /\ seen' = {}
      /\ ways_left' = {} /\ relation_id' = 0
  BY DEF StartExtract
<1>2. (OnceIn(out) /\ ClosedIn(out))'
  BY <1>1 DEF OnceIn, ClosedIn
<1>3. \A type : Written(type)' = {}
  BY <1>1 DEF Written
<1>4. Entered' = {}
  BY <1>1 DEF Entered
<1>5. ReadsNodes'
  BY <1>1, <1>3, <1>4 DEF ReadsNodes
<1>6. (ReadsWays /\ ReadsRelations)'
  BY <1>1, <1>3 DEF ReadsWays, ReadsRelations
<1>7. \E L : ListsOf(L)'
  <2>1. PICK L : Lists(L)
    BY DEF Stored
  <2>2. ListsOf(L)'
    BY <1>1, <2>1, SameFiles DEF ListsOf, StartExtract
  <2>3. QED
    BY <2>2
<1>8. QED
  BY <1>2, <1>5, <1>6, <1>7 DEF Reading

\* A way is in one cell: that of the first node of the one way with its id.
LEMMA OneCell ==
  ASSUME IType, WaysIndexed, NEW c \in Cells, NEW d \in Cells, NEW w,
         w \in cell_ways[c], w \in cell_ways[d]
  PROVE  c = d
<1>1. PICK i \in 1 .. Len(input) : /\ input[i].type = "WAY" /\ input[i].id = w
                                   /\ c = CellIn(input, input[i].refs[1])
  BY DEF WaysIndexed
<1>2. PICK j \in 1 .. Len(input) : /\ input[j].type = "WAY" /\ input[j].id = w
                                   /\ d = CellIn(input, input[j].refs[1])
  BY DEF WaysIndexed
<1>3. i = j
  BY <1>1, <1>2, InputOrder DEF IType, LoaderType
<1>4. QED
  BY <1>1, <1>2, <1>3

LEMMA EnterCellReading ==
  ASSUME IType, Stored, Reading, EnterCell
  PROVE  Reading'
<1>1. PICK f : f = FirstCell
  OBVIOUS
<1>2. /\ UNCHANGED <<loader, counters, files, box, stage, seen, out>>
      /\ stage \in {"NODE", "WAY", "RELATION"} /\ ways_left = {} /\ relation_id = 0
      /\ cells' = cells \ {f} /\ cells # {}
      /\ stage = "RELATION" => relation_id' = head_relation[f] /\ ways_left' = ways_left
      /\ stage # "RELATION" => ways_left' = cell_ways[f] /\ relation_id' = relation_id
  BY <1>1 DEF EnterCell, CellDone
<1>3. f \in cells /\ f \in Cells /\ f \in BoxCells(box) /\ cells \subseteq BoxCells(box)
      /\ BoxCells(box) \subseteq Cells
  <2>1. f \in cells /\ cells \subseteq Cells
    BY <1>1, <1>2, FirstCellType DEF IType, ReaderType
  <2>2. cells \subseteq BoxCells(box)
    BY <1>2 DEF Reading, ReadsNodes
  <2>3. BoxCells(box) \subseteq Cells
    BY BoxCellsType DEF IType, ReaderType
  <2>4. QED
    BY <2>1, <2>2, <2>3
<1>4. Entered' = Entered \cup {f} /\ f \notin Entered /\ Entered \subseteq Cells
  BY <1>2, <1>3 DEF Entered
<1>5. /\ \A type : Written(type)' = Written(type)
      /\ (OnceIn(out) /\ ClosedIn(out))'
  BY <1>2, SameOut DEF Reading
<1>6. /\ cell_ways' = cell_ways /\ head_relation' = head_relation /\ relations' = relations
      /\ \A r : Linked(r)' <=> Linked(r)
      /\ \A L : Lists(L)' <=> Lists(L)
      /\ \A w : NodesDone(w)' <=> NodesDone(w)
  BY <1>2, SameFiles DEF NodesDone
<1>7. ReadsNodes'
  <2>1. cells' \subseteq BoxCells(box')
    BY <1>2, <1>3
  <2>2. ASSUME stage = "NODE", NEW c \in Entered', NEW w \in cell_ways[c] \ ways_left'
        PROVE  NodesDone(w)
    BY <1>2, <1>4, <2>2 DEF Reading, ReadsNodes
  <2>3. QED
    BY <1>2, <1>4, <1>5, <1>6, <2>1, <2>2 DEF Reading, ReadsNodes
<1>8. ReadsWays'
  <2>1. ASSUME stage = "WAY"  PROVE cell_ways[f] \cap Written("WAY") = {}
    <3>1. ASSUME NEW w \in Written("WAY"), w \in cell_ways[f]  PROVE FALSE
      <4>1. PICK c \in Entered : w \in cell_ways[c]
        BY <2>1, <3>1 DEF Reading, ReadsWays
      <4>2. QED
        BY <1>3, <1>4, <3>1, <4>1, OneCell DEF Stored
    <3>2. QED
      BY <3>1
  <2>2. QED
    BY <1>2, <1>4, <1>5, <1>6, <2>1 DEF Reading, ReadsWays
<1>9. ReadsRelations'
  <2>1. CASE stage # "RELATION"
    BY <1>2, <1>5, <2>1 DEF Reading, ReadsRelations
  <2>2. CASE stage = "RELATION"
    <3> DEFINE W == Written("RELATION")
    <3>1. /\ W \subseteq RelIds /\ 0 \notin W
          /\ \A r \in W : Linked(r) /\ OnList(r) /\ relations[r].next \in W \cup {0}
          /\ \A c \in Entered : head_relation[c] \in W \cup {0}
      BY <1>2, <2>2 DEF Reading, ReadsRelations
    <3>2. PICK h : h = head_relation[f]
      OBVIOUS
    <3> HIDE DEF W
    <3>3. ASSUME NEW r \in W  PROVE r # h
      <4>1. CASE \E c \in Entered : head_relation[c] = r
        BY <1>3, <1>4, <3>1, <3>2, <3>3, <4>1 DEF Stored, Chained
      <4>2. CASE \E q \in W : relations[q].next = r
        BY <1>3, <3>1, <3>2, <3>3, <4>2 DEF Stored, Chained
      <4>3. QED
        BY <3>1, <3>3, <4>1, <4>2 DEF OnList, W
    <3>4. h # 0 => Linked(h)
      BY <1>3, <3>2 DEF Stored, Chained
    <3>5. W' = W /\ relation_id' = h /\ stage' = "RELATION" /\ ways_left' = {}
      BY <1>2, <1>5, <2>2, <3>2 DEF W
    <3>6. \A r : OnList(r) => OnList(r)'
      BY <1>4, <1>5, <1>6 DEF OnList
    <3>7. h # 0 => OnList(h)'
      BY <1>4, <1>6, <3>2 DEF OnList
    <3>8. \A r \in W' \cup {relation_id'} : r # 0 => Linked(r)' /\ OnList(r)'
      BY <1>6, <3>1, <3>4, <3>5, <3>6, <3>7
    <3>9. \A c \in Entered' : head_relation'[c] \in W' \cup {0, relation_id'}
      BY <1>4, <1>6, <3>1, <3>2, <3>5
    <3>10. \A r \in W' : r # 0 /\ relations'[r].next \in W' \cup {0, relation_id'}
      BY <1>6, <3>1, <3>5
    <3>11. relation_id' \notin W' /\ W' \subseteq RelIds
      BY <3>1, <3>3, <3>5
    <3>12. QED
      BY <3>5, <3>8, <3>9, <3>10, <3>11 DEF ReadsRelations, W
  <2>3. QED
    BY <2>1, <2>2
<1>10. \E L : ListsOf(L)'
  <2>1. PICK L : ListsOf(L)
    BY DEF Reading
  <2>2. ASSUME stage = "RELATION", head_relation[f] # 0
        PROVE  head_relation[f] \in L[f]
    BY <1>3, <2>1, <2>2 DEF ListsOf, Lists
  <2>3. stage = "RELATION" =>
          \A r \in Written("RELATION") \cup {relation_id'} :
            r # 0 => \E c \in BoxCells(box) : r \in L[c]
    BY <1>2, <1>3, <2>1, <2>2 DEF ListsOf
  <2>4. ListsOf(L)'
    BY <1>2, <1>5, <1>6, <2>1, <2>3 DEF ListsOf, Reading, ReadsRelations
  <2>5. QED
    BY <2>4
<1>11. QED
  BY <1>5, <1>7, <1>8, <1>9, <1>10 DEF Reading

\* The walk of a way's references, when it comes to an end.
LEMMA WalkReading ==
  ASSUME IType, Reading, NEW w \in WayIds, NEW refs \in Seq(Int),
         UNCHANGED <<loader, counters, files, box, stage, cells, relation_id>>,
         stage = "NODE", w \in ways_left, ways_left' = ways_left \ {w},
         Ended(ways[w].node_ref_offset) => refs = RefsAt(ways[w].node_ref_offset),
         seen' = FoldLeft(WriteNode, [seen |-> seen, out |-> out], refs).seen,
         out' = FoldLeft(WriteNode, [seen |-> seen, out |-> out], refs).out
  PROVE  Reading'
<1> DEFINE written == FoldLeft(WriteNode, [seen |-> seen, out |-> out], refs)
<1>1. /\ UNCHANGED <<loader, counters, files, box, stage, cells, relation_id>>
      /\ stage = "NODE" /\ w \in ways_left
      /\ seen' = written.seen /\ out' = written.out /\ ways_left' = ways_left \ {w}
  OBVIOUS
<1>2. /\ IdsIn(out, "NODE") = seen /\ IdsIn(out, "WAY") = {} /\ IdsIn(out, "RELATION") = {}
      /\ OnceIn(out) /\ relation_id = 0
  BY <1>1, WrittenIds DEF Reading, ReadsNodes
<1>4. PICK T : out \in Seq(T)
  BY DEF IType, ReaderType
<1>5. /\ IdsIn(out', "NODE") = seen' /\ IdsIn(out', "WAY") = {}
      /\ IdsIn(out', "RELATION") = {} /\ OnceIn(out')
      /\ seen \subseteq seen' /\ \A k \in 1 .. Len(refs) : refs[k] \in seen'
  BY <1>1, <1>2, <1>4, NodesWritten
<1>6. \A type : Written(type)' = IdsIn(out', type)
  BY DEF Written, IdsIn
<1>7. /\ cell_ways' = cell_ways /\ head_relation' = head_relation /\ relations' = relations
      /\ ways' = ways /\ Entered' = Entered
      /\ \A L : Lists(L)' <=> Lists(L)
      /\ \A o : (Ended(o)' <=> Ended(o)) /\ RefsAt(o)' = RefsAt(o)
  BY <1>1, SameFiles DEF Entered
<1> HIDE DEF written
<1>8. \A v : NodesDone(v) => NodesDone(v)'
  BY <1>5, <1>7 DEF NodesDone
<1>9. NodesDone(w)'
  BY <1>5, <1>7 DEF NodesDone
<1>10. ReadsNodes'
  <2>1. ASSUME NEW c \in Entered, NEW v \in cell_ways[c] \ ways_left'
        PROVE  NodesDone(v)'
    <3>1. CASE v = w
      BY <1>9, <3>1
    <3>2. CASE v # w
      BY <1>1, <1>8, <3>2 DEF Reading, ReadsNodes
    <3>3. QED
      BY <3>1, <3>2
  <2>2. \E c \in Entered : ways_left' \subseteq cell_ways[c]
    BY <1>1 DEF Reading, ReadsNodes
  <2>3. QED
    BY <1>1, <1>2, <1>5, <1>6, <1>7, <2>1, <2>2 DEF Reading, ReadsNodes
<1>11. ReadsWays' /\ ReadsRelations'
  BY <1>1, <1>5, <1>6 DEF ReadsWays, ReadsRelations
<1>12. \E L : ListsOf(L)'
  BY <1>1, <1>7 DEF Reading, ListsOf
<1>13. OnceIn(out)' /\ ClosedIn(out)'
  <2>1. OnceIn(out)'
    BY <1>5 DEF OnceIn
  <2>2. \A i \in 1 .. Len(out') : out'[i].type = "WAY" => out'[i].id \in IdsIn(out', "WAY")
    BY DEF IdsIn
  <2>3. QED
    BY <1>5, <2>1, <2>2 DEF ClosedIn
<1>14. QED
  BY <1>10, <1>11, <1>12, <1>13 DEF Reading

LEMMA WriteNodesReading ==
  ASSUME IType, Reading, NEW w \in WayIds, WriteNodes(w)
  PROVE  Reading'
<1>1. RefsAt(ways[w].node_ref_offset) \in Seq(Int)
  BY WalkedRefs DEF WriteNodes
<1>2. QED
  BY <1>1, WalkReading DEF WriteNodes

LEMMA WalkRoundReading ==
  ASSUME IType, Reading, NEW w \in WayIds, WalkRound(w)
  PROVE  Reading'
<1>1. RefsOnward(ways[w].node_ref_offset) \o RefsAt(0) \in Seq(Int)
  BY WalkedRefs DEF WalkRound
<1>2. QED
  BY <1>1, WalkReading DEF WalkRound

\* A walk that never ends writes nodes, each of them once.
LEMMA WalkForeverReading ==
  ASSUME IType, Reading, NEW w \in WayIds, WalkForever(w)
  PROVE  Reading'
<1> DEFINE refs == RefsOnward(ways[w].node_ref_offset) \o RefsOnward(0)
           written == FoldLeft(WriteNode, [seen |-> seen, out |-> out], refs)
<1>1. /\ UNCHANGED <<loader, counters, files, box, cells, ways_left, relation_id>>
      /\ stage = "NODE" /\ stage' = "endless"
      /\ seen' = written.seen /\ out' = written.out
  BY DEF WalkForever
<1>2. /\ IdsIn(out, "NODE") = seen /\ IdsIn(out, "WAY") = {} /\ IdsIn(out, "RELATION") = {}
      /\ OnceIn(out)
  BY <1>1, WrittenIds DEF Reading, ReadsNodes
<1>3. refs \in Seq(Int)
  BY WalkedRefs
<1>4. PICK T : out \in Seq(T)
  BY DEF IType, ReaderType
<1>5. IdsIn(out', "WAY") = {} /\ IdsIn(out', "RELATION") = {} /\ OnceIn(out')
  <2> HIDE DEF refs
  <2>1. QED
    BY <1>1, <1>2, <1>3, <1>4, NodesWritten
<1>6. \A type : Written(type)' = IdsIn(out', type)
  BY DEF Written, IdsIn
<1>7. \A L : Lists(L)' <=> Lists(L)
  BY <1>1, SameFiles
<1>8. ReadsNodes'
  BY <1>1 DEF Reading, ReadsNodes
<1>9. ReadsWays' /\ ReadsRelations'
  BY <1>1, <1>5, <1>6 DEF ReadsWays, ReadsRelations
<1>10. \E L : ListsOf(L)'
  BY <1>1, <1>7 DEF Reading, ListsOf
<1>11. OnceIn(out)' /\ ClosedIn(out)'
  <2>1. OnceIn(out)'
    BY <1>5 DEF OnceIn
  <2>2. \A i \in 1 .. Len(out') : out'[i].type = "WAY" => out'[i].id \in IdsIn(out', "WAY")
    BY DEF IdsIn
  <2>3. QED
    BY <1>5, <2>1, <2>2 DEF ClosedIn
<1>12. QED
  BY <1>8, <1>9, <1>10, <1>11 DEF Reading

(* A way of the cell that is being read has all its nodes written, and was *)
(* not written before.                                                     *)
LEMMA WriteWayReading ==
  ASSUME IType, Reading, NEW w \in WayIds, WriteWay(w)
  PROVE  Reading'
<1>1. /\ UNCHANGED <<loader, counters, files, box, stage, cells, relation_id, seen>>
      /\ stage = "WAY" /\ w \in ways_left /\ Ended(ways[w].node_ref_offset)
      /\ out' = Append(out, WayOut(w)) /\ ways_left' = ways_left \ {w}
  BY DEF WriteWay
<1>2. PICK d \in Entered : ways_left \subseteq cell_ways[d]
  BY <1>1 DEF Reading, ReadsNodes
<1>3. d \in BoxCells(box) /\ w \in cell_ways[d]
  BY <1>1, <1>2 DEF Entered
<1>4. NodesDone(w)
  BY <1>1, <1>3 DEF Reading, ReadsNodes
<1>5. PICK T : out \in Seq(T)
  BY DEF IType, ReaderType
<1>6. PICK o : o = WayOut(w)
  OBVIOUS
<1>7. o.type = "WAY" /\ o.id = w /\ o.refs = RefsAt(ways[w].node_ref_offset)
  BY <1>6 DEF WayOut
<1>8. \A type : Written(type) = IdsIn(out, type) /\ Written(type)' = IdsIn(out', type)
  BY DEF Written, IdsIn
<1>9. \A k \in 1 .. Len(o.refs) : o.refs[k] \in IdsIn(out, "NODE")
  BY <1>1, <1>4, <1>7, <1>8 DEF NodesDone, Reading, ReadsNodes
<1>10. w \notin IdsIn(out, "WAY")
  BY <1>1, <1>8 DEF Reading, ReadsWays
<1>11. /\ Written("WAY")' = Written("WAY") \cup {w}
       /\ Written("NODE")' = Written("NODE") /\ Written("RELATION")' = Written("RELATION")
       /\ OnceIn(out') /\ ClosedIn(out')
  BY <1>1, <1>5, <1>6, <1>7, <1>8, <1>9, <1>10, AppendIds DEF Reading
<1>12. /\ cell_ways' = cell_ways /\ head_relation' = head_relation /\ relations' = relations
       /\ ways' = ways /\ Entered' = Entered
       /\ \A L : Lists(L)' <=> Lists(L)
       /\ \A v : NodesDone(v)' <=> NodesDone(v)
  BY <1>1, SameFiles DEF Entered, NodesDone
<1>13. ReadsNodes'
  <2>1. \E c \in Entered : ways_left' \subseteq cell_ways[c]
    BY <1>1, <1>2
  <2>2. QED
    BY <1>1, <1>11, <1>12, <2>1 DEF Reading, ReadsNodes
<1>14. ReadsWays'
  BY <1>1, <1>2, <1>3, <1>11, <1>12 DEF Reading, ReadsWays
<1>15. ReadsRelations'
  BY <1>1 DEF ReadsRelations
<1>16. \E L : ListsOf(L)'
  BY <1>1, <1>12 DEF Reading, ListsOf
<1>17. OnceIn(out)' /\ ClosedIn(out)'
  BY <1>11 DEF OnceIn, ClosedIn
<1>18. QED
  BY <1>13, <1>14, <1>15, <1>16, <1>17 DEF Reading

LEMMA ReadPastEndReading ==
  ASSUME IType, Reading, NEW w \in WayIds, ReadPastEnd(w)
  PROVE  Reading'
<1>1. /\ UNCHANGED <<loader, counters, files, box, scan>>
      /\ stage = "WAY" /\ stage' = "crashed"
  BY DEF ReadPastEnd
<1>2. /\ \A type : Written(type)' = Written(type)
      /\ (OnceIn(out) /\ ClosedIn(out))'
  BY <1>1, SameOut DEF Reading, scan
<1>3. cell_ways' = cell_ways /\ \A L : Lists(L)' <=> Lists(L)
  BY <1>1, SameFiles
<1>4. ReadsNodes'
  BY <1>1 DEF Reading, ReadsNodes, scan
<1>5. ReadsWays' /\ ReadsRelations'
  BY <1>1, <1>2, <1>3 DEF Reading, ReadsWays, ReadsNodes, ReadsRelations
<1>6. \E L : ListsOf(L)'
  BY <1>1, <1>3 DEF Reading, ListsOf
<1>7. QED
  BY <1>2, <1>4, <1>5, <1>6 DEF Reading

(* The relation behind a written one was not written before: it has no     *)
(* other predecessor, and it is no cell's head.                            *)
LEMMA WriteRelationReading ==
  ASSUME IType, Stored, Reading, WriteRelation
  PROVE  Reading'
<1> DEFINE W == Written("RELATION")
<1>1. PICK r : r = relation_id
  OBVIOUS
<1>2. PICK n : n = relations[r].next
  OBVIOUS
<1>3. PICK o : o = RelOut(r)
  OBVIOUS
<1>4. /\ UNCHANGED <<loader, counters, files, box, stage, cells, ways_left, seen>>
      /\ stage = "RELATION" /\ out' = Append(out, o) /\ relation_id' = n
      /\ r \in RelIds /\ r # 0
  BY <1>1, <1>2, <1>3, LimitAssumption DEF WriteRelation, IType, ReaderType, RelIds
<1>5. o.type = "RELATION" /\ o.id = r
  BY <1>3 DEF RelOut
<1>6. PICK T : out \in Seq(T)
  BY DEF IType, ReaderType
<1>7. \A type : Written(type) = IdsIn(out, type) /\ Written(type)' = IdsIn(out', type)
  BY DEF Written, IdsIn
<1>8. /\ W \subseteq RelIds /\ r \notin W /\ Linked(r) /\ OnList(r)
      /\ \A q \in W : q # 0 /\ Linked(q) /\ OnList(q) /\ relations[q].next \in W \cup {0, r}
      /\ \A c \in Entered : head_relation[c] \in W \cup {0, r}
  BY <1>1, <1>4 DEF Reading, ReadsRelations
<1>9. /\ Written("RELATION")' = W \cup {r}
      /\ Written("WAY")' = Written("WAY")
      /\ OnceIn(out') /\ ClosedIn(out')
  BY <1>4, <1>5, <1>6, <1>7, <1>8, AppendIds DEF Reading
<1>10. /\ cell_ways' = cell_ways /\ head_relation' = head_relation /\ relations' = relations
       /\ Entered' = Entered /\ BoxCells(box)' = BoxCells(box)
       /\ \A q : Linked(q)' <=> Linked(q)
       /\ \A L : Lists(L)' <=> Lists(L)
  BY <1>4, SameFiles DEF Entered
<1>11. n # 0 => n \notin W \cup {r} /\ Linked(n)
  <2>1. ASSUME n # 0, n \in W  PROVE FALSE
    <3>1. CASE \E c \in Entered : head_relation[c] = n
      <4>1. Entered \subseteq Cells
        BY BoxCellsType DEF Entered, IType, ReaderType
      <4>2. QED
        BY <1>2, <1>4, <1>8, <2>1, <3>1, <4>1 DEF Stored, Chained
    <3>2. CASE \E q \in W : relations[q].next = n
      <4>1. PICK q \in W : relations[q].next = n
        BY <3>2
      <4>2. q = r
        BY <1>2, <1>4, <1>8, <2>1, <4>1 DEF Stored, Chained
      <4>3. QED
        BY <1>8, <4>1, <4>2
    <3>3. QED
      BY <1>8, <2>1, <3>1, <3>2 DEF OnList
  <2>2. n # 0 => n # r /\ Linked(n)
    BY <1>2, <1>4, <1>8 DEF Stored, Chained
  <2>3. QED
    BY <2>1, <2>2
<1> HIDE DEF W
<1>12. \A q : OnList(q) => OnList(q)'
  BY <1>9, <1>10 DEF OnList, W
<1>13. OnList(n)'
  BY <1>2, <1>9, <1>10 DEF OnList
<1>14. ReadsRelations'
  <2> DEFINE V == Written("RELATION")'
  <2>1. V = W \cup {r} /\ relation_id' = n /\ stage' = "RELATION" /\ ways_left' = {}
    BY <1>4, <1>9 DEF Reading, ReadsRelations
  <2> HIDE DEF V
  <2>2. n \notin V /\ V \subseteq RelIds
    BY <1>4, <1>8, <1>11, <2>1
  <2>3. \A q \in V \cup {n} : q # 0 => Linked(q)' /\ OnList(q)'
    BY <1>8, <1>10, <1>11, <1>12, <1>13, <2>1
  <2>4. \A c \in Entered' : head_relation'[c] \in V \cup {0, n}
    BY <1>8, <1>10, <2>1
  <2>5. \A q \in V : q # 0 /\ relations'[q].next \in V \cup {0, n}
    BY <1>2, <1>4, <1>8, <1>10, <2>1
  <2>6. QED
    BY <2>1, <2>2, <2>3, <2>4, <2>5 DEF ReadsRelations, V
<1>15. \E L : ListsOf(L)'
  <2>1. PICK L : ListsOf(L)
    BY DEF Reading
  <2>2. PICK c \in BoxCells(box) : r \in L[c]
    BY <1>1, <1>4, <2>1 DEF ListsOf
  <2>3. c \in Cells
    BY BoxCellsType DEF IType, ReaderType
  <2>4. n # 0 => n \in L[c]
    BY <1>2, <2>1, <2>2, <2>3 DEF ListsOf, Lists
  <2>5. \A q \in Written("RELATION")' \cup {n} : q # 0 => \E d \in BoxCells(box) : q \in L[d]
    BY <1>4, <1>9, <2>1, <2>2, <2>4 DEF ListsOf, W
  <2>6. ListsOf(L)'
    BY <1>4, <1>10, <2>1, <2>5 DEF ListsOf
  <2>7. QED
    BY <2>6
<1>16. ReadsNodes' /\ ReadsWays'
  <2>1. UNCHANGED <<box, stage, cells, ways_left, seen>> /\ stage = "RELATION"
    BY <1>4
  <2>2. QED
    BY <1>9, <1>10, <2>1 DEF Reading, ReadsNodes, ReadsWays
<1>17. OnceIn(out)' /\ ClosedIn(out)'
  BY <1>9 DEF OnceIn, ClosedIn
<1>18. QED
  BY <1>14, <1>15, <1>16, <1>17 DEF Reading

\* At the end of a stage every cell of the box was entered and nothing of it is left.
LEMMA EndStageReading ==
  ASSUME IType, Reading, EndStage
  PROVE  Reading'
<1>1. /\ UNCHANGED <<loader, counters, files, box, ways_left, relation_id, seen, out>>
      /\ stage \in {"NODE", "WAY", "RELATION"} /\ cells = {} /\ stage' = StageAfter(stage)
      /\ ways_left = {} /\ relation_id = 0
      /\ cells' = IF stage = "RELATION" THEN {} ELSE BoxCells(box)
  BY DEF EndStage, CellDone
<1>2. /\ stage = "NODE" => stage' = "WAY"
      /\ stage = "WAY" => stage' = "RELATION"
      /\ stage = "RELATION" => stage' = "done"
  BY <1>1, StagesInOrder
<1>3. /\ \A type : Written(type)' = Written(type)
      /\ (OnceIn(out) /\ ClosedIn(out))'
  BY <1>1, SameOut DEF Reading
<1>4. /\ cell_ways' = cell_ways /\ head_relation' = head_relation /\ relations' = relations
      /\ \A L : Lists(L)' <=> Lists(L)
      /\ \A r : Linked(r)' <=> Linked(r)
      /\ \A w : NodesDone(w)' <=> NodesDone(w)
      /\ BoxCells(box') = BoxCells(box) /\ ways_left' = {} /\ relation_id' = 0
      /\ Entered = BoxCells(box) /\ seen' = seen /\ out' = out
  BY <1>1, SameFiles DEF NodesDone, Entered
<1>5. stage # "RELATION" => Entered' = {}
  BY <1>1, <1>4 DEF Entered
<1>6. stage = "RELATION" => Entered' = Entered
  BY <1>1, <1>4 DEF Entered
<1>7. CASE stage = "NODE"
  <2>1. ReadsNodes'
    BY <1>1, <1>2, <1>3, <1>4, <1>7 DEF Reading, ReadsNodes
  <2>2. Written("WAY") = {} /\ Written("RELATION") = {}
    BY <1>7 DEF Reading, ReadsNodes
  <2>3. ReadsWays' /\ ReadsRelations'
    BY <1>2, <1>3, <1>4, <1>5, <1>7, <2>2 DEF ReadsWays, ReadsRelations
  <2>4. \E L : ListsOf(L)'
    BY <1>2, <1>4, <1>7 DEF Reading, ListsOf
  <2>5. QED
    BY <1>3, <2>1, <2>3, <2>4 DEF Reading
<1>8. CASE stage = "WAY"
  <2>1. Written("RELATION") = {}
    BY <1>8 DEF Reading, ReadsNodes
  <2>2. ReadsNodes'
    BY <1>1, <1>2, <1>3, <1>4, <1>8 DEF ReadsNodes
  <2>3. ReadsWays'
    BY <1>1, <1>2, <1>3, <1>4, <1>8 DEF Reading, ReadsWays
  <2>4. ReadsRelations'
    BY <1>2, <1>3, <1>4, <1>5, <1>8, <2>1 DEF ReadsRelations
  <2>5. \E L : ListsOf(L)'
    BY <1>2, <1>3, <1>4, <1>8, <2>1 DEF Reading, ListsOf
  <2>6. QED
    BY <1>3, <2>2, <2>3, <2>4, <2>5 DEF Reading
<1>9. CASE stage = "RELATION"
  <2>1. ReadsNodes'
    BY <1>1, <1>2, <1>3, <1>4, <1>9 DEF ReadsNodes
  <2>2. ReadsWays'
    BY <1>1, <1>2, <1>3, <1>4, <1>9 DEF Reading, ReadsWays
  <2>3. \A r : OnList(r)' <=> OnList(r)
    BY <1>3, <1>4, <1>6, <1>9 DEF OnList
  <2>4. ReadsRelations'
    BY <1>1, <1>2, <1>3, <1>4, <1>6, <1>9, <2>3 DEF Reading, ReadsRelations
  <2>5. \E L : ListsOf(L)'
    BY <1>1, <1>2, <1>3, <1>4, <1>9 DEF Reading, ListsOf
  <2>6. QED
    BY <1>3, <2>1, <2>2, <2>4, <2>5 DEF Reading
<1>10. QED
  BY <1>1, <1>7, <1>8, <1>9

-----------------------------------------------------------------------------
IInv == IType /\ Stored /\ Reading

LEMMA ExtractStored ==
  ASSUME Stored, Extract \/ \E b \in Boxes : StartExtract(b)
  PROVE  Stored'
<1>1. UNCHANGED <<loader, counters, files>>
  BY DEF Extract, EnterCell, WriteNodes, WalkRound, WalkForever, WriteWay, ReadPastEnd,
         WriteRelation, EndStage, StartExtract
<1>2. stage # "none" \/ Stopped
  BY DEF Extract, EnterCell, WriteNodes, WalkRound, WalkForever, WriteWay, ReadPastEnd,
         WriteRelation, EndStage, StartExtract
<1>3. Resting'
  BY <1>1, <1>2 DEF Stored, Resting, Stopped, loader
<1>4. QED
  BY <1>1, <1>3, SameStored

LEMMA NextReading == IInv /\ [Next]_vars => IInv'
<1> SUFFICES ASSUME IInv, [Next]_vars  PROVE IInv'
  OBVIOUS
<1> USE DEF IInv
<1>1. IType'
  BY NextType
<1>2. CASE Load \/ Kill
  BY <1>1, <1>2, LoadStored, LoadReading
<1>3. CASE Extract \/ \E b \in Boxes : StartExtract(b)
  <2>1. Stored'
    BY <1>3, ExtractStored
  <2>2. Reading'
    BY <1>3, StartReading, EnterCellReading, WriteNodesReading, WalkRoundReading,
       WalkForeverReading, WriteWayReading, ReadPastEndReading, WriteRelationReading,
       EndStageReading DEF Extract
  <2>3. QED
    BY <1>1, <2>1, <2>2
<1>4. CASE Overrun \/ UNCHANGED vars
  <2>1. UNCHANGED <<loader, counters, files, box, stage, cells, ways_left, relation_id, seen, out>>
    BY <1>4 DEF Overrun, vars, reader, scan
  <2>2. Stored'
    BY <2>1, SameStored DEF Stored, Resting, Stopped, loader
  <2>3. /\ \A type : Written(type)' = Written(type)
        /\ (OnceIn(out) /\ ClosedIn(out))'
    BY <2>1, SameOut DEF Reading
  <2>4. /\ cell_ways' = cell_ways /\ head_relation' = head_relation /\ relations' = relations
        /\ \A L : Lists(L)' <=> Lists(L)
        /\ \A r : Linked(r)' <=> Linked(r)
        /\ \A w : NodesDone(w)' <=> NodesDone(w)
        /\ Entered' = Entered
    BY <2>1, SameFiles DEF NodesDone, Entered
  <2>5. \A r : OnList(r)' <=> OnList(r)
    BY <2>3, <2>4 DEF OnList
  <2>6. ReadsNodes' /\ ReadsWays' /\ ReadsRelations'
    BY <2>1, <2>3, <2>4, <2>5 DEF Reading, ReadsNodes, ReadsWays, ReadsRelations
  <2>7. \E L : ListsOf(L)'
    BY <2>1, <2>3, <2>4 DEF Reading, ListsOf
  <2>8. QED
    BY <1>1, <2>2, <2>3, <2>6, <2>7 DEF Reading
<1>5. QED
  BY <1>2, <1>3, <1>4 DEF Next

LEMMA Invariants == Spec => []IInv
<1>1. Init => IInv
  BY InitType, InitStored, InitReading DEF IInv
<1>2. QED
  BY <1>1, NextReading, PTL DEF Spec

(* Every way is written after its nodes and nothing is written twice: the  *)
(* tracker's flags are the nodes written (vex.c:922-944), each cell's ways *)
(* are its own and each relation is in one list.                           *)
THEOREM WritesClosedOnce == Spec => []ClosedOnce
<1>1. IInv => ClosedOnce
  BY WrittenIds DEF IInv, Reading
<1>2. QED
  BY <1>1, Invariants, PTL

-----------------------------------------------------------------------------
(* What a box selects.                                                     *)

Summing == INSTANCE SeqFold WITH op <- AddDelta

LEMMA FirstDecoded ==
  ASSUME NEW deltas \in Seq(Int), deltas # <<>>
  PROVE  Decoded(deltas)[1] = deltas[1]
<1>1. 1 \in 1 .. Len(deltas) /\ deltas[1] \in Int
  BY EmptySeq, LenProperties, ElementOfSeq
<1>2. SubSeq(deltas, 1, 1) = Append(<<>>, deltas[1])
  <2>1. /\ SubSeq(deltas, 1, 1) \in Seq(Int) /\ Len(SubSeq(deltas, 1, 1)) = 1
        /\ SubSeq(deltas, 1, 1)[1] = deltas[1]
    BY <1>1, SubSeqProperties, LenProperties
  <2>2. /\ <<>> \in Seq(Int) /\ Append(<<>>, deltas[1]) \in Seq(Int)
        /\ Len(Append(<<>>, deltas[1])) = 1 /\ Append(<<>>, deltas[1])[1] = deltas[1]
    BY <1>1, AppendProperties
  <2> DEFINE s == SubSeq(deltas, 1, 1)
             t == Append(<<>>, deltas[1])
  <2> HIDE DEF s, t
  <2>3. s \in Seq(Int) /\ t \in Seq(Int) /\ Len(s) = 1 /\ Len(t) = 1 /\ s[1] = t[1]
    BY <2>1, <2>2 DEF s, t
  <2>4. \A i \in 1 .. Len(s) : s[i] = t[i]
    BY <2>3
  <2>5. s = t
    BY <2>3, <2>4, SeqEqual
  <2>6. QED
    BY <2>5 DEF s, t
<1>3. Summing!Fold(0, SubSeq(deltas, 1, 1)) = AddDelta(0, deltas[1])
  <2>1. <<>> \in Seq(Int) /\ deltas[1] \in Int
    BY <1>1
  <2>2. Summing!Fold(0, Append(<<>>, deltas[1])) = AddDelta(Summing!Fold(0, <<>>), deltas[1])
    BY <2>1, Summing!FoldAppend
  <2>3. QED
    BY <1>2, <2>2, Summing!FoldEmpty
<1>4. FoldLeft(AddDelta, 0, SubSeq(deltas, 1, 1)) = Summing!Fold(0, SubSeq(deltas, 1, 1))
  BY DEF Summing!Fold, Summing!Folds, FoldLeft, MapThenFoldSet,
         Max, Summing!Max
<1>5. Decoded(deltas)[1] = FoldLeft(AddDelta, 0, SubSeq(deltas, 1, 1))
  BY <1>1 DEF Decoded
<1>6. AddDelta(0, deltas[1]) = deltas[1]
  BY <1>1 DEF AddDelta
<1>7. QED
  BY <1>3, <1>4, <1>5, <1>6

LEMMA FirstOfWay ==
  ASSUME NEW e \in WayElems, e.refs # <<>>
  PROVE  Refs(e)[1] = e.refs[1]
BY FirstDecoded DEF Refs, WayElems

LEMMA FirstOfRelation ==
  ASSUME NEW e \in RelElems, Len(e.members) > 1
  PROVE  Members(e)[1].id = e.members[1].id
<1> DEFINE ids == [i \in 1 .. Len(e.members) |-> e.members[i].id]
           M == [type : {"NODE", "WAY", "RELATION"}, id : Int, role : STRING]
<1>1. e.members \in Seq(M) /\ Len(e.members) \in Nat /\ 1 \in 1 .. Len(e.members)
  BY LenProperties DEF RelElems
<1>2. \A i \in 1 .. Len(e.members) : e.members[i].id \in Int
  <2>1. \A i \in 1 .. Len(e.members) : e.members[i] \in M
    BY <1>1, ElementOfSeq
  <2>2. QED
    BY <2>1
<1>3. ids \in Seq(Int) /\ Len(ids) = Len(e.members) /\ ids[1] = e.members[1].id
  BY <1>1, <1>2
<1>4. ids # <<>>
  BY <1>1, <1>3
<1> HIDE DEF ids
<1>5. Decoded(ids)[1] = ids[1]
  BY <1>3, <1>4, FirstDecoded
<1>6. Members(e)[1].id = Decoded(ids)[1]
  BY <1>1 DEF Members, ids
<1>7. QED
  BY <1>3, <1>5, <1>6

\* A coordinate west of zero is in the other half of the grid.
LEMMA Unsigned ==
  ASSUME NEW x \in Coords
  PROVE  /\ x >= 0 => x % COORD_WIDTH = x /\ x < COORD_WIDTH \div 2
         /\ x < 0 => x % COORD_WIDTH = x + COORD_WIDTH /\ x + COORD_WIDTH >= COORD_WIDTH \div 2
<1> DEFINE h == COORD_WIDTH \div 2
<1>1. h \in Nat /\ COORD_WIDTH = 2 * h /\ COORD_WIDTH \in Nat \ {0}
  BY HalfGrid, WidthAssumption
<1>2. x \in Int /\ -h =< x /\ x < h
  BY <1>1 DEF Coords
<1> HIDE DEF h
<1>3. x >= 0 => x % COORD_WIDTH = x
  BY <1>1, <1>2
<1>4. x < 0 => x % COORD_WIDTH = x + COORD_WIDTH
  BY <1>1, <1>2
<1>5. QED
  BY <1>1, <1>2, <1>3, <1>4 DEF h

(* Bins keep the order of coordinates on one side of zero, and a bin       *)
(* between two others belongs to coordinates near those between.           *)
LEMMA BinOrder ==
  ASSUME NEW x \in Coords, NEW y \in Coords
  PROVE  /\ bin(x) \in Int /\ bin(y) \in Int
         /\ (x >= 0 <=> y >= 0) /\ x =< y => bin(x) =< bin(y)
         /\ (x >= 0 <=> y >= 0) /\ bin(x) =< bin(y) => x < y + CELL_WIDTH
         /\ x >= 0 /\ y < 0 => bin(x) < bin(y)
<1> DEFINE u == x % COORD_WIDTH
           v == y % COORD_WIDTH
<1>1. x \in Int /\ y \in Int /\ COORD_WIDTH \in Nat
  BY HalfGrid, WidthAssumption DEF Coords
<1>2. u \in Nat /\ v \in Nat
  BY <1>1, WidthAssumption
<1>3. /\ x >= 0 => u = x /\ u < COORD_WIDTH \div 2
      /\ x < 0 => u = x + COORD_WIDTH /\ u >= COORD_WIDTH \div 2
      /\ y >= 0 => v = y
      /\ y < 0 => v = y + COORD_WIDTH /\ v >= COORD_WIDTH \div 2
  BY Unsigned
<1>4. bin(x) = u \div CELL_WIDTH /\ bin(y) = v \div CELL_WIDTH
  BY DEF bin
<1> HIDE DEF u, v
<1>5. /\ u =< v => u \div CELL_WIDTH =< v \div CELL_WIDTH
      /\ u \div CELL_WIDTH =< v \div CELL_WIDTH => u < v + CELL_WIDTH
  BY <1>2, DivOrder, WidthAssumption
<1>6. u < COORD_WIDTH \div 2 /\ v >= COORD_WIDTH \div 2 => u \div CELL_WIDTH < v \div CELL_WIDTH
  BY <1>2, HalfGrid
<1>7. bin(x) \in Int /\ bin(y) \in Int
  BY <1>1, BinType, HalfGrid, WidthAssumption DEF Bins
<1>8. ASSUME x >= 0 <=> y >= 0  PROVE (u =< v <=> x =< y) /\ (u < v + CELL_WIDTH <=> x < y + CELL_WIDTH)
  BY <1>1, <1>2, <1>3, <1>8, WidthAssumption
<1> DEFINE a == bin(x)
           b == bin(y)
<1>9. a = u \div CELL_WIDTH /\ b = v \div CELL_WIDTH
  BY <1>4
<1> HIDE DEF a, b
<1>10. /\ (x >= 0 <=> y >= 0) /\ x =< y => a =< b
       /\ (x >= 0 <=> y >= 0) /\ a =< b => x < y + CELL_WIDTH
       /\ x >= 0 /\ y < 0 => a < b
  BY <1>3, <1>5, <1>6, <1>8, <1>9
<1>11. QED
  BY <1>7, <1>10 DEF a, b

\* A column of the grid between those of two coordinates in order.
LEMMA BinBetween ==
  ASSUME NEW x \in Coords, NEW lo \in Coords, NEW hi \in Coords, lo =< hi,
         bin(x) \in bin(lo) .. bin(hi)
  PROVE  lo - CELL_WIDTH + 1 =< x /\ x =< hi + CELL_WIDTH - 1
<1>1. x \in Int /\ lo \in Int /\ hi \in Int /\ CELL_WIDTH \in Nat
  BY HalfGrid, WidthAssumption DEF Coords
<1>2. bin(lo) =< bin(x) /\ bin(x) =< bin(hi) /\ bin(x) \in Int /\ bin(lo) \in Int /\ bin(hi) \in Int
  BY BinOrder
<1>3. x >= 0 => lo >= 0 /\ hi >= 0
  <2>1. ASSUME x >= 0, lo < 0  PROVE FALSE
    BY <1>2, <2>1, BinOrder
  <2>2. QED
    BY <1>1, <2>1
<1>4. x < 0 => hi < 0 /\ lo < 0
  <2>1. ASSUME x < 0, hi >= 0  PROVE FALSE
    BY <1>2, <2>1, BinOrder
  <2>2. QED
    BY <1>1, <2>1
<1>5. lo < x + CELL_WIDTH /\ x < hi + CELL_WIDTH
  BY <1>1, <1>2, <1>3, <1>4, BinOrder
<1>6. QED
  BY <1>1, <1>5

\* A coordinate between two of one sign.
LEMMA BinInside ==
  ASSUME NEW x \in Coords, NEW lo \in Coords, NEW hi \in Coords, lo >= 0 <=> hi >= 0,
         lo =< x, x =< hi
  PROVE  bin(x) \in bin(lo) .. bin(hi)
<1>1. x \in Int /\ lo \in Int /\ hi \in Int
  BY HalfGrid, WidthAssumption DEF Coords
<1>2. (x >= 0 <=> lo >= 0) /\ (x >= 0 <=> hi >= 0)
  BY <1>1
<1>3. QED
  BY <1>1, <1>2, BinOrder

\* The extraction's box is one it may be given, or that of no extraction.
BoxGiven == /\ box.min \in Points /\ box.max \in Points
            /\ box.min.x =< box.max.x /\ box.min.y =< box.max.y

LEMMA BoxIsGiven == Spec => []BoxGiven
<1>1. Init => BoxGiven
  <2>1. COORD_WIDTH \div 2 \in Nat /\ COORD_WIDTH \div 2 >= 1
    BY HalfGrid, WidthAssumption
  <2>2. Origin \in Points /\ Origin.x = 0 /\ Origin.y = 0
    BY <2>1 DEF Origin, Points, Coords
  <2>3. QED
    BY <2>2 DEF Init, BoxGiven
<1>2. BoxGiven /\ [Next]_vars => BoxGiven'
  <2> SUFFICES ASSUME BoxGiven, [Next]_vars  PROVE BoxGiven'
    OBVIOUS
  <2>1. CASE \E b \in Boxes : StartExtract(b)
    <3>1. box' \in Boxes
      BY <2>1 DEF StartExtract
    <3>2. QED
      BY <3>1, BoxAssumption DEF BoxGiven
  <2>2. CASE Extract
    BY <2>2 DEF Extract, EnterCell, WriteNodes, WalkRound, WalkForever, WriteWay,
                ReadPastEnd, WriteRelation, EndStage, BoxGiven
  <2>3. CASE Load \/ Kill
    <3>1. reader' = reader
      BY <2>3 DEF Load, HandleNode, HandleWay, CopyRef, EndRefs, IndexWay, ReadNoRef,
         HandleRelation, CopyMember, EndMembers, WriteTags, OverrunTags,
         SetRelationNext, SetRelationHead, Die, FinishLoad, Kill
    <3>2. QED
      BY <3>1 DEF reader, BoxGiven
  <2>4. CASE Overrun \/ UNCHANGED vars
    BY <2>4 DEF Overrun, vars, reader, BoxGiven
  <2>5. QED
    BY <2>1, <2>2, <2>3, <2>4 DEF Next
<1>3. QED
  BY <1>1, <1>2, PTL DEF Spec

\* Where in the input an element stands, and what it is.
LEMMA GivenAt ==
  ASSUME IType, NEW type, NEW e \in Given(type)
  PROVE  /\ \E i \in 1 .. Len(input) : input[i] = e /\ e.type = type
         /\ \A i \in 1 .. Len(input) : input[i].type = type /\ input[i].id = e.id => input[i] = e
         /\ e.type = type /\ e \in Elements
<1>1. input \in Inputs /\ input \in Seq(Elements)
  BY InputType DEF IType, LoaderType
<1>2. ToSet(input) = {input[i] : i \in 1 .. Len(input)}
  BY <1>1 DEF ToSet
<1>3. PICK i \in 1 .. Len(input) : input[i] = e /\ e.type = type
  BY <1>2 DEF Given
<1>4. e \in Elements
  BY <1>1, <1>3, ElementOfSeq
<1>5. QED
  BY <1>1, <1>3, <1>4, InputOrder

\* Ids of first members that a file holds as they are.
WholeIds ==
  \A elems \in Inputs : \A i \in 1 .. Len(elems) :
    elems[i].type = "RELATION" /\ NodeFirst(elems[i]) =>
      elems[i].members[1].id \in 0 .. ID_WIDTH - 1

\* The node by which an element is selected, and its coordinates.
LEMMA FirstNodeIs ==
  ASSUME IType, WholeIds, NEW e \in Selectable
  PROVE  /\ e.type = "WAY" /\ e.refs # <<>> =>
              FirstNode(e) = e.refs[1] /\ FirstNode(e) \in NodeIds
         /\ e.type = "RELATION" =>
              NodeFirst(e) /\ FirstNode(e) = FirstId(e) /\ FirstNode(e) \in NodeIds
<1>1. PICK i \in 1 .. Len(input) : input[i] = e
  BY GivenAt DEF Selectable
<1>2. input \in Inputs /\ e \in Elements /\ e.type \in {"WAY", "RELATION"}
  BY GivenAt DEF Selectable, IType, LoaderType
<1>3. CASE e.type = "WAY" /\ e.refs # <<>>
  <2>1. e \in WayElems
    BY <1>2, <1>3 DEF Elements, NodeElems, WayElems, RelElems
  <2>2. e.refs[1] \in NodeIds
    BY <1>1, <1>2, <1>3, InputAssumption
  <2>3. QED
    BY <1>3, <2>1, <2>2, FirstOfWay DEF FirstNode
<1>4. CASE e.type = "RELATION"
  <2>1. e \in RelElems
    BY <1>2, <1>4 DEF Elements, NodeElems, WayElems, RelElems
  <2>2. NodeFirst(e)
    BY <1>4, GivenAt DEF Selectable, HasCell, NodeFirst
  <2>3. Len(e.members) > 1 /\ e.members # <<>> /\ e.members[1].type = "NODE"
    BY <2>2 DEF NodeFirst
  <2>4. FirstNode(e) = e.members[1].id
    BY <1>4, <2>1, <2>3, FirstOfRelation DEF FirstNode
  <2>5. e.members[1].id % ID_WIDTH \in NodeIds
    BY <1>1, <1>2, <1>4, <2>3, InputAssumption
  <2>6. e.members[1].id \in 0 .. ID_WIDTH - 1
    BY <1>1, <1>2, <1>4, <2>2 DEF WholeIds
  <2>7. e.members[1].id % ID_WIDTH = e.members[1].id
    <3>1. \A W \in Nat \ {0} : \A k \in 0 .. W - 1 : k % W = k
      OBVIOUS
    <3>2. QED
      BY <2>6, <3>1, LimitAssumption
  <2>8. QED
    BY <1>4, <2>2, <2>4, <2>5, <2>7 DEF FirstId
<1>5. QED
  BY <1>2, <1>3, <1>4

\* The cell of a node's coordinates in the grid of a box.
LEMMA CoordInPoints ==
  ASSUME IType, NEW n
  PROVE  CoordIn(input, n) \in Points
<1> DEFINE given == {e \in ToSet(input) : e.type = "NODE"}
<1>1. given = Given("NODE")
  BY DEF Given
<1>2. CASE \E e \in given : e.id = n
  <2> DEFINE e == CHOOSE e \in given : e.id = n
  <2>1. e \in given /\ e.id = n
    BY <1>2
  <2>2. CoordIn(input, n) = e.coord
    BY <1>2 DEF CoordIn
  <2> HIDE DEF e
  <2>3. e \in Elements /\ e.type = "NODE"
    BY <1>1, <2>1, GivenAt
  <2>4. QED
    BY <2>2, <2>3 DEF Elements, NodeElems, WayElems, RelElems
<1>3. CASE ~\E e \in given : e.id = n
  <2>1. CoordIn(input, n) = Origin
    BY <1>3 DEF CoordIn
  <2>2. COORD_WIDTH \div 2 \in Nat /\ COORD_WIDTH \div 2 >= 1
    BY HalfGrid, WidthAssumption
  <2>3. QED
    BY <2>1, <2>2 DEF Origin, Points, Coords
<1>4. QED
  BY <1>2, <1>3

LEMMA CellNear ==
  ASSUME BoxGiven, NEW p \in Points, get_grid_cell_for_coord(p) \in BoxCells(box)
  PROVE  Near(p, box)
<1>1. bin(p.x) \in bin(box.min.x) .. bin(box.max.x) /\ bin(p.y) \in bin(box.min.y) .. bin(box.max.y)
  BY DEF get_grid_cell_for_coord, BoxCells
<1>2. /\ p.x \in Coords /\ p.y \in Coords /\ box.min.x \in Coords /\ box.max.x \in Coords
      /\ box.min.y \in Coords /\ box.max.y \in Coords
      /\ box.min.x =< box.max.x /\ box.min.y =< box.max.y
  BY DEF BoxGiven, Points
<1>3. /\ box.min.x - CELL_WIDTH + 1 =< p.x /\ p.x =< box.max.x + CELL_WIDTH - 1
      /\ box.min.y - CELL_WIDTH + 1 =< p.y /\ p.y =< box.max.y + CELL_WIDTH - 1
  BY <1>1, <1>2, BinBetween
<1>4. QED
  BY <1>3 DEF Near, Inside

LEMMA TightIn == WholeIds /\ IInv /\ BoxGiven => BoxTight
<1> SUFFICES ASSUME WholeIds, IInv, BoxGiven, NEW e \in Selectable, e.id \in Written(e.type)
             PROVE  Near(CoordOf(FirstNode(e)), box)
  BY DEF BoxTight
<1> USE DEF IInv
<1>1. e.type \in {"WAY", "RELATION"} /\ e \in Given(e.type)
  BY GivenAt DEF Selectable
<1>2. stage # "none"
  BY DEF Reading, ReadsNodes, Written
<1>3. BoxCells(box) \subseteq Cells
  BY BoxCellsType DEF IType, ReaderType
<1>4. CASE e.type = "WAY"
  <2>1. PICK c \in BoxCells(box) : e.id \in cell_ways[c]
    BY <1>2, <1>4 DEF Reading, ReadsWays
  <2>2. PICK i \in 1 .. Len(input) :
          /\ input[i].type = "WAY" /\ input[i].id = e.id /\ input[i].refs # <<>>
          /\ c = CellIn(input, input[i].refs[1])
    BY <1>3, <2>1 DEF Stored, WaysIndexed
  <2>3. input[i] = e
    BY <1>1, <1>4, <2>2, GivenAt
  <2>4. c = CellIn(input, FirstNode(e))
    BY <1>4, <2>2, <2>3, FirstNodeIs
  <2>5. QED
    BY <2>1, <2>4, CellNear, CoordOfIn, CoordInPoints DEF CellIn
<1>5. CASE e.type = "RELATION"
  <2>1. stage \in {"RELATION", "done"}
    BY <1>2, <1>5 DEF Reading, ReadsNodes, ReadsRelations, IType, ReaderType
  <2>2. PICK L : ListsOf(L)
    BY DEF Reading
  <2>3. e.id # 0
    BY <1>1, <1>5, GivenAt DEF Elements, NodeElems, WayElems, RelElems
  <2>4. PICK c \in BoxCells(box) : e.id \in L[c]
    BY <1>5, <2>1, <2>2, <2>3 DEF ListsOf
  <2>5. Linked(e.id)
    BY <1>3, <2>2, <2>4 DEF ListsOf, Lists
  <2>6. PICK i \in 1 .. at - 1 : ListAt(i, e.id)
    BY <2>5 DEF Linked
  <2>7. input[i] = e
    BY <1>1, <1>5, <2>6, GivenAt DEF ListAt
  <2>8. NodeFirst(e) /\ FirstNode(e) = FirstId(e)
    BY <1>5, FirstNodeIs
  <2>9. c = CellIn(input, FirstNode(e))
    BY <1>3, <2>2, <2>4, <2>6, <2>7, <2>8 DEF ListsOf, Lists
  <2>10. QED
    BY <2>4, <2>9, CellNear, CoordOfIn, CoordInPoints DEF CellIn
<1>6. QED
  BY <1>1, <1>4, <1>5

(* No extract has a way whose first node, or a relation of several members *)
(* whose first member, a node, lies beyond the cells its box touches,      *)
(* wherever on the globe the box is (vex.c:292-294, 851-854), as long as   *)
(* the ids of first members fit in the 32 bits they are cut to             *)
(* (vex.c:563).  The nodes of such a way may lie anywhere, and relations   *)
(* that begin with a way are filed by something else (vex.c:310-313): of   *)
(* neither is anything said.                                               *)
THEOREM ExtractsAreTight ==
  ASSUME WholeIds
  PROVE  Spec => []BoxTight
<1>1. IInv /\ BoxGiven => BoxTight
  BY TightIn
<1>2. QED
  BY <1>1, Invariants, BoxIsGiven, PTL

\* Boxes on one side of zero in both coordinates.
OneSided ==
  \A b \in Boxes : (b.min.x >= 0 <=> b.max.x >= 0) /\ (b.min.y >= 0 <=> b.max.y >= 0)
BoxOneSided == (box.min.x >= 0 <=> box.max.x >= 0) /\ (box.min.y >= 0 <=> box.max.y >= 0)

LEMMA BoxIsOneSided ==
  ASSUME OneSided
  PROVE  Spec => []BoxOneSided
<1>1. Init => BoxOneSided
  BY DEF Init, Origin, BoxOneSided
<1>2. BoxOneSided /\ [Next]_vars => BoxOneSided'
  <2> SUFFICES ASSUME BoxOneSided, [Next]_vars  PROVE BoxOneSided'
    OBVIOUS
  <2>1. CASE \E b \in Boxes : StartExtract(b)
    BY <2>1 DEF StartExtract, OneSided, BoxOneSided
  <2>2. CASE ~\E b \in Boxes : StartExtract(b)
    <3>1. box' = box
      BY <2>2 DEF Next, Extract, EnterCell, WriteNodes, WalkRound, WalkForever, WriteWay,
         ReadPastEnd, WriteRelation, EndStage, Load, HandleNode, HandleWay, CopyRef, EndRefs, IndexWay, ReadNoRef,
         HandleRelation, CopyMember, EndMembers, WriteTags, OverrunTags,
         SetRelationNext, SetRelationHead, Die, FinishLoad, Kill, Overrun, vars, reader
    <3>2. QED
      BY <3>1 DEF BoxOneSided
  <2>3. QED
    BY <2>1, <2>2
<1>3. QED
  BY <1>1, <1>2, PTL DEF Spec

LEMMA CellInside ==
  ASSUME BoxGiven, BoxOneSided, NEW p \in Points, Inside(p, box)
  PROVE  get_grid_cell_for_coord(p) \in BoxCells(box)
<1>1. /\ p.x \in Coords /\ p.y \in Coords /\ box.min.x \in Coords /\ box.max.x \in Coords
      /\ box.min.y \in Coords /\ box.max.y \in Coords
  BY DEF BoxGiven, Points
<1>2. bin(p.x) \in bin(box.min.x) .. bin(box.max.x) /\ bin(p.y) \in bin(box.min.y) .. bin(box.max.y)
  BY <1>1, BinInside DEF Inside, BoxOneSided
<1>3. QED
  BY <1>2 DEF get_grid_cell_for_coord, BoxCells

LEMMA CompleteIn == WholeIds /\ IInv /\ BoxGiven /\ BoxOneSided => BoxComplete
<1> SUFFICES ASSUME WholeIds, IInv, BoxGiven, BoxOneSided, pc = "loaded", stage = "done",
                    NEW e \in Selectable, Inside(CoordOf(FirstNode(e)), box)
             PROVE  e.id \in Written(e.type)
  BY DEF BoxComplete
<1> USE DEF IInv
<1>1. e.type \in {"WAY", "RELATION"} /\ e \in Given(e.type) /\ e \in Elements
  BY GivenAt DEF Selectable
<1>2. PICK i \in 1 .. Len(input) : input[i] = e
  BY <1>1, GivenAt
<1>3. i < at /\ Len(input) \in Nat /\ at \in Nat
  <2>1. at > Len(input) /\ at \in 1 .. Len(input) + 1 /\ Len(input) \in Nat
    BY InputType, LenProperties DEF Stored, Resting, IType, LoaderType
  <2>2. QED
    BY <2>1
<1>4. CellIn(input, FirstNode(e)) \in BoxCells(box)
  BY CellInside, CoordOfIn, CoordInPoints DEF CellIn
<1>5. CASE e.type = "WAY"
  <2>1. Indexed(e)
    BY <1>2, <1>3, <1>5 DEF Stored, WaysIndexed
  <2>2. e.id \in cell_ways[CellIn(input, FirstNode(e))]
    BY <1>5, <2>1, FirstNodeIs DEF Indexed
  <2>3. QED
    BY <1>4, <1>5, <2>2 DEF Reading, ReadsWays
<1>6. CASE e.type = "RELATION"
  <2> DEFINE S == Written("RELATION") \cup {0}
  <2>1. /\ Entered = BoxCells(box) /\ relation_id = 0 /\ Written("RELATION") \subseteq RelIds
        /\ \A c \in Entered : head_relation[c] \in S
        /\ \A r \in Written("RELATION") : relations[r].next \in S
    BY DEF Reading, ReadsRelations, Entered
  <2>2. NodeFirst(e) /\ FirstNode(e) = FirstId(e)
    BY <1>6, FirstNodeIs
  <2>3. e \in RelElems /\ e.id # 0
    BY <1>1, <1>6 DEF Elements, NodeElems, WayElems, RelElems
  <2>4. ListAt(i, e.id)
    BY <1>2, <1>6, <2>2 DEF ListAt, NodeFirst
  <2>5. ~Linked(0)
    <3>1. ASSUME NEW j \in 1 .. Len(input), input[j].type = "RELATION"  PROVE input[j].id # 0
      <4>1. input[j] \in Elements
        BY InputType, ElementOfSeq DEF IType, LoaderType
      <4>2. QED
        BY <3>1, <4>1 DEF Elements, NodeElems, WayElems, RelElems
    <3>2. QED
      BY <3>1 DEF Linked, ListAt
  <2>6. S \in SUBSET RelIds /\ head_relation[CellIn(input, FirstId(e))] \in S
    BY <1>4, <2>1, <2>2, LimitAssumption DEF RelIds
  <2>7. \A r \in S : Linked(r) => relations[r].next \in S
    BY <2>1, <2>5
  <2>8. i \in 1 .. at - 1
    BY <1>3
  <2> HIDE DEF S
  <2>9. e.id \in S
    BY <1>2, <2>2, <2>4, <2>6, <2>7, <2>8 DEF Stored, Reached
  <2>10. QED
    BY <1>6, <2>3, <2>9 DEF S
<1>7. QED
  BY <1>1, <1>5, <1>6

(* A way whose first node is inside the box, and a relation of several     *)
(* members whose first member is such a node, is in the extract of a       *)
(* complete load: the loader puts it into the list of that node's cell and *)
(* loses none of them, and the extraction reads every list of the box to   *)
(* its end.  Left out are boxes across zero (vex.c:851), for which         *)
(* BoxComplete is false, and ids cut to 32 bits.  Nothing is said of nodes,*)
(* which come with ways only (vex.c:922-944), nor of relations that begin  *)
(* with a way or have one member (vex.c:304-318).                          *)
THEOREM ExtractsAreComplete ==
  ASSUME WholeIds, OneSided
  PROVE  Spec => []BoxComplete
<1>1. IInv /\ BoxGiven /\ BoxOneSided => BoxComplete
  BY CompleteIn
<1>2. QED
  BY <1>1, Invariants, BoxIsGiven, BoxIsOneSided, PTL-----------------------------------------------------------------------------
(* Codes, as they are written and read.                                    *)

KeyTable == [key : STRING, vals : Seq(STRING)]

LEMMA CodesNext ==
  /\ CodesBefore(1) = 0
  /\ \A t \in 1 .. Len(KeyTables) :
       /\ Len(KeyTables[t].vals) \in Nat
       /\ CodesBefore(t + 1) = CodesBefore(t) + Len(KeyTables[t].vals)
<1> DEFINE n == Len(KeyTables)
           F(k) == Codes!Fold(0, SubSeq(KeyTables, 1, k))
<1>1. KeyTables \in Seq(KeyTable) /\ n \in Nat
  BY TableAssumption DEF KeyTable
<1>2. \A t : CodesBefore(t) = F(t - 1)
  BY FoldsAreFolds DEF CodesBefore
<1>3. F(0) = 0 /\ \A k \in 0 .. n - 1 : F(k + 1) = AddCodes(F(k), KeyTables[k + 1])
  <2> HIDE DEF F
  <2>1. \A k : F(k) = Codes!Fold(0, SubSeq(KeyTables, 1, k))
    BY DEF F
  <2>2. QED
    BY <1>1, <2>1, Codes!FoldPrefix
<1> HIDE DEF F
<1>4. ASSUME NEW t \in 1 .. n
      PROVE  /\ Len(KeyTables[t].vals) \in Nat
             /\ CodesBefore(t + 1) = CodesBefore(t) + Len(KeyTables[t].vals)
  <2>1. KeyTables[t] \in KeyTable
    BY <1>1, ElementOfSeq
  <2>2. t - 1 \in 0 .. n - 1 /\ t - 1 + 1 = t /\ t + 1 - 1 = t
    BY <1>1
  <2>3. F(t) = AddCodes(F(t - 1), KeyTables[t])
    BY <1>3, <2>2
  <2>4. QED
    BY <1>2, <2>1, <2>2, <2>3 DEF AddCodes, KeyTable
<1>5. CodesBefore(1) = 0
  BY <1>2, <1>3
<1>6. QED
  BY <1>4, <1>5

LEMMA CodesOrder ==
  /\ \A t \in 1 .. Len(KeyTables) + 1 : CodesBefore(t) \in Nat
  /\ \A t, u \in 1 .. Len(KeyTables) + 1 : t =< u => CodesBefore(t) =< CodesBefore(u)
<1> DEFINE n == Len(KeyTables)
           N == {k \in Nat : k =< n => /\ \A t \in 1 .. k + 1 : CodesBefore(t) \in Nat
                                       /\ \A t \in 1 .. k + 1 : CodesBefore(t) =< CodesBefore(k + 1)}
<1>1. n \in Nat
  BY TableAssumption
<1>2. 0 \in N
  BY CodesNext
<1>3. ASSUME NEW k \in Nat, k \in N  PROVE k + 1 \in N
  <2> SUFFICES ASSUME k + 1 =< n
               PROVE  /\ \A t \in 1 .. k + 2 : CodesBefore(t) \in Nat
                      /\ \A t \in 1 .. k + 2 : CodesBefore(t) =< CodesBefore(k + 2)
    BY <1>1
  <2>1. k + 1 \in 1 .. n /\ k + 1 + 1 = k + 2 /\ k =< n
    BY <1>1
  <2>2. /\ Len(KeyTables[k + 1].vals) \in Nat
        /\ CodesBefore(k + 2) = CodesBefore(k + 1) + Len(KeyTables[k + 1].vals)
    BY <2>1, CodesNext
  <2>3. \A t \in 1 .. k + 2 : t \in 1 .. k + 1 \/ t = k + 2
    OBVIOUS
  <2>4. /\ \A t \in 1 .. k + 1 : CodesBefore(t) \in Nat
        /\ \A t \in 1 .. k + 1 : CodesBefore(t) =< CodesBefore(k + 1)
    BY <1>3, <2>1
  <2>5. CodesBefore(k + 1) \in Nat
    BY <2>4
  <2>6. QED
    BY <2>2, <2>3, <2>4, <2>5
<1>4. Nat \subseteq N
  <2> HIDE DEF N
  <2>1. QED
    BY <1>2, <1>3, Keeping!InductiveSet
<1>5. ASSUME NEW t \in 1 .. n + 1, NEW u \in 1 .. n + 1
      PROVE  CodesBefore(u) \in Nat /\ (t =< u => CodesBefore(t) =< CodesBefore(u))
  <2>4. u - 1 \in Nat /\ u - 1 =< n /\ u - 1 + 1 = u /\ u \in 1 .. u
    BY <1>1
  <2>1. u - 1 \in N /\ u - 1 =< n /\ u - 1 + 1 = u /\ u \in 1 .. u
    <3> HIDE DEF N
    <3>1. QED
      BY <1>4, <2>4
  <2>2. /\ \A v \in 1 .. u : CodesBefore(v) \in Nat
        /\ \A v \in 1 .. u : CodesBefore(v) =< CodesBefore(u)
    BY <2>1
  <2>3. QED
    BY <1>1, <2>1, <2>2
<1>6. QED
  BY <1>5

\* The table that a code above zero is looked up in.
LEMMA TableOf ==
  ASSUME NEW t \in 1 .. Len(KeyTables), NEW v \in 1 .. Len(KeyTables[t].vals)
  PROVE  /\ CodesBefore(t) + v \in 1 .. INT8_MAX - 1
         /\ Max({u \in 1 .. Len(KeyTables) : CodesBefore(u) < CodesBefore(t) + v}) = t
<1> DEFINE n == Len(KeyTables)
           code == CodesBefore(t) + v
           U == {u \in 1 .. n : CodesBefore(u) < code}
<1>1. n \in Nat /\ t \in 1 .. n + 1 /\ t + 1 \in 1 .. n + 1 /\ n + 1 \in 1 .. n + 1
  BY TableAssumption
<1>2. /\ CodesBefore(t) \in Nat /\ CodesBefore(t + 1) \in Nat /\ CodesBefore(n + 1) \in Nat
      /\ CodesBefore(t + 1) =< CodesBefore(n + 1)
      /\ CodesBefore(t + 1) = CodesBefore(t) + Len(KeyTables[t].vals)
      /\ Len(KeyTables[t].vals) \in Nat
  BY <1>1, CodesOrder, CodesNext
<1>3. code \in 1 .. INT8_MAX - 1 /\ CodesBefore(t) < code /\ code =< CodesBefore(t + 1)
  BY <1>2, CodeAssumption, ByteAssumption
<1>4. ASSUME NEW u \in 1 .. n, CodesBefore(u) < code  PROVE t >= u
  <2>1. SUFFICES ASSUME t + 1 =< u  PROVE FALSE
    BY <1>1
  <2>2. CodesBefore(t + 1) =< CodesBefore(u) /\ CodesBefore(u) \in Nat
    BY <1>1, <2>1, CodesOrder
  <2>3. QED
    BY <1>2, <1>3, <1>4, <2>2
<1>5. t \in U /\ \A u \in U : t >= u
  BY <1>3, <1>4
<1> HIDE DEF code
<1>6. Max(U) \in U /\ \A u \in U : Max(U) >= u
  BY <1>5 DEF Max
<1>7. Max(U) \in 1 .. n /\ Max(U) >= t /\ t >= Max(U)
  <2> DEFINE m == Max(U)
  <2>1. m \in U /\ m >= t
    BY <1>5, <1>6
  <2> HIDE DEF m
  <2>2. QED
    BY <1>5, <2>1 DEF m
<1>8. Max(U) = t
  BY <1>1, <1>7
<1>9. QED
  BY <1>3, <1>8 DEF code

LEMMA CodeOf ==
  ASSUME NEW t \in 1 .. Len(KeyTables), NEW v \in 1 .. Len(KeyTables[t].vals)
  PROVE  CodesBefore(t) + v \in Int /\ CodesBefore(t) + v > 0 /\ CodesBefore(t) + v < INT8_MAX
<1>1. CodesBefore(t) + v \in 1 .. INT8_MAX - 1
  BY TableOf
<1> DEFINE code == CodesBefore(t) + v
<1> HIDE DEF code
<1>2. code \in 1 .. INT8_MAX - 1
  BY <1>1 DEF code
<1>3. code \in Int /\ code > 0 /\ code < INT8_MAX
  BY <1>2, ByteAssumption
<1>4. QED
  BY <1>3 DEF code

\* What a code says of the tag it stands for.
Stands(code, tag) ==
  \/ /\ code > 0
     /\ \E t \in 1 .. Len(KeyTables) : \E v \in 1 .. Len(KeyTables[t].vals) :
          /\ code = CodesBefore(t) + v
          /\ Found(KeyTables[t].key, tag.key) /\ Found(KeyTables[t].vals[v], tag.val)
  \/ code < 0 /\ -code \in 1 .. Len(FreeTextKeys) /\ Found(FreeTextKeys[-code], tag.key)
  \/ code = 0

LEMMA Encoded ==
  ASSUME NEW tag
  PROVE  Stands(encode_tag(tag), tag)
<1> DEFINE found == {t \in 1 .. Len(KeyTables) : Found(KeyTables[t].key, tag.key)}
           vals  == IF found = {} THEN {} ELSE Matches(KeyTables[Min(found)].vals, tag.val)
           free  == Matches(FreeTextKeys, tag.key)
<1>1. vals \subseteq Nat /\ free \subseteq Nat
  BY DEF Matches
<1>2. CASE vals # {}
  <2>1. Min(vals) \in vals
    BY <1>1, <1>2, MinIn
  <2>2. found # {} /\ found \subseteq Nat
    BY <1>2
  <2>3. Min(found) \in found
    BY <2>2, MinIn
  <2>4. encode_tag(tag) = CodesBefore(Min(found)) + Min(vals)
    BY <1>2, Zenon DEF encode_tag
  <2>5. vals = Matches(KeyTables[Min(found)].vals, tag.val)
    BY <2>2
  <2> DEFINE t == Min(found)
             v == Min(vals)
  <2>6. v \in 1 .. Len(KeyTables[t].vals) /\ Found(KeyTables[t].vals[v], tag.val)
    BY <2>1, <2>5 DEF Matches
  <2>7. t \in 1 .. Len(KeyTables) /\ Found(KeyTables[t].key, tag.key)
    BY <2>3
  <2>8. encode_tag(tag) = CodesBefore(t) + v
    BY <2>4
  <2> HIDE DEF t, v
  <2>9. CodesBefore(t) + v > 0
    BY <2>6, <2>7, CodeOf
  <2>10. QED
    BY <2>6, <2>7, <2>8, <2>9 DEF Stands
<1>3. CASE vals = {} /\ free # {}
  <2>1. Min(free) \in free
    BY <1>1, <1>3, MinIn
  <2>2. encode_tag(tag) = -Min(free)
    BY <1>3, Zenon DEF encode_tag
  <2> DEFINE k == Min(free)
  <2>3. k \in 1 .. Len(FreeTextKeys) /\ Found(FreeTextKeys[k], tag.key)
    BY <2>1 DEF Matches
  <2>4. encode_tag(tag) = -k
    BY <2>2
  <2> HIDE DEF k
  <2>5. -k < 0 /\ -(-k) = k
    BY <2>3, TableAssumption
  <2>6. QED
    BY <2>3, <2>4, <2>5 DEF Stands
<1>4. CASE vals = {} /\ free = {}
  <2>1. encode_tag(tag) = 0
    BY <1>4, Zenon DEF encode_tag
  <2>2. QED
    BY <2>1 DEF Stands
<1>5. QED
  BY <1>2, <1>3, <1>4

\* A byte holds every code, and no code looks like the end of a list.
LEMMA CodeIsByte ==
  ASSUME NEW tag
  PROVE  Int8(encode_tag(tag)) = encode_tag(tag) /\ encode_tag(tag) \in Int
         /\ encode_tag(tag) # INT8_MAX
<1> DEFINE code == encode_tag(tag)
<1>1. code \in Int /\ Stands(code, tag)
  BY Encoded, EncodeTagType
<1> HIDE DEF code
<1>2. Len(FreeTextKeys) \in Nat /\ INT8_MAX \in Nat /\ Len(FreeTextKeys) =< INT8_MAX + 1
  BY TableAssumption, ByteAssumption, CodeAssumption
<1>3. CASE code > 0
  <2>1. code < INT8_MAX
    <3>1. PICK t \in 1 .. Len(KeyTables) : \E v \in 1 .. Len(KeyTables[t].vals) :
            code = CodesBefore(t) + v
      BY <1>1, <1>3 DEF Stands
    <3>2. QED
      BY <3>1, CodeOf
  <2>2. Int8(code) = code
    BY <1>1, <1>2, <1>3, <2>1 DEF Int8
  <2>3. QED
    BY <1>1, <1>2, <2>1, <2>2 DEF code
<1>4. CASE code =< 0
  <2>1. code >= -(INT8_MAX + 1)
    BY <1>1, <1>2, <1>4 DEF Stands
  <2>2. INT8_MAX # 0
    <3>1. CodesBefore(Len(KeyTables) + 1) \in Nat
      BY CodesOrder, TableAssumption
    <3>2. QED
      BY <1>2, <3>1, CodeAssumption
  <2>3. Int8(code) = code
    BY <1>1, <1>2, <1>4, <2>1 DEF Int8
  <2>4. QED
    BY <1>1, <1>2, <1>4, <2>2, <2>3 DEF code
<1>5. QED
  BY <1>1, <1>3, <1>4

LEMMA CodeAndStrings ==
  ASSUME NEW c, NEW x, NEW y
  PROVE  /\ Len(<<c>> \o <<x, y>>) = 3 /\ (<<c>> \o <<x, y>>)[1] = c
         /\ (<<c>> \o <<x, y>>)[2] = x /\ (<<c>> \o <<x, y>>)[3] = y
         /\ Len(<<c>> \o <<x>>) = 2 /\ (<<c>> \o <<x>>)[1] = c /\ (<<c>> \o <<x>>)[2] = x
         /\ Len(<<c>> \o <<>>) = 1 /\ (<<c>> \o <<>>)[1] = c
<1> DEFINE T == {c, x, y}
<1>1. <<c>> \in Seq(T) /\ <<x, y>> \in Seq(T) /\ <<x>> \in Seq(T) /\ <<>> \in Seq(T)
  OBVIOUS
<1> HIDE DEF T
<1>2. Len(<<c>> \o <<x, y>>) = 3 /\ (<<c>> \o <<x, y>>)[1] = c
         /\ (<<c>> \o <<x, y>>)[2] = x /\ (<<c>> \o <<x, y>>)[3] = y
  BY <1>1, ConcatProperties
<1>3. Len(<<c>> \o <<x>>) = 2 /\ (<<c>> \o <<x>>)[1] = c /\ (<<c>> \o <<x>>)[2] = x
  BY <1>1, ConcatProperties
<1>4. Len(<<c>> \o <<>>) = 1 /\ (<<c>> \o <<>>)[1] = c
  BY <1>1, ConcatProperties
<1>5. QED
  BY <1>2, <1>3, <1>4

\* The cells of one tag.
LEMMA CellsOfTag ==
  ASSUME NEW tag
  PROVE  LET code == encode_tag(tag)
             z    == TagCells(tag)
         IN  /\ Len(z) \in 1 .. 3 /\ z[1] = code
             /\ code = 0 => Len(z) = 3 /\ z[2] = tag.key /\ z[3] = tag.val
             /\ code < 0 => Len(z) = 2 /\ z[2] = tag.val
             /\ code > 0 => Len(z) = 1
<1> DEFINE code == encode_tag(tag)
           z == TagCells(tag)
<1>1. code \in Int /\ Int8(code) = code
  BY CodeIsByte
<1> HIDE DEF code
<1>2. CASE code = 0
  <2>1. z = <<code>> \o <<tag.key, tag.val>>
    BY <1>1, <1>2 DEF TagCells, code
  <2>2. Len(z) = 3 /\ z[1] = code /\ z[2] = tag.key /\ z[3] = tag.val
    BY <2>1, CodeAndStrings
  <2>3. QED
    BY <1>1, <1>2, <2>2 DEF code
<1>3. CASE code < 0
  <2>1. z = <<code>> \o <<tag.val>>
    BY <1>1, <1>3 DEF TagCells, code
  <2>2. Len(z) = 2 /\ z[1] = code /\ z[2] = tag.val
    BY <2>1, CodeAndStrings
  <2>3. QED
    BY <1>1, <1>3, <2>2 DEF code
<1>4. CASE code > 0
  <2>1. z = <<code>> \o <<>>
    BY <1>1, <1>4 DEF TagCells, code
  <2>2. Len(z) = 1 /\ z[1] = code
    BY <2>1, CodeAndStrings
  <2>3. QED
    BY <1>1, <1>4, <2>2 DEF code
<1>5. QED
  BY <1>1, <1>2, <1>3, <1>4

\* A run of cells stands in a file from its p-th cell on.
StandsAt(data, p, z) ==
  p + Len(z) - 1 =< Len(data) /\ \A k \in 1 .. Len(z) : data[p + k - 1] = z[k]

ReadAs(data, p) == [key |-> decode_tag(data, p).key, val |-> decode_tag(data, p).val]

\* What is read where a tag was written.
LEMMA TagRead ==
  ASSUME NEW tag, NEW data, NEW p \in Nat, StandsAt(data, p, TagCells(tag))
  PROVE  /\ decode_tag(data, p).size = Len(TagCells(tag))
         /\ data[p] # INT8_MAX
         /\ SameTag(tag, ReadAs(data, p))
<1> DEFINE code == encode_tag(tag)
           z == TagCells(tag)
           table == Max({t \in 1 .. Len(KeyTables) : CodesBefore(t) < data[p]})
<1>1. code \in Int /\ code # INT8_MAX /\ Stands(code, tag)
  BY CodeIsByte, Encoded
<1>2. /\ Len(z) \in 1 .. 3 /\ z[1] = code
      /\ code = 0 => Len(z) = 3 /\ z[2] = tag.key /\ z[3] = tag.val
      /\ code < 0 => Len(z) = 2 /\ z[2] = tag.val
      /\ code > 0 => Len(z) = 1
  BY CellsOfTag
<1> HIDE DEF code, z
<1>3. \A k \in 1 .. Len(z) : data[p + k - 1] = z[k]
  BY DEF StandsAt, z
<1>4. data[p] = code
  <2>1. 1 \in 1 .. Len(z) /\ p + 1 - 1 = p
    BY <1>2
  <2>2. QED
    BY <1>2, <1>3, <2>1
<1>5. CASE code = 0
  <2>0. Len(z) = 3 /\ 2 \in 1 .. 3 /\ 3 \in 1 .. 3
    BY <1>2, <1>5
  <2>1. 2 \in 1 .. Len(z) /\ 3 \in 1 .. Len(z) /\ p + 2 - 1 = p + 1 /\ p + 3 - 1 = p + 2
    BY <2>0
  <2>2. data[p + 1] = tag.key /\ data[p + 2] = tag.val
    BY <1>2, <1>3, <1>5, <2>1
  <2>3. data[p] = 0 /\ ~(data[p] < 0) /\ ~(data[p] > 0)
    BY <1>4, <1>5
  <2>4. decode_tag(data, p) = [key |-> data[p + 1], val |-> data[p + 2], size |-> 3]
    BY <2>3, Zenon DEF decode_tag
  <2>5. ReadAs(data, p).key = tag.key /\ ReadAs(data, p).val = tag.val
    BY <2>2, <2>4 DEF ReadAs
  <2>6. QED
    BY <1>1, <1>2, <1>4, <1>5, <2>4, <2>5 DEF SameTag, Found, z
<1>6. CASE code < 0
  <2>0. p + 2 - 1 = p + 1
    OBVIOUS
  <2>1. 2 \in 1 .. Len(z) /\ p + 2 - 1 = p + 1
    BY <1>1, <1>2, <1>6, <2>0
  <2>2. data[p + 1] = tag.val
    BY <1>2, <1>3, <1>6, <2>1
  <2>3. data[p] # 0 /\ data[p] < 0 /\ ~(data[p] > 0)
    BY <1>1, <1>4, <1>6
  <2>4. decode_tag(data, p) = [key |-> FreeTextKeys[-data[p]], val |-> data[p + 1], size |-> 2]
    BY <2>3, Zenon DEF decode_tag
  <2>5. Found(FreeTextKeys[-code], tag.key)
    BY <1>1, <1>6 DEF Stands
  <2>6. Found(tag.val, tag.val)
    BY DEF Found
  <2>7. ReadAs(data, p).key = FreeTextKeys[-code] /\ ReadAs(data, p).val = tag.val
    BY <1>4, <2>2, <2>4 DEF ReadAs
  <2>8. QED
    BY <1>1, <1>2, <1>4, <1>6, <2>4, <2>5, <2>6, <2>7 DEF SameTag, z
<1>7. CASE code > 0
  <2>3. data[p] # 0 /\ ~(data[p] < 0) /\ data[p] > 0
    BY <1>1, <1>4, <1>7
  <2>4. decode_tag(data, p) = [key |-> KeyTables[table].key,
                               val |-> KeyTables[table].vals[data[p] - CodesBefore(table)],
                               size |-> 1]
    BY <2>3, Zenon DEF decode_tag
  <2>5. PICK t \in 1 .. Len(KeyTables) : \E v \in 1 .. Len(KeyTables[t].vals) :
          /\ code = CodesBefore(t) + v
          /\ Found(KeyTables[t].key, tag.key) /\ Found(KeyTables[t].vals[v], tag.val)
    BY <1>1, <1>7 DEF Stands
  <2>6. PICK v \in 1 .. Len(KeyTables[t].vals) :
          /\ code = CodesBefore(t) + v
          /\ Found(KeyTables[t].key, tag.key) /\ Found(KeyTables[t].vals[v], tag.val)
    BY <2>5
  <2>7. table = t
    BY <1>4, <2>6, TableOf
  <2>8. data[p] - CodesBefore(table) = v
    <3>1. CodesBefore(t) \in Nat /\ v \in Int
      BY CodesOrder, TableAssumption
    <3>2. QED
      BY <1>4, <2>6, <2>7, <3>1
  <2>9. ReadAs(data, p).key = KeyTables[t].key /\ ReadAs(data, p).val = KeyTables[t].vals[v]
    BY <2>4, <2>7, <2>8 DEF ReadAs
  <2>10. QED
    BY <1>1, <1>2, <1>4, <1>7, <2>4, <2>6, <2>9 DEF SameTag, z
<1>8. QED
  BY <1>1, <1>5, <1>6, <1>7

-----------------------------------------------------------------------------
(* A list of tags, where it was written.                                   *)

\* What the cell j of a tag file begins, when f tells it of the cells behind j.
ListFrom(data, f, j) ==
  IF data[j] = INT8_MAX THEN <<>>
  ELSE <<ReadAs(data, j)>> \o
       (IF j + decode_tag(data, j).size \in j + 1 .. Len(data)
        THEN f[j + decode_tag(data, j).size] ELSE <<>>)

\* The recursion of TagsFrom goes towards the end of the file, so that it is defined.
LEMMA ListsExist ==
  ASSUME NEW data, Len(data) \in Nat
  PROVE  \E f : f = [j \in 1 .. Len(data) |-> ListFrom(data, f, j)]
<1> DEFINE n == Len(data)
           L(f, j) == ListFrom(data, f, j)
           N == {k \in Nat : k =< n => \E f : f = [j \in n - k + 1 .. n |-> L(f, j)]}
<1>1. ASSUME NEW f, NEW g, NEW j, \A i \in j + 1 .. n : f[i] = g[i]
      PROVE  L(f, j) = L(g, j)
  <2> DEFINE next == j + decode_tag(data, j).size
  <2>1. next \in j + 1 .. n => f[next] = g[next]
    BY <1>1
  <2> HIDE DEF next
  <2>2. (IF next \in j + 1 .. n THEN f[next] ELSE <<>>) = (IF next \in j + 1 .. n THEN g[next] ELSE <<>>)
    BY <2>1
  <2>3. QED
    BY <2>2 DEF ListFrom, next
<1> HIDE DEF L
<1>2. 0 \in N
  <2> DEFINE h == [j \in {} |-> 0]
  <2>1. n - 0 + 1 .. n = {}
    OBVIOUS
  <2>2. h = [j \in n - 0 + 1 .. n |-> L(h, j)]
    BY <2>1
  <2>3. QED
    BY <2>2
<1>3. ASSUME NEW k \in Nat, k \in N  PROVE k + 1 \in N
  <2> SUFFICES ASSUME k + 1 =< n
               PROVE  \E f : f = [j \in n - (k + 1) + 1 .. n |-> L(f, j)]
    OBVIOUS
  <2>1. PICK f : f = [j \in n - k + 1 .. n |-> L(f, j)]
    BY <1>3
  <2> DEFINE lo == n - k
             g == [j \in lo .. n |-> IF j = lo THEN L(f, j) ELSE f[j]]
  <2>2. lo \in Nat /\ n - k + 1 = lo + 1 /\ n - (k + 1) + 1 = lo /\ lo =< n
    OBVIOUS
  <2> HIDE DEF lo
  <2>9. \A i \in lo + 1 .. n : f[i] = L(f, i)
    BY <2>1, <2>2
  <2>10. \A i \in lo + 1 .. n : i \in lo .. n /\ i # lo
    BY <2>2
  <2>3. \A i \in lo + 1 .. n : g[i] = f[i] /\ f[i] = L(f, i)
    BY <2>9, <2>10
  <2>4. ASSUME NEW j \in lo .. n  PROVE g[j] = L(g, j)
    <3>1. \A i \in j + 1 .. n : g[i] = f[i]
      BY <2>2, <2>3
    <3>2. L(g, j) = L(f, j)
      BY <1>1, <3>1
    <3>3. CASE j = lo
      BY <3>2, <3>3
    <3>4. CASE j # lo
      <4>1. j \in lo + 1 .. n
        BY <2>2, <3>4
      <4>2. g[j] = f[j] /\ f[j] = L(f, j)
        BY <2>3, <4>1
      <4>3. QED
        BY <3>2, <4>2
    <3>5. QED
      BY <3>3, <3>4
  <2>5. g = [j \in lo .. n |-> g[j]]
    OBVIOUS
  <2> HIDE DEF g
  <2>6. g = [j \in lo .. n |-> L(g, j)]
    BY <2>4, <2>5
  <2>7. QED
    BY <2>2, <2>6
<1>4. Nat \subseteq N
  <2> HIDE DEF N
  <2>1. QED
    BY <1>2, <1>3, Keeping!InductiveSet
<1>5. n \in N /\ n - n + 1 = 1
  <2> HIDE DEF N
  <2>1. QED
    BY <1>4
<1>6. QED
  BY <1>5 DEF L

LEMMA TagsFromIs ==
  ASSUME NEW data, Len(data) \in Nat, NEW i
  PROVE  \E f : f = [j \in 1 .. Len(data) |-> ListFrom(data, f, j)] /\ TagsFrom(data, i) = f[i]
<1> DEFINE f == CHOOSE g : g = [j \in 1 .. Len(data) |-> ListFrom(data, g, j)]
<1>1. f = [j \in 1 .. Len(data) |-> ListFrom(data, f, j)]
  BY ListsExist
<1>2. TagsFrom(data, i) = f[i]
  BY DEF TagsFrom, ListFrom, ReadAs
<1> HIDE DEF f
<1>3. QED
  BY <1>1, <1>2

LEMMA OneBefore ==
  ASSUME NEW R, NEW x \in R, NEW s \in Seq(R)
  PROVE  /\ <<x>> \o s \in Seq(R) /\ Len(<<x>> \o s) = Len(s) + 1
         /\ (<<x>> \o s)[1] = x /\ \A k \in 1 .. Len(s) : (<<x>> \o s)[k + 1] = s[k]
<1>1. <<x>> \in Seq(R) /\ Len(<<x>>) = 1 /\ Len(s) \in Nat
  OBVIOUS
<1>2. QED
  BY <1>1, ConcatProperties

Starts(a, z) == Len(a) =< Len(z) /\ \A i \in 1 .. Len(a) : z[i] = a[i]

LEMMA FrontStarts ==
  ASSUME NEW a \in Seq(Cell), NEW b \in Seq(Cell), NEW z \in Seq(Cell), Starts(a \o b, z)
  PROVE  Starts(a, z) /\ Len(a) + Len(b) =< Len(z) /\ \A i \in 1 .. Len(b) : z[Len(a) + i] = b[i]
<1>1. Len(a) \in Nat /\ Len(b) \in Nat /\ Len(a \o b) = Len(a) + Len(b)
  BY ConcatProperties
<1>2. /\ \A i \in 1 .. Len(a) : (a \o b)[i] = a[i]
      /\ \A i \in 1 .. Len(b) : (a \o b)[Len(a) + i] = b[i]
  <2>1. \A i \in 1 .. Len(a) + Len(b) : (a \o b)[i] = IF i <= Len(a) THEN a[i] ELSE b[i - Len(a)]
    BY ConcatProperties
  <2>2. ASSUME NEW i \in 1 .. Len(b)  PROVE (a \o b)[Len(a) + i] = b[i]
    <3>1. Len(a) + i \in 1 .. Len(a) + Len(b) /\ ~(Len(a) + i <= Len(a)) /\ Len(a) + i - Len(a) = i
      BY <1>1
    <3>2. QED
      BY <2>1, <3>1
  <2>3. QED
    BY <1>1, <2>1, <2>2
<1>3. \A i \in 1 .. Len(b) : Len(a) + i \in 1 .. Len(a) + Len(b)
  BY <1>1
<1>4. Len(a) + Len(b) =< Len(z) /\ \A i \in 1 .. Len(a) + Len(b) : z[i] = (a \o b)[i]
  BY <1>1 DEF Starts
<1>5. Len(a) =< Len(z) /\ \A i \in 1 .. Len(a) : i \in 1 .. Len(a) + Len(b)
  <2>1. Len(z) \in Nat
    OBVIOUS
  <2>2. QED
    BY <1>1, <1>4, <2>1
<1>6. Starts(a, z)
  BY <1>2, <1>4, <1>5 DEF Starts
<1>7. \A i \in 1 .. Len(b) : z[Len(a) + i] = b[i]
  BY <1>2, <1>3, <1>4
<1>8. QED
  BY <1>4, <1>6, <1>7

\* The cells of the first k tags.
CellsTo(tags, k) == FoldLeft(AddTag, <<>>, SubSeq(tags, 1, k))

LEMMA CellsNext ==
  ASSUME NEW tags \in TagLists
  PROVE  /\ CellsTo(tags, 0) = <<>>
         /\ TagList(tags) = CellsTo(tags, Len(tags)) \o <<INT8_MAX>>
         /\ \A k \in 0 .. Len(tags) : CellsTo(tags, k) \in Seq(Cell)
         /\ \A k \in 0 .. Len(tags) - 1 :
              CellsTo(tags, k + 1) = CellsTo(tags, k) \o TagCells(tags[k + 1])
<1> DEFINE Tag == [key : STRING, val : STRING]
           C(k) == Adding!Fold(<<>>, SubSeq(tags, 1, k))
<1>1. \A k : CellsTo(tags, k) = C(k)
  BY FoldsAreFolds DEF CellsTo
<1>2. tags \in Seq(Tag) /\ Len(tags) \in Nat
  BY DEF TagLists
<1>3. \A data \in Seq(Cell), tag \in Tag : AddTag(data, tag) \in Seq(Cell)
  BY TagCellsType DEF AddTag
<1> HIDE DEF Tag
<1>4. /\ C(0) = <<>> /\ C(Len(tags)) = Adding!Fold(<<>>, tags)
      /\ \A k \in 0 .. Len(tags) - 1 : C(k + 1) = AddTag(C(k), tags[k + 1])
  <2> HIDE DEF C
  <2>1. \A k : C(k) = Adding!Fold(<<>>, SubSeq(tags, 1, k))
    BY DEF C
  <2>2. QED
    BY <1>2, <2>1, Adding!FoldPrefix
<1>5. ASSUME NEW k \in 0 .. Len(tags)  PROVE C(k) \in Seq(Cell)
  <2>1. SubSeq(tags, 1, k) \in Seq(Tag) /\ <<>> \in Seq(Cell)
    BY <1>2, SubSeqProperties
  <2>2. QED
    BY <1>3, <2>1, Adding!FoldType
<1>6. TagList(tags) = Adding!Fold(<<>>, tags) \o <<INT8_MAX>>
  BY FoldsAreFolds DEF TagList
<1> HIDE DEF C
<1>7. QED
  BY <1>1, <1>4, <1>5, <1>6 DEF AddTag

\* Where the k-th tag of a list begins, from the beginning of the list.
LEMMA TagPlaces ==
  ASSUME NEW tags \in TagLists, NEW data, NEW p \in Nat, StandsAt(data, p, TagList(tags)),
         Len(data) \in Nat
  PROVE  /\ \A k \in 0 .. Len(tags) : Len(CellsTo(tags, k)) \in Nat
         /\ Len(CellsTo(tags, 0)) = 0
         /\ data[p + Len(CellsTo(tags, Len(tags)))] = INT8_MAX
         /\ \A k \in 0 .. Len(tags) : p + Len(CellsTo(tags, k)) =< Len(data)
         /\ \A k \in 0 .. Len(tags) - 1 :
              /\ Len(CellsTo(tags, k + 1)) = Len(CellsTo(tags, k)) + Len(TagCells(tags[k + 1]))
              /\ StandsAt(data, p + Len(CellsTo(tags, k)), TagCells(tags[k + 1]))
<1> DEFINE z == TagList(tags)
           m == Len(tags)
           C(k) == CellsTo(tags, k)
           N == {n \in Nat : n =< m => Starts(C(m - n), z)}
<1>1. /\ m \in Nat /\ z \in Seq(Cell) /\ Len(z) \in Nat /\ <<INT8_MAX>> \in Seq(Cell)
      /\ C(0) = <<>> /\ z = C(m) \o <<INT8_MAX>>
      /\ \A k \in 0 .. m : C(k) \in Seq(Cell) /\ Len(C(k)) \in Nat
      /\ \A k \in 0 .. m - 1 : C(k + 1) = C(k) \o TagCells(tags[k + 1])
  <2>1. m \in Nat /\ z \in Seq(Cell) /\ Len(z) \in Nat
    BY TagListType DEF TagLists
  <2>2. <<INT8_MAX>> \in Seq(Cell)
    BY ByteAssumption DEF Cell
  <2>3. \A k \in 0 .. m : C(k) \in Seq(Cell)
    BY CellsNext
  <2>4. \A k \in 0 .. m : Len(C(k)) \in Nat
    BY <2>3, LenProperties
  <2>5. QED
    BY <2>1, <2>2, <2>3, <2>4, CellsNext
<1>2. \A k \in 0 .. m - 1 : TagCells(tags[k + 1]) \in Seq(Cell)
  <2>1. tags \in Seq([key : STRING, val : STRING])
    BY DEF TagLists
  <2>3. \A k \in 0 .. m - 1 : k + 1 \in 1 .. Len(tags)
    BY <1>1
  <2>2. \A k \in 0 .. m - 1 : tags[k + 1] \in [key : STRING, val : STRING]
    BY <2>1, <2>3, ElementOfSeq
  <2>4. QED
    BY <2>2, TagCellsType
<1>3. p + Len(z) - 1 =< Len(data) /\ \A k \in 1 .. Len(z) : data[p + k - 1] = z[k]
  BY DEF StandsAt
<1> HIDE DEF z, m, C
<1>4. Starts(z, z)
  BY <1>1 DEF Starts
<1>5. Starts(C(m), z) /\ Len(C(m)) + 1 =< Len(z) /\ z[Len(C(m)) + 1] = INT8_MAX
  <2>1. C(m) \in Seq(Cell) /\ Len(<<INT8_MAX>>) = 1 /\ 1 \in 1 .. 1 /\ <<INT8_MAX>>[1] = INT8_MAX
    BY <1>1
  <2>2. QED
    BY <1>1, <1>4, <2>1, FrontStarts
<1>6. 0 \in N
  BY <1>1, <1>5
<1>7. ASSUME NEW n \in Nat, n \in N  PROVE n + 1 \in N
  <2> SUFFICES ASSUME n + 1 =< m  PROVE Starts(C(m - (n + 1)), z)
    OBVIOUS
  <2> DEFINE k == m - (n + 1)
  <2>1. k \in 0 .. m - 1 /\ k \in 0 .. m /\ k + 1 = m - n
    BY <1>1
  <2> HIDE DEF k
  <2>2. Starts(C(k + 1), z)
    <3>1. n =< m
      BY <1>1
    <3>2. QED
      BY <1>7, <2>1, <3>1
  <2>3. Starts(C(k), z)
    <3> DEFINE a == C(k)
               b == TagCells(tags[k + 1])
    <3>1. a \in Seq(Cell) /\ b \in Seq(Cell) /\ Starts(a \o b, z)
      BY <1>1, <1>2, <2>1, <2>2
    <3> HIDE DEF a, b
    <3>2. Starts(a, z)
      BY <1>1, <3>1, FrontStarts
    <3>3. QED
      BY <3>2 DEF a
  <2>4. QED
    BY <2>3 DEF k
<1>8. Nat \subseteq N
  <2> HIDE DEF N
  <2>1. QED
    BY <1>6, <1>7, Keeping!InductiveSet
<1>9. ASSUME NEW k \in 0 .. m  PROVE Starts(C(k), z)
  <2>1. m - k \in Nat /\ m - k =< m /\ m - (m - k) = k
    BY <1>1
  <2>2. m - k \in N
    BY <1>8, <2>1
  <2>3. QED
    BY <2>1, <2>2
<1>10. ASSUME NEW k \in 0 .. m - 1
       PROVE  /\ Len(C(k + 1)) = Len(C(k)) + Len(TagCells(tags[k + 1]))
              /\ StandsAt(data, p + Len(C(k)), TagCells(tags[k + 1]))
  <2> DEFINE a == C(k)
             b == TagCells(tags[k + 1])
  <2>1. k \in 0 .. m /\ k + 1 \in 0 .. m
    BY <1>1
  <2>2. a \in Seq(Cell) /\ b \in Seq(Cell) /\ Starts(a \o b, z) /\ C(k + 1) = a \o b
    BY <1>1, <1>2, <1>9, <2>1
  <2> HIDE DEF a, b
  <2>3. Len(a) \in Nat /\ Len(b) \in Nat /\ Len(a \o b) = Len(a) + Len(b)
    BY <2>2, ConcatProperties
  <2>4. Len(a) + Len(b) =< Len(z) /\ \A i \in 1 .. Len(b) : z[Len(a) + i] = b[i]
    BY <1>1, <2>2, FrontStarts
  <2>5. p + Len(a) + Len(b) - 1 =< Len(data)
    BY <1>1, <1>3, <2>3, <2>4
  <2>6. ASSUME NEW i \in 1 .. Len(b)  PROVE data[p + Len(a) + i - 1] = b[i]
    <3>1. Len(a) + i \in 1 .. Len(z) /\ p + (Len(a) + i) - 1 = p + Len(a) + i - 1
      BY <1>1, <2>3, <2>4
    <3>2. QED
      BY <1>3, <2>4, <3>1
  <2>7. StandsAt(data, p + Len(a), b)
    BY <2>5, <2>6 DEF StandsAt
  <2>8. QED
    BY <2>2, <2>3, <2>7 DEF a, b
<1>11. data[p + Len(C(m))] = INT8_MAX
  <2>1. Len(C(m)) + 1 \in 1 .. Len(z) /\ p + (Len(C(m)) + 1) - 1 = p + Len(C(m))
    BY <1>1, <1>5
  <2>2. QED
    BY <1>3, <1>5, <2>1
<1>12. ASSUME NEW k \in 0 .. m  PROVE p + Len(C(k)) =< Len(data)
  <2>1. CASE k = m
    BY <1>1, <1>3, <1>5, <2>1
  <2>2. CASE k # m
    <3>1. k \in 0 .. m - 1 /\ k \in 0 .. m
      BY <1>1, <2>2
    <3>2. /\ Len(TagCells(tags[k + 1])) \in 1 .. 3 /\ Len(C(k)) \in Nat
          /\ StandsAt(data, p + Len(C(k)), TagCells(tags[k + 1]))
      BY <1>1, <1>10, <3>1, CellsOfTag
    <3>3. p + Len(C(k)) + Len(TagCells(tags[k + 1])) - 1 =< Len(data)
      BY <3>2 DEF StandsAt
    <3> DEFINE a == Len(C(k))
               b == Len(TagCells(tags[k + 1]))
    <3>4. a \in Nat /\ b \in 1 .. 3 /\ p + a + b - 1 =< Len(data)
      BY <3>2, <3>3
    <3> HIDE DEF a, b
    <3>5. p + a =< Len(data)
      BY <3>4
    <3>6. QED
      BY <3>5 DEF a
  <2>3. QED
    BY <2>1, <2>2
<1>13. Len(C(0)) = 0
  BY <1>1
<1>14. QED
  BY <1>1, <1>10, <1>11, <1>12, <1>13 DEF C, m

(* Wherever a list of tags stands in a file, the reader finds those tags:  *)
(* every code is told from the strings behind it and from the end.         *)
LEMMA TagsReadBack ==
  ASSUME NEW tags \in TagLists, NEW data, Len(data) \in Nat, NEW p \in Nat \ {0},
         StandsAt(data, p, TagList(tags))
  PROVE  SameTags(tags, TagsFrom(data, p)) /\ (tags = <<>> => TagsFrom(data, p) = <<>>)
<1> DEFINE m == Len(tags)
           place(k) == p + Len(CellsTo(tags, k))
           R == {ReadAs(data, q) : q \in 1 .. Len(data)}
<1>1. m \in Nat
  BY DEF TagLists
<1>2. /\ place(0) = p /\ data[place(m)] = INT8_MAX
      /\ \A k \in 0 .. m : place(k) \in 1 .. Len(data)
      /\ \A k \in 0 .. m - 1 : place(k + 1) = place(k) + Len(TagCells(tags[k + 1]))
      /\ \A k \in 0 .. m - 1 : StandsAt(data, place(k), TagCells(tags[k + 1]))
  <2> DEFINE off(k) == Len(CellsTo(tags, k))
  <2>1. /\ \A k \in 0 .. m : off(k) \in Nat
        /\ off(0) = 0 /\ data[p + off(m)] = INT8_MAX
        /\ \A k \in 0 .. m : p + off(k) =< Len(data)
        /\ \A k \in 0 .. m - 1 : /\ off(k + 1) = off(k) + Len(TagCells(tags[k + 1]))
                                 /\ StandsAt(data, p + off(k), TagCells(tags[k + 1]))
    BY TagPlaces
  <2>2. \A k \in 0 .. m - 1 : Len(TagCells(tags[k + 1])) \in 1 .. 3
    BY CellsOfTag
  <2> HIDE DEF off
  <2>3. \A k \in 0 .. m - 1 : k \in 0 .. m /\ k + 1 \in 0 .. m
    BY <1>1
  <2>4. \A k \in 0 .. m - 1 : p + off(k + 1) = p + off(k) + Len(TagCells(tags[k + 1]))
    BY <2>1, <2>2, <2>3
  <2>5. \A k \in 0 .. m : p + off(k) \in 1 .. Len(data)
    BY <2>1
  <2>6. QED
    BY <2>1, <2>4, <2>5 DEF off
<1>3. PICK f : f = [j \in 1 .. Len(data) |-> ListFrom(data, f, j)] /\ TagsFrom(data, p) = f[p]
  BY TagsFromIs
<1> HIDE DEF place, m
<1>4. ASSUME NEW k \in 0 .. m - 1
      PROVE  /\ f[place(k)] = <<ReadAs(data, place(k))>> \o f[place(k + 1)]
             /\ ReadAs(data, place(k)) \in R
             /\ SameTag(tags[k + 1], ReadAs(data, place(k)))
  <2> DEFINE q == place(k)
             z == TagCells(tags[k + 1])
             next == q + decode_tag(data, q).size
  <2>1. q \in 1 .. Len(data) /\ StandsAt(data, q, z) /\ place(k + 1) = q + Len(z)
        /\ place(k + 1) \in 1 .. Len(data) /\ Len(z) \in 1 .. 3
    <3>1. k \in 0 .. m /\ k + 1 \in 0 .. m
      BY <1>1
    <3>2. QED
      BY <1>2, <3>1, CellsOfTag
  <2>2. decode_tag(data, q).size = Len(z) /\ data[q] # INT8_MAX
        /\ SameTag(tags[k + 1], ReadAs(data, q))
    <3>1. q \in Nat
      BY <2>1
    <3>2. QED
      BY <2>1, <3>1, TagRead
  <2>3. next = place(k + 1) /\ next \in q + 1 .. Len(data)
    <3> DEFINE d == decode_tag(data, q).size
               after == place(k + 1)
    <3>1. d = Len(z) /\ next = q + d /\ after = q + Len(z) /\ after \in 1 .. Len(data)
          /\ q \in Nat /\ Len(z) \in 1 .. 3
      BY <2>1, <2>2
    <3> HIDE DEF q, z, d, next, after
    <3>2. next = after /\ next \in q + 1 .. Len(data)
      BY <3>1
    <3>3. QED
      BY <3>2 DEF after
  <2>4. f[q] = ListFrom(data, f, q)
    BY <1>3, <2>1
  <2>5. ListFrom(data, f, q) = <<ReadAs(data, q)>> \o f[next]
    BY <2>2, <2>3 DEF ListFrom
  <2>6. ReadAs(data, q) \in R
    BY <2>1
  <2> HIDE DEF q, next
  <2>7. f[q] = <<ReadAs(data, q)>> \o f[place(k + 1)]
    BY <2>3, <2>4, <2>5
  <2>8. QED
    BY <2>2, <2>6, <2>7 DEF q
<1>5. f[place(m)] = <<>>
  <2>1. m \in 0 .. m
    BY <1>1
  <2>2. QED
    BY <1>2, <1>3, <2>1 DEF ListFrom
<1> HIDE DEF R
<1> DEFINE Read(n) == /\ f[place(m - n)] \in Seq(R) /\ Len(f[place(m - n)]) = n
                      /\ \A i \in 1 .. n : SameTag(tags[m - n + i], f[place(m - n)][i])
           N == {n \in Nat : n =< m => Read(n)}
<1> HIDE DEF Read
<1>6. 0 \in N
  <2>1. m - 0 = m /\ <<>> \in Seq(R) /\ Len(<<>>) = 0
    BY <1>1
  <2>4. f[place(m - 0)] = <<>> /\ 1 .. 0 = {}
    BY <1>5, <2>1
  <2>2. Read(0)
    BY <2>1, <2>4 DEF Read
  <2>3. QED
    BY <2>2
<1>7. ASSUME NEW n \in Nat, n \in N  PROVE n + 1 \in N
  <2> SUFFICES ASSUME n + 1 =< m  PROVE Read(n + 1)
    OBVIOUS
  <2> DEFINE k == m - (n + 1)
             s == f[place(k + 1)]
             x == ReadAs(data, place(k))
  <2>1. k \in 0 .. m - 1 /\ k + 1 = m - n /\ n =< m
    BY <1>1
  <2>2. Read(n)
    BY <1>7, <2>1
  <2>3. /\ f[place(k)] = <<x>> \o s /\ x \in R /\ SameTag(tags[k + 1], x)
    BY <1>4, <2>1
  <2>4. s \in Seq(R) /\ Len(s) = n /\ \A i \in 1 .. n : SameTag(tags[k + 1 + i], s[i])
    BY <2>1, <2>2 DEF Read
  <2> HIDE DEF s, x
  <2>5. /\ f[place(k)] \in Seq(R) /\ Len(f[place(k)]) = n + 1
        /\ f[place(k)][1] = x /\ \A i \in 1 .. n : f[place(k)][i + 1] = s[i]
    BY <2>3, <2>4, OneBefore
  <2>6. ASSUME NEW i \in 1 .. n + 1  PROVE SameTag(tags[k + i], f[place(k)][i])
    <3>1. CASE i = 1
      BY <2>3, <2>5, <3>1
    <3>2. CASE i # 1
      <4>1. i - 1 \in 1 .. n /\ i - 1 + 1 = i /\ k + 1 + (i - 1) = k + i
        BY <2>1, <3>2
      <4>2. f[place(k)][i] = s[i - 1] /\ SameTag(tags[k + i], s[i - 1])
        BY <2>4, <2>5, <4>1
      <4>3. QED
        BY <4>2
    <3>3. QED
      BY <3>1, <3>2
  <2>7. QED
    BY <2>5, <2>6 DEF Read
<1>8. Nat \subseteq N
  <2> HIDE DEF N
  <2>1. QED
    BY <1>6, <1>7, Keeping!InductiveSet
<1>9. Read(m)
  <2>1. m \in N /\ m =< m
    BY <1>1, <1>8
  <2>2. QED
    BY <2>1
<1>10. m - m = 0 /\ \A i \in 1 .. m : m - m + i = i
  BY <1>1
<1>11. Len(f[p]) = m /\ \A i \in 1 .. m : SameTag(tags[i], f[p][i])
  BY <1>2, <1>9, <1>10 DEF Read
<1>12. tags = <<>> => f[p] = <<>>
  <2>1. tags = <<>> => m = 0
    BY DEF m
  <2>2. QED
    BY <1>2, <1>5, <2>1
<1>13. QED
  BY <1>3, <1>11, <1>12 DEF SameTags, m

-----------------------------------------------------------------------------
(* The tag files.                                                          *)

\* Where the tags of an element are: the subfile, and the position the handler stored.
TagFile(e)  == subfile_index_for_id(e.id, e.type)
TagPlace(e) == IF e.type = "NODE" THEN nodes[e.id].tags
               ELSE IF e.type = "WAY" THEN ways[e.id].tags ELSE relations[e.id].tags

\* The i-th element's tags were written, and their position stored.
Tagged(i) == /\ i < at \/ (i = at /\ pc \in {"next", "head"})
             /\ input[i].type = "RELATION" => input[i].members # <<>>
TagsKept(e) ==
  /\ InFile(e) /\ TagFile(e) \in 0 .. MAX_SUBFILES - 1
  /\ StandsAt(tag_files[TagFile(e)], TagPlace(e) + 1, TagList(Kept(e.tags)))

(* Every tag file begins with an empty list, to which all elements without *)
(* tags and all ids never loaded point; every other list stands where its  *)
(* element points.                                                         *)
TagsStored ==
  /\ \A s \in 0 .. MAX_SUBFILES - 1 :
       Len(tag_files[s]) \in 1 .. SubfileSize /\ tag_files[s][1] = INT8_MAX
  /\ \A i \in 1 .. Len(input) : Tagged(i) => TagsKept(input[i])
  /\ \A n \in NodeIds :
       (\A i \in 1 .. Len(input) : i < at => ~(input[i].type = "NODE" /\ input[i].id = n))
       => nodes[n].tags = 0
  /\ \A w \in WayIds :
       (\A i \in 1 .. Len(input) : i < at => ~(input[i].type = "WAY" /\ input[i].id = w))
       => ways[w].tags = 0

LEMMA InitTags == Init => TagsStored
<1> SUFFICES ASSUME Init  PROVE TagsStored
  OBVIOUS
<1>1. \A i : ~Tagged(i) \/ i < 1
  BY DEF Init, Tagged
<1>2. Len(<<INT8_MAX>>) = 1 /\ <<INT8_MAX>>[1] = INT8_MAX /\ 1 \in 1 .. SubfileSize
  BY LimitAssumption DEF SubfileSize
<1>3. \A s \in 0 .. MAX_SUBFILES - 1 : tag_files[s] = <<INT8_MAX>>
  BY DEF Init
<1>4. /\ \A n \in NodeIds : nodes[n].tags = 0
      /\ \A w \in WayIds : ways[w].tags = 0
  BY DEF Init
<1>5. \A i \in 1 .. Len(input) : ~Tagged(i)
  BY <1>1
<1>6. QED
  BY <1>2, <1>3, <1>4, <1>5 DEF TagsStored

LEMMA InputFacts ==
  ASSUME IType
  PROVE  /\ input \in Inputs /\ Len(input) \in Nat /\ at \in 1 .. Len(input) + 1
         /\ \A i \in 1 .. Len(input) : input[i] \in Elements
         /\ \A i \in 1 .. Len(input) : input[i].type \in {"NODE", "WAY", "RELATION"}
<1>1. input \in Inputs /\ at \in 1 .. Len(input) + 1
  BY DEF IType, LoaderType
<1>2. input \in Seq(Elements) /\ \A i \in 1 .. Len(input) : input[i] \in Elements
  BY <1>1, InputType
<1>3. \A e \in Elements : e.type \in {"NODE", "WAY", "RELATION"}
  BY DEF Elements, NodeElems, WayElems, RelElems
<1>4. QED
  BY <1>1, <1>2, <1>3

\* Steps that write no tags.
KeepsTags ==
  /\ input' = input /\ tag_files' = tag_files
  /\ \A n \in NodeIds : nodes'[n].tags = nodes[n].tags
  /\ \A w \in WayIds : ways'[w].tags = ways[w].tags
  /\ \A r \in RelIds : relations'[r].tags = relations[r].tags
  /\ \/ at' = at /\ (pc' \in {"next", "head"} => pc \in {"next", "head"})
     \/ /\ at' = at + 1 /\ pc' = "element" /\ Elem.type = "RELATION"
        /\ Elem.members # <<>> => pc \in {"next", "head"}

LEMMA SamePlace ==
  ASSUME NEW e, InFile(e), KeepsTags
  PROVE  TagPlace(e)' = TagPlace(e)
<1>1. CASE e.type = "NODE"
  BY <1>1 DEF InFile, KeepsTags, TagPlace
<1>2. CASE e.type = "WAY"
  BY <1>2 DEF InFile, KeepsTags, TagPlace
<1>3. CASE e.type = "RELATION"
  BY <1>3 DEF InFile, KeepsTags, TagPlace
<1>4. QED
  BY <1>1, <1>2, <1>3 DEF InFile

LEMMA KeepTags ==
  ASSUME IType, TagsStored, KeepsTags
  PROVE  TagsStored'
<1>1. /\ input' = input /\ tag_files' = tag_files /\ Len(input) \in Nat /\ at \in Nat
      /\ \A n \in NodeIds : nodes'[n].tags = nodes[n].tags
      /\ \A w \in WayIds : ways'[w].tags = ways[w].tags
  BY InputFacts DEF KeepsTags
<1>2. ASSUME NEW i \in 1 .. Len(input), Tagged(i)'  PROVE Tagged(i)
  <2>1. CASE at' = at /\ (pc' \in {"next", "head"} => pc \in {"next", "head"})
    BY <1>1, <1>2, <2>1 DEF Tagged
  <2>2. CASE /\ at' = at + 1 /\ pc' = "element" /\ Elem.type = "RELATION"
             /\ Elem.members # <<>> => pc \in {"next", "head"}
    <3>1. i < at \/ i = at
      BY <1>1, <1>2, <2>2 DEF Tagged
    <3>2. QED
      BY <1>1, <1>2, <2>2, <3>1 DEF Tagged, Elem
  <2>3. QED
    BY <2>1, <2>2 DEF KeepsTags
<1>3. ASSUME NEW i \in 1 .. Len(input), Tagged(i)'  PROVE TagsKept(input[i])'
  <2>1. TagsKept(input[i])
    BY <1>2, <1>3 DEF TagsStored
  <2>2. TagPlace(input[i])' = TagPlace(input[i])
    BY <2>1, SamePlace, <1>1 DEF TagsKept, TagPlace
  <2>3. QED
    BY <1>1, <2>1, <2>2 DEF TagsKept, InFile, TagFile
<1>4. ASSUME NEW i \in 1 .. Len(input), i < at  PROVE i < at'
  <2> DEFINE b == at'
  <2>1. b = at \/ b = at + 1
    BY DEF KeepsTags
  <2> HIDE DEF b
  <2>2. i < b
    BY <1>1, <1>4, <2>1
  <2>3. QED
    BY <2>2 DEF b
<1>5. QED
  BY <1>1, <1>3, <1>4 DEF TagsStored

LEMMA TagsQuiet ==
  ASSUME IType,
         \/ HandleNode \/ HandleWay \/ CopyRef \/ EndRefs \/ IndexWay \/ ReadNoRef
         \/ HandleRelation \/ CopyMember \/ EndMembers
         \/ SetRelationNext \/ SetRelationHead \/ Die \/ FinishLoad \/ Kill
  PROVE  KeepsTags
<1>1. input' = input /\ tag_files' = tag_files
  BY DEF HandleNode, HandleWay, CopyRef, EndRefs, IndexWay, ReadNoRef, HandleRelation,
         CopyMember, EndMembers, SetRelationNext, SetRelationHead, Die,
         FinishLoad, Kill, StartList, Continue, NextElement, files, lists
<1>2. CASE \/ CopyRef \/ EndRefs \/ IndexWay \/ ReadNoRef \/ CopyMember \/ EndMembers
           \/ Die \/ FinishLoad \/ Kill
  <2>1. UNCHANGED <<nodes, ways, relations>> /\ at' = at
    BY <1>2 DEF CopyRef, EndRefs, IndexWay, ReadNoRef, CopyMember, EndMembers,
                Die, FinishLoad, Kill, Continue, files
  <2>2. pc' \notin {"next", "head"}
    BY <1>2 DEF CopyRef, EndRefs, IndexWay, ReadNoRef, CopyMember, EndMembers,
                Die, FinishLoad, Kill, Continue
  <2>3. QED
    BY <1>1, <2>1, <2>2 DEF KeepsTags
<1>3. CASE HandleNode
  <2>1. Elem.id \in NodeIds
    BY <1>3, Taken DEF HandleNode
  <2>2. /\ nodes' = [nodes EXCEPT ![Elem.id].coord = Elem.coord]
        /\ UNCHANGED <<ways, relations>> /\ at' = at /\ pc' = "tags"
    BY <1>3 DEF HandleNode, Continue
  <2>3. \A n \in NodeIds : nodes'[n].tags = nodes[n].tags
    BY <2>1, <2>2 DEF IType, FilesType, NodeRec
  <2>4. QED
    BY <1>1, <2>2, <2>3 DEF KeepsTags
<1>4. CASE HandleWay
  <2>1. Elem.id \in WayIds
    BY <1>4, Taken DEF HandleWay
  <2>2. /\ ways' = [ways EXCEPT ![Elem.id].node_ref_offset = n_node_refs]
        /\ UNCHANGED <<nodes, relations>> /\ at' = at /\ pc' = "refs"
    BY <1>4 DEF HandleWay, StartList
  <2>3. \A w \in WayIds : ways'[w].tags = ways[w].tags
    BY <2>1, <2>2 DEF IType, FilesType, WayRec
  <2>4. QED
    BY <1>1, <2>2, <2>3 DEF KeepsTags
<1>5. CASE HandleRelation
  <2>1. Elem.id \in RelIds /\ Elem.type = "RELATION"
    BY <1>5, Taken DEF HandleRelation
  <2>2. UNCHANGED <<nodes, ways>>
    BY <1>5 DEF HandleRelation
  <2>3. \A r \in RelIds : relations'[r].tags = relations[r].tags
    <3>1. CASE Elem.members = <<>>
      BY <1>5, <3>1 DEF HandleRelation
    <3>2. CASE Elem.members # <<>>
      <4>1. relations' = [relations EXCEPT ![Elem.id].member_offset = n_rel_members]
        BY <1>5, <3>2 DEF HandleRelation
      <4>2. QED
        BY <2>1, <4>1 DEF IType, FilesType, RelRec
    <3>3. QED
      BY <3>1, <3>2
  <2>4. \/ at' = at + 1 /\ pc' = "element" /\ Elem.members = <<>>
        \/ at' = at /\ pc' \in {"dead", "members"}
    BY <1>5 DEF HandleRelation, StartList, NextElement
  <2>5. QED
    BY <1>1, <2>1, <2>2, <2>3, <2>4 DEF KeepsTags
<1>6. CASE SetRelationNext
  <2>1. Elem.id \in RelIds /\ Elem.type = "RELATION" /\ pc = "next"
    BY <1>6, BeingLinked DEF SetRelationNext
  <2>2. UNCHANGED <<nodes, ways>> /\ \E v : relations' = [relations EXCEPT ![Elem.id].next = v]
    BY <1>6 DEF SetRelationNext
  <2>3. \A r \in RelIds : relations'[r].tags = relations[r].tags
    BY <2>1, <2>2 DEF IType, FilesType, RelRec
  <2>4. (at' = at + 1 /\ pc' = "element") \/ (at' = at /\ pc' = "head")
    BY <1>6 DEF SetRelationNext, NextElement, Continue
  <2>5. QED
    BY <1>1, <2>1, <2>2, <2>3, <2>4 DEF KeepsTags
<1>7. CASE SetRelationHead
  <2>1. Elem.type = "RELATION" /\ pc = "head"
    BY <1>7, BeingLinked DEF SetRelationHead
  <2>2. UNCHANGED <<nodes, ways, relations>> /\ at' = at + 1 /\ pc' = "element"
    BY <1>7 DEF SetRelationHead, NextElement
  <2>3. QED
    BY <1>1, <2>1, <2>2 DEF KeepsTags
<1>8. QED
  BY <1>2, <1>3, <1>4, <1>5, <1>6, <1>7

\* A run of cells still stands in a file that was made longer.
LEMMA StillStands ==
  ASSUME NEW a, NEW b, NEW z, NEW p \in Nat \ {0}, StandsAt(a, p, z), Starts(a, b),
         Len(a) \in Nat, Len(b) \in Nat, Len(z) \in Nat
  PROVE  StandsAt(b, p, z)
<1>1. p + Len(z) - 1 =< Len(b)
  BY DEF StandsAt, Starts
<1>2. ASSUME NEW k \in 1 .. Len(z)  PROVE b[p + k - 1] = z[k]
  <2>1. p + k - 1 \in 1 .. Len(a)
    BY DEF StandsAt
  <2>2. QED
    BY <2>1 DEF StandsAt, Starts
<1>3. QED
  BY <1>1, <1>2 DEF StandsAt

LEMMA EmptyList == TagList(<<>>) = <<INT8_MAX>>
<1>1. FoldLeft(AddTag, <<>>, <<>>) = <<>>
  BY FoldsAreFolds, Adding!FoldEmpty
<1>2. <<INT8_MAX>> \in Seq(Nat)
  BY ByteAssumption
<1>3. <<>> \o <<INT8_MAX>> = <<INT8_MAX>>
  BY <1>2, ConcatEmptySeq
<1>4. QED
  BY <1>1, <1>3 DEF TagList

LEMMA PlaceType ==
  ASSUME IType, NEW e, InFile(e)
  PROVE  TagPlace(e) \in 0 .. MAX_TAG_POSITION
<1>1. CASE e.type = "NODE"
  BY <1>1 DEF IType, FilesType, NodeRec, InFile, TagPlace
<1>2. CASE e.type = "WAY"
  BY <1>2 DEF IType, FilesType, WayRec, InFile, TagPlace
<1>3. CASE e.type = "RELATION"
  BY <1>3 DEF IType, FilesType, RelRec, InFile, TagPlace
<1>4. QED
  BY <1>1, <1>2, <1>3 DEF InFile

LEMMA ElementTags ==
  ASSUME NEW e \in Elements
  PROVE  /\ Kept(e.tags) \in TagLists /\ TagList(Kept(e.tags)) \in Seq(Cell)
         /\ Len(TagList(Kept(e.tags))) \in Nat
<1>1. e.tags \in TagLists
  BY DEF Elements, NodeElems, WayElems, RelElems
<1>2. Kept(e.tags) \in TagLists
  BY <1>1, KeptType
<1>3. TagList(Kept(e.tags)) \in Seq(Cell)
  BY <1>2, TagListType
<1>4. QED
  BY <1>2, <1>3, LenProperties

(* Elements written before keep their tags when the files are only made    *)
(* longer and no other element's position is stored.                       *)
LEMMA TagsLonger ==
  ASSUME IType, TagsStored, NEW i \in 1 .. Len(input), Tagged(i), input' = input,
         \A s \in 0 .. MAX_SUBFILES - 1 :
           Len(tag_files'[s]) \in Nat /\ Starts(tag_files[s], tag_files'[s]),
         TagPlace(input[i])' = TagPlace(input[i])
  PROVE  TagsKept(input[i])'
<1> DEFINE e == input[i]
           s == TagFile(e)
           p == TagPlace(e) + 1
<1>1. /\ InFile(e) /\ s \in 0 .. MAX_SUBFILES - 1
      /\ StandsAt(tag_files[s], p, TagList(Kept(e.tags)))
  BY DEF TagsStored, TagsKept
<1>2. e \in Elements
  BY InputFacts
<1>3. Len(TagList(Kept(e.tags))) \in Nat
  BY <1>2, ElementTags
<1>4. p \in Nat \ {0}
  <2>1. TagPlace(e) \in 0 .. MAX_TAG_POSITION
    BY <1>1, PlaceType
  <2>2. QED
    BY <2>1, LimitAssumption
<1>5. Len(tag_files[s]) \in Nat /\ Len(tag_files'[s]) \in Nat /\ Starts(tag_files[s], tag_files'[s])
  BY <1>1, LimitAssumption DEF TagsStored
<1> HIDE DEF p, s, e
<1>6. StandsAt(tag_files'[s], p, TagList(Kept(e.tags)))
  BY <1>1, <1>3, <1>4, <1>5, StillStands
<1>7. QED
  BY <1>1, <1>6 DEF TagsKept, p, s, e, InFile, TagFile

LEMMA TagsWritten ==
  ASSUME IType, TagsStored, WriteTags
  PROVE  TagsStored'
<1>0. PICK e : e = Elem
  OBVIOUS
<1> DEFINE s == Subfile
           z == NewCells
           old == tag_files[s]
           off == IF z = <<>> THEN 0 ELSE Position
<1>1. /\ at \in 1 .. Len(input) /\ input[at] = e /\ InFile(e) /\ e \in Elements
      /\ s = TagFile(e) /\ e.type \in {"NODE", "WAY", "RELATION"} /\ input \in Inputs
      /\ Len(input) \in Nat
  BY <1>0, InputFacts, NewCellsType
     DEF WriteTags, IType, Current, Busy, Elem, Subfile, TagFile, InFile
<1>2. s \in 0 .. MAX_SUBFILES - 1 /\ z \in Seq(Cell) /\ old \in Seq(Cell)
  <2>1. s \in 0 .. MAX_SUBFILES - 1 /\ z \in Seq(Cell)
    BY NewCellsType DEF WriteTags
  <2>2. QED
    BY <2>1 DEF IType, FilesType
<1>3. /\ tag_files' = [tag_files EXCEPT ![s] = old \o z]
      /\ Len(old) = Position /\ Position + Len(z) =< SubfileSize
      /\ Len(old) \in 1 .. SubfileSize /\ old[1] = INT8_MAX
  BY <1>2 DEF WriteTags, TagsFit, Position, TagsStored
<1>4. /\ e.type = "NODE" => /\ nodes' = [nodes EXCEPT ![e.id].tags = off]
                            /\ NextElement /\ UNCHANGED <<ways, relations>>
      /\ e.type = "WAY" => /\ ways' = [ways EXCEPT ![e.id].tags = off]
                           /\ NextElement /\ UNCHANGED <<nodes, relations>>
      /\ e.type = "RELATION" => /\ relations' = [relations EXCEPT ![e.id].tags = off]
                                /\ Continue("next") /\ UNCHANGED <<nodes, ways>>
  BY <1>0 DEF WriteTags
<1>5. z = IF Kept(e.tags) = <<>> THEN <<>> ELSE TagList(Kept(e.tags))
  BY <1>0 DEF NewCells
<1> HIDE DEF s, z, old, off
<1>6. /\ old \o z \in Seq(Cell) /\ Len(old \o z) = Len(old) + Len(z) /\ Len(z) \in Nat
      /\ \A k \in 1 .. Len(old) : (old \o z)[k] = old[k]
      /\ \A k \in 1 .. Len(z) : (old \o z)[Len(old) + k] = z[k]
  <2>1. Starts(old \o z, old \o z) /\ old \o z \in Seq(Cell)
    BY <1>2, ConcatProperties DEF Starts
  <2>2. Starts(old, old \o z) /\ \A k \in 1 .. Len(z) : (old \o z)[Len(old) + k] = z[k]
    BY <1>2, <2>1, FrontStarts
  <2>3. QED
    BY <1>2, <2>1, <2>2, ConcatProperties, LenProperties DEF Starts
<1>7. /\ tag_files'[s] = old \o z
      /\ \A t \in 0 .. MAX_SUBFILES - 1 : t # s => tag_files'[t] = tag_files[t]
  BY <1>2, <1>3 DEF IType, FilesType
<1>8. ASSUME NEW t \in 0 .. MAX_SUBFILES - 1
      PROVE  /\ Len(tag_files'[t]) \in 1 .. SubfileSize /\ tag_files'[t][1] = INT8_MAX
             /\ Starts(tag_files[t], tag_files'[t])
  <2>1. CASE t = s
    <3>1. Len(old \o z) \in 1 .. SubfileSize /\ 1 \in 1 .. Len(old)
          /\ Len(old) =< Len(old \o z)
      BY <1>3, <1>6, LimitAssumption
    <3>2. QED
      BY <1>3, <1>6, <1>7, <2>1, <3>1 DEF Starts, old
  <2>2. CASE t # s
    BY <1>7, <2>2, LimitAssumption DEF TagsStored, Starts
  <2>3. QED
    BY <2>1, <2>2
<1>9. /\ TagPlace(e)' = off
      /\ \A n \in NodeIds : (e.type = "NODE" /\ e.id = n) \/ nodes'[n].tags = nodes[n].tags
      /\ \A w \in WayIds : (e.type = "WAY" /\ e.id = w) \/ ways'[w].tags = ways[w].tags
      /\ \A r \in RelIds : (e.type = "RELATION" /\ e.id = r) \/ relations'[r].tags = relations[r].tags
  <2>1. CASE e.type = "NODE"
    <3>1. e.id \in NodeIds
      BY <1>1, <2>1 DEF InFile
    <3>2. nodes'[e.id].tags = off /\ \A n \in NodeIds : n # e.id => nodes'[n] = nodes[n]
      BY <1>4, <2>1, <3>1 DEF IType, FilesType, NodeRec
    <3>3. QED
      BY <1>4, <2>1, <3>2 DEF TagPlace
  <2>2. CASE e.type = "WAY"
    <3>1. e.id \in WayIds
      BY <1>1, <2>2 DEF InFile
    <3>2. ways'[e.id].tags = off /\ \A n \in WayIds : n # e.id => ways'[n] = ways[n]
      BY <1>4, <2>2, <3>1 DEF IType, FilesType, WayRec
    <3>3. QED
      BY <1>4, <2>2, <3>2 DEF TagPlace
  <2>3. CASE e.type = "RELATION"
    <3>1. e.id \in RelIds
      BY <1>1, <2>3 DEF InFile
    <3>2. relations'[e.id].tags = off /\ \A n \in RelIds : n # e.id => relations'[n] = relations[n]
      BY <1>4, <2>3, <3>1 DEF IType, FilesType, RelRec
    <3>3. QED
      BY <1>4, <2>3, <3>2 DEF TagPlace
  <2>4. QED
    BY <1>1, <2>1, <2>2, <2>3
<1>10. /\ input' = input
       /\ \/ e.type # "RELATION" /\ at' = at + 1 /\ pc' = "element"
          \/ e.type = "RELATION" /\ at' = at /\ pc' = "next"
  BY <1>1, <1>4 DEF NextElement, Continue
<1>11. TagsKept(e)'
  <2> DEFINE list == TagList(Kept(e.tags))
  <2>1. Len(list) \in Nat
    BY <1>1, ElementTags
  <2>2. StandsAt(old \o z, off + 1, list)
    <3>1. CASE Kept(e.tags) = <<>>
      <4>1. list = <<INT8_MAX>> /\ z = <<>> /\ off = 0
        BY <1>5, <3>1, EmptyList DEF off
      <4>2. Len(list) = 1 /\ list[1] = INT8_MAX
        BY <4>1
      <4>3. (old \o z)[1] = INT8_MAX /\ Len(old \o z) >= 1
        BY <1>3, <1>6, LimitAssumption
      <4>4. QED
        BY <4>1, <4>2, <4>3 DEF StandsAt
    <3>2. CASE Kept(e.tags) # <<>>
      <4>1. list = z /\ z # <<>>
        <5>1. list # <<>>
          <6>1. Kept(e.tags) \in TagLists
            BY <1>1, ElementTags
          <6>2. PICK c \in Seq(Cell) : list = c \o <<INT8_MAX>>
            <7>1. Kept(e.tags) \in Seq([key : STRING, val : STRING])
              BY <6>1 DEF TagLists
            <7>2. Len(Kept(e.tags)) \in 0 .. Len(Kept(e.tags))
              BY <7>1
            <7>3. QED
              BY <6>1, <7>2, CellsNext
          <6>3. <<INT8_MAX>> \in Seq(Cell) /\ Len(<<INT8_MAX>>) = 1
            BY ByteAssumption DEF Cell
          <6>4. Len(list) = Len(c) + 1 /\ Len(c) \in Nat
            BY <6>2, <6>3, ConcatProperties, LenProperties
          <6>5. QED
            BY <6>4
        <5>2. QED
          BY <1>5, <3>2, <5>1
      <4>2. off = Len(old)
        BY <1>3, <4>1 DEF off
      <4>3. \A k \in 1 .. Len(z) : off + 1 + k - 1 = Len(old) + k
        BY <1>3, <4>2, LimitAssumption
      <4>4. off + 1 + Len(z) - 1 =< Len(old \o z)
        BY <1>3, <1>6, <4>2, LimitAssumption
      <4> HIDE DEF list
      <4>5. QED
        BY <1>6, <4>1, <4>3, <4>4 DEF StandsAt
    <3>3. QED
      BY <3>1, <3>2
  <2>3. QED
    BY <1>1, <1>2, <1>7, <1>9, <2>2 DEF TagsKept, InFile, TagFile
<1>12. ASSUME NEW i \in 1 .. Len(input), i # at, Tagged(i)'  PROVE TagsKept(input[i])'
  <2>1. Tagged(i)
    <3>1. i < at
      BY <1>1, <1>10, <1>12 DEF Tagged
    <3>2. QED
      BY <1>10, <1>12, <3>1 DEF Tagged
  <2>2. InFile(input[i])
    BY <2>1 DEF TagsStored, TagsKept
  <2>3. ~(input[i].type = e.type /\ input[i].id = e.id)
    BY <1>1, <1>12, InputOrder
  <2>4. TagPlace(input[i])' = TagPlace(input[i])
    <3>1. CASE input[i].type = "NODE"
      BY <1>9, <1>10, <2>2, <2>3, <3>1 DEF InFile, TagPlace
    <3>2. CASE input[i].type = "WAY"
      BY <1>9, <1>10, <2>2, <2>3, <3>2 DEF InFile, TagPlace
    <3>3. CASE input[i].type = "RELATION"
      BY <1>9, <1>10, <2>2, <2>3, <3>3 DEF InFile, TagPlace
    <3>4. QED
      BY <2>2, <3>1, <3>2, <3>3 DEF InFile
  <2>5. QED
    BY <1>8, <1>10, <2>1, <2>4, TagsLonger, LimitAssumption
<1>13. ASSUME NEW i \in 1 .. Len(input), Tagged(i)'  PROVE TagsKept(input[i])'
  <2>1. CASE i = at
    <3>1. input[i] = e /\ input' = input
      BY <1>1, <1>10, <2>1
    <3>2. QED
      BY <1>11, <3>1 DEF TagsKept, InFile, TagFile, TagPlace
  <2>2. QED
    BY <1>12, <1>13, <2>1
<1>14. ASSUME NEW n \in NodeIds,
              \A i \in 1 .. Len(input) : i < at' => ~(input[i].type = "NODE" /\ input[i].id = n)
       PROVE  nodes'[n].tags = 0
  <2>1. ~(e.type = "NODE" /\ e.id = n)
    BY <1>1, <1>10, <1>14
  <2>2. \A i \in 1 .. Len(input) : i < at => ~(input[i].type = "NODE" /\ input[i].id = n)
    BY <1>1, <1>10, <1>14
  <2>3. QED
    BY <1>9, <2>1, <2>2 DEF TagsStored
<1>15. ASSUME NEW n \in WayIds,
              \A i \in 1 .. Len(input) : i < at' => ~(input[i].type = "WAY" /\ input[i].id = n)
       PROVE  ways'[n].tags = 0
  <2>1. ~(e.type = "WAY" /\ e.id = n)
    BY <1>1, <1>10, <1>15
  <2>2. \A i \in 1 .. Len(input) : i < at => ~(input[i].type = "WAY" /\ input[i].id = n)
    BY <1>1, <1>10, <1>15
  <2>3. QED
    BY <1>9, <2>1, <2>2 DEF TagsStored
<1>16. QED
  BY <1>8, <1>10, <1>13, <1>14, <1>15 DEF TagsStored

\* The part of a list that fits is written; what stood before it stays.
LEMMA TagsOverrun ==
  ASSUME IType, TagsStored, OverrunTags
  PROVE  TagsStored'
<1> DEFINE s == Subfile
           old == tag_files[s]
           list == old \o NewCells
           m == SubfileSize
<1>1. s \in 0 .. MAX_SUBFILES - 1 /\ NewCells \in Seq(Cell) /\ old \in Seq(Cell)
  <2>1. s \in 0 .. MAX_SUBFILES - 1 /\ NewCells \in Seq(Cell)
    BY NewCellsType DEF OverrunTags
  <2>2. QED
    BY <2>1 DEF IType, FilesType
<1>2. /\ tag_files' = [tag_files EXCEPT ![s] = SubSeq(list, 1, m)]
      /\ UNCHANGED <<nodes, ways, relations>> /\ input' = input /\ at' = at
      /\ pc' \notin {"next", "head"}
  BY DEF OverrunTags, Continue
<1>3. Len(old) \in 1 .. m /\ old[1] = INT8_MAX /\ Len(old) + Len(NewCells) > m
  BY <1>1, LimitAssumption DEF OverrunTags, TagsFit, SubfileSize, Position, TagsStored
<1> HIDE DEF s, old, m
<1>4. /\ list \in Seq(Cell) /\ Len(list) = Len(old) + Len(NewCells)
      /\ \A k \in 1 .. Len(old) : list[k] = old[k]
  <2>1. list \in Seq(Cell) /\ Starts(list, list)
    BY <1>1, ConcatProperties DEF Starts
  <2>2. Starts(old, list)
    BY <1>1, <2>1, FrontStarts
  <2>3. QED
    BY <1>1, <2>1, <2>2, ConcatProperties DEF Starts
<1> HIDE DEF list
<1>5. m \in Nat \ {0} /\ Len(NewCells) \in Nat
  BY <1>1, LimitAssumption DEF m, SubfileSize
<1>6. /\ Len(SubSeq(list, 1, m)) = m /\ \A k \in 1 .. m : SubSeq(list, 1, m)[k] = list[k]
  <2>1. \A k \in 1 .. m : list[k] \in Cell
    BY <1>3, <1>4, <1>5, ElementOfSeq
  <2>2. QED
    BY <1>5, <2>1, SubSeqProperties
<1>7. ASSUME NEW t \in 0 .. MAX_SUBFILES - 1
      PROVE  /\ Len(tag_files'[t]) \in 1 .. m /\ tag_files'[t][1] = INT8_MAX
             /\ Starts(tag_files[t], tag_files'[t])
  <2>1. CASE t = s
    <3>1. tag_files'[t] = SubSeq(list, 1, m)
      BY <1>1, <1>2, <2>1 DEF IType, FilesType
    <3>2. 1 \in 1 .. Len(old) /\ 1 \in 1 .. m /\ m \in 1 .. m
      BY <1>3, <1>5
    <3>3. \A k \in 1 .. Len(old) : k \in 1 .. m
      BY <1>3, <1>5
    <3>4. Len(tag_files'[t]) = m /\ \A k \in 1 .. m : tag_files'[t][k] = list[k]
      BY <1>6, <3>1
    <3>5. tag_files[t] = old
      BY <2>1 DEF old
    <3> DEFINE new == tag_files'[t]
    <3> HIDE DEF new
    <3>6. Len(new) = m /\ \A k \in 1 .. m : new[k] = list[k]
      BY <3>4 DEF new
    <3>7. Len(new) \in 1 .. m /\ new[1] = INT8_MAX
      BY <1>3, <1>4, <1>5, <3>2, <3>6
    <3>8. Starts(old, new)
      BY <1>3, <1>4, <1>5, <3>3, <3>6 DEF Starts
    <3>9. QED
      BY <3>5, <3>7, <3>8 DEF new
  <2>2. CASE t # s
    <3>1. tag_files'[t] = tag_files[t]
      BY <1>1, <1>2, <2>2 DEF IType, FilesType
    <3>2. QED
      BY <3>1, LimitAssumption DEF TagsStored, Starts, m
  <2>3. QED
    BY <2>1, <2>2
<1>8. ASSUME NEW i \in 1 .. Len(input), Tagged(i)'  PROVE TagsKept(input[i])'
  <2>1. Tagged(i)
    BY <1>2, <1>8 DEF Tagged
  <2>2. TagPlace(input[i])' = TagPlace(input[i])
    BY <1>2 DEF TagPlace
  <2>3. QED
    BY <1>2, <1>5, <1>7, <2>1, <2>2, TagsLonger
<1>9. QED
  BY <1>2, <1>7, <1>8 DEF TagsStored, m

LEMMA SameTagsStored ==
  ASSUME TagsStored, UNCHANGED <<loader, counters, files>>
  PROVE  TagsStored'
<1>1. UNCHANGED <<input, at, pc, nodes, ways, relations, tag_files>>
  BY DEF loader, files, lists
<1>2. \A i : Tagged(i)' <=> Tagged(i)
  BY <1>1 DEF Tagged
<1>3. \A e : TagsKept(e)' <=> TagsKept(e)
  BY <1>1 DEF TagsKept, InFile, TagFile, TagPlace
<1>4. QED
  BY <1>1, <1>2, <1>3 DEF TagsStored

\* Steps that are not the loader's leave its state and the files.
LEMMA OtherSteps ==
  ASSUME [Next]_vars
  PROVE  Load \/ Kill \/ UNCHANGED <<loader, counters, files>>
<1>1. CASE Extract \/ \E b \in Boxes : StartExtract(b)
  BY <1>1 DEF Extract, EnterCell, WriteNodes, WalkRound, WalkForever, WriteWay, ReadPastEnd,
         WriteRelation, EndStage, StartExtract
<1>2. CASE Overrun \/ UNCHANGED vars
  BY <1>2 DEF Overrun, vars
<1>3. QED
  BY <1>1, <1>2 DEF Next

LEMMA NextTags == IType /\ TagsStored /\ [Next]_vars => TagsStored'
<1> SUFFICES ASSUME IType, TagsStored, [Next]_vars  PROVE TagsStored'
  OBVIOUS
<1>1. CASE WriteTags \/ OverrunTags
  BY <1>1, TagsWritten, TagsOverrun
<1>2. CASE (Load \/ Kill) /\ ~WriteTags /\ ~OverrunTags
  <2>1. KeepsTags
    BY <1>2, TagsQuiet DEF Load
  <2>2. QED
    BY <2>1, KeepTags
<1>3. QED
  BY <1>1, <1>2, SameTagsStored, OtherSteps

-----------------------------------------------------------------------------
(* The references.                                                         *)

\* Delta coding is undone by sums.
LEMMA DecodedNext ==
  ASSUME NEW deltas \in Seq(Int)
  PROVE  /\ Len(Decoded(deltas)) = Len(deltas) /\ Len(deltas) \in Nat
         /\ \A k \in 1 .. Len(deltas) : Decoded(deltas)[k] \in Int
         /\ \A k \in 1 .. Len(deltas) :
              Decoded(deltas)[k] = (IF k = 1 THEN 0 ELSE Decoded(deltas)[k - 1]) + deltas[k]
<1> DEFINE S(k) == Summing!Fold(0, SubSeq(deltas, 1, k))
<1>1. \A list : FoldLeft(AddDelta, 0, list) = Summing!Fold(0, list)
  BY DEF Summing!Fold, Summing!Folds, FoldLeft, MapThenFoldSet,
         Max, Summing!Max
<1>2. /\ S(0) = 0
      /\ \A k \in 0 .. Len(deltas) - 1 : S(k + 1) = AddDelta(S(k), deltas[k + 1])
  <2> HIDE DEF S
  <2>1. \A k : S(k) = Summing!Fold(0, SubSeq(deltas, 1, k))
    BY DEF S
  <2>2. QED
    BY <2>1, Summing!FoldPrefix
<1>3. ASSUME NEW k \in 0 .. Len(deltas)  PROVE S(k) \in Int
  <2>1. SubSeq(deltas, 1, k) \in Seq(Int)
    BY SubSeqProperties
  <2>2. \A x, y \in Int : AddDelta(x, y) \in Int
    BY DEF AddDelta
  <2> DEFINE list == SubSeq(deltas, 1, k)
  <2> HIDE DEF list
  <2>3. list \in Seq(Int) /\ 0 \in Int
    BY <2>1 DEF list
  <2>4. Summing!Fold(0, list) \in Int
    BY <2>2, <2>3, Summing!FoldType, Zenon
  <2>5. QED
    BY <2>4 DEF list
<1>4. Decoded(deltas) = [k \in 1 .. Len(deltas) |-> S(k)]
  BY <1>1 DEF Decoded
<1> HIDE DEF S
<1>5. Len(deltas) \in Nat
  OBVIOUS
<1>6. Len(Decoded(deltas)) = Len(deltas) /\ \A k \in 1 .. Len(deltas) : Decoded(deltas)[k] = S(k)
  BY <1>4, <1>5
<1>7. ASSUME NEW k \in 1 .. Len(deltas)
      PROVE  S(k) = (IF k = 1 THEN 0 ELSE S(k - 1)) + deltas[k]
  <2>1. k - 1 \in 0 .. Len(deltas) - 1 /\ k - 1 + 1 = k
    BY <1>5
  <2>2. S(k) = S(k - 1) + deltas[k]
    BY <1>2, <2>1 DEF AddDelta
  <2>3. QED
    BY <1>2, <2>2
<1>8. ASSUME NEW k \in 1 .. Len(deltas), k # 1  PROVE k - 1 \in 1 .. Len(deltas)
  BY <1>5, <1>8
<1>9. QED
  BY <1>3, <1>5, <1>6, <1>7, <1>8

\* A list without references has no last one to mark (vex.c:500).
NoEmptyWay == \A i \in 1 .. Len(input) : input[i].type = "WAY" => input[i].refs # <<>>

\* The references of a way in its file, the last one negated.
RefsEnd(e) == ways[e.id].node_ref_offset + Len(e.refs)
RefCopied(e, k) ==
  node_refs[ways[e.id].node_ref_offset + k - 1] =
    IF k = Len(e.refs) THEN -Refs(e)[k] ELSE Refs(e)[k]
RefsDone(i) ==
  i < at \/ (i = at /\ (pc \in {"index", "tags"} \/ \E c \in Cells : input[i].id \in cell_ways[c]))
RefsKept(e) == /\ InFile(e) /\ RefsEnd(e) =< n_node_refs
               /\ \A k \in 1 .. Len(e.refs) : RefCopied(e, k)

\* The list being copied: behind those of all ways before, decoded so far.
RefsCopied ==
  /\ item =< Len(Elem.refs) + 1
  /\ n_node_refs = ways[Elem.id].node_ref_offset + item - 1
  /\ ref_id = IF item = 1 THEN 0 ELSE Refs(Elem)[item - 1]
  /\ \A k \in 1 .. item - 1 :
       node_refs[ways[Elem.id].node_ref_offset + k - 1] = Refs(Elem)[k]
  /\ \A i \in 1 .. Len(input) : input[i].type = "WAY" /\ i < at =>
       RefsEnd(input[i]) =< ways[Elem.id].node_ref_offset

(* Wherever the loader was stopped, the file of references has the whole   *)
(* list of every way that was indexed.                                     *)
RefsStored ==
  NoEmptyWay =>
    /\ \A i \in 1 .. Len(input) : input[i].type = "WAY" /\ RefsDone(i) => RefsKept(input[i])
    /\ pc = "refs" => RefsCopied

LEMMA InitRefs == Init => RefsStored
<1> SUFFICES ASSUME Init  PROVE RefsStored
  OBVIOUS
<1>1. \A i \in 1 .. Len(input) : ~RefsDone(i)
  BY DEF Init, RefsDone
<1>2. QED
  BY <1>1 DEF Init, RefsStored

\* Once a way's handler has left its references, they are all there.
LEMMA NotIndexed ==
  ASSUME IType, WaysIndexed, NEW i \in 1 .. Len(input), input[i].type = "WAY", ~Past(i),
         NEW c \in Cells
  PROVE  input[i].id \notin cell_ways[c]
BY InputFacts, InputOrder DEF WaysIndexed

\* Steps that store no references.
KeepsRefs ==
  /\ input' = input /\ node_refs' = node_refs /\ n_node_refs' = n_node_refs
  /\ \A w \in WayIds : ways'[w].node_ref_offset = ways[w].node_ref_offset
  /\ cell_ways' = cell_ways /\ pc' # "refs"
  /\ \/ at' = at /\ (pc' \in {"index", "tags"} => pc \in {"index", "tags"} \/ Elem.type # "WAY")
     \/ at' = at + 1 /\ pc' = "element" /\ (Elem.type = "WAY" => pc = "tags")

LEMMA SameRefs ==
  ASSUME NEW e, RefsKept(e), UNCHANGED node_refs, n_node_refs' = n_node_refs,
         \A w \in WayIds : ways'[w].node_ref_offset = ways[w].node_ref_offset,
         e.type = "WAY"
  PROVE  RefsKept(e)'
<1>1. e.id \in WayIds
  BY DEF RefsKept, InFile
<1>2. QED
  BY <1>1 DEF RefsKept, InFile, RefsEnd, RefCopied

LEMMA KeepRefs ==
  ASSUME IType, WaysIndexed', RefsStored, IType', KeepsRefs
  PROVE  RefsStored'
<1>1. /\ input' = input /\ Len(input) \in Nat /\ at \in Nat /\ pc' # "refs"
      /\ NoEmptyWay' <=> NoEmptyWay
  BY InputFacts DEF KeepsRefs, NoEmptyWay
<1>2. ASSUME NoEmptyWay, NEW i \in 1 .. Len(input), input[i].type = "WAY", RefsDone(i)'
      PROVE  RefsKept(input[i])'
  <2>1. RefsDone(i)
    <3>1. CASE at' = at /\ (pc' \in {"index", "tags"} => pc \in {"index", "tags"} \/ Elem.type # "WAY")
      BY <1>1, <1>2, <3>1 DEF KeepsRefs, RefsDone, Elem
    <3>2. CASE at' = at + 1 /\ pc' = "element" /\ (Elem.type = "WAY" => pc = "tags")
      <4>1. i < at \/ i = at \/ i = at'
        BY <1>1, <1>2, <3>2 DEF RefsDone
      <4>2. CASE i = at'
        <5>1. ~Past(i)'
          BY <1>1, <3>2, <4>2 DEF Past
        <5>2. \A c \in Cells : input'[i].id \notin cell_ways'[c]
          <6>1. i \in 1 .. Len(input') /\ input'[i].type = "WAY"
            BY <1>1, <1>2
          <6>2. \A c \in Cells : ~(input'[i].id \in cell_ways'[c])
            <7>1. ASSUME NEW c \in Cells, input'[i].id \in cell_ways'[c]  PROVE FALSE
              <8>1. PICK j \in 1 .. Len(input) :
                      Past(j)' /\ input[j].type = "WAY" /\ input[j].id = input[i].id
                BY <1>1, <7>1 DEF WaysIndexed
              <8>2. i = j
                BY <1>2, <8>1, InputFacts, InputOrder
              <8>3. QED
                BY <5>1, <8>1, <8>2
            <7>2. QED
              BY <7>1
          <6>3. QED
            BY <6>2
        <5>3. QED
          BY <1>1, <1>2, <3>2, <4>2, <5>2 DEF RefsDone
      <4>3. QED
        BY <1>2, <3>2, <4>1, <4>2 DEF RefsDone, Elem
    <3>3. QED
      BY <3>1, <3>2 DEF KeepsRefs
  <2>2. RefsKept(input[i])
    BY <1>2, <2>1 DEF RefsStored
  <2>3. QED
    BY <1>1, <1>2, <2>2, SameRefs DEF KeepsRefs
<1>3. QED
  BY <1>1, <1>2 DEF RefsStored

LEMMA RefsQuiet ==
  ASSUME IType,
         \/ HandleNode \/ ReadNoRef \/ HandleRelation \/ CopyMember \/ EndMembers
         \/ WriteTags \/ OverrunTags \/ SetRelationNext \/ SetRelationHead
         \/ Die \/ FinishLoad \/ Kill
  PROVE  KeepsRefs
<1>1. CASE \/ ReadNoRef \/ CopyMember \/ EndMembers \/ OverrunTags \/ Die
           \/ FinishLoad \/ Kill
  <2>1. /\ input' = input /\ node_refs' = node_refs /\ n_node_refs' = n_node_refs
        /\ ways' = ways /\ cell_ways' = cell_ways /\ at' = at
    BY <1>1 DEF ReadNoRef, CopyMember, EndMembers, OverrunTags, Die, FinishLoad,
                Kill, Continue, files, counters, lists
  <2>2. /\ pc' # "refs"
        /\ pc' \in {"index", "tags"} => pc = "members"
    BY <1>1 DEF ReadNoRef, CopyMember, EndMembers, OverrunTags, Die, FinishLoad,
                Kill, Continue
  <2>3. pc = "members" => Elem.type = "RELATION"
    BY DEF IType, Current
  <2>4. QED
    BY <2>1, <2>2, <2>3 DEF KeepsRefs
<1>2. CASE HandleNode
  <2>1. Elem.type = "NODE"
    BY <1>2, Taken DEF HandleNode
  <2>2. QED
    BY <1>2, <2>1 DEF HandleNode, Continue, counters, lists, KeepsRefs
<1>3. CASE HandleRelation
  <2>1. Elem.type = "RELATION"
    BY <1>3, Taken DEF HandleRelation
  <2>2. \/ at' = at + 1 /\ pc' = "element"
        \/ at' = at /\ pc' \in {"dead", "members"}
    BY <1>3 DEF HandleRelation, StartList, NextElement
  <2>3. /\ input' = input /\ node_refs' = node_refs /\ n_node_refs' = n_node_refs
        /\ ways' = ways /\ cell_ways' = cell_ways
    BY <1>3 DEF HandleRelation, StartList, NextElement, counters, lists
  <2>4. QED
    BY <2>1, <2>2, <2>3 DEF KeepsRefs
<1>4. CASE SetRelationNext \/ SetRelationHead
  <2>1. Elem.type = "RELATION"
    BY <1>4, BeingLinked DEF SetRelationNext, SetRelationHead
  <2>2. (at' = at + 1 /\ pc' = "element") \/ (at' = at /\ pc' = "head")
    BY <1>4 DEF SetRelationNext, SetRelationHead, NextElement, Continue
  <2>3. /\ input' = input /\ node_refs' = node_refs /\ n_node_refs' = n_node_refs
        /\ ways' = ways /\ cell_ways' = cell_ways
    BY <1>4 DEF SetRelationNext, SetRelationHead, NextElement, Continue, counters, lists
  <2>4. QED
    BY <2>1, <2>2, <2>3 DEF KeepsRefs
<1>5. CASE WriteTags
  <2> DEFINE offset == IF NewCells = <<>> THEN 0 ELSE Position
  <2>1. pc = "tags" /\ Elem.type \in {"NODE", "WAY", "RELATION"} /\ InFile(Elem)
    BY <1>5, NewCellsType
       DEF WriteTags, Elements, NodeElems, WayElems, RelElems, IType, Current, Busy
  <2>2. /\ UNCHANGED <<counters, node_refs, cell_ways>>
        /\ Elem.type = "NODE" => NextElement /\ ways' = ways
        /\ Elem.type = "WAY" => ways' = [ways EXCEPT ![Elem.id].tags = offset] /\ NextElement
        /\ Elem.type = "RELATION" => Continue("next") /\ ways' = ways
    BY <1>5 DEF WriteTags
  <2> HIDE DEF offset
  <2>3. \A w \in WayIds : ways'[w].node_ref_offset = ways[w].node_ref_offset
    <3>1. CASE Elem.type = "WAY"
      <4>1. Elem.id \in WayIds
        BY <2>1, <3>1 DEF InFile
      <4>2. ways' = [ways EXCEPT ![Elem.id].tags = offset]
        BY <2>2, <3>1
      <4>3. QED
        BY <4>1, <4>2 DEF IType, FilesType, WayRec
    <3>2. QED
      BY <2>1, <2>2, <3>1
  <2>4. /\ input' = input
        /\ \/ at' = at + 1 /\ pc' = "element"
           \/ at' = at /\ pc' = "next"
    BY <2>1, <2>2 DEF NextElement, Continue
  <2>5. QED
    BY <2>1, <2>2, <2>3, <2>4 DEF KeepsRefs, counters
<1>6. QED
  BY <1>1, <1>2, <1>3, <1>4, <1>5

\* Ways that were indexed, or whose list is complete, and the ids they have.
LEMMA OtherWay ==
  ASSUME IType, NEW i \in 1 .. Len(input), input[i].type = "WAY", i # at,
         at \in 1 .. Len(input), Elem.type = "WAY"
  PROVE  input[i].id # Elem.id
BY InputFacts, InputOrder DEF Elem

LEMMA WayRefs ==
  ASSUME IType, WaysIndexed, RefsStored, HandleWay
  PROVE  RefsStored'
<1>1. /\ at \in 1 .. Len(input) /\ Elem.id \in WayIds /\ Elem.type = "WAY"
      /\ pc = "element" /\ Len(input) \in Nat
  BY Taken, InputFacts DEF HandleWay, Handles
<1>2. /\ ways' = [ways EXCEPT ![Elem.id].node_ref_offset = n_node_refs]
      /\ input' = input /\ at' = at /\ pc' = "refs" /\ item' = 1 /\ ref_id' = 0
      /\ node_refs' = node_refs /\ n_node_refs' = n_node_refs /\ cell_ways' = cell_ways
      /\ Elem' = Elem
  BY DEF HandleWay, StartList, counters, lists, Elem
<1>3. /\ ways'[Elem.id].node_ref_offset = n_node_refs
      /\ \A w \in WayIds : w # Elem.id => ways'[w] = ways[w]
  BY <1>1, <1>2 DEF IType, FilesType, WayRec
<1>4. NoEmptyWay' <=> NoEmptyWay
  BY <1>2 DEF NoEmptyWay
<1>5. ASSUME NoEmptyWay, NEW i \in 1 .. Len(input), input[i].type = "WAY", RefsDone(i)'
      PROVE  i < at /\ RefsKept(input[i])' /\ RefsEnd(input[i])' =< n_node_refs
  <2>1. i < at
    <3>1. CASE i = at
      <4>1. ~Past(i)
        BY <1>1, <3>1 DEF Past
      <4>2. QED
        BY <1>2, <1>5, <3>1, <4>1, NotIndexed DEF RefsDone
    <3>2. QED
      BY <1>2, <1>5, <3>1 DEF RefsDone
  <2>2. RefsKept(input[i])
    BY <1>5, <2>1 DEF RefsStored, RefsDone
  <2>3. input[i].id \in WayIds /\ input[i].id # Elem.id
    BY <1>1, <1>5, <2>1, <2>2, OtherWay, InputFacts DEF RefsKept, InFile
  <2>4. ways'[input[i].id] = ways[input[i].id]
    BY <1>3, <2>3
  <2>5. QED
    BY <1>2, <2>1, <2>2, <2>4 DEF RefsKept, InFile, RefsEnd, RefCopied
<1>6. ASSUME NoEmptyWay  PROVE RefsCopied'
  <2>1. n_node_refs \in Nat
    BY RefAssumption DEF IType, LoaderType, RefIndex
  <2>2. Len(Elem.refs) \in Nat
    BY <1>1, Taken DEF HandleWay, WayElems
  <2>3. \A i \in 1 .. Len(input) : input[i].type = "WAY" /\ i < at =>
          RefsEnd(input[i])' =< n_node_refs
    BY <1>2, <1>5, <1>6 DEF RefsDone
  <2>4. item' = 1 /\ 1 =< Len(Elem.refs) + 1 /\ n_node_refs = n_node_refs + 1 - 1 /\ 1 - 1 = 0
    BY <1>2, <2>1, <2>2
  <2>5. 1 .. 1 - 1 = {}
    OBVIOUS
  <2>6. QED
    BY <1>2, <1>3, <2>3, <2>4, <2>5 DEF RefsCopied
<1>7. QED
  BY <1>2, <1>4, <1>5, <1>6 DEF RefsStored

\* The way whose list is being copied, and what it has to do with the others.
LEMMA CopyingRefs ==
  ASSUME IType, pc \in {"refs", "index"}
  PROVE  /\ at \in 1 .. Len(input) /\ Len(input) \in Nat /\ input[at] = Elem
         /\ Elem \in WayElems /\ Elem.id \in WayIds /\ InFile(Elem) /\ Elem.type = "WAY"
         /\ Elem.refs \in Seq(Int) /\ Len(Elem.refs) \in Nat
         /\ ways[Elem.id].node_ref_offset \in Nat /\ n_node_refs \in RefIndex
         /\ n_node_refs \in Nat /\ item \in Nat \ {0}
         /\ \A k \in 1 .. Len(Elem.refs) :
              /\ Refs(Elem)[k] \in Int
              /\ Refs(Elem)[k] = (IF k = 1 THEN 0 ELSE Refs(Elem)[k - 1]) + Elem.refs[k]
<1>1. at \in 1 .. Len(input) /\ InFile(Elem) /\ Elem.type = "WAY" /\ Elem.id \in WayIds
  BY DEF IType, Current, Busy, InFile
<1>2. Elem \in WayElems /\ input[at] = Elem /\ Len(input) \in Nat
  BY <1>1, InputFacts DEF Elem, Elements, NodeElems, WayElems, RelElems
<1>3. Elem.refs \in Seq(Int) /\ Len(Elem.refs) \in Nat
  BY <1>2 DEF WayElems
<1>4. /\ ways[Elem.id].node_ref_offset \in Nat /\ n_node_refs \in RefIndex
      /\ n_node_refs \in Nat /\ item \in Nat \ {0}
  BY <1>1, RefAssumption DEF IType, LoaderType, FilesType, WayRec, RefIndex
<1>5. \A k \in 1 .. Len(Elem.refs) :
        /\ Refs(Elem)[k] \in Int
        /\ Refs(Elem)[k] = (IF k = 1 THEN 0 ELSE Refs(Elem)[k - 1]) + Elem.refs[k]
  BY <1>3, DecodedNext DEF Refs
<1>6. QED
  BY <1>1, <1>2, <1>3, <1>4, <1>5

\* Lists that end before the place of a store stay.
LEMMA RefsBefore ==
  ASSUME NEW e, RefsKept(e), e.type = "WAY", IType, NEW j \in RefIndex, NEW v,
         node_refs' = [node_refs EXCEPT ![j] = v], ways' = ways, RefsEnd(e) =< j,
         n_node_refs' \in Nat, n_node_refs =< n_node_refs', Len(e.refs) \in Nat
  PROVE  RefsKept(e)'
<1> DEFINE off == ways[e.id].node_ref_offset
<1>1. off \in Nat /\ j \in Nat /\ n_node_refs \in Nat
  BY RefAssumption DEF RefsKept, InFile, IType, LoaderType, FilesType, WayRec, RefIndex
<1>2. off + Len(e.refs) =< j /\ off + Len(e.refs) =< n_node_refs
  BY DEF RefsEnd, RefsKept
<1> HIDE DEF off
<1>3. ASSUME NEW k \in 1 .. Len(e.refs)
      PROVE  node_refs'[off + k - 1] = node_refs[off + k - 1]
  <2>1. off + k - 1 # j
    BY <1>1, <1>2
  <2>2. QED
    BY <2>1 DEF IType, FilesType
<1> DEFINE m == n_node_refs'
<1> HIDE DEF m
<1>4. m \in Nat /\ n_node_refs =< m
  BY DEF m
<1>5. off + Len(e.refs) =< m
  BY <1>1, <1>2, <1>4
<1>6. QED
  BY <1>3, <1>5 DEF RefsKept, InFile, RefsEnd, RefCopied, off, m

LEMMA CopyRefs ==
  ASSUME IType, IType', WaysIndexed, RefsStored, CopyRef
  PROVE  RefsStored'
<1>0. PICK e : e = Elem
  OBVIOUS
<1> DEFINE off == ways[e.id].node_ref_offset
           n == n_node_refs
<1>1. /\ at \in 1 .. Len(input) /\ Len(input) \in Nat /\ input[at] = e /\ e.type = "WAY"
      /\ e.id \in WayIds /\ InFile(e)
      /\ e.refs \in Seq(Int) /\ Len(e.refs) \in Nat /\ off \in Nat /\ n \in RefIndex
      /\ n \in Nat /\ item \in 1 .. Len(e.refs) /\ pc = "refs"
  BY <1>0, CopyingRefs DEF CopyRef
<1>2. /\ Refs(e)[item] \in Int
      /\ Refs(e)[item] = (IF item = 1 THEN 0 ELSE Refs(e)[item - 1]) + e.refs[item]
  BY <1>0, <1>1, CopyingRefs
<1>3. /\ ref_id' = ref_id + e.refs[item] /\ node_refs' = [node_refs EXCEPT ![n] = ref_id']
      /\ item' = item + 1 /\ input' = input /\ at' = at /\ ways' = ways
      /\ cell_ways' = cell_ways /\ Elem' = e
      /\ \/ pc' = "dead" /\ n_node_refs' = n
         \/ pc' = "refs" /\ n_node_refs' = n + 1
  BY <1>0, <1>1 DEF CopyRef, Elem
<1>4. NoEmptyWay' <=> NoEmptyWay
  BY <1>3 DEF NoEmptyWay
<1>5. n_node_refs' \in Nat /\ n =< n_node_refs'
  BY <1>1, <1>3
<1>6. ASSUME NoEmptyWay, NEW i \in 1 .. Len(input), input[i].type = "WAY", RefsDone(i)'
      PROVE  RefsKept(input[i])'
  <2>1. i < at
    <3>1. CASE i = at
      <4>1. ~Past(i)
        BY <1>1, <3>1 DEF Past
      <4>2. QED
        BY <1>3, <1>6, <3>1, <4>1, NotIndexed DEF RefsDone
    <3>2. QED
      BY <1>3, <1>6, <3>1 DEF RefsDone
  <2>2. RefsKept(input[i])
    BY <1>6, <2>1 DEF RefsStored, RefsDone
  <2>3. RefsEnd(input[i]) =< n
    BY <2>2 DEF RefsKept
  <2>4. Len(input[i].refs) \in Nat
    BY <1>6, InputFacts DEF Elements, NodeElems, WayElems, RelElems
  <2> HIDE DEF n
  <2>5. QED
    BY <1>1, <1>3, <1>5, <1>6, <2>2, <2>3, <2>4, RefsBefore DEF n
<1>7. ASSUME NoEmptyWay, pc' = "refs"  PROVE RefsCopied'
  <2>1. /\ n = off + item - 1
        /\ ref_id = IF item = 1 THEN 0 ELSE Refs(e)[item - 1]
        /\ \A k \in 1 .. item - 1 : node_refs[off + k - 1] = Refs(e)[k]
        /\ \A i \in 1 .. Len(input) : input[i].type = "WAY" /\ i < at =>
             RefsEnd(input[i]) =< off
    BY <1>0, <1>1, <1>7 DEF RefsStored, RefsCopied
  <2>2. n_node_refs' = n + 1
    BY <1>3, <1>7
  <2> HIDE DEF n, off
  <2>3. ref_id' = Refs(e)[item]
    <3>1. ref_id \in Int
      BY DEF IType, LoaderType
    <3>2. ref_id' = ref_id + e.refs[item]
      BY <1>3
    <3>3. QED
      BY <1>2, <2>1, <3>2
  <2>4. \A k \in 1 .. item : node_refs'[off + k - 1] = Refs(e)[k]
    <3>1. ASSUME NEW k \in 1 .. item, k # item  PROVE node_refs'[off + k - 1] = Refs(e)[k]
      <4>1. k \in 1 .. item - 1 /\ off + k - 1 # n
        BY <1>1, <2>1, <3>1
      <4>2. node_refs'[off + k - 1] = node_refs[off + k - 1]
        BY <1>3, <4>1 DEF IType, FilesType
      <4>3. QED
        BY <2>1, <4>1, <4>2
    <3>2. node_refs'[n] = ref_id'
      BY <1>1, <1>3 DEF IType, FilesType
    <3>3. QED
      BY <2>1, <2>3, <3>1, <3>2
  <2>5. item' - 1 = item /\ item' =< Len(e.refs) + 1 /\ n_node_refs' = off + item' - 1
        /\ item' # 1
    <3> DEFINE i == item'
    <3>1. i = item + 1
      BY <1>3
    <3> HIDE DEF i
    <3>2. i - 1 = item /\ i =< Len(e.refs) + 1 /\ n + 1 = off + i - 1 /\ i # 1
      BY <1>1, <2>1, <3>1
    <3>3. QED
      BY <2>2, <3>2 DEF i
  <2>6. \A i : RefsEnd(input[i])' = RefsEnd(input[i])
    BY <1>3 DEF RefsEnd
  <2>7. \A i \in 1 .. Len(input') : input'[i].type = "WAY" /\ i < at' =>
          RefsEnd(input[i])' =< off
    BY <1>3, <2>1, <2>6
  <2>8. ways'[Elem'.id].node_ref_offset = off
    BY <1>3 DEF off
  <2>9. QED
    BY <1>3, <2>3, <2>4, <2>5, <2>7, <2>8 DEF RefsCopied
<1>8. QED
  BY <1>3, <1>4, <1>6, <1>7 DEF RefsStored

\* The last reference of the list, and no other, is negated.
LEMMA EndsRefs ==
  ASSUME IType, IType', WaysIndexed, RefsStored, EndRefs
  PROVE  RefsStored'
<1>0. PICK e : e = Elem
  OBVIOUS
<1> DEFINE off == ways[e.id].node_ref_offset
           n == n_node_refs
           len == Len(e.refs)
<1>1. /\ at \in 1 .. Len(input) /\ Len(input) \in Nat /\ input[at] = e /\ e.type = "WAY"
      /\ e.id \in WayIds /\ InFile(e)
      /\ e.refs \in Seq(Int) /\ len \in Nat /\ off \in Nat /\ n \in RefIndex
      /\ n \in Nat /\ item \in Nat /\ item > len /\ pc = "refs"
  BY <1>0, CopyingRefs DEF EndRefs
<1>2. /\ node_refs' = [node_refs EXCEPT ![(n - 1) % (MAX_REF_INDEX + 1)] = -@]
      /\ input' = input /\ at' = at /\ ways' = ways /\ n_node_refs' = n
      /\ cell_ways' = cell_ways /\ pc' = "index"
  BY DEF EndRefs, Continue, counters
<1>3. NoEmptyWay' <=> NoEmptyWay
  BY <1>2 DEF NoEmptyWay
<1>4. ASSUME NoEmptyWay, NEW i \in 1 .. Len(input), input[i].type = "WAY", RefsDone(i)'
      PROVE  RefsKept(input[i])'
  <2>1. /\ item = len + 1 /\ len >= 1 /\ n = off + len
        /\ \A k \in 1 .. len : node_refs[off + k - 1] = Refs(e)[k]
        /\ \A j \in 1 .. Len(input) : input[j].type = "WAY" /\ j < at =>
             RefsEnd(input[j]) =< off
    <3>1. RefsCopied
      BY <1>1, <1>4 DEF RefsStored
    <3>2. item = len + 1
      BY <1>0, <1>1, <3>1 DEF RefsCopied
    <3>3. e.refs # <<>>
      BY <1>1, <1>4 DEF NoEmptyWay
    <3>4. len >= 1
      BY <1>1, <3>3
    <3>5. item - 1 = len /\ off + item - 1 = off + len
      BY <1>1, <3>2
    <3>6. QED
      BY <1>0, <3>1, <3>2, <3>4, <3>5 DEF RefsCopied
  <2> HIDE DEF n, off, len
  <2>2. (n - 1) % (MAX_REF_INDEX + 1) = n - 1 /\ n - 1 \in RefIndex /\ n - 1 \in Nat
    <3>1. n - 1 \in Nat /\ n - 1 < MAX_REF_INDEX + 1 /\ MAX_REF_INDEX + 1 \in Nat \ {0}
      BY <1>1, <2>1, RefAssumption DEF RefIndex
    <3>2. \A x \in Nat, y \in Nat \ {0} : x < y => x % y = x
      OBVIOUS
    <3>3. QED
      BY <3>1, <3>2, RefAssumption DEF RefIndex
  <2>3. node_refs' = [node_refs EXCEPT ![n - 1] = -node_refs[n - 1]]
    BY <1>2, <2>2
  <2>4. CASE i = at
    <3>1. \A k \in 1 .. len : off + k - 1 \in Nat /\ (off + k - 1 = n - 1 <=> k = len)
      BY <1>1, <2>1
    <3>2. node_refs'[n - 1] = -node_refs[n - 1]
      BY <2>2, <2>3 DEF IType, FilesType
    <3>3. \A k : k # n - 1 => node_refs'[k] = node_refs[k]
      BY <2>3 DEF IType, FilesType
    <3>4. ASSUME NEW k \in 1 .. len
          PROVE  node_refs'[off + k - 1] = IF k = len THEN -Refs(e)[k] ELSE Refs(e)[k]
      <4>1. CASE k = len
        BY <2>1, <3>1, <3>2, <4>1
      <4>2. CASE k # len
        BY <2>1, <3>1, <3>3, <4>2
      <4>3. QED
        BY <4>1, <4>2
    <3>5. input'[i] = e /\ ways'[e.id].node_ref_offset = off /\ Len(e.refs) = len
          /\ n_node_refs' = off + len
      BY <1>1, <1>2, <2>1, <2>4 DEF off, len, n
    <3>6. \A k \in 1 .. Len(e.refs) : RefCopied(e, k)'
      BY <3>4, <3>5 DEF RefCopied
    <3>7. RefsEnd(e)' =< n_node_refs'
      BY <1>1, <3>5 DEF RefsEnd
    <3>8. InFile(e)'
      BY <1>1 DEF InFile
    <3>9. RefsKept(e)'
      BY <3>6, <3>7, <3>8 DEF RefsKept
    <3>10. input[i] = e /\ input' = input
      BY <1>1, <1>2, <2>4
    <3>11. QED
      BY <3>9, <3>10 DEF RefsKept, InFile, RefsEnd, RefCopied
  <2>5. CASE i # at
    <3>1. i < at
      BY <1>2, <1>4, <2>5 DEF RefsDone
    <3>2. RefsKept(input[i])
      BY <1>4, <3>1 DEF RefsStored, RefsDone
    <3>3. RefsEnd(input[i]) =< off
      BY <1>4, <2>1, <3>1
    <3>4. Len(input[i].refs) \in Nat
      BY <1>4, InputFacts DEF Elements, NodeElems, WayElems, RelElems
    <3>5. off =< n - 1
      BY <1>1, <2>1
    <3>6. RefsEnd(input[i]) \in Nat
      <4>1. input[i].id \in WayIds
        BY <1>4, <3>2 DEF RefsKept, InFile
      <4>2. ways[input[i].id].node_ref_offset \in Nat
        BY <4>1, RefAssumption DEF IType, FilesType, WayRec, RefIndex
      <4>3. QED
        BY <3>4, <4>2 DEF RefsEnd
    <3>7. RefsEnd(input[i]) =< n - 1
      BY <1>1, <2>2, <3>3, <3>5, <3>6
    <3>8. n_node_refs' \in Nat /\ n_node_refs =< n_node_refs'
      BY <1>1, <1>2 DEF n
    <3>9. QED
      BY <1>2, <1>4, <2>2, <2>3, <3>2, <3>4, <3>7, <3>8, RefsBefore
  <2>6. QED
    BY <2>4, <2>5
<1>5. QED
  BY <1>2, <1>3, <1>4 DEF RefsStored

LEMMA IndexedRefs ==
  ASSUME IType, RefsStored, IndexWay
  PROVE  RefsStored'
<1>1. /\ input' = input /\ at' = at /\ ways' = ways /\ n_node_refs' = n_node_refs
      /\ node_refs' = node_refs /\ pc' = "tags" /\ pc = "index"
      /\ \A c \in Cells : cell_ways'[c] \subseteq cell_ways[c] \cup {Elem.id}
  BY DEF IndexWay, Continue, lists, IType, FilesType
<1>2. NoEmptyWay' <=> NoEmptyWay
  BY <1>1 DEF NoEmptyWay
<1>3. ASSUME NoEmptyWay, NEW i \in 1 .. Len(input), input[i].type = "WAY", RefsDone(i)'
      PROVE  RefsKept(input[i])'
  <2>1. RefsDone(i)
    BY <1>1, <1>3 DEF RefsDone
  <2>2. RefsKept(input[i])
    BY <1>3, <2>1 DEF RefsStored
  <2>3. QED
    BY <1>1, <1>3, <2>2, SameRefs
<1>4. QED
  BY <1>1, <1>2, <1>3 DEF RefsStored

LEMMA SameRefsStored ==
  ASSUME RefsStored, UNCHANGED <<loader, counters, files>>
  PROVE  RefsStored'
<1>1. UNCHANGED <<input, at, pc, item, ref_id, n_node_refs, ways, node_refs, cell_ways>>
  BY DEF loader, counters, files, lists
<1>2. NoEmptyWay' <=> NoEmptyWay
  BY <1>1 DEF NoEmptyWay
<1>3. (\A i : RefsDone(i)' <=> RefsDone(i)) /\ (\A e : RefsKept(e)' <=> RefsKept(e))
  BY <1>1 DEF RefsDone, RefsKept, InFile, RefsEnd, RefCopied
<1>4. RefsCopied' <=> RefsCopied
  BY <1>1 DEF RefsCopied, RefsEnd, Elem
<1>5. QED
  BY <1>1, <1>2, <1>3, <1>4 DEF RefsStored

LEMMA NextRefs == IInv /\ IInv' /\ RefsStored /\ [Next]_vars => RefsStored'
<1> SUFFICES ASSUME IType, IType', WaysIndexed, WaysIndexed', RefsStored, [Next]_vars
             PROVE  RefsStored'
  BY DEF IInv, Stored
<1>1. CASE HandleWay \/ CopyRef \/ EndRefs \/ IndexWay
  BY <1>1, WayRefs, CopyRefs, EndsRefs, IndexedRefs
<1>2. CASE (Load \/ Kill) /\ ~(HandleWay \/ CopyRef \/ EndRefs \/ IndexWay)
  <2>1. KeepsRefs
    BY <1>2, RefsQuiet DEF Load
  <2>2. QED
    BY <2>1, KeepRefs
<1>3. QED
  BY <1>1, <1>2, SameRefsStored, OtherSteps

-----------------------------------------------------------------------------
(* The members.                                                            *)

MemberElems == [type : {"NODE", "WAY", "RELATION"}, id : Int, role : STRING]

LEMMA MembersNext ==
  ASSUME NEW e \in RelElems
  PROVE  /\ Len(e.members) \in Nat /\ Len(Members(e)) = Len(e.members)
         /\ \A k \in 1 .. Len(e.members) :
              /\ e.members[k] \in MemberElems
              /\ Members(e)[k].role = e.members[k].role
              /\ Members(e)[k].type = e.members[k].type
              /\ Members(e)[k].id \in Int
              /\ Members(e)[k].id =
                   (IF k = 1 THEN 0 ELSE Members(e)[k - 1].id) + e.members[k].id
<1> DEFINE n == Len(e.members)
           deltas == [i \in 1 .. n |-> e.members[i].id]
<1>1. e.members \in Seq(MemberElems) /\ n \in Nat
  BY DEF RelElems, MemberElems
<1>2. \A k \in 1 .. n : e.members[k] \in MemberElems
  BY <1>1, ElementOfSeq
<1>3. \A k \in 1 .. n : e.members[k].id \in Int
  BY <1>2 DEF MemberElems
<1>4. deltas \in Seq(Int) /\ Len(deltas) = n /\ \A k \in 1 .. n : deltas[k] = e.members[k].id
  BY <1>1, <1>3
<1>5. Members(e) = [i \in 1 .. n |-> [role |-> e.members[i].role, type |-> e.members[i].type,
                                      id |-> Decoded(deltas)[i]]]
  BY DEF Members
<1> HIDE DEF n, deltas
<1>6. /\ Len(Members(e)) = n
      /\ \A k \in 1 .. n : /\ Members(e)[k].role = e.members[k].role
                           /\ Members(e)[k].type = e.members[k].type
                           /\ Members(e)[k].id = Decoded(deltas)[k]
  BY <1>1, <1>5
<1>7. \A k \in 1 .. n :
        /\ Decoded(deltas)[k] \in Int
        /\ Decoded(deltas)[k] = (IF k = 1 THEN 0 ELSE Decoded(deltas)[k - 1]) + deltas[k]
  BY <1>4, DecodedNext
<1>8. \A k \in 1 .. n : k # 1 => k - 1 \in 1 .. n
  BY <1>1
<1>9. ASSUME NEW k \in 1 .. n
      PROVE  /\ Members(e)[k].id \in Int
             /\ Members(e)[k].id = (IF k = 1 THEN 0 ELSE Members(e)[k - 1].id) + e.members[k].id
  <2>1. CASE k = 1
    BY <1>4, <1>6, <1>7, <2>1
  <2>2. CASE k # 1
    <3>1. Members(e)[k - 1].id = Decoded(deltas)[k - 1]
      BY <1>6, <1>8, <2>2
    <3>2. QED
      BY <1>4, <1>6, <1>7, <2>2, <3>1
  <2>3. QED
    BY <2>1, <2>2
<1>10. QED
  BY <1>1, <1>2, <1>6, <1>9 DEF n

\* The members of a relation in its file, the id of the last one negated.
MembersEnd(e) == relations[e.id].member_offset + Len(e.members)
MemberCopied(e, k, id) ==
  rel_members[relations[e.id].member_offset + k - 1] =
    [role |-> encode_role(e.members[k].role), element_type |-> e.members[k].type, id |-> id]
WholeMember(e, k) == Members(e)[k].id % ID_WIDTH
MembersKept(e) ==
  /\ InFile(e) /\ MembersEnd(e) =< n_rel_members
  /\ \A k \in 1 .. Len(e.members) :
       MemberCopied(e, k, IF k = Len(e.members) THEN -WholeMember(e, k) ELSE WholeMember(e, k))
MembersDone(i) ==
  /\ input[i].type = "RELATION" /\ input[i].members # <<>>
  /\ i < at \/ (i = at /\ pc \in {"tags", "next", "head"})
MembersCopied ==
  /\ ref_id = IF item = 1 THEN 0 ELSE Members(Elem)[item - 1].id
  /\ \A k \in 1 .. item - 1 : MemberCopied(Elem, k, WholeMember(Elem, k))
  /\ \A i \in 1 .. Len(input) : MembersDone(i) =>
       MembersEnd(input[i]) =< relations[Elem.id].member_offset

(* The file of members has the whole list of every relation that may be    *)
(* linked.                                                                 *)
MembersStored ==
  /\ \A i \in 1 .. Len(input) : MembersDone(i) => MembersKept(input[i])
  /\ pc = "members" => MembersCopied

LEMMA InitMembers == Init => MembersStored
<1> SUFFICES ASSUME Init  PROVE MembersStored
  OBVIOUS
<1>1. \A i \in 1 .. Len(input) : ~MembersDone(i)
  BY DEF Init, MembersDone
<1>2. QED
  BY <1>1 DEF Init, MembersStored

\* Steps that store no members.
KeepsMembers ==
  /\ input' = input /\ rel_members' = rel_members /\ n_rel_members' = n_rel_members
  /\ \A r \in RelIds : relations'[r].member_offset = relations[r].member_offset
  /\ pc' # "members"
  /\ \/ /\ at' = at
        /\ pc' \in {"tags", "next", "head"} =>
             pc \in {"tags", "next", "head"} \/ Elem.type # "RELATION"
     \/ /\ at' = at + 1 /\ pc' = "element"
        /\ Elem.type = "RELATION" => pc \in {"tags", "next", "head"} \/ Elem.members = <<>>

LEMMA SameMembersKept ==
  ASSUME NEW e, MembersKept(e), e.type = "RELATION", UNCHANGED <<rel_members, n_rel_members>>,
         \A r \in RelIds : relations'[r].member_offset = relations[r].member_offset
  PROVE  MembersKept(e)'
<1>1. e.id \in RelIds
  BY DEF MembersKept, InFile
<1>2. QED
  BY <1>1 DEF MembersKept, InFile, MembersEnd, MemberCopied, WholeMember

LEMMA KeepMembers ==
  ASSUME IType, MembersStored, KeepsMembers
  PROVE  MembersStored'
<1>1. input' = input /\ Len(input) \in Nat /\ at \in Nat /\ pc' # "members"
  BY InputFacts DEF KeepsMembers
<1>2. ASSUME NEW i \in 1 .. Len(input), MembersDone(i)'  PROVE MembersKept(input[i])'
  <2>1. MembersDone(i)
    <3>1. CASE /\ at' = at
               /\ pc' \in {"tags", "next", "head"} =>
                    pc \in {"tags", "next", "head"} \/ Elem.type # "RELATION"
      BY <1>1, <1>2, <3>1 DEF MembersDone, Elem
    <3>2. CASE /\ at' = at + 1 /\ pc' = "element"
               /\ Elem.type = "RELATION" => pc \in {"tags", "next", "head"} \/ Elem.members = <<>>
      <4>1. i < at \/ i = at
        BY <1>1, <1>2, <3>2 DEF MembersDone
      <4>2. QED
        BY <1>1, <1>2, <3>2, <4>1 DEF MembersDone, Elem
    <3>3. QED
      BY <3>1, <3>2 DEF KeepsMembers
  <2>2. MembersKept(input[i])
    BY <1>2, <2>1 DEF MembersStored
  <2>3. QED
    BY <1>1, <2>1, <2>2, SameMembersKept DEF KeepsMembers, MembersDone
<1>3. QED
  BY <1>1, <1>2 DEF MembersStored

LEMMA MembersQuiet ==
  ASSUME IType,
         \/ HandleNode \/ HandleWay \/ CopyRef \/ EndRefs \/ IndexWay \/ ReadNoRef
         \/ WriteTags \/ OverrunTags \/ SetRelationNext \/ SetRelationHead
         \/ Die \/ FinishLoad \/ Kill
  PROVE  KeepsMembers
<1>1. CASE \/ HandleNode \/ HandleWay \/ CopyRef \/ EndRefs \/ IndexWay \/ ReadNoRef
           \/ OverrunTags \/ Die \/ FinishLoad \/ Kill
  <2>1. /\ input' = input /\ rel_members' = rel_members /\ n_rel_members' = n_rel_members
        /\ relations' = relations /\ at' = at
    BY <1>1 DEF HandleNode, HandleWay, CopyRef, EndRefs, IndexWay, ReadNoRef, OverrunTags,
                Die, FinishLoad, Kill, Continue, StartList, files, counters, lists
  <2>2. pc' # "members" /\ (pc' \in {"tags", "next", "head"} => HandleNode \/ IndexWay)
    BY <1>1 DEF HandleNode, HandleWay, CopyRef, EndRefs, IndexWay, ReadNoRef, OverrunTags,
                Die, FinishLoad, Kill, Continue, StartList
  <2>3. HandleNode \/ IndexWay => Elem.type # "RELATION"
    BY Taken DEF HandleNode, IndexWay, IType, Current
  <2>4. QED
    BY <2>1, <2>2, <2>3 DEF KeepsMembers
<1>2. CASE SetRelationNext \/ SetRelationHead
  <2>1. /\ input' = input /\ rel_members' = rel_members /\ n_rel_members' = n_rel_members
        /\ (at' = at + 1 /\ pc' = "element") \/ (at' = at /\ pc' = "head")
        /\ pc \in {"next", "head"}
    BY <1>2 DEF SetRelationNext, SetRelationHead, NextElement, Continue, counters, lists
  <2>2. Elem.id \in RelIds
    BY <2>1, BeingLinked
  <2>3. relations' = relations \/ \E v : relations' = [relations EXCEPT ![Elem.id].next = v]
    BY <1>2 DEF SetRelationNext, SetRelationHead
  <2>4. \A r \in RelIds : relations'[r].member_offset = relations[r].member_offset
    <3>1. CASE relations' = relations
      BY <3>1
    <3>2. ASSUME NEW v, relations' = [relations EXCEPT ![Elem.id].next = v]
          PROVE  \A r \in RelIds : relations'[r].member_offset = relations[r].member_offset
      BY <2>2, <3>2 DEF IType, FilesType, RelRec
    <3>3. QED
      BY <2>3, <3>1, <3>2
  <2>5. QED
    BY <2>1, <2>4 DEF KeepsMembers
<1>3. CASE WriteTags
  <2> DEFINE offset == IF NewCells = <<>> THEN 0 ELSE Position
  <2>1. pc = "tags" /\ Elem.type \in {"NODE", "WAY", "RELATION"} /\ InFile(Elem)
    BY <1>3, NewCellsType
       DEF WriteTags, Elements, NodeElems, WayElems, RelElems, IType, Current, Busy
  <2>2. /\ UNCHANGED <<counters, rel_members>>
        /\ Elem.type = "NODE" => NextElement /\ relations' = relations
        /\ Elem.type = "WAY" => NextElement /\ relations' = relations
        /\ Elem.type = "RELATION" =>
             /\ relations' = [relations EXCEPT ![Elem.id].tags = offset]
             /\ Continue("next")
    BY <1>3 DEF WriteTags
  <2> HIDE DEF offset
  <2>3. \A r \in RelIds : relations'[r].member_offset = relations[r].member_offset
    <3>1. CASE Elem.type = "RELATION"
      BY <2>1, <2>2, <3>1 DEF IType, FilesType, RelRec, InFile
    <3>2. QED
      BY <2>1, <2>2, <3>1
  <2>4. /\ input' = input
        /\ \/ at' = at + 1 /\ pc' = "element"
           \/ at' = at /\ pc' = "next"
    BY <2>1, <2>2 DEF NextElement, Continue
  <2>5. QED
    BY <2>1, <2>2, <2>3, <2>4 DEF KeepsMembers, counters
<1>4. QED
  BY <1>1, <1>2, <1>3

LEMMA OtherRelation ==
  ASSUME IType, NEW i \in 1 .. Len(input), input[i].type = "RELATION", i # at,
         at \in 1 .. Len(input), Elem.type = "RELATION"
  PROVE  input[i].id # Elem.id
BY InputFacts, InputOrder DEF Elem

LEMMA RelationMembers ==
  ASSUME IType, MembersStored, HandleRelation, Elem.members # <<>>
  PROVE  MembersStored'
<1>1. /\ at \in 1 .. Len(input) /\ Elem.id \in RelIds /\ Elem.type = "RELATION"
      /\ pc = "element" /\ Len(input) \in Nat
  BY Taken, InputFacts DEF HandleRelation, Handles
<1>2. /\ relations' = [relations EXCEPT ![Elem.id].member_offset = n_rel_members]
      /\ input' = input /\ at' = at /\ pc' \in {"dead", "members"} /\ item' = 1 /\ ref_id' = 0
      /\ rel_members' = rel_members /\ n_rel_members' = n_rel_members
      /\ Elem' = Elem
  BY DEF HandleRelation, StartList, counters, lists, Elem
<1>3. /\ relations'[Elem.id].member_offset = n_rel_members
      /\ \A r \in RelIds : r # Elem.id => relations'[r] = relations[r]
  BY <1>1, <1>2 DEF IType, FilesType, RelRec
<1>4. ASSUME NEW i \in 1 .. Len(input), MembersDone(i)'
      PROVE  MembersKept(input[i])' /\ MembersEnd(input[i])' =< n_rel_members
  <2>1. i < at /\ MembersDone(i) /\ input[i].type = "RELATION"
    BY <1>2, <1>4 DEF MembersDone
  <2>2. MembersKept(input[i])
    BY <1>4, <2>1 DEF MembersStored
  <2>3. input[i].id \in RelIds /\ input[i].id # Elem.id
    BY <1>1, <1>4, <2>1, <2>2, OtherRelation, InputFacts DEF MembersKept, InFile
  <2>4. relations'[input[i].id] = relations[input[i].id]
    BY <1>3, <2>3
  <2>5. QED
    BY <1>2, <2>2, <2>4 DEF MembersKept, InFile, MembersEnd, MemberCopied, WholeMember
<1>5. MembersCopied'
  <2>1. 1 .. 1 - 1 = {}
    OBVIOUS
  <2>2. QED
    BY <1>2, <1>3, <1>4, <2>1 DEF MembersCopied
<1>6. QED
  BY <1>2, <1>4, <1>5 DEF MembersStored

LEMMA SkippedMembers ==
  ASSUME IType, MembersStored, HandleRelation, Elem.members = <<>>
  PROVE  MembersStored'
<1>1. KeepsMembers
  BY DEF HandleRelation, NextElement, counters, lists, KeepsMembers
<1>2. QED
  BY <1>1, KeepMembers

\* The relation whose list is being copied, and where.
LEMMA CopyingMembers ==
  ASSUME IType, pc = "members"
  PROVE  /\ at \in 1 .. Len(input) /\ Len(input) \in Nat /\ input[at] = Elem
         /\ Elem \in RelElems /\ Elem.id \in RelIds /\ InFile(Elem) /\ Elem.type = "RELATION"
         /\ Len(Elem.members) \in Nat /\ Len(Elem.members) >= 1
         /\ relations[Elem.id].member_offset \in Nat /\ n_rel_members \in Nat \ {0}
         /\ n_rel_members < MAX_REL_MEMBERS /\ MAX_REL_MEMBERS \in Nat
         /\ item \in Nat \ {0} /\ ref_id \in Int /\ item =< Len(Elem.members) + 1
         /\ n_rel_members = relations[Elem.id].member_offset + item - 1
<1>1. at \in 1 .. Len(input) /\ InFile(Elem) /\ Elem.type = "RELATION" /\ Elem.id \in RelIds
      /\ Elem.members # <<>>
  BY DEF IType, Current, Busy, InFile
<1>2. Elem \in RelElems /\ input[at] = Elem /\ Len(input) \in Nat
  BY <1>1, InputFacts DEF Elem, Elements, NodeElems, WayElems, RelElems
<1>3. Len(Elem.members) \in Nat /\ Len(Elem.members) >= 1
  BY <1>1, <1>2 DEF RelElems
<1>4. relations[Elem.id].member_offset \in Nat
  BY <1>1, LimitAssumption DEF IType, FilesType, RelRec
<1>5. /\ n_rel_members \in Nat \ {0} /\ item \in Nat \ {0} /\ ref_id \in Int
      /\ n_rel_members < MAX_REL_MEMBERS /\ MAX_REL_MEMBERS \in Nat
  BY LimitAssumption DEF IType, LoaderType
<1>6. /\ item =< Len(Elem.members) + 1
      /\ n_rel_members = relations[Elem.id].member_offset + item - 1
  BY DEF IType, Current
<1>7. QED
  BY <1>1, <1>2, <1>3, <1>4, <1>5, <1>6

LEMMA MembersEndType ==
  ASSUME NEW e \in RelElems, IType, MembersKept(e)
  PROVE  MembersEnd(e) \in Nat
<1>1. e.id \in RelIds /\ Len(e.members) \in Nat
  BY MembersNext DEF MembersKept, InFile, RelElems
<1>2. relations[e.id].member_offset \in Nat
  BY <1>1, LimitAssumption DEF IType, FilesType, RelRec
<1>3. QED
  BY <1>1, <1>2 DEF MembersEnd

\* Lists that end before the place of a store stay.
LEMMA MembersBefore ==
  ASSUME NEW e \in RelElems, MembersKept(e), IType, NEW j \in Nat,
         \A k : k # j => rel_members'[k] = rel_members[k], relations' = relations,
         MembersEnd(e) =< j, n_rel_members' \in Nat, n_rel_members =< n_rel_members'
  PROVE  MembersKept(e)'
<1> DEFINE off == relations[e.id].member_offset
           m == n_rel_members'
<1>1. off \in Nat /\ n_rel_members \in Nat /\ Len(e.members) \in Nat /\ m \in Nat
  <2>1. e.id \in RelIds
    BY DEF MembersKept, InFile, RelElems
  <2>2. relations[e.id].member_offset \in Nat
    BY <2>1, LimitAssumption DEF IType, FilesType, RelRec
  <2>3. n_rel_members \in Nat
    BY LimitAssumption DEF IType, LoaderType
  <2>4. QED
    BY <2>2, <2>3, MembersNext
<1>2. /\ off + Len(e.members) =< j /\ off + Len(e.members) =< n_rel_members
      /\ n_rel_members =< m
  BY DEF MembersEnd, MembersKept
<1>3. off' = off
  OBVIOUS
<1> HIDE DEF off, m
<1>4. ASSUME NEW k \in 1 .. Len(e.members)
      PROVE  rel_members'[off + k - 1] = rel_members[off + k - 1]
  <2>1. off + k - 1 # j
    BY <1>1, <1>2
  <2>2. QED
    BY <2>1
<1>5. off + Len(e.members) =< m
  BY <1>1, <1>2
<1>6. MembersEnd(e)' =< n_rel_members'
  BY <1>3, <1>5 DEF MembersEnd, off, m
<1>7. ASSUME NEW k \in 1 .. Len(e.members), NEW id, MemberCopied(e, k, id)
      PROVE  MemberCopied(e, k, id)'
  BY <1>3, <1>4, <1>7 DEF MemberCopied, off
<1>8. QED
  BY <1>6, <1>7 DEF MembersKept, InFile, WholeMember

LEMMA CopyMembers ==
  ASSUME IType, IType', MembersStored, CopyMember
  PROVE  MembersStored'
<1>0. PICK e : e = Elem
  OBVIOUS
<1> DEFINE off == relations[e.id].member_offset
           n == n_rel_members
           entry == [role |-> encode_role(e.members[item].role),
                     element_type |-> e.members[item].type, id |-> ref_id' % ID_WIDTH]
<1>1. /\ at \in 1 .. Len(input) /\ Len(input) \in Nat /\ input[at] = e /\ e.type = "RELATION"
      /\ e \in RelElems /\ e.id \in RelIds /\ InFile(e)
      /\ Len(e.members) \in Nat /\ off \in Nat /\ n \in Nat /\ n < MAX_REL_MEMBERS
      /\ MAX_REL_MEMBERS \in Nat
      /\ item \in 1 .. Len(e.members) /\ pc = "members" /\ ref_id \in Int
      /\ n = off + item - 1
  BY <1>0, CopyingMembers DEF CopyMember
<1>2. /\ Members(e)[item].id \in Int
      /\ Members(e)[item].id = (IF item = 1 THEN 0 ELSE Members(e)[item - 1].id)
                                 + e.members[item].id
  BY <1>1, MembersNext
<1>3. /\ ref_id' = ref_id + e.members[item].id
      /\ rel_members' = [rel_members EXCEPT ![n] = entry]
      /\ item' = item + 1 /\ input' = input /\ at' = at /\ relations' = relations
      /\ Elem' = e /\ pc' = "members" /\ n_rel_members' = n + 1
  BY <1>0, <1>1 DEF CopyMember, Elem
<1>4. /\ ref_id = IF item = 1 THEN 0 ELSE Members(e)[item - 1].id
      /\ \A k \in 1 .. item - 1 : MemberCopied(e, k, WholeMember(e, k))
      /\ \A i \in 1 .. Len(input) : MembersDone(i) => MembersEnd(input[i]) =< off
  BY <1>0, <1>1 DEF MembersStored, MembersCopied
<1>5. ref_id' = Members(e)[item].id
  BY <1>1, <1>2, <1>3, <1>4
<1>6. entry = [role |-> encode_role(e.members[item].role),
               element_type |-> e.members[item].type, id |-> WholeMember(e, item)]
  BY <1>5 DEF WholeMember
<1> HIDE DEF entry
<1>7. rel_members'[n] = entry /\ \A k : k # n => rel_members'[k] = rel_members[k]
  BY <1>1, <1>3 DEF IType, FilesType
<1>8. ASSUME NEW i \in 1 .. Len(input), MembersDone(i)'
      PROVE  MembersKept(input[i])' /\ MembersEnd(input[i])' =< off
  <2>1. i < at /\ MembersDone(i) /\ input[i].type = "RELATION"
    BY <1>3, <1>8 DEF MembersDone
  <2>2. MembersKept(input[i]) /\ MembersEnd(input[i]) =< off
    BY <1>4, <1>8, <2>1 DEF MembersStored
  <2>3. input[i] \in RelElems
    BY <1>8, <2>1, InputFacts DEF Elements, NodeElems, WayElems, RelElems
  <2>4. MembersEnd(input[i]) =< n
    <3>1. MembersEnd(input[i]) \in Nat
      BY <2>1, <2>2, <2>3, MembersEndType
    <3>2. QED
      BY <1>1, <2>2, <3>1
  <2>5. n_rel_members' \in Nat /\ n_rel_members =< n_rel_members'
    BY <1>1, <1>3
  <2> HIDE DEF n, off
  <2>6. MembersKept(input[i])'
    <3>1. PICK f : f = input[i]
      OBVIOUS
    <3>2. MembersKept(f)'
      BY <1>1, <1>3, <1>7, <2>2, <2>3, <2>4, <2>5, <3>1, MembersBefore
    <3>3. QED
      BY <1>3, <3>1, <3>2 DEF MembersKept, InFile, MembersEnd, MemberCopied, WholeMember
  <2>7. QED
    BY <1>3, <2>2, <2>6 DEF MembersEnd
<1>9. MembersCopied'
  <2>1. ASSUME NEW k \in 1 .. item  PROVE MemberCopied(e, k, WholeMember(e, k))'
    <3>1. CASE k = item
      <4>1. rel_members'[off + k - 1] = entry
        BY <1>1, <1>7, <3>1
      <4>2. QED
        BY <1>3, <1>6, <3>1, <4>1 DEF MemberCopied, WholeMember
    <3>2. CASE k # item
      <4>1. k \in 1 .. item - 1 /\ off + k - 1 # n
        BY <1>1, <3>2
      <4>2. rel_members'[off + k - 1] = rel_members[off + k - 1]
        BY <1>7, <4>1
      <4>3. QED
        BY <1>3, <1>4, <4>1, <4>2 DEF MemberCopied, WholeMember
    <3>3. QED
      BY <3>1, <3>2
  <2>2. item + 1 # 1 /\ item + 1 - 1 = item
    BY <1>1
  <2>3. item' # 1 /\ item' - 1 = item
    <3> DEFINE b == item'
    <3>1. b = item + 1
      BY <1>3
    <3> HIDE DEF b
    <3>2. b # 1 /\ b - 1 = item
      BY <1>1, <2>2, <3>1
    <3>3. QED
      BY <3>2 DEF b
  <2> HIDE DEF n
  <2>4. relations'[Elem'.id].member_offset = off
    BY <1>3
  <2>5. ref_id' = IF item' = 1 THEN 0 ELSE Members(Elem')[item' - 1].id
    BY <1>3, <1>5, <2>3
  <2>6. \A k \in 1 .. item' - 1 : MemberCopied(Elem, k, WholeMember(Elem, k))'
    BY <1>3, <2>1, <2>3 DEF MemberCopied, WholeMember
  <2>7. \A i \in 1 .. Len(input') : MembersDone(i)' => MembersEnd(input[i])' =< off
    BY <1>3, <1>8
  <2>8. QED
    BY <2>4, <2>5, <2>6, <2>7 DEF MembersCopied
<1>10. QED
  BY <1>3, <1>8, <1>9 DEF MembersStored

\* The id of the last member of the list, and no other, is negated.
LEMMA EndsMembers ==
  ASSUME IType, IType', MembersStored, EndMembers
  PROVE  MembersStored'
<1>0. PICK e : e = Elem
  OBVIOUS
<1> DEFINE off == relations[e.id].member_offset
           n == n_rel_members
           len == Len(e.members)
<1>1. /\ at \in 1 .. Len(input) /\ Len(input) \in Nat /\ input[at] = e /\ e.type = "RELATION"
      /\ e \in RelElems /\ e.id \in RelIds /\ InFile(e)
      /\ len \in Nat /\ len >= 1 /\ off \in Nat /\ n \in Nat \ {0} /\ n < MAX_REL_MEMBERS
      /\ MAX_REL_MEMBERS \in Nat /\ pc = "members" /\ item = len + 1 /\ n = off + item - 1
  BY <1>0, CopyingMembers DEF EndMembers
<1>2. /\ rel_members' = [rel_members EXCEPT ![n - 1].id = -@]
      /\ input' = input /\ at' = at /\ relations' = relations /\ n_rel_members' = n
      /\ pc' = "tags"
  BY DEF EndMembers, Continue, counters
<1>3. /\ \A k \in 1 .. len : MemberCopied(e, k, WholeMember(e, k))
      /\ \A i \in 1 .. Len(input) : MembersDone(i) => MembersEnd(input[i]) =< off
  <2>1. item - 1 = len
    BY <1>1
  <2>2. QED
    BY <1>0, <1>1, <2>1 DEF MembersStored, MembersCopied
<1>4. n = off + len /\ n - 1 \in 0 .. MAX_REL_MEMBERS - 1 /\ n - 1 = off + len - 1
  <2> HIDE DEF n, off, len
  <2>1. n = off + len
    BY <1>1
  <2>2. n - 1 \in 0 .. MAX_REL_MEMBERS - 1
    BY <1>1
  <2>3. QED
    BY <1>1, <2>1, <2>2
<1> HIDE DEF n, off, len
<1>5. /\ rel_members'[n - 1] = [rel_members[n - 1] EXCEPT !.id = -rel_members[n - 1].id]
      /\ \A k : k # n - 1 => rel_members'[k] = rel_members[k]
  BY <1>2, <1>4 DEF IType, FilesType
<1>6. ASSUME NEW i \in 1 .. Len(input), MembersDone(i)'
      PROVE  MembersKept(input[i])'
  <2>1. CASE i = at
    <3>1. ASSUME NEW k \in 1 .. len
          PROVE  MemberCopied(e, k, IF k = len THEN -WholeMember(e, k) ELSE WholeMember(e, k))'
      <4>1. relations'[e.id].member_offset = off
        BY <1>2 DEF off
      <4>2. CASE k = len
        <5>1. rel_members[n - 1] =
                [role |-> encode_role(e.members[k].role), element_type |-> e.members[k].type,
                 id |-> WholeMember(e, k)]
          BY <1>3, <1>4, <4>2 DEF MemberCopied, off
        <5>2. rel_members'[n - 1] =
                [role |-> encode_role(e.members[k].role), element_type |-> e.members[k].type,
                 id |-> -WholeMember(e, k)]
          BY <1>5, <5>1
        <5>3. QED
          BY <1>4, <4>1, <4>2, <5>2 DEF MemberCopied, WholeMember
      <4>3. CASE k # len
        <5>1. off + k - 1 # n - 1
          BY <1>1, <1>4, <4>3
        <5>2. rel_members'[off + k - 1] = rel_members[off + k - 1]
          BY <1>5, <5>1
        <5>3. MemberCopied(e, k, WholeMember(e, k))
          BY <1>3
        <5>4. QED
          BY <1>2, <4>1, <4>3, <5>2, <5>3 DEF MemberCopied, WholeMember, off
      <4>4. QED
        BY <4>2, <4>3
    <3>2. MembersEnd(e)' =< n_rel_members'
      <4>1. MembersEnd(e)' = off + len
        BY <1>2 DEF MembersEnd, off, len
      <4>2. QED
        BY <1>1, <1>2, <1>4, <4>1
    <3>3. InFile(e)'
      BY <1>1 DEF InFile
    <3>4. MembersKept(e)'
      BY <3>1, <3>2, <3>3 DEF MembersKept, len, MemberCopied, WholeMember
    <3>5. input'[i] = e
      BY <1>1, <1>2, <2>1
    <3>6. QED
      BY <3>4, <3>5 DEF MembersKept, InFile, MembersEnd, MemberCopied, WholeMember
  <2>2. CASE i # at
    <3>1. MembersDone(i) /\ input[i].type = "RELATION"
      BY <1>2, <1>6, <2>2 DEF MembersDone
    <3>2. MembersKept(input[i]) /\ MembersEnd(input[i]) =< off
      BY <1>3, <1>6, <3>1 DEF MembersStored
    <3>3. input[i] \in RelElems
      BY <1>6, <3>1, InputFacts DEF Elements, NodeElems, WayElems, RelElems
    <3>4. MembersEnd(input[i]) \in Nat
      BY <3>1, <3>2, <3>3, MembersEndType
    <3>5. MembersEnd(input[i]) =< n - 1 /\ n - 1 \in Nat
      BY <1>1, <1>4, <3>2, <3>4
    <3>6. n_rel_members' \in Nat /\ n_rel_members =< n_rel_members'
      BY <1>1, <1>2 DEF n
    <3>7. PICK f : f = input[i]
      OBVIOUS
    <3>8. MembersKept(f)'
      BY <1>2, <1>5, <3>2, <3>3, <3>5, <3>6, <3>7, MembersBefore
    <3>9. QED
      BY <1>2, <3>7, <3>8 DEF MembersKept, InFile, MembersEnd, MemberCopied, WholeMember
  <2>3. QED
    BY <2>1, <2>2
<1>7. QED
  BY <1>2, <1>6 DEF MembersStored

LEMMA SameMembersStored ==
  ASSUME MembersStored, UNCHANGED <<loader, counters, files>>
  PROVE  MembersStored'
<1>1. UNCHANGED <<input, at, pc, item, ref_id, n_rel_members, relations, rel_members>>
  BY DEF loader, counters, files, lists
<1>2. (\A i : MembersDone(i)' <=> MembersDone(i)) /\ (\A e : MembersKept(e)' <=> MembersKept(e))
  BY <1>1 DEF MembersDone, MembersKept, InFile, MembersEnd, MemberCopied, WholeMember
<1>3. MembersCopied' <=> MembersCopied
  BY <1>1, <1>2 DEF MembersCopied, MembersEnd, MemberCopied, WholeMember, Elem
<1>4. QED
  BY <1>1, <1>2, <1>3 DEF MembersStored

LEMMA NextMembers == IType /\ IType' /\ MembersStored /\ [Next]_vars => MembersStored'
<1> SUFFICES ASSUME IType, IType', MembersStored, [Next]_vars
             PROVE  MembersStored'
  OBVIOUS
<1>1. CASE HandleRelation \/ CopyMember \/ EndMembers
  BY <1>1, RelationMembers, SkippedMembers, CopyMembers, EndsMembers
<1>2. CASE (Load \/ Kill) /\ ~(HandleRelation \/ CopyMember \/ EndMembers)
  <2>1. KeepsMembers
    BY <1>2, MembersQuiet DEF Load
  <2>2. QED
    BY <2>1, KeepMembers
<1>3. QED
  BY <1>1, <1>2, SameMembersStored, OtherSteps

-----------------------------------------------------------------------------
(* The files, whatever was loaded into them.                               *)

(* In every reachable state the files hold, for each element whose handler *)
(* has got past the list, its tags, its references or its members whole.   *)
FilesKept == TagsStored /\ RefsStored /\ MembersStored

LEMMA NextFiles == IInv /\ IInv' /\ FilesKept /\ [Next]_vars => FilesKept'
BY NextTags, NextRefs, NextMembers DEF FilesKept, IInv

(* Lists are stored whole before their handler goes on, and no later store *)
(* writes over them (vex.c:402-612): FilesKept holds of every reachable    *)
(* state, for every input and table of tags.                               *)
THEOREM FilesHold == Spec => []FilesKept
<1>1. Init => FilesKept
  BY InitTags, InitRefs, InitMembers DEF FilesKept
<1>2. QED
  BY <1>1, Invariants, NextFiles, PTL DEF Spec

-----------------------------------------------------------------------------
(* The lists as they are read.                                             *)

(* The ids of an OSM file: references are ids of nodes the files have room *)
(* for, and members' ids keep their value in 32 bits.  Ids are positive: a *)
(* list ends where an id was negated (vex.c:500, 573).                     *)
GivenIds ==
  \A elems \in Inputs : \A i \in 1 .. Len(elems) :
    /\ elems[i].type = "WAY" =>
         \A k \in 1 .. Len(elems[i].refs) : Refs(elems[i])[k] \in NodeIds \ {0}
    /\ elems[i].type = "RELATION" =>
         \A k \in 1 .. Len(elems[i].members) : Members(elems[i])[k].id \in 1 .. ID_WIDTH - 1

\* The smallest member of a set of naturals.
LEMMA MinIs ==
  ASSUME NEW S, S \subseteq Nat, NEW m \in S, \A k \in S : m =< k
  PROVE  Min(S) = m
<1>1. Min(S) \in S /\ \A k \in S : Min(S) =< k
  BY MinIn
<1>2. Min(S) =< m /\ m =< Min(S) /\ Min(S) \in Nat /\ m \in Nat
  BY <1>1
<1>3. QED
  BY <1>2

\* The list of a way ends where it was ended, and is decoded to what was given.
LEMMA RefsReadBack ==
  ASSUME IType, NEW e \in WayElems, RefsKept(e), e.refs # <<>>,
         \A k \in 1 .. Len(e.refs) : Refs(e)[k] \in Nat \ {0}
  PROVE  /\ Ended(ways[e.id].node_ref_offset)
         /\ RefsAt(ways[e.id].node_ref_offset) = Refs(e)
<1> DEFINE off == ways[e.id].node_ref_offset
           len == Len(e.refs)
           S == {i \in off .. MAX_REF_INDEX : node_refs[i] < 0}
           end == off + len - 1
<1>1. /\ e.refs \in Seq(Int) /\ len \in Nat /\ len >= 1 /\ off \in Nat
      /\ off + len =< MAX_REF_INDEX /\ MAX_REF_INDEX \in Nat
  <2>1. e.refs \in Seq(Int) /\ len \in Nat /\ len >= 1
    BY DEF WayElems
  <2>2. e.id \in WayIds
    BY DEF RefsKept, InFile, WayElems
  <2>3. off \in Nat /\ n_node_refs \in Nat /\ n_node_refs =< MAX_REF_INDEX
    BY <2>2, RefAssumption DEF IType, LoaderType, FilesType, WayRec, RefIndex
  <2>4. off + len =< n_node_refs
    BY DEF RefsKept, RefsEnd
  <2> HIDE DEF off, len
  <2>5. QED
    BY <2>1, <2>3, <2>4, RefAssumption
<1>2. \A k \in 1 .. len :
        /\ node_refs[off + k - 1] = (IF k = len THEN -Refs(e)[k] ELSE Refs(e)[k])
        /\ Refs(e)[k] \in Nat \ {0}
  BY DEF RefsKept, RefCopied
<1>3. Refs(e) = [k \in 1 .. len |-> Refs(e)[k]]
  BY <1>1 DEF Refs, Decoded
<1>4. Min({i \in off .. MAX_REF_INDEX : node_refs[i] < 0}) = Min(S) /\ S \subseteq Nat
  BY <1>1
<1> HIDE DEF off, len
<1>5. end \in off .. MAX_REF_INDEX /\ node_refs[end] < 0
  <2>1. len \in 1 .. len
    BY <1>1
  <2>2. node_refs[end] = -Refs(e)[len] /\ Refs(e)[len] \in Nat \ {0}
    BY <1>2, <2>1
  <2>3. QED
    BY <1>1, <2>2
<1>6. ASSUME NEW i \in off .. MAX_REF_INDEX, node_refs[i] < 0  PROVE end =< i
  <2>1. CASE i < end
    <3>1. i - off + 1 \in 1 .. len /\ i - off + 1 # len /\ off + (i - off + 1) - 1 = i
      BY <1>1, <2>1
    <3>2. node_refs[i] = Refs(e)[i - off + 1] /\ Refs(e)[i - off + 1] \in Nat
      BY <1>2, <3>1
    <3>3. QED
      BY <1>6, <3>2
  <2>2. QED
    BY <1>1, <2>1
<1>7. Min(S) = end
  <2>1. end \in S /\ \A i \in S : end =< i
    BY <1>5, <1>6
  <2> HIDE DEF S, end
  <2>2. QED
    BY <1>4, <2>1, MinIs
<1>8. Ended(off)
  BY <1>5 DEF Ended
<1>9. RefsAt(off) = [i \in 1 .. end - off + 1 |->
         IF off + i - 1 = end THEN -node_refs[end] ELSE node_refs[off + i - 1]]
  <2> HIDE DEF end
  <2>1. QED
    BY <1>4, <1>7 DEF RefsAt
<1>10. end - off + 1 = len
  BY <1>1
<1>11. ASSUME NEW i \in 1 .. len
       PROVE  (IF off + i - 1 = end THEN -node_refs[end] ELSE node_refs[off + i - 1]) = Refs(e)[i]
  <2>1. off + i - 1 = end <=> i = len
    BY <1>1
  <2>2. CASE i = len
    BY <1>2, <2>1, <2>2
  <2>3. CASE i # len
    BY <1>2, <2>1, <2>3
  <2>4. QED
    BY <2>2, <2>3
<1> HIDE DEF end
<1>12. RefsAt(off) = Refs(e)
  BY <1>3, <1>9, <1>10, <1>11
<1>13. QED
  BY <1>8, <1>12 DEF off

\* A role is found where the list has it, or a role it begins, or nowhere.
LEMMA RoleReadBack == \A role : SameRole(role, decode_role(encode_role(role)))
<1> SUFFICES ASSUME NEW role  PROVE SameRole(role, decode_role(encode_role(role)))
  OBVIOUS
<1> DEFINE found == Matches(RelationRoles, role)
<1>1. RelationRoles \in Seq(STRING) /\ Len(RelationRoles) \in Nat
  BY TableAssumption
<1>2. ToSet(RelationRoles) = {RelationRoles[i] : i \in 1 .. Len(RelationRoles)}
  BY <1>1 DEF ToSet
<1>3. found = {i \in 1 .. Len(RelationRoles) : Found(RelationRoles[i], role)}
  BY DEF Matches
<1>4. CASE found # {}
  <2>1. found \subseteq Nat
    BY <1>1, <1>3
  <2>2. Min(found) \in found
    BY <1>4, <2>1, MinIn
  <2>3. Min(found) # 0 /\ Min(found) \in 1 .. Len(RelationRoles)
        /\ Found(RelationRoles[Min(found)], role)
    BY <1>1, <1>3, <2>2
  <2>4. decode_role(encode_role(role)) = RelationRoles[Min(found)]
    BY <1>4, <2>3 DEF encode_role, decode_role
  <2>5. QED
    BY <1>2, <2>3, <2>4 DEF SameRole
<1>5. CASE found = {}
  <2>1. encode_role(role) = 0
    BY <1>5 DEF encode_role
  <2>2. decode_role(encode_role(role)) = OtherRole
    BY <2>1 DEF decode_role
  <2>3. \A name \in ToSet(RelationRoles) : ~Found(name, role)
    BY <1>2, <1>3, <1>5
  <2>4. QED
    BY <2>2, <2>3 DEF SameRole
<1>6. QED
  BY <1>4, <1>5

\* The list of a relation ends where it was ended, with the members given.
LEMMA MembersReadBack ==
  ASSUME IType, NEW e \in RelElems, MembersKept(e),
         \A k \in 1 .. Len(e.members) : Members(e)[k].id \in 1 .. ID_WIDTH - 1
  PROVE  SameMembers(Members(e), MembersAt(relations[e.id].member_offset))
<1> DEFINE off == relations[e.id].member_offset
           len == Len(e.members)
           S == {i \in off .. MAX_REL_MEMBERS - 1 : rel_members[i].id < 0}
           end == off + len - 1
           whole(k) == Members(e)[k].id
<1>1. /\ len \in Nat /\ len >= 1 /\ off \in Nat
      /\ off + len < MAX_REL_MEMBERS /\ MAX_REL_MEMBERS \in Nat
  <2>1. e.members # <<>> /\ e.id \in RelIds
    BY DEF MembersKept, InFile, RelElems
  <2>2. len \in Nat /\ len >= 1
    BY <2>1 DEF RelElems
  <2>3. off \in Nat
    BY <2>1, LimitAssumption DEF IType, FilesType, RelRec
  <2>4. n_rel_members \in Nat /\ n_rel_members < MAX_REL_MEMBERS /\ MAX_REL_MEMBERS \in Nat
    BY LimitAssumption DEF IType, LoaderType
  <2>5. off + len =< n_rel_members
    BY DEF MembersKept, MembersEnd
  <2> HIDE DEF off, len
  <2>6. QED
    BY <2>2, <2>3, <2>4, <2>5
<1>2. ASSUME NEW k \in 1 .. len
      PROVE  /\ whole(k) \in Nat \ {0}
             /\ rel_members[off + k - 1] =
                  [role |-> encode_role(e.members[k].role), element_type |-> e.members[k].type,
                   id |-> IF k = len THEN -whole(k) ELSE whole(k)]
  <2>1. whole(k) \in 1 .. ID_WIDTH - 1
    OBVIOUS
  <2>2. \A W \in Nat \ {0} : \A x \in 1 .. W - 1 : x % W = x
    OBVIOUS
  <2>3. WholeMember(e, k) = whole(k)
    BY <2>1, <2>2, LimitAssumption DEF WholeMember
  <2>4. MemberCopied(e, k, IF k = len THEN -whole(k) ELSE whole(k))
    BY <2>3 DEF MembersKept
  <2>5. whole(k) \in Nat \ {0}
    BY <2>1, LimitAssumption
  <2> HIDE DEF whole, len
  <2>6. QED
    BY <2>4, <2>5 DEF MemberCopied
<1>3. S \subseteq Nat
  BY <1>1
<1> HIDE DEF off, len, whole
<1>4. \A k \in 1 .. len :
        /\ whole(k) \in Nat \ {0}
        /\ rel_members[off + k - 1].role = encode_role(e.members[k].role)
        /\ rel_members[off + k - 1].element_type = e.members[k].type
        /\ rel_members[off + k - 1].id = IF k = len THEN -whole(k) ELSE whole(k)
  <2>1. ASSUME NEW k \in 1 .. len
        PROVE  /\ whole(k) \in Nat \ {0}
               /\ rel_members[off + k - 1].role = encode_role(e.members[k].role)
               /\ rel_members[off + k - 1].element_type = e.members[k].type
               /\ rel_members[off + k - 1].id = IF k = len THEN -whole(k) ELSE whole(k)
    <3> DEFINE id == IF k = len THEN -whole(k) ELSE whole(k)
               m == rel_members[off + k - 1]
    <3>1. whole(k) \in Nat \ {0}
      BY <1>2
    <3>2. m = [role |-> encode_role(e.members[k].role), element_type |-> e.members[k].type,
               id |-> id]
      BY <1>2
    <3> HIDE DEF id, m
    <3>3. m.role = encode_role(e.members[k].role) /\ m.element_type = e.members[k].type
          /\ m.id = id
      BY <3>2
    <3>4. QED
      BY <3>1, <3>3 DEF id, m
  <2>2. QED
    BY <2>1
<1>5. end \in off .. MAX_REL_MEMBERS - 1 /\ rel_members[end].id < 0
  <2>1. len \in 1 .. len
    BY <1>1
  <2>2. rel_members[end].id = -whole(len) /\ whole(len) \in Nat \ {0}
    BY <1>4, <2>1
  <2>3. QED
    BY <1>1, <2>2
<1>6. ASSUME NEW i \in off .. MAX_REL_MEMBERS - 1, rel_members[i].id < 0  PROVE end =< i
  <2>1. CASE i < end
    <3>1. i - off + 1 \in 1 .. len /\ i - off + 1 # len /\ off + (i - off + 1) - 1 = i
      BY <1>1, <2>1
    <3>2. rel_members[i].id = whole(i - off + 1) /\ whole(i - off + 1) \in Nat
      BY <1>4, <3>1
    <3>3. QED
      BY <1>6, <3>2
  <2>2. QED
    BY <1>1, <2>1
<1>7. Min(S) = end
  <2>1. end \in S /\ \A i \in S : end =< i
    BY <1>5, <1>6
  <2> HIDE DEF S, end
  <2>2. QED
    BY <1>3, <2>1, MinIs
<1> DEFINE list == MembersAt(off)
<1>8. list = [i \in 1 .. end - off + 1 |->
                [role |-> decode_role(rel_members[off + i - 1].role),
                 type |-> rel_members[off + i - 1].element_type,
                 id   |-> IF off + i - 1 = end THEN -rel_members[end].id
                          ELSE rel_members[off + i - 1].id]]
  <2> HIDE DEF end
  <2>1. QED
    BY <1>7 DEF MembersAt
<1>9. end - off + 1 = len
  BY <1>1
<1> HIDE DEF list
<1>10. Len(list) = len
  <2> HIDE DEF end
  <2>1. QED
    BY <1>1, <1>8, <1>9
<1>11. ASSUME NEW i \in 1 .. len
       PROVE  /\ list[i].type = e.members[i].type
              /\ list[i].role = decode_role(encode_role(e.members[i].role))
              /\ list[i].id = whole(i)
  <2>1. off + i - 1 = end <=> i = len
    BY <1>1
  <2> HIDE DEF end
  <2>2. /\ list[i].type = rel_members[off + i - 1].element_type
        /\ list[i].role = decode_role(rel_members[off + i - 1].role)
        /\ list[i].id = IF off + i - 1 = end THEN -rel_members[end].id
                        ELSE rel_members[off + i - 1].id
    BY <1>8, <1>9
  <2>3. list[i].id = whole(i)
    <3>1. CASE i = len
      BY <1>4, <2>1, <2>2, <3>1
    <3>2. CASE i # len
      BY <1>4, <2>1, <2>2, <3>2
    <3>3. QED
      BY <3>1, <3>2
  <2>4. QED
    BY <1>4, <2>2, <2>3
<1>12. /\ Len(Members(e)) = len
       /\ \A i \in 1 .. len : /\ Members(e)[i].type = e.members[i].type
                              /\ Members(e)[i].role = e.members[i].role
                              /\ Members(e)[i].id = whole(i)
  BY MembersNext DEF len, whole
<1>13. SameMembers(Members(e), list)
  BY <1>10, <1>11, <1>12, RoleReadBack DEF SameMembers
<1>14. QED
  BY <1>13 DEF list, off

-----------------------------------------------------------------------------
(* What is written of the files.                                           *)

\* A node some indexed way refers to, and the elements an extraction may write.
Reference(n) ==
  \E c \in Cells : \E w \in cell_ways[c] :
    LET refs == RefsAt(ways[w].node_ref_offset)
    IN  Ended(ways[w].node_ref_offset) /\ \E k \in 1 .. Len(refs) : refs[k] = n
IsStored(o) ==
  \/ \E n \in Int : Reference(n) /\ o = NodeOut(n)
  \/ \E c \in Cells : \E w \in cell_ways[c] : o = WayOut(w)
  \/ \E r \in RelIds : Linked(r) /\ o = RelOut(r)
OutStored == \A i \in 1 .. Len(out) : IsStored(out[i])

LEMMA SameStoredOut ==
  ASSUME UNCHANGED <<loader, counters, files>>, NEW o, IsStored(o)
  PROVE  IsStored(o)'
<1>1. /\ cell_ways' = cell_ways /\ ways' = ways
      /\ \A r : Linked(r)' <=> Linked(r)
      /\ \A p : (Ended(p)' <=> Ended(p)) /\ RefsAt(p)' = RefsAt(p)
  BY SameFiles
<1>2. /\ nodes' = nodes /\ ways' = ways /\ relations' = relations /\ tag_files' = tag_files
      /\ rel_members' = rel_members
  BY DEF files, lists
<1>3. \A p : MembersAt(p)' = MembersAt(p)
  BY <1>2 DEF MembersAt
<1>4. /\ \A n : NodeOut(n)' = NodeOut(n)
      /\ \A w : WayOut(w)' = WayOut(w)
      /\ \A r : RelOut(r)' = RelOut(r)
  BY <1>1, <1>2, <1>3 DEF NodeOut, WayOut, RelOut, TagsAt
<1>5. \A n : Reference(n)' <=> Reference(n)
  BY <1>1 DEF Reference
<1>6. CASE \E n \in Int : Reference(n) /\ o = NodeOut(n)
  BY <1>4, <1>5, <1>6 DEF IsStored
<1>7. CASE \E c \in Cells : \E w \in cell_ways[c] : o = WayOut(w)
  BY <1>1, <1>4, <1>7 DEF IsStored
<1>8. CASE \E r \in RelIds : Linked(r) /\ o = RelOut(r)
  BY <1>1, <1>4, <1>8 DEF IsStored
<1>9. QED
  BY <1>6, <1>7, <1>8 DEF IsStored

\* One more element at the end of the output.
LEMMA OneMoreOut ==
  ASSUME UNCHANGED <<loader, counters, files>>, OutStored, NEW T, out \in Seq(T),
         NEW o, IsStored(o), out' = Append(out, o)
  PROVE  OutStored'
<1> DEFINE new == Append(out, o)
<1>1. Len(new) = Len(out) + 1 /\ Len(out) \in Nat
  BY AppendAny
<1>2. \A i \in 1 .. Len(new) : (i \in 1 .. Len(out) /\ new[i] = out[i]) \/ new[i] = o
  BY <1>1
<1> HIDE DEF new
<1>3. \A i \in 1 .. Len(new) : IsStored(new[i])
  BY <1>2 DEF OutStored
<1>4. ASSUME NEW i \in 1 .. Len(new)  PROVE IsStored(out[i])'
  <2>1. PICK x : x = new[i]
    OBVIOUS
  <2>2. IsStored(x)'
    BY <1>3, <1>4, <2>1, SameStoredOut
  <2>3. out'[i] = x
    BY <2>1 DEF new
  <2>4. QED
    BY <2>2, <2>3
<1>5. QED
  BY <1>4 DEF OutStored, new

\* The nodes of one way.
LEMMA NodesOut ==
  ASSUME IType, OutStored, NEW w \in WayIds, WriteNodes(w), NEW c \in Cells, w \in cell_ways[c]
  PROVE  OutStored'
<1> DEFINE refs == RefsAt(ways[w].node_ref_offset)
           N == {n \in Int : \E k \in 1 .. Len(refs) : refs[k] = n}
           U == {o \in {out[i] : i \in 1 .. Len(out)} \cup {NodeOut(n) : n \in N} : IsStored(o)}
           start == [seen |-> seen, out |-> out]
           A == [seen : SUBSET (seen \cup Int), out : Seq(U)]
           written == FoldLeft(WriteNode, start, refs)
<1>1. /\ UNCHANGED <<loader, counters, files>> /\ Ended(ways[w].node_ref_offset)
      /\ out' = written.out
  BY DEF WriteNodes
<1>2. refs \in Seq(Int)
  BY <1>1, RefsAtType DEF IType, FilesType, WayRec
<1> HIDE DEF refs
<1>3. refs \in Seq(N)
  <2>1. \A k \in 1 .. Len(refs) : refs[k] \in N
    BY <1>2, ElementOfSeq
  <2> HIDE DEF N
  <2>2. QED
    BY <1>2, <2>1
<1>4. ASSUME NEW n \in N  PROVE NodeOut(n) \in U /\ n \in Int
  <2>1. Reference(n)
    BY <1>1 DEF Reference, refs
  <2>2. IsStored(NodeOut(n))
    BY <2>1 DEF IsStored
  <2>3. NodeOut(n) \in {NodeOut(m) : m \in N}
    OBVIOUS
  <2>4. QED
    BY <2>2, <2>3
<1>5. start \in A
  <2>1. PICK T : out \in Seq(T)
    BY DEF IType, ReaderType
  <2>2. \A i \in 1 .. Len(out) : out[i] \in U
    BY DEF OutStored
  <2> HIDE DEF U
  <2>3. out \in Seq(U)
    BY <2>1, <2>2
  <2>4. QED
    BY <2>3
<1>6. ASSUME NEW a \in A, NEW n \in N  PROVE WriteNode(a, n) \in A
  <2>1. NodeOut(n) \in U /\ n \in Int
    BY <1>4
  <2> HIDE DEF U, N
  <2>2. Append(a.out, NodeOut(n)) \in Seq(U) /\ a.seen \cup {n} \in SUBSET (seen \cup Int)
    BY <2>1, AppendProperties
  <2>3. QED
    BY <2>2 DEF WriteNode
<1>7. written \in A
  <2> HIDE DEF A, start, N
  <2>1. Writing!Fold(start, refs) \in A
    BY <1>3, <1>5, <1>6, Writing!FoldType
  <2>2. QED
    BY <2>1, FoldsAreFolds
<1> DEFINE new == written.out
<1>8. new \in Seq(U)
  <2> HIDE DEF U, written
  <2>1. QED
    BY <1>7
<1> HIDE DEF written, new
<1>9. \A i \in 1 .. Len(new) : IsStored(new[i])
  <2> HIDE DEF U
  <2>1. \A i \in 1 .. Len(new) : new[i] \in U
    BY <1>8, ElementOfSeq
  <2>2. QED
    BY <2>1 DEF U
<1>10. ASSUME NEW i \in 1 .. Len(new)  PROVE IsStored(out[i])'
  <2>1. PICK x : x = new[i]
    OBVIOUS
  <2>2. IsStored(x)'
    BY <1>1, <1>9, <1>10, <2>1, SameStoredOut
  <2>3. out'[i] = x
    BY <1>1, <2>1 DEF new
  <2>4. QED
    BY <2>2, <2>3
<1>11. out' = new
  BY <1>1 DEF new
<1>12. QED
  BY <1>10, <1>11 DEF OutStored

\* The tags of an element are read back where its handler stored them.
LEMMA TagsReadAs ==
  ASSUME IType, TagsStored, NEW i \in 1 .. Len(input), Tagged(i), NEW e, e = input[i]
  PROVE  SameTags(Kept(e.tags), TagsAt(e.id, e.type, TagPlace(e)))
<1>1. e \in Elements /\ Kept(e.tags) \in TagLists
  BY InputFacts, ElementTags
<1>2. /\ InFile(e) /\ TagFile(e) \in 0 .. MAX_SUBFILES - 1
      /\ StandsAt(tag_files[TagFile(e)], TagPlace(e) + 1, TagList(Kept(e.tags)))
  BY DEF TagsStored, TagsKept
<1>3. TagPlace(e) + 1 \in Nat \ {0}
  BY <1>2, PlaceType, LimitAssumption
<1>4. Len(tag_files[TagFile(e)]) \in Nat
  BY <1>2, LimitAssumption DEF TagsStored
<1>5. SameTags(Kept(e.tags), TagsFrom(tag_files[TagFile(e)], TagPlace(e) + 1))
  BY <1>1, <1>2, <1>3, <1>4, TagsReadBack
<1>6. QED
  BY <1>5 DEF TagsAt, TagFile

\* A node that was never loaded reads as one without tags.
LEMMA NoTagsRead ==
  ASSUME TagsStored, NEW n \in NodeIds
  PROVE  TagsAt(n, "NODE", 0) = <<>>
<1> DEFINE s == subfile_index_for_id(n, "NODE")
           data == tag_files[s]
<1>1. s \in 0 .. MAX_SUBFILES - 1
  <2>1. n \in Nat
    BY DEF NodeIds
  <2>2. scaled_id(n, "NODE") = n \div NODE_IDS_PER_WAY_ID
    BY Zenon DEF scaled_id
  <2>3. s = (n \div NODE_IDS_PER_WAY_ID) \div SUBFILE_WAY_IDS
    BY <2>2 DEF subfile_index_for_id
  <2>4. n \div NODE_IDS_PER_WAY_ID \in Nat
    BY <2>1, LimitAssumption
  <2>5. s \in Nat
    BY <2>3, <2>4, LimitAssumption
  <2>6. s < MAX_SUBFILES
    BY SubfileAssumption
  <2> HIDE DEF s
  <2>7. QED
    BY <2>5, <2>6, LimitAssumption
<1> HIDE DEF s
<1>2. Len(data) \in 1 .. SubfileSize /\ data[1] = INT8_MAX
  BY <1>1 DEF TagsStored
<1>3. Len(data) \in Nat /\ Len(data) >= 1
  BY <1>2, LimitAssumption
<1> HIDE DEF data
<1>4. StandsAt(data, 1, TagList(<<>>))
  <2>1. \A k \in 1 .. 1 : data[1 + k - 1] = <<INT8_MAX>>[k]
    BY <1>2
  <2>2. Len(<<INT8_MAX>>) = 1 /\ 1 + 1 - 1 =< Len(data)
    BY <1>3
  <2>3. StandsAt(data, 1, <<INT8_MAX>>)
    BY <2>1, <2>2 DEF StandsAt
  <2>4. QED
    BY <2>3, EmptyList
<1>5. <<>> \in TagLists /\ 1 \in Nat \ {0} /\ 0 + 1 = 1
  BY DEF TagLists
<1>6. TagsFrom(data, 1) = <<>>
  BY <1>3, <1>4, <1>5, TagsReadBack
<1>7. QED
  BY <1>5, <1>6 DEF TagsAt, data, s

\* The whole input is behind a load that ended well.
LEMMA AllLoaded ==
  ASSUME IType, Stored, pc = "loaded"
  PROVE  /\ Len(input) \in Nat /\ \A i \in 1 .. Len(input) : i < at
         /\ at > Len(input) /\ NoEmptyWay
<1>1. Len(input) \in Nat /\ at \in Nat /\ at > Len(input)
  BY InputFacts DEF Stored, Resting
<1>2. \A i \in 1 .. Len(input) : i < at
  BY <1>1
<1>3. NoEmptyWay
  BY <1>2 DEF NoEmptyWay, Stored, WaysIndexed, Indexed
<1>4. QED
  BY <1>1, <1>2, <1>3

LEMMA WayReadBack ==
  ASSUME IType, RefsStored, GivenIds, NoEmptyWay, NEW i \in 1 .. Len(input),
         input[i].type = "WAY", RefsDone(i), NEW e, e = input[i]
  PROVE  /\ e \in WayElems
         /\ Ended(ways[e.id].node_ref_offset) /\ RefsAt(ways[e.id].node_ref_offset) = Refs(e)
         /\ Len(Refs(e)) = Len(e.refs)
         /\ \A k \in 1 .. Len(e.refs) : Refs(e)[k] \in NodeIds
<1>1. e \in WayElems /\ input \in Inputs /\ e.refs # <<>>
  BY InputFacts DEF Elements, NodeElems, WayElems, RelElems, NoEmptyWay
<1>2. \A k \in 1 .. Len(e.refs) : Refs(e)[k] \in NodeIds \ {0}
  BY <1>1 DEF GivenIds
<1>3. NodeIds \subseteq Nat
  BY DEF NodeIds
<1>4. RefsKept(e)
  BY DEF RefsStored
<1>5. Len(Refs(e)) = Len(e.refs)
  BY <1>1, DecodedNext DEF Refs, WayElems
<1>6. QED
  BY <1>1, <1>2, <1>3, <1>4, <1>5, RefsReadBack

LEMMA RelationReadBack ==
  ASSUME IType, MembersStored, GivenIds, NEW i \in 1 .. Len(input), MembersDone(i),
         NEW e, e = input[i]
  PROVE  SameMembers(Members(e), MembersAt(relations[e.id].member_offset))
<1>1. e \in RelElems /\ input \in Inputs /\ e.type = "RELATION"
  BY InputFacts DEF Elements, NodeElems, WayElems, RelElems, MembersDone
<1>2. \A k \in 1 .. Len(e.members) : Members(e)[k].id \in 1 .. ID_WIDTH - 1
  BY <1>1 DEF GivenIds
<1>3. MembersKept(e)
  BY DEF MembersStored
<1>4. QED
  BY <1>1, <1>2, <1>3, MembersReadBack

\* What the input gave of one id, and what is written of it.
GivenOut(o) ==
  LET g == {e \in Given(o.type) : e.id = o.id}
  IN  \/ o.type = "NODE" /\ g = {} /\ o.coord = Origin /\ o.tags = <<>>
      \/ \E e \in g :
           /\ SameTags(Kept(e.tags), o.tags)
           /\ o.type = "NODE" => o.coord = e.coord
           /\ o.type = "WAY" => o.refs = Refs(e)
           /\ o.type = "RELATION" => SameMembers(Members(e), o.members)

LEMMA GivenIs ==
  ASSUME IType
  PROVE  /\ \A i \in 1 .. Len(input) : input[i] \in Given(input[i].type)
         /\ \A type : \A e \in Given(type) :
              \E i \in 1 .. Len(input) : input[i] = e /\ e.type = type
<1>1. input \in Seq(Elements)
  BY InputType DEF IType, LoaderType
<1>2. ToSet(input) = {input[i] : i \in 1 .. Len(input)}
  BY <1>1 DEF ToSet
<1>3. QED
  BY <1>2 DEF Given

LEMMA NodeGiven ==
  ASSUME GivenIds, IType, Stored, FilesKept, pc = "loaded", NEW n \in Int, Reference(n)
  PROVE  GivenOut(NodeOut(n))
<1> DEFINE o == NodeOut(n)
<1>1. Len(input) \in Nat /\ NoEmptyWay /\ at > Len(input)
      /\ \A i \in 1 .. Len(input) : i < at
  BY AllLoaded
<1>2. n \in NodeIds
  <2>0. PICK c \in Cells : \E w \in cell_ways[c] :
          \E k \in 1 .. Len(RefsAt(ways[w].node_ref_offset)) :
            RefsAt(ways[w].node_ref_offset)[k] = n
    BY DEF Reference
  <2>1. PICK w \in cell_ways[c] :
          \E k \in 1 .. Len(RefsAt(ways[w].node_ref_offset)) :
            RefsAt(ways[w].node_ref_offset)[k] = n
    BY <2>0
  <2>2. PICK i \in 1 .. Len(input) : input[i].type = "WAY" /\ input[i].id = w
    BY <2>1 DEF Stored, WaysIndexed
  <2>3. RefsDone(i)
    BY <1>1 DEF RefsDone
  <2>4. PICK e : e = input[i]
    OBVIOUS
  <2>5. /\ RefsAt(ways[w].node_ref_offset) = Refs(e) /\ Len(Refs(e)) = Len(e.refs)
        /\ \A k \in 1 .. Len(e.refs) : Refs(e)[k] \in NodeIds
    BY <1>1, <2>2, <2>3, <2>4, WayReadBack DEF FilesKept
  <2>6. QED
    BY <2>1, <2>5
<1>3. /\ o.type = "NODE" /\ o.id = n /\ o.coord = nodes[n].coord
      /\ o.tags = TagsAt(n, "NODE", nodes[n].tags)
  BY DEF NodeOut
<1> HIDE DEF o
<1>4. CASE \E i \in 1 .. Len(input) : input[i].type = "NODE" /\ input[i].id = n
  <2>1. PICK i \in 1 .. Len(input) : input[i].type = "NODE" /\ input[i].id = n
    BY <1>4
  <2>2. PICK e : e = input[i]
    OBVIOUS
  <2>3. nodes[n].coord = e.coord
    BY <1>1, <2>1, <2>2 DEF Stored, NodesStored
  <2>4. Tagged(i)
    BY <1>1, <2>1 DEF Tagged
  <2>5. SameTags(Kept(e.tags), TagsAt(n, "NODE", TagPlace(e))) /\ TagPlace(e) = nodes[n].tags
    BY <2>1, <2>2, <2>4, TagsReadAs DEF FilesKept, TagPlace
  <2>6. e \in Given("NODE") /\ e.id = n
    BY <2>1, <2>2, GivenIs
  <2>7. GivenOut(o)
    BY <1>3, <2>3, <2>5, <2>6 DEF GivenOut
  <2>8. QED
    BY <2>7 DEF o
<1>5. CASE ~\E i \in 1 .. Len(input) : input[i].type = "NODE" /\ input[i].id = n
  <2>1. nodes[n].coord = Origin
    BY <1>2, <1>5 DEF Stored, NodesStored
  <2>2. nodes[n].tags = 0
    BY <1>2, <1>5 DEF FilesKept, TagsStored
  <2>3. o.tags = <<>>
    BY <1>2, <1>3, <2>2, NoTagsRead DEF FilesKept
  <2>4. {e \in Given("NODE") : e.id = n} = {}
    BY <1>5, GivenIs
  <2>5. GivenOut(o)
    BY <1>3, <2>1, <2>3, <2>4 DEF GivenOut
  <2>6. QED
    BY <2>5 DEF o
<1>6. QED
  BY <1>4, <1>5

LEMMA WayGiven ==
  ASSUME GivenIds, IType, Stored, FilesKept, pc = "loaded",
         NEW c \in Cells, NEW w \in cell_ways[c]
  PROVE  GivenOut(WayOut(w))
<1> DEFINE o == WayOut(w)
<1>1. Len(input) \in Nat /\ NoEmptyWay /\ \A i \in 1 .. Len(input) : i < at
  BY AllLoaded
<1>2. PICK i \in 1 .. Len(input) : input[i].type = "WAY" /\ input[i].id = w
  BY DEF Stored, WaysIndexed
<1>3. PICK e : e = input[i]
  OBVIOUS
<1>4. RefsDone(i) /\ Tagged(i)
  BY <1>1, <1>2 DEF RefsDone, Tagged
<1>5. RefsAt(ways[w].node_ref_offset) = Refs(e)
  BY <1>1, <1>2, <1>3, <1>4, WayReadBack DEF FilesKept
<1>6. SameTags(Kept(e.tags), TagsAt(w, "WAY", TagPlace(e))) /\ TagPlace(e) = ways[w].tags
  BY <1>2, <1>3, <1>4, TagsReadAs DEF FilesKept, TagPlace
<1>7. /\ o.type = "WAY" /\ o.id = w /\ o.refs = RefsAt(ways[w].node_ref_offset)
      /\ o.tags = TagsAt(w, "WAY", ways[w].tags)
  BY DEF WayOut
<1> HIDE DEF o
<1>8. e \in Given("WAY") /\ e.id = w
  BY <1>2, <1>3, GivenIs
<1>9. GivenOut(o)
  BY <1>5, <1>6, <1>7, <1>8 DEF GivenOut
<1>10. QED
  BY <1>9 DEF o

LEMMA RelationGiven ==
  ASSUME GivenIds, IType, Stored, FilesKept, pc = "loaded", NEW r \in RelIds, Linked(r)
  PROVE  GivenOut(RelOut(r))
<1> DEFINE o == RelOut(r)
<1>1. Len(input) \in Nat /\ \A i \in 1 .. Len(input) : i < at
  BY AllLoaded
<1>2. PICK i \in 1 .. Len(input) :
        input[i].type = "RELATION" /\ input[i].id = r /\ input[i].members # <<>>
  BY DEF Linked, ListAt
<1>3. PICK e : e = input[i]
  OBVIOUS
<1>4. MembersDone(i) /\ Tagged(i)
  BY <1>1, <1>2 DEF MembersDone, Tagged
<1>5. SameMembers(Members(e), MembersAt(relations[r].member_offset))
  BY <1>2, <1>3, <1>4, RelationReadBack DEF FilesKept
<1>6. /\ SameTags(Kept(e.tags), TagsAt(r, "RELATION", TagPlace(e)))
      /\ TagPlace(e) = relations[r].tags
  BY <1>2, <1>3, <1>4, TagsReadAs DEF FilesKept, TagPlace
<1>7. /\ o.type = "RELATION" /\ o.id = r /\ o.members = MembersAt(relations[r].member_offset)
      /\ o.tags = TagsAt(r, "RELATION", relations[r].tags)
  BY DEF RelOut
<1> HIDE DEF o
<1>8. e \in Given("RELATION") /\ e.id = r
  BY <1>2, <1>3, GivenIs
<1>9. GivenOut(o)
  BY <1>5, <1>6, <1>7, <1>8 DEF GivenOut
<1>10. QED
  BY <1>9 DEF o

\* Behind a load that ended well, every list of references ends.
LEMMA LoadedEnds ==
  ASSUME GivenIds, IType, Stored, FilesKept, pc = "loaded",
         NEW c \in Cells, NEW w \in cell_ways[c]
  PROVE  Ended(ways[w].node_ref_offset)
<1>1. Len(input) \in Nat /\ NoEmptyWay /\ \A i \in 1 .. Len(input) : i < at
  BY AllLoaded
<1>2. PICK i \in 1 .. Len(input) : input[i].type = "WAY" /\ input[i].id = w
  BY DEF Stored, WaysIndexed
<1>3. PICK e : e = input[i]
  OBVIOUS
<1>4. RefsDone(i)
  BY <1>1, <1>2 DEF RefsDone
<1>5. QED
  BY <1>1, <1>2, <1>3, <1>4, WayReadBack DEF FilesKept

(* While the files come from a load that ended well, only what is stored   *)
(* is written: no walk goes past the end of its list.                      *)
OutKept == pc = "loaded" => OutStored

LEMMA NextOut ==
  ASSUME GivenIds
  PROVE  IInv /\ FilesKept /\ OutKept /\ [Next]_vars => OutKept'
<1> SUFFICES ASSUME IType, Stored, Reading, FilesKept, OutKept, [Next]_vars, pc' = "loaded"
             PROVE  OutStored'
  BY DEF IInv, OutKept
<1> USE DEF OutKept
<1>1. CASE Load \/ Kill
  <2>1. stage = "none" /\ reader' = reader
    BY <1>1, LoadRests DEF Stored
  <2>2. out' = <<>>
    BY <2>1 DEF Reading, ReadsNodes, reader, scan
  <2>3. QED
    BY <2>2 DEF OutStored
<1>2. CASE \E b \in Boxes : StartExtract(b)
  <2>1. out' = <<>>
    BY <1>2 DEF StartExtract
  <2>2. QED
    BY <2>1 DEF OutStored
<1>3. CASE EnterCell \/ EndStage \/ Overrun \/ UNCHANGED vars \/ \E w \in WayIds : ReadPastEnd(w)
  <2>1. UNCHANGED <<loader, counters, files>> /\ out' = out
    BY <1>3 DEF EnterCell, EndStage, Overrun, ReadPastEnd, vars, reader, scan
  <2> OutStored
    BY <2>1 DEF loader
  <2>2. ASSUME NEW i \in 1 .. Len(out)  PROVE IsStored(out[i])'
    <3>1. PICK x : x = out[i]
      OBVIOUS
    <3>2. IsStored(x)'
      BY <2>1, <3>1, SameStoredOut DEF OutStored
    <3>3. QED
      BY <2>1, <3>1, <3>2
  <2>3. QED
    BY <2>1, <2>2 DEF OutStored
<1>4. ASSUME NEW w \in WayIds,
             WriteNodes(w) \/ WriteWay(w) \/ WalkRound(w) \/ WalkForever(w)
      PROVE  OutStored'
  <2>1. stage \in {"NODE", "WAY"} /\ w \in ways_left /\ UNCHANGED loader
    BY <1>4 DEF WriteNodes, WriteWay, WalkRound, WalkForever
  <2> pc = "loaded" /\ OutStored
    BY <2>1 DEF loader
  <2>2. PICK c \in Entered : ways_left \subseteq cell_ways[c]
    BY <2>1 DEF Reading, ReadsNodes
  <2>3. c \in Cells /\ w \in cell_ways[c]
    BY <2>1, <2>2, BoxCellsType DEF Entered, IType, ReaderType
  <2>4. CASE WriteNodes(w)
    BY <2>3, <2>4, NodesOut
  <2>5. CASE WriteWay(w)
    <3>1. UNCHANGED <<loader, counters, files>> /\ out' = Append(out, WayOut(w))
      BY <2>5 DEF WriteWay
    <3>2. IsStored(WayOut(w))
      BY <2>3 DEF IsStored
    <3>3. QED
      BY <3>1, <3>2, OneMoreOut DEF IType, ReaderType
  <2>6. CASE WalkRound(w) \/ WalkForever(w)
    <3>1. Ended(ways[w].node_ref_offset)
      BY <2>3, LoadedEnds
    <3>2. QED
      BY <2>6, <3>1 DEF WalkRound, WalkForever
  <2>7. QED
    BY <1>4, <2>4, <2>5, <2>6
<1>5. CASE WriteRelation
  <2>1. /\ UNCHANGED <<loader, counters, files>> /\ out' = Append(out, RelOut(relation_id))
        /\ stage = "RELATION" /\ relation_id > 0
    BY <1>5 DEF WriteRelation
  <2> OutStored
    BY <2>1 DEF loader
  <2>2. relation_id \in RelIds /\ Linked(relation_id)
    BY <2>1 DEF Reading, ReadsRelations, IType, ReaderType
  <2>3. IsStored(RelOut(relation_id))
    BY <2>2 DEF IsStored
  <2>4. QED
    BY <2>1, <2>3, OneMoreOut DEF IType, ReaderType
<1>6. QED
  BY <1>1, <1>2, <1>3, <1>4, <1>5 DEF Next, Extract

LEMMA OutputIn == GivenIds /\ IInv /\ FilesKept /\ OutKept => OutputGiven
<1> SUFFICES ASSUME GivenIds, IType, Stored, FilesKept, OutStored, pc = "loaded"
             PROVE  \A i \in 1 .. Len(out) : GivenOut(out[i])
  BY DEF IInv, OutKept, OutputGiven, GivenOut
<1> TAKE i \in 1 .. Len(out)
<1>1. IsStored(out[i])
  BY DEF OutStored
<1>2. CASE \E n \in Int : Reference(n) /\ out[i] = NodeOut(n)
  BY <1>2, NodeGiven
<1>3. CASE \E c \in Cells : \E w \in cell_ways[c] : out[i] = WayOut(w)
  BY <1>3, WayGiven
<1>4. CASE \E r \in RelIds : Linked(r) /\ out[i] = RelOut(r)
  BY <1>4, RelationGiven
<1>5. QED
  BY <1>1, <1>2, <1>3, <1>4 DEF IsStored

(* An extract of a complete load gives back what the load was given, for   *)
(* every input, box and table of tags: the coordinates, the references and *)
(* members undone of their delta coding, the tags write_tags keeps, and    *)
(* zeros for a node never loaded (vex.c:402-612, 840-962).  A key, value   *)
(* or role that begins a longer string of the tables may come back as that *)
(* (tags.c:238, 321).  References are ids the files have room for, and     *)
(* members' ids keep their value in the 32 bits they are cut to            *)
(* (vex.c:563).                                                            *)
THEOREM ExtractsGiveBack ==
  ASSUME GivenIds
  PROVE  Spec => []OutputGiven
<1>1. Init => OutKept
  BY DEF Init, OutKept, OutStored
<1>2. IInv /\ FilesKept /\ OutKept => OutputGiven
  BY OutputIn
<1>3. QED
  BY <1>1, <1>2, NextOut, Invariants, FilesHold, PTL DEF Spec

-----------------------------------------------------------------------------
(* The lists of relations, in order.                                       *)

\* A relation that belongs into a list.
Placed(i) == input[i].type = "RELATION" /\ HasCell(input[i])

(* S gives the relations of each cell in the order in which they were put  *)
(* there: the head is the last, next the one before, and every relation    *)
(* that has a cell is in one place of one list.                            *)
OrdersHeads(S) ==
  \A c \in Cells :
    /\ S[c] \in Seq(RelIds \ {0})
    /\ head_relation[c] = IF S[c] = <<>> THEN 0 ELSE S[c][Len(S[c])]
OrdersNext(S) ==
  \A c \in Cells : \A k \in 1 .. Len(S[c]) :
    relations[S[c][k]].next = IF k = 1 THEN 0 ELSE S[c][k - 1]
OrdersGiven(S) ==
  /\ \A c \in Cells : \A k \in 1 .. Len(S[c]) :
       \E i \in 1 .. at - 1 : Placed(i) /\ input[i].id = S[c][k]
  /\ \A i \in 1 .. at - 1 : Placed(i) =>
       \E c \in Cells : \E k \in 1 .. Len(S[c]) : S[c][k] = input[i].id
OncePlaced(S) ==
  \A c, d \in Cells : \A k \in 1 .. Len(S[c]) : \A j \in 1 .. Len(S[d]) :
    S[c][k] = S[d][j] => c = d /\ k = j
Orders(S) == OrdersHeads(S) /\ OrdersNext(S) /\ OrdersGiven(S) /\ OncePlaced(S)
Ordered == relations[0].next = 0 /\ \E S : Orders(S)

LEMMA InitOrdered == Init => Ordered
<1> SUFFICES ASSUME Init  PROVE Ordered
  OBVIOUS
<1> DEFINE S == [c \in Cells |-> <<>>]
<1>1. \A c \in Cells : S[c] = <<>> /\ S[c] \in Seq(RelIds \ {0}) /\ Len(S[c]) = 0
  OBVIOUS
<1>2. 0 \in RelIds
  BY LimitAssumption DEF RelIds
<1>3. relations[0].next = 0 /\ at = 1 /\ \A c \in Cells : head_relation[c] = 0
  BY <1>2 DEF Init
<1>4. \A i \in 1 .. at - 1 : FALSE
  BY <1>3
<1> HIDE DEF S
<1>5. \A c \in Cells : \A k \in 1 .. Len(S[c]) : FALSE
  BY <1>1
<1>6. Orders(S)
  BY <1>1, <1>3, <1>4, <1>5 DEF Orders, OrdersHeads, OrdersNext, OrdersGiven, OncePlaced
<1>7. QED
  BY <1>3, <1>6 DEF Ordered

\* The relation being linked is in no list yet.
LEMMA NotPlaced ==
  ASSUME IType, pc \in {"next", "head"}, NEW S, Orders(S), NEW c \in Cells,
         NEW k \in 1 .. Len(S[c])
  PROVE  S[c][k] # Elem.id /\ S[c][k] \in RelIds
<1>1. PICK i \in 1 .. at - 1 : Placed(i) /\ input[i].id = S[c][k]
  BY DEF Orders, OrdersGiven
<1>2. at \in 1 .. Len(input) /\ Elem.type = "RELATION" /\ Len(input) \in Nat
  BY BeingLinked, InputFacts
<1>3. i \in 1 .. Len(input) /\ i # at /\ input[i].type = "RELATION"
  BY <1>1, <1>2 DEF Placed
<1>4. input[i].id # Elem.id
  BY <1>2, <1>3, OtherRelation
<1>5. S[c] \in Seq(RelIds \ {0})
  BY DEF Orders, OrdersHeads
<1>6. S[c][k] \in RelIds \ {0}
  BY <1>5, ElementOfSeq
<1>7. QED
  BY <1>1, <1>4, <1>6

\* A list is linked as it is given: a relation with one member, or one that
\* begins with a relation, has no cell.
LEMMA CellIsHad ==
  ASSUME IType, MembersStored, GivenIds, pc \in {"next", "head"}
  PROVE  /\ HasCell(Elem) => get_grid_cell_for_relation(Elem.id) \in Cells
         /\ ~HasCell(Elem) => get_grid_cell_for_relation(Elem.id) = NoCell
<1> DEFINE m == rel_members[relations[Elem.id].member_offset]
           id == Members(Elem)[1].id
           cell == get_grid_cell_for_relation(Elem.id)
<1>1. /\ at \in 1 .. Len(input) /\ Elem.type = "RELATION" /\ Elem.id \in RelIds
      /\ FirstInFile(m) /\ ListAt(at, Elem.id) /\ input \in Inputs /\ Elem = input[at]
  BY BeingLinked, InputFacts DEF Elem
<1>2. Elem \in RelElems /\ Elem.members # <<>> /\ MembersDone(at)
  BY <1>1, InputFacts DEF Elements, NodeElems, WayElems, RelElems, ListAt, MembersDone
<1>3. Len(Elem.members) \in Nat /\ 1 \in 1 .. Len(Elem.members)
  BY <1>2 DEF RelElems
<1>4. id \in 1 .. ID_WIDTH - 1 /\ MembersKept(Elem)
  BY <1>1, <1>2, <1>3 DEF GivenIds, MembersStored
<1>5. WholeMember(Elem, 1) = id /\ id \in Nat \ {0}
  <2>1. \A W \in Nat \ {0} : \A x \in 1 .. W - 1 : x % W = x /\ x \in Nat \ {0}
    OBVIOUS
  <2>2. QED
    BY <1>4, <2>1, LimitAssumption DEF WholeMember
<1>6. relations[Elem.id].member_offset \in Nat
  BY <1>1, LimitAssumption DEF IType, FilesType, RelRec
<1>7. m = [role |-> encode_role(Elem.members[1].role), element_type |-> Elem.members[1].type,
           id |-> IF 1 = Len(Elem.members) THEN -id ELSE id]
  <2>1. MemberCopied(Elem, 1, IF 1 = Len(Elem.members) THEN -WholeMember(Elem, 1)
                              ELSE WholeMember(Elem, 1))
    BY <1>3, <1>4 DEF MembersKept
  <2>2. relations[Elem.id].member_offset + 1 - 1 = relations[Elem.id].member_offset
    BY <1>6
  <2>3. QED
    BY <1>5, <2>1, <2>2 DEF MemberCopied
<1> HIDE DEF m, id
<1>8. /\ m.element_type = Elem.members[1].type
      /\ m.id = IF 1 = Len(Elem.members) THEN -id ELSE id
  BY <1>7
<1>9. Elem.members[1].type \in {"NODE", "WAY", "RELATION"}
  BY <1>2, <1>3, MembersNext DEF MemberElems
<1>10. NoCell \notin Cells /\ cell \in Cells \cup {NoCell}
  BY <1>1, RelationCellType DEF m, NoCell, Cells
<1>11. ASSUME HasCell(Elem)  PROVE cell \in Cells
  <2>0. Len(Elem.members) > 1 /\ Elem.members[1].type # "RELATION"
    BY <1>11 DEF HasCell
  <2>1. m.id >= 0 /\ ~(m.id < 0) /\ m.element_type \in {"NODE", "WAY"}
    <3>1. 1 # Len(Elem.members)
      <4> DEFINE n == Len(Elem.members)
      <4> HIDE DEF n
      <4>1. n > 1
        BY <2>0 DEF n
      <4>2. 1 # n
        BY <4>1
      <4>3. QED
        BY <4>2 DEF n
    <3>2. m.id = id
      BY <1>8, <3>1
    <3>3. m.id >= 0 /\ ~(m.id < 0)
      BY <1>5, <3>2
    <3>4. QED
      BY <1>8, <1>9, <2>0, <3>3
  <2>2. \A p : get_grid_cell_for_coord(p) # NoCell
    BY DEF get_grid_cell_for_coord, NoCell
  <2>3. cell # NoCell
    <3>1. CASE m.element_type = "NODE"
      <4>1. cell = get_grid_cell_for_coord(nodes[m.id].coord)
        BY <2>1, <3>1, Zenon DEF get_grid_cell_for_relation, m
      <4>2. QED
        BY <2>2, <4>1
    <3>2. CASE m.element_type = "WAY"
      <4>1. m.element_type # "NODE"
        BY <3>2
      <4>2. cell = get_grid_cell_for_coord(nodes[ways[m.id].node_ref_offset].coord)
        BY <2>1, <3>2, <4>1 DEF get_grid_cell_for_relation, m
      <4>3. QED
        BY <2>2, <4>2
    <3>3. QED
      BY <2>1, <3>1, <3>2
  <2>4. QED
    BY <1>10, <2>3
<1>12. ASSUME ~HasCell(Elem)  PROVE cell = NoCell
  <2>1. CASE Len(Elem.members) = 1
    <3>1. m.id < 0 /\ ~(m.id >= 0)
      BY <1>5, <1>8, <2>1
    <3>2. QED
      BY <3>1 DEF get_grid_cell_for_relation, m
  <2>2. CASE Len(Elem.members) # 1
    <3>1. Len(Elem.members) > 1
      <4> DEFINE n == Len(Elem.members)
      <4> HIDE DEF n
      <4>1. n \in Nat /\ 1 \in 1 .. n /\ n # 1
        BY <1>3, <2>2 DEF n
      <4>2. n > 1
        BY <4>1
      <4>3. QED
        BY <4>2 DEF n
    <3>2. Elem.members[1].type = "RELATION"
      BY <1>12, <3>1 DEF HasCell
    <3>3. m.id = id
      BY <1>8, <2>2
    <3>4. m.element_type = "RELATION" /\ ~(m.id < 0)
      BY <1>5, <1>8, <3>2, <3>3
    <3>5. QED
      BY <3>4 DEF get_grid_cell_for_relation, m
  <2>3. QED
    BY <2>1, <2>2
<1>13. QED
  BY <1>11, <1>12

\* Steps that leave the lists alone.
LEMMA SameOrders ==
  ASSUME IType, IType', Ordered, KeepsLists
  PROVE  Ordered'
<1>1. PICK S : Orders(S)
  BY DEF Ordered
<1>2. /\ input' = input /\ head_relation' = head_relation /\ at \in Nat \ {0}
      /\ \A r \in RelIds : relations'[r].next = relations[r].next
  BY InputFacts DEF KeepsLists
<1>3. \A i : Placed(i)' <=> Placed(i)
  BY <1>2 DEF Placed
<1>4. ASSUME NEW i  PROVE i \in 1 .. at' - 1 /\ Placed(i) <=> i \in 1 .. at - 1 /\ Placed(i)
  <2>1. CASE at' = at
    BY <2>1
  <2>2. CASE at' = at + 1 /\ ~ListAt(at, Elem.id)
    <3>1. ~(at \in 1 .. Len(input) /\ Placed(at))
      <4>1. SUFFICES ASSUME at \in 1 .. Len(input), Placed(at)  PROVE FALSE
        OBVIOUS
      <4>2. input[at].members # <<>>
        <5>1. input[at].type = "RELATION" /\ Len(input[at].members) > 1
          BY <4>1 DEF Placed, HasCell
        <5>2. input[at] \in RelElems
          BY <4>1, <5>1, InputFacts DEF Elements, NodeElems, WayElems, RelElems
        <5>3. QED
          BY <5>1
      <4>3. QED
        BY <2>2, <4>1, <4>2 DEF ListAt, Elem, Placed
    <3>2. at' - 1 = at
      BY <1>2, <2>2
    <3>3. at \in 1 .. Len(input)
      <4> DEFINE b == at'
      <4>1. b = at + 1 /\ b \in 1 .. Len(input) + 1 /\ Len(input) \in Nat
        BY <1>2, <2>2, InputFacts DEF IType, LoaderType
      <4> HIDE DEF b
      <4>2. QED
        BY <1>2, <4>1
    <3>4. QED
      BY <1>2, <3>1, <3>2, <3>3
  <2>3. QED
    BY <2>1, <2>2 DEF KeepsLists
<1>5. OrdersGiven(S)'
  BY <1>1, <1>2, <1>3, <1>4 DEF Orders, OrdersGiven
<1>6. \A c \in Cells : \A k \in 1 .. Len(S[c]) : S[c][k] \in RelIds
  <2>1. \A c \in Cells : S[c] \in Seq(RelIds \ {0})
    BY <1>1 DEF Orders, OrdersHeads
  <2>2. QED
    BY <2>1, ElementOfSeq
<1>7. OrdersNext(S)'
  BY <1>1, <1>2, <1>6 DEF Orders, OrdersNext
<1>8. OrdersHeads(S)' /\ OncePlaced(S)'
  BY <1>1, <1>2 DEF Orders, OrdersHeads, OncePlaced
<1>9. relations'[0].next = 0
  BY <1>2, LimitAssumption DEF Ordered, RelIds
<1>10. QED
  BY <1>5, <1>7, <1>8, <1>9 DEF Orders, Ordered

\* The next of a relation that is in no list yet.
LEMMA NextOrdered ==
  ASSUME IType, MembersStored, GivenIds, Ordered, SetRelationNext
  PROVE  Ordered'
<1>0. PICK e : e = Elem.id
  OBVIOUS
<1>1. PICK S : Orders(S)
  BY DEF Ordered
<1>2. /\ at \in 1 .. Len(input) /\ e \in RelIds \ {0} /\ pc = "next" /\ Elem = input[at]
  BY <1>0, BeingLinked DEF SetRelationNext, Elem
<1>3. /\ input' = input /\ head_relation' = head_relation
      /\ \/ at' = at
         \/ at' = at + 1 /\ get_grid_cell_for_relation(Elem.id) = NoCell
      /\ \E v : relations' = [relations EXCEPT ![e].next = v]
  BY <1>0 DEF SetRelationNext, NextElement, Continue
<1>4. \A q \in RelIds \ {e} : relations'[q].next = relations[q].next
  <2>1. PICK v : relations' = [relations EXCEPT ![e].next = v]
    BY <1>3
  <2>2. QED
    BY <1>2, <2>1 DEF IType, FilesType, RelRec
<1>5. \A i : Placed(i)' <=> Placed(i)
  BY <1>3 DEF Placed
<1>6. ASSUME NEW i  PROVE i \in 1 .. at' - 1 /\ Placed(i) <=> i \in 1 .. at - 1 /\ Placed(i)
  <2>1. CASE at' = at
    BY <2>1
  <2>2. CASE at' = at + 1 /\ get_grid_cell_for_relation(Elem.id) = NoCell
    <3>1. NoCell \notin Cells
      BY DEF NoCell, Cells
    <3>2. ~HasCell(Elem)
      BY <1>2, <2>2, <3>1, CellIsHad
    <3>3. ~Placed(at)
      BY <1>2, <3>2 DEF Placed
    <3>4. at' - 1 = at
      BY <1>2, <2>2
    <3>5. QED
      BY <1>2, <3>3, <3>4
  <2>3. QED
    BY <1>3, <2>1, <2>2
<1>7. OrdersGiven(S)'
  BY <1>1, <1>3, <1>5, <1>6 DEF Orders, OrdersGiven
<1>8. \A c \in Cells : \A k \in 1 .. Len(S[c]) : S[c][k] \in RelIds \ {e}
  BY <1>0, <1>1, <1>2, NotPlaced
<1>9. OrdersNext(S)'
  BY <1>1, <1>4, <1>8 DEF Orders, OrdersNext
<1>10. OrdersHeads(S)' /\ OncePlaced(S)'
  BY <1>1, <1>3 DEF Orders, OrdersHeads, OncePlaced
<1>11. relations'[0].next = 0
  BY <1>2, <1>4, LimitAssumption DEF Ordered, RelIds
<1>12. QED
  BY <1>7, <1>9, <1>10, <1>11 DEF Orders, Ordered

\* A relation becomes the head of its cell's list: it is put at the end.
LEMMA HeadOrdered ==
  ASSUME IType, IType', Linking, MembersStored, GivenIds, Ordered, SetRelationHead
  PROVE  Ordered'
<1>0. PICK e : e = Elem.id
  OBVIOUS
<1>1. PICK S : Orders(S)
  BY DEF Ordered
<1>2. PICK cell : cell = get_grid_cell_for_relation(Elem.id)
  OBVIOUS
<1>3. /\ at \in 1 .. Len(input) /\ e \in RelIds \ {0} /\ pc = "head" /\ Elem = input[at]
      /\ Elem.type = "RELATION" /\ at \in Nat
  BY <1>0, BeingLinked, InputFacts DEF SetRelationHead, Elem
<1>4. cell \in Cells /\ relations[e].next = head_relation[cell]
  BY <1>0, <1>2, <1>3 DEF Linking
<1>5. HasCell(Elem)
  <2>1. NoCell \notin Cells
    BY DEF NoCell, Cells
  <2>2. QED
    BY <1>2, <1>3, <1>4, <2>1, CellIsHad
<1>6. /\ input' = input /\ at' = at + 1 /\ relations' = relations
      /\ head_relation' = [head_relation EXCEPT ![cell] = e]
  BY <1>0, <1>2 DEF SetRelationHead, NextElement
<1>7. /\ head_relation'[cell] = e
      /\ \A c \in Cells : c # cell => head_relation'[c] = head_relation[c]
  BY <1>4, <1>6 DEF IType, FilesType
<1> DEFINE S2 == [c \in Cells |-> IF c = cell THEN Append(S[c], e) ELSE S[c]]
           m == Len(S[cell])
<1>8. \A c \in Cells : S[c] \in Seq(RelIds \ {0}) /\ Len(S[c]) \in Nat
  BY <1>1 DEF Orders, OrdersHeads
<1>9. S2[cell] = Append(S[cell], e) /\ \A c \in Cells : c # cell => S2[c] = S[c]
  BY <1>4
<1> HIDE DEF S2
<1>10. /\ S2[cell] \in Seq(RelIds \ {0}) /\ Len(S2[cell]) = m + 1 /\ m \in Nat
       /\ S2[cell][m + 1] = e /\ \A k \in 1 .. m : S2[cell][k] = S[cell][k]
       /\ S2[cell] # <<>>
  BY <1>3, <1>4, <1>8, <1>9
<1>11. \A c \in Cells : \A k \in 1 .. Len(S[c]) : S[c][k] # e
  BY <1>0, <1>1, <1>3, NotPlaced
\* Every place is an old one or the new one.
<1>12. ASSUME NEW c \in Cells, NEW k \in 1 .. Len(S2[c])
       PROVE  \/ k \in 1 .. Len(S[c]) /\ S2[c][k] = S[c][k]
              \/ c = cell /\ k = m + 1 /\ S2[c][k] = e
  <2>1. CASE c = cell
    <3>1. k \in 1 .. m \/ k = m + 1
      BY <1>10, <1>12, <2>1
    <3>2. QED
      BY <1>10, <2>1, <3>1
  <2>2. CASE c # cell
    BY <1>9, <1>12, <2>2
  <2>3. QED
    BY <2>1, <2>2
<1>13. ASSUME NEW c \in Cells, NEW k \in 1 .. Len(S[c])
       PROVE  k \in 1 .. Len(S2[c]) /\ S2[c][k] = S[c][k]
  <2>1. CASE c = cell
    <3>1. k \in 1 .. m /\ k \in 1 .. m + 1
      BY <1>10, <2>1
    <3>2. QED
      BY <1>10, <2>1, <3>1
  <2>2. CASE c # cell
    BY <1>9, <2>2
  <2>3. QED
    BY <2>1, <2>2
<1>14. OrdersHeads(S2)'
  <2>1. ASSUME NEW c \in Cells
        PROVE  /\ S2[c] \in Seq(RelIds \ {0})
               /\ head_relation'[c] = IF S2[c] = <<>> THEN 0 ELSE S2[c][Len(S2[c])]
    <3>1. CASE c = cell
      BY <1>7, <1>10, <3>1
    <3>2. CASE c # cell
      BY <1>1, <1>7, <1>9, <3>2 DEF Orders, OrdersHeads
    <3>3. QED
      BY <3>1, <3>2
  <2>2. QED
    BY <2>1 DEF OrdersHeads
<1>15. OrdersNext(S2)'
  <2>1. ASSUME NEW c \in Cells, NEW k \in 1 .. Len(S2[c])
        PROVE  relations[S2[c][k]].next = IF k = 1 THEN 0 ELSE S2[c][k - 1]
    <3>1. CASE k \in 1 .. Len(S[c]) /\ S2[c][k] = S[c][k]
      <4>1. relations[S[c][k]].next = IF k = 1 THEN 0 ELSE S[c][k - 1]
        BY <1>1, <3>1 DEF Orders, OrdersNext
      <4>2. k # 1 => k - 1 \in 1 .. Len(S[c])
        BY <1>8, <3>1
      <4>3. QED
        BY <1>13, <3>1, <4>1, <4>2
    <3>2. CASE c = cell /\ k = m + 1 /\ S2[c][k] = e
      <4>1. head_relation[cell] = IF S[cell] = <<>> THEN 0 ELSE S[cell][m]
        BY <1>1, <1>4 DEF Orders, OrdersHeads
      <4>2. CASE m = 0
        <5>1. S[cell] = <<>>
          BY <1>4, <1>8, <4>2, EmptySeq
        <5>2. k = 1
          BY <3>2, <4>2
        <5>3. QED
          BY <1>4, <3>2, <4>1, <5>1, <5>2
      <4>3. CASE m # 0
        <5>1. S[cell] # <<>> /\ k # 1 /\ k - 1 = m /\ m \in 1 .. m
          BY <1>8, <1>10, <3>2, <4>3
        <5>2. S2[cell][m] = S[cell][m]
          BY <1>10, <5>1
        <5>3. QED
          BY <1>4, <3>2, <4>1, <5>1, <5>2
      <4>4. QED
        BY <4>2, <4>3
    <3>3. QED
      BY <1>12, <3>1, <3>2
  <2>2. QED
    BY <1>6, <2>1 DEF OrdersNext
<1>16. \A i : Placed(i)' <=> Placed(i)
  BY <1>6 DEF Placed
<1>17. /\ \A i : i \in 1 .. at' - 1 <=> i \in 1 .. at - 1 \/ i = at
       /\ Placed(at) /\ input[at].id = e
  <2>1. at' - 1 = at
    BY <1>3, <1>6
  <2>2. QED
    BY <1>0, <1>3, <1>5, <2>1 DEF Placed
<1>18. OrdersGiven(S2)'
  <2>1. ASSUME NEW c \in Cells, NEW k \in 1 .. Len(S2[c])
        PROVE  \E i \in 1 .. at' - 1 : Placed(i)' /\ input'[i].id = S2[c][k]
    <3>1. CASE k \in 1 .. Len(S[c]) /\ S2[c][k] = S[c][k]
      BY <1>1, <1>6, <1>16, <1>17, <3>1 DEF Orders, OrdersGiven
    <3>2. CASE c = cell /\ k = m + 1 /\ S2[c][k] = e
      BY <1>6, <1>16, <1>17, <3>2
    <3>3. QED
      BY <1>12, <3>1, <3>2
  <2>2. ASSUME NEW i \in 1 .. at' - 1, Placed(i)'
        PROVE  \E c \in Cells : \E k \in 1 .. Len(S2[c]) : S2[c][k] = input'[i].id
    <3>1. CASE i \in 1 .. at - 1
      <4>1. PICK c \in Cells : \E k \in 1 .. Len(S[c]) : S[c][k] = input[i].id
        BY <1>1, <1>16, <2>2, <3>1 DEF Orders, OrdersGiven
      <4>2. QED
        BY <1>6, <1>13, <4>1
    <3>2. CASE i = at
      <4>1. m + 1 \in 1 .. Len(S2[cell])
        BY <1>10
      <4>2. QED
        BY <1>4, <1>6, <1>10, <1>17, <3>2, <4>1
    <3>3. QED
      BY <1>17, <2>2, <3>1, <3>2
  <2>3. QED
    BY <2>1, <2>2 DEF OrdersGiven
<1>19. OncePlaced(S2)
  <2>1. ASSUME NEW c \in Cells, NEW d \in Cells,
               NEW k \in 1 .. Len(S2[c]), NEW j \in 1 .. Len(S2[d]), S2[c][k] = S2[d][j]
        PROVE  c = d /\ k = j
    <3>1. \/ k \in 1 .. Len(S[c]) /\ S2[c][k] = S[c][k]
          \/ c = cell /\ k = m + 1 /\ S2[c][k] = e
      BY <1>12
    <3>2. \/ j \in 1 .. Len(S[d]) /\ S2[d][j] = S[d][j]
          \/ d = cell /\ j = m + 1 /\ S2[d][j] = e
      BY <1>12
    <3>3. QED
      BY <1>1, <1>11, <2>1, <3>1, <3>2 DEF Orders, OncePlaced
  <2>2. QED
    BY <2>1 DEF OncePlaced
<1>20. relations'[0].next = 0
  BY <1>6 DEF Ordered
<1>21. OncePlaced(S2)'
  BY <1>19 DEF OncePlaced
<1>22. QED
  BY <1>14, <1>15, <1>18, <1>20, <1>21 DEF Orders, Ordered

LEMMA SameOrdered ==
  ASSUME Ordered, UNCHANGED <<loader, counters, files>>
  PROVE  Ordered'
<1>1. input' = input /\ at' = at /\ relations' = relations /\ head_relation' = head_relation
  BY DEF loader, files
<1>2. PICK S : Orders(S)
  BY DEF Ordered
<1>3. \A i : Placed(i)' <=> Placed(i)
  BY <1>1 DEF Placed
<1>4. Orders(S)'
  <2>1. OrdersHeads(S)'
    BY <1>1, <1>2 DEF Orders, OrdersHeads
  <2>2. OrdersNext(S)'
    BY <1>1, <1>2 DEF Orders, OrdersNext
  <2>3. OrdersGiven(S)'
    BY <1>1, <1>2, <1>3 DEF Orders, OrdersGiven
  <2>4. OncePlaced(S)'
    BY <1>2 DEF Orders, OncePlaced
  <2>5. QED
    BY <2>1, <2>2, <2>3, <2>4 DEF Orders
<1>5. QED
  BY <1>1, <1>4 DEF Ordered

LEMMA OrdersKept ==
  GivenIds /\ IInv /\ IInv' /\ FilesKept /\ Ordered /\ [Next]_vars => Ordered'
<1> SUFFICES ASSUME GivenIds, IType, IType', Stored, MembersStored, Ordered, [Next]_vars
             PROVE  Ordered'
  BY DEF IInv, FilesKept
<1>1. CASE SetRelationNext \/ SetRelationHead
  BY <1>1, NextOrdered, HeadOrdered DEF Stored
<1>2. CASE (Load \/ Kill) /\ ~(SetRelationNext \/ SetRelationHead)
  <2>1. KeepsLists
    BY <1>2, QuietLoad, QuietRelation, QuietTags, NodeStored, WayIndexed
       DEF Load, Quiet, Stored
  <2>2. QED
    BY <2>1, SameOrders
<1>3. QED
  BY <1>1, <1>2, SameOrdered, OtherSteps

-----------------------------------------------------------------------------
(* What can be reached from the heads.                                     *)

\* The relation k places from the end of a list, 0 past its beginning.
Down(s, k) == IF k < Len(s) THEN s[Len(s) - k] ELSE 0

\* One step of the list is one step of Link.
LEMMA DownNext ==
  ASSUME IType, relations[0].next = 0, NEW S, Orders(S), NEW c \in Cells
  PROVE  /\ Down(S[c], 0) = head_relation[c]
         /\ \A j \in Nat \ {0} : Down(S[c], j) = relations[Down(S[c], j - 1)].next
<1> DEFINE s == S[c]
           n == Len(s)
<1>1. /\ s \in Seq(RelIds \ {0}) /\ n \in Nat
      /\ head_relation[c] = IF s = <<>> THEN 0 ELSE s[n]
      /\ \A k \in 1 .. n : relations[s[k]].next = IF k = 1 THEN 0 ELSE s[k - 1]
  BY DEF Orders, OrdersHeads, OrdersNext
<1>2. s = <<>> <=> n = 0
  BY <1>1, EmptySeq
<1> HIDE DEF n
<1>3. Down(s, 0) = head_relation[c]
  <2>1. n - 0 = n /\ (0 < n <=> n # 0)
    BY <1>1
  <2>2. QED
    BY <1>1, <1>2, <2>1 DEF Down, n
<1>4. ASSUME NEW j \in Nat \ {0}  PROVE Down(s, j) = relations[Down(s, j - 1)].next
  <2>1. CASE j - 1 < n
    <3>1. /\ n - (j - 1) \in 1 .. n /\ n - (j - 1) - 1 = n - j
          /\ (n - (j - 1) = 1 <=> ~(j < n))
      BY <1>1, <2>1
    <3>2. Down(s, j - 1) = s[n - (j - 1)]
      BY <2>1 DEF Down, n
    <3>3. relations[s[n - (j - 1)]].next = IF n - (j - 1) = 1 THEN 0 ELSE s[n - (j - 1) - 1]
      BY <1>1, <3>1
    <3>4. Down(s, j) = IF j < n THEN s[n - j] ELSE 0
      BY DEF Down, n
    <3>5. QED
      BY <3>1, <3>2, <3>3, <3>4
  <2>2. CASE ~(j - 1 < n)
    <3>1. ~(j < n)
      BY <1>1, <2>2
    <3>2. QED
      BY <2>2, <3>1 DEF Down, n
  <2>3. QED
    BY <2>1, <2>2
<1>5. QED
  BY <1>3, <1>4

\* Link goes down the list of its cell, and stays at 0 past its end.
LEMMA LinkGoesDown ==
  ASSUME IType, relations[0].next = 0, NEW S, Orders(S), NEW c \in Cells, NEW k \in Nat
  PROVE  Link(c, k) = Down(S[c], k)
<1> DEFINE Step(g) == [j \in 0 .. k |-> IF j = 0 THEN head_relation[c]
                                        ELSE relations[g[j - 1]].next]
           f == CHOOSE g : g = Step(g)
           d == [j \in 0 .. k |-> Down(S[c], j)]
<1>1. \A j \in 0 .. k : j # 0 => j - 1 \in 0 .. k /\ j \in Nat \ {0}
  OBVIOUS
<1>2. \A j \in 0 .. k : d[j] = IF j = 0 THEN head_relation[c] ELSE relations[d[j - 1]].next
  BY <1>1, DownNext
<1>3. d = Step(d)
  BY <1>2
<1>4. f = Step(f)
  BY <1>3
<1>5. Link(c, k) = f[k]
  BY DEF Link
<1> HIDE DEF f
<1>6. \A j \in 0 .. k : f[j] = IF j = 0 THEN head_relation[c] ELSE relations[f[j - 1]].next
  BY <1>4
<1> DEFINE Same == {j \in Nat : j =< k => f[j] = d[j]}
<1> HIDE DEF d
<1>7. 0 \in Same
  <2>1. 0 \in 0 .. k
    OBVIOUS
  <2>2. QED
    BY <1>2, <1>6, <2>1
<1>8. ASSUME NEW j \in Nat, j \in Same  PROVE j + 1 \in Same
  <2> SUFFICES ASSUME j + 1 =< k  PROVE f[j + 1] = d[j + 1]
    OBVIOUS
  <2>1. j + 1 \in 0 .. k /\ j + 1 # 0 /\ (j + 1) - 1 = j /\ j =< k
    OBVIOUS
  <2>2. f[j] = d[j]
    BY <1>8, <2>1
  <2>3. QED
    BY <1>2, <1>6, <2>1, <2>2
<1> HIDE DEF Same
<1>9. Nat \subseteq Same
  BY <1>7, <1>8, Keeping!InductiveSet
<1>10. f[k] = d[k]
  <2>1. k \in Same
    BY <1>9
  <2>2. QED
    BY <2>1 DEF Same
<1>11. d[k] = Down(S[c], k)
  BY DEF d
<1>12. QED
  BY <1>5, <1>10, <1>11

\* A list has at most one place for every id.
LEMMA ListsFit ==
  ASSUME NEW S, Orders(S), NEW c \in Cells
  PROVE  Len(S[c]) \in Nat /\ Len(S[c]) =< MAX_REL_ID
<1> DEFINE s == S[c]
           n == Len(s)
<1>1. s \in Seq(RelIds \ {0}) /\ n \in Nat
  BY DEF Orders, OrdersHeads
<1>2. MAX_REL_ID \in Nat \ {0} /\ RelIds = 0 .. MAX_REL_ID - 1
  BY LimitAssumption DEF RelIds
<1>3. IsFiniteSet(1 .. n) /\ Cardinality(1 .. n) = n
  <2>1. 1 \in Int /\ n \in Int
    BY <1>1
  <2>2. IsFiniteSet(1 .. n) /\ Cardinality(1 .. n) = IF 1 > n THEN 0 ELSE n - 1 + 1
    BY <2>1, FS_Interval
  <2> HIDE DEF n
  <2>3. QED
    BY <1>1, <2>2
<1>4. IsFiniteSet(RelIds) /\ Cardinality(RelIds) = MAX_REL_ID
  <2>1. 0 \in Int /\ MAX_REL_ID - 1 \in Int
    BY <1>2
  <2>2. /\ IsFiniteSet(0 .. MAX_REL_ID - 1)
        /\ Cardinality(0 .. MAX_REL_ID - 1) =
             IF 0 > MAX_REL_ID - 1 THEN 0 ELSE (MAX_REL_ID - 1) - 0 + 1
    BY <2>1, FS_Interval
  <2>3. QED
    BY <1>2, <2>2
<1> HIDE DEF n
<1> SUFFICES ASSUME n > MAX_REL_ID  PROVE FALSE
  BY <1>1, <1>2 DEF n
<1>5. s \in [1 .. n -> RelIds]
  <2>1. s \in [1 .. n -> RelIds \ {0}]
    BY <1>1, LenProperties DEF n
  <2>2. QED
    BY <2>1
<1>6. \A x, y \in 1 .. n : s[x] = s[y] => x = y
  BY DEF Orders, OncePlaced, n
<1>7. \E x, y \in 1 .. n : x # y /\ s[x] = s[y]
  <2> HIDE DEF s
  <2>1. QED
    BY <1>1, <1>2, <1>3, <1>4, <1>5, FS_PigeonHole
<1>8. QED
  BY <1>6, <1>7

\* Where a relation is linked, as the lists say.
LEMMA LinkedPlaces ==
  ASSUME IType, relations[0].next = 0, NEW S, Orders(S), NEW r, r # 0
  PROVE  LinkedAt(r) =
           {p \in Cells \X (0 .. MAX_REL_ID) :
              p[2] < Len(S[p[1]]) /\ S[p[1]][Len(S[p[1]]) - p[2]] = r}
<1> SUFFICES ASSUME NEW p \in Cells \X (0 .. MAX_REL_ID)
             PROVE  Link(p[1], p[2]) = r <=>
                      p[2] < Len(S[p[1]]) /\ S[p[1]][Len(S[p[1]]) - p[2]] = r
  BY DEF LinkedAt
<1>1. p[1] \in Cells /\ p[2] \in Nat
  BY LimitAssumption
<1>2. Link(p[1], p[2]) = Down(S[p[1]], p[2])
  BY <1>1, LinkGoesDown
<1>3. QED
  BY <1>2 DEF Down

\* The relations that can be reached are those with a cell, each in one place.
LEMMA LinkedOnce ==
  ASSUME IType, relations[0].next = 0, NEW S, Orders(S), NEW i \in 1 .. at - 1, Placed(i)
  PROVE  Cardinality(LinkedAt(input[i].id)) = 1 /\ LinkedAt(input[i].id) # {}
         /\ input[i].id \in RelIds \ {0}
<1> DEFINE r == input[i].id
<1>1. PICK c \in Cells : \E k \in 1 .. Len(S[c]) : S[c][k] = r
  BY DEF Orders, OrdersGiven
<1>2. PICK k \in 1 .. Len(S[c]) : S[c][k] = r
  BY <1>1
<1>3. r \in RelIds \ {0}
  BY <1>2, ElementOfSeq DEF Orders, OrdersHeads
<1> HIDE DEF r
<1> DEFINE n == Len(S[c])
<1>4. n \in Nat /\ n =< MAX_REL_ID /\ MAX_REL_ID \in Nat
  BY ListsFit, LimitAssumption
<1>5. k \in 1 .. n
  BY <1>2
<1>6. n - k \in 0 .. MAX_REL_ID /\ n - k < n /\ n - (n - k) = k
  <2> HIDE DEF n
  <2>1. QED
    BY <1>4, <1>5
<1>7. <<c, n - k>> \in LinkedAt(r)
  BY <1>2, <1>3, <1>6, LinkedPlaces
<1>8. ASSUME NEW p \in LinkedAt(r)  PROVE p = <<c, n - k>>
  <2> DEFINE d == p[1]
             j == p[2]
             m == Len(S[d])
  <2>1. /\ d \in Cells /\ j \in 0 .. MAX_REL_ID /\ p = <<d, j>>
        /\ j < m /\ S[d][m - j] = r
    BY <1>3, <1>8, LinkedPlaces
  <2>2. m \in Nat /\ j \in Nat
    BY <2>1, ListsFit, LimitAssumption
  <2> HIDE DEF d, j
  <2>3. m - j \in 1 .. m
    <3> HIDE DEF m
    <3>1. QED
      BY <2>1, <2>2
  <2>4. d = c /\ m - j = k
    <3> DEFINE x == m - j
    <3>1. \A y \in 1 .. Len(S[d]) : \A z \in 1 .. Len(S[c]) :
            S[d][y] = S[c][z] => d = c /\ y = z
      BY <2>1 DEF Orders, OncePlaced
    <3>2. x \in 1 .. Len(S[d]) /\ k \in 1 .. Len(S[c])
      BY <2>3
    <3>3. S[d][x] = S[c][k]
      BY <1>2, <2>1
    <3> HIDE DEF x
    <3>4. d = c /\ x = k
      BY <3>1, <3>2, <3>3
    <3>5. QED
      BY <3>4 DEF x
  <2>5. m = n
    BY <2>4
  <2> HIDE DEF m, n
  <2>6. j = n - k
    BY <1>4, <1>5, <2>2, <2>4, <2>5
  <2>7. QED
    BY <2>1, <2>4, <2>6
<1>9. LinkedAt(r) = {<<c, n - k>>}
  BY <1>7, <1>8
<1>10. Cardinality({<<c, n - k>>}) = 1
  BY FS_Singleton
<1>11. QED
  BY <1>3, <1>7, <1>9, <1>10 DEF r

LEMMA LinkedIsPlaced ==
  ASSUME IType, relations[0].next = 0, NEW S, Orders(S), NEW r \in VisibleRels
  PROVE  \E i \in 1 .. at - 1 : Placed(i) /\ input[i].id = r
<1>1. r # 0 /\ LinkedAt(r) # {}
  BY DEF VisibleRels
<1>2. PICK p \in Cells \X (0 .. MAX_REL_ID) :
        p[2] < Len(S[p[1]]) /\ S[p[1]][Len(S[p[1]]) - p[2]] = r
  BY <1>1, LinkedPlaces
<1> DEFINE n == Len(S[p[1]])
<1>3. p[1] \in Cells /\ p[2] \in Nat /\ n \in Nat /\ p[2] < n
  BY <1>2, ListsFit, LimitAssumption
<1>4. n - p[2] \in 1 .. n
  <2> HIDE DEF n
  <2>1. QED
    BY <1>3
<1>5. QED
  BY <1>2, <1>3, <1>4 DEF Orders, OrdersGiven

-----------------------------------------------------------------------------
(* A reader sees a prefix.                                                 *)

\* How far the files go: the element being handled is seen when it is a way
\* that has been put into its cell.
Seen == IF at =< Len(input) /\ Elem.type = "WAY" /\ Elem.id \in VisibleWays
        THEN at ELSE at - 1

LEMMA SeenIs ==
  ASSUME IType
  PROVE  /\ Seen \in 0 .. Len(input) /\ at - 1 \in 0 .. Len(input)
         /\ \A i \in 1 .. Seen : i \in 1 .. Len(input)
         /\ \A i \in 1 .. Seen : i < at \/ (i = at /\ input[i].type = "WAY"
                                                   /\ input[i].id \in VisibleWays)
         /\ \A i \in 1 .. Len(input) : i < at => i \in 1 .. Seen
         /\ \A i \in 1 .. at - 1 : i \in 1 .. Len(input) /\ i \in 1 .. Seen /\ i < at
<1>1. Len(input) \in Nat /\ at \in 1 .. Len(input) + 1 /\ at \in Nat
  BY InputFacts
<1>2. CASE at =< Len(input) /\ Elem.type = "WAY" /\ Elem.id \in VisibleWays
  BY <1>1, <1>2 DEF Seen, Elem
<1>3. CASE ~(at =< Len(input) /\ Elem.type = "WAY" /\ Elem.id \in VisibleWays)
  BY <1>1, <1>3 DEF Seen
<1>4. QED
  BY <1>2, <1>3

\* A way that is seen is in the cell of its first node.
LEMMA WaySeen ==
  ASSUME IType, WaysIndexed, NEW i \in 1 .. Seen, input[i].type = "WAY"
  PROVE  /\ CellIn(input, input[i].refs[1]) \in Cells
         /\ input[i].id \in cell_ways[CellIn(input, input[i].refs[1])]
<1>1. i \in 1 .. Len(input) /\ (i < at \/ (i = at /\ input[i].id \in VisibleWays))
  BY SeenIs
<1>2. CoordIn(input, input[i].refs[1]) \in Points
  BY CoordInPoints
<1>3. CellIn(input, input[i].refs[1]) \in Cells
  BY <1>2, CellType DEF CellIn, Points, Coords
<1>4. CASE i < at
  BY <1>1, <1>3, <1>4 DEF WaysIndexed, Indexed
<1>5. CASE i = at /\ input[i].id \in VisibleWays
  <2>1. PICK c \in Cells : input[i].id \in cell_ways[c]
    BY <1>5 DEF VisibleWays
  <2>2. PICK j \in 1 .. Len(input) : /\ input[j].type = "WAY" /\ input[j].id = input[i].id
                                     /\ c = CellIn(input, input[j].refs[1])
    BY <2>1 DEF WaysIndexed
  <2>3. j = i
    BY <1>1, <2>2, InputFacts, InputOrder
  <2>4. QED
    BY <1>3, <2>1, <2>2, <2>3
<1>6. QED
  BY <1>1, <1>4, <1>5

\* The ways of the cells are those seen.
LEMMA WaysSeen ==
  ASSUME IType, WaysIndexed
  PROVE  VisibleWays = IdsOf(Prefix(Seen, "WAY"))
<1>1. ASSUME NEW w \in VisibleWays  PROVE w \in IdsOf(Prefix(Seen, "WAY"))
  <2>1. PICK c \in Cells : w \in cell_ways[c]
    BY DEF VisibleWays
  <2>2. PICK i \in 1 .. Len(input) : Past(i) /\ input[i].type = "WAY" /\ input[i].id = w
    BY <2>1 DEF WaysIndexed
  <2>3. i \in 1 .. Seen
    <3>1. CASE i < at
      BY <3>1, SeenIs
    <3>2. CASE i = at
      <4>1. Elem.type = "WAY" /\ Elem.id \in VisibleWays /\ at \in 1 .. Len(input)
        BY <2>2, <3>2 DEF Elem
      <4>2. Seen = at
        BY <4>1, InputFacts DEF Seen
      <4>3. QED
        BY <3>2, <4>1, <4>2, InputFacts
    <3>3. QED
      BY <2>2, <3>1, <3>2 DEF Past
  <2>4. input[i] \in Prefix(Seen, "WAY")
    BY <2>2, <2>3 DEF Prefix
  <2>5. QED
    BY <2>2, <2>4 DEF IdsOf
<1>2. ASSUME NEW w \in IdsOf(Prefix(Seen, "WAY"))  PROVE w \in VisibleWays
  <2>1. PICK i \in 1 .. Seen : input[i].type = "WAY" /\ input[i].id = w
    BY DEF IdsOf, Prefix
  <2>2. QED
    BY <2>1, WaySeen DEF VisibleWays
<1>3. QED
  BY <1>1, <1>2

\* The relations that can be reached are those seen that have a cell.
LEMMA RelationsSeen ==
  ASSUME IType, Ordered
  PROVE  /\ VisibleRels = IdsOf({e \in Prefix(Seen, "RELATION") : HasCell(e)})
         /\ \A i \in 1 .. Seen : Placed(i) => Cardinality(LinkedAt(input[i].id)) = 1
<1>0. relations[0].next = 0
  BY DEF Ordered
<1> PICK S : Orders(S)
  BY DEF Ordered
<1>1. ASSUME NEW i \in 1 .. Seen, Placed(i)  PROVE i \in 1 .. at - 1
  <2>1. i < at /\ i \in 1 .. Len(input)
    BY <1>1, SeenIs DEF Placed
  <2>2. QED
    BY <2>1, InputFacts
<1>2. ASSUME NEW r \in VisibleRels
      PROVE  r \in IdsOf({e \in Prefix(Seen, "RELATION") : HasCell(e)})
  <2>1. PICK i \in 1 .. at - 1 : Placed(i) /\ input[i].id = r
    BY <1>0, LinkedIsPlaced
  <2>2. i \in 1 .. Seen
    BY SeenIs
  <2>3. input[i] \in Prefix(Seen, "RELATION") /\ HasCell(input[i])
    BY <2>1, <2>2 DEF Placed, Prefix
  <2>4. QED
    BY <2>1, <2>3 DEF IdsOf
<1>3. ASSUME NEW r \in IdsOf({e \in Prefix(Seen, "RELATION") : HasCell(e)})
      PROVE  r \in VisibleRels
  <2>1. PICK i \in 1 .. Seen : Placed(i) /\ input[i].id = r
    BY DEF IdsOf, Prefix, Placed
  <2>2. QED
    BY <1>0, <1>1, <2>1, LinkedOnce DEF VisibleRels
<1>4. \A i \in 1 .. Seen : Placed(i) => Cardinality(LinkedAt(input[i].id)) = 1
  BY <1>0, <1>1, LinkedOnce
<1>5. QED
  BY <1>2, <1>3, <1>4

LEMMA NodeSeen ==
  ASSUME IType, NodesStored, NEW e \in Prefix(Seen, "NODE")
  PROVE  StoredNode(e)
<1>1. PICK i \in 1 .. Seen : input[i] = e /\ e.type = "NODE"
  BY DEF Prefix
<1>2. i \in 1 .. Len(input) /\ i < at
  BY <1>1, SeenIs
<1>3. QED
  BY <1>1, <1>2 DEF NodesStored, StoredNode

LEMMA WayStored ==
  ASSUME IType, Stored, RefsStored, GivenIds, NoEmptyWay, NEW e \in Prefix(Seen, "WAY")
  PROVE  StoredWay(e)
<1>1. PICK i \in 1 .. Seen : input[i] = e /\ e.type = "WAY"
  BY DEF Prefix
<1> DEFINE c == CellIn(input, e.refs[1])
<1>2. c \in Cells /\ e.id \in cell_ways[c]
  BY <1>1, WaySeen DEF Stored
<1>3. i \in 1 .. Len(input) /\ RefsDone(i)
  BY <1>1, <1>2, SeenIs DEF RefsDone
<1>4. /\ e \in WayElems
      /\ Ended(ways[e.id].node_ref_offset) /\ RefsAt(ways[e.id].node_ref_offset) = Refs(e)
  BY <1>1, <1>3, WayReadBack
<1>5. Refs(e)[1] = e.refs[1]
  BY <1>1, <1>3, <1>4, FirstOfWay DEF NoEmptyWay
<1>6. get_grid_cell_for_coord(CoordOf(Refs(e)[1])) = c
  BY <1>5, CoordOfIn DEF CellIn
<1>7. {d \in Cells : e.id \in cell_ways[d]} = {c}
  BY <1>2, OneCell DEF Stored
<1>8. Cardinality({d \in Cells : e.id \in cell_ways[d]}) = 1
  BY <1>7, FS_Singleton
<1>9. QED
  BY <1>2, <1>4, <1>6, <1>8 DEF StoredWay

LEMMA RelationStored ==
  ASSUME IType, MembersStored, GivenIds, Ordered, NEW e \in Prefix(Seen, "RELATION"),
         HasCell(e)
  PROVE  StoredRel(e)
<1>1. PICK i \in 1 .. Seen : input[i] = e /\ e.type = "RELATION"
  BY DEF Prefix
<1>2. i \in 1 .. Len(input) /\ i < at
  BY <1>1, SeenIs
<1>3. e.members # <<>>
  <2>1. Len(<<>>) = 0 /\ Len(e.members) > 1
    BY DEF HasCell
  <2>2. QED
    BY <2>1
<1>4. MembersDone(i)
  BY <1>1, <1>2, <1>3 DEF MembersDone
<1>5. SameMembers(Members(e), MembersAt(relations[e.id].member_offset))
  BY <1>1, <1>2, <1>4, RelationReadBack
<1>6. Cardinality(LinkedAt(e.id)) = 1
  BY <1>1, RelationsSeen DEF Placed
<1>7. QED
  BY <1>5, <1>6 DEF StoredRel

\* The tags of what is seen, but for those of the last way.
LEMMA TagsSeen ==
  ASSUME IType, TagsStored, NEW i \in 1 .. Seen
  PROVE  \/ StoredTags(input[i])
         \/ i = Seen /\ input[Seen].type = "WAY" /\ ways[input[Seen].id].tags = 0
         \/ input[i].type = "RELATION" /\ ~HasCell(input[i])
<1> DEFINE e == input[i]
<1>1. i \in 1 .. Len(input) /\ (i < at \/ (i = at /\ e.type = "WAY" /\ e.id \in VisibleWays))
  BY SeenIs
<1>2. e.type \in {"NODE", "WAY", "RELATION"}
  BY <1>1, InputFacts
<1>3. CASE e.type = "RELATION" /\ e.members = <<>>
  <2>1. ~(Len(<<>>) > 1)
    OBVIOUS
  <2>2. QED
    BY <1>3, <2>1 DEF HasCell
<1>4. CASE i < at /\ (e.type = "RELATION" => e.members # <<>>)
  <2>1. Tagged(i)
    BY <1>4 DEF Tagged
  <2> HIDE DEF e
  <2>2. SameTags(Kept(e.tags), TagsAt(e.id, e.type, TagPlace(e)))
    BY <1>1, <2>1, TagsReadAs DEF e
  <2>3. CASE e.type = "NODE"
    <3>1. TagPlace(e) = nodes[e.id].tags /\ NodeOut(e.id).tags = TagsAt(e.id, "NODE", nodes[e.id].tags)
      BY <2>3 DEF TagPlace, NodeOut
    <3>2. (CASE e.type = "NODE"     -> NodeOut(e.id).tags
             [] e.type = "WAY"      -> TagsAt(e.id, "WAY", ways[e.id].tags)
             [] e.type = "RELATION" -> TagsAt(e.id, "RELATION", relations[e.id].tags))
          = NodeOut(e.id).tags
      BY <2>3, Zenon
    <3>3. SameTags(Kept(e.tags), NodeOut(e.id).tags)
      BY <2>2, <2>3, <3>1
    <3>4. StoredTags(e)
      BY <3>2, <3>3, Zenon DEF StoredTags
    <3>5. QED
      BY <3>4 DEF e
  <2>4. CASE e.type = "WAY"
    <3>1. TagPlace(e) = ways[e.id].tags /\ e.type # "NODE"
      BY <2>4 DEF TagPlace
    <3>2. (CASE e.type = "NODE"     -> NodeOut(e.id).tags
             [] e.type = "WAY"      -> TagsAt(e.id, "WAY", ways[e.id].tags)
             [] e.type = "RELATION" -> TagsAt(e.id, "RELATION", relations[e.id].tags))
          = TagsAt(e.id, "WAY", ways[e.id].tags)
      BY <2>4, <3>1
    <3>3. SameTags(Kept(e.tags), TagsAt(e.id, "WAY", ways[e.id].tags))
      BY <2>2, <2>4, <3>1
    <3>4. StoredTags(e)
      BY <3>2, <3>3, Zenon DEF StoredTags
    <3>5. QED
      BY <3>4 DEF e
  <2>5. CASE e.type = "RELATION"
    <3>1. TagPlace(e) = relations[e.id].tags /\ e.type # "NODE" /\ e.type # "WAY"
      BY <2>5 DEF TagPlace
    <3>2. (CASE e.type = "NODE"     -> NodeOut(e.id).tags
             [] e.type = "WAY"      -> TagsAt(e.id, "WAY", ways[e.id].tags)
             [] e.type = "RELATION" -> TagsAt(e.id, "RELATION", relations[e.id].tags))
          = TagsAt(e.id, "RELATION", relations[e.id].tags)
      BY <2>5, <3>1
    <3>3. SameTags(Kept(e.tags), TagsAt(e.id, "RELATION", relations[e.id].tags))
      BY <2>2, <2>5, <3>1
    <3>4. StoredTags(e)
      BY <3>2, <3>3, Zenon DEF StoredTags
    <3>5. QED
      BY <3>4 DEF e
  <2>6. QED
    BY <1>2, <2>3, <2>4, <2>5 DEF e
<1>5. CASE i = at /\ e.type = "WAY" /\ e.id \in VisibleWays
  <2>1. e.id \in WayIds
    BY <1>5 DEF VisibleWays, IType, FilesType
  <2>2. i = Seen
    BY <1>1, <1>5, InputFacts DEF Seen, Elem
  <2>3. ASSUME NEW j \in 1 .. Len(input), j < at, input[j].type = "WAY", input[j].id = e.id
        PROVE  FALSE
    <3>1. j = i
      BY <1>1, <1>5, <2>3, InputFacts, InputOrder
    <3>2. QED
      BY <1>5, <2>3, <3>1, InputFacts
  <2>4. ways[e.id].tags = 0
    BY <2>1, <2>3 DEF TagsStored
  <2>5. QED
    BY <1>5, <2>2, <2>4
<1>6. QED
  BY <1>1, <1>3, <1>4, <1>5

LEMMA PrefixIn ==
  GivenIds /\ IInv /\ FilesKept /\ Ordered => PrefixStored
<1> SUFFICES ASSUME GivenIds, IType, Stored, TagsStored, RefsStored, MembersStored, Ordered,
                    \A e \in Given("WAY") : e.refs # <<>>
             PROVE  \E n \in 0 .. Len(input) :
    /\ VisibleWays = IdsOf(Prefix(n, "WAY"))
    /\ VisibleRels = IdsOf({e \in Prefix(n, "RELATION") : HasCell(e)})
    /\ \A e \in Prefix(n, "NODE") : StoredNode(e)
    /\ \A e \in Prefix(n, "WAY") : StoredWay(e)
    /\ \A e \in Prefix(n, "RELATION") : HasCell(e) => StoredRel(e)
    /\ \A i \in 1 .. n :
         \/ StoredTags(input[i])
         \/ i = n /\ input[n].type = "WAY" /\ ways[input[n].id].tags = 0
         \/ input[i].type = "RELATION" /\ ~HasCell(input[i])
    /\ pc = "loaded" => n = Len(input)
  BY Zenon DEF PrefixStored, IInv, FilesKept
<1>1. NoEmptyWay
  BY GivenIs DEF NoEmptyWay
<1>2. Seen \in 0 .. Len(input)
  BY SeenIs
<1>3. /\ VisibleWays = IdsOf(Prefix(Seen, "WAY"))
      /\ VisibleRels = IdsOf({e \in Prefix(Seen, "RELATION") : HasCell(e)})
  BY WaysSeen, RelationsSeen DEF Stored
<1>4. /\ \A e \in Prefix(Seen, "NODE") : StoredNode(e)
      /\ \A e \in Prefix(Seen, "WAY") : StoredWay(e)
      /\ \A e \in Prefix(Seen, "RELATION") : HasCell(e) => StoredRel(e)
  BY <1>1, NodeSeen, WayStored, RelationStored DEF Stored
<1>5. \A i \in 1 .. Seen :
        \/ StoredTags(input[i])
        \/ i = Seen /\ input[Seen].type = "WAY" /\ ways[input[Seen].id].tags = 0
        \/ input[i].type = "RELATION" /\ ~HasCell(input[i])
  BY TagsSeen
<1>6. pc = "loaded" => Seen = Len(input)
  <2> SUFFICES ASSUME pc = "loaded"  PROVE Seen = Len(input)
    OBVIOUS
  <2>1. at > Len(input)
    BY AllLoaded
  <2>2. Len(input) \in Nat /\ at \in 1 .. Len(input) + 1
    BY InputFacts
  <2>3. QED
    BY <2>1, <2>2 DEF Seen
<1>7. WITNESS Seen \in 0 .. Len(input)
<1>8. QED
  BY <1>3, <1>4, <1>5, <1>6

(* Wherever a load is killed or gives up, what the files show is a prefix  *)
(* of what it was given (vex.c:402-612): every way and relation before the *)
(* stop is reachable in one place with its references or members and its   *)
(* tags, nothing after it is, and only the last way may lack its tags.     *)
THEOREM StopsLeaveAPrefix ==
  ASSUME GivenIds
  PROVE  Spec => []PrefixStored
<1>1. IInv /\ FilesKept /\ Ordered => PrefixStored
  BY PrefixIn
<1>2. IInv /\ IInv' /\ FilesKept /\ Ordered /\ [Next]_vars => Ordered'
  BY OrdersKept
<1>3. QED
  BY <1>1, <1>2, InitOrdered, Invariants, FilesHold, PTL DEF Spec
=============================================================================
