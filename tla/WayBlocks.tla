----------------------------- MODULE WayBlocks ------------------------------
(***************************************************************************)
(* The spatial index of ways (vex.c): every grid cell heads a chain of     *)
(* fixed-size blocks of way references in a memory-mapped file.            *)
(*                                                                         *)
(* A slot of a block holds a way id, or 0 when it was never written.  The  *)
(* last slot of a block that is not full holds minus its number of free    *)
(* slots.  A new block is inserted at the head of its cell's chain.        *)
(*                                                                         *)
(* The loader runs handle_way for one way after another; each of its       *)
(* stores into the mapped files is a step, because the process can be      *)
(* killed between any two of them and the stores it made stay in the       *)
(* files.  Once the loader has stopped, an extraction scans cells slot by  *)
(* slot, as the loops of main do (VexProcesses shows that the lock keeps   *)
(* the two apart).                                                         *)
(***************************************************************************)
EXTENDS Integers

CONSTANTS
  WAY_BLOCK_SIZE,  \* slots in a block
  MAX_WAY_BLOCKS,  \* blocks the mapped file has room for; block 0 is not used
  Cells,           \* grid cells
  NoCell,
  WayIds,          \* the ways of the input, each present once
  CellOf,          \* the cell of each way's first node
  NoAnswer

ASSUME SizeAssumption ==
  WAY_BLOCK_SIZE \in Nat \ {0} /\ MAX_WAY_BLOCKS \in Nat \ {0}
ASSUME CellAssumption == NoCell \notin Cells /\ CellOf \in [WayIds -> Cells]
\* OSM ids are positive; a slot tells them from 0 and from a free count by sign.
ASSUME WayIdAssumption == WayIds \subseteq Nat \ {0}

Last   == WAY_BLOCK_SIZE - 1
Slots  == 0 .. Last
Blocks == 1 .. MAX_WAY_BLOCKS - 1

VARIABLES
  head_way_block,   \* grid->cells[.].head_way_block, 0 for an empty cell
  refs,             \* way_blocks[b].refs
  next,             \* way_blocks[b].next, 0 at the end of a chain
  way_block_count,  \* blocks in use, block 0 included (the loader's own memory)
  pc,               \* the loader's next store, or why it stopped
  way,              \* the way being handled
  wbi,              \* its cell's head block when handle_way looked it up
  wb,               \* the block that receives it
  nfree,            \* that block's free count when it was read (negative)
  ways_loaded,      \* the ways counted as loaded
  scan_cell,        \* the cell being scanned, or last scanned
  scan_block, scan_slot,  \* the scan's position; block 0 once it has ended
  scan_out,         \* the ways the scan has come to so far
  owner             \* history variable: the cell block b was linked into

files   == <<head_way_block, refs, next>>
handler == <<way, wbi, wb, nfree>>
scan    == <<scan_cell, scan_block, scan_slot, scan_out>>
vars    == <<files, handler, scan, way_block_count, pc, ways_loaded, owner>>

Init ==
  /\ head_way_block = [c \in Cells |-> 0]
  /\ refs = [b \in Blocks |-> [i \in Slots |-> 0]]
  /\ next = [b \in Blocks |-> 0]
  /\ way_block_count = 1
  /\ pc = "idle" /\ way = 0 /\ wbi = 0 /\ wb = 0 /\ nfree = 0
  /\ ways_loaded = {}
  /\ scan_cell = NoCell /\ scan_block = 0 /\ scan_slot = 0 /\ scan_out = {}
  /\ owner = [b \in Blocks |-> NoCell]

Stopped == pc \in {"done", "dead"}

-----------------------------------------------------------------------------
(* The loader: the part of handle_way that indexes a way. *)

\* The last slot holds a way id.
Full(b) == refs[b][Last] >= 0

\* Mutant of HandleWay: a full head block is taken for one with room.
HandleWayInFullBlock(w) ==
  /\ pc = "idle"
  /\ w \in WayIds \ ways_loaded
  /\ way' = w
  /\ wbi' = head_way_block[CellOf[w]]
  /\ wb' = wbi'
  /\ pc' = IF wbi' = 0 THEN "new_block" ELSE "store_ref"
  /\ UNCHANGED <<files, scan, nfree, way_block_count, ways_loaded, owner>>

\* Look up the head block of the way's cell; a missing or a full one means a
\* new block is needed.
HandleWay(w) ==
  /\ pc = "idle"
  /\ w \in WayIds \ ways_loaded
  /\ way' = w
  /\ wbi' = head_way_block[CellOf[w]]
  /\ wb' = wbi'
  /\ pc' = IF wbi' = 0 \/ Full(wbi') THEN "new_block" ELSE "store_ref"
  /\ UNCHANGED <<files, scan, nfree, way_block_count, ways_loaded, owner>>

\* All the blocks the file has room for are in use.
DieTooManyBlocks ==
  /\ pc = "new_block"
  /\ way_block_count >= MAX_WAY_BLOCKS
  /\ pc' = "dead"
  /\ UNCHANGED <<files, handler, scan, way_block_count, ways_loaded, owner>>

\* Mutant of NewWayBlock: the limit is tested after one block too many.
NewWayBlockPastLimit ==
  /\ pc = "new_block"
  /\ way_block_count <= MAX_WAY_BLOCKS
  /\ refs' = [refs EXCEPT ![way_block_count][Last] = -WAY_BLOCK_SIZE]
  /\ next' = [next EXCEPT ![way_block_count] = 0]
  /\ wb' = way_block_count
  /\ way_block_count' = way_block_count + 1
  /\ pc' = IF wbi = 0 THEN "set_head" ELSE "set_next"
  /\ UNCHANGED <<head_way_block, way, wbi, nfree, scan, ways_loaded, owner>>

\* Mutant of NewWayBlock: the block is not counted as in use.
NewWayBlockUncounted ==
  /\ pc = "new_block"
  /\ way_block_count < MAX_WAY_BLOCKS
  /\ refs' = [refs EXCEPT ![way_block_count][Last] = -WAY_BLOCK_SIZE]
  /\ next' = [next EXCEPT ![way_block_count] = 0]
  /\ wb' = way_block_count
  /\ pc' = IF wbi = 0 THEN "set_head" ELSE "set_next"
  /\ UNCHANGED <<head_way_block, way_block_count, way, wbi, nfree, scan,
                 ways_loaded, owner>>

NewWayBlock ==
  /\ pc = "new_block"
  /\ way_block_count < MAX_WAY_BLOCKS
  /\ refs' = [refs EXCEPT ![way_block_count][Last] = -WAY_BLOCK_SIZE]
  /\ next' = [next EXCEPT ![way_block_count] = 0]
  /\ wb' = way_block_count
  /\ way_block_count' = way_block_count + 1
  /\ pc' = IF wbi = 0 THEN "set_head" ELSE "set_next"
  /\ UNCHANGED <<head_way_block, way, wbi, nfree, scan, ways_loaded, owner>>

\* Mutant of SetNext: the full block is dropped from the chain.
SetNextNowhere ==
  /\ pc = "set_next"
  /\ pc' = "set_head"
  /\ UNCHANGED <<files, handler, scan, way_block_count, ways_loaded, owner>>

\* Mutant of SetNext: wb in the place of wbi.
SetNextToItself ==
  /\ pc = "set_next"
  /\ next' = [next EXCEPT ![wb] = wb]
  /\ pc' = "set_head"
  /\ UNCHANGED <<head_way_block, refs, handler, scan, way_block_count,
                 ways_loaded, owner>>

\* The new block points to the full one before the cell points to the new block.
SetNext ==
  /\ pc = "set_next"
  /\ next' = [next EXCEPT ![wb] = wbi]
  /\ pc' = "set_head"
  /\ UNCHANGED <<head_way_block, refs, handler, scan, way_block_count,
                 ways_loaded, owner>>

SetHead ==
  /\ pc = "set_head"
  /\ head_way_block' = [head_way_block EXCEPT ![CellOf[way]] = wb]
  /\ owner' = [owner EXCEPT ![wb] = CellOf[way]]
  /\ pc' = "store_ref"
  /\ UNCHANGED <<refs, next, handler, scan, way_block_count, ways_loaded>>

\* The code dies here if the block has no free slot: see FreeSlotCertain.
StoreRef ==
  /\ pc = "store_ref"
  /\ ~Full(wb)
  /\ nfree' = refs[wb][Last]
  /\ refs' = [refs EXCEPT ![wb][WAY_BLOCK_SIZE + nfree'] = way]
  /\ pc' = "count_free"
  /\ UNCHANGED <<head_way_block, next, way, wbi, wb, scan, way_block_count,
                 ways_loaded, owner>>

\* Mutant of CountFree: also a reference in the last slot is counted up.
CountFreeAlways ==
  /\ pc = "count_free"
  /\ refs' = [refs EXCEPT ![wb][Last] = @ + 1]
  /\ ways_loaded' = ways_loaded \cup {way}
  /\ pc' = "idle"
  /\ UNCHANGED <<head_way_block, next, handler, scan, way_block_count, owner>>

\* A block whose last slot was just filled has no free count any more.
CountFree ==
  /\ pc = "count_free"
  /\ refs' = IF nfree # -1 THEN [refs EXCEPT ![wb][Last] = @ + 1] ELSE refs
  /\ ways_loaded' = ways_loaded \cup {way}
  /\ pc' = "idle"
  /\ UNCHANGED <<head_way_block, next, handler, scan, way_block_count, owner>>

\* The end of the input.
Finish ==
  /\ pc = "idle"
  /\ pc' = "done"
  /\ UNCHANGED <<files, handler, scan, way_block_count, ways_loaded, owner>>

\* The process is killed, or dies in a part of the code not modelled here.
Kill ==
  /\ ~Stopped
  /\ pc' = "dead"
  /\ UNCHANGED <<files, handler, scan, way_block_count, ways_loaded, owner>>

-----------------------------------------------------------------------------
(* The extraction: the loops over the blocks and slots of one cell. *)

StartScan(c) ==
  /\ Stopped
  /\ scan_block = 0
  /\ scan_cell' = c
  /\ scan_block' = head_way_block[c]
  /\ scan_slot' = 0
  /\ scan_out' = {}
  /\ UNCHANGED <<files, handler, way_block_count, pc, ways_loaded, owner>>

\* Mutant of BlockEnds: the loop leaves out the last slot.
BlockEndsBeforeLast == scan_slot < Last => refs[scan_block][scan_slot] <= 0

\* The slot loop runs off the block, or meets an empty slot.
BlockEnds == scan_slot < WAY_BLOCK_SIZE => refs[scan_block][scan_slot] <= 0

ScanWay ==
  /\ scan_block # 0
  /\ ~BlockEnds
  /\ scan_out' = scan_out \cup {refs[scan_block][scan_slot]}
  /\ scan_slot' = scan_slot + 1
  /\ UNCHANGED <<files, handler, scan_cell, scan_block, way_block_count, pc,
                 ways_loaded, owner>>

NextBlock ==
  /\ scan_block # 0
  /\ BlockEnds
  /\ scan_block' = next[scan_block]
  /\ scan_slot' = 0
  /\ UNCHANGED <<files, handler, scan_cell, scan_out, way_block_count, pc,
                 ways_loaded, owner>>

-----------------------------------------------------------------------------
Load ==
  \/ \E w \in WayIds : HandleWay(w)
  \/ DieTooManyBlocks \/ NewWayBlock \/ SetNext \/ SetHead
  \/ StoreRef \/ CountFree \/ Finish \/ Kill

Extract == (\E c \in Cells : StartScan(c)) \/ ScanWay \/ NextBlock

Next == Load \/ Extract

Spec == Init /\ [][Next]_vars

\* A running extraction is one sequential process that is never blocked.
FairSpec == Spec /\ WF_vars(ScanWay) /\ WF_vars(NextBlock)

-----------------------------------------------------------------------------
TypeOK ==
  /\ head_way_block \in [Cells -> 0 .. MAX_WAY_BLOCKS - 1]
  /\ refs \in [Blocks -> [Slots -> Int]]
  /\ next \in [Blocks -> 0 .. MAX_WAY_BLOCKS - 1]
  /\ way_block_count \in 1 .. MAX_WAY_BLOCKS
  /\ pc \in {"idle", "new_block", "set_next", "set_head", "store_ref",
             "count_free", "done", "dead"}
  /\ way \in WayIds \cup {0}
  /\ wbi \in 0 .. MAX_WAY_BLOCKS - 1
  /\ wb \in 0 .. MAX_WAY_BLOCKS - 1
  /\ nfree \in -WAY_BLOCK_SIZE .. 0
  /\ ways_loaded \subseteq WayIds
  /\ scan_cell \in Cells \cup {NoCell}
  /\ scan_block \in 0 .. MAX_WAY_BLOCKS - 1
  /\ scan_slot \in 0 .. WAY_BLOCK_SIZE
  /\ scan_out \subseteq WayIds
  /\ owner \in [Blocks -> Cells \cup {NoCell}]

\* handle_way is "certain to have a free slot in the current block" when it
\* stores a reference: the die that follows is never reached (vex.c:521-524).
FreeSlotCertain == pc = "store_ref" => wb # 0 /\ refs[wb][Last] < 0

\* An ended scan has come to every way of the cell that counts as loaded and to
\* no other, save the way whose handle_way the kill interrupted.
ScanExact ==
  scan_block = 0 /\ scan_cell # NoCell =>
    /\ \A w \in ways_loaded : CellOf[w] = scan_cell => w \in scan_out
    /\ \A w \in scan_out : CellOf[w] = scan_cell /\ w \in ways_loaded \cup {way}

\* A scan never comes to the same way twice, across all the blocks of a cell.
NoWayTwice ==
  scan_block # 0 /\ ~BlockEnds => refs[scan_block][scan_slot] \notin scan_out

\* The blocks of the chain that starts at block b.
ChainFrom[b \in 0 .. MAX_WAY_BLOCKS - 1] ==
  IF b = 0 THEN {} ELSE {b} \cup ChainFrom[next[b]]

\* After every store of the loader, also if it is the last one made, the chain
\* of each cell is made of the blocks that were linked into that cell: no block
\* is lost, none is shared by two cells.
ChainsIntact ==
  \A c \in Cells : ChainFrom[head_way_block[c]] = {b \in Blocks : owner[b] = c}

\* A scan that has begun comes to its end: no chain is circular.
ScanEnds == (scan_block # 0) ~> (scan_block = 0)

-----------------------------------------------------------------------------
(* The inductive invariant that the proofs of WayBlocksProofs rest on. *)

Handling == pc \in {"new_block", "set_next", "set_head", "store_ref", "count_free"}

\* Slots fill from the front; a block in use says in its last slot whether it is
\* full; a block not in use yet was never written.
SlotsInv ==
  \A b \in Blocks : \A i \in Slots :
    /\ refs[b][i] > 0 => refs[b][i] \in WayIds /\ \A j \in 0 .. i : refs[b][j] > 0
    /\ refs[b][i] < 0 => i = Last /\ refs[b][i] >= -WAY_BLOCK_SIZE
    /\ b < way_block_count => refs[b][Last] # 0
    /\ b >= way_block_count => refs[b][i] = 0

\* The free count of a block tells its first free slot, except between the two
\* stores that fill that slot and count it.
FreeInv ==
  /\ ~Stopped =>
       \A b \in Blocks : \A i \in 0 .. Last - 1 :
         b < way_block_count /\ refs[b][Last] < 0 /\ ~(pc = "count_free" /\ b = wb) =>
           (refs[b][i] > 0 <=> i < WAY_BLOCK_SIZE + refs[b][Last])
  /\ pc = "count_free" =>
       /\ nfree < 0
       /\ refs[wb][WAY_BLOCK_SIZE + nfree] = way
       /\ refs[wb][Last] = IF nfree = -1 THEN way ELSE nfree
       /\ \A i \in 0 .. Last - 1 : refs[wb][i] > 0 <=> i <= WAY_BLOCK_SIZE + nfree

\* Along a chain the block numbers decrease, and no block of the cell is skipped.
ChainInv ==
  /\ \A b \in Blocks : owner[b] # NoCell => b < way_block_count
  /\ \A c \in Cells :
       /\ head_way_block[c] # 0 => owner[head_way_block[c]] = c
       /\ \A b \in Blocks : owner[b] = c => b <= head_way_block[c]
  /\ \A b \in Blocks : owner[b] # NoCell =>
       /\ next[b] < b
       /\ next[b] # 0 => owner[next[b]] = owner[b]
       /\ \A d \in Blocks : d < b /\ owner[d] = owner[b] => d <= next[b]

\* A way is in one slot at most, of a block of its own cell; the ways in slots
\* are those loaded and perhaps the one being handled.
PlaceInv ==
  /\ \A b \in Blocks : \A i \in Slots : refs[b][i] > 0 =>
       /\ owner[b] = CellOf[refs[b][i]]
       /\ refs[b][i] \in ways_loaded \cup
            (IF pc \in {"count_free", "dead"} THEN {way} ELSE {})
       /\ \A d \in Blocks : \A j \in Slots :
            refs[d][j] = refs[b][i] => d = b /\ j = i
  /\ \A w \in ways_loaded : \E b \in Blocks, i \in Slots : refs[b][i] = w

\* What the loader knows at each of its steps.
HandlerInv ==
  /\ Handling => way \in WayIds \ ways_loaded
  /\ pc \in {"new_block", "set_next", "set_head"} => wbi = head_way_block[CellOf[way]]
  /\ pc \in {"set_next", "set_head"} =>
       /\ wb \in Blocks /\ wb = way_block_count - 1
       /\ owner[wb] = NoCell
       /\ refs[wb][Last] < 0
  /\ pc = "set_next" => wbi # 0
  /\ pc = "set_head" => next[wb] = wbi
  /\ pc = "store_ref" => wb \in Blocks /\ refs[wb][Last] < 0
  /\ pc \in {"store_ref", "count_free"} => wb \in Blocks /\ owner[wb] = CellOf[way]

\* The ways that a scan has come to: those of its cell in the blocks before its
\* position and in the slots before its slot.
Passed ==
  {w \in WayIds : \E b \in Blocks, i \in Slots :
     /\ refs[b][i] = w
     /\ owner[b] = scan_cell
     /\ b > scan_block \/ (b = scan_block /\ i < scan_slot)}

ScanInv ==
  /\ ~Stopped => scan_cell = NoCell
  /\ scan_cell = NoCell => scan_block = 0
  /\ scan_cell # NoCell => scan_out = Passed
  /\ scan_block # 0 =>
       /\ owner[scan_block] = scan_cell
       /\ \A i \in 0 .. scan_slot - 1 : refs[scan_block][i] > 0

IInv == SlotsInv /\ FreeInv /\ ChainInv /\ PlaceInv /\ HandlerInv /\ ScanInv

-----------------------------------------------------------------------------
(* The blocks implement the abstract index. *)

IndexedIn(c) ==
  {w \in WayIds : \E b \in Blocks, i \in Slots : owner[b] = c /\ refs[b][i] = w}

Index == INSTANCE WayIndex WITH
  contents <- [c \in Cells |-> IndexedIn(c)],
  answer   <- IF scan_block = 0 /\ scan_cell # NoCell
              THEN [cell |-> scan_cell, ways |-> scan_out]
              ELSE NoAnswer

\* Through all its stores, kills and scans the block file behaves as the
\* abstract index: storing a reference adds a way to its cell, an ended scan
\* returns the contents of its cell.
RefinesIndex == Index!Spec
=============================================================================
