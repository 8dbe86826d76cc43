-------------------------- MODULE WayBlocksProofs ---------------------------
(***************************************************************************)
(* WayBlocks for every block size, file size, grid and input.  IInv is     *)
(* inductive; the safety properties and the refinement of WayIndex follow. *)
(***************************************************************************)
EXTENDS WayBlocks, TLAPS

USE DEF Last, Slots, Blocks, files, handler, scan

-----------------------------------------------------------------------------
LEMMA InitInv == Init => TypeOK /\ IInv
<1>. SUFFICES ASSUME Init PROVE TypeOK /\ IInv
  OBVIOUS
<1>. USE SizeAssumption, CellAssumption, WayIdAssumption DEF Init
<1>1. TypeOK
  BY DEF TypeOK
<1>2. SlotsInv
  BY DEF SlotsInv
<1>3. FreeInv
  BY DEF FreeInv, Stopped
<1>4. ChainInv
  BY DEF ChainInv
<1>5. PlaceInv
  BY DEF PlaceInv
<1>6. HandlerInv
  BY DEF HandlerInv, Handling
<1>7. ScanInv
  BY DEF ScanInv, Stopped
<1>. QED
  BY <1>1, <1>2, <1>3, <1>4, <1>5, <1>6, <1>7 DEF IInv

LEMMA TypeStep == TypeOK /\ IInv /\ [Next]_vars => TypeOK'
<1>. SUFFICES ASSUME TypeOK, IInv, [Next]_vars PROVE TypeOK'
  OBVIOUS
<1>. USE SizeAssumption, CellAssumption, WayIdAssumption
<1>1. ASSUME NEW w \in WayIds, HandleWay(w) PROVE TypeOK'
  BY <1>1 DEF HandleWay, TypeOK
<1>2. CASE DieTooManyBlocks
  BY <1>2 DEF DieTooManyBlocks, TypeOK
<1>3. CASE NewWayBlock
  <2>1. way_block_count \in Blocks /\ Last \in Slots
    BY <1>3 DEF NewWayBlock, TypeOK
  <2>2. refs' \in [Blocks -> [Slots -> Int]]
    <3>1. refs' = [refs EXCEPT ![way_block_count][Last] = -WAY_BLOCK_SIZE]
      BY <1>3 DEF NewWayBlock
    <3>2. refs \in [Blocks -> [Slots -> Int]] /\ -WAY_BLOCK_SIZE \in Int
      BY DEF TypeOK
    <3>. QED
      BY <2>1, <3>1, <3>2
  <2>3. next' \in [Blocks -> 0 .. MAX_WAY_BLOCKS - 1]
    <3>1. next' = [next EXCEPT ![way_block_count] = 0]
      BY <1>3 DEF NewWayBlock
    <3>2. next \in [Blocks -> 0 .. MAX_WAY_BLOCKS - 1] /\ 0 \in 0 .. MAX_WAY_BLOCKS - 1
      BY DEF TypeOK
    <3>. QED
      BY <2>1, <3>1, <3>2
  <2>4. /\ wb' = way_block_count /\ way_block_count' = way_block_count + 1
        /\ pc' \in {"set_head", "set_next"}
        /\ UNCHANGED <<head_way_block, way, wbi, nfree, scan, ways_loaded, owner>>
    BY <1>3 DEF NewWayBlock
  <2>5. way_block_count + 1 \in 1 .. MAX_WAY_BLOCKS /\ way_block_count \in 0 .. MAX_WAY_BLOCKS - 1
    BY <2>1
  <2>6. way_block_count' \in 1 .. MAX_WAY_BLOCKS /\ wb' \in 0 .. MAX_WAY_BLOCKS - 1
    BY <2>4, <2>5
  <2>7. pc' \in {"idle", "new_block", "set_next", "set_head", "store_ref",
                 "count_free", "done", "dead"}
    BY <2>4
  <2>. QED
    BY <2>2, <2>3, <2>4, <2>6, <2>7 DEF TypeOK
<1>4. CASE SetNext
  BY <1>4 DEF SetNext, TypeOK
<1>5. CASE SetHead
  <2>1. wb \in Blocks /\ way \in WayIds
    BY <1>5 DEF SetHead, IInv, HandlerInv, Handling
  <2>. QED
    BY <1>5, <2>1 DEF SetHead, TypeOK
<1>6. CASE StoreRef
  <2>1. wb \in Blocks /\ Last \in Slots /\ refs[wb][Last] < 0
    BY <1>6 DEF StoreRef, IInv, HandlerInv, TypeOK
  <2>2. nfree' = refs[wb][Last] /\ nfree' \in -WAY_BLOCK_SIZE .. 0
    <3>1. refs[wb][Last] \in Int /\ refs[wb][Last] >= -WAY_BLOCK_SIZE
      BY <2>1 DEF IInv, SlotsInv, TypeOK
    <3>2. nfree' = refs[wb][Last]
      BY <1>6 DEF StoreRef, TypeOK
    <3>. QED
      BY <2>1, <3>1, <3>2
  <2>3. way \in Int /\ WAY_BLOCK_SIZE + nfree' \in Slots
    <3>1. way \in Int
      BY DEF TypeOK
    <3>2. WAY_BLOCK_SIZE + nfree' \in Slots
      BY <2>1, <2>2
    <3>. QED
      BY <3>1, <3>2
  <2>4. refs' \in [Blocks -> [Slots -> Int]]
    BY <1>6, <2>1, <2>3 DEF StoreRef, TypeOK
  <2>. QED
    BY <1>6, <2>2, <2>4 DEF StoreRef, TypeOK
<1>7. CASE CountFree
  <2>1. wb \in Blocks /\ Last \in Slots /\ way \in WayIds
    BY <1>7 DEF CountFree, IInv, HandlerInv, Handling, TypeOK
  <2>2. refs' \in [Blocks -> [Slots -> Int]]
    <3>1. refs[wb][Last] + 1 \in Int
      BY <2>1 DEF TypeOK
    <3>2. CASE nfree = -1
      BY <1>7, <3>2 DEF CountFree, TypeOK
    <3>3. CASE nfree # -1
      BY <1>7, <2>1, <3>1, <3>3 DEF CountFree, TypeOK
    <3>. QED
      BY <3>2, <3>3 DEF TypeOK
  <2>. QED
    BY <1>7, <2>1, <2>2 DEF CountFree, TypeOK
<1>8. CASE Finish
  BY <1>8 DEF Finish, TypeOK
<1>9. CASE Kill
  BY <1>9 DEF Kill, TypeOK
<1>10. ASSUME NEW c \in Cells, StartScan(c) PROVE TypeOK'
  BY <1>10 DEF StartScan, TypeOK
<1>11. CASE ScanWay
  <2>1. /\ scan_block \in Blocks /\ scan_slot \in Slots
        /\ refs[scan_block][scan_slot] > 0
    <3>1. /\ scan_block # 0 /\ scan_slot < WAY_BLOCK_SIZE
          /\ ~(refs[scan_block][scan_slot] <= 0)
      BY <1>11 DEF ScanWay, BlockEnds
    <3>2. scan_block \in Blocks /\ scan_slot \in Slots
      BY <3>1 DEF TypeOK
    <3>3. refs[scan_block][scan_slot] \in Int
      BY <3>2 DEF TypeOK
    <3>. QED
      BY <3>1, <3>2, <3>3
  <2>2. refs[scan_block][scan_slot] \in WayIds
    BY <2>1 DEF IInv, SlotsInv, TypeOK
  <2>3. scan_slot' = scan_slot + 1
    BY <1>11 DEF ScanWay
  <2>4. scan_slot' \in 0 .. WAY_BLOCK_SIZE
    BY <2>1, <2>3
  <2>. QED
    BY <1>11, <2>2, <2>3, <2>4 DEF ScanWay, TypeOK
<1>12. CASE NextBlock
  <2>1. scan_block \in Blocks
    BY <1>12 DEF NextBlock, TypeOK
  <2>2. scan_block' \in 0 .. MAX_WAY_BLOCKS - 1 /\ scan_slot' \in 0 .. WAY_BLOCK_SIZE
    BY <1>12, <2>1 DEF NextBlock, TypeOK
  <2>. QED
    BY <1>12, <2>2 DEF NextBlock, TypeOK
<1>13. CASE UNCHANGED vars
  BY <1>13 DEF vars, TypeOK
<1>. QED
  BY <1>1, <1>2, <1>3, <1>4, <1>5, <1>6, <1>7, <1>8, <1>9, <1>10, <1>11, <1>12, <1>13
     DEF Next, Load, Extract

-----------------------------------------------------------------------------
(* Each action preserves IInv: one lemma per action. *)

LEMMA HandleWayInv ==
  ASSUME TypeOK, IInv, NEW w \in WayIds, HandleWay(w)
  PROVE  IInv'
<1>. USE SizeAssumption, CellAssumption, WayIdAssumption DEF HandleWay
<1>1. SlotsInv'
  BY DEF IInv, SlotsInv
<1>2. FreeInv'
  BY DEF IInv, FreeInv, Stopped
<1>3. ChainInv'
  BY DEF IInv, ChainInv
<1>4. PlaceInv'
  BY DEF IInv, PlaceInv
<1>5. HandlerInv'
  <2>1. CASE wbi' = 0 \/ Full(wbi')
    BY <2>1 DEF IInv, HandlerInv, Handling
  <2>2. CASE ~(wbi' = 0 \/ Full(wbi'))
    <3>1. wb' \in Blocks /\ owner[wb'] = CellOf[w]
      BY <2>2 DEF IInv, ChainInv, TypeOK
    <3>2. refs[wb'][Last] < 0
      <4>1. ~(refs[wb'][Last] >= 0)
        BY <2>2 DEF Full
      <4>2. refs[wb'][Last] \in Int
        BY <3>1 DEF TypeOK
      <4>. QED
        BY <4>1, <4>2
    <3>. QED
      BY <2>2, <3>1, <3>2 DEF IInv, HandlerInv, Handling
  <2>. QED
    BY <2>1, <2>2
<1>6. ScanInv'
  BY DEF IInv, ScanInv, Stopped, Passed
<1>. QED
  BY <1>1, <1>2, <1>3, <1>4, <1>5, <1>6 DEF IInv

LEMMA StopInv ==
  ASSUME TypeOK, IInv, DieTooManyBlocks \/ Finish \/ Kill
  PROVE  IInv'
<1>. USE SizeAssumption, CellAssumption, WayIdAssumption
     DEF DieTooManyBlocks, Finish, Kill, Stopped
<1>1. SlotsInv'
  BY DEF IInv, SlotsInv
<1>2. FreeInv'
  BY DEF IInv, FreeInv
<1>3. ChainInv'
  BY DEF IInv, ChainInv
<1>4. PlaceInv'
  BY DEF IInv, PlaceInv
<1>5. HandlerInv'
  BY DEF IInv, HandlerInv, Handling
<1>6. ScanInv'
  BY DEF IInv, ScanInv, Passed
<1>. QED
  BY <1>1, <1>2, <1>3, <1>4, <1>5, <1>6 DEF IInv

LEMMA NewWayBlockInv ==
  ASSUME TypeOK, IInv, NewWayBlock
  PROVE  IInv'
<1>. USE SizeAssumption, CellAssumption, WayIdAssumption
<1>. DEFINE n == way_block_count
<1>1. /\ n \in Blocks /\ Last \in Slots
      /\ pc = "new_block" /\ pc' \in {"set_head", "set_next"}
      /\ wb' = n /\ way_block_count' = n + 1
      /\ UNCHANGED <<head_way_block, way, wbi, nfree, scan, ways_loaded, owner>>
  BY DEF NewWayBlock, TypeOK
<1>2. \A b \in Blocks, i \in Slots :
        refs'[b][i] = IF b = n /\ i = Last THEN -WAY_BLOCK_SIZE ELSE refs[b][i]
  BY <1>1 DEF NewWayBlock, TypeOK
<1>3. \A b \in Blocks : next'[b] = IF b = n THEN 0 ELSE next[b]
  BY <1>1 DEF NewWayBlock, TypeOK
<1>4. owner[n] = NoCell /\ \A i \in Slots : refs[n][i] = 0
  BY <1>1 DEF IInv, ChainInv, SlotsInv, TypeOK
<1>. HIDE DEF n
<1>. n \in Int /\ n = way_block_count
  BY DEF n, TypeOK
<1>5. SlotsInv'
  <2>. SUFFICES ASSUME NEW b \in Blocks, NEW i \in Slots
       PROVE  /\ refs'[b][i] > 0 => refs'[b][i] \in WayIds /\ \A j \in 0 .. i : refs'[b][j] > 0
              /\ refs'[b][i] < 0 => i = Last /\ refs'[b][i] >= -WAY_BLOCK_SIZE
              /\ b < n + 1 => refs'[b][Last] # 0
              /\ b >= n + 1 => refs'[b][i] = 0
    BY <1>1 DEF SlotsInv
  <2>1. CASE b = n
    BY <1>1, <1>2, <1>4, <2>1
  <2>2. CASE b # n
    <3>1. \A j \in Slots : refs'[b][j] = refs[b][j]
      BY <1>2, <2>2
    <3>. QED
      BY <1>1, <2>2, <3>1 DEF IInv, SlotsInv
  <2>. QED
    BY <2>1, <2>2
<1>6. FreeInv'
  <2>. SUFFICES ASSUME NEW b \in Blocks, NEW i \in 0 .. Last - 1,
                       b < n + 1, refs'[b][Last] < 0
       PROVE  refs'[b][i] > 0 <=> i < WAY_BLOCK_SIZE + refs'[b][Last]
    BY <1>1 DEF FreeInv
  <2>1. CASE b = n
    BY <1>1, <1>2, <1>4, <2>1
  <2>2. CASE b # n
    <3>1. \A j \in Slots : refs'[b][j] = refs[b][j]
      BY <1>2, <2>2
    <3>. QED
      BY <1>1, <2>2, <3>1 DEF IInv, FreeInv, Stopped
  <2>. QED
    BY <2>1, <2>2
<1>7. ChainInv'
  <2>1. \A b \in Blocks : owner[b] # NoCell => b # n /\ next'[b] = next[b]
    BY <1>3, <1>4
  <2>2. \A b \in Blocks : owner[b] # NoCell => b < n + 1
    BY DEF IInv, ChainInv
  <2>3. \A c \in Cells : c # NoCell
    BY CellAssumption
  <2>. QED
    BY <1>1, <2>1, <2>2, <2>3 DEF IInv, ChainInv
<1>8. PlaceInv'
  <2>1. \A b \in Blocks, i \in Slots : refs'[b][i] > 0 => refs'[b][i] = refs[b][i]
    BY <1>2
  <2>2. \A b \in Blocks, i \in Slots : refs[b][i] > 0 => refs'[b][i] = refs[b][i]
    BY <1>2, <1>4
  <2>3. \A w \in ways_loaded : \E b \in Blocks, i \in Slots : refs'[b][i] = w
    <3>. TAKE w \in ways_loaded
    <3>1. PICK b \in Blocks, i \in Slots : refs[b][i] = w
      BY DEF IInv, PlaceInv
    <3>2. w > 0
      BY DEF TypeOK
    <3>. WITNESS b \in Blocks, i \in Slots
    <3>. QED
      BY <2>2, <3>1, <3>2
  <2>4. ASSUME NEW b \in Blocks, NEW i \in Slots, refs'[b][i] > 0,
               NEW d \in Blocks, NEW j \in Slots, refs'[d][j] = refs'[b][i]
        PROVE  d = b /\ j = i
    BY <2>1, <2>4 DEF IInv, PlaceInv
  <2>. QED
    BY <1>1, <2>1, <2>3, <2>4 DEF IInv, PlaceInv
<1>9. HandlerInv'
  BY <1>1, <1>2, <1>3, <1>4 DEF NewWayBlock, IInv, HandlerInv, Handling, TypeOK, n
<1>10. ScanInv'
  BY <1>1 DEF IInv, ScanInv, Stopped
<1>. QED
  BY <1>5, <1>6, <1>7, <1>8, <1>9, <1>10 DEF IInv

LEMMA SetNextInv ==
  ASSUME TypeOK, IInv, SetNext
  PROVE  IInv'
<1>. USE SizeAssumption, CellAssumption, WayIdAssumption
<1>1. /\ pc = "set_next" /\ pc' = "set_head"
      /\ wb \in Blocks /\ owner[wb] = NoCell
      /\ UNCHANGED <<head_way_block, refs, handler, scan, way_block_count, ways_loaded, owner>>
  BY DEF SetNext, IInv, HandlerInv
<1>2. \A b \in Blocks : next'[b] = IF b = wb THEN wbi ELSE next[b]
  BY <1>1 DEF SetNext, TypeOK
<1>3. SlotsInv'
  BY <1>1 DEF IInv, SlotsInv
<1>4. FreeInv'
  BY <1>1 DEF IInv, FreeInv, Stopped
<1>5. ChainInv'
  <2>1. \A b \in Blocks : owner[b] # NoCell => next'[b] = next[b]
    BY <1>1, <1>2
  <2>. QED
    BY <1>1, <2>1 DEF IInv, ChainInv
<1>6. PlaceInv'
  BY <1>1 DEF IInv, PlaceInv
<1>7. HandlerInv'
  BY <1>1, <1>2 DEF IInv, HandlerInv, Handling
<1>8. ScanInv'
  BY <1>1 DEF IInv, ScanInv, Stopped
<1>. QED
  BY <1>3, <1>4, <1>5, <1>6, <1>7, <1>8 DEF IInv

LEMMA SetHeadInv ==
  ASSUME TypeOK, IInv, SetHead
  PROVE  IInv'
<1>. USE SizeAssumption, CellAssumption, WayIdAssumption
<1>. DEFINE c == CellOf[way]
<1>1. /\ pc = "set_head" /\ pc' = "store_ref"
      /\ way \in WayIds /\ c \in Cells /\ c # NoCell
      /\ wb \in Blocks /\ wb = way_block_count - 1
      /\ owner[wb] = NoCell /\ refs[wb][Last] < 0
      /\ next[wb] = head_way_block[c]
      /\ UNCHANGED <<refs, next, handler, scan, way_block_count, ways_loaded>>
  BY DEF SetHead, IInv, HandlerInv, Handling
<1>2. \A d \in Cells : head_way_block'[d] = IF d = c THEN wb ELSE head_way_block[d]
  BY <1>1 DEF SetHead, TypeOK
<1>3. \A b \in Blocks : owner'[b] = IF b = wb THEN c ELSE owner[b]
  BY <1>1 DEF SetHead, TypeOK
<1>. HIDE DEF c
<1>4. SlotsInv'
  BY <1>1 DEF IInv, SlotsInv
<1>5. FreeInv'
  BY <1>1 DEF IInv, FreeInv, Stopped
<1>6. ChainInv'
  <2>1. \A b \in Blocks : owner'[b] # NoCell => b <= wb
    BY <1>1, <1>3 DEF IInv, ChainInv, TypeOK
  <2>2. ASSUME NEW d \in Cells
        PROVE  /\ head_way_block'[d] # 0 => owner'[head_way_block'[d]] = d
               /\ \A b \in Blocks : owner'[b] = d => b <= head_way_block'[d]
    <3>1. CASE d = c
      BY <1>1, <1>2, <1>3, <2>1, <3>1
    <3>2. CASE d # c
      <4>1. head_way_block'[d] = head_way_block[d] /\ head_way_block[d] \in 0 .. MAX_WAY_BLOCKS - 1
        BY <1>2, <3>2 DEF TypeOK
      <4>2. d # NoCell
        BY CellAssumption
      <4>. QED
        BY <1>1, <1>3, <3>2, <4>1, <4>2 DEF IInv, ChainInv
    <3>. QED
      BY <3>1, <3>2
  <2>3. /\ next[wb] < wb
        /\ next[wb] # 0 => next[wb] \in Blocks /\ owner'[next[wb]] = c
        /\ \A d \in Blocks : d < wb /\ owner'[d] = c => d <= next[wb]
    <3>1. next[wb] \in 0 .. MAX_WAY_BLOCKS - 1
      BY <1>1 DEF TypeOK
    <3>2. next[wb] # 0 => owner[next[wb]] = c /\ next[wb] < way_block_count
      BY <1>1, <3>1 DEF IInv, ChainInv
    <3>3. ASSUME NEW d \in Blocks, d < wb, owner'[d] = c PROVE d <= next[wb]
      <4>1. owner[d] = c
        BY <1>1, <1>3, <3>3
      <4>. QED
        BY <1>1, <4>1 DEF IInv, ChainInv
    <3>4. next[wb] # wb /\ way_block_count \in Int
      BY <1>1, <3>1, <3>2 DEF TypeOK
    <3>5. next[wb] # 0 => next[wb] \in Blocks /\ next[wb] < wb
      BY <1>1, <3>1, <3>2, <3>4
    <3>6. next[wb] # 0 => owner'[next[wb]] = c
      BY <1>3, <3>2, <3>5
    <3>. QED
      BY <1>1, <3>1, <3>3, <3>5, <3>6
  <2>4. ASSUME NEW b \in Blocks, b # wb, owner[b] # NoCell
        PROVE  /\ next[b] < b
               /\ next[b] # 0 => owner'[next[b]] = owner[b]
               /\ \A d \in Blocks : d < b /\ owner'[d] = owner[b] => d <= next[b]
    <3>1. b < wb /\ next[b] \in 0 .. MAX_WAY_BLOCKS - 1
      <4>1. owner'[b] # NoCell
        BY <1>3, <2>4
      <4>2. b <= wb
        BY <2>1, <4>1
      <4>. QED
        BY <1>1, <2>4, <4>2 DEF TypeOK
    <3>. QED
      BY <1>1, <1>3, <2>4, <3>1 DEF IInv, ChainInv
  <2>5. \A b \in Blocks : owner'[b] # NoCell => b < way_block_count
    <3>1. way_block_count \in Int
      BY DEF TypeOK
    <3>. QED
      BY <1>1, <2>1, <3>1
  <2>. QED
    BY <1>1, <1>3, <2>2, <2>3, <2>4, <2>5 DEF ChainInv
<1>7. PlaceInv'
  <2>1. ASSUME NEW b \in Blocks, NEW i \in Slots, refs[b][i] > 0
        PROVE  owner'[b] = CellOf[refs[b][i]]
    <3>1. owner[b] = CellOf[refs[b][i]] /\ refs[b][i] \in WayIds
      BY <2>1 DEF IInv, PlaceInv, SlotsInv
    <3>. QED
      BY <1>1, <1>3, <3>1
  <2>. QED
    BY <1>1, <2>1 DEF IInv, PlaceInv
<1>8. HandlerInv'
  BY <1>1, <1>3 DEF IInv, HandlerInv, Handling, c
<1>9. ScanInv'
  BY <1>1 DEF IInv, ScanInv, Stopped
<1>. QED
  BY <1>4, <1>5, <1>6, <1>7, <1>8, <1>9 DEF IInv

\* StoreRef fills slot k, the first one that is free, of a block in use.
LEMMA FreeSlot ==
  ASSUME TypeOK, IInv, StoreRef
  PROVE  \E k \in Slots :
           /\ nfree' = k - WAY_BLOCK_SIZE
           /\ refs[wb][Last] = k - WAY_BLOCK_SIZE
           /\ \A j \in 0 .. Last - 1 : refs[wb][j] > 0 <=> j < k
           /\ \A b \in Blocks, i \in Slots :
                refs'[b][i] = IF b = wb /\ i = k THEN way ELSE refs[b][i]
<1>. USE SizeAssumption, CellAssumption, WayIdAssumption
<1>. DEFINE f == refs[wb][Last]
            k == WAY_BLOCK_SIZE + f
<1>1. /\ pc = "store_ref" /\ wb \in Blocks
      /\ way \in WayIds /\ owner[wb] = CellOf[way]
      /\ f < 0 /\ nfree' = f
      /\ refs' = [refs EXCEPT ![wb][k] = way]
  BY DEF StoreRef, IInv, HandlerInv, Handling
<1>2. Last \in Slots /\ f \in Int
  BY <1>1 DEF TypeOK
<1>3. f >= -WAY_BLOCK_SIZE
  BY <1>1, <1>2 DEF IInv, SlotsInv
<1>4. CellOf[way] # NoCell
  BY <1>1
<1>5. wb < way_block_count
  BY <1>1, <1>4 DEF IInv, ChainInv
<1>6. \A j \in 0 .. Last - 1 : refs[wb][j] > 0 <=> j < k
  BY <1>1, <1>5 DEF IInv, FreeInv, Stopped
<1>. HIDE DEF f
<1>7. k \in Slots /\ f = k - WAY_BLOCK_SIZE
  BY <1>1, <1>2, <1>3
<1>. HIDE DEF k
<1>8. \A b \in Blocks, i \in Slots :
        refs'[b][i] = IF b = wb /\ i = k THEN way ELSE refs[b][i]
  BY <1>1, <1>7 DEF TypeOK
<1>9. refs[wb][Last] = k - WAY_BLOCK_SIZE /\ nfree' = k - WAY_BLOCK_SIZE
  BY <1>1, <1>7 DEF f
<1>. QED
  BY <1>6, <1>7, <1>8, <1>9

LEMMA StoreRefInv ==
  ASSUME TypeOK, IInv, StoreRef
  PROVE  IInv'
<1>. USE SizeAssumption, CellAssumption, WayIdAssumption
<1>1. /\ pc = "store_ref" /\ pc' = "count_free"
      /\ wb \in Blocks /\ owner[wb] = CellOf[way] /\ owner[wb] # NoCell
      /\ way \in WayIds \ ways_loaded
      /\ UNCHANGED <<head_way_block, next, way, wbi, wb, scan, way_block_count,
                     ways_loaded, owner>>
  BY DEF StoreRef, IInv, HandlerInv, Handling
<1>2. wb < way_block_count
  BY <1>1 DEF IInv, ChainInv
<1>3. PICK k \in Slots :
        /\ nfree' = k - WAY_BLOCK_SIZE
        /\ refs[wb][Last] = k - WAY_BLOCK_SIZE
        /\ \A j \in 0 .. Last - 1 : refs[wb][j] > 0 <=> j < k
        /\ \A b \in Blocks, i \in Slots :
             refs'[b][i] = IF b = wb /\ i = k THEN way ELSE refs[b][i]
  BY FreeSlot
<1>4. /\ way \in Int /\ way > 0
      /\ k < Last => refs[wb][k] <= 0
      /\ k = Last => refs[wb][k] = -1
  <2>1. refs[wb][k] \in Int /\ k \in Int
    BY <1>1 DEF TypeOK
  <2>2. k < Last => ~(refs[wb][k] > 0)
    BY <1>3
  <2>3. k = Last => refs[wb][k] = -1
    BY <1>3
  <2>. QED
    BY <1>1, <2>1, <2>2, <2>3
<1>5. SlotsInv'
  <2>. SUFFICES ASSUME NEW b \in Blocks, NEW i \in Slots
       PROVE  /\ refs'[b][i] > 0 => refs'[b][i] \in WayIds /\ \A j \in 0 .. i : refs'[b][j] > 0
              /\ refs'[b][i] < 0 => i = Last /\ refs'[b][i] >= -WAY_BLOCK_SIZE
              /\ b < way_block_count => refs'[b][Last] # 0
              /\ b >= way_block_count => refs'[b][i] = 0
    BY <1>1 DEF SlotsInv
  <2>1. /\ refs[b][i] > 0 => refs[b][i] \in WayIds /\ \A j \in 0 .. i : refs[b][j] > 0
        /\ refs[b][i] < 0 => i = Last /\ refs[b][i] >= -WAY_BLOCK_SIZE
        /\ b < way_block_count => refs[b][Last] # 0
        /\ b >= way_block_count => refs[b][i] = 0
    BY DEF IInv, SlotsInv
  <2>2. CASE b = wb /\ i = k
    <3>1. \A j \in 0 .. k - 1 : refs'[wb][j] = refs[wb][j] /\ refs[wb][j] > 0
      BY <1>1, <1>3
    <3>2. refs'[wb][k] = way
      BY <1>1, <1>3
    <3>3. \A j \in 0 .. k : refs'[wb][j] > 0
      BY <1>4, <3>1, <3>2
    <3>4. refs'[wb][Last] # 0
      <4>1. refs'[wb][Last] = IF k = Last THEN way ELSE refs[wb][Last]
        BY <1>1, <1>3
      <4>. QED
        BY <1>3, <1>4, <4>1
    <3>. QED
      <4>1. refs'[b][i] = way /\ refs'[b][i] \in WayIds /\ way > 0 /\ b < way_block_count
        BY <1>1, <1>2, <1>4, <2>2, <3>2
      <4>2. b \in Int /\ way_block_count \in Int
        BY DEF TypeOK
      <4>. QED
        BY <1>4, <2>2, <3>3, <3>4, <4>1, <4>2
  <2>3. CASE ~(b = wb /\ i = k)
    BY <1>1, <1>2, <1>3, <1>4, <2>1, <2>3
  <2>. QED
    BY <2>2, <2>3
<1>6. FreeInv'
  <2>1. /\ nfree' < 0
        /\ WAY_BLOCK_SIZE + nfree' = k
        /\ refs'[wb][k] = way
        /\ refs'[wb][Last] = IF nfree' = -1 THEN way ELSE nfree'
        /\ \A i \in 0 .. Last - 1 : refs'[wb][i] > 0 <=> i <= k
    BY <1>1, <1>3, <1>4
  <2>2. \A b \in Blocks, i \in Slots : b # wb => refs'[b][i] = refs[b][i]
    BY <1>3
  <2>. QED
    BY <1>1, <2>1, <2>2 DEF IInv, FreeInv, Stopped
<1>7. ChainInv'
  BY <1>1 DEF IInv, ChainInv
<1>8. PlaceInv'
  <2>1. \A b \in Blocks, i \in Slots : refs[b][i] > 0 => refs[b][i] \in ways_loaded
    BY <1>1 DEF IInv, PlaceInv
  <2>2. \A b \in Blocks, i \in Slots : refs[b][i] # way
    BY <1>1, <1>4, <2>1
  <2>3. ASSUME NEW b \in Blocks, NEW i \in Slots, refs'[b][i] > 0
        PROVE  /\ owner[b] = CellOf[refs'[b][i]]
               /\ refs'[b][i] \in ways_loaded \cup {way}
               /\ \A d \in Blocks : \A j \in Slots :
                    refs'[d][j] = refs'[b][i] => d = b /\ j = i
    <3>1. CASE b = wb /\ i = k
      BY <1>1, <1>3, <2>2, <3>1
    <3>2. CASE ~(b = wb /\ i = k)
      BY <1>3, <2>2, <2>3, <3>2 DEF IInv, PlaceInv
    <3>. QED
      BY <3>1, <3>2
  <2>4. \A w \in ways_loaded : \E b \in Blocks, i \in Slots : refs'[b][i] = w
    <3>. TAKE w \in ways_loaded
    <3>1. PICK b \in Blocks, i \in Slots : refs[b][i] = w
      BY DEF IInv, PlaceInv
    <3>2. w > 0
      BY DEF TypeOK
    <3>3. refs'[b][i] = w
      BY <1>3, <1>4, <3>1, <3>2
    <3>. QED
      BY <3>3
  <2>. QED
    BY <1>1, <2>3, <2>4 DEF PlaceInv
<1>9. HandlerInv'
  BY <1>1 DEF HandlerInv, Handling
<1>10. ScanInv'
  BY <1>1 DEF IInv, ScanInv, Stopped
<1>. QED
  BY <1>5, <1>6, <1>7, <1>8, <1>9, <1>10 DEF IInv

\* CountFree writes the last slot of the block, unless the way is in it.
LEMMA CountedSlot ==
  ASSUME TypeOK, IInv, CountFree
  PROVE  \E k \in Slots :
           /\ nfree = k - WAY_BLOCK_SIZE
           /\ refs[wb][k] = way
           /\ \A i \in 0 .. Last - 1 : refs[wb][i] > 0 <=> i <= k
           /\ \A b \in Blocks, i \in Slots :
                refs'[b][i] = IF b = wb /\ i = Last /\ k # Last THEN nfree + 1 ELSE refs[b][i]
           /\ k # Last => nfree + 1 < 0 /\ nfree + 1 >= -WAY_BLOCK_SIZE /\ refs[wb][Last] < 0
           /\ k = Last => refs[wb][Last] > 0
           /\ \A b \in Blocks, i \in Slots : refs'[b][i] > 0 => refs'[b][i] = refs[b][i]
           /\ \A b \in Blocks, i \in Slots : refs[b][i] > 0 => refs'[b][i] = refs[b][i]
<1>. USE SizeAssumption, CellAssumption, WayIdAssumption
<1>. DEFINE k == WAY_BLOCK_SIZE + nfree
<1>1. /\ pc = "count_free" /\ pc' = "idle"
      /\ wb \in Blocks /\ owner[wb] = CellOf[way] /\ way \in WayIds
      /\ nfree < 0 /\ refs[wb][k] = way
      /\ refs[wb][Last] = IF nfree = -1 THEN way ELSE nfree
      /\ \A i \in 0 .. Last - 1 : refs[wb][i] > 0 <=> i <= k
      /\ ways_loaded' = ways_loaded \cup {way}
      /\ UNCHANGED <<head_way_block, next, handler, scan, way_block_count, owner>>
  BY DEF CountFree, IInv, HandlerInv, Handling, FreeInv
<1>2. k \in Slots /\ nfree = k - WAY_BLOCK_SIZE
  BY <1>1 DEF TypeOK
<1>. HIDE DEF k
<1>3. \A b \in Blocks, i \in Slots :
        refs'[b][i] = IF b = wb /\ i = Last /\ k # Last THEN nfree + 1 ELSE refs[b][i]
  <2>1. CASE nfree = -1
    BY <1>2, <2>1 DEF CountFree, TypeOK
  <2>2. CASE nfree # -1
    <3>1. refs' = [refs EXCEPT ![wb][Last] = nfree + 1]
      BY <1>1, <2>2 DEF CountFree
    <3>2. k # Last /\ Last \in Slots
      BY <1>2, <2>2 DEF TypeOK
    <3>. QED
      BY <1>1, <3>1, <3>2 DEF TypeOK
  <2>. QED
    BY <2>1, <2>2
<1>4. k # Last => nfree + 1 < 0 /\ nfree + 1 >= -WAY_BLOCK_SIZE /\ refs[wb][Last] < 0
  BY <1>1, <1>2
<1>5. /\ \A b \in Blocks, i \in Slots : refs'[b][i] > 0 => refs'[b][i] = refs[b][i]
      /\ \A b \in Blocks, i \in Slots : refs[b][i] > 0 => refs'[b][i] = refs[b][i]
  <2>. SUFFICES ASSUME NEW b \in Blocks, NEW i \in Slots
       PROVE  refs'[b][i] # refs[b][i] => ~(refs'[b][i] > 0) /\ ~(refs[b][i] > 0)
    OBVIOUS
  <2>1. CASE b = wb /\ i = Last /\ k # Last
    <3>1. refs'[b][i] = nfree + 1 /\ refs[b][i] = nfree
      BY <1>1, <1>2, <1>3, <2>1
    <3>2. ~(nfree + 1 > 0) /\ ~(nfree > 0)
      BY <1>4, <2>1 DEF TypeOK
    <3>. QED
      BY <3>1, <3>2
  <2>2. CASE ~(b = wb /\ i = Last /\ k # Last)
    BY <1>3, <2>2
  <2>. QED
    BY <2>1, <2>2
<1>6. k = Last => refs[wb][Last] > 0
  BY <1>1
<1>. QED
  BY <1>1, <1>2, <1>3, <1>4, <1>5, <1>6

LEMMA CountFreeInv ==
  ASSUME TypeOK, IInv, CountFree
  PROVE  IInv'
<1>. USE SizeAssumption, CellAssumption, WayIdAssumption
<1>1. /\ pc = "count_free" /\ pc' = "idle"
      /\ wb \in Blocks /\ owner[wb] = CellOf[way] /\ way \in WayIds
      /\ ways_loaded' = ways_loaded \cup {way}
      /\ UNCHANGED <<head_way_block, next, handler, scan, way_block_count, owner>>
  BY DEF CountFree, IInv, HandlerInv, Handling
<1>2. PICK k \in Slots :
        /\ nfree = k - WAY_BLOCK_SIZE
        /\ refs[wb][k] = way
        /\ \A i \in 0 .. Last - 1 : refs[wb][i] > 0 <=> i <= k
        /\ \A b \in Blocks, i \in Slots :
             refs'[b][i] = IF b = wb /\ i = Last /\ k # Last THEN nfree + 1 ELSE refs[b][i]
        /\ k # Last => nfree + 1 < 0 /\ nfree + 1 >= -WAY_BLOCK_SIZE /\ refs[wb][Last] < 0
        /\ k = Last => refs[wb][Last] > 0
        /\ \A b \in Blocks, i \in Slots : refs'[b][i] > 0 => refs'[b][i] = refs[b][i]
        /\ \A b \in Blocks, i \in Slots : refs[b][i] > 0 => refs'[b][i] = refs[b][i]
  BY CountedSlot
<1>3. SlotsInv'
  <2>. SUFFICES ASSUME NEW b \in Blocks, NEW i \in Slots
       PROVE  /\ refs'[b][i] > 0 => refs'[b][i] \in WayIds /\ \A j \in 0 .. i : refs'[b][j] > 0
              /\ refs'[b][i] < 0 => i = Last /\ refs'[b][i] >= -WAY_BLOCK_SIZE
              /\ b < way_block_count => refs'[b][Last] # 0
              /\ b >= way_block_count => refs'[b][i] = 0
    BY <1>1 DEF SlotsInv
  <2>1. /\ refs[b][i] > 0 => refs[b][i] \in WayIds /\ \A j \in 0 .. i : refs[b][j] > 0
        /\ refs[b][i] < 0 => i = Last /\ refs[b][i] >= -WAY_BLOCK_SIZE
        /\ b < way_block_count => refs[b][Last] # 0
        /\ b >= way_block_count => refs[b][i] = 0
    BY DEF IInv, SlotsInv
  <2>2. wb < way_block_count
    BY <1>1 DEF IInv, ChainInv
  <2>3. refs'[b][i] > 0 => refs'[b][i] \in WayIds /\ \A j \in 0 .. i : refs'[b][j] > 0
    BY <1>2, <2>1
  <2>4. refs'[b][i] < 0 => i = Last /\ refs'[b][i] >= -WAY_BLOCK_SIZE
    BY <1>2, <2>1
  <2>5. b < way_block_count => refs'[b][Last] # 0
    BY <1>2, <2>1
  <2>6. b >= way_block_count => refs'[b][i] = 0
    <3>1. b >= way_block_count => b # wb
      BY <2>2 DEF TypeOK
    <3>. QED
      BY <1>2, <2>1, <3>1
  <2>. QED
    BY <2>3, <2>4, <2>5, <2>6
<1>4. FreeInv'
  <2>. SUFFICES ASSUME NEW b \in Blocks, NEW i \in 0 .. Last - 1,
                       b < way_block_count, refs'[b][Last] < 0
       PROVE  refs'[b][i] > 0 <=> i < WAY_BLOCK_SIZE + refs'[b][Last]
    BY <1>1 DEF FreeInv
  <2>1. refs'[b][i] = refs[b][i]
    BY <1>2
  <2>2. CASE b = wb
    <3>1. k # Last
      BY <1>1, <1>2, <2>2
    <3>2. refs'[b][Last] = nfree + 1
      BY <1>2, <2>2, <3>1
    <3>. QED
      BY <1>1, <1>2, <2>1, <2>2, <3>2
  <2>3. CASE b # wb
    <3>1. refs'[b][Last] = refs[b][Last]
      BY <1>2, <2>3
    <3>. QED
      BY <1>1, <2>1, <2>3, <3>1 DEF IInv, FreeInv, Stopped
  <2>. QED
    BY <2>2, <2>3
<1>5. ChainInv'
  BY <1>1 DEF IInv, ChainInv
<1>6. PlaceInv'
  <2>1. ASSUME NEW b \in Blocks, NEW i \in Slots, refs'[b][i] > 0
        PROVE  /\ owner[b] = CellOf[refs'[b][i]]
               /\ refs'[b][i] \in ways_loaded'
               /\ \A d \in Blocks : \A j \in Slots :
                    refs'[d][j] = refs'[b][i] => d = b /\ j = i
    BY <1>1, <1>2, <2>1 DEF IInv, PlaceInv
  <2>2. \A w \in ways_loaded' : \E b \in Blocks, i \in Slots : refs'[b][i] = w
    <3>. TAKE w \in ways_loaded'
    <3>1. PICK b \in Blocks, i \in Slots : refs[b][i] = w
      BY <1>1, <1>2 DEF IInv, PlaceInv
    <3>2. w \in WayIds
      BY <1>1 DEF TypeOK
    <3>3. w > 0
      BY <3>2
    <3>. QED
      BY <1>2, <3>1, <3>3
  <2>. QED
    BY <1>1, <2>1, <2>2 DEF PlaceInv
<1>7. HandlerInv'
  BY <1>1 DEF HandlerInv, Handling
<1>8. ScanInv'
  BY <1>1 DEF IInv, ScanInv, Stopped
<1>. QED
  BY <1>3, <1>4, <1>5, <1>6, <1>7, <1>8 DEF IInv

LEMMA StartScanInv ==
  ASSUME TypeOK, IInv, NEW c \in Cells, StartScan(c)
  PROVE  IInv'
<1>. USE SizeAssumption, CellAssumption, WayIdAssumption
<1>1. /\ Stopped /\ scan_cell' = c /\ c # NoCell
      /\ scan_block' = head_way_block[c] /\ scan_slot' = 0 /\ scan_out' = {}
      /\ UNCHANGED <<files, handler, way_block_count, pc, ways_loaded, owner>>
  BY DEF StartScan
<1>2. SlotsInv' /\ FreeInv' /\ ChainInv' /\ PlaceInv' /\ HandlerInv'
  BY <1>1 DEF IInv, SlotsInv, FreeInv, ChainInv, PlaceInv, HandlerInv, Handling, Stopped
<1>3. ScanInv'
  <2>1. Passed' = {}
    <3>. SUFFICES ASSUME NEW b \in Blocks, NEW i \in Slots, owner[b] = c,
                         b > head_way_block[c] \/ (b = head_way_block[c] /\ i < 0)
         PROVE  FALSE
      BY <1>1 DEF Passed
    <3>. QED
      BY DEF IInv, ChainInv, TypeOK
  <2>2. head_way_block[c] # 0 => owner[head_way_block[c]] = c
    BY DEF IInv, ChainInv
  <2>. QED
    BY <1>1, <2>1, <2>2 DEF ScanInv, Stopped
<1>. QED
  BY <1>2, <1>3 DEF IInv

\* What a scan is about to take: a way of the scanned cell, in a slot.
LEMMA ScanPosition ==
  ASSUME TypeOK, IInv, scan_block # 0
  PROVE  /\ scan_block \in Blocks /\ owner[scan_block] = scan_cell /\ scan_cell # NoCell
         /\ ~BlockEnds => /\ scan_slot \in Slots
                          /\ refs[scan_block][scan_slot] > 0
                          /\ refs[scan_block][scan_slot] \in WayIds
         /\ BlockEnds => \A i \in Slots : refs[scan_block][i] > 0 => i < scan_slot
<1>. USE SizeAssumption
<1>1. /\ scan_block \in Blocks /\ owner[scan_block] = scan_cell /\ scan_cell # NoCell
      /\ scan_slot \in 0 .. WAY_BLOCK_SIZE
  BY DEF IInv, ScanInv, TypeOK
<1>2. ASSUME ~BlockEnds
      PROVE  /\ scan_slot \in Slots
             /\ refs[scan_block][scan_slot] > 0
             /\ refs[scan_block][scan_slot] \in WayIds
  <2>1. scan_slot \in Slots /\ refs[scan_block][scan_slot] \in Int
    BY <1>1, <1>2 DEF BlockEnds, TypeOK
  <2>2. refs[scan_block][scan_slot] > 0
    BY <1>2, <2>1 DEF BlockEnds
  <2>. QED
    BY <1>1, <2>1, <2>2 DEF IInv, SlotsInv
<1>3. ASSUME BlockEnds, NEW i \in Slots, refs[scan_block][i] > 0
      PROVE  i < scan_slot
  <2>1. \A j \in 0 .. i : refs[scan_block][j] > 0
    BY <1>1, <1>3 DEF IInv, SlotsInv
  <2>2. CASE scan_slot < WAY_BLOCK_SIZE
    <3>1. ~(refs[scan_block][scan_slot] > 0)
      <4>1. refs[scan_block][scan_slot] <= 0 /\ scan_slot \in Slots
        BY <1>1, <1>3, <2>2 DEF BlockEnds
      <4>2. refs[scan_block][scan_slot] \in Int
        BY <1>1, <4>1 DEF TypeOK
      <4>. QED
        BY <4>1, <4>2
    <3>. QED
      BY <1>1, <2>1, <2>2, <3>1
  <2>3. CASE scan_slot = WAY_BLOCK_SIZE
    BY <2>3
  <2>. QED
    BY <1>1, <2>2, <2>3
<1>. QED
  BY <1>1, <1>2, <1>3

LEMMA ScanWayInv ==
  ASSUME TypeOK, IInv, ScanWay
  PROVE  IInv'
<1>. USE SizeAssumption, CellAssumption, WayIdAssumption
<1>. DEFINE w == refs[scan_block][scan_slot]
<1>1. /\ scan_block # 0
      /\ scan_slot' = scan_slot + 1 /\ scan_out' = scan_out \cup {w}
      /\ UNCHANGED <<files, handler, scan_cell, scan_block, way_block_count, pc,
                     ways_loaded, owner>>
  BY DEF ScanWay
<1>2. /\ scan_block \in Blocks /\ scan_slot \in Slots
      /\ owner[scan_block] = scan_cell /\ scan_cell # NoCell
      /\ w > 0 /\ w \in WayIds
  BY <1>1, ScanPosition DEF ScanWay
<1>3. SlotsInv' /\ FreeInv' /\ ChainInv' /\ PlaceInv' /\ HandlerInv'
  BY <1>1 DEF IInv, SlotsInv, FreeInv, ChainInv, PlaceInv, HandlerInv, Handling, Stopped
<1>4. Passed' = Passed \cup {w}
  <2>1. \A i \in Slots : i < scan_slot + 1 <=> i < scan_slot \/ i = scan_slot
    BY <1>2
  <2>. QED
    BY <1>1, <1>2, <2>1 DEF Passed
<1>5. \A i \in 0 .. scan_slot' - 1 : refs[scan_block][i] > 0
  <2>1. \A i \in 0 .. scan_slot - 1 : refs[scan_block][i] > 0
    BY <1>1 DEF IInv, ScanInv
  <2>. QED
    BY <1>1, <1>2, <2>1
<1>6. ScanInv'
  BY <1>1, <1>2, <1>4, <1>5 DEF IInv, ScanInv, Stopped
<1>. QED
  BY <1>3, <1>6 DEF IInv

LEMMA NextBlockInv ==
  ASSUME TypeOK, IInv, NextBlock
  PROVE  IInv'
<1>. USE SizeAssumption, CellAssumption, WayIdAssumption
<1>1. /\ scan_block # 0 /\ scan_block' = next[scan_block] /\ scan_slot' = 0
      /\ UNCHANGED <<files, handler, scan_cell, scan_out, way_block_count, pc,
                     ways_loaded, owner>>
  BY DEF NextBlock
<1>2. /\ scan_block \in Blocks
      /\ owner[scan_block] = scan_cell /\ scan_cell # NoCell
      /\ \A i \in Slots : refs[scan_block][i] > 0 => i < scan_slot
  BY <1>1, ScanPosition DEF NextBlock
<1>3. SlotsInv' /\ FreeInv' /\ ChainInv' /\ PlaceInv' /\ HandlerInv'
  BY <1>1 DEF IInv, SlotsInv, FreeInv, ChainInv, PlaceInv, HandlerInv, Handling, Stopped
<1>4. /\ next[scan_block] < scan_block /\ next[scan_block] \in 0 .. MAX_WAY_BLOCKS - 1
      /\ next[scan_block] # 0 => owner[next[scan_block]] = scan_cell
      /\ \A d \in Blocks : d < scan_block /\ owner[d] = scan_cell => d <= next[scan_block]
  BY <1>2 DEF IInv, ChainInv, TypeOK
<1>5. ASSUME NEW b \in Blocks, NEW i \in Slots, owner[b] = scan_cell, refs[b][i] > 0
      PROVE  (b > scan_block \/ (b = scan_block /\ i < scan_slot))
               <=> (b > next[scan_block] \/ (b = next[scan_block] /\ i < 0))
  BY <1>2, <1>4, <1>5
<1>6. Passed' = Passed
  <2>. DEFINE Before(b, i) == b > scan_block \/ (b = scan_block /\ i < scan_slot)
              After(b, i)  == b > next[scan_block] \/ (b = next[scan_block] /\ i < 0)
              At(w, b, i)  == refs[b][i] = w /\ owner[b] = scan_cell
  <2>1. \A w \in WayIds, b \in Blocks, i \in Slots :
          At(w, b, i) => (Before(b, i) <=> After(b, i))
    BY <1>5
  <2>2. Passed' = {w \in WayIds : \E b \in Blocks, i \in Slots : At(w, b, i) /\ After(b, i)}
    BY <1>1 DEF Passed
  <2>3. Passed = {w \in WayIds : \E b \in Blocks, i \in Slots : At(w, b, i) /\ Before(b, i)}
    BY DEF Passed
  <2>. HIDE DEF At, Before, After
  <2>. QED
    BY <2>1, <2>2, <2>3
<1>7. ScanInv'
  BY <1>1, <1>2, <1>4, <1>6 DEF IInv, ScanInv, Stopped
<1>. QED
  BY <1>3, <1>7 DEF IInv

-----------------------------------------------------------------------------
\* The loader and the extraction, at every step and whatever the constants,
\* keep the blocks typed and IInv true.
THEOREM Invariance == Spec => [](TypeOK /\ IInv)
<1>1. TypeOK /\ IInv /\ [Next]_vars => (TypeOK /\ IInv)'
  <2>. SUFFICES ASSUME TypeOK, IInv, [Next]_vars PROVE IInv'
    BY TypeStep
  <2>1. CASE Load
    BY <2>1, HandleWayInv, StopInv, NewWayBlockInv, SetNextInv, SetHeadInv,
       StoreRefInv, CountFreeInv DEF Load
  <2>2. CASE Extract
    BY <2>2, StartScanInv, ScanWayInv, NextBlockInv DEF Extract
  <2>3. CASE UNCHANGED vars
    BY <2>3 DEF vars, IInv, SlotsInv, FreeInv, ChainInv, PlaceInv, HandlerInv, ScanInv,
                Handling, Stopped, Passed
  <2>. QED
    BY <2>1, <2>2, <2>3 DEF Next
<1>. QED
  BY InitInv, <1>1, PTL DEF Spec

-----------------------------------------------------------------------------
\* handle_way stores a reference only in a block with a free slot: the die of
\* vex.c:524 is never reached.
THEOREM FreeSlotIsCertain == Spec => []FreeSlotCertain
<1>1. TypeOK /\ IInv => FreeSlotCertain
  BY DEF IInv, HandlerInv, FreeSlotCertain
<1>. QED
  BY Invariance, <1>1, PTL

\* An extraction's scan of a cell comes to each of its loaded ways and to no
\* other way, save one whose handle_way was interrupted.
THEOREM ScanIsExact == Spec => []ScanExact
<1>1. TypeOK /\ IInv => ScanExact
  <2>. USE WayIdAssumption
  <2>. SUFFICES ASSUME TypeOK, IInv, scan_block = 0, scan_cell # NoCell
       PROVE  /\ \A w \in ways_loaded : CellOf[w] = scan_cell => w \in scan_out
              /\ \A w \in scan_out : CellOf[w] = scan_cell /\ w \in ways_loaded \cup {way}
    BY DEF ScanExact
  <2>1. scan_out = Passed
    BY DEF IInv, ScanInv
  <2>2. ASSUME NEW w \in ways_loaded, CellOf[w] = scan_cell PROVE w \in Passed
    <3>1. PICK b \in Blocks, i \in Slots : refs[b][i] = w
      BY DEF IInv, PlaceInv
    <3>2. w \in WayIds /\ w > 0
      BY DEF TypeOK
    <3>3. owner[b] = scan_cell
      BY <2>2, <3>1, <3>2 DEF IInv, PlaceInv
    <3>. QED
      BY <3>1, <3>2, <3>3 DEF Passed
  <2>3. ASSUME NEW w \in Passed
        PROVE  CellOf[w] = scan_cell /\ w \in ways_loaded \cup {way}
    <3>1. PICK b \in Blocks, i \in Slots : refs[b][i] = w /\ owner[b] = scan_cell
      BY DEF Passed
    <3>2. w \in WayIds
      BY DEF Passed
    <3>3. w > 0
      BY <3>2
    <3>. QED
      BY <3>1, <3>3 DEF IInv, PlaceInv
  <2>. QED
    BY <2>1, <2>2, <2>3
<1>. QED
  BY Invariance, <1>1, PTL

\* No way comes up twice in a scan, in whatever block of the chain it is.
THEOREM ScansNoWayTwice == Spec => []NoWayTwice
<1>1. TypeOK /\ IInv => NoWayTwice
  <2>. SUFFICES ASSUME TypeOK, IInv, scan_block # 0, ~BlockEnds,
                       refs[scan_block][scan_slot] \in scan_out
       PROVE  FALSE
    BY DEF NoWayTwice
  <2>. DEFINE w == refs[scan_block][scan_slot]
  <2>1. /\ scan_block \in Blocks /\ scan_slot \in Slots
        /\ scan_cell # NoCell /\ w > 0
    BY ScanPosition
  <2>2. PICK b \in Blocks, i \in Slots :
          refs[b][i] = w /\ (b > scan_block \/ (b = scan_block /\ i < scan_slot))
    BY <2>1 DEF IInv, ScanInv, Passed
  <2>3. b = scan_block /\ i = scan_slot
    BY <2>1, <2>2 DEF IInv, PlaceInv
  <2>. QED
    BY <2>2, <2>3
<1>. QED
  BY Invariance, <1>1, PTL

-----------------------------------------------------------------------------
(* Refinement of the abstract index. *)

\* While the slots that hold ways keep them and their blocks keep their owner,
\* no cell gains or loses a way.
LEMMA SameIndex ==
  ASSUME NEW c \in Cells, IInv,
         \A b \in Blocks, i \in Slots : refs'[b][i] > 0 => refs'[b][i] = refs[b][i],
         \A b \in Blocks, i \in Slots :
           refs[b][i] > 0 => refs'[b][i] = refs[b][i] /\ owner'[b] = owner[b]
  PROVE  IndexedIn(c)' = IndexedIn(c)
<1>. USE WayIdAssumption
<1>1. ASSUME NEW w \in WayIds, NEW b \in Blocks, NEW i \in Slots
      PROVE  owner'[b] = c /\ refs'[b][i] = w <=> owner[b] = c /\ refs[b][i] = w
  <2>1. w > 0
    OBVIOUS
  <2>. QED
    BY <2>1
<1>2. ASSUME NEW w \in WayIds PROVE w \in IndexedIn(c)' <=> w \in IndexedIn(c)
  BY <1>1 DEF IndexedIn
<1>3. IndexedIn(c)' \subseteq WayIds /\ IndexedIn(c) \subseteq WayIds
  BY DEF IndexedIn
<1>. QED
  BY <1>2, <1>3

LEMMA InitRefines == Init => Index!Init
<1>. SUFFICES ASSUME Init PROVE Index!Init
  OBVIOUS
<1>1. ASSUME NEW c \in Cells PROVE IndexedIn(c) = {}
  BY CellAssumption DEF Init, IndexedIn
<1>. QED
  BY <1>1 DEF Init, Index!Init

\* A step of the loader adds a way to the index or leaves it as it is.
LEMMA LoadRefines ==
  ASSUME TypeOK, IInv, Load
  PROVE  Index!Next \/ UNCHANGED Index!indexVars
<1>. USE SizeAssumption, CellAssumption, WayIdAssumption
<1>1. UNCHANGED scan
  BY DEF Load, HandleWay, DieTooManyBlocks, NewWayBlock, SetNext, SetHead,
         StoreRef, CountFree, Finish, Kill
<1>2. ASSUME \A c \in Cells : IndexedIn(c)' = IndexedIn(c)
      PROVE  UNCHANGED Index!indexVars
  BY <1>1, <1>2 DEF Index!indexVars
<1>3. ASSUME UNCHANGED <<refs, owner>>
      PROVE  UNCHANGED Index!indexVars
  BY <1>2, <1>3 DEF IndexedIn
<1>4. CASE NewWayBlock
  <2>1. way_block_count \in Blocks /\ Last \in Slots /\ owner' = owner
    BY <1>4 DEF NewWayBlock, TypeOK
  <2>2. \A b \in Blocks, i \in Slots :
          refs'[b][i] = IF b = way_block_count /\ i = Last THEN -WAY_BLOCK_SIZE ELSE refs[b][i]
    BY <1>4, <2>1 DEF NewWayBlock, TypeOK
  <2>3. refs[way_block_count][Last] = 0
    BY <2>1 DEF IInv, SlotsInv
  <2>. QED
    BY <1>2, <2>1, <2>2, <2>3, SameIndex
<1>5. CASE SetHead
  <2>1. /\ wb \in Blocks /\ owner[wb] = NoCell /\ refs' = refs
        /\ owner' = [owner EXCEPT ![wb] = CellOf[way]]
    BY <1>5 DEF SetHead, IInv, HandlerInv
  <2>2. \A b \in Blocks, i \in Slots : refs[b][i] > 0 => b # wb
    <3>. SUFFICES ASSUME NEW i \in Slots, refs[wb][i] > 0 PROVE FALSE
      OBVIOUS
    <3>1. refs[wb][i] \in WayIds /\ owner[wb] = CellOf[refs[wb][i]]
      BY <2>1 DEF IInv, SlotsInv, PlaceInv
    <3>. QED
      BY <2>1, <3>1
  <2>3. \A b \in Blocks, i \in Slots :
          refs[b][i] > 0 => refs'[b][i] = refs[b][i] /\ owner'[b] = owner[b]
    BY <2>1, <2>2 DEF TypeOK
  <2>. QED
    BY <1>2, <2>1, <2>3, SameIndex
<1>6. CASE StoreRef
  <2>. DEFINE c == CellOf[way]
  <2>1. /\ pc = "store_ref" /\ wb \in Blocks /\ owner[wb] = c
        /\ way \in WayIds \ ways_loaded /\ c \in Cells /\ owner' = owner
    BY <1>6 DEF StoreRef, IInv, HandlerInv, Handling
  <2>2. PICK k \in Slots :
          /\ refs[wb][Last] = k - WAY_BLOCK_SIZE
          /\ \A j \in 0 .. Last - 1 : refs[wb][j] > 0 <=> j < k
          /\ \A b \in Blocks, i \in Slots :
               refs'[b][i] = IF b = wb /\ i = k THEN way ELSE refs[b][i]
    BY <1>6, FreeSlot
  <2>3. ~(refs[wb][k] > 0)
    BY <2>2
  <2>4. \A b \in Blocks, i \in Slots : refs[b][i] # way
    BY <2>1 DEF IInv, PlaceInv
  <2>5. ASSUME NEW d \in Cells
        PROVE  IndexedIn(d)' = IF d = c THEN IndexedIn(d) \cup {way} ELSE IndexedIn(d)
    <3>1. ASSUME NEW w \in WayIds, w # way, NEW b \in Blocks, NEW i \in Slots
          PROVE  refs'[b][i] = w <=> refs[b][i] = w
      <4>1. w > 0
        OBVIOUS
      <4>. QED
        BY <2>1, <2>2, <2>3, <3>1, <4>1
    <3>2. \A b \in Blocks, i \in Slots : refs'[b][i] = way <=> b = wb /\ i = k
      BY <2>1, <2>2, <2>4
    <3>3. ASSUME NEW w \in WayIds, w # way
          PROVE  w \in IndexedIn(d)' <=> w \in IndexedIn(d)
      <4>1. \A b \in Blocks, i \in Slots : refs'[b][i] = w <=> refs[b][i] = w
        BY <3>1, <3>3
      <4>. HIDE DEF c
      <4>. QED
        BY <2>1, <4>1 DEF IndexedIn
    <3>4. way \in IndexedIn(d)' <=> d = c
      BY <2>1, <3>2 DEF IndexedIn
    <3>5. way \notin IndexedIn(d)
      BY <2>4 DEF IndexedIn
    <3>6. IndexedIn(d)' \subseteq WayIds /\ IndexedIn(d) \subseteq WayIds
      BY DEF IndexedIn
    <3>7. CASE d = c
      <4>1. \A w : w \in IndexedIn(d)' <=> w \in IndexedIn(d) \cup {way}
        BY <3>3, <3>4, <3>6, <3>7
      <4>. QED
        BY <3>7, <4>1
    <3>8. CASE d # c
      <4>1. way \notin IndexedIn(d)' /\ way \notin IndexedIn(d)
        BY <3>4, <3>5, <3>8
      <4>2. \A w : w \in IndexedIn(d)' <=> w \in IndexedIn(d)
        BY <3>3, <3>6, <4>1
      <4>. QED
        BY <3>8, <4>2
    <3>. QED
      BY <3>7, <3>8
  <2>6. way \notin Index!Indexed
    BY <2>4 DEF Index!Indexed, IndexedIn
  <2>7. Index!AddWay(c, way)
    BY <1>1, <2>1, <2>5, <2>6 DEF Index!AddWay
  <2>. QED
    BY <2>1, <2>7 DEF Index!Next
<1>7. CASE CountFree
  <2>1. owner' = owner
    BY <1>7 DEF CountFree
  <2>. QED
    BY <1>2, <1>7, <2>1, CountedSlot, SameIndex
<1>. QED
  BY <1>3, <1>4, <1>5, <1>6, <1>7
     DEF Load, HandleWay, DieTooManyBlocks, SetNext, Finish, Kill

\* A step of the extraction gives an answer, drops one, or is not visible.
LEMMA ExtractRefines ==
  ASSUME TypeOK, IInv, IInv', Extract
  PROVE  Index!Next \/ UNCHANGED Index!indexVars
<1>. USE SizeAssumption, CellAssumption, WayIdAssumption
<1>1. UNCHANGED <<refs, owner>>
  BY DEF Extract, StartScan, ScanWay, NextBlock
<1>2. \A c \in Cells : IndexedIn(c)' = IndexedIn(c)
  BY <1>1 DEF IndexedIn
<1>3. ASSUME scan_block' = 0, scan_cell' \in Cells
      PROVE  Index!ReadCell(scan_cell')
  <2>1. scan_cell' # NoCell /\ scan_out' = Passed'
    BY <1>3 DEF IInv, ScanInv
  <2>2. Passed' = IndexedIn(scan_cell')
    BY <1>1, <1>3 DEF Passed, IndexedIn
  <2>. QED
    BY <1>2, <1>3, <2>1, <2>2 DEF Index!ReadCell
<1>4. ASSUME NEW c \in Cells, StartScan(c) PROVE Index!Next
  <2>1. CASE scan_block' = 0
    BY <1>3, <1>4, <2>1 DEF StartScan, Index!Next
  <2>2. CASE scan_block' # 0
    BY <1>2, <2>2 DEF Index!Next, Index!Forget
  <2>. QED
    BY <2>1, <2>2
<1>5. CASE ScanWay
  BY <1>2, <1>5 DEF ScanWay, Index!indexVars
<1>6. CASE NextBlock
  <2>1. scan_cell' = scan_cell /\ scan_cell \in Cells /\ scan_block # 0
    BY <1>6, ScanPosition DEF NextBlock, TypeOK
  <2>2. CASE scan_block' = 0
    BY <1>3, <2>1, <2>2 DEF Index!Next
  <2>3. CASE scan_block' # 0
    BY <1>2, <2>1, <2>3 DEF Index!indexVars
  <2>. QED
    BY <2>2, <2>3
<1>. QED
  BY <1>4, <1>5, <1>6 DEF Extract

\* The chains of way blocks, with the loader's separate stores and its death
\* between any two of them, implement an index that adds a way in one step and
\* answers with a whole cell.
THEOREM Refinement == Spec => RefinesIndex
<1>1. TypeOK /\ IInv /\ (TypeOK /\ IInv)' /\ [Next]_vars => [Index!Next]_Index!indexVars
  <2>. SUFFICES ASSUME TypeOK, IInv, IInv', [Next]_vars
       PROVE  Index!Next \/ UNCHANGED Index!indexVars
    OBVIOUS
  <2>1. CASE UNCHANGED vars
    BY <2>1 DEF vars, Index!indexVars, IndexedIn
  <2>. QED
    BY <2>1, LoadRefines, ExtractRefines DEF Next
<1>. QED
  BY Invariance, InitRefines, <1>1, PTL DEF Spec, RefinesIndex, Index!Spec

\* Carries the lemma InductiveSet.
First(a, b) == a
Counting == INSTANCE SeqFold WITH op <- First

-----------------------------------------------------------------------------
(* Chains as recursion follows them.                                       *)

\* Also a block that was numbered and never linked points to one before it.
NextBefore == \A b \in Blocks : next[b] < b

LEMMA NextBeforeInv == Spec => []NextBefore
<1>. USE SizeAssumption, CellAssumption, WayIdAssumption
<1>1. Init => NextBefore
  BY DEF Init, NextBefore
<1>2. TypeOK /\ IInv /\ NextBefore /\ [Next]_vars => NextBefore'
  <2>. SUFFICES ASSUME TypeOK, IInv, NextBefore, [Next]_vars  PROVE NextBefore'
    OBVIOUS
  <2>1. CASE NewWayBlock
    BY <2>1 DEF NewWayBlock, NextBefore, TypeOK
  <2>2. CASE SetNext
    <3>1. /\ wb \in Blocks /\ wb = way_block_count - 1 /\ owner[wb] = NoCell /\ wbi # 0
          /\ CellOf[way] \in Cells /\ wbi = head_way_block[CellOf[way]]
      BY <2>2 DEF SetNext, IInv, HandlerInv, Handling
    <3>2. owner[wbi] = CellOf[way] /\ wbi \in Blocks
      <4>1. \A c \in Cells : head_way_block[c] # 0 => owner[head_way_block[c]] = c
        BY DEF IInv, ChainInv
      <4>2. wbi \in Blocks
        BY <3>1 DEF TypeOK, Blocks
      <4>. QED
        BY <3>1, <4>1, <4>2
    <3>3. wbi < way_block_count /\ wbi # wb
      BY <3>1, <3>2 DEF IInv, ChainInv
    <3>4. wbi < wb
      <4>1. way_block_count \in Int /\ wbi \in Int
        BY DEF TypeOK
      <4>. QED
        BY <3>1, <3>3, <4>1
    <3>5. next' = [next EXCEPT ![wb] = wbi]
      BY <2>2 DEF SetNext
    <3>. QED
      BY <3>1, <3>4, <3>5 DEF NextBefore, TypeOK
  <2>3. CASE UNCHANGED next
    BY <2>3 DEF NextBefore
  <2>. QED
    BY <2>1, <2>2, <2>3 DEF Next, Load, HandleWay, DieTooManyBlocks, SetHead, StoreRef,
       CountFree, Finish, Kill, Extract, StartScan, ScanWay, NextBlock, vars
<1>. QED
  BY <1>1, <1>2, Invariance, PTL DEF Spec

LEMMA ChainFromIs ==
  ASSUME TypeOK, NextBefore
  PROVE  /\ ChainFrom[0] = {}
         /\ \A b \in Blocks : ChainFrom[b] = {b} \cup ChainFrom[next[b]]
<1> DEFINE D == 0 .. MAX_WAY_BLOCKS - 1
           Follows(f, n) ==
             \A b \in 0 .. n : f[b] = IF b = 0 THEN {} ELSE {b} \cup f[next[b]]
           S == {n \in Nat : n \in D => \E f : Follows(f, n)}
<1>1. \A b \in Blocks : next[b] \in 0 .. b - 1
  BY SizeAssumption DEF TypeOK, NextBefore
<1>2. 0 \in S
  <2>1. Follows([b \in 0 .. 0 |-> {}], 0)
    OBVIOUS
  <2>2. QED
    BY <2>1
<1>3. ASSUME NEW n \in Nat, n \in S  PROVE n + 1 \in S
  <2> SUFFICES ASSUME n + 1 \in D  PROVE \E f : Follows(f, n + 1)
    OBVIOUS
  <2>1. n \in D
    BY SizeAssumption
  <2>2. PICK f : Follows(f, n)
    BY <1>3, <2>1
  <2>3. \A b \in 1 .. n + 1 : b \in Blocks /\ next[b] \in 0 .. b - 1 /\ next[b] \in 0 .. n
    BY <1>1, SizeAssumption
  <2> DEFINE g == [b \in 0 .. n + 1 |-> IF b = n + 1 THEN {b} \cup f[next[b]] ELSE f[b]]
  <2>4. \A b \in 0 .. n : g[b] = f[b]
    OBVIOUS
  <2>5. g[n + 1] = {n + 1} \cup f[next[n + 1]]
    OBVIOUS
  <2> HIDE DEF g
  <2>6. ASSUME NEW b \in 0 .. n + 1  PROVE g[b] = IF b = 0 THEN {} ELSE {b} \cup g[next[b]]
    <3>1. CASE b \in 0 .. n
      <4>1. g[b] = f[b]
        BY <2>4, <3>1
      <4>2. f[b] = IF b = 0 THEN {} ELSE {b} \cup f[next[b]]
        BY <2>2, <3>1
      <4>3. b # 0 => next[b] \in 0 .. n
        BY <2>3, <3>1
      <4>4. b # 0 => g[next[b]] = f[next[b]]
        BY <2>4, <4>3
      <4>5. QED
        BY <4>1, <4>2, <4>4
    <3>3. CASE b = n + 1
      BY <2>3, <2>4, <2>5, <3>3
    <3>4. QED
      BY <3>1, <3>3
  <2>7. Follows(g, n + 1)
    BY <2>6
  <2>8. QED
    BY <2>7
<1> HIDE DEF S
<1>4. Nat \subseteq S
  BY <1>2, <1>3, Counting!InductiveSet
<1>5. MAX_WAY_BLOCKS - 1 \in S /\ MAX_WAY_BLOCKS - 1 \in D
  BY <1>4, SizeAssumption
<1>6. PICK f : Follows(f, MAX_WAY_BLOCKS - 1)
  BY <1>5 DEF S
<1>7. 0 \in D /\ \A b \in D : b # 0 => b \in Blocks /\ next[b] \in D
  BY <1>1, SizeAssumption
<1> DEFINE F == [b \in D |-> f[b]]
           Step(g) == [b \in D |-> IF b = 0 THEN {} ELSE {b} \cup g[next[b]]]
<1>8. F = Step(F)
  <2>1. ASSUME NEW b \in D  PROVE f[b] = IF b = 0 THEN {} ELSE {b} \cup F[next[b]]
    <3>1. f[b] = IF b = 0 THEN {} ELSE {b} \cup f[next[b]]
      BY <1>6
    <3>2. b # 0 => F[next[b]] = f[next[b]]
      BY <1>7
    <3>3. QED
      BY <3>1, <3>2
  <2>2. QED
    BY <2>1
<1> HIDE DEF F, D
<1>9. ChainFrom = CHOOSE g : g = Step(g)
  BY DEF ChainFrom, D
<1> HIDE DEF Step
<1>10. ChainFrom = Step(ChainFrom)
  BY <1>8, <1>9
<1>11. \A b \in D : ChainFrom[b] = IF b = 0 THEN {} ELSE {b} \cup ChainFrom[next[b]]
  <2> DEFINE C == ChainFrom
  <2> HIDE DEF C
  <2>1. C = Step(C)
    BY <1>10 DEF C
  <2>2. \A b \in D : Step(C)[b] = IF b = 0 THEN {} ELSE {b} \cup C[next[b]]
    BY DEF Step
  <2>3. \A b \in D : C[b] = Step(C)[b]
    BY <2>1
  <2>4. QED
    BY <2>2, <2>3 DEF C
<1>12. 0 \in D /\ \A b \in Blocks : b \in D /\ b # 0
  BY SizeAssumption DEF D
<1>13. QED
  BY <1>11, <1>12

\* The chain from a block of a cell has the blocks of the cell up to it.
LEMMA ChainHas ==
  ASSUME TypeOK, IInv, NextBefore, NEW c \in Cells
  PROVE  \A b \in Blocks : owner[b] = c =>
           ChainFrom[b] = {d \in Blocks : owner[d] = c /\ d =< b}
<1> DEFINE Is(b) == b \in Blocks /\ owner[b] = c =>
                      ChainFrom[b] = {d \in Blocks : owner[d] = c /\ d =< b}
           S == {n \in Nat : \A b \in 0 .. n : Is(b)}
<1>1. 0 \in S
  OBVIOUS
<1>2. ASSUME NEW n \in Nat, n \in S  PROVE n + 1 \in S
  <2> DEFINE b == n + 1
             m == next[b]
  <2>1. ASSUME b \in Blocks, owner[b] = c
        PROVE  ChainFrom[b] = {d \in Blocks : owner[d] = c /\ d =< b}
    <3>1. ChainFrom[b] = {b} \cup ChainFrom[m]
      BY <2>1, ChainFromIs
    <3>2. m \in 0 .. n
      BY <2>1, SizeAssumption DEF TypeOK, NextBefore
    <3>3. \A d \in Blocks : d < b /\ owner[d] = c => d =< m
      BY <2>1, CellAssumption DEF IInv, ChainInv
    <3>4. ChainFrom[m] = {d \in Blocks : owner[d] = c /\ d =< m}
      <4>1. CASE m = 0
        BY <4>1, ChainFromIs
      <4>2. CASE m # 0
        <5>1. m \in Blocks /\ owner[m] = c
          BY <2>1, <3>2, <4>2, CellAssumption, SizeAssumption DEF IInv, ChainInv
        <5>2. Is(m)
          BY <1>2, <3>2
        <5>3. QED
          BY <5>1, <5>2
      <4>3. QED
        BY <4>1, <4>2
    <3> HIDE DEF m
    <3>5. QED
      BY <2>1, <3>1, <3>2, <3>3, <3>4
  <2>2. Is(b)
    BY <2>1
  <2> HIDE DEF Is
  <2>3. \A d \in 0 .. n + 1 : d \in 0 .. n \/ d = b
    OBVIOUS
  <2>4. QED
    BY <1>2, <2>2, <2>3
<1>3. Nat \subseteq S
  <2> HIDE DEF S
  <2>1. QED
    BY <1>1, <1>2, Counting!InductiveSet
<1>4. QED
  BY <1>3, SizeAssumption

(* No block is lost from the chain of a cell and none is in two, after any *)
(* store of the loader and wherever it is killed (vex.c:276-289, 516-523). *)
THEOREM ChainsStayIntact == Spec => []ChainsIntact
<1>1. TypeOK /\ IInv /\ NextBefore => ChainsIntact
  <2>. SUFFICES ASSUME TypeOK, IInv, NextBefore, NEW c \in Cells
       PROVE  ChainFrom[head_way_block[c]] = {b \in Blocks : owner[b] = c}
    BY DEF ChainsIntact
  <2>1. \A b \in Blocks : owner[b] = c => b =< head_way_block[c]
    BY DEF IInv, ChainInv
  <2>2. CASE head_way_block[c] = 0
    BY <2>1, <2>2, ChainFromIs
  <2>3. CASE head_way_block[c] # 0
    BY <2>1, <2>3, ChainHas DEF IInv, ChainInv, TypeOK
  <2>. QED
    BY <2>2, <2>3
<1>. QED
  BY <1>1, Invariance, NextBeforeInv, PTL
=============================================================================
