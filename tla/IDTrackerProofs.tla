-------------------------- MODULE IDTrackerProofs ---------------------------
(***************************************************************************)
(* The bitset implements the set of ids, for every bin size, number of     *)
(* bins and width of an int, and for every id whose bin is an int.         *)
(***************************************************************************)
EXTENDS IDTracker, TLAPS

\* A bin and a bit in it belong to one id only.
LEMMA OnePlace ==
  ASSUME NEW b \in Nat, NEW c \in Nat, NEW i \in Bits, NEW j \in Bits,
         BIN_SIZE * b + i = BIN_SIZE * c + j
  PROVE  b = c /\ i = j
<1>1. BIN_SIZE \in Nat /\ BIN_SIZE > 0
  BY BinAssumption
<1>2. i \in 0 .. BIN_SIZE - 1 /\ j \in 0 .. BIN_SIZE - 1
  BY DEF Bits
<1>3. ASSUME NEW m \in Nat, NEW n \in Nat, m < n
      PROVE  BIN_SIZE * n >= BIN_SIZE * m + BIN_SIZE
  <2>1. PICK d \in Nat : n = m + 1 + d
    <3>1. n - m - 1 \in Nat /\ n = m + 1 + (n - m - 1)
      BY <1>3
    <3>2. QED
      BY <3>1
  <2>2. BIN_SIZE * n = BIN_SIZE * m + BIN_SIZE + BIN_SIZE * d
    BY <2>1, <1>1
  <2>3. BIN_SIZE * d \in Nat /\ BIN_SIZE * m \in Nat
    BY <1>1
  <2>4. QED
    BY <2>2, <2>3, <1>1
<1>4. BIN_SIZE * b \in Nat /\ BIN_SIZE * c \in Nat
  BY <1>1
<1>5. ~(b < c) /\ ~(c < b)
  BY <1>1, <1>2, <1>3, <1>4
<1>6. b = c
  BY <1>5
<1>7. QED
  BY <1>6, <1>2, <1>4

\* What Bin and Bit compute is an int and a bit.
LEMMA PlaceType ==
  ASSUME NEW id \in Nat
  PROVE  Bin(id) \in Int /\ Bit(id) \in Bits
<1>1. id \div BIN_SIZE \in Nat /\ Bit(id) \in Bits
  BY BinAssumption DEF Bit, Bits
<1>2. (id \div BIN_SIZE) % INT_WIDTH \in Int /\ INT_WIDTH \in Int
  BY <1>1, IntAssumption
<1>3. QED
  BY <1>1, <1>2 DEF Bin

\* Where no bin is cut, an id in the array has the place that Bin and Bit compute.
LEMMA PlaceOf ==
  ASSUME FitsInt, NEW id \in Ids, Bin(id) \in Bins
  PROVE  /\ Bin(id) \in Nat /\ Bit(id) \in Bits
         /\ id = BIN_SIZE * Bin(id) + Bit(id)
<1> DEFINE bin_index == id \div BIN_SIZE
<1>1. id \in Nat /\ BIN_SIZE \in Nat /\ BIN_SIZE > 0 /\ INT_WIDTH \in Nat /\ INT_WIDTH > 0
  BY IdAssumption, BinAssumption, IntAssumption
<1>2. /\ bin_index \in Nat /\ Bit(id) \in Bits
      /\ id = BIN_SIZE * bin_index + Bit(id)
  BY <1>1 DEF Bit, Bits
<1>3. bin_index < INT_WIDTH
  <2>1. SUFFICES ASSUME bin_index >= INT_WIDTH  PROVE FALSE
    BY <1>1, <1>2
  <2>2. PICK d \in Nat : bin_index = INT_WIDTH + d
    <3>1. bin_index - INT_WIDTH \in Nat /\ bin_index = INT_WIDTH + (bin_index - INT_WIDTH)
      BY <1>1, <1>2, <2>1
    <3>2. QED
      BY <3>1
  <2>3. BIN_SIZE * bin_index = INT_WIDTH * BIN_SIZE + BIN_SIZE * d
    BY <1>1, <2>2
  <2>4. BIN_SIZE * d \in Nat /\ INT_WIDTH * BIN_SIZE \in Nat /\ Bit(id) >= 0
    BY <1>1, <1>2 DEF Bits
  <2>5. id < INT_WIDTH * BIN_SIZE
    BY DEF FitsInt
  <2>6. QED
    BY <1>2, <2>3, <2>4, <2>5, <1>1 DEF Bits
<1>4. bin_index % INT_WIDTH = bin_index
  BY <1>1, <1>2, <1>3
<1>5. Bin(id) >= 0
  BY BinAssumption DEF Bins
<1>6. Bin(id) = bin_index
  <2>1. Bin(id) = IF bin_index < INT_WIDTH \div 2 THEN bin_index ELSE bin_index - INT_WIDTH
    BY <1>4 DEF Bin
  <2>2. QED
    BY <2>1, <1>1, <1>2, <1>3, <1>5
<1>7. QED
  BY <1>2, <1>6

LEMMA IsFlagged ==
  ASSUME FitsInt, TypeOK, NEW id \in Ids, Bin(id) \in Bins
  PROVE  id \in Flagged <=> Bit(id) \in bins[Bin(id)]
<1>1. Bin(id) \in Bins
  OBVIOUS
<1>2. ASSUME Bit(id) \in bins[Bin(id)]  PROVE id \in Flagged
  BY <1>1, <1>2, PlaceOf DEF Flagged
<1>3. ASSUME id \in Flagged  PROVE Bit(id) \in bins[Bin(id)]
  <2>1. PICK b \in Bins, i \in Bits : i \in bins[b] /\ id = BIN_SIZE * b + i
    BY <1>3 DEF Flagged, TypeOK
  <2>2. b \in Nat
    BY BinAssumption DEF Bins
  <2>3. b = Bin(id) /\ i = Bit(id)
    BY <2>1, <2>2, PlaceOf, OnePlace
  <2>4. QED
    BY <2>1, <2>3
<1>4. QED
  BY <1>2, <1>3

LEMMA InitTypeOK == Init => TypeOK
<1> SUFFICES ASSUME Init PROVE TypeOK
  OBVIOUS
<1>1. bins \in [Bins -> SUBSET Bits] /\ asked \in Nat
  BY DEF Init
<1>2. result \in BOOLEAN /\ exited \in BOOLEAN
  BY DEF Init
<1>3. QED
  BY <1>1, <1>2 DEF TypeOK

LEMMA NextTypeOK == TypeOK /\ [Next]_vars => TypeOK'
<1> SUFFICES ASSUME TypeOK, [Next]_vars PROVE TypeOK'
  OBVIOUS
<1>1. CASE Reset
  BY <1>1 DEF Reset, TypeOK
<1>2. ASSUME NEW id \in Ids, Set(id) PROVE TypeOK'
  <2>1. Bit(id) \in Bits
    BY IdAssumption, PlaceType
  <2>2. bins' \in [Bins -> SUBSET Bits]
    BY <1>2, <2>1 DEF Set, TypeOK
  <2>3. QED
    BY <1>2, <2>2, IdAssumption DEF Set, TypeOK
<1>3. ASSUME NEW id \in Ids, Get(id) PROVE TypeOK'
  BY <1>3, IdAssumption DEF Get, TypeOK
<1>4. ASSUME NEW id \in Ids, Exit(id) PROVE TypeOK'
  BY <1>4 DEF Exit, TypeOK
<1>5. ASSUME NEW id \in Ids, LeaveArray(id) PROVE TypeOK'
  BY <1>5 DEF LeaveArray, TypeOK
<1>6. CASE UNCHANGED vars
  BY <1>6 DEF vars, TypeOK
<1>7. QED
  BY <1>1, <1>2, <1>3, <1>4, <1>5, <1>6 DEF Next

LEMMA InitRefines == Init => Abstract!Init
BY DEF Init, Abstract!Init, Flagged

\* Setting the bit of an id adds that id and no other.
LEMMA SetAdds ==
  ASSUME FitsInt, TypeOK, NEW id \in Ids, Set(id)
  PROVE  Flagged' = Flagged \cup {id}
<1>1. id \in Nat /\ Bin(id) \in Bins /\ Bit(id) \in Bits
  BY IdAssumption, PlaceOf DEF Set
<1>2. bins' = [bins EXCEPT ![Bin(id)] = bins[Bin(id)] \cup {Bit(id)}]
  BY DEF Set
<1>3. ASSUME NEW x \in Flagged  PROVE x \in Flagged'
  <2>1. PICK b \in Bins, i \in Bits : i \in bins[b] /\ x = BIN_SIZE * b + i
    BY <1>3 DEF Flagged, TypeOK
  <2>2. i \in bins'[b]
    BY <1>1, <1>2, <2>1 DEF TypeOK
  <2>3. QED
    BY <2>1, <2>2 DEF Flagged
<1>4. id \in Flagged'
  <2>1. Bit(id) \in bins'[Bin(id)]
    BY <1>1, <1>2 DEF TypeOK
  <2>2. QED
    BY <2>1, <1>1, PlaceOf DEF Flagged
<1>5. ASSUME NEW x \in Flagged', x # id  PROVE x \in Flagged
  <2>1. PICK b \in Bins, i \in Bits : i \in bins'[b] /\ x = BIN_SIZE * b + i
    <3>1. bins' \in [Bins -> SUBSET Bits]
      BY <1>1, <1>2 DEF TypeOK
    <3>2. QED
      BY <1>5, <3>1 DEF Flagged
  <2>2. <<b, i>> # <<Bin(id), Bit(id)>>
    BY <1>1, <1>5, <2>1, PlaceOf
  <2>3. i \in bins[b]
    BY <1>1, <1>2, <2>1, <2>2 DEF TypeOK
  <2>4. QED
    BY <2>1, <2>3 DEF Flagged
<1>6. QED
  BY <1>3, <1>4, <1>5

LEMMA NextRefines ==
  ASSUME FitsInt, TypeOK, [Next]_vars
  PROVE  [Abstract!Next]_<<Flagged, asked, result>>
<1>1. CASE Reset
  <2>1. Flagged' = {}
    BY <1>1 DEF Reset, Flagged
  <2>2. QED
    BY <1>1, <2>1 DEF Reset, Abstract!Next, Abstract!Reset
<1>2. ASSUME NEW id \in Ids, Set(id)
      PROVE  [Abstract!Next]_<<Flagged, asked, result>>
  <2>1. result' = (id \in Flagged)
    BY <1>2, IsFlagged DEF Set
  <2>2. Flagged' = Flagged \cup {id} /\ asked' = id
    BY <1>2, SetAdds DEF Set
  <2>3. Abstract!Set(id)
    BY <2>1, <2>2, Zenon DEF Abstract!Set
  <2>4. QED
    BY <2>3 DEF Abstract!Next
<1>3. ASSUME NEW id \in Ids, Get(id)
      PROVE  [Abstract!Next]_<<Flagged, asked, result>>
  <2>1. result' = (id \in Flagged)
    BY <1>3, IsFlagged DEF Get
  <2>2. Flagged' = Flagged /\ asked' = id
    BY <1>3 DEF Get, Flagged
  <2>3. Abstract!Get(id)
    BY <2>1, <2>2, Zenon DEF Abstract!Get
  <2>4. QED
    BY <2>3 DEF Abstract!Next
<1>4. ASSUME NEW id \in Ids, Exit(id)
      PROVE  [Abstract!Next]_<<Flagged, asked, result>>
  BY <1>4 DEF Exit, Flagged
<1>5. ASSUME NEW id \in Ids, LeaveArray(id)
      PROVE  [Abstract!Next]_<<Flagged, asked, result>>
  BY <1>5 DEF LeaveArray, Flagged
<1>6. CASE UNCHANGED vars
  BY <1>6 DEF vars, Flagged
<1>7. QED
  BY <1>1, <1>2, <1>3, <1>4, <1>5, <1>6 DEF Next

(* Whatever ids are set and asked for, the bins of the array hold bits     *)
(* only: an id past the last bin ends the program (idtracker.c:39, 49).    *)
THEOREM Invariance == Spec => []TypeOK
<1>1. QED
  BY InitTypeOK, NextTypeOK, PTL DEF Spec

(* The bits answer as the set of ids: for every width of a bin, number of  *)
(* bins and sequence of IDTracker_set, _get and _reset, as long as the ids *)
(* are few enough for an int to tell their bins apart (idtracker.c:37).    *)
THEOREM Refinement ==
  ASSUME FitsInt
  PROVE  Spec => RefinesIdSet
<1>1. Init => TypeOK /\ Abstract!Init
  BY InitTypeOK, InitRefines
<1>2. TypeOK /\ [Next]_vars => TypeOK' /\ [Abstract!Next]_<<Flagged, asked, result>>
  BY NextTypeOK, NextRefines
<1>3. QED
  BY <1>1, <1>2, PTL DEF Spec, RefinesIdSet, Abstract!Spec
=============================================================================
