------------------------- MODULE VexProcessesProofs -------------------------
(***************************************************************************)
(* VexProcesses for any sets of loaders, extractors and databases.  mkdir  *)
(* and the lock together give IInv; what the lock alone gives is in        *)
(* LockInv and Exclusion.                                                  *)
(***************************************************************************)
EXTENDS VexProcesses, TLAPS

USE DEF Processes, Databases

LEMMA InitInv == Init => TypeOK /\ IInv
<1>. SUFFICES ASSUME Init PROVE TypeOK /\ IInv
  OBVIOUS
<1>1. TypeOK
  BY BoundAssumption DEF Init, TypeOK
<1>2. IInv
  BY DatabaseAssumption, BoundAssumption
     DEF Init, IInv, LockInv, Exclusion, OneSnapshot, DirectoryInv, Inside
<1>. QED
  BY <1>1, <1>2

\* A process that exits, by itself or killed, only gives up its lock.
LEMMA ExitInv ==
  ASSUME TypeOK, IInv, NEW p \in Processes, Exit(p)
  PROVE  TypeOK' /\ IInv'
<1>. USE DEF Exit, TypeOK
<1>1. TypeOK'
  OBVIOUS
<1>2. LockInv'
  BY DEF IInv, LockInv
<1>3. Exclusion'
  BY DEF IInv, Exclusion
<1>4. OneSnapshot'
  BY DEF IInv, OneSnapshot
<1>5. DirectoryInv'
  BY DEF IInv, DirectoryInv, Inside
<1>. QED
  BY <1>1, <1>2, <1>3, <1>4, <1>5 DEF IInv

LEMMA StartInv ==
  ASSUME TypeOK, IInv, NEW p \in Processes, NEW d \in Databases, Start(p, d)
  PROVE  TypeOK' /\ IInv'
<1>. USE DEF Start, TypeOK
<1>1. TypeOK'
  OBVIOUS
<1>2. LockInv'
  BY DEF IInv, LockInv
<1>3. Exclusion'
  BY DEF IInv, Exclusion
<1>4. OneSnapshot'
  BY DEF IInv, OneSnapshot
<1>5. DirectoryInv'
  BY DatabaseAssumption DEF IInv, DirectoryInv, Inside
<1>. QED
  BY <1>1, <1>2, <1>3, <1>4, <1>5 DEF IInv

LEMMA MakeDirectoryInv ==
  ASSUME TypeOK, IInv, NEW p \in Processes, MakeDirectory(p)
  PROVE  TypeOK' /\ IInv'
<1>. USE DEF MakeDirectory, TypeOK
<1>1. TypeOK'
  OBVIOUS
<1>2. LockInv'
  BY DEF IInv, LockInv
<1>3. Exclusion'
  BY DEF IInv, Exclusion
<1>4. OneSnapshot'
  BY DEF IInv, OneSnapshot
<1>5. DirectoryInv'
  BY DatabaseAssumption DEF IInv, DirectoryInv, Inside
<1>. QED
  BY <1>1, <1>2, <1>3, <1>4, <1>5 DEF IInv

LEMMA MapFilesInv ==
  ASSUME TypeOK, IInv, NEW p \in Processes, MapFiles(p)
  PROVE  TypeOK' /\ IInv'
<1>. USE DEF MapFiles, TypeOK
<1>1. TypeOK'
  OBVIOUS
<1>2. LockInv'
  BY DEF IInv, LockInv
<1>3. Exclusion'
  BY DEF IInv, Exclusion
<1>4. OneSnapshot'
  BY DEF IInv, OneSnapshot
<1>5. DirectoryInv'
  BY DatabaseAssumption DEF IInv, DirectoryInv, Inside
<1>. QED
  BY <1>1, <1>2, <1>3, <1>4, <1>5 DEF IInv

LEMMA FlockInv ==
  ASSUME TypeOK, IInv, NEW p \in Processes, FlockExclusive(p) \/ FlockShared(p)
  PROVE  TypeOK' /\ IInv'
<1>. USE DEF FlockExclusive, FlockShared, TypeOK
<1>1. TypeOK'
  OBVIOUS
<1>2. LockInv'
  BY ProcessAssumption DEF IInv, LockInv
<1>3. Exclusion'
  BY DEF IInv, Exclusion
<1>4. OneSnapshot'
  BY DEF IInv, OneSnapshot, LockInv
<1>5. DirectoryInv'
  BY DatabaseAssumption, ProcessAssumption DEF IInv, DirectoryInv, Inside
<1>. QED
  BY <1>1, <1>2, <1>3, <1>4, <1>5 DEF IInv

\* The loader that writes holds the lock alone, so nobody reads meanwhile.
LEMMA OpenInputInv ==
  ASSUME TypeOK, IInv, NEW p \in Processes, OpenInput(p)
  PROVE  TypeOK' /\ IInv'
<1>. DEFINE d == db[p]
            n == IF stored[d].loads < MAX_LOADS THEN stored[d].loads + 1 ELSE stored[d].loads
<1>1. /\ pc[p] = "open_input" /\ pc' = [pc EXCEPT ![p] = "load"]
      /\ stored' = [stored EXCEPT ![d] = [loads |-> n, count |-> 0]]
      /\ UNCHANGED <<directories, db, lock, stage, seen>>
      /\ d \in Databases
  BY DEF OpenInput, TypeOK
<1>2. n \in 0 .. MAX_LOADS /\ 0 \in 0 .. ELEMENTS
      /\ (stored[d].loads = 0 => n = 1)
  BY <1>1, BoundAssumption DEF TypeOK
<1>3. TypeOK'
  <2>. HIDE DEF n
  <2>1. stored' \in [Databases -> [loads : 0 .. MAX_LOADS, count : 0 .. ELEMENTS]]
    BY <1>1, <1>2 DEF TypeOK
  <2>. QED
    BY <1>1, <2>1 DEF TypeOK
<1>. HIDE DEF n, d
<1>4. LockInv'
  BY <1>1 DEF IInv, LockInv, TypeOK
<1>5. Exclusion'
  BY <1>1 DEF IInv, Exclusion
<1>6. OneSnapshot'
  <2>1. \A q \in Processes : pc'[q] # "extract"
    BY <1>1 DEF IInv, LockInv, Exclusion, TypeOK
  <2>. QED
    BY <2>1 DEF OneSnapshot
<1>7. DirectoryInv'
  <2>1. \A q \in Processes, e \in Disks : Inside(q, e)' <=> Inside(q, e)
    BY <1>1 DEF Inside, TypeOK
  <2>2. Inside(p, d)
    BY <1>1 DEF IInv, LockInv, Inside, d
  <2>3. \A e \in Databases : e # d => stored'[e] = stored[e]
    BY <1>1 DEF TypeOK
  <2>4. stored'[d] = [loads |-> n, count |-> 0]
    BY <1>1 DEF TypeOK
  <2>5. d \in Disks => d \in directories /\ n = 1
    BY <1>1, <1>2, <2>2 DEF IInv, DirectoryInv
  <2>6. ASSUME NEW e \in Disks, e # d
        PROVE  /\ e \notin directories =>
                    stored'[e].loads = 0 /\ \A q \in Processes : ~Inside(q, e)
               /\ \A q, r \in Processes : Inside(q, e) /\ Inside(r, e) => q = r
               /\ \A q \in Processes :
                    Inside(q, e) => stored'[e].loads = (IF pc'[q] = "load" THEN 1 ELSE 0)
               /\ stored'[e].loads = 0 => stored'[e].count = 0
               /\ stored'[e].loads <= 1
    <3>1. \A q \in Processes : Inside(q, e) => q # p
      BY <2>6 DEF Inside, d
    <3>2. \A q \in Processes : q # p => pc'[q] = pc[q]
      BY <1>1 DEF TypeOK
    <3>. QED
      BY <2>3, <2>6, <3>1, <3>2 DEF IInv, DirectoryInv
  <2>7. ASSUME d \in Disks
        PROVE  /\ \A q, r \in Processes : Inside(q, d) /\ Inside(r, d) => q = r
               /\ \A q \in Processes : Inside(q, d) => pc'[q] = "load"
    <3>1. \A q, r \in Processes : Inside(q, d) /\ Inside(r, d) => q = r
      BY <2>7 DEF IInv, DirectoryInv
    <3>2. pc'[p] = "load"
      BY <1>1 DEF TypeOK
    <3>. QED
      BY <2>2, <3>1, <3>2
  <2>. QED
    BY <1>1, <2>1, <2>4, <2>5, <2>6, <2>7 DEF DirectoryInv
<1>. QED
  BY <1>3, <1>4, <1>5, <1>6, <1>7 DEF IInv

LEMMA LoadElementInv ==
  ASSUME TypeOK, IInv, NEW p \in Processes, LoadElement(p)
  PROVE  TypeOK' /\ IInv'
<1>. DEFINE d == db[p]
<1>1. /\ pc[p] = "load" /\ d \in Databases
      /\ stored[d].count < ELEMENTS
      /\ stored' = [stored EXCEPT ![d].count = stored[d].count + 1]
      /\ UNCHANGED <<directories, pc, db, lock, stage, seen>>
  BY DEF LoadElement, TypeOK
<1>2. /\ \A e \in Databases : e # d => stored'[e] = stored[e]
      /\ stored'[d].loads = stored[d].loads
  BY <1>1 DEF TypeOK
<1>3. TypeOK'
  <2>1. stored[d].count + 1 \in 0 .. ELEMENTS
    BY <1>1, BoundAssumption DEF TypeOK
  <2>2. stored' \in [Databases -> [loads : 0 .. MAX_LOADS, count : 0 .. ELEMENTS]]
    BY <1>1, <2>1 DEF TypeOK
  <2>. QED
    BY <1>1, <2>2 DEF TypeOK
<1>. HIDE DEF d
<1>4. LockInv'
  BY <1>1 DEF IInv, LockInv
<1>5. Exclusion'
  BY <1>1 DEF IInv, Exclusion
<1>6. OneSnapshot'
  <2>1. \A q \in Processes : pc'[q] # "extract"
    BY <1>1 DEF IInv, LockInv, Exclusion
  <2>. QED
    BY <2>1 DEF OneSnapshot
<1>7. DirectoryInv'
  <2>1. d \in Disks => stored[d].loads = 1
    BY <1>1 DEF IInv, LockInv, DirectoryInv, Inside, d
  <2>. QED
    BY <1>1, <1>2, <2>1 DEF IInv, DirectoryInv, Inside
<1>. QED
  BY <1>3, <1>4, <1>5, <1>6, <1>7 DEF IInv

LEMMA ExtractStageInv ==
  ASSUME TypeOK, IInv, NEW p \in Processes, ExtractStage(p)
  PROVE  TypeOK' /\ IInv'
<1>1. /\ pc[p] = "extract"
      /\ stage[p] + 1 \in 0 .. 3
      /\ stage' = [stage EXCEPT ![p] = stage[p] + 1]
      /\ seen' = [seen EXCEPT ![p] = seen[p] \cup {stored[db[p]]}]
      /\ UNCHANGED <<directories, stored, pc, db, lock>>
  BY DEF ExtractStage, Stages
<1>2. TypeOK'
  BY <1>1 DEF TypeOK
<1>3. LockInv'
  BY <1>1 DEF IInv, LockInv, TypeOK
<1>4. Exclusion'
  BY <1>1 DEF IInv, Exclusion
<1>5. OneSnapshot'
  BY <1>1 DEF IInv, OneSnapshot, TypeOK
<1>6. DirectoryInv'
  BY <1>1 DEF IInv, DirectoryInv, Inside
<1>. QED
  BY <1>2, <1>3, <1>4, <1>5, <1>6 DEF IInv

-----------------------------------------------------------------------------
\* Whatever processes start, wait, die and are killed, in any order, the lock and
\* the directories are as IInv says.
THEOREM Invariance == Spec => [](TypeOK /\ IInv)
<1>1. TypeOK /\ IInv /\ [Next]_vars => (TypeOK /\ IInv)'
  <2>. SUFFICES ASSUME TypeOK, IInv, [Next]_vars PROVE TypeOK' /\ IInv'
    OBVIOUS
  <2>1. ASSUME NEW p \in Processes, NEW d \in Databases, Start(p, d)
        PROVE  TypeOK' /\ IInv'
    BY <2>1, StartInv
  <2>2. ASSUME NEW p \in Processes, Step(p)
        PROVE  TypeOK' /\ IInv'
    BY <2>2, MakeDirectoryInv, MapFilesInv, FlockInv, OpenInputInv, LoadElementInv,
       ExtractStageInv, ExitInv DEF Step, FinishLoad, FinishExtract
  <2>3. ASSUME NEW p \in Processes, Kill(p)
        PROVE  TypeOK' /\ IInv'
    BY <2>3, ExitInv DEF Kill
  <2>4. CASE UNCHANGED vars
    BY <2>4 DEF vars, TypeOK, IInv, LockInv, Exclusion, OneSnapshot, DirectoryInv, Inside
  <2>. QED
    BY <2>1, <2>2, <2>3, <2>4 DEF Next
<1>. QED
  BY InitInv, <1>1, PTL DEF Spec

\* The three passes of an extraction read one and the same state.
THEOREM ExtractionsReadOneSnapshot == Spec => []OneSnapshot
<1>1. TypeOK /\ IInv => OneSnapshot
  BY DEF IInv
<1>. QED
  BY Invariance, <1>1, PTL

\* One loader at most ever writes to an on-disk database.
THEOREM DisksAreLoadedOnce == Spec => []LoadedOnce
<1>1. TypeOK /\ IInv => LoadedOnce
  BY DEF IInv, DirectoryInv, LoadedOnce
<1>. QED
  BY Invariance, <1>1, PTL

\* A finished load of an on-disk database is never written over.
THEOREM FinishedLoadsStay == Spec => LoadedStays
<1>. DEFINE Stays == \A d \in Disks : stored[d].count = ELEMENTS => stored'[d] = stored[d]
<1>1. TypeOK /\ IInv /\ [Next]_vars => [Stays]_vars
  <2>. SUFFICES ASSUME TypeOK, IInv, Next, NEW d \in Disks, stored[d].count = ELEMENTS
       PROVE  stored'[d] = stored[d]
    OBVIOUS
  <2>1. ASSUME NEW p \in Processes, OpenInput(p) PROVE stored'[d] = stored[d]
    <3>1. pc[p] = "open_input" /\ db[p] \in Databases
      BY <2>1 DEF OpenInput, TypeOK
    <3>2. db[p] # d
      <4>. SUFFICES ASSUME db[p] = d PROVE FALSE
        OBVIOUS
      <4>1. stored[d].loads = 0
        BY <3>1 DEF IInv, LockInv, DirectoryInv, Inside
      <4>2. stored[d].count = 0
        BY <4>1 DEF IInv, DirectoryInv
      <4>. QED
        BY <4>2, BoundAssumption
    <3>. QED
      BY <2>1, <3>1, <3>2 DEF OpenInput, TypeOK
  <2>2. ASSUME NEW p \in Processes, LoadElement(p) PROVE stored'[d] = stored[d]
    <3>1. db[p] # d /\ db[p] \in Databases
      BY <2>2, BoundAssumption DEF LoadElement, TypeOK
    <3>. QED
      BY <2>2, <3>1 DEF LoadElement, TypeOK
  <2>. QED
    BY <2>1, <2>2 DEF Next, Start, Step, MakeDirectory, MapFiles, FlockExclusive,
       FlockShared, ExtractStage, FinishLoad, FinishExtract, Kill, Exit
<1>. QED
  BY Invariance, <1>1, PTL DEF Spec, LoadedStays
=============================================================================
