---------------------------- MODULE VexProcesses ----------------------------
(***************************************************************************)
(* The vex processes that share a machine (main of vex.c): loaders and     *)
(* extractors of several databases, kept apart by mkdir and by one lock    *)
(* file, /tmp/vex.lock, for all the databases.                             *)
(*                                                                         *)
(* A process runs main once and stops; the same identity may then stand    *)
(* for a later process.  It can be killed, or die at one of main's checks, *)
(* at any step: the kernel then drops its lock, and what it wrote stays.   *)
(* How a load writes and an extraction reads is in VexDatabase; here a     *)
(* database is the number of loads that wrote to it and how much the last  *)
(* of them wrote.                                                          *)
(***************************************************************************)
EXTENDS Integers, FiniteSets

CONSTANTS
  Loaders, Extractors,
  Disks,     \* the database directories
  Memory,    \* the databases in shared memory: {} or one
  ELEMENTS,  \* what one load writes, in model steps
  MAX_LOADS  \* a bound of the model: more loads than this are not told apart

ASSUME ProcessAssumption == Loaders \cap Extractors = {}
ASSUME DatabaseAssumption == Disks \cap Memory = {}
ASSUME BoundAssumption == ELEMENTS \in Nat \ {0} /\ MAX_LOADS \in Nat \ {0}

Processes == Loaders \cup Extractors
Databases == Disks \cup Memory

\* Mutant of Stages: one pass too many.
FourStages == 1 .. 4

Stages == 1 .. 3  \* nodes, ways, relations

VARIABLES
  directories,  \* the databases whose directory exists
  stored,       \* how many loads wrote to a database, and how much the last one wrote
  pc,           \* where each process is in main
  db,           \* the database each process was started for
  lock,         \* the lock each process holds on /tmp/vex.lock
  stage,        \* the last stage an extraction completed
  seen          \* the states of its database that an extraction read from

vars == <<directories, stored, pc, db, lock, stage, seen>>

Init ==
  /\ directories = Memory
  /\ stored = [d \in Databases |-> [loads |-> 0, count |-> 0]]
  /\ pc = [p \in Processes |-> "stopped"]
  /\ db \in [Processes -> Databases]
  /\ lock = [p \in Processes |-> "none"]
  /\ stage = [p \in Processes |-> 0]
  /\ seen = [p \in Processes |-> {}]

-----------------------------------------------------------------------------
\* vex <database> <input> or vex <database> <bounds> <output>.  Only a loader of
\* an on-disk database makes the directory.
Start(p, d) ==
  /\ pc[p] = "stopped"
  /\ pc' = [pc EXCEPT ![p] = IF p \in Loaders /\ d \in Disks THEN "mkdir" ELSE "map"]
  /\ db' = [db EXCEPT ![p] = d]
  /\ UNCHANGED <<directories, stored, lock, stage, seen>>

\* Mutant of MakeDirectory: mkdir's result is not looked at.
MakeDirectoryAnyway(p) ==
  /\ pc[p] = "mkdir"
  /\ directories' = directories \cup {db[p]}
  /\ pc' = [pc EXCEPT ![p] = "map"]
  /\ UNCHANGED <<stored, db, lock, stage, seen>>

\* A directory that exists already makes the loader die.
MakeDirectory(p) ==
  /\ pc[p] = "mkdir"
  /\ directories' = directories \cup {db[p]}
  /\ pc' = [pc EXCEPT ![p] = IF db[p] \in directories THEN "stopped" ELSE "map"]
  /\ UNCHANGED <<stored, db, lock, stage, seen>>

\* Open the lock file and map the database files, which are created where they
\* are missing; this needs the directory.
MapFiles(p) ==
  /\ pc[p] = "map"
  /\ pc' = [pc EXCEPT ![p] = IF db[p] \in directories THEN "flock" ELSE "stopped"]
  /\ UNCHANGED <<directories, stored, db, lock, stage, seen>>

\* flock(LOCK_EX) returns when nobody holds a lock, flock(LOCK_SH) when nobody
\* holds an exclusive one.  Those who wait do not hold back those who come later.
FlockExclusive(p) ==
  /\ p \in Loaders /\ pc[p] = "flock"
  /\ \A q \in Processes : lock[q] = "none"
  /\ lock' = [lock EXCEPT ![p] = "exclusive"]
  /\ pc' = [pc EXCEPT ![p] = "open_input"]
  /\ UNCHANGED <<directories, stored, db, stage, seen>>

\* Mutant of FlockShared: the extraction does not wait.
FlockSharedAtOnce(p) ==
  /\ p \in Extractors /\ pc[p] = "flock"
  /\ lock' = [lock EXCEPT ![p] = "shared"]
  /\ pc' = [pc EXCEPT ![p] = "extract"]
  /\ UNCHANGED <<directories, stored, db, stage, seen>>

FlockShared(p) ==
  /\ p \in Extractors /\ pc[p] = "flock"
  /\ \A q \in Processes : lock[q] # "exclusive"
  /\ lock' = [lock EXCEPT ![p] = "shared"]
  /\ pc' = [pc EXCEPT ![p] = "extract"]
  /\ UNCHANGED <<directories, stored, db, stage, seen>>

\* pbf_read begins: the counters of this process restart, whatever is stored.
OpenInput(p) ==
  /\ pc[p] = "open_input"
  /\ stored' = [stored EXCEPT ![db[p]] =
                  [loads |-> IF @.loads < MAX_LOADS THEN @.loads + 1 ELSE @.loads,
                   count |-> 0]]
  /\ pc' = [pc EXCEPT ![p] = "load"]
  /\ UNCHANGED <<directories, db, lock, stage, seen>>

LoadElement(p) ==
  /\ pc[p] = "load"
  /\ stored[db[p]].count < ELEMENTS
  /\ stored' = [stored EXCEPT ![db[p]].count = @ + 1]
  /\ UNCHANGED <<directories, pc, db, lock, stage, seen>>

\* Mutant of Exit: the lock is not given back.
ExitLocked(p) ==
  /\ pc' = [pc EXCEPT ![p] = "stopped"]
  /\ stage' = [stage EXCEPT ![p] = 0]
  /\ seen' = [seen EXCEPT ![p] = {}]
  /\ UNCHANGED <<directories, stored, db, lock>>

Exit(p) ==
  /\ lock' = [lock EXCEPT ![p] = "none"]
  /\ pc' = [pc EXCEPT ![p] = "stopped"]
  /\ stage' = [stage EXCEPT ![p] = 0]
  /\ seen' = [seen EXCEPT ![p] = {}]
  /\ UNCHANGED <<directories, stored, db>>

FinishLoad(p) ==
  /\ pc[p] = "load"
  /\ stored[db[p]].count = ELEMENTS
  /\ Exit(p)

\* One of the three passes over the cells.
ExtractStage(p) ==
  /\ pc[p] = "extract"
  /\ stage[p] + 1 \in Stages
  /\ stage' = [stage EXCEPT ![p] = @ + 1]
  /\ seen' = [seen EXCEPT ![p] = @ \cup {stored[db[p]]}]
  /\ UNCHANGED <<directories, stored, pc, db, lock>>

FinishExtract(p) ==
  /\ pc[p] = "extract"
  /\ stage[p] + 1 \notin Stages
  /\ Exit(p)

\* The process is killed or dies; the kernel closes its files.
Kill(p) == pc[p] # "stopped" /\ Exit(p)

-----------------------------------------------------------------------------
\* A step of main.
Step(p) ==
  \/ MakeDirectory(p) \/ MapFiles(p)
  \/ FlockExclusive(p) \/ OpenInput(p) \/ LoadElement(p) \/ FinishLoad(p)
  \/ FlockShared(p) \/ ExtractStage(p) \/ FinishExtract(p)

Next ==
  \E p \in Processes :
    \/ \E d \in Databases : Start(p, d)
    \/ Step(p)
    \/ Kill(p)

Spec == Init /\ [][Next]_vars

\* A database nobody loaded, or one that was loaded once, to the end.
Whole(d) == stored[d] \in {[loads |-> 0, count |-> 0], [loads |-> 1, count |-> ELEMENTS]}

\* The pass over the nodes may never end in what a load that died has left
\* (RefListsEnd of VexDatabase), or several loads of one database.
MayGoRound(p) == pc[p] = "extract" /\ stage[p] = 0 /\ ~Whole(db[p])

\* The kernel runs every process that can run, and what main does next ends, that
\* pass excepted.  Nothing obliges anyone to start or to kill one.
FairSpec == Spec /\ \A p \in Processes : WF_vars(Step(p) /\ ~MayGoRound(p))

-----------------------------------------------------------------------------
TypeOK ==
  /\ directories \subseteq Databases
  /\ stored \in [Databases -> [loads : 0 .. MAX_LOADS, count : 0 .. ELEMENTS]]
  /\ pc \in [Processes -> {"stopped", "mkdir", "map", "flock", "open_input",
                           "load", "extract"}]
  /\ db \in [Processes -> Databases]
  /\ lock \in [Processes -> {"none", "shared", "exclusive"}]
  /\ stage \in [Processes -> 0 .. 3]
  /\ seen \in [Processes -> SUBSET [loads : 0 .. MAX_LOADS, count : 0 .. ELEMENTS]]

\* The three passes of an extraction read one state of the database, the one it
\* has when the extraction ends: the lock "will prevent database writes from
\* happening during reads" (vex.c:797).
OneSnapshot ==
  \A p \in Extractors : pc[p] = "extract" => seen[p] \subseteq {stored[db[p]]}

\* However many loaders are started, and whichever of them die, only one ever
\* writes to an on-disk database.
LoadedOnce == \A d \in Disks : stored[d].loads <= 1

\* What a finished load of an on-disk database stored is never changed.
LoadedStays ==
  [][\A d \in Disks : stored[d].count = ELEMENTS => stored'[d] = stored[d]]_vars

-----------------------------------------------------------------------------
(* The inductive invariant that the proofs of VexProcessesProofs rest on. *)

\* Where a process is in main tells the lock it holds.
LockInv ==
  \A p \in Processes :
    /\ pc[p] \in {"mkdir", "open_input", "load"} => p \in Loaders
    /\ pc[p] = "extract" => p \in Extractors
    /\ pc[p] \in {"open_input", "load"} <=> lock[p] = "exclusive"
    /\ pc[p] = "extract" <=> lock[p] = "shared"
    /\ pc[p] # "extract" => seen[p] = {}

Exclusion ==
  \A p, q \in Processes : p # q /\ lock[p] = "exclusive" => lock[q] = "none"

\* A loader that is past its mkdir of d.
Inside(p, d) ==
  p \in Loaders /\ db[p] = d /\ pc[p] \in {"map", "flock", "open_input", "load"}

\* mkdir lets one loader at most inside an on-disk database, once.
DirectoryInv ==
  \A d \in Disks :
    /\ d \notin directories =>
         stored[d].loads = 0 /\ \A p \in Processes : ~Inside(p, d)
    /\ \A p, q \in Processes : Inside(p, d) /\ Inside(q, d) => p = q
    /\ \A p \in Processes :
         Inside(p, d) => stored[d].loads = (IF pc[p] = "load" THEN 1 ELSE 0)
    /\ stored[d].loads = 0 => stored[d].count = 0
    /\ stored[d].loads <= 1

IInv == LockInv /\ Exclusion /\ OneSnapshot /\ DirectoryInv

-----------------------------------------------------------------------------
(* Who gets the lock.  flock knows no order of arrival, so those who come  *)
(* again and again may keep others waiting: loaders of the database in     *)
(* memory the extractions, and both of them a loader.  Loaders of an       *)
(* on-disk database cannot, because each directory is loaded once.         *)

\* From some time on, no process in S runs but to load a database on disk.
OnlyDiskLoads(S) ==
  <>[](\A q \in S : pc[q] = "stopped" \/ (q \in Loaders /\ db[q] \in Disks))

\* An extraction that waits for the lock gets it, however many loaders of on-disk
\* databases and extractors come, go, die or never end, also while they hold the
\* lock, and it ends when it reads a whole load (vex.c:857-957).
ExtractionEnds ==
  \A p \in Extractors :
    OnlyDiskLoads(Loaders) => (pc[p] = "flock" ~> pc[p] = "stopped" \/ MayGoRound(p))

\* A load that waits for the lock gets it and ends, once extractions and loads into
\* memory cease (vex.c:825-828).
LoadEnds ==
  \A p \in Loaders :
    OnlyDiskLoads(Processes \ {p}) => (pc[p] = "flock" ~> pc[p] = "stopped")
=============================================================================
