# A verification project for vex

`vex` loads OpenStreetMap data from a PBF file into a database of
memory-mapped arrays and writes extracts of it for bounding boxes. This
directory has TLA+ modules that model the program, TLC configurations that
check them on small instances, and proofs of their main properties that TLAPS
checks for all values of the constants. File and line numbers refer to the
sources beside which this directory stands.

## 1. The system

| Part | State | Operations | What makes it correct |
|---|---|---|---|
| Processes, database directory and lock (`vex.c`, `main`) | the directory, the lock file `/tmp/vex.lock`, the stored database | `mkdir`, map, `flock`, load, three extraction passes, exit, death | an extraction reads one state of its database; a database is written by one load; a finished load stays |
| Way index (`vex.c`, `handle_way`, `new_way_block`, loops of `main`) | grid cells, chained blocks of way ids in a mapped file | index a way, scan a cell | a scan has exactly the ways of the cell, each once, and ends, also after the loader died |
| Loader and extraction (`vex.c`, `handle_node/way/relation`, `write_tags`, `main`) | arrays of nodes, ways, relations, references, members; tag subfiles; the grid | three handlers; three passes over the cells of a box | a reader sees a prefix of the input, whole; extracts are closed over references, and have the ways and relations that begin in the box and none from far away |
| Tag and role codes (`tags.c`) | constant tables | encode, decode | decoding gives back what was encoded |
| ID tracker (`idtracker.c`) | a bitset | reset, set, get | answers as a set of ids, as far as an `int` counts its bins |
| PBF reader (`pbf-read.c`) | place in the file, phase | read blobs, hand elements to callbacks | a prefix of the elements, in the order nodes, ways, relations; nothing missed in a sorted file |
| String deduplicator (`dedup.c`) | hash table, inverse array | dedup, list, clear | strings and indexes are one to one |
| PBF writer (`pbf-write.c`) | three blocks, `kv_buff`, string table, arrays of references and members | write node, way, relation; flush | what is written decodes to what was given, one type in a blob; arrays and room are there when needed |
| VEX output and variable-width integers (`vex.c`, `intpack.c`) | the last ids and coordinates, the output file | write node, way; pack | a reader that undoes the differences gets what was written |
| Slab allocator (`slab.c`) | the place of the next allocation | alloc, reset | each blob has the whole slab |
| HTTP server (`vexserver.js`) | a response and a process for each request | check, start a vex process, pass its output on | a good answer has the extract |
| `map.c`, `routable.c.experiment`, Python scripts, build files | | | not part of `vex` |

**How the parts interact.** `main` either loads or extracts. A load takes the
exclusive lock and calls `pbf_read`, which calls the three handlers back for
each element; the handlers store into the mapped files, encode tags with
`tags.c` and link ways and relations into the grid. An extraction takes the
shared lock, walks the cells of its box three times (nodes of ways, ways,
relations), flags nodes in the ID tracker, and gives elements to the PBF
writer, which deduplicates their strings, or to the VEX writer, by the name of
the output file. The server starts one process for each request. Processes share nothing but the
mapped files, the directory and the lock file.

**What is hard in it.** Nothing is logged or rolled back: a loader that dies
leaves its stores in the files, in whatever order it made them, and
extractions read them. One lock file serves all databases. Lists end in sign
bits, free counts share a slot with ids, index 0 means absent; each is a
chance for a boundary error. The reader and the writer reuse buffers and
tables for every blob. Processes are single-threaded, so there are no data
races inside one; what interleaves are processes, and the stores of a load
with the death of its process. `PROJECT.json` lists these hazards, each with
its line and the properties that would fail.

## 2. The modules

| Module | Models | Abstraction of |
|---|---|---|
| `WayIndex` | the promise of the way index: ways by cell, a scan answers with a cell's ways | |
| `WayBlocks` | the chained blocks, one store of `handle_way` at a time, kill at any step, scan slot by slot | implements `WayIndex` |
| `VexProcesses` | `main` as a process among others | |
| `IdSet`, `IDTracker` | the set of ids; the bitset | `IDTracker` implements `IdSet` |
| `Tags` | `encode_tag`, `decode_tag`, lists of them as they are stored, roles, skipped keys, as operators | |
| `VexDatabase` (extends `Tags`) | one database: the handlers store by store, then extractions | |
| `Slab` | the slab allocator, as operators on the place of the next allocation | |
| `PbfRead` (extends `Slab`) | `pbf_read` with its memory, `enforce_ordering`, `handle_primitive_block` | |
| `StringTable`, `Dedup` | the list of distinct strings; the hash table | `Dedup` implements `StringTable` |
| `PbfWrite` | blocks, string indexes, key and value buffer, arrays of references and members, flushing | |
| `IntPack` | integers of variable width, as operators | |
| `VexFormat` (extends `IntPack`) | the `vexbin_` functions, and a reader of what they write | |
| `VexServer` | the request handler of the server, and the choice of action in `main` | |
| `*Proofs` | theorems about the module they are named for | |
| `SeqFold` | no code: lemmas about folds over sequences, and induction over numbers and sequences, for the proofs | |
| `MC*` | instances for TLC | |

The modules compose through what they promise. `VexProcesses` shows that the
lock keeps loads and reads of a database apart, so `WayBlocks` and
`VexDatabase` let an extraction begin only when the loader has stopped.
`WayBlocks` implements a set of ways for each cell, which is what
`VexDatabase` keeps; `IDTracker` implements the set it keeps as `seen`;
`Dedup` implements the table of `PbfWrite`; `PbfRead` delivers elements in the
order that the inputs of `VexDatabase` have; what `VexDatabase` writes to
`out` is what `PbfWrite` and `VexFormat` are given.

### State and code

Variables carry the names of the code: `head_way_block`, `refs`, `next`,
`way_block_count` in `WayBlocks`; `nodes`, `ways`, `node_refs`, `relations`,
`rel_members`, `n_node_refs`, `n_rel_members`, `ways_loaded` in `VexDatabase`;
`phase`, `kv0`, `id`, `lat` in `PbfRead`; `kv_buff`, `kv_n` in `PbfWrite`;
`last_x`, `last_y`, `last_node_id`, `last_way_id`, `ofile` in `VexFormat`.
`pc` is the next store or step. Actions are handlers or parts of handlers
between two stores that a reader of the files can tell apart:

- `handle_way` is `HandleWay, CopyRef*, EndRefs, IndexWay, WriteTags` in
  `VexDatabase`. `IndexWay` is refined in `WayBlocks` to `HandleWay`,
  `NewWayBlock`, `SetNext`, `SetHead`, `StoreRef`, `CountFree`.
- `handle_relation` is `HandleRelation, CopyMember*, EndMembers, WriteTags,
  SetRelationNext, SetRelationHead`; `handle_node` is `HandleNode, WriteTags`.
- The extraction loops of `main` are `EnterCell`, `WriteNodes`, `WriteWay`,
  `WriteRelation`, `EndStage`. A list of references without an end mark is
  walked differently in two passes. The one over nodes counts its index in 32
  bits, for which the mapped array has room (`vex.c:928-930`, `vex.c:809`): it
  goes on at index 0, up to the first end there (`WalkRound`), or for ever when
  the array has none (`WalkForever`, which ends in the stage `endless`). The
  one over ways walks a pointer out of the array (`ReadPastEnd`).
- The `die` calls are actions of their own (`Die`, `DieTooManyBlocks`), and so
  are the two reads through a null pointer
  (`ReadNoRef`, `ReadNullBlob`) and the write through one
  (`WriteThroughNull`).
- Writes past the end of a piece of memory (`OverrunTags` past a tag file,
  `WritePastSlab`) either end the process or lead to the state `overrun`, of
  which nothing more is said: what lies behind that memory is up to the
  kernel. No property relies on what follows. A tag file has two bytes less
  than the last position `write_tags` lets a list begin at (`SubfileSize`:
  `vex.c:246`, `vex.c:379`, `vex.c:421`), so a list overruns the file before
  the `die` there can be reached.
- In `IDTracker`, `Bin` is the shift cut to an `int`. A bin past the array ends
  the process (`Exit`); a negative one is not tested, and the call leaves the
  array (`LeaveArray`, after which nothing more is said).
- A stored list of tags is a run of cells: a code, cut to a signed byte, and
  the strings it leaves open, one cell each; the last cell is `INT8_MAX`.
  Positions and the length of a subfile are counted in these cells.
- In `PbfRead` a blob carries the sizes of the allocations that unpacking it
  takes; in `PbfWrite`, `heap` has the arrays that were allocated and not
  freed, each named by the element it was made for.
- In `VexFormat` the difference of two coordinates that does not fit 32 bits
  is undefined; the model takes either the value cut to 32 bits or the whole
  one, which are what a build can hand to the 64-bit packing.

`PROJECT.json` maps every definition to its lines. `scan_*`, `seen` of
`VexProcesses`, `owner`, `delivered` and `out` are records of what was read,
linked or written; no guard of a loader's step reads them.

Stores become visible in program order in the models. The kernel keeps
modified pages of a mapped file when a process dies, so this is right for a
killed process; the loss of power, where pages reach the disk in any order, is
not modelled.

## 3. The runs

`tlc -config <cfg> <module>`; the number of distinct states is in brackets.

| Run | Question | Bounds |
|---|---|---|
| `way_blocks` (45,871) | Do chains stay whole through every store and kill, is a scan exact, without repetition, and does it end? Do blocks implement the index? | two cells, three ways each, two slots a block, room for three blocks where four are needed |
| `processes` (121,891) | Do extractions read one snapshot; is a directory loaded once and then left alone? Do extractions and loads that wait for the lock get it and end, also beside an extraction that never does? | two loaders, two extractors, one database on disk, one in memory |
| `id_tracker` (13,842) | Does the bitset answer as a set? | three bins of three bits, ids past them and in bins of negative index, an `int` of eight values |
| `database` (148,021) | Does a reader see a whole prefix wherever the load stopped? Are extracts closed, complete, tight and unchanged, and do they end? | three nodes, up to three ways with shared, closing and missing nodes, or none, two relations, five boxes, inputs that overrun each limit |
| `pbf_read` (9,577) | Do callbacks get a prefix in order, each dense node with its own data, and all of a sorted file? Does it fail on bad blobs only? | up to three groups in two blobs, of seven kinds, unreadable blobs, blobs too large for the slab in each of their parts, three sets of callbacks |
| `dedup` (8,207) | One to one, and the same as the list of strings? | five strings in two chains |
| `pbf_write` (7,326) | Does the file decode to what was written? Are arrays and room there when they are needed? | two nodes, three ways, two relations, blocks of two, a `kv_buff` of seven |
| `vex_format` (5,412) | Does a VEX file read back, and does an integer fit its buffer? | groups of two bits, words of nine; two nodes with every pair of ids around powers of two to 2^16; corners of the coordinates; two ways with lists of one to three references; empty and long strings |
| `box_across_zero`, `relation_cell`, `empty_way`, `server` | the four findings of section 7 | those of `database`, with fewer inputs; `server`: its own |

**Why the bounds are enough.** Each limit of the code is a constant set low
enough to be met: a block overflows into a second one and the file is full; a
block of the writer is filled exactly, and left part-filled; `kv_buff` and the
reference index are full; a tag subfile is filled to its last cell
(`MAX_TAG_POSITION` is 10, so that it has nine), and overrun;
the slab is used up exactly, before and during an allocation. Every branch of
the packing of integers is taken at both its ends. Coordinates run on both
sides of zero, so that bins wrap. Lists share nodes, repeat one, name one that
was never loaded. Two loaders and two extractors give every pair that can
meet. The theorems of section 5 cover the other sizes.

**Coordinates and widths.** An internal coordinate has `COORD_WIDTH` (2^32)
values and a bin `CELL_WIDTH`; `bin` is the cast to unsigned and the shift.
Member ids are reduced modulo `ID_WIDTH`, and the node reference index wraps at
`MAX_REF_INDEX + 1` in the subtraction of `vex.c:509` and in the walk over
nodes. An `int` has `INT_WIDTH` values in `IDTracker`, fewer than there are
bins of ids to ask for.

**Deadlock.** It is checked except in four runs, where the program stops by
itself: `id_tracker` (the call to `exit`), `pbf_read` and `pbf_write` (the end
of the file or of the extraction), and `server` (all requests answered).

**Symmetry.** None is used: the runs with interchangeable processes check
liveness too.

**Mutants.** Each property of a passing run fails for at least one change to
the definition of the code named in `PROJECT.json` (a test dropped, a reset
forgotten, two stores in the wrong order). The mutated forms stand before the
definitions they replace.

## 4. Fairness

Fairness is assumed of steps only, never of starting or killing a process.

- `WayBlocks`: weak fairness of the two steps of a scan. A running extraction
  is one sequential process that waits for nobody once it has its lock.
- `VexDatabase`: weak fairness of the steps of an extraction, for the same
  reason. Its `ExtractionEnds` has two parts: an extraction ends as long as
  some list in the files has an end, and ends well when every indexed way's
  list has one. `RefListsEnd`, without these conditions, is false (`empty_way`).
- `VexProcesses`: weak fairness of the steps of every process: the kernel runs
  whoever can run. Excepted is the pass over the nodes (`MayGoRound`) of a
  database that is neither empty nor from one finished load, since that pass
  may go round for ever and hold its lock. For a process in `flock` this only says that it gets the
  lock if it stays free. `flock` gives no order of arrival, so strong fairness
  would not be justified.

Under this, `flock` lets those who come again and again keep others waiting
(`vex.c:825`, `vex.c:859`: a waiting writer does not hold back new readers), so
the liveness of `VexProcesses` is stated under a condition on who comes, and
the condition is as weak as the code allows. Each on-disk directory is loaded
once, so loaders of such databases cease to take the lock by themselves,
however many are started. `ExtractionEnds` therefore needs only that loads
into memory cease, and holds whatever other extractions and loaders do, those
that never end among them, whose lock is shared: an extraction gets the lock,
and then ends or is in the excepted pass. `LoadEnds` needs that extractions and
loads into memory cease; a load behind an extraction that goes round waits for
ever. Both hold with processes that die holding the lock.

A process writing to a pipe goes on only as long as somebody reads from it. An
extraction of the server whose client stalls keeps its shared lock, and every
load waits; the fairness above leaves this out.

## 5. What is proved

All theorems hold for any values of the constants that satisfy the named
assumptions of the module, which TLC evaluates in the runs.

**WayBlocksProofs** - sizes are positive naturals, way ids positive, every way
has a cell. `Invariance` proves `TypeOK /\ IInv`, and from it
`FreeSlotIsCertain`, `ScanIsExact`, `ScansNoWayTwice` and `Refinement`. None of
these is inductive by itself: that a slot is free depends on the free count,
which agrees with the slots except between the two stores of `StoreRef` and
`CountFree`; that a scan is exact depends on where ways may be. `IInv` has one
conjunct for each idea:

- `SlotsInv`: slots fill from the front; a block not in use is empty.
- `FreeInv`: the count tells the first free slot, and what it is between the
  two stores.
- `ChainInv`: block numbers decrease along a chain and no block of a cell is
  skipped. This replaces the recursive `ChainsIntact`, and is why no chain goes
  round.
- `PlaceInv`: a way is in one slot of a block of its own cell, and ways in
  slots are loaded, or the one being handled.
- `HandlerInv`: what the loader knows at each of its steps.
- `ScanInv`: a scan has come to exactly the slots before its position.

`ChainsStayIntact` proves `ChainsIntact` itself, which follows `next` with a
recursive function: an induction on the number of blocks passed shows that the
function finds every block of the cell, because `ChainInv` lets no block of
the cell lie between a block and its `next`.

**VexProcessesProofs** - any number of processes and databases. `IInv` is
`LockInv` (where a process is tells its lock), `Exclusion` (an exclusive lock
is the only one), `OneSnapshot`, and `DirectoryInv` (one loader at most is past
the `mkdir` of a directory, once). From it follow
`ExtractionsReadOneSnapshot`, `DisksAreLoadedOnce` and `FinishedLoadsStay`.

**VexDatabaseProofs** - any widths of cells and coordinates that divide as
those of the code do (`WidthAssumption`), any limits (`LimitAssumption`,
`RefAssumption`), any inputs with nodes, ways and relations in that order and
no id twice (`InputAssumption`), any boxes (`BoxAssumption`), any tables whose
codes fit a byte with one left to end a list (`CodeAssumption`, in `Tags`), as
long as every id in the files has a tag subfile (`SubfileAssumption`, which the
comment at `vex.c:346` asks for).
`Invariance` proves `TypeOK /\ IType`, and from `IInv == IType /\ Stored /\
Reading` follow:

- `WritesClosedOnce`: an extract has the nodes of its ways before the ways,
  and no element twice, wherever the load stopped.
- `ExtractsAreTight`: the ways of an extract, and its relations of several
  members whose first member is a node, begin within the cells that the box
  touches. Its hypothesis `WholeIds` is that ids of first members fit in the
  32 bits to which `vex.c:563` cuts them; otherwise a relation is filed under
  another node.
- `ExtractsAreComplete`: after a whole load, each way and each such relation
  that begins in the box is in the extract. Besides `WholeIds` it supposes
  boxes on one side of zero (`OneSided`): for the others it is false, which the
  run `box_across_zero` shows.

  Neither speaks of nodes or of other relations. A node is written when a way
  of the box has it, wherever it lies, and one in no way never is
  (`vex.c:922-944`); a relation that begins with a way is filed under an
  unrelated node (`relation_cell`), one with a single member nowhere
  (`vex.c:304-307`).
- `FilesHold`: for each element whose handler has got past a list, that list is
  in the files, whole (`FilesKept`).
- `ExtractsGiveBack`: an extract of a whole load is what the load was given
  (`OutputGiven`).
- `StopsLeaveAPrefix`: what can be read after a stop is a prefix of the input
  (`PrefixStored`).

The last two suppose `GivenIds`: references of ways are ids from 1 up to the
limit, and ids of members are positive and fit 32 bits. A list ends where an id
was negated (`vex.c:509`, `vex.c:565`), so a zero or negative id cannot be told
from the end, and `vex.c:563` cuts the larger ones. The inputs of the run
`database` satisfy it, with references to nodes that no input has, members that
are in no file and ways without nodes among them.

`Stored` is what the loader keeps true at every store. `NodesStored` and
`WaysIndexed` say what was stored of the elements up to the present one.
Relations need more, for their lists run through `relations[].next`, and a set
of ids does not tell where a list leads. `Chained` says that linked relations
have one predecessor each, so lists do not meet; `Reached` that whatever
contains the head of a cell and is closed under `next` contains every relation
of the cell; `Lists`, for some assignment of relations to cells, that no list
has a relation of another cell. Together they stand in for reachability
without a recursive definition. `FirstKept` is about the handler between
copying the first member and linking. `Reading` is about the extraction:
`ReadsNodes`, `ReadsWays`, `ReadsRelations` say for each of the three passes
what of the cells entered is written already; `ListsOf` that what is written
of the lists belongs to cells of the box.

`FilesKept` has one conjunct for each kind of list. `TagsStored` says that the
tags of an element stand in its subfile from where the element points; subfiles
only grow at their end, so what stands there stays. `TagsFrom` reads from there,
and `TagsReadBack` shows, by induction on the number of tags still to read, that
it undoes the encoding, free text included. `RefsStored` and `MembersStored` say
the same of references and members, whose lists end where the counters are or
before; `RefsReadBack` and its like decode them, with the sums of the delta
coding. `OutKept` adds that after a load that ended well, what was written of
each element is what the files hold of it (`OutStored`); every list of
references ends then (`LoadedEnds`), so that no walk goes round.

For `PrefixStored` the order in the lists of relations matters, which
reachability does not give. `Ordered` has, for some sequence of relations per
cell, that the head is the last of it, that `next` goes one back, that each
relation linked so far is in a sequence, and none is twice. From it
`LinkGoesDown` shows that following `next` from the head goes down the sequence,
so that a relation is found once and in one cell. The prefix itself is `Seen`:
the elements before the present one, with that one too when it is a way that its
cell shows already.

**IDTrackerProofs** - any bin size, number of bins and width of an `int`.
`Invariance` proves `TypeOK`. Among ids whose quotient an `int` tells apart
(`FitsInt`: below 2^38 in the code), each has one bin and bit and each bin and
bit one id (`OnePlace`, `PlaceOf`), from which each call maps to a call of
`IdSet` (`Refinement`). Larger ones share bits:
with the id 24 in `MCIds`, TLC finds `RefinesIdSet` violated.

**DedupProofs** - any hash function. `Invariance` proves that chains are a
bijection between strings and indexes; `Refinement` that the inverse array is
the list of distinct strings in the order of first use.

**PbfWriteProofs** - any size of a block and of `kv_buff` (`SizeAssumption`),
any extract that gives nodes, ways and relations in that order
(`ExtractsAssumption`). `IInv` has these conjuncts:

- `BlockInv`: only the block of the present stage has elements, fewer than
  fill it, and they stand for the last elements given (`Stands`): their indexes,
  also those in `kv_buff` below `kv_n`, name their strings in the present
  table. `kv_n` is twice the number of their tags.
- `FileInv`: what a reader finds in the blobs is what was given before those,
  and blobs have one type each, in the order of the stages.
- `InputInv`, `HeapInv`, `CrashInv`: what is still to come, the arrays in use,
  and what ended the writer.

From it follow `TypesHold`, `WritesDecode`, `FilesAreWhole`, `ArraysStayInUse`
and `FullOnlyOfBuffered`. That a buffered index names the right string is kept
because the table only grows while something is buffered, and is cleared with
the blocks in one step; the proof needs `Names` to be kept when the table
grows and when `kv_buff` is written at `kv_n`.

**PbfReadProofs** - any size of the slab (`SlabAssumption`), any number of tags
that fit and any granularity (`SizeAssumption`), any files of blobs and groups,
sorted or not (`FileAssumption`: keys are not the empty string, allocations
are not empty). `IInv` has these conjuncts:

- `PlaceInv`: where the reader is, and that the slab is empty between blobs.
- `DenseInv`: in the dense nodes, the sums are those of the node before, and
  `kv0` is where the next list in the array of keys and values begins.
- `DeliveredInv`: what was delivered is what the callbacks want of the groups
  that are done, and what they want of the part of the present one that is.
- `PhaseInv`, `StopInv`: `phase` is the type of a group that was read and not
  below what was delivered, and why the reader stopped.
- `FailsOnBadBlob`, which is one of the properties.

From it follow `TypesHold`, `FailsOnlyOnBadBlobs`, `PrefixDelivered` and
`NothingIsMissed`. Lemmas carry most of it: `UnpackFits` bounds what an
unpacking takes of the slab; `TagsDecode` shows that the search for an even
place with a 0 ends exactly at the end of a node's list, though values may be 0;
`BegunSteps` and `AllBegins` relate the groups of a file to their elements.

**SeqFold** - the models decode with `FoldLeft`. The induction theorems of the
library take an operator as a parameter, which the provers here cannot
instantiate. `InductiveSet` states induction over the naturals with a set in
its place, proved from the order of the naturals being well-founded, and
`InductiveSeqs` the same over sequences. `FoldAppend` shows that the recursive
function that `FoldLeft` chooses exists, and so that a fold goes one element at
a time; `FoldPrefix` says this of the beginnings of a sequence. The module
defines `Fold` itself, so that its instances stay small; those who use it prove
that their `FoldLeft` is this `Fold`. The step of the fold is a constant of the
module, which each use instantiates.

**Only model-checked.** Liveness (`ScanEnds`, both `ExtractionEnds`,
`LoadEnds`), which needs `ENABLED` and fairness. All of `VexFormat`: packing
integers is arithmetic with powers of a constant, which the SMT solver does not
do.

## 6. What the properties say

- `FreeSlotCertain`, `ScanExact`, `NoWayTwice`, `ChainsIntact`, `ScanEnds`,
  `RefinesIndex`: a load may be killed between any two stores and the index
  stays readable. The order of `SetNext` and `SetHead` matters.
- `OneSnapshot`, `LoadedOnce`, `LoadedStays`, `ExtractionEnds`, `LoadEnds`:
  locking. They
  do not say that an extraction reads a finished load: it may run after a
  loader died, or before it has the lock, and then reports success on part of
  the data.
- `PrefixStored`: what such an extraction reads is a prefix of the input, each
  element whole; only the last way may miss its tags. It is about loads that
  did not write past a tag file, and about inputs whose ways have nodes.
- `ClosedOnce`, `BoxComplete`, `BoxTight`, `OutputGiven`: extracts. The second
  and third are about ways and about relations of several members that begin
  with a node, which is what the grid files by place. The last
  one also says that lists of tags are read in step with how they were
  written.
- `ExtractionEnds` of `VexDatabase`: chains of relations and lists of
  references do not go round while the files hold an end of a list, also for
  inputs with ways without nodes, where a walk passes its list's end.
- `RefinesIdSet`, `OneToOne`, `RefinesStringTable`: the two data structures.
- `PrefixInOrder`, `NothingMissed`: the reader. `FailsOnBadBlob`: whether a
  blob can be read does not depend on the blobs before it, because the slab
  is reset on every path around the loop.
- `DecodesAsWritten`, `FileReadsBack`: the writer. The "FIXME" of
  `pbf-write.c:236` fears that the key and value table is freed while elements
  of another type are buffered; the flush at the end of each stage keeps this
  from happening. `ArraysInUse`: arrays are there until they are packed, and
  only those of ways outlive that. `FullOfBuffered`: the room for tags comes
  back with every blob.
- `StreamReadsBack`, `VarintsFit`: the VEX format. A reader has to know how
  many nodes there are and where the ways begin: the file does not say, and it
  has no relations.

## 7. Where the code and its text disagree

Shown by runs:

1. `box_across_zero`: a box with zero inside in either axis gives an empty
   extract (`vex.c:293`, `vex.c:851-854`).
2. `relation_cell`: a relation whose first member is a way is filed under the
   cell of an unrelated node (`vex.c:312`).
3. `empty_way`: a way without nodes negates the last reference of the way
   before it a second time (`vex.c:509`), and the load dies at `vex.c:511`. If
   that was the only whole way, no list has an end any more, against
   `vex.c:497-498` and `vex.c:266`: the next extraction goes round the
   references for ever and keeps its shared lock.
4. `server`: `vexserver.js:66` starts `vex` with the six arguments that
   `README.md:66` documents, but `main` extracts only with three
   (`vex.c:780`). It prints its usage to stderr, which the server ignores, and
   the client gets the 200 that was sent before and an empty file.

Seen while modelling, without a run of their own:

- A value, key or role is found in a longer one that it begins, if that comes
  first: `landuse=farm` is written as `landuse=farmland` (`tags.c:238`).
  `OutputGiven` allows this and nothing more.
- Ids are 64 bits wide (`idtracker.c:5`), their bins an `int`
  (`idtracker.c:37`): ids 2^38 apart share a bit, and the later one's node
  would not be written. Node ids stop at 10^10; references of ways are not
  tested.
- A list of tags that begins before the end of a subfile is written past it
  (`vex.c:421`): only its beginning is tested. The slab has the same gap
  (`slab.c:36`), and an allocation there may be a whole compressed blob.
- `README.md:62` says to delete the contents of the database directory before
  another import; `mkdir` fails as long as the directory itself exists
  (`vex.c:792`).
- The server has no listener for a process that cannot be started, and ends
  with its open responses (`SpawnFails` of `VexServer`).
- The reader tests the blob header twice and the blob never
  (`pbf-read.c:252`).
- An empty primitive group ends the load with a message about the order, and
  the load counts as finished (`pbf-read.c:113`).
- `kv_alloc` returns NULL when full, and `load_tags` writes through it
  (`pbf-write.c:258-266`).
- `reset_way_block` frees as many reference arrays as the node block has nodes,
  none in the way stage (`pbf-write.c:137`).
- The loader takes node ids up to 10^10, the ID tracker 2^33 of them
  (`vex.c:42`, `idtracker.c:39`); member ids are cut to 32 bits
  (`vex.c:563`).
- An extraction maps files for writing and creates those that are missing; it
  writes the first byte of a tag subfile, always the same value, under the
  shared lock (`vex.c:384`).
- `encode_role` gives an empty role the code of the first one in its list.

## 8. What is not modelled, and the plan

Left out for good: compression, protobuf packing and parsing (generated code),
the parsing of a box on the command line, floating-point conversion of
coordinates, progress output, and the parts that are not in `vex`. `map.c` is
called by nothing that is compiled. The fixed sizes of the buffers for packed
and compressed blobs (`pbf-write.c:49-51`,
`pbf-write.c:177`) depend on the bytes that protobuf and
zlib produce. A PBF file that ends inside a blob is read past its end
(`pbf-read.c:241-251`); files are sequences of whole blobs here.

The plan was, in this order: the way index, because every extract goes through
it and it must survive a kill at any store; the processes and the lock; the ID
tracker; the database as a whole; the reader, the deduplicator, the writer; the
proofs of the first, second, third and sixth; the stored form of tags; the VEX
format and its integers; the memory of the reader and of the writer; the
server; the proofs of the database, the writer and the reader. This is done.
What is left are theorems:

1. The refinement of the cells of `VexDatabase` to `WayIndex`.
2. `TypeOK`, `VarintsFit` and `StreamReadsBack` of `VexFormat`.
