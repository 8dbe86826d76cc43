-------------------------------- MODULE Slab --------------------------------
(***************************************************************************)
(* The slab allocator (slab.c): allocations are cut one after another from *)
(* one piece of memory and all given back at once.  What is kept between   *)
(* them is the place of the next one.  The memory before it is not looked  *)
(* at again by the allocator, so places are numbers here.                  *)
(***************************************************************************)
EXTENDS Integers, SequencesExt

CONSTANT SLAB_SIZE  \* 8 MB

ASSUME SlabAssumption == SLAB_SIZE \in Nat \ {0}

\* slab_init, slab_reset
slab_reset == 0

(* s is the place of the next allocation, and whether one failed or went   *)
(* past the end.  NULL is the answer when the slab is used up, which ends  *)
(* the unpacking; whether an allocation ends in the slab is not asked.     *)
slab_alloc(s, size) ==
  IF s.null \/ s.next >= SLAB_SIZE THEN [s EXCEPT !.null = TRUE]
  ELSE [s EXCEPT !.next = @ + size, !.past = @ \/ s.next + size > SLAB_SIZE]

\* A message unpacked with allocations of the given sizes, beginning at next.
Unpack(next, sizes) ==
  FoldLeft(slab_alloc, [next |-> next, null |-> FALSE, past |-> FALSE], sizes)
=============================================================================
