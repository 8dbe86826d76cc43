----------------------------- MODULE IDTracker ------------------------------
(***************************************************************************)
(* The bitset of ids (idtracker.c): a flat array of bins of BIN_SIZE bits. *)
(* An id selects the bin id / BIN_SIZE (a shift in the code, whose result  *)
(* is cut to an int) and in it the bit id % BIN_SIZE (a mask).  A call     *)
(* with an id past the last bin ends the process with exit status -12.     *)
(***************************************************************************)
EXTENDS Integers

CONSTANTS
  BIN_SIZE,  \* bits in a bin, 2^BIN_BITS
  N_BINS,    \* bins in the array, MAX_ID / BIN_SIZE
  INT_WIDTH, \* 2^32, the values of an int
  Ids        \* the ids the program passes: the references of ways, which no limit tests

ASSUME BinAssumption == BIN_SIZE \in Nat \ {0} /\ N_BINS \in Nat
ASSUME IntAssumption == INT_WIDTH \in Nat \ {0}
ASSUME IdAssumption == Ids \subseteq Nat

Bits == 0 .. BIN_SIZE - 1
Bins == 0 .. N_BINS - 1

VARIABLES
  bins,    \* the bits set in each bin
  asked,   \* the id of the last call, 0 before any
  result,  \* what that call returned
  exited   \* the process ended in a call, or left the array there

vars == <<bins, asked, result, exited>>

\* The upper half of the values are negative ints.
Bin(id) ==
  LET bin_index == (id \div BIN_SIZE) % INT_WIDTH
  IN  IF bin_index < INT_WIDTH \div 2 THEN bin_index ELSE bin_index - INT_WIDTH

\* Mutant of Bit: the low bits are not masked out.
BitUnmasked(id) == id

Bit(id) == id % BIN_SIZE

Init ==
  /\ bins = [b \in Bins |-> {}]
  /\ asked = 0 /\ result = FALSE
  /\ exited = FALSE

Reset ==
  /\ ~exited
  /\ bins' = [b \in Bins |-> {}]
  /\ UNCHANGED <<asked, result, exited>>

\* Mutant of Set: = in the place of |=.
SetOnly(id) ==
  /\ ~exited
  /\ Bin(id) \in Bins
  /\ asked' = id /\ result' = (Bit(id) \in bins[Bin(id)])
  /\ bins' = [bins EXCEPT ![Bin(id)] = {Bit(id)}]
  /\ UNCHANGED exited

\* IDTracker_set: the bit is read before it is set.
Set(id) ==
  /\ ~exited
  /\ Bin(id) \in Bins
  /\ asked' = id /\ result' = (Bit(id) \in bins[Bin(id)])
  /\ bins' = [bins EXCEPT ![Bin(id)] = @ \cup {Bit(id)}]
  /\ UNCHANGED exited

Get(id) ==
  /\ ~exited
  /\ Bin(id) \in Bins
  /\ asked' = id /\ result' = (Bit(id) \in bins[Bin(id)])
  /\ UNCHANGED <<bins, exited>>

\* if (bin_index >= N_BINS) exit (-12), in either call
Exit(id) ==
  /\ ~exited
  /\ Bin(id) >= N_BINS
  /\ exited' = TRUE
  /\ UNCHANGED <<bins, asked, result>>

\* A negative index is not tested: the call ends the process, or reads and writes
\* what lies before the array, and nothing is said of what follows then.
LeaveArray(id) ==
  /\ ~exited
  /\ Bin(id) < 0
  /\ exited' = TRUE
  /\ UNCHANGED <<bins, asked, result>>

Next ==
  \/ Reset
  \/ \E id \in Ids : Set(id) \/ Get(id) \/ Exit(id) \/ LeaveArray(id)

Spec == Init /\ [][Next]_vars

-----------------------------------------------------------------------------
TypeOK ==
  /\ bins \in [Bins -> SUBSET Bits]
  /\ asked \in Nat /\ result \in BOOLEAN
  /\ exited \in BOOLEAN

\* The ids whose bit is set.
Flagged == UNION {{BIN_SIZE * b + i : i \in bins[b]} : b \in Bins}

Abstract == INSTANCE IdSet WITH ids <- Flagged

\* Ids whose bin an int can tell from every other: below 2^38 in the code.
FitsInt == \A id \in Ids : id < INT_WIDTH * BIN_SIZE

(* Two ids never share a bit and no bit is lost: whatever the order of the *)
(* calls, each one answers as the set of ids would, which is why the node  *)
(* stage neither skips a node nor writes one twice.  "OSM IDs, which are   *)
(* 64 bit integers" (idtracker.c:5) do share bits where FitsInt fails.     *)
RefinesIdSet == Abstract!Spec
=============================================================================
