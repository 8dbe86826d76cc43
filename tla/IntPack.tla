------------------------------ MODULE IntPack -------------------------------
(***************************************************************************)
(* Integers of variable width (intpack.c): groups of bits, the lowest      *)
(* first, one to a byte, whose top bit tells that more groups follow.      *)
(* Signed integers are folded onto the unsigned ones first.  The widths    *)
(* are parameters, 7 bits to a group and 32 to a word in the code.         *)
(***************************************************************************)
EXTENDS Integers, Sequences, FiniteSetsExt

CONSTANTS GROUP_BITS, WORD_BITS

\* A word has four whole groups and the beginning of a fifth.
ASSUME BitsAssumption ==
  /\ GROUP_BITS \in Nat \ {0} /\ WORD_BITS \in Nat
  /\ 4 * GROUP_BITS < WORD_BITS /\ WORD_BITS =< 5 * GROUP_BITS

Group == 2 ^ GROUP_BITS
Word  == 2 ^ WORD_BITS
Byte  == 0 .. 2 * Group - 1

\* The k-th group of n, and all that is left from it on.
Rest(n, k) == n \div Group ^ k

\* Mutant of Flagged: the store does not cut the value to a byte.
FlaggedWide(n) == n + IF (n \div Group) % 2 = 0 THEN Group ELSE 0

\* The lowest group of n with the top bit set: n | 0x80, stored in a byte.
Flagged(n) == Group + (n % Group)

zigzag64(v) == IF v < 0 THEN 2 * (-v) - 1 ELSE 2 * v

\* Groups of n until at most one is left, or until there are most of them.
Groups(n, most) ==
  LET last == Min({k \in 0 .. most - 1 : Rest(n, k) < Group \/ k = most - 1})
  IN  [i \in 1 .. last + 1 |->
         IF i =< last THEN Flagged(Rest(n, i - 1)) ELSE Rest(n, last)]

uint32_pack(n) == Groups(n, 5)

\* Mutant of uint64_pack: the bits in the fifth group are not taken off the high word.
uint64_pack_twice(n) ==
  LET hi    == (n \div Word) % Word
      lo    == n % Word
      width == 2 ^ (WORD_BITS - 4 * GROUP_BITS)
      room  == Group \div width
      four  == [i \in 1 .. 4 |-> Flagged(Rest(lo, i - 1))]
  IN  CASE hi = 0               -> uint32_pack(lo)
        [] hi > 0 /\ hi < room  -> four \o <<hi * width + Rest(lo, 4)>>
        [] OTHER                -> four \o <<Flagged((hi % room) * width + Rest(lo, 4))>>
                                        \o Groups(hi, WORD_BITS)

(* The fifth group has the top of the low word and the bottom of the high  *)
(* one, unless the high word is 0.                                         *)
uint64_pack(n) ==
  LET hi    == (n \div Word) % Word
      lo    == n % Word
      width == 2 ^ (WORD_BITS - 4 * GROUP_BITS)  \* of the low word in the fifth group
      room  == Group \div width                  \* for the high word
      four  == [i \in 1 .. 4 |-> Flagged(Rest(lo, i - 1))]
  IN  CASE hi = 0               -> uint32_pack(lo)
        [] hi > 0 /\ hi < room  -> four \o <<hi * width + Rest(lo, 4)>>
        [] OTHER                -> four \o <<Flagged((hi % room) * width + Rest(lo, 4))>>
                                        \o Groups(hi \div room, WORD_BITS)

sint64_pack(v) == uint64_pack(zigzag64(v))

-----------------------------------------------------------------------------
(* A reader of the encoding, by its definition: what begins at place i of  *)
(* a sequence of bytes, and the place after it.                            *)

ReadLength(bytes, i) ==
  LET end == Min({j \in i .. Len(bytes) : bytes[j] \in 0 .. Group - 1})
      sum[j \in i - 1 .. end] ==
        IF j < i THEN 0 ELSE sum[j - 1] + (bytes[j] % Group) * Group ^ (j - i)
  IN  [value |-> sum[end], next |-> end + 1]

ReadSigned(bytes, i) ==
  LET n == ReadLength(bytes, i)
  IN  [n EXCEPT !.value = IF @ % 2 = 0 THEN @ \div 2 ELSE -(@ \div 2) - 1]
=============================================================================
