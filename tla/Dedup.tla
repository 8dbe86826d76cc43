------------------------------- MODULE Dedup --------------------------------
(***************************************************************************)
(* The string deduplicator of the PBF writer (dedup.c): a hash table of    *)
(* SIZE chains from strings to indexes, the index of a new string being    *)
(* the number of strings so far, and the inverse array that is listed in a *)
(* blob as its string table.                                               *)
(***************************************************************************)
EXTENDS Integers, Sequences

CONSTANTS
  Strings,
  SIZE,     \* chains in the table
  Hash,     \* hash(key) % SIZE
  NULL      \* no inverse array, or no string yet

ASSUME HashAssumption == SIZE \in Nat /\ Hash \in [Strings -> 0 .. SIZE - 1]

VARIABLES
  entries,  \* the chain of each hash, its entries as [key, val]
  n,        \* strings in the table
  asked,    \* the string of the last call of Dedup_dedup
  result,   \* the index it returned
  inverse   \* the array of strings by index, that of index v at v + 1

vars == <<entries, n, asked, result, inverse>>

Hashes == 0 .. SIZE - 1

\* Dedup_init
Init ==
  /\ entries = [h \in Hashes |-> <<>>]
  /\ n = 0 /\ asked = NULL /\ result = 0 /\ inverse = NULL

\* Mutant of Find: the first entry of the chain is taken for the key's.
FindFirst(key) ==
  /\ entries[Hash[key]] # <<>>
  /\ asked' = key /\ result' = entries[Hash[key]][1].val
  /\ UNCHANGED <<entries, n, inverse>>

\* The key is met while the chain of its hash is walked.
Find(key) ==
  \E i \in 1 .. Len(entries[Hash[key]]) :
    /\ entries[Hash[key]][i].key = key
    /\ asked' = key /\ result' = entries[Hash[key]][i].val
    /\ UNCHANGED <<entries, n, inverse>>

\* Mutant of Add: the entry gets the index of the string before.
AddBefore(key) ==
  /\ \A i \in 1 .. Len(entries[Hash[key]]) : entries[Hash[key]][i].key # key
  /\ entries' = [entries EXCEPT ![Hash[key]] = Append(@, [key |-> key, val |-> n - 1])]
  /\ n' = n + 1
  /\ asked' = key /\ result' = n
  /\ UNCHANGED inverse

\* The chain ends without it: a new entry at the end, with the next index.
Add(key) ==
  /\ \A i \in 1 .. Len(entries[Hash[key]]) : entries[Hash[key]][i].key # key
  /\ entries' = [entries EXCEPT ![Hash[key]] = Append(@, [key |-> key, val |-> n])]
  /\ n' = n + 1
  /\ asked' = key /\ result' = n
  /\ UNCHANGED inverse

Dedup_dedup(key) == Find(key) \/ Add(key)

HasEntry(key, v) ==
  \E i \in 1 .. Len(entries[Hash[key]]) :
    entries[Hash[key]][i] = [key |-> key, val |-> v]

(* Every entry of every chain is put at its index.  An index without an    *)
(* entry would keep what malloc left there: CHOOSE says nothing of it.     *)
Listing ==
  [i \in 1 .. n |-> CHOOSE key \in Strings : HasEntry(key, i - 1)]

Dedup_string_table ==
  /\ inverse' = Listing
  /\ UNCHANGED <<entries, n, asked, result>>

\* Mutant of Dedup_clear: n keeps counting.
ClearUncounted ==
  /\ entries' = [h \in Hashes |-> <<>>]
  /\ inverse' = NULL
  /\ UNCHANGED <<n, asked, result>>

Dedup_clear ==
  /\ entries' = [h \in Hashes |-> <<>>]
  /\ inverse' = NULL
  /\ n' = 0
  /\ UNCHANGED <<asked, result>>

Next ==
  \/ Dedup_string_table \/ Dedup_clear
  \/ \E key \in Strings : Dedup_dedup(key)

Spec == Init /\ [][Next]_vars

-----------------------------------------------------------------------------
TypeOK ==
  /\ entries \in [Hashes -> Seq([key : Strings, val : Nat])]
  /\ n \in Nat /\ asked \in Strings \cup {NULL} /\ result \in Nat

(* The chains are a bijection between the strings met since the table was  *)
(* cleared and 0 .. n - 1: a string keeps its index, two strings never     *)
(* share one, and none is skipped, so that the inverse array has no hole   *)
(* (dedup.c:24-41, 97-114).                                                *)
OneToOne ==
  /\ \A h \in Hashes : \A i \in 1 .. Len(entries[h]) : entries[h][i].val < n
  /\ \A v \in 0 .. n - 1 : \E key \in Strings : HasEntry(key, v)
  /\ \A k1, k2 \in Strings, v \in 0 .. n - 1 :
       HasEntry(k1, v) /\ HasEntry(k2, v) => k1 = k2
  /\ \A key \in Strings, v1, v2 \in 0 .. n - 1 :
       HasEntry(key, v1) /\ HasEntry(key, v2) => v1 = v2

IInv == TypeOK /\ OneToOne

Abstract == INSTANCE StringTable WITH table <- Listing, listed <- inverse

(* The hash table behaves as the list of distinct strings: what a reader   *)
(* looks up in the string table of a blob is the string the writer put in, *)
(* however the strings hash (dedup.c:24-41, 97-114).                       *)
RefinesStringTable == Abstract!Spec
=============================================================================
