---------------------------- MODULE DedupProofs -----------------------------
(***************************************************************************)
(* The chains stay a bijection between strings and indexes, and the table  *)
(* implements the abstract string table, for every set of strings, number  *)
(* of chains and hash function.                                            *)
(***************************************************************************)
EXTENDS Dedup, SequenceTheorems, TLAPS

LEMMA InitInv == Init => IInv
BY HashAssumption DEF Init, IInv, TypeOK, OneToOne, HasEntry, Hashes

LEMMA EntryBound ==
  ASSUME IInv, NEW key \in Strings, NEW v, HasEntry(key, v)
  PROVE  v \in 0 .. n - 1
<1>1. PICK i \in 1 .. Len(entries[Hash[key]]) :
        entries[Hash[key]][i] = [key |-> key, val |-> v]
  BY DEF HasEntry
<1>2. Hash[key] \in Hashes
  BY HashAssumption DEF Hashes
<1>3. entries[Hash[key]] \in Seq([key : Strings, val : Nat])
  BY <1>2 DEF IInv, TypeOK
<1>4. entries[Hash[key]][i] \in [key : Strings, val : Nat]
  BY <1>1, <1>3
<1>5. entries[Hash[key]][i].val < n
  BY <1>1, <1>2 DEF IInv, OneToOne
<1>6. v \in Nat /\ v < n
  BY <1>1, <1>4, <1>5
<1>7. QED
  BY <1>6 DEF IInv, TypeOK

LEMMA EntryType ==
  ASSUME IInv, NEW h \in Hashes, NEW i \in 1 .. Len(entries[h])
  PROVE  entries[h][i] \in [key : Strings, val : Nat] /\ entries[h][i].val \in Nat
<1>1. entries[h] \in Seq([key : Strings, val : Nat])
  BY DEF IInv, TypeOK
<1>2. entries[h][i] \in [key : Strings, val : Nat]
  BY <1>1, ElementOfSeq
<1>3. QED
  BY <1>2

\* The invariant reads the chains and their count only.
LEMMA SameTable ==
  ASSUME IInv, UNCHANGED <<entries, n>>,
         asked' \in Strings \cup {NULL}, result' \in Nat
  PROVE  IInv'
<1>1. TypeOK'
  BY DEF IInv, TypeOK
<1>2. ASSUME NEW k \in Strings, NEW v  PROVE HasEntry(k, v)' <=> HasEntry(k, v)
  BY DEF HasEntry
<1>3. \A h \in Hashes : \A i \in 1 .. Len(entries'[h]) : entries'[h][i].val < n'
  BY DEF IInv, OneToOne
<1>4. \A v \in 0 .. n' - 1 : \E key \in Strings : HasEntry(key, v)'
  <2>1. \A v \in 0 .. n - 1 : \E key \in Strings : HasEntry(key, v)
    BY DEF IInv, OneToOne
  <2>2. QED
    BY <2>1, <1>2
<1>5. \A k1, k2 \in Strings, v \in 0 .. n' - 1 :
        HasEntry(k1, v)' /\ HasEntry(k2, v)' => k1 = k2
  <2>1. \A k1, k2 \in Strings, v \in 0 .. n - 1 :
          HasEntry(k1, v) /\ HasEntry(k2, v) => k1 = k2
    BY DEF IInv, OneToOne
  <2>2. QED
    BY <2>1, <1>2
<1>6. \A key \in Strings, v1, v2 \in 0 .. n' - 1 :
        HasEntry(key, v1)' /\ HasEntry(key, v2)' => v1 = v2
  <2>1. \A key \in Strings, v1, v2 \in 0 .. n - 1 :
          HasEntry(key, v1) /\ HasEntry(key, v2) => v1 = v2
    BY DEF IInv, OneToOne
  <2>2. QED
    BY <2>1, <1>2
<1>7. QED
  BY <1>1, <1>3, <1>4, <1>5, <1>6 DEF IInv, OneToOne

\* A new entry is the only change: it is at the end of one chain.
LEMMA AddedEntry ==
  ASSUME IInv, NEW key \in Strings, Add(key), NEW k \in Strings, NEW v \in Nat
  PROVE  HasEntry(k, v)' <=> HasEntry(k, v) \/ (k = key /\ v = n)
<1> DEFINE h == Hash[k]
           g == Hash[key]
<1>1. h \in Hashes /\ g \in Hashes
  BY HashAssumption DEF Hashes
<1>2. entries[h] \in Seq([key : Strings, val : Nat])
      /\ entries[g] \in Seq([key : Strings, val : Nat])
  BY <1>1 DEF IInv, TypeOK
<1>3. entries' = [entries EXCEPT ![g] = Append(entries[g], [key |-> key, val |-> n])]
  BY DEF Add
<1>4. CASE h = g
  <2>1. entries'[h] = Append(entries[h], [key |-> key, val |-> n])
    BY <1>1, <1>3, <1>4 DEF IInv, TypeOK
  <2>2. Len(entries'[h]) = Len(entries[h]) + 1
        /\ \A i \in 1 .. Len(entries[h]) : entries'[h][i] = entries[h][i]
    BY <2>1, <1>2
  <2>0. entries'[h][Len(entries[h]) + 1] = [key |-> key, val |-> n]
    BY <2>1, <1>2
  <2>3. ASSUME HasEntry(k, v)'  PROVE HasEntry(k, v) \/ (k = key /\ v = n)
    <3>1. PICK i \in 1 .. Len(entries'[h]) : entries'[h][i] = [key |-> k, val |-> v]
      BY <2>3 DEF HasEntry
    <3>2. CASE i = Len(entries[h]) + 1
      <4>1. [key |-> k, val |-> v] = [key |-> key, val |-> n]
        BY <3>1, <3>2, <2>0, Zenon
      <4>2. [key |-> k, val |-> v].key = [key |-> key, val |-> n].key
            /\ [key |-> k, val |-> v].val = [key |-> key, val |-> n].val
        BY <4>1
      <4>3. QED
        BY <4>2
    <3>3. CASE i # Len(entries[h]) + 1
      <4>1. i \in 1 .. Len(entries[h])
        BY <3>3, <2>2, <1>2
      <4>2. QED
        BY <4>1, <3>1, <2>2 DEF HasEntry
    <3>4. QED
      BY <3>2, <3>3
  <2>4. ASSUME HasEntry(k, v)  PROVE HasEntry(k, v)'
    <3>1. PICK i \in 1 .. Len(entries[h]) : entries[h][i] = [key |-> k, val |-> v]
      BY <2>4 DEF HasEntry
    <3>2. i \in 1 .. Len(entries'[h])
      BY <3>1, <2>2, <1>2
    <3>4. entries'[h][i] = [key |-> k, val |-> v]
      BY <3>1, <2>2, Zenon
    <3>3. QED
      BY <3>2, <3>4 DEF HasEntry
  <2>5. ASSUME k = key, v = n  PROVE HasEntry(k, v)'
    <3>1. Len(entries[h]) + 1 \in 1 .. Len(entries'[h])
      BY <2>2, <1>2
    <3>2. entries'[h][Len(entries[h]) + 1] = [key |-> k, val |-> v]
      BY <2>0, <2>5, Zenon
    <3>3. \E i \in 1 .. Len(entries'[h]) : entries'[h][i] = [key |-> k, val |-> v]
      BY <3>1, <3>2
    <3>4. QED
      BY <3>3 DEF HasEntry
  <2>6. QED
    BY <2>3, <2>4, <2>5
<1>5. CASE h # g
  <2>1. entries'[h] = entries[h]
    BY <1>1, <1>3, <1>5 DEF IInv, TypeOK
  <2>2. k # key
    BY <1>5
  <2>3. QED
    BY <2>1, <2>2 DEF HasEntry
<1>6. QED
  BY <1>4, <1>5

LEMMA NotThere ==
  ASSUME NEW key \in Strings, Add(key), NEW v
  PROVE  ~HasEntry(key, v)
BY DEF Add, HasEntry

LEMMA AddInv ==
  ASSUME IInv, NEW key \in Strings, Add(key)
  PROVE  IInv'
<1> DEFINE g == Hash[key]
           e == [key |-> key, val |-> n]
<1>1. g \in Hashes /\ n \in Nat /\ n' = n + 1 /\ asked' = key /\ result' = n
  BY HashAssumption DEF Hashes, IInv, TypeOK, Add
<1>2. entries[g] \in Seq([key : Strings, val : Nat])
  BY <1>1 DEF IInv, TypeOK
<1>3. entries' = [entries EXCEPT ![g] = Append(entries[g], e)]
  BY DEF Add
<1>4. Append(entries[g], e) \in Seq([key : Strings, val : Nat])
  BY <1>1, <1>2
<1>5. TypeOK'
  <2>1. entries' \in [Hashes -> Seq([key : Strings, val : Nat])]
    BY <1>1, <1>3, <1>4 DEF IInv, TypeOK
  <2>2. n' \in Nat /\ asked' \in Strings \cup {NULL} /\ result' \in Nat
    BY <1>1
  <2>3. QED
    BY <2>1, <2>2 DEF TypeOK
<1>6. ASSUME NEW h \in Hashes, NEW i \in 1 .. Len(entries'[h])
      PROVE  entries'[h][i].val < n'
  <2>1. CASE h # g
    <3>1. entries'[h] = entries[h] /\ entries[h] \in Seq([key : Strings, val : Nat])
      BY <1>3, <2>1 DEF IInv, TypeOK
    <3>2. entries[h][i].val < n /\ entries[h][i].val \in Nat
      BY <3>1, EntryType DEF IInv, OneToOne
    <3>3. QED
      BY <3>1, <3>2, <1>1
  <2>2. CASE h = g
    <3>1. entries'[h] = Append(entries[g], e)
      BY <1>1, <1>3, <2>2 DEF IInv, TypeOK
    <3>2. CASE i = Len(entries[g]) + 1
      BY <3>1, <3>2, <1>1, <1>2
    <3>3. CASE i # Len(entries[g]) + 1
      <4>1. i \in 1 .. Len(entries[g]) /\ entries'[h][i] = entries[g][i]
        BY <3>1, <3>3, <1>2
      <4>2. entries[g][i].val < n /\ entries[g][i].val \in Nat
        BY <4>1, <1>1, EntryType DEF IInv, OneToOne
      <4>3. QED
        BY <4>1, <4>2, <1>1
    <3>4. QED
      BY <3>2, <3>3
  <2>3. QED
    BY <2>1, <2>2
<1>7. ASSUME NEW v \in 0 .. n' - 1
      PROVE  \E k \in Strings : HasEntry(k, v)'
  <2>1. v \in Nat /\ (v = n \/ v \in 0 .. n - 1)
    BY <1>1
  <2>2. CASE v = n
    BY <2>1, <2>2, AddedEntry
  <2>3. CASE v \in 0 .. n - 1
    <3>1. PICK k \in Strings : HasEntry(k, v)
      BY <2>3 DEF IInv, OneToOne
    <3>2. QED
      BY <2>1, <3>1, AddedEntry
  <2>4. QED
    BY <2>1, <2>2, <2>3
<1>8. ASSUME NEW k1 \in Strings, NEW k2 \in Strings, NEW v \in 0 .. n' - 1,
             HasEntry(k1, v)', HasEntry(k2, v)'
      PROVE  k1 = k2
  <2>1. v \in Nat
    BY <1>1
  <2>2. HasEntry(k1, v) \/ (k1 = key /\ v = n)
    BY <1>8, <2>1, AddedEntry
  <2>3. HasEntry(k2, v) \/ (k2 = key /\ v = n)
    BY <1>8, <2>1, AddedEntry
  <2>4. ASSUME NEW k \in Strings PROVE ~HasEntry(k, n)
    BY <1>1, EntryBound
  <2>5. CASE v = n
    BY <2>2, <2>3, <2>4, <2>5
  <2>6. CASE v # n
    <3>1. HasEntry(k1, v) /\ HasEntry(k2, v)
      BY <2>2, <2>3, <2>6
    <3>2. v \in 0 .. n - 1
      BY <3>1, EntryBound
    <3>3. QED
      BY <3>1, <3>2 DEF IInv, OneToOne
  <2>7. QED
    BY <2>5, <2>6
<1>9. ASSUME NEW k \in Strings, NEW v1 \in 0 .. n' - 1, NEW v2 \in 0 .. n' - 1,
             HasEntry(k, v1)', HasEntry(k, v2)'
      PROVE  v1 = v2
  <2>1. v1 \in Nat /\ v2 \in Nat
    BY <1>1
  <2>2. HasEntry(k, v1) \/ (k = key /\ v1 = n)
    BY <1>9, <2>1, AddedEntry
  <2>3. HasEntry(k, v2) \/ (k = key /\ v2 = n)
    BY <1>9, <2>1, AddedEntry
  <2>4. CASE k = key
    BY <2>2, <2>3, <2>4, NotThere
  <2>5. CASE k # key
    <3>1. HasEntry(k, v1) /\ HasEntry(k, v2)
      BY <2>2, <2>3, <2>5
    <3>2. v1 \in 0 .. n - 1 /\ v2 \in 0 .. n - 1
      BY <3>1, EntryBound
    <3>3. QED
      BY <3>1, <3>2 DEF IInv, OneToOne
  <2>6. QED
    BY <2>4, <2>5
<1>10. OneToOne'
  BY <1>6, <1>7, <1>8, <1>9 DEF OneToOne
<1>11. QED
  BY <1>5, <1>10 DEF IInv

LEMMA FindResult ==
  ASSUME IInv, NEW key \in Strings, Find(key)
  PROVE  result' \in 0 .. n - 1 /\ HasEntry(key, result')
<1>1. PICK i \in 1 .. Len(entries[Hash[key]]) :
        entries[Hash[key]][i].key = key /\ result' = entries[Hash[key]][i].val
  BY DEF Find
<1>2. Hash[key] \in Hashes
  BY HashAssumption DEF Hashes
<1>3. entries[Hash[key]] \in Seq([key : Strings, val : Nat])
  BY <1>2 DEF IInv, TypeOK
<1>4. entries[Hash[key]][i] \in [key : Strings, val : Nat]
  BY <1>1, <1>2, EntryType
<1>5. entries[Hash[key]][i] = [key |-> key, val |-> result']
  BY <1>1, <1>4
<1>6. HasEntry(key, result')
  BY <1>5 DEF HasEntry
<1>7. QED
  BY <1>6, EntryBound

LEMMA NextInv == IInv /\ [Next]_vars => IInv'
<1> SUFFICES ASSUME IInv, [Next]_vars PROVE IInv'
  OBVIOUS
<1>1. CASE Dedup_string_table
  BY <1>1, SameTable DEF Dedup_string_table, IInv, TypeOK
<1>2. CASE Dedup_clear
  BY <1>2, HashAssumption
     DEF Dedup_clear, IInv, TypeOK, OneToOne, HasEntry, Hashes
<1>3. ASSUME NEW key \in Strings, Find(key) PROVE IInv'
  <2>1. result' \in Nat
    <3>1. result' \in 0 .. n - 1 /\ n \in Nat
      BY <1>3, FindResult DEF IInv, TypeOK
    <3>2. QED
      BY <3>1
  <2>2. UNCHANGED <<entries, n>> /\ asked' = key
    BY <1>3 DEF Find
  <2>3. QED
    BY <2>1, <2>2, SameTable
<1>4. ASSUME NEW key \in Strings, Add(key) PROVE IInv'
  BY <1>4, AddInv
<1>5. CASE UNCHANGED vars
  BY <1>5, SameTable DEF vars, IInv, TypeOK
<1>6. QED
  BY <1>1, <1>2, <1>3, <1>4, <1>5 DEF Next, Dedup_dedup

(* Strings and indexes stay in bijection: no index is shared, skipped or   *)
(* changed while the table of a blob fills.                                *)
THEOREM Invariance == Spec => [](TypeOK /\ OneToOne)
<1>1. IInv => TypeOK /\ OneToOne
  BY DEF IInv
<1>2. QED
  BY <1>1, InitInv, NextInv, PTL DEF Spec

-----------------------------------------------------------------------------
(* Refinement: the inverse array of the moment is the abstract table.      *)

LEMMA InverseAt ==
  ASSUME IInv, NEW i \in 1 .. n
  PROVE  Listing[i] \in Strings /\ HasEntry(Listing[i], i - 1)
<1>1. n \in Nat /\ i - 1 \in 0 .. n - 1
  BY DEF IInv, TypeOK
<1>2. \E key \in Strings : HasEntry(key, i - 1)
  BY <1>1 DEF IInv, OneToOne
<1>3. Listing[i] = CHOOSE key \in Strings : HasEntry(key, i - 1)
  BY DEF Listing
<1>4. QED
  BY <1>2, <1>3

LEMMA InverseSeq ==
  ASSUME IInv
  PROVE  Listing \in Seq(Strings) /\ Len(Listing) = n
<1>1. n \in Nat
  BY DEF IInv, TypeOK
<1>2. \A i \in 1 .. n : Listing[i] \in Strings
  BY InverseAt
<1>3. Listing \in [1 .. n -> Strings]
  BY <1>2 DEF Listing
<1>4. QED
  BY <1>1, <1>3

\* A string is at the index of its entry and nowhere else.
LEMMA InverseOf ==
  ASSUME IInv, NEW key \in Strings, NEW i \in 1 .. n
  PROVE  Listing[i] = key <=> HasEntry(key, i - 1)
<1>1. n \in Nat /\ i - 1 \in 0 .. n - 1
  BY DEF IInv, TypeOK
<1>2. Listing[i] \in Strings /\ HasEntry(Listing[i], i - 1)
  BY InverseAt
<1>3. HasEntry(key, i - 1) => Listing[i] = key
  BY <1>1, <1>2 DEF IInv, OneToOne
<1>4. QED
  BY <1>2, <1>3

LEMMA InverseAdded ==
  ASSUME IInv, NEW key \in Strings, Add(key)
  PROVE  Listing' = Append(Listing, key)
<1>1. IInv'
  BY AddInv
<1>2. n \in Nat /\ n' = n + 1
  BY DEF IInv, TypeOK, Add
<1>3. Listing \in Seq(Strings) /\ Len(Listing) = n
  BY InverseSeq
<1>4. Listing' \in Seq(Strings) /\ Len(Listing') = n + 1
  <2>1. Listing' \in Seq(Strings) /\ Len(Listing') = n'
    <3>1. n' \in Nat
      BY <1>2
    <3>2. ASSUME NEW i \in 1 .. n + 1 PROVE Listing'[i] \in Strings
      <4>1. \E k \in Strings : HasEntry(k, i - 1)'
        <5>1. i - 1 \in 0 .. (n + 1) - 1
          BY <1>2
        <5>2. \A v \in 0 .. n' - 1 : \E k \in Strings : HasEntry(k, v)'
          BY <1>1 DEF IInv, OneToOne
        <5>3. n' - 1 = (n + 1) - 1
          BY <1>2
        <5>4. QED
          BY <5>1, <5>2, <5>3
      <4>2. Listing'[i] = CHOOSE k \in Strings : HasEntry(k, i - 1)'
        BY <1>2 DEF Listing
      <4>3. QED
        BY <4>1, <4>2
    <3>3. Listing' \in [1 .. n' -> Strings]
      BY <1>2, <3>2 DEF Listing
    <3>4. QED
      BY <3>1, <3>3
  <2>2. QED
    BY <2>1, <1>2
<1>5. ASSUME NEW i \in 1 .. n + 1
      PROVE  Listing'[i] = Append(Listing, key)[i]
  <2>1. i - 1 \in Nat
    BY <1>2
  <2>2. Listing'[i] = CHOOSE k \in Strings : HasEntry(k, i - 1)'
    BY <1>2 DEF Listing
  <2>3. \A k \in Strings : HasEntry(k, i - 1)' <=> HasEntry(k, i - 1) \/ (k = key /\ i - 1 = n)
    BY <2>1, AddedEntry
  <2>4. CASE i = n + 1
    <3>1. i - 1 = n /\ i - 1 \notin 0 .. n - 1
      BY <1>2, <2>4
    <3>2. \A k \in Strings : ~HasEntry(k, i - 1)
      BY <3>1, EntryBound
    <3>3. \A k \in Strings : HasEntry(k, i - 1)' <=> k = key
      BY <2>3, <3>1, <3>2
    <3>4. Listing'[i] = key
      BY <2>2, <3>3
    <3>5. QED
      BY <3>4, <2>4, <1>3
  <2>5. CASE i # n + 1
    <3>1. i \in 1 .. n /\ i - 1 # n
      BY <1>2, <2>5
    <3>2. \A k \in Strings : HasEntry(k, i - 1)' <=> HasEntry(k, i - 1)
      BY <2>3, <3>1
    <3>3. \A k \in Strings : HasEntry(k, i - 1)' <=> k = Listing[i]
      BY <3>1, <3>2, InverseOf
    <3>4. Listing[i] \in Strings
      BY <3>1, InverseAt
    <3>5. Listing'[i] = Listing[i]
      BY <2>2, <3>3, <3>4
    <3>6. QED
      BY <3>1, <3>5, <1>3
  <2>6. QED
    BY <2>4, <2>5
<1>6. Append(Listing, key) \in Seq(Strings) /\ Len(Append(Listing, key)) = n + 1
  BY <1>2, <1>3
<1>7. QED
  BY <1>2, <1>4, <1>5, <1>6, SeqEqual

LEMMA HasIndex ==
  ASSUME IInv, NEW key \in Strings
  PROVE  Abstract!Has(key) <=> \E i \in 1 .. n : HasEntry(key, i - 1)
BY InverseSeq, InverseOf DEF Abstract!Has

LEMMA InitRefines == Init => Abstract!Init
<1> SUFFICES ASSUME Init PROVE Abstract!Init
  OBVIOUS
<1>1. IInv /\ n = 0
  BY InitInv DEF Init
<1>2. Listing \in Seq(Strings) /\ Len(Listing) = 0
  BY <1>1, InverseSeq
<1>3. Listing = <<>>
  BY <1>2
<1>4. QED
  BY <1>3 DEF Init, Abstract!Init

LEMMA AddRefines ==
  ASSUME IInv, NEW key \in Strings, Add(key)
  PROVE  Abstract!Add(key)
<1>1. \A i \in 1 .. n : ~HasEntry(key, i - 1)
  BY NotThere
<1>2. ~Abstract!Has(key)
  BY <1>1, HasIndex
<1>3. Listing' = Append(Listing, key) /\ Len(Listing) = n
  BY InverseAdded, InverseSeq
<1>4. QED
  BY <1>2, <1>3 DEF Abstract!Add, Add

LEMMA FindRefines ==
  ASSUME IInv, NEW key \in Strings, Find(key)
  PROVE  Abstract!Find(key)
<1> DEFINE r == result'
<1>1. r \in 0 .. n - 1 /\ HasEntry(key, r) /\ n \in Nat
  BY FindResult DEF IInv, TypeOK
<1> HIDE DEF r
<1>2. r + 1 \in 1 .. n /\ (r + 1) - 1 = r
  BY <1>1
<1>3. Listing[r + 1] = key
  BY <1>1, <1>2, InverseOf
<1>4. \A i \in 1 .. n : Listing[i] = key => i = r + 1
  <2>1. SUFFICES ASSUME NEW i \in 1 .. n, Listing[i] = key PROVE i = r + 1
    OBVIOUS
  <2>2. i - 1 \in 0 .. n - 1 /\ HasEntry(key, i - 1)
    BY <2>1, <1>1, InverseOf
  <2>3. i - 1 = r
    BY <2>2, <1>1 DEF IInv, OneToOne
  <2>4. QED
    BY <2>3, <1>1
<1>5. Len(Listing) = n
  BY InverseSeq
<1>6. (CHOOSE i \in 1 .. n : Listing[i] = key) = r + 1
  BY <1>2, <1>3, <1>4
<1>7. Abstract!Has(key) /\ r = Abstract!IndexOf(key)
  BY <1>1, <1>2, <1>3, <1>5, <1>6 DEF Abstract!Has, Abstract!IndexOf
<1>8. UNCHANGED <<Listing, inverse>> /\ asked' = key
  BY DEF Find, Listing, HasEntry
<1>9. QED
  BY <1>7, <1>8 DEF Abstract!Find, r

LEMMA NextRefines ==
  IInv /\ [Next]_vars => [Abstract!Next]_<<Listing, asked, result, inverse>>
<1> SUFFICES ASSUME IInv, [Next]_vars
             PROVE  [Abstract!Next]_<<Listing, asked, result, inverse>>
  OBVIOUS
<1>1. CASE Dedup_string_table
  <2>1. inverse' = Listing /\ UNCHANGED <<Listing, asked, result>>
    BY <1>1 DEF Dedup_string_table, Listing, HasEntry
  <2>2. QED
    BY <2>1 DEF Abstract!Next, Abstract!List
<1>2. CASE Dedup_clear
  <2>1. Listing' = <<>>
    BY <1>2 DEF Dedup_clear, Listing
  <2>2. QED
    BY <1>2, <2>1 DEF Dedup_clear, Abstract!Next, Abstract!Clear
<1>3. ASSUME NEW key \in Strings, Dedup_dedup(key)
      PROVE  [Abstract!Next]_<<Listing, asked, result, inverse>>
  BY <1>3, AddRefines, FindRefines DEF Dedup_dedup, Abstract!Next
<1>4. CASE UNCHANGED vars
  BY <1>4 DEF vars, Listing, HasEntry
<1>5. QED
  BY <1>1, <1>2, <1>3, <1>4 DEF Next

(* For every hash function, however many strings share a chain, the table  *)
(* behaves as the list of distinct strings in the order they came.         *)
THEOREM Refinement == Spec => RefinesStringTable
<1>1. IInv /\ [Next]_vars => IInv' /\ [Abstract!Next]_<<Listing, asked, result, inverse>>
  BY NextInv, NextRefines
<1>2. QED
  BY <1>1, InitInv, InitRefines, PTL
     DEF Spec, RefinesStringTable, Abstract!Spec
=============================================================================
