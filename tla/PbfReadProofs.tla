------------------------- MODULE PbfReadProofs ----------------------------
(***************************************************************************)
(* The PBF reader for every file, set of callbacks, size of the slab and   *)
(* room for tags: what it delivers, what it misses and when it fails.      *)
(***************************************************************************)
EXTENDS PbfRead, FiniteSetTheorems, SequenceTheorems, TLAPS

\* The folds of the model, each with the induction of SeqFold.
Joins  == INSTANCE SeqFold WITH op <- Join
Sums   == INSTANCE SeqFold WITH op <- AddSize
Allocs == INSTANCE SeqFold WITH op <- slab_alloc

LEMMA FoldsAre ==
  /\ \A seqs : Concat(seqs) = Joins!Fold(<<>>, seqs)
  /\ \A sizes : Total(sizes) = Sums!Fold(0, sizes)
  /\ \A s, sizes : FoldLeft(slab_alloc, s, sizes) = Allocs!Fold(s, sizes)
<1>1. \A seqs : Concat(seqs) = Joins!Fold(<<>>, seqs)
  BY DEF Concat, Joins!Fold, Joins!Folds, FoldLeft, MapThenFoldSet,
         Max, Joins!Max
<1>2. \A sizes : Total(sizes) = Sums!Fold(0, sizes)
  BY DEF Total, Sums!Fold, Sums!Folds, FoldLeft, MapThenFoldSet,
         Max, Sums!Max
<1>3. \A s, sizes : FoldLeft(slab_alloc, s, sizes) = Allocs!Fold(s, sizes)
  BY DEF Allocs!Fold, Allocs!Folds, FoldLeft, MapThenFoldSet,
         Max, Allocs!Max
<1>4. QED
  BY <1>1, <1>2, <1>3

-----------------------------------------------------------------------------
(* Sequences one after another.                                            *)

\* s begins t.
Begins(s, t) == Len(s) =< Len(t) /\ \A i \in 1 .. Len(s) : t[i] = s[i]

LEMMA ConcatEmpty == Concat(<<>>) = <<>>
BY FoldsAre, Joins!FoldEmpty

LEMMA ConcatAppend ==
  ASSUME NEW T, NEW seqs \in Seq(Seq(T)), NEW s \in Seq(T)
  PROVE  Concat(Append(seqs, s)) = Concat(seqs) \o s
<1>1. Joins!Fold(<<>>, Append(seqs, s)) = Join(Joins!Fold(<<>>, seqs), s)
  BY Joins!FoldAppend
<1>2. QED
  BY <1>1, FoldsAre, Zenon DEF Join

LEMMA ConcatType ==
  ASSUME NEW T, NEW seqs \in Seq(Seq(T))
  PROVE  Concat(seqs) \in Seq(T)
<1>1. \A s \in Seq(T), t \in Seq(T) : Join(s, t) \in Seq(T)
  BY DEF Join
<1>2. <<>> \in Seq(T)
  OBVIOUS
<1>3. Joins!Fold(<<>>, seqs) \in Seq(T)
  BY <1>1, <1>2, Joins!FoldType
<1>4. QED
  BY <1>3, FoldsAre, Zenon

LEMMA FrontType ==
  ASSUME NEW T, NEW s \in Seq(T), NEW k \in 0 .. Len(s)
  PROVE  /\ SubSeq(s, 1, k) \in Seq(T) /\ Len(SubSeq(s, 1, k)) = k
         /\ \A i \in 1 .. k : SubSeq(s, 1, k)[i] = s[i]
OBVIOUS

LEMMA FrontGrows ==
  ASSUME NEW T, NEW s \in Seq(T), NEW k \in 0 .. Len(s), k < Len(s)
  PROVE  SubSeq(s, 1, k + 1) = Append(SubSeq(s, 1, k), s[k + 1])
<1> DEFINE t == SubSeq(s, 1, k)
           u == SubSeq(s, 1, k + 1)
<1>1. t \in Seq(T) /\ Len(t) = k /\ \A i \in 1 .. k : t[i] = s[i]
  OBVIOUS
<1>2. u \in Seq(T) /\ Len(u) = k + 1 /\ \A i \in 1 .. k + 1 : u[i] = s[i]
  OBVIOUS
<1>3. s[k + 1] \in T
  OBVIOUS
<1> HIDE DEF t, u
<1>4. Append(t, s[k + 1]) \in Seq(T) /\ Len(Append(t, s[k + 1])) = k + 1
  BY <1>1, <1>3
<1>5. \A i \in 1 .. k + 1 : u[i] = Append(t, s[k + 1])[i]
  BY <1>1, <1>2, <1>3
<1>6. u = Append(t, s[k + 1])
  BY <1>2, <1>4, <1>5, SeqEqual
<1>7. QED
  BY <1>6 DEF t, u

LEMMA FrontAll ==
  ASSUME NEW T, NEW s \in Seq(T)
  PROVE  SubSeq(s, 1, Len(s)) = s
<1>1. SubSeq(s, 1, Len(s)) \in Seq(T) /\ Len(SubSeq(s, 1, Len(s))) = Len(s)
      /\ \A i \in 1 .. Len(s) : SubSeq(s, 1, Len(s))[i] = s[i]
  OBVIOUS
<1>2. QED
  BY <1>1, SeqEqual

LEMMA ConcatFront ==
  ASSUME NEW T, NEW seqs \in Seq(Seq(T)), NEW k \in 0 .. Len(seqs), k < Len(seqs)
  PROVE  Concat(SubSeq(seqs, 1, k + 1)) = Concat(SubSeq(seqs, 1, k)) \o seqs[k + 1]
<1>1. SubSeq(seqs, 1, k) \in Seq(Seq(T))
  BY FrontType
<1>2. seqs[k + 1] \in Seq(T)
  OBVIOUS
<1>3. SubSeq(seqs, 1, k + 1) = Append(SubSeq(seqs, 1, k), seqs[k + 1])
  BY FrontGrows
<1>4. Concat(Append(SubSeq(seqs, 1, k), seqs[k + 1]))
      = Concat(SubSeq(seqs, 1, k)) \o seqs[k + 1]
  BY <1>1, <1>2, ConcatAppend
<1>5. QED
  BY <1>3, <1>4, Zenon

LEMMA JoinBegins ==
  ASSUME NEW T, NEW s \in Seq(T), NEW t \in Seq(T), NEW u \in Seq(T), Begins(s, t)
  PROVE  Begins(s, t \o u)
BY DEF Begins

LEMMA ConcatBegins ==
  ASSUME NEW T, NEW seqs \in Seq(Seq(T)), NEW k \in 0 .. Len(seqs), NEW m \in k .. Len(seqs)
  PROVE  Begins(Concat(SubSeq(seqs, 1, k)), Concat(SubSeq(seqs, 1, m)))
<1> DEFINE C(j) == Concat(SubSeq(seqs, 1, j))
           N == {d \in Nat : k + d =< Len(seqs) => Begins(C(k), C(k + d))}
<1>1. ASSUME NEW j \in 0 .. Len(seqs)  PROVE C(j) \in Seq(T)
  <2>1. SubSeq(seqs, 1, j) \in Seq(Seq(T))
    BY FrontType
  <2>2. QED
    BY <2>1, ConcatType
<1>2. ASSUME NEW j \in 0 .. Len(seqs), j < Len(seqs)  PROVE C(j + 1) = C(j) \o seqs[j + 1]
  BY <1>2, ConcatFront
<1> HIDE DEF C
<1>3. 0 \in N
  <2>1. k + 0 = k
    OBVIOUS
  <2>2. Begins(C(k), C(k))
    BY <1>1 DEF Begins
  <2>3. QED
    BY <2>1, <2>2
<1>4. ASSUME NEW d \in Nat, d \in N  PROVE d + 1 \in N
  <2>1. SUFFICES ASSUME k + (d + 1) =< Len(seqs)
                 PROVE  Begins(C(k), C(k + (d + 1)))
    OBVIOUS
  <2> DEFINE j == k + d
  <2>2. j \in 0 .. Len(seqs) /\ j < Len(seqs) /\ k + (d + 1) = j + 1
    BY <2>1
  <2>3. Begins(C(k), C(j))
    BY <1>4, <2>2
  <2> HIDE DEF j
  <2>4. C(j + 1) = C(j) \o seqs[j + 1]
    BY <1>2, <2>2
  <2>5. seqs[j + 1] \in Seq(T)
    BY <2>2
  <2>6. C(k) \in Seq(T) /\ C(j) \in Seq(T)
    BY <1>1, <2>2
  <2>7. Begins(C(k), C(j) \o seqs[j + 1])
    BY <2>3, <2>5, <2>6, JoinBegins
  <2>8. QED
    BY <2>2, <2>4, <2>7
<1>5. Nat \subseteq N
  <2> HIDE DEF N
  <2>1. QED
    BY <1>3, <1>4, Joins!InductiveSet
<1>6. m - k \in Nat /\ k + (m - k) = m /\ m =< Len(seqs)
  OBVIOUS
<1>7. Begins(C(k), C(m))
  <2>1. m - k \in N
    BY <1>5, <1>6, Zenon
  <2>2. Begins(C(k), C(k + (m - k)))
    BY <1>6, <2>1
  <2>3. QED
    BY <1>6, <2>2, Zenon
<1>8. QED
  BY <1>7 DEF C

\* Where the elements of one of the sequences are.
LEMMA ConcatPlace ==
  ASSUME NEW T, NEW seqs \in Seq(Seq(T)), NEW k \in 0 .. Len(seqs), k < Len(seqs)
  PROVE  /\ Len(Concat(SubSeq(seqs, 1, k))) \in Nat
         /\ Len(Concat(SubSeq(seqs, 1, k + 1)))
            = Len(Concat(SubSeq(seqs, 1, k))) + Len(seqs[k + 1])
         /\ Len(Concat(SubSeq(seqs, 1, k + 1))) =< Len(Concat(seqs))
         /\ \A j \in 1 .. Len(seqs[k + 1]) :
              Concat(seqs)[Len(Concat(SubSeq(seqs, 1, k))) + j] = seqs[k + 1][j]
<1> DEFINE C(j) == Concat(SubSeq(seqs, 1, j))
           s == seqs[k + 1]
<1>1. ASSUME NEW j \in 0 .. Len(seqs)  PROVE C(j) \in Seq(T)
  <2>1. SubSeq(seqs, 1, j) \in Seq(Seq(T))
    BY FrontType
  <2>2. QED
    BY <2>1, ConcatType
<1>2. C(k + 1) = C(k) \o s
  BY ConcatFront
<1>3. Begins(C(k + 1), C(Len(seqs)))
  <2>1. k + 1 \in 0 .. Len(seqs) /\ Len(seqs) \in k + 1 .. Len(seqs)
    OBVIOUS
  <2>2. QED
    BY <2>1, ConcatBegins
<1>4. C(Len(seqs)) = Concat(seqs)
  BY FrontAll
<1>5. s \in Seq(T) /\ C(k) \in Seq(T) /\ k + 1 \in 0 .. Len(seqs)
  BY <1>1
<1> HIDE DEF C
<1>6. Begins(C(k) \o s, Concat(seqs))
  BY <1>2, <1>3, <1>4, Zenon
<1>7. /\ Len(C(k)) \in Nat /\ Len(C(k) \o s) = Len(C(k)) + Len(s)
      /\ Len(C(k) \o s) =< Len(Concat(seqs))
      /\ \A j \in 1 .. Len(s) : Concat(seqs)[Len(C(k)) + j] = s[j]
  <2> HIDE DEF s
  <2>1. /\ Len(C(k)) \in Nat /\ Len(C(k) \o s) = Len(C(k)) + Len(s)
        /\ \A j \in 1 .. Len(s) : (C(k) \o s)[Len(C(k)) + j] = s[j]
                                  /\ Len(C(k)) + j \in 1 .. Len(C(k) \o s)
    BY <1>5
  <2>2. QED
    BY <1>6, <2>1 DEF Begins
<1>8. QED
  BY <1>2, <1>7, Zenon DEF C

-----------------------------------------------------------------------------
(* The memory of the slab.                                                 *)

Place == [next : Nat, null : BOOLEAN, past : BOOLEAN]

(* An unpacking fails, or goes past the end, only when its sizes are too   *)
(* much together with the place where it began.                            *)
LEMMA UnpackFits ==
  ASSUME NEW next \in Nat, NEW sizes \in Sizes
  PROVE  LET r == Unpack(next, sizes)
         IN  /\ r \in Place /\ Total(sizes) \in Nat
             /\ r.next =< next + Total(sizes)
             /\ r.null \/ r.past => next + Total(sizes) > SLAB_SIZE
<1> DEFINE base == [next |-> next, null |-> FALSE, past |-> FALSE]
           R(s, sum, r) == /\ r \in Place /\ sum \in Nat
                           /\ r.next =< next + sum
                           /\ ~r.null => r.next = next + sum
                           /\ r.null \/ r.past => next + sum > SLAB_SIZE
           S == {s \in Sizes : R(s, Sums!Fold(0, s), Allocs!Fold(base, s))}
<1>1. SLAB_SIZE \in Nat
  BY SlabAssumption
<1>2. <<>> \in S
  <2>1. Sums!Fold(0, <<>>) = 0 /\ Allocs!Fold(base, <<>>) = base
    BY Sums!FoldEmpty, Allocs!FoldEmpty
  <2>2. R(<<>>, 0, base)
    BY DEF Place
  <2>3. <<>> \in Sizes
    BY DEF Sizes
  <2> HIDE DEF R, base
  <2>4. QED
    BY <2>1, <2>2, <2>3
<1>3. ASSUME NEW s \in Sizes, NEW x \in Nat \ {0}, s \in S  PROVE Append(s, x) \in S
  <2> DEFINE sum == Sums!Fold(0, s)
             r == Allocs!Fold(base, s)
  <2>1. Sums!Fold(0, Append(s, x)) = AddSize(sum, x)
    BY Sums!FoldAppend DEF Sizes
  <2>2. Allocs!Fold(base, Append(s, x)) = slab_alloc(r, x)
    BY Allocs!FoldAppend DEF Sizes
  <2>3. R(s, sum, r)
    BY <1>3
  <2> HIDE DEF sum, r
  <2>4. R(Append(s, x), sum + x, slab_alloc(r, x))
    <3>1. CASE r.null \/ r.next >= SLAB_SIZE
      <4>1. slab_alloc(r, x) = [next |-> r.next, null |-> TRUE, past |-> r.past]
        BY <2>3, <3>1 DEF slab_alloc, Place
      <4>2. next + (sum + x) > SLAB_SIZE
        BY <1>1, <2>3, <3>1 DEF Place
      <4>3. QED
        BY <1>1, <2>3, <4>1, <4>2 DEF Place
    <3>2. CASE ~(r.null \/ r.next >= SLAB_SIZE)
      <4>1. slab_alloc(r, x) = [next |-> r.next + x, null |-> FALSE,
                                past |-> (r.past \/ r.next + x > SLAB_SIZE)]
        BY <2>3, <3>2 DEF slab_alloc, Place
      <4>2. r.next = next + sum /\ r.past = FALSE
        BY <1>1, <2>3, <3>2 DEF Place
      <4>3. QED
        BY <1>1, <2>3, <4>1, <4>2 DEF Place
    <3>3. QED
      BY <3>1, <3>2
  <2>5. Append(s, x) \in Sizes
    BY DEF Sizes
  <2>6. AddSize(sum, x) = sum + x
    BY DEF AddSize
  <2> HIDE DEF R
  <2>7. QED
    BY <2>1, <2>2, <2>4, <2>5, <2>6 DEF sum, r
<1>4. Seq(Nat \ {0}) \subseteq S
  <2> HIDE DEF S
  <2>1. QED
    BY <1>2, <1>3, Sums!InductiveSeqs DEF Sizes
<1>5. R(sizes, Sums!Fold(0, sizes), Allocs!Fold(base, sizes))
  BY <1>4 DEF Sizes
<1>6. Total(sizes) = Sums!Fold(0, sizes) /\ Unpack(next, sizes) = Allocs!Fold(base, sizes)
  BY FoldsAre DEF Unpack
<1>7. QED
  BY <1>5, <1>6

-----------------------------------------------------------------------------
(* Types and phases.                                                       *)

TypeSet == {"NODE", "WAY", "RELATION"}

LEMMA Phases ==
  /\ ToSet(Types) = TypeSet
  /\ PHASE("NODE") = 0 /\ PHASE("WAY") = 1 /\ PHASE("RELATION") = 2
<1>1. ToSet(Types) = TypeSet
  BY DEF ToSet, Types, TypeSet
<1>2. /\ Types[0 + 1] = "NODE" /\ Types[1 + 1] = "WAY" /\ Types[2 + 1] = "RELATION"
      /\ 0 \in 0 .. 2 /\ 1 \in 0 .. 2 /\ 2 \in 0 .. 2
      /\ \A i \in 0 .. 2 : i = 0 \/ i = 1 \/ i = 2
  BY DEF Types
<1>3. PHASE("NODE") = 0
  BY <1>2 DEF PHASE
<1>4. PHASE("WAY") = 1
  BY <1>2 DEF PHASE
<1>5. PHASE("RELATION") = 2
  BY <1>2 DEF PHASE
<1>6. QED
  BY <1>1, <1>3, <1>4, <1>5

LEMMA MaxOfTwo ==
  ASSUME NEW a \in Int, NEW b \in Int
  PROVE  Max({a, b}) = IF a >= b THEN a ELSE b
<1>1. \E x \in {a, b} : \A y \in {a, b} : x >= y
  OBVIOUS
<1>2. Max({a, b}) \in {a, b} /\ \A y \in {a, b} : Max({a, b}) >= y
  BY <1>1 DEF Max
<1>3. QED
  BY <1>2

LEMMA MaxOfPhases ==
  ASSUME NEW S \in SUBSET (0 .. 2), S # {}
  PROVE  Max(S) \in S /\ \A y \in S : Max(S) >= y
<1>1. \E x \in S : \A y \in S : x >= y
  <2>1. CASE 2 \in S
    BY <2>1
  <2>2. CASE 2 \notin S /\ 1 \in S
    BY <2>2
  <2>3. CASE 2 \notin S /\ 1 \notin S
    <3>1. \A x \in S : x = 0
      <4>1. \A x \in 0 .. 2 : x = 0 \/ x = 1 \/ x = 2
        OBVIOUS
      <4>2. QED
        BY <2>3, <4>1
    <3>2. PICK x \in S : TRUE
      OBVIOUS
    <3>3. QED
      BY <3>1, <3>2
  <2>4. QED
    BY <2>1, <2>2, <2>3
<1>2. QED
  BY <1>1 DEF Max

LEMMA TypesOfGroup ==
  ASSUME NEW g
  PROVE  /\ TypesOf(g) \subseteq TypeSet
         /\ "NODE" \in TypesOf(g) <=> g.dense # NoDense \/ g.nodes # <<>>
         /\ "WAY" \in TypesOf(g) <=> g.ways # <<>>
         /\ "RELATION" \in TypesOf(g) <=> g.relations # <<>>
         /\ element_type(g) \in -1 .. 2
         /\ TypesOf(g) = {} => element_type(g) = -1
         /\ \A t \in TypesOf(g) : TypesOf(g) = {t} => element_type(g) = PHASE(t)
<1> DEFINE S == {PHASE(t) : t \in TypesOf(g)}
<1>1. TypesOf(g) = {t \in TypeSet : Has(g, t)}
  BY Phases, Zenon DEF TypesOf
<1>2. /\ Has(g, "NODE") <=> g.dense # NoDense \/ g.nodes # <<>>
      /\ Has(g, "WAY") <=> g.ways # <<>>
      /\ Has(g, "RELATION") <=> g.relations # <<>>
  BY DEF Has
<1>3. TypesOf(g) # {} => Max(S) \in S /\ \A y \in S : Max(S) >= y
  <2>1. S \in SUBSET (0 .. 2)
    BY <1>1, Phases DEF TypeSet
  <2>2. QED
    BY <2>1, MaxOfPhases
<1>4. element_type(g) = IF TypesOf(g) = {} THEN -1 ELSE Max(S)
  BY DEF element_type
<1>5. TypesOf(g) # {} => element_type(g) \in 0 .. 2
  BY <1>1, <1>3, <1>4, Phases DEF TypeSet
<1>6. ASSUME NEW t \in TypesOf(g), TypesOf(g) = {t}  PROVE element_type(g) = PHASE(t)
  <2>1. S = {PHASE(t)}
    BY <1>6
  <2>2. QED
    BY <1>3, <1>4, <1>6, <2>1
<1>7. TypesOf(g) = {} => element_type(g) = -1
  BY <1>4
<1>8. element_type(g) \in -1 .. 2
  BY <1>5, <1>7
<1>9. QED
  BY <1>1, <1>2, <1>6, <1>7, <1>8 DEF TypeSet

\* Two types are more than one.
LEMMA OneOrNone ==
  ASSUME NEW g, ~(Cardinality(TypesOf(g)) > 1)
  PROVE  TypesOf(g) = {} \/ \E t \in TypeSet : TypesOf(g) = {t}
<1>1. SUFFICES ASSUME NEW t \in TypesOf(g), NEW u \in TypesOf(g), t # u  PROVE FALSE
  BY TypesOfGroup
<1>2. IsFiniteSet(TypesOf(g))
  <2>1. IsFiniteSet({"NODE"}) /\ IsFiniteSet({"NODE"} \cup {"WAY"})
        /\ IsFiniteSet({"NODE"} \cup {"WAY"} \cup {"RELATION"})
    BY FS_Singleton, FS_AddElement
  <2>2. IsFiniteSet(TypeSet)
    BY <2>1, Zenon DEF TypeSet
  <2>3. QED
    BY <2>2, TypesOfGroup, FS_Subset
<1>3. Cardinality({t} \cup {u}) = 2
  <2>1. IsFiniteSet({t}) /\ Cardinality({t}) = 1 /\ u \notin {t}
    BY <1>1, FS_Singleton
  <2>2. QED
    BY <2>1, FS_AddElement
<1>4. Cardinality({t} \cup {u}) =< Cardinality(TypesOf(g))
  <2>1. {t} \cup {u} \subseteq TypesOf(g)
    OBVIOUS
  <2>2. QED
    BY <1>2, <2>1, FS_Subset
<1>5. Cardinality(TypesOf(g)) \in Nat
  BY <1>2, FS_CardinalityType
<1>6. QED
  BY <1>3, <1>4, <1>5

\* A group that is handled has one type, of this phase or a later one.
LEMMA OneType ==
  ASSUME NEW g, phase \in 0 .. 2, ~enforce_ordering(g)
  PROVE  \E t \in TypeSet : /\ TypesOf(g) = {t} /\ element_type(g) = PHASE(t)
                            /\ PHASE(t) >= phase
<1>1. ~(Cardinality(TypesOf(g)) > 1) /\ ~(element_type(g) < phase)
  BY DEF enforce_ordering
<1>2. TypesOf(g) # {}
  BY <1>1, TypesOfGroup
<1>3. PICK t \in TypeSet : TypesOf(g) = {t}
  BY <1>1, <1>2, OneOrNone
<1>4. element_type(g) = PHASE(t)
  BY <1>3, TypesOfGroup
<1>5. PHASE(t) \in 0 .. 2
  BY Phases DEF TypeSet
<1>6. QED
  BY <1>1, <1>3, <1>4, <1>5

-----------------------------------------------------------------------------
(* What is delivered of a group.  The operators of the model depend on the *)
(* callbacks; these say which.                                             *)

Elements == Nodes \cup Ways \cup Relations

CalledFor(c, type, es) == IF type \in c THEN es ELSE <<>>
PlainOf(g) == [i \in 1 .. Len(g.nodes) |-> Scaled(g.nodes[i])]
\* The first k dense nodes.
DenseTo(g, k) == [i \in 1 .. k |-> Scaled(Cut(g.dense[i]))]

Handled(c, g) == CalledFor(c, "WAY", g.ways) \o CalledFor(c, "NODE", PlainOf(g))
                 \o CalledFor(c, "RELATION", g.relations)
WantedBy(c, g) ==
  CalledFor(c, "WAY", g.ways) \o CalledFor(c, "NODE", PlainOf(g))
  \o CalledFor(c, "NODE", IF g.dense = NoDense THEN <<>> ELSE DenseTo(g, Len(g.dense)))
  \o CalledFor(c, "RELATION", g.relations)
AllBy(c, gs) == Concat([i \in 1 .. Len(gs) |-> WantedBy(c, gs[i])])

LEMMA WantedSame ==
  /\ \A t, es : Called(t, es) = CalledFor(callbacks, t, es)
  /\ \A g : Wanted(g) = WantedBy(callbacks, g)
  /\ \A gs : WantedOf(gs) = AllBy(callbacks, gs)
<1>1. \A t, es : Called(t, es) = CalledFor(callbacks, t, es)
  BY DEF Called, CalledFor
<1>2. \A g : Wanted(g) = WantedBy(callbacks, g)
  BY <1>1, Zenon DEF Wanted, WantedBy, PlainOf, DenseTo
<1>3. \A gs : WantedOf(gs) = AllBy(callbacks, gs)
  BY <1>2, Zenon DEF WantedOf, AllBy
<1>4. QED
  BY <1>1, <1>2, <1>3

\* Elements of type t, and only if there is a callback for it.
Gives(c, t, es) ==
  /\ es \in Seq(Elements)
  /\ \A i \in 1 .. Len(es) : es[i].type = t /\ t \in c

LEMMA GivesNone ==
  ASSUME NEW c, NEW t
  PROVE  Gives(c, t, <<>>)
BY DEF Gives

LEMMA GivesJoin ==
  ASSUME NEW c, NEW t, NEW s, NEW u, Gives(c, t, s), Gives(c, t, u)
  PROVE  Gives(c, t, s \o u)
<1>1. s \in Seq(Elements) /\ u \in Seq(Elements)
  BY DEF Gives
<1>2. s \o u \in Seq(Elements)
      /\ \A i \in 1 .. Len(s \o u) :
           \/ i \in 1 .. Len(s) /\ (s \o u)[i] = s[i]
           \/ \E j \in 1 .. Len(u) : (s \o u)[i] = u[j]
  BY <1>1
<1>3. \A i \in 1 .. Len(s \o u) : (s \o u)[i].type = t /\ t \in c
  BY <1>2, Zenon DEF Gives
<1>4. QED
  BY <1>2, <1>3 DEF Gives

LEMMA GivesCalled ==
  ASSUME NEW c, NEW t, NEW es \in Seq(Elements), \A i \in 1 .. Len(es) : es[i].type = t
  PROVE  Gives(c, t, CalledFor(c, t, es))
<1>1. CASE t \in c
  BY <1>1 DEF Gives, CalledFor
<1>2. CASE t \notin c
  BY <1>2, GivesNone DEF CalledFor
<1>3. QED
  BY <1>1, <1>2

LEMMA ScaledIs ==
  ASSUME NEW x \in Nodes
  PROVE  Scaled(x) \in Nodes /\ Scaled(Cut(x)) \in Nodes
<1>1. ASSUME NEW y \in Nodes  PROVE Scaled(y) \in Nodes
  <2>1. LAT_OFFSET + y.lat * GRANULARITY \in Int
    BY SizeAssumption DEF Nodes
  <2>2. Scaled(y) = [type |-> y.type, id |-> y.id,
                     lat |-> LAT_OFFSET + y.lat * GRANULARITY, tags |-> y.tags]
    BY DEF Scaled, Nodes
  <2>3. QED
    BY <2>1, <2>2 DEF Nodes
<1>2. Cut(x) \in Nodes
  <2> DEFINE k == Min({Len(x.tags), MAX_TAGS})
  <2>1. x.tags \in Seq((Nat \ {0}) \X Nat) /\ Len(x.tags) \in Nat
    BY DEF Nodes
  <2>2. k \in {Len(x.tags), MAX_TAGS} /\ k =< Len(x.tags)
    <3>1. \E i \in {Len(x.tags), MAX_TAGS} : \A j \in {Len(x.tags), MAX_TAGS} : i =< j
      BY <2>1, SizeAssumption
    <3>2. QED
      BY <3>1 DEF Min
  <2>3. k \in 0 .. Len(x.tags)
    BY <2>1, <2>2, SizeAssumption
  <2>4. Cut(x) = [x EXCEPT !.tags = SubSeq(x.tags, 1, k)]
    BY DEF Cut
  <2> HIDE DEF k
  <2>5. SubSeq(x.tags, 1, k) \in Seq((Nat \ {0}) \X Nat)
    BY <2>1, <2>3, FrontType
  <2>6. [x EXCEPT !.tags = SubSeq(x.tags, 1, k)] \in Nodes
    BY <2>5 DEF Nodes
  <2>7. QED
    BY <2>4, <2>6
<1>3. QED
  BY <1>1, <1>2

LEMMA GroupFields ==
  ASSUME NEW g \in GroupSet
  PROVE  /\ g.ways \in Seq(Elements) /\ \A i \in 1 .. Len(g.ways) : g.ways[i].type = "WAY"
         /\ g.relations \in Seq(Elements)
         /\ \A i \in 1 .. Len(g.relations) : g.relations[i].type = "RELATION"
         /\ PlainOf(g) \in Seq(Elements) /\ Len(PlainOf(g)) = Len(g.nodes)
         /\ \A i \in 1 .. Len(PlainOf(g)) : PlainOf(g)[i].type = "NODE"
         /\ g.dense # NoDense =>
              /\ g.dense \in Seq(Nodes)
              /\ \A k \in 0 .. Len(g.dense) :
                   /\ DenseTo(g, k) \in Seq(Elements) /\ Len(DenseTo(g, k)) = k
                   /\ \A i \in 1 .. k : DenseTo(g, k)[i].type = "NODE"
<1>1. /\ g.ways \in Seq(Ways) /\ g.relations \in Seq(Relations) /\ g.nodes \in Seq(Nodes)
      /\ g.dense # NoDense => g.dense \in Seq(Nodes)
  BY DEF GroupSet
<1>2. \A x \in Nodes : x.type = "NODE" /\ x \in Elements
  BY DEF Nodes, Elements
<1>3. g.ways \in Seq(Elements) /\ \A i \in 1 .. Len(g.ways) : g.ways[i].type = "WAY"
  <2>1. \A i \in 1 .. Len(g.ways) : g.ways[i] \in Ways
    BY <1>1
  <2>2. \A x \in Ways : x.type = "WAY" /\ x \in Elements
    BY DEF Ways, Elements
  <2>3. QED
    BY <1>1, <2>1, <2>2
<1>4. g.relations \in Seq(Elements)
      /\ \A i \in 1 .. Len(g.relations) : g.relations[i].type = "RELATION"
  <2>1. \A i \in 1 .. Len(g.relations) : g.relations[i] \in Relations
    BY <1>1
  <2>2. \A x \in Relations : x.type = "RELATION" /\ x \in Elements
    BY DEF Relations, Elements
  <2>3. QED
    BY <1>1, <2>1, <2>2
<1>5. /\ PlainOf(g) \in Seq(Elements) /\ Len(PlainOf(g)) = Len(g.nodes)
      /\ \A i \in 1 .. Len(PlainOf(g)) : PlainOf(g)[i].type = "NODE"
  <2>1. \A i \in 1 .. Len(g.nodes) : g.nodes[i] \in Nodes
    BY <1>1
  <2>2. \A i \in 1 .. Len(g.nodes) : Scaled(g.nodes[i]) \in Nodes
    BY <2>1, ScaledIs, Zenon
  <2>3. Len(g.nodes) \in Nat
    BY <1>1
  <2>4. QED
    BY <1>2, <2>2, <2>3 DEF PlainOf
<1>6. ASSUME g.dense # NoDense, NEW k \in 0 .. Len(g.dense)
      PROVE  /\ DenseTo(g, k) \in Seq(Elements) /\ Len(DenseTo(g, k)) = k
             /\ \A i \in 1 .. k : DenseTo(g, k)[i].type = "NODE"
  <2>1. \A i \in 1 .. k : g.dense[i] \in Nodes
    BY <1>1, <1>6
  <2>2. \A i \in 1 .. k : Scaled(Cut(g.dense[i])) \in Nodes
    BY <2>1, ScaledIs, Zenon
  <2>3. k \in Nat
    BY <1>1, <1>6
  <2>4. QED
    BY <1>2, <2>2, <2>3 DEF DenseTo
<1>7. QED
  BY <1>1, <1>3, <1>4, <1>5, <1>6

\* A group of one type gives elements of that type.
LEMMA GroupGives ==
  ASSUME NEW c, NEW g \in GroupSet, NEW t \in TypeSet, TypesOf(g) = {t}
  PROVE  /\ Gives(c, t, Handled(c, g)) /\ Gives(c, t, WantedBy(c, g))
         /\ IF g.dense # NoDense /\ "NODE" \in c
            THEN /\ t = "NODE" /\ g.ways = <<>> /\ g.relations = <<>>
                 /\ Handled(c, g) = PlainOf(g)
                 /\ WantedBy(c, g) = PlainOf(g) \o DenseTo(g, Len(g.dense))
            ELSE WantedBy(c, g) = Handled(c, g)
<1> DEFINE W == CalledFor(c, "WAY", g.ways)
           N == CalledFor(c, "NODE", PlainOf(g))
           D == CalledFor(c, "NODE", IF g.dense = NoDense THEN <<>> ELSE DenseTo(g, Len(g.dense)))
           R == CalledFor(c, "RELATION", g.relations)
<1>1. /\ W \in Seq(Elements) /\ N \in Seq(Elements) /\ D \in Seq(Elements)
      /\ R \in Seq(Elements)
      /\ Gives(c, "WAY", W) /\ Gives(c, "NODE", N) /\ Gives(c, "NODE", D)
      /\ Gives(c, "RELATION", R)
  <2>1. Gives(c, "WAY", W)
    BY GroupFields, GivesCalled
  <2>2. Gives(c, "NODE", N)
    BY GroupFields, GivesCalled
  <2>3. Gives(c, "RELATION", R)
    BY GroupFields, GivesCalled
  <2>4. Gives(c, "NODE", D)
    <3>1. CASE g.dense = NoDense
      <4>1. D = <<>>
        BY <3>1 DEF CalledFor
      <4> HIDE DEF D
      <4>2. QED
        BY <4>1, GivesNone
    <3>2. CASE g.dense # NoDense
      <4> DEFINE es == DenseTo(g, Len(g.dense))
      <4>1. g.dense \in Seq(Nodes)
        BY <3>2, GroupFields
      <4>2. Len(g.dense) \in 0 .. Len(g.dense)
        BY <4>1
      <4>3. es \in Seq(Elements) /\ \A i \in 1 .. Len(es) : es[i].type = "NODE"
        BY <3>2, <4>2, GroupFields
      <4> HIDE DEF es
      <4>4. Gives(c, "NODE", CalledFor(c, "NODE", es))
        BY <4>3, GivesCalled
      <4>5. QED
        BY <3>2, <4>4 DEF es
    <3>3. QED
      BY <3>1, <3>2
  <2>5. QED
    BY <2>1, <2>2, <2>3, <2>4 DEF Gives
<1>2. Handled(c, g) = W \o N \o R /\ WantedBy(c, g) = W \o N \o D \o R
  BY DEF Handled, WantedBy
<1>3. /\ t # "WAY" => W = <<>>
      /\ t # "RELATION" => R = <<>>
      /\ t # "NODE" => N = <<>> /\ D = <<>> /\ g.dense = NoDense
      /\ g.dense # NoDense => t = "NODE"
      /\ g.dense = NoDense \/ "NODE" \notin c => D = <<>>
      /\ "NODE" \in c => N = PlainOf(g)
      /\ g.dense # NoDense /\ "NODE" \in c => D = DenseTo(g, Len(g.dense))
      /\ t # "WAY" => g.ways = <<>>
      /\ t # "RELATION" => g.relations = <<>>
  <2>1. /\ t = "NODE" <=> g.dense # NoDense \/ g.nodes # <<>>
        /\ t = "WAY" <=> g.ways # <<>>
        /\ t = "RELATION" <=> g.relations # <<>>
    <3>1. \A u : u \in TypesOf(g) <=> u = t
      OBVIOUS
    <3>2. QED
      BY <3>1, TypesOfGroup
  <2>2. g.nodes = <<>> => PlainOf(g) = <<>>
    <3>1. Len(PlainOf(g)) = Len(g.nodes) /\ PlainOf(g) \in Seq(Elements)
      BY GroupFields
    <3>2. QED
      BY <3>1, EmptySeq
  <2>3. QED
    BY <2>1, <2>2 DEF CalledFor
<1> HIDE DEF W, N, D, R
<1>4. \A s \in Seq(Elements) : s \o <<>> = s /\ <<>> \o s = s
  BY ConcatEmptySeq
<1>5. CASE t = "NODE"
  <2>1. W = <<>> /\ R = <<>>
    BY <1>3, <1>5
  <2>2. Handled(c, g) = N
    BY <1>1, <1>2, <1>4, <2>1
  <2>3. WantedBy(c, g) = N \o D
    <3>1. N \o D \in Seq(Elements)
      BY <1>1
    <3>2. QED
      BY <1>1, <1>2, <1>4, <2>1, <3>1
  <2>4. Gives(c, t, N \o D)
    BY <1>1, <1>5, GivesJoin
  <2>5. QED
    BY <1>1, <1>3, <1>4, <1>5, <2>2, <2>3, <2>4
<1>6. CASE t = "WAY"
  <2>1. R = <<>> /\ N = <<>> /\ D = <<>> /\ g.dense = NoDense
    BY <1>3, <1>6
  <2>2. Handled(c, g) = W /\ WantedBy(c, g) = W
    BY <1>1, <1>2, <1>4, <2>1
  <2>3. QED
    BY <1>1, <1>6, <2>1, <2>2
<1>7. CASE t = "RELATION"
  <2>1. W = <<>> /\ N = <<>> /\ D = <<>> /\ g.dense = NoDense
    BY <1>3, <1>7
  <2>2. Handled(c, g) = R /\ WantedBy(c, g) = R
    <3>1. <<>> \o <<>> = <<>>
      OBVIOUS
    <3>2. QED
      BY <1>1, <1>2, <1>4, <2>1
  <2>3. QED
    BY <1>1, <1>7, <2>1, <2>2
<1>8. QED
  BY <1>5, <1>6, <1>7 DEF TypeSet

LEMMA WantedType ==
  ASSUME NEW c, NEW g \in GroupSet
  PROVE  WantedBy(c, g) \in Seq(Elements)
<1>1. \A t, es : es \in Seq(Elements) => CalledFor(c, t, es) \in Seq(Elements)
  BY DEF CalledFor
<1> DEFINE D == IF g.dense = NoDense THEN <<>> ELSE DenseTo(g, Len(g.dense))
<1>2. D \in Seq(Elements)
  <2>1. ASSUME g.dense # NoDense  PROVE DenseTo(g, Len(g.dense)) \in Seq(Elements)
    <3>1. Len(g.dense) \in 0 .. Len(g.dense)
      BY <2>1, GroupFields
    <3>2. QED
      BY <2>1, <3>1, GroupFields
  <2>2. <<>> \in Seq(Elements)
    OBVIOUS
  <2>3. QED
    BY <2>1, <2>2
<1>3. g.ways \in Seq(Elements) /\ PlainOf(g) \in Seq(Elements) /\ g.relations \in Seq(Elements)
  BY GroupFields
<1>4. WantedBy(c, g) = CalledFor(c, "WAY", g.ways) \o CalledFor(c, "NODE", PlainOf(g))
                       \o CalledFor(c, "NODE", D) \o CalledFor(c, "RELATION", g.relations)
  BY DEF WantedBy
<1> HIDE DEF D
<1>5. \A s \in Seq(Elements), u \in Seq(Elements) : s \o u \in Seq(Elements)
  OBVIOUS
<1>6. QED
  BY <1>1, <1>2, <1>3, <1>4, <1>5

\* What each of the groups gives.
Each(c, gs) == [i \in 1 .. Len(gs) |-> WantedBy(c, gs[i])]

LEMMA EachIs ==
  ASSUME NEW c, NEW gs \in Seq(GroupSet)
  PROVE  /\ Each(c, gs) \in Seq(Seq(Elements)) /\ Len(Each(c, gs)) = Len(gs)
         /\ \A i \in 1 .. Len(gs) : Each(c, gs)[i] = WantedBy(c, gs[i])
         /\ AllBy(c, gs) = Concat(Each(c, gs))
         /\ AllBy(c, gs) \in Seq(Elements)
<1>1. \A i \in 1 .. Len(gs) : WantedBy(c, gs[i]) \in Seq(Elements)
  <2>1. \A i \in 1 .. Len(gs) : gs[i] \in GroupSet
    OBVIOUS
  <2>2. QED
    BY <2>1, WantedType
<1>2. Each(c, gs) \in Seq(Seq(Elements)) /\ Len(Each(c, gs)) = Len(gs)
      /\ \A i \in 1 .. Len(gs) : Each(c, gs)[i] = WantedBy(c, gs[i])
  BY <1>1 DEF Each
<1>3. AllBy(c, gs) = Concat(Each(c, gs))
  BY DEF AllBy, Each
<1>4. AllBy(c, gs) \in Seq(Elements)
  BY <1>2, <1>3, ConcatType
<1>5. QED
  BY <1>2, <1>3, <1>4

LEMMA EachFront ==
  ASSUME NEW c, NEW gs \in Seq(GroupSet), NEW hs \in Seq(GroupSet), Begins(gs, hs)
  PROVE  Each(c, gs) = SubSeq(Each(c, hs), 1, Len(gs))
<1> DEFINE E == Each(c, gs)
           F == SubSeq(Each(c, hs), 1, Len(gs))
<1>1. Len(gs) \in 0 .. Len(hs) /\ \A i \in 1 .. Len(gs) : hs[i] = gs[i]
  BY DEF Begins
<1>2. Each(c, hs) \in Seq(Seq(Elements)) /\ Len(Each(c, hs)) = Len(hs)
  BY EachIs
<1>3. F \in Seq(Seq(Elements)) /\ Len(F) = Len(gs)
      /\ \A i \in 1 .. Len(gs) : F[i] = Each(c, hs)[i]
  BY <1>1, <1>2, FrontType
<1>4. E \in Seq(Seq(Elements)) /\ Len(E) = Len(gs)
  BY EachIs
<1>5. \A i \in 1 .. Len(gs) : E[i] = F[i]
  <2>1. \A i \in 1 .. Len(gs) : E[i] = WantedBy(c, gs[i])
    BY EachIs
  <2>2. \A i \in 1 .. Len(gs) : Each(c, hs)[i] = WantedBy(c, hs[i])
    BY <1>1, EachIs
  <2>3. QED
    BY <1>1, <1>3, <2>1, <2>2
<1> HIDE DEF E, F
<1>6. E = F
  BY <1>3, <1>4, <1>5, SeqEqual
<1>7. QED
  BY <1>6 DEF E, F

\* What groups give begins what more of them give, with the next group too.
LEMMA AllBegins ==
  ASSUME NEW c, NEW gs \in Seq(GroupSet), NEW hs \in Seq(GroupSet), Begins(gs, hs)
  PROVE  /\ Begins(AllBy(c, gs), AllBy(c, hs))
         /\ Len(gs) < Len(hs) =>
              Begins(AllBy(c, gs) \o WantedBy(c, hs[Len(gs) + 1]), AllBy(c, hs))
<1> DEFINE k == Len(gs)
           F == Each(c, hs)
<1>1. k \in 0 .. Len(hs) /\ F \in Seq(Seq(Elements)) /\ Len(F) = Len(hs)
      /\ k \in 0 .. Len(F) /\ Len(F) \in k .. Len(F)
  BY EachIs DEF Begins
<1>2. AllBy(c, gs) = Concat(SubSeq(F, 1, k))
  <2>1. AllBy(c, gs) = Concat(Each(c, gs))
    BY EachIs
  <2>2. Each(c, gs) = SubSeq(F, 1, k)
    BY EachFront
  <2>3. QED
    BY <2>1, <2>2, Zenon
<1>3. AllBy(c, hs) = Concat(F) /\ SubSeq(F, 1, Len(F)) = F
  BY <1>1, EachIs, FrontAll
<1>4. k < Len(hs) => F[k + 1] = WantedBy(c, hs[k + 1])
  BY <1>1, EachIs
<1> HIDE DEF F, k
<1>5. Begins(Concat(SubSeq(F, 1, k)), Concat(SubSeq(F, 1, Len(F))))
  BY <1>1, ConcatBegins
<1>6. ASSUME k < Len(hs)
      PROVE  Begins(Concat(SubSeq(F, 1, k)) \o F[k + 1], Concat(SubSeq(F, 1, Len(F))))
  <2>1. k + 1 \in 0 .. Len(F) /\ Len(F) \in k + 1 .. Len(F) /\ k < Len(F)
    BY <1>1, <1>6
  <2>2. Begins(Concat(SubSeq(F, 1, k + 1)), Concat(SubSeq(F, 1, Len(F))))
    BY <1>1, <2>1, ConcatBegins
  <2>3. Concat(SubSeq(F, 1, k + 1)) = Concat(SubSeq(F, 1, k)) \o F[k + 1]
    BY <1>1, <2>1, ConcatFront
  <2>4. QED
    BY <2>2, <2>3, Zenon
<1>7. QED
  BY <1>2, <1>3, <1>4, <1>5, <1>6, Zenon DEF k

LEMMA AllAppend ==
  ASSUME NEW c, NEW gs \in Seq(GroupSet), NEW g \in GroupSet
  PROVE  AllBy(c, Append(gs, g)) = AllBy(c, gs) \o WantedBy(c, g)
<1> DEFINE hs == Append(gs, g)
           F == Each(c, hs)
           k == Len(gs)
<1>1. hs \in Seq(GroupSet) /\ Len(hs) = k + 1 /\ hs[k + 1] = g /\ Begins(gs, hs)
      /\ k \in Nat
  BY DEF Begins
<1> HIDE DEF hs
<1>2. F \in Seq(Seq(Elements)) /\ Len(F) = k + 1 /\ F[k + 1] = WantedBy(c, g)
      /\ AllBy(c, hs) = Concat(F)
  BY <1>1, EachIs
<1>3. AllBy(c, gs) = Concat(SubSeq(F, 1, k))
  <2>1. AllBy(c, gs) = Concat(Each(c, gs))
    BY EachIs
  <2>2. Each(c, gs) = SubSeq(F, 1, k)
    BY <1>1, EachFront
  <2>3. QED
    BY <2>1, <2>2, Zenon
<1> HIDE DEF F, k
<1>4. k \in 0 .. Len(F) /\ k < Len(F)
  BY <1>1, <1>2
<1>5. Concat(SubSeq(F, 1, k + 1)) = Concat(SubSeq(F, 1, k)) \o F[k + 1]
  BY <1>2, <1>4, ConcatFront
<1>6. SubSeq(F, 1, Len(F)) = F
  BY <1>2, FrontAll
<1>7. QED
  BY <1>2, <1>3, <1>5, <1>6, Zenon DEF hs

LEMMA AllEmpty ==
  ASSUME NEW c
  PROVE  AllBy(c, <<>>) = <<>>
<1>1. [i \in 1 .. Len(<<>>) |-> WantedBy(c, <<>>[i])] = <<>>
  OBVIOUS
<1>2. QED
  BY <1>1, ConcatEmpty DEF AllBy

-----------------------------------------------------------------------------
(* The groups of a file.                                                   *)

GroupSeqs(f) == [i \in 1 .. Len(f) |-> GroupsIn(f[i])]

LEMMA GroupSeqsAre ==
  ASSUME NEW f \in Seq(BlobSet)
  PROVE  /\ GroupSeqs(f) \in Seq(Seq(GroupSet)) /\ Len(GroupSeqs(f)) = Len(f)
         /\ \A i \in 1 .. Len(f) : GroupSeqs(f)[i] = GroupsIn(f[i])
                                   /\ GroupsIn(f[i]) \in Seq(GroupSet)
         /\ Groups(f) = Concat(GroupSeqs(f)) /\ Groups(f) \in Seq(GroupSet)
<1>1. ASSUME NEW b \in BlobSet  PROVE GroupsIn(b) \in Seq(GroupSet)
  <2>1. b.groups \in Seq(GroupSet)
    BY DEF BlobSet
  <2>2. <<>> \in Seq(GroupSet)
    OBVIOUS
  <2>3. QED
    BY <2>1, <2>2 DEF GroupsIn
<1>2. \A i \in 1 .. Len(f) : f[i] \in BlobSet
  OBVIOUS
<1>3. /\ GroupSeqs(f) \in Seq(Seq(GroupSet)) /\ Len(GroupSeqs(f)) = Len(f)
      /\ \A i \in 1 .. Len(f) : GroupSeqs(f)[i] = GroupsIn(f[i])
                                /\ GroupsIn(f[i]) \in Seq(GroupSet)
  BY <1>1, <1>2 DEF GroupSeqs
<1>4. Groups(f) = Concat(GroupSeqs(f))
  BY DEF Groups, GroupSeqs
<1>5. Groups(f) \in Seq(GroupSet)
  BY <1>3, <1>4, ConcatType
<1>6. QED
  BY <1>3, <1>4, <1>5

\* The groups of the first k blobs.
GroupsTo(f, k) == Groups(SubSeq(f, 1, k))

LEMMA GroupsFront ==
  ASSUME NEW f \in Seq(BlobSet), NEW k \in 0 .. Len(f)
  PROVE  /\ GroupsTo(f, k) = Concat(SubSeq(GroupSeqs(f), 1, k))
         /\ GroupsTo(f, k) \in Seq(GroupSet)
<1> DEFINE s == SubSeq(f, 1, k)
           t == SubSeq(GroupSeqs(f), 1, k)
<1>1. s \in Seq(BlobSet) /\ Len(s) = k /\ \A i \in 1 .. k : s[i] = f[i]
  BY FrontType
<1>2. GroupSeqs(f) \in Seq(Seq(GroupSet)) /\ k \in 0 .. Len(GroupSeqs(f))
  BY GroupSeqsAre
<1>3. t \in Seq(Seq(GroupSet)) /\ Len(t) = k
      /\ \A i \in 1 .. k : t[i] = GroupSeqs(f)[i]
  BY <1>2, FrontType
<1> HIDE DEF s, t
<1>4. /\ GroupSeqs(s) \in Seq(Seq(GroupSet)) /\ Len(GroupSeqs(s)) = k
      /\ \A i \in 1 .. k : GroupSeqs(s)[i] = GroupsIn(s[i])
      /\ Groups(s) = Concat(GroupSeqs(s)) /\ Groups(s) \in Seq(GroupSet)
  BY <1>1, GroupSeqsAre
<1>5. \A i \in 1 .. k : GroupSeqs(s)[i] = t[i]
  <2>1. \A i \in 1 .. k : GroupSeqs(f)[i] = GroupsIn(f[i])
    BY GroupSeqsAre
  <2>2. QED
    BY <1>1, <1>3, <1>4, <2>1
<1>6. GroupSeqs(s) = t
  BY <1>3, <1>4, <1>5, SeqEqual
<1>7. QED
  BY <1>4, <1>6, Zenon DEF GroupsTo, s, t

LEMMA GroupsGrow ==
  ASSUME NEW f \in Seq(BlobSet), NEW k \in 0 .. Len(f), k < Len(f)
  PROVE  /\ GroupsTo(f, k + 1) = GroupsTo(f, k) \o GroupsIn(f[k + 1])
         /\ GroupsTo(f, k) \in Seq(GroupSet) /\ GroupsIn(f[k + 1]) \in Seq(GroupSet)
         /\ Begins(GroupsTo(f, k) \o GroupsIn(f[k + 1]), Groups(f))
<1> DEFINE S == GroupSeqs(f)
<1>1. /\ S \in Seq(Seq(GroupSet)) /\ Len(S) = Len(f) /\ S[k + 1] = GroupsIn(f[k + 1])
      /\ GroupsIn(f[k + 1]) \in Seq(GroupSet) /\ Groups(f) = Concat(S)
      /\ k + 1 \in 0 .. Len(f) /\ k \in 0 .. Len(S) /\ k < Len(S)
      /\ Len(S) \in k + 1 .. Len(S) /\ k + 1 \in 0 .. Len(S)
  BY GroupSeqsAre
<1>2. GroupsTo(f, k) = Concat(SubSeq(S, 1, k)) /\ GroupsTo(f, k) \in Seq(GroupSet)
  BY GroupsFront
<1>3. GroupsTo(f, k + 1) = Concat(SubSeq(S, 1, k + 1))
  BY <1>1, GroupsFront
<1> HIDE DEF S
<1>4. Concat(SubSeq(S, 1, k + 1)) = Concat(SubSeq(S, 1, k)) \o S[k + 1]
  BY <1>1, ConcatFront
<1>5. Begins(Concat(SubSeq(S, 1, k + 1)), Concat(SubSeq(S, 1, Len(S))))
  BY <1>1, ConcatBegins
<1>6. SubSeq(S, 1, Len(S)) = S
  BY <1>1, FrontAll
<1>7. QED
  BY <1>1, <1>2, <1>3, <1>4, <1>5, <1>6, Zenon

LEMMA GroupsEnds ==
  ASSUME NEW f \in Seq(BlobSet)
  PROVE  GroupsTo(f, 0) = <<>> /\ GroupsTo(f, Len(f)) = Groups(f)
<1>1. GroupsTo(f, Len(f)) = Groups(f)
  BY FrontAll DEF GroupsTo
<1>2. SubSeq(GroupSeqs(f), 1, 0) = <<>>
  <2>1. GroupSeqs(f) \in Seq(Seq(GroupSet))
    BY GroupSeqsAre
  <2>2. QED
    BY <2>1, SubSeqEmpty
<1>3. GroupsTo(f, 0) = Concat(SubSeq(GroupSeqs(f), 1, 0))
  BY GroupsFront
<1>4. QED
  BY <1>1, <1>2, <1>3, ConcatEmpty, Zenon

(* The groups that are done when the reader is at group k of blob b, or,   *)
(* with k = 0, at its beginning.                                           *)
BegunAt(f, b, k) ==
  IF k = 0 THEN GroupsTo(f, b - 1)
  ELSE GroupsTo(f, b - 1) \o SubSeq(f[b].groups, 1, k - 1)

\* From one place to the next.
LEMMA BegunSteps ==
  ASSUME NEW f \in Seq(BlobSet), NEW b \in 1 .. Len(f)
  PROVE  /\ BegunAt(f, b, 0) \in Seq(GroupSet)
         /\ GroupsIn(f[b]) = <<>> => BegunAt(f, b + 1, 0) = BegunAt(f, b, 0)
         /\ GroupsIn(f[b]) = f[b].groups =>
              /\ BegunAt(f, b, 1) = BegunAt(f, b, 0)
              /\ BegunAt(f, b + 1, 0) = BegunAt(f, b, Len(f[b].groups) + 1)
              /\ \A k \in 1 .. Len(f[b].groups) :
                   /\ BegunAt(f, b, k) \in Seq(GroupSet) /\ f[b].groups[k] \in GroupSet
                   /\ BegunAt(f, b, k + 1) = Append(BegunAt(f, b, k), f[b].groups[k])
                   /\ Begins(Append(BegunAt(f, b, k), f[b].groups[k]), Groups(f))
<1> DEFINE G == GroupsTo(f, b - 1)
           gs == f[b].groups
<1>1. b - 1 \in 0 .. Len(f) /\ b - 1 < Len(f) /\ (b - 1) + 1 = b /\ (b + 1) - 1 = b
      /\ f[b] \in BlobSet /\ b \in Nat
  OBVIOUS
<1>2. gs \in Seq(GroupSet)
  BY <1>1 DEF BlobSet
<1>3. /\ GroupsTo(f, b) = G \o GroupsIn(f[b])
      /\ G \in Seq(GroupSet) /\ GroupsIn(f[b]) \in Seq(GroupSet)
      /\ Begins(G \o GroupsIn(f[b]), Groups(f))
  <2> DEFINE j == b - 1
  <2>1. j \in 0 .. Len(f) /\ j < Len(f) /\ j + 1 = b
    BY <1>1
  <2> HIDE DEF j
  <2>2. /\ GroupsTo(f, j + 1) = GroupsTo(f, j) \o GroupsIn(f[j + 1])
        /\ GroupsTo(f, j) \in Seq(GroupSet) /\ GroupsIn(f[j + 1]) \in Seq(GroupSet)
        /\ Begins(GroupsTo(f, j) \o GroupsIn(f[j + 1]), Groups(f))
    BY <2>1, GroupsGrow
  <2>3. QED
    BY <2>1, <2>2 DEF j
<1> HIDE DEF G, gs
<1>4. BegunAt(f, b, 0) = G /\ BegunAt(f, b + 1, 0) = G \o GroupsIn(f[b])
  BY <1>1, <1>3 DEF BegunAt, G
<1>5. \A k \in 1 .. Len(gs) + 1 : BegunAt(f, b, k) = G \o SubSeq(gs, 1, k - 1)
  BY <1>2 DEF BegunAt, G, gs
<1>6. G \o <<>> = G
  BY <1>3, ConcatEmptySeq
<1>7. ASSUME GroupsIn(f[b]) = gs
      PROVE  /\ BegunAt(f, b, 1) = G
             /\ BegunAt(f, b, Len(gs) + 1) = G \o gs
             /\ \A k \in 1 .. Len(gs) :
                  /\ BegunAt(f, b, k) \in Seq(GroupSet) /\ gs[k] \in GroupSet
                  /\ BegunAt(f, b, k + 1) = Append(BegunAt(f, b, k), gs[k])
                  /\ Begins(Append(BegunAt(f, b, k), gs[k]), Groups(f))
  <2>1. SubSeq(gs, 1, 1 - 1) = <<>> /\ SubSeq(gs, 1, (Len(gs) + 1) - 1) = gs
    <3>1. SubSeq(gs, 1, 0) = <<>> /\ SubSeq(gs, 1, Len(gs)) = gs
      BY <1>2, SubSeqEmpty, FrontAll
    <3>2. 1 - 1 = 0 /\ (Len(gs) + 1) - 1 = Len(gs)
      BY <1>2
    <3>3. QED
      BY <3>1, <3>2
  <2>2. BegunAt(f, b, 1) = G /\ BegunAt(f, b, Len(gs) + 1) = G \o gs
    <3>1. 1 \in 1 .. Len(gs) + 1 /\ Len(gs) + 1 \in 1 .. Len(gs) + 1
      BY <1>2
    <3>2. QED
      BY <1>5, <1>6, <2>1, <3>1
  <2>3. ASSUME NEW k \in 1 .. Len(gs)
        PROVE  /\ BegunAt(f, b, k) \in Seq(GroupSet) /\ gs[k] \in GroupSet
               /\ BegunAt(f, b, k + 1) = Append(BegunAt(f, b, k), gs[k])
               /\ Begins(Append(BegunAt(f, b, k), gs[k]), Groups(f))
    <3> DEFINE j == k - 1
               s == SubSeq(gs, 1, j)
               u == SubSeq(gs, 1, j + 1)
    <3>1. j \in 0 .. Len(gs) /\ j < Len(gs) /\ j + 1 = k /\ (k + 1) - 1 = j + 1
          /\ k \in 1 .. Len(gs) + 1 /\ k + 1 \in 1 .. Len(gs) + 1 /\ gs[k] \in GroupSet
          /\ j + 1 \in 0 .. Len(gs)
      BY <1>2
    <3>2. BegunAt(f, b, k) = G \o s /\ BegunAt(f, b, k + 1) = G \o u
      BY <1>5, <3>1
    <3> HIDE DEF j
    <3>3. s \in Seq(GroupSet) /\ u = Append(s, gs[k])
      BY <1>2, <3>1, FrontType, FrontGrows
    <3>4. Begins(G \o u, G \o gs)
      <4>1. u \in Seq(GroupSet) /\ Len(u) = j + 1
            /\ \A i \in 1 .. j + 1 : u[i] = gs[i]
        BY <1>2, <3>1, FrontType
      <4> HIDE DEF u
      <4>2. QED
        BY <1>2, <1>3, <3>1, <4>1 DEF Begins
    <3> HIDE DEF s, u
    <3>5. G \o u = Append(G \o s, gs[k])
      <4> DEFINE x == gs[k]
      <4>1. G \in Seq(GroupSet) /\ s \in Seq(GroupSet) /\ x \in GroupSet
        BY <1>3, <3>1, <3>3
      <4> HIDE DEF x
      <4>2. G \o s \in Seq(GroupSet) /\ <<x>> \in Seq(GroupSet)
        BY <4>1, ConcatProperties
      <4>3. Append(s, x) = s \o <<x>> /\ Append(G \o s, x) = (G \o s) \o <<x>>
        BY <4>1, <4>2, AppendIsConcat
      <4>4. (G \o s) \o <<x>> = G \o (s \o <<x>>)
        BY <4>1, <4>2, ConcatAssociative
      <4>5. G \o Append(s, x) = Append(G \o s, x)
        BY <4>3, <4>4
      <4>6. QED
        BY <3>3, <4>5 DEF x
    <3>6. Begins(G \o u, Groups(f))
      <4>1. Begins(G \o gs, Groups(f))
        BY <1>3, <1>7
      <4>2. G \o u \in Seq(GroupSet) /\ G \o gs \in Seq(GroupSet)
        BY <1>2, <1>3, <3>1, <3>3
      <4>3. QED
        BY <3>4, <4>1, <4>2 DEF Begins
    <3>7. G \o s \in Seq(GroupSet)
      BY <1>3, <3>3
    <3>8. QED
      BY <3>1, <3>2, <3>5, <3>6, <3>7
  <2>4. QED
    BY <2>2, <2>3
<1>8. QED
  BY <1>3, <1>4, <1>6, <1>7 DEF gs

-----------------------------------------------------------------------------
(* Dense nodes.                                                            *)

Tags == Seq((Nat \ {0}) \X Nat)

\* The lists of all nodes, and the array up to the list of the k-th node.
KeysVals(nodes) == [i \in 1 .. Len(nodes) |-> Concat(nodes[i].tags) \o <<0>>]
ListsBefore(nodes, k) == Concat(SubSeq(KeysVals(nodes), 1, k - 1))

LEMMA JoinTag ==
  ASSUME NEW c \in Seq(Nat), NEW k \in Nat, NEW v \in Nat
  PROVE  /\ c \o <<k, v>> \in Seq(Nat) /\ Len(c \o <<k, v>>) = Len(c) + 2
         /\ (c \o <<k, v>>)[Len(c) + 1] = k /\ (c \o <<k, v>>)[Len(c) + 2] = v
         /\ \A i \in 1 .. Len(c) : (c \o <<k, v>>)[i] = c[i]
OBVIOUS

LEMMA JoinEnd ==
  ASSUME NEW c \in Seq(Nat)
  PROVE  /\ c \o <<0>> \in Seq(Nat) /\ Len(c \o <<0>>) = Len(c) + 1
         /\ (c \o <<0>>)[Len(c) + 1] = 0
         /\ \A i \in 1 .. Len(c) : (c \o <<0>>)[i] = c[i]
OBVIOUS

LEMMA TagIsSeq ==
  ASSUME NEW x \in (Nat \ {0}) \X Nat
  PROVE  /\ x \in Seq(Nat) /\ Len(x) = 2 /\ x[1] \in Nat \ {0} /\ x[2] \in Nat
         /\ x = <<x[1], x[2]>>
<1>1. PICK k \in Nat \ {0}, v \in Nat : x = <<k, v>>
  OBVIOUS
<1>2. <<k, v>> \in Seq(Nat) /\ Len(<<k, v>>) = 2 /\ <<k, v>>[1] = k /\ <<k, v>>[2] = v
  OBVIOUS
<1>3. QED
  BY <1>1, <1>2

LEMMA TagList ==
  ASSUME NEW tags \in Tags
  PROVE  /\ Concat(tags) \in Seq(Nat) /\ Len(Concat(tags)) = 2 * Len(tags)
         /\ \A i \in 1 .. Len(tags) : /\ tags[i] = <<tags[i][1], tags[i][2]>>
                                      /\ tags[i][1] \in Nat \ {0}
                                      /\ Concat(tags)[2 * i - 1] = tags[i][1]
                                      /\ Concat(tags)[2 * i] = tags[i][2]
<1> DEFINE Q(s, c) == /\ c \in Seq(Nat) /\ Len(c) = 2 * Len(s)
                      /\ \A i \in 1 .. Len(s) : /\ s[i] = <<s[i][1], s[i][2]>>
                                                /\ s[i][1] \in Nat \ {0}
                                                /\ c[2 * i - 1] = s[i][1]
                                                /\ c[2 * i] = s[i][2]
           S == {s \in Tags : Q(s, Concat(s))}
<1>1. <<>> \in S
  <2>1. Q(<<>>, <<>>)
    OBVIOUS
  <2>2. <<>> \in Tags
    BY DEF Tags
  <2>3. QED
    BY <2>1, <2>2, ConcatEmpty
<1>2. ASSUME NEW s \in Tags, NEW x \in (Nat \ {0}) \X Nat, s \in S
      PROVE  Append(s, x) \in S
  <2> DEFINE c == Concat(s)
  <2>1. /\ x \in Seq(Nat) /\ Len(x) = 2 /\ x[1] \in Nat \ {0} /\ x[2] \in Nat
        /\ x = <<x[1], x[2]>>
    BY TagIsSeq
  <2>2. s \in Seq(Seq(Nat)) /\ Len(s) \in Nat
    <3>1. \A y \in (Nat \ {0}) \X Nat : y \in Seq(Nat)
      BY TagIsSeq
    <3>2. QED
      BY <3>1 DEF Tags
  <2>3. Concat(Append(s, x)) = c \o x
    BY <2>1, <2>2, ConcatAppend
  <2>4. Q(s, c)
    BY <1>2
  <2> HIDE DEF c
  <2>5. /\ c \o x \in Seq(Nat) /\ Len(c \o x) = Len(c) + 2
        /\ (c \o x)[Len(c) + 1] = x[1] /\ (c \o x)[Len(c) + 2] = x[2]
        /\ \A i \in 1 .. Len(c) : (c \o x)[i] = c[i]
    <3>1. PICK k \in Nat, v \in Nat : x = <<k, v>> /\ x[1] = k /\ x[2] = v
      BY <2>1
    <3>2. c \in Seq(Nat)
      BY <2>4
    <3>3. /\ c \o <<k, v>> \in Seq(Nat) /\ Len(c \o <<k, v>>) = Len(c) + 2
          /\ (c \o <<k, v>>)[Len(c) + 1] = k /\ (c \o <<k, v>>)[Len(c) + 2] = v
          /\ \A i \in 1 .. Len(c) : (c \o <<k, v>>)[i] = c[i]
      BY <3>2, JoinTag
    <3>4. QED
      BY <3>1, <3>3, Zenon
  <2>6. Q(Append(s, x), c \o x)
    <3>1. c \o x \in Seq(Nat) /\ Len(c \o x) = 2 * Len(Append(s, x))
      <4>1. Len(Append(s, x)) = Len(s) + 1
        BY <2>2
      <4>2. QED
        BY <2>2, <2>4, <2>5, <4>1
    <3>2. ASSUME NEW i \in 1 .. Len(Append(s, x))
          PROVE  /\ Append(s, x)[i] = <<Append(s, x)[i][1], Append(s, x)[i][2]>>
                 /\ Append(s, x)[i][1] \in Nat \ {0}
                 /\ (c \o x)[2 * i - 1] = Append(s, x)[i][1]
                 /\ (c \o x)[2 * i] = Append(s, x)[i][2]
      <4>1. CASE i \in 1 .. Len(s)
        <5>1. Append(s, x)[i] = s[i]
          BY <2>2, <4>1
        <5>2. (c \o x)[2 * i - 1] = c[2 * i - 1] /\ (c \o x)[2 * i] = c[2 * i]
          <6>1. 2 * i - 1 \in 1 .. Len(c) /\ 2 * i \in 1 .. Len(c)
            BY <2>2, <2>4, <4>1
          <6>2. QED
            BY <2>5, <6>1
        <5>3. QED
          BY <2>4, <4>1, <5>1, <5>2
      <4>2. CASE i = Len(s) + 1
        <5>1. Append(s, x)[i] = x
          BY <2>2, <4>2
        <5>2. 2 * i - 1 = Len(c) + 1 /\ 2 * i = Len(c) + 2
          BY <2>2, <2>4, <4>2
        <5>3. QED
          BY <2>1, <2>5, <5>1, <5>2
      <4>3. i \in 1 .. Len(s) \/ i = Len(s) + 1
        <5>1. Len(Append(s, x)) = Len(s) + 1 /\ Len(s) \in Nat
          BY <2>2
        <5>2. QED
          BY <5>1
      <4>4. QED
        BY <4>1, <4>2, <4>3
    <3>3. QED
      BY <3>1, <3>2
  <2>7. Append(s, x) \in Tags
    BY DEF Tags
  <2> HIDE DEF Q
  <2>8. QED
    BY <2>3, <2>6, <2>7
<1>3. Tags \subseteq S
  <2> HIDE DEF S
  <2>1. QED
    BY <1>1, <1>2, Joins!InductiveSeqs DEF Tags
<1>4. QED
  BY <1>3

LEMMA KeysValsAre ==
  ASSUME NEW nodes \in Seq(Nodes)
  PROVE  /\ KeysVals(nodes) \in Seq(Seq(Nat)) /\ Len(KeysVals(nodes)) = Len(nodes)
         /\ \A k \in 1 .. Len(nodes) :
              /\ nodes[k].tags \in Tags
              /\ KeysVals(nodes)[k] = Concat(nodes[k].tags) \o <<0>>
<1>1. \A k \in 1 .. Len(nodes) : nodes[k].tags \in Tags
  <2>1. \A x \in Nodes : x.tags \in Tags
    BY DEF Nodes, Tags
  <2>2. QED
    BY <2>1
<1>2. \A k \in 1 .. Len(nodes) : Concat(nodes[k].tags) \o <<0>> \in Seq(Nat)
  <2>1. \A k \in 1 .. Len(nodes) : Concat(nodes[k].tags) \in Seq(Nat)
    BY <1>1, TagList
  <2>2. \A s \in Seq(Nat) : s \o <<0>> \in Seq(Nat)
    OBVIOUS
  <2>3. QED
    BY <2>1, <2>2
<1>3. QED
  BY <1>1, <1>2 DEF KeysVals

\* The list of the k-th node in the array of all.
LEMMA ListPlace ==
  ASSUME NEW nodes \in Seq(Nodes), NEW k \in 1 .. Len(nodes)
  PROVE  LET kv   == Len(ListsBefore(nodes, k)) + 1
             kvs  == Concat(KeysVals(nodes))
             tags == nodes[k].tags
         IN  /\ kv \in Nat /\ kvs \in Seq(Nat) /\ tags \in Tags
             /\ Len(ListsBefore(nodes, k + 1)) = kv + 2 * Len(tags)
             /\ kv + 2 * Len(tags) =< Len(kvs)
             /\ kvs[kv + 2 * Len(tags)] = 0
             /\ \A i \in 1 .. Len(tags) :
                  /\ kvs[kv + 2 * i - 2] # 0
                  /\ tags[i] = <<kvs[kv + 2 * i - 2], kvs[kv + 2 * i - 1]>>
<1> DEFINE K == KeysVals(nodes)
           j == k - 1
           tags == nodes[k].tags
           c == Concat(tags)
           s == c \o <<0>>
           kvs == Concat(K)
           b == Len(Concat(SubSeq(K, 1, j)))
<1>1. /\ K \in Seq(Seq(Nat)) /\ Len(K) = Len(nodes) /\ K[k] = s
      /\ tags \in Tags /\ kvs \in Seq(Nat)
  BY KeysValsAre, ConcatType
<1>2. /\ c \in Seq(Nat) /\ Len(c) = 2 * Len(tags) /\ Len(tags) \in Nat
      /\ \A i \in 1 .. Len(tags) : /\ tags[i] = <<tags[i][1], tags[i][2]>>
                                   /\ tags[i][1] \in Nat \ {0}
                                   /\ c[2 * i - 1] = tags[i][1]
                                   /\ c[2 * i] = tags[i][2]
  <2>1. Len(tags) \in Nat
    BY <1>1 DEF Tags
  <2> HIDE DEF tags
  <2>2. QED
    BY <1>1, <2>1, TagList
<1>3. j \in 0 .. Len(K) /\ j < Len(K) /\ j + 1 = k /\ (k + 1) - 1 = j + 1
  BY <1>1
<1> HIDE DEF K, j, tags, c
<1>4. /\ b \in Nat /\ Len(Concat(SubSeq(K, 1, j + 1))) = b + Len(K[j + 1])
      /\ Len(Concat(SubSeq(K, 1, j + 1))) =< Len(kvs)
      /\ \A i \in 1 .. Len(K[j + 1]) : kvs[b + i] = K[j + 1][i]
  BY <1>1, <1>3, ConcatPlace
<1>5. K[j + 1] = s
  BY <1>1, <1>3
<1>6. /\ Len(s) = 2 * Len(tags) + 1 /\ s[2 * Len(tags) + 1] = 0
      /\ \A i \in 1 .. 2 * Len(tags) : s[i] = c[i]
  <2>1. Len(s) = Len(c) + 1 /\ s[Len(c) + 1] = 0 /\ \A i \in 1 .. Len(c) : s[i] = c[i]
    BY <1>2, JoinEnd
  <2>2. QED
    BY <1>2, <2>1
<1>7. /\ Len(ListsBefore(nodes, k)) = b
      /\ Len(ListsBefore(nodes, k + 1)) = Len(Concat(SubSeq(K, 1, j + 1)))
  BY <1>3 DEF ListsBefore, K, j
<1> HIDE DEF b, kvs, s
<1> DEFINE kv == b + 1
<1>8. /\ kv \in Nat /\ Len(ListsBefore(nodes, k + 1)) = kv + 2 * Len(tags)
      /\ kv + 2 * Len(tags) =< Len(kvs)
      /\ kvs[kv + 2 * Len(tags)] = 0
  <2>1. 2 * Len(tags) + 1 \in 1 .. Len(s) /\ kv + 2 * Len(tags) = b + (2 * Len(tags) + 1)
    BY <1>2, <1>4, <1>6
  <2>2. QED
    BY <1>2, <1>4, <1>5, <1>6, <1>7, <2>1
<1>9. ASSUME NEW i \in 1 .. Len(tags)
      PROVE  /\ kvs[kv + 2 * i - 2] # 0
             /\ tags[i] = <<kvs[kv + 2 * i - 2], kvs[kv + 2 * i - 1]>>
  <2>1. /\ 2 * i - 1 \in 1 .. 2 * Len(tags) /\ 2 * i \in 1 .. 2 * Len(tags)
        /\ 2 * i - 1 \in 1 .. Len(s) /\ 2 * i \in 1 .. Len(s)
        /\ kv + 2 * i - 2 = b + (2 * i - 1) /\ kv + 2 * i - 1 = b + 2 * i
    BY <1>2, <1>4, <1>6
  <2>2. kvs[b + (2 * i - 1)] = tags[i][1] /\ kvs[b + 2 * i] = tags[i][2]
    BY <1>2, <1>4, <1>5, <1>6, <2>1
  <2>3. tags[i] = <<tags[i][1], tags[i][2]>> /\ tags[i][1] # 0
    BY <1>2
  <2>4. QED
    BY <2>1, <2>2, <2>3
<1>10. QED
  BY <1>1, <1>7, <1>8, <1>9 DEF kvs, K, tags

LEMMA MinIs ==
  ASSUME NEW S \in SUBSET Int, NEW m \in S, \A y \in S : m =< y
  PROVE  Min(S) = m
<1>1. Min(S) \in S /\ \A y \in S : Min(S) =< y
  BY DEF Min
<1>2. Min(S) \in Int /\ m \in Int /\ Min(S) =< m /\ m =< Min(S)
  BY <1>1
<1>3. QED
  BY <1>2

LEMMA EvenPlace ==
  ASSUME NEW d \in Nat, d % 2 = 0
  PROVE  \E i \in Nat : d = 2 * i
OBVIOUS

LEMMA EvenHalf ==
  ASSUME NEW m \in Nat
  PROVE  (2 * m) % 2 = 0 /\ (2 * m) \div 2 = m
OBVIOUS

\* The array is missing only when no node has a tag.
LEMMA NoKeysVals ==
  ASSUME NEW nodes \in Seq(Nodes), DenseOf(nodes).keys_vals = <<>>
  PROVE  \A k \in 1 .. Len(nodes) : nodes[k].tags = <<>>
<1>1. SUFFICES ASSUME ~(\A k \in 1 .. Len(nodes) : nodes[k].tags = <<>>)  PROVE FALSE
  OBVIOUS
<1>2. Concat(KeysVals(nodes)) = <<>>
  BY <1>1, Zenon DEF DenseOf, KeysVals
<1>3. PICK k \in 1 .. Len(nodes) : nodes[k].tags # <<>>
  BY <1>1
<1>4. /\ Len(ListsBefore(nodes, k)) + 1 \in Nat /\ nodes[k].tags \in Tags
      /\ Len(ListsBefore(nodes, k)) + 1 + 2 * Len(nodes[k].tags)
         =< Len(Concat(KeysVals(nodes)))
  BY ListPlace
<1>5. nodes[k].tags # <<>> => Len(nodes[k].tags) \in Nat /\ Len(nodes[k].tags) > 0
  <2>1. Len(nodes[k].tags) \in Nat /\ (Len(nodes[k].tags) = 0 => nodes[k].tags = <<>>)
    BY <1>4, EmptySeq DEF Tags
  <2>2. QED
    BY <2>1
<1>6. Len(ListsBefore(nodes, k)) \in Nat
  <2>1. k - 1 \in 0 .. Len(KeysVals(nodes)) /\ KeysVals(nodes) \in Seq(Seq(Nat))
    BY KeysValsAre
  <2>2. SubSeq(KeysVals(nodes), 1, k - 1) \in Seq(Seq(Nat))
    BY <2>1, FrontType
  <2>3. ListsBefore(nodes, k) \in Seq(Nat)
    BY <2>2, ConcatType DEF ListsBefore
  <2>4. QED
    BY <2>3
<1>7. Len(Concat(KeysVals(nodes))) = 0
  BY <1>2
<1> DEFINE a == Len(ListsBefore(nodes, k))
           b == Len(nodes[k].tags)
           d == Len(Concat(KeysVals(nodes)))
<1>8. a \in Nat /\ b \in Nat /\ b > 0 /\ a + 1 + 2 * b =< d /\ d = 0
  BY <1>3, <1>4, <1>5, <1>6, <1>7
<1> HIDE DEF a, b, d
<1>9. QED
  BY <1>8

\* What HandleDenseNode reads of the tags of node k, and where it goes on.
ListEnd(kvs, kv) ==
  IF kvs = <<>> THEN kv
  ELSE Min({i \in kv .. Len(kvs) : (i - kv) % 2 = 0 /\ kvs[i] = 0})
TagsRead(kvs, kv) ==
  LET kv1 == Min({(ListEnd(kvs, kv) - kv) \div 2, MAX_TAGS})
  IN  [i \in 1 .. kv1 |-> <<kvs[kv + 2 * i - 2], kvs[kv + 2 * i - 1]>>]

LEMMA TagsDecode ==
  ASSUME NEW nodes \in Seq(Nodes), NEW k \in 1 .. Len(nodes), NEW kv \in Nat,
         DenseOf(nodes).keys_vals # <<>> => kv = Len(ListsBefore(nodes, k)) + 1
  PROVE  LET kvs == DenseOf(nodes).keys_vals
         IN  /\ ListEnd(kvs, kv) \in Nat
             /\ kvs # <<>> => ListEnd(kvs, kv) + 1 = Len(ListsBefore(nodes, k + 1)) + 1
             /\ TagsRead(kvs, kv) = Cut(nodes[k]).tags
<1> DEFINE kvs == DenseOf(nodes).keys_vals
           tags == nodes[k].tags
           m == Len(tags)
<1>1. tags \in Tags /\ m \in Nat
  <2>1. tags \in Tags
    BY KeysValsAre
  <2>2. QED
    BY <2>1 DEF Tags
<1>2. Cut(nodes[k]).tags = SubSeq(tags, 1, Min({m, MAX_TAGS}))
  <2>1. nodes[k] \in Nodes
    OBVIOUS
  <2>2. QED
    BY <2>1, Zenon DEF Cut, Nodes
<1>3. ListEnd(kvs, kv) = kv + 2 * m
  <2>1. CASE kvs = <<>>
    <3>1. tags = <<>>
      BY <2>1, NoKeysVals
    <3>2. m = 0
      BY <3>1
    <3> HIDE DEF kvs, m
    <3>3. QED
      BY <2>1, <3>2 DEF ListEnd
  <2>2. CASE kvs # <<>>
    <3> DEFINE S == {i \in kv .. Len(kvs) : (i - kv) % 2 = 0 /\ kvs[i] = 0}
    <3>1. kvs = Concat(KeysVals(nodes)) /\ kv = Len(ListsBefore(nodes, k)) + 1
      BY <2>2, Zenon DEF DenseOf, KeysVals
    <3>2. /\ kvs \in Seq(Nat) /\ kv + 2 * m =< Len(kvs) /\ kvs[kv + 2 * m] = 0
          /\ \A i \in 1 .. m : kvs[kv + 2 * i - 2] # 0
      BY <3>1, ListPlace
    <3> HIDE DEF kvs, m
    <3>3. kv + 2 * m \in S
      <4>1. (kv + 2 * m) - kv = 2 * m /\ kv + 2 * m \in kv .. Len(kvs)
        BY <1>1, <3>2
      <4>2. QED
        BY <1>1, <3>2, <4>1, EvenHalf
    <3>4. ASSUME NEW y \in S  PROVE kv + 2 * m =< y
      <4>1. y - kv \in Nat /\ (y - kv) % 2 = 0 /\ kvs[y] = 0 /\ y \in Int
        BY <3>2
      <4>2. PICK i \in Nat : y - kv = 2 * i
        BY <4>1, EvenPlace
      <4>3. i < m => i + 1 \in 1 .. m /\ kv + 2 * (i + 1) - 2 = y
        BY <1>1, <4>1, <4>2
      <4>4. ~(i < m)
        BY <3>2, <4>1, <4>3
      <4>5. QED
        BY <1>1, <4>1, <4>2, <4>4
    <3>5. S \in SUBSET Int
      BY <3>2
    <3>6. Min(S) = kv + 2 * m
      <4> HIDE DEF S
      <4>1. QED
        BY <3>3, <3>4, <3>5, MinIs
    <3>7. QED
      BY <2>2, <3>6, Zenon DEF ListEnd
  <2>3. QED
    BY <2>1, <2>2
<1>4. kvs # <<>> => ListEnd(kvs, kv) + 1 = Len(ListsBefore(nodes, k + 1)) + 1
  <2>1. SUFFICES ASSUME kvs # <<>>
                 PROVE  ListEnd(kvs, kv) + 1 = Len(ListsBefore(nodes, k + 1)) + 1
    OBVIOUS
  <2>2. kv = Len(ListsBefore(nodes, k)) + 1
    BY <2>1
  <2>3. Len(ListsBefore(nodes, k + 1)) = kv + 2 * m
    BY <2>2, ListPlace
  <2>4. QED
    BY <1>3, <2>3
<1> DEFINE l == Min({m, MAX_TAGS})
<1>5. l \in 0 .. m
  <2>1. \E i \in {m, MAX_TAGS} : \A j \in {m, MAX_TAGS} : i =< j
    BY <1>1, SizeAssumption
  <2>2. l \in {m, MAX_TAGS} /\ l =< m
    BY <2>1 DEF Min
  <2>3. QED
    BY <1>1, <2>2, SizeAssumption
<1>6. (ListEnd(kvs, kv) - kv) \div 2 = m
  <2> HIDE DEF m
  <2>1. ListEnd(kvs, kv) - kv = 2 * m
    BY <1>1, <1>3
  <2>2. QED
    BY <1>1, <2>1, EvenHalf
<1>7. TagsRead(kvs, kv)
      = [i \in 1 .. l |-> <<kvs[kv + 2 * i - 2], kvs[kv + 2 * i - 1]>>]
  BY <1>6 DEF TagsRead
<1>8. \A i \in 1 .. l : <<kvs[kv + 2 * i - 2], kvs[kv + 2 * i - 1]>> = tags[i]
  <2>1. CASE kvs = <<>>
    <3>1. tags = <<>>
      BY <2>1, NoKeysVals
    <3>2. m = 0
      BY <3>1
    <3> HIDE DEF kvs, m, l
    <3>3. 1 .. l = {}
      BY <1>5, <3>2
    <3>4. QED
      BY <3>3
  <2>2. CASE kvs # <<>>
    <3>1. kvs = Concat(KeysVals(nodes)) /\ kv = Len(ListsBefore(nodes, k)) + 1
      BY <2>2, Zenon DEF DenseOf, KeysVals
    <3>2. \A i \in 1 .. m : tags[i] = <<kvs[kv + 2 * i - 2], kvs[kv + 2 * i - 1]>>
      BY <3>1, ListPlace
    <3>3. \A i \in 1 .. l : i \in 1 .. m
      <4> HIDE DEF l, m
      <4>1. QED
        BY <1>1, <1>5
    <3>4. QED
      BY <3>2, <3>3, Zenon
  <2>3. QED
    BY <2>1, <2>2
<1> HIDE DEF l, m, kvs, tags
<1>9. SubSeq(tags, 1, l) = [i \in 1 .. l |-> tags[i]]
  <2>1. tags \in Seq((Nat \ {0}) \X Nat) /\ m = Len(tags)
    BY <1>1 DEF Tags, m
  <2>2. QED
    BY <1>5, <2>1
<1>10. TagsRead(kvs, kv) = Cut(nodes[k]).tags
  <2>1. [i \in 1 .. l |-> <<kvs[kv + 2 * i - 2], kvs[kv + 2 * i - 1]>>]
        = [i \in 1 .. l |-> tags[i]]
    BY <1>8, Zenon
  <2>2. QED
    BY <1>2, <1>7, <1>9, <2>1, Zenon DEF l
<1>11. ListEnd(kvs, kv) \in Nat
  BY <1>1, <1>3
<1>12. QED
  BY <1>4, <1>10, <1>11 DEF kvs

LEMMA DeltasAre ==
  ASSUME NEW nodes \in Seq(Nodes), NEW k \in 1 .. Len(nodes)
  PROVE  /\ nodes[k].id \in Int /\ nodes[k].lat \in Int
         /\ k = 1 => /\ DenseOf(nodes).ids[k] = nodes[k].id
                     /\ DenseOf(nodes).lats[k] = nodes[k].lat
         /\ k > 1 => /\ nodes[k - 1].id \in Int /\ nodes[k - 1].lat \in Int
                     /\ DenseOf(nodes).ids[k] = nodes[k].id - nodes[k - 1].id
                     /\ DenseOf(nodes).lats[k] = nodes[k].lat - nodes[k - 1].lat
<1> DEFINE I == [i \in 1 .. Len(nodes) |-> nodes[i].id]
           L == [i \in 1 .. Len(nodes) |-> nodes[i].lat]
<1>1. \A i \in 1 .. Len(nodes) : nodes[i].id \in Int /\ nodes[i].lat \in Int
  <2>1. \A x \in Nodes : x.id \in Int /\ x.lat \in Int
    BY DEF Nodes
  <2>2. QED
    BY <2>1
<1>2. Len(nodes) \in Nat /\ Len(I) = Len(nodes) /\ Len(L) = Len(nodes)
  OBVIOUS
<1>3. DenseOf(nodes).ids = Deltas(I) /\ DenseOf(nodes).lats = Deltas(L)
  BY DEF DenseOf
<1>4. /\ Deltas(I)[k] = IF k = 1 THEN I[1] ELSE I[k] - I[k - 1]
      /\ Deltas(L)[k] = IF k = 1 THEN L[1] ELSE L[k] - L[k - 1]
  <2> HIDE DEF I, L
  <2>1. QED
    BY <1>2 DEF Deltas
<1>5. k > 1 => k - 1 \in 1 .. Len(nodes) /\ I[k - 1] = nodes[k - 1].id
               /\ L[k - 1] = nodes[k - 1].lat
  BY <1>2
<1>6. I[k] = nodes[k].id /\ L[k] = nodes[k].lat /\ (k = 1 => I[1] = I[k] /\ L[1] = L[k])
  OBVIOUS
<1> HIDE DEF I, L
<1>7. k = 1 \/ k > 1
  OBVIOUS
<1>8. QED
  BY <1>1, <1>3, <1>4, <1>5, <1>6, <1>7

-----------------------------------------------------------------------------
(* The inductive invariant.                                                *)

IType ==
  /\ TypeOK
  /\ id \in Int /\ lat \in Int /\ delivered \in Seq(Elements)

InBlock == pc \in {"group", "dense", "stopped"}

\* Where the reader is, and what it knows there.
PlaceInv ==
  /\ header <=> blob > 1
  /\ pc = "blob" => slab_next = slab_reset
  /\ pc = "done" => blob = Len(file) + 1
  /\ pc \notin {"blob", "done"} => blob =< Len(file)
  /\ InBlock => header /\ GroupsIn(Blob) = Blob.groups /\ group \in 1 .. Len(Blob.groups) + 1
  /\ pc \in {"dense", "stopped"} => group =< Len(Blob.groups)

\* The sums are those of the node before, and kv0 is where the next list begins.
DenseInv ==
  pc = "dense" =>
    /\ Group.dense # NoDense /\ "NODE" \in callbacks /\ phase = 0
    /\ WantedBy(callbacks, Group) = PlainOf(Group) \o DenseTo(Group, Len(Group.dense))
    /\ n \in 1 .. Len(Group.dense) + 1
    /\ n = 1 => id = 0 /\ lat = LAT_OFFSET
    /\ n > 1 => /\ id = Group.dense[n - 1].id
                /\ lat = LAT_OFFSET + Group.dense[n - 1].lat * GRANULARITY
    /\ DenseOf(Group.dense).keys_vals # <<>> =>
         kv0 = Len(ListsBefore(Group.dense, n)) + 1

\* The groups that are done, and what was delivered of one that is not.
Begun == BegunAt(file, blob, IF InBlock THEN group ELSE 0)
Part  == IF pc = "dense" THEN PlainOf(Group) \o DenseTo(Group, n - 1) ELSE <<>>

DeliveredInv == delivered = AllBy(callbacks, Begun) \o Part

\* Elements of the phases up to p, in order.
InPhases(es, p) ==
  /\ \A i \in 1 .. Len(es) : PHASE(es[i].type) =< p
  /\ \A i, j \in 1 .. Len(es) : i < j => PHASE(es[i].type) =< PHASE(es[j].type)

\* phase is that of a group that was read, and of what was delivered last.
PhaseInv ==
  /\ \/ phase = 0
     \/ \E i \in 1 .. Len(Begun) : element_type(Begun[i]) = phase
     \/ pc = "stopped" /\ phase = element_type(Group)
  /\ InPhases(delivered, phase)

StopInv ==
  pc = "stopped" =>
    \/ Cardinality(TypesOf(Group)) > 1
    \/ element_type(Group) < phase
    \/ element_type(Group) = phase /\ Exhausted(phase)

IInv == /\ IType /\ PlaceInv /\ DenseInv /\ DeliveredInv /\ PhaseInv /\ StopInv
        /\ FailsOnBadBlob

-----------------------------------------------------------------------------
(* Each action keeps it.                                                   *)

LEMMA InputIs ==
  ASSUME IType
  PROVE  file \in Seq(BlobSet) /\ callbacks \subseteq TypeSet /\ blob \in 1 .. Len(file) + 1
BY FileAssumption DEF IType, TypeOK, TypeSet

LEMMA InitInv ==
  ASSUME Init
  PROVE  IInv
<1> USE DEF Init
<1>1. file \in Seq(BlobSet) /\ Len(file) \in Nat
  BY FileAssumption
<1>2. pc = "blob" /\ blob = 1 /\ delivered = <<>> /\ phase = 0 /\ header = FALSE
      /\ slab_next = slab_reset
  OBVIOUS
<1>3. IType
  <2>1. LAT_OFFSET \in Int /\ <<>> \in Seq(Elements)
    BY SizeAssumption
  <2>2. blob \in 1 .. Len(file) + 1 /\ \A i \in 1 .. Len(delivered) : FALSE
    BY <1>1, <1>2
  <2>3. file \in Files /\ callbacks \in CallbackSets /\ group \in Nat
        /\ phase \in 0 .. 2 /\ n \in Nat /\ kv0 \in Nat
    OBVIOUS
  <2>4. TypeOK
    BY <1>2, <2>2, <2>3, Zenon DEF TypeOK
  <2>5. QED
    BY <2>1, <2>4 DEF IType
<1>4. PlaceInv
  <2>1. ~header /\ ~(blob > 1)
    BY <1>2
  <2>2. QED
    BY <1>2, <2>1 DEF PlaceInv, InBlock
<1>5. DenseInv /\ StopInv /\ FailsOnBadBlob
  BY <1>2 DEF DenseInv, StopInv, FailsOnBadBlob
<1>6. Begun = <<>> /\ Part = <<>>
  <2>1. Begun = GroupsTo(file, 0)
    <3>1. 1 - 1 = 0
      OBVIOUS
    <3>2. QED
      BY <1>2, <3>1 DEF Begun, BegunAt, InBlock
  <2>2. QED
    BY <1>1, <1>2, <2>1, GroupsEnds DEF Part
<1>7. DeliveredInv
  <2>1. AllBy(callbacks, <<>>) = <<>>
    BY AllEmpty
  <2>2. <<>> \o <<>> = <<>>
    OBVIOUS
  <2>3. QED
    BY <1>2, <1>6, <2>1, <2>2 DEF DeliveredInv
<1>8. PhaseInv
  BY <1>2 DEF PhaseInv, InPhases
<1>9. QED
  BY <1>3, <1>4, <1>5, <1>7, <1>8 DEF IInv

\* What fails for want of memory takes more than the slab.
LEMMA SlabUsed ==
  ASSUME IInv, AtBlob
  PROVE  /\ blobh.null \/ blobh.past => Used(Blob.sizes) > SLAB_SIZE
         /\ message.null \/ message.past => Used(Blob.sizes) > SLAB_SIZE
         /\ block.null \/ block.past => Used(Blob.sizes) > SLAB_SIZE
         /\ block.next \in Nat
<1> DEFINE s == Blob.sizes
           h == Total(s.header)
           b == Total(s.blob)
           k == Total(s.block)
<1>1. slab_next = 0 /\ blob \in 1 .. Len(file) /\ file \in Seq(BlobSet)
  BY InputIs DEF IInv, PlaceInv, AtBlob, slab_reset
<1>2. Blob \in BlobSet
  BY <1>1 DEF Blob
<1>3. s.header \in Sizes /\ s.blob \in Sizes /\ s.block \in Sizes
  BY <1>2 DEF BlobSet
<1>4. /\ blobh \in Place /\ h \in Nat /\ blobh.next =< 0 + h
      /\ blobh.null \/ blobh.past => 0 + h > SLAB_SIZE
  BY <1>1, <1>3, UnpackFits DEF blobh
<1>5. blobh.next \in Nat
  BY <1>4 DEF Place
<1>6. /\ message \in Place /\ b \in Nat /\ message.next =< blobh.next + b
      /\ message.null \/ message.past => blobh.next + b > SLAB_SIZE
  BY <1>3, <1>5, UnpackFits DEF message
<1>7. message.next \in Nat
  BY <1>6 DEF Place
<1>8. /\ block \in Place /\ k \in Nat
      /\ block.null \/ block.past => message.next + k > SLAB_SIZE
  BY <1>3, <1>7, UnpackFits DEF block
<1>9. Used(s) = h + b + k /\ block.next \in Nat /\ SLAB_SIZE \in Nat
  BY <1>8, SlabAssumption DEF Used, Place
<1> HIDE DEF s, h, b, k
<1>10. QED
  BY <1>4, <1>5, <1>6, <1>7, <1>8, <1>9 DEF s

\* The reader ends at the beginning of a blob.
LEMMA EndKeeps ==
  ASSUME IInv, pc = "blob", NEW how, how \in {"done", "died", "crashed", "overrun"},
         End(how), how = "done" => blob > Len(file), how # "done" => blob =< Len(file),
         how # "done" => \/ blob = 1 /\ Blob.type # "OSMHeader"
                         \/ Blob.body # "ok"
                         \/ Used(Blob.sizes) > SLAB_SIZE
  PROVE  IInv'
<1> USE DEF End
<1>1. /\ file' = file /\ callbacks' = callbacks /\ blob' = blob /\ group' = group
      /\ header' = header /\ slab_next' = slab_next /\ phase' = phase
      /\ n' = n /\ id' = id /\ lat' = lat /\ kv0' = kv0 /\ delivered' = delivered
      /\ pc' = how
  BY DEF input, dense_state
<1>2. file \in Seq(BlobSet) /\ blob \in 1 .. Len(file) + 1 /\ Len(file) \in Nat
  BY InputIs DEF IInv
<1>3. IType'
  BY <1>1 DEF IInv, IType, TypeOK, Ends
<1>4. PlaceInv'
  BY <1>1, <1>2 DEF IInv, PlaceInv, InBlock
<1>5. (DenseInv /\ StopInv)'
  BY <1>1 DEF DenseInv, StopInv
<1>6. Begun' = Begun /\ Part' = Part
  BY <1>1, Zenon DEF Begun, Part, InBlock
<1>7. DeliveredInv'
  BY <1>1, <1>6 DEF IInv, DeliveredInv
<1>8. PhaseInv'
  BY <1>1, <1>6 DEF IInv, PhaseInv
<1>9. FailsOnBadBlob'
  BY <1>1 DEF FailsOnBadBlob, Blob
<1>10. QED
  BY <1>3, <1>4, <1>5, <1>7, <1>8, <1>9 DEF IInv

LEMMA DieKeeps ==
  ASSUME IInv, Die
  PROVE  IInv'
<1>1. AtBlob /\ End("died")
  BY DEF Die, HasData
<1>2. \/ blobh.null \/ Blob.body = "no data"
      \/ ~header /\ (Blob.type # "OSMHeader" \/ Blob.body = "bad block")
      \/ block.null \/ Blob.body = "bad block"
  BY DEF Die
<1>3. ~header => blob = 1
  BY InputIs DEF IInv, PlaceInv
<1>4. \/ blob = 1 /\ Blob.type # "OSMHeader"
      \/ Blob.body # "ok"
      \/ Used(Blob.sizes) > SLAB_SIZE
  BY <1>1, <1>2, <1>3, SlabUsed
<1>5. pc = "blob" /\ blob =< Len(file)
  BY <1>1 DEF AtBlob
<1>6. QED
  BY <1>1, <1>4, <1>5, EndKeeps

LEMMA ReadNullBlobKeeps ==
  ASSUME IInv, ReadNullBlob
  PROVE  IInv'
<1>1. AtBlob /\ End("crashed") /\ (message.null \/ Blob.body = "unparsable")
  BY DEF ReadNullBlob
<1>2. Blob.body # "ok" \/ Used(Blob.sizes) > SLAB_SIZE
  BY <1>1, SlabUsed
<1>3. pc = "blob" /\ blob =< Len(file)
  BY <1>1 DEF AtBlob
<1>4. QED
  BY <1>1, <1>2, <1>3, EndKeeps

LEMMA WritePastSlabKeeps ==
  ASSUME IInv, WritePastSlab
  PROVE  IInv'
<1>1. PICK how \in {"crashed", "overrun"} : End(how)
  BY DEF WritePastSlab
<1>2. AtBlob /\ (blobh.past \/ message.past \/ block.past)
  BY DEF WritePastSlab
<1>3. Used(Blob.sizes) > SLAB_SIZE
  BY <1>2, SlabUsed
<1>4. pc = "blob" /\ blob =< Len(file)
  BY <1>2 DEF AtBlob
<1>5. how \in {"done", "died", "crashed", "overrun"} /\ how # "done"
  OBVIOUS
<1>6. QED
  BY <1>1, <1>3, <1>4, <1>5, EndKeeps

LEMMA EndFileKeeps ==
  ASSUME IInv, EndFile
  PROVE  IInv'
<1>1. pc = "blob" /\ blob > Len(file) /\ End("done")
  BY DEF EndFile
<1>2. QED
  BY <1>1, EndKeeps

\* The reader goes on to the next blob, with no group more done.
LEMMA NextBlobKeeps ==
  ASSUME IInv, pc \in {"blob", "group"}, blob =< Len(file), NextBlob, header',
         UNCHANGED <<input, group, phase, dense_state, delivered>>,
         BegunAt(file, blob + 1, 0) = Begun
  PROVE  IInv'
<1>1. /\ file' = file /\ callbacks' = callbacks /\ blob' = blob + 1 /\ group' = group
      /\ slab_next' = slab_reset /\ phase' = phase /\ pc' = "blob"
      /\ n' = n /\ id' = id /\ lat' = lat /\ kv0' = kv0 /\ delivered' = delivered
  BY DEF input, dense_state, NextBlob
<1>2. file \in Seq(BlobSet) /\ blob \in 1 .. Len(file) /\ Len(file) \in Nat
  BY InputIs DEF IInv
<1>3. blob + 1 \in 1 .. Len(file) + 1 /\ blob + 1 > 1
  BY <1>2
<1>4. IType'
  BY <1>1, <1>3, Zenon DEF IInv, IType, TypeOK
<1>5. PlaceInv'
  BY <1>1, <1>3 DEF PlaceInv, InBlock
<1>6. (DenseInv /\ StopInv /\ FailsOnBadBlob)'
  BY <1>1 DEF DenseInv, StopInv, FailsOnBadBlob
<1>7. Begun' = Begun /\ Part' = <<>> /\ Part = <<>>
  BY <1>1 DEF Begun, Part, InBlock
<1>8. DeliveredInv'
  BY <1>1, <1>7 DEF IInv, DeliveredInv
<1>9. PhaseInv'
  BY <1>1, <1>7 DEF IInv, PhaseInv
<1>10. QED
  BY <1>4, <1>5, <1>6, <1>8, <1>9 DEF IInv

LEMMA ReadHeaderKeeps ==
  ASSUME IInv, ReadHeader
  PROVE  IInv'
<1>1. /\ pc = "blob" /\ blob =< Len(file) /\ Blob.type = "OSMHeader" /\ header'
      /\ NextBlob /\ UNCHANGED <<input, group, phase, dense_state, delivered>>
  BY DEF ReadHeader, HasData, AtBlob
<1>2. GroupsIn(file[blob]) = <<>>
  BY <1>1 DEF GroupsIn, Blob
<1>3. BegunAt(file, blob + 1, 0) = BegunAt(file, blob, 0)
  <2>1. file \in Seq(BlobSet) /\ blob \in 1 .. Len(file)
    BY <1>1, InputIs DEF IInv
  <2>2. QED
    BY <1>2, <2>1, BegunSteps
<1>4. Begun = BegunAt(file, blob, 0)
  BY <1>1 DEF Begun, InBlock
<1>5. QED
  BY <1>1, <1>3, <1>4, NextBlobKeeps

LEMMA SkipBlobKeeps ==
  ASSUME IInv, SkipBlob
  PROVE  IInv'
<1>1. /\ pc = "blob" /\ blob =< Len(file) /\ Blob.type # "OSMData" /\ header'
      /\ NextBlob /\ UNCHANGED <<input, group, phase, dense_state, delivered>>
  BY DEF SkipBlob, HasData, AtBlob
<1>2. GroupsIn(file[blob]) = <<>>
  BY <1>1 DEF GroupsIn, Blob
<1>3. BegunAt(file, blob + 1, 0) = BegunAt(file, blob, 0)
  <2>1. file \in Seq(BlobSet) /\ blob \in 1 .. Len(file)
    BY <1>1, InputIs DEF IInv
  <2>2. QED
    BY <1>2, <2>1, BegunSteps
<1>4. Begun = BegunAt(file, blob, 0)
  BY <1>1 DEF Begun, InBlock
<1>5. QED
  BY <1>1, <1>3, <1>4, NextBlobKeeps

LEMMA EndBlockKeeps ==
  ASSUME IInv, EndBlock
  PROVE  IInv'
<1>1. /\ pc = "group" /\ group > Len(Blob.groups) /\ header' = header
      /\ NextBlob /\ UNCHANGED <<input, group, phase, dense_state, delivered>>
  BY DEF EndBlock
<1>2. /\ header /\ blob =< Len(file) /\ GroupsIn(Blob) = Blob.groups
      /\ group \in 1 .. Len(Blob.groups) + 1
  BY <1>1 DEF IInv, PlaceInv, InBlock
<1>3. file \in Seq(BlobSet) /\ blob \in 1 .. Len(file) /\ Blob \in BlobSet
  BY <1>2, InputIs DEF IInv, Blob
<1>4. group = Len(Blob.groups) + 1
  <2>1. Blob.groups \in Seq(GroupSet)
    BY <1>3 DEF BlobSet
  <2>2. QED
    BY <1>1, <1>2, <2>1
<1>5. BegunAt(file, blob + 1, 0) = BegunAt(file, blob, Len(file[blob].groups) + 1)
  BY <1>2, <1>3, BegunSteps DEF Blob
<1>6. Begun = BegunAt(file, blob, Len(file[blob].groups) + 1)
  BY <1>1, <1>4 DEF Begun, InBlock, Blob
<1>7. QED
  BY <1>1, <1>2, <1>5, <1>6, NextBlobKeeps

LEMMA OpenBlockKeeps ==
  ASSUME IInv, OpenBlock
  PROVE  IInv'
<1>1. /\ file' = file /\ callbacks' = callbacks /\ blob' = blob /\ group' = 1
      /\ header' = header /\ slab_next' = block.next /\ phase' = phase /\ pc' = "group"
      /\ n' = n /\ id' = id /\ lat' = lat /\ kv0' = kv0 /\ delivered' = delivered
      /\ pc = "blob" /\ blob =< Len(file) /\ header
      /\ Blob.type = "OSMData" /\ Blob.body = "ok"
  BY DEF OpenBlock, HasData, AtBlob, input, dense_state
<1>2. file \in Seq(BlobSet) /\ blob \in 1 .. Len(file) /\ Blob \in BlobSet
  BY <1>1, InputIs DEF IInv, Blob
<1>3. GroupsIn(Blob) = Blob.groups
  BY <1>1 DEF GroupsIn
<1>4. IType'
  BY <1>1 DEF IInv, IType, TypeOK
<1>5. PlaceInv'
  <2>1. Blob.groups \in Seq(GroupSet)
    BY <1>2 DEF BlobSet
  <2>2. 1 \in 1 .. Len(Blob.groups) + 1
    BY <2>1
  <2>3. Blob' = Blob
    BY <1>1 DEF Blob
  <2>4. QED
    BY <1>1, <1>3, <2>2, <2>3 DEF IInv, PlaceInv, InBlock
<1>6. (DenseInv /\ StopInv /\ FailsOnBadBlob)'
  BY <1>1 DEF DenseInv, StopInv, FailsOnBadBlob
<1>7. Begun' = Begun /\ Part' = <<>> /\ Part = <<>>
  <2>1. Begun' = BegunAt(file, blob, 1) /\ Begun = BegunAt(file, blob, 0)
    BY <1>1 DEF Begun, InBlock
  <2>2. BegunAt(file, blob, 1) = BegunAt(file, blob, 0)
    BY <1>2, <1>3, BegunSteps DEF Blob
  <2>3. QED
    BY <1>1, <2>1, <2>2 DEF Part
<1>8. DeliveredInv'
  BY <1>1, <1>7 DEF IInv, DeliveredInv
<1>9. PhaseInv'
  BY <1>1, <1>7 DEF IInv, PhaseInv
<1>10. QED
  BY <1>4, <1>5, <1>6, <1>8, <1>9 DEF IInv

LEMMA StopAtGroupKeeps ==
  ASSUME IInv, StopAtGroup
  PROVE  IInv'
<1> DEFINE p == IF Cardinality(TypesOf(Group)) > 1 THEN phase
                ELSE Max({phase, element_type(Group)})
<1>1. /\ file' = file /\ callbacks' = callbacks /\ blob' = blob /\ group' = group
      /\ header' = header /\ slab_next' = slab_next /\ phase' = p /\ pc' = "stopped"
      /\ n' = n /\ id' = id /\ lat' = lat /\ kv0' = kv0 /\ delivered' = delivered
      /\ pc = "group" /\ group =< Len(Blob.groups) /\ enforce_ordering(Group)
  BY DEF StopAtGroup, input, dense_state
<1>2. phase \in 0 .. 2 /\ element_type(Group) \in -1 .. 2
  BY TypesOfGroup DEF IInv, IType, TypeOK
<1>3. /\ p \in 0 .. 2 /\ p >= phase
      /\ p = phase \/ p = element_type(Group)
      /\ \/ Cardinality(TypesOf(Group)) > 1
         \/ element_type(Group) < p
         \/ element_type(Group) = p /\ Exhausted(p)
  <2>1. CASE Cardinality(TypesOf(Group)) > 1
    BY <1>2, <2>1
  <2>2. CASE ~(Cardinality(TypesOf(Group)) > 1)
    <3>1. p = IF phase >= element_type(Group) THEN phase ELSE element_type(Group)
      BY <1>2, <2>2, MaxOfTwo
    <3>2. \/ element_type(Group) < phase
          \/ element_type(Group) > phase /\ Exhausted(element_type(Group))
      BY <1>1, <2>2 DEF enforce_ordering
    <3> HIDE DEF p
    <3>3. QED
      BY <1>2, <3>1, <3>2
  <2>3. QED
    BY <2>1, <2>2
<1> HIDE DEF p
<1>4. IType'
  BY <1>1, <1>3 DEF IInv, IType, TypeOK, Ends
<1>5. Blob' = Blob /\ Group' = Group
  BY <1>1 DEF Blob, Group
<1>6. PlaceInv'
  BY <1>1, <1>5 DEF IInv, PlaceInv, InBlock
<1>7. (DenseInv /\ FailsOnBadBlob)'
  BY <1>1 DEF DenseInv, FailsOnBadBlob
<1>8. StopInv'
  <2>1. Exhausted(phase)' <=> Exhausted(p)
    BY <1>1 DEF Exhausted
  <2>2. QED
    BY <1>1, <1>3, <1>5, <2>1 DEF StopInv
<1>9. Begun' = Begun /\ Part' = <<>> /\ Part = <<>>
  BY <1>1 DEF Begun, Part, InBlock
<1>10. DeliveredInv'
  BY <1>1, <1>9 DEF IInv, DeliveredInv
<1>11. PhaseInv'
  <2>1. InPhases(delivered, p)
    <3>1. \A i \in 1 .. Len(delivered) : PHASE(delivered[i].type) \in Int
      <4>1. \A i \in 1 .. Len(delivered) : delivered[i].type \in TypeSet
        BY InputIs DEF IInv, IType, TypeOK
      <4>2. QED
        BY <4>1, Phases DEF TypeSet
    <3>2. InPhases(delivered, phase)
      BY DEF IInv, PhaseInv
    <3>3. QED
      BY <1>2, <1>3, <3>1, <3>2 DEF InPhases
  <2>2. \/ p = 0 \/ \E i \in 1 .. Len(Begun) : element_type(Begun[i]) = p
        \/ p = element_type(Group)
    BY <1>1, <1>3 DEF IInv, PhaseInv
  <2>3. QED
    BY <1>1, <1>5, <1>9, <2>1, <2>2 DEF PhaseInv
<1>12. QED
  BY <1>4, <1>6, <1>7, <1>8, <1>10, <1>11 DEF IInv

\* es are elements that have a callback, in the order of phases up to p.
Ordered(c, es, p) ==
  /\ es \in Seq(Elements) /\ InPhases(es, p)
  /\ \A i \in 1 .. Len(es) : es[i].type \in c

LEMMA OrderedJoin ==
  ASSUME NEW c \in SUBSET TypeSet, NEW p \in 0 .. 2, NEW es, Ordered(c, es, p),
         NEW t \in TypeSet, PHASE(t) >= p, NEW fs, Gives(c, t, fs)
  PROVE  Ordered(c, es \o fs, PHASE(t))
<1> DEFINE gs == es \o fs
           at(i) == PHASE(gs[i].type)
<1>1. /\ fs \in Seq(Elements) /\ \A i \in 1 .. Len(fs) : fs[i].type = t /\ t \in c
      /\ es \in Seq(Elements) /\ \A i \in 1 .. Len(es) : es[i].type \in c
  BY DEF Gives, Ordered
<1>2. /\ gs \in Seq(Elements) /\ Len(gs) = Len(es) + Len(fs)
      /\ Len(es) \in Nat /\ Len(fs) \in Nat
      /\ \A i \in 1 .. Len(es) : gs[i] = es[i]
      /\ \A i \in Len(es) + 1 .. Len(gs) : i - Len(es) \in 1 .. Len(fs)
                                          /\ gs[i] = fs[i - Len(es)]
  BY <1>1
<1> HIDE DEF gs
<1>3. \A i \in 1 .. Len(gs) : i \in 1 .. Len(es) \/ i \in Len(es) + 1 .. Len(gs)
  BY <1>2
<1>4. \A i \in 1 .. Len(gs) : \/ i \in 1 .. Len(es) /\ gs[i] = es[i]
                              \/ i \in Len(es) + 1 .. Len(gs) /\ gs[i].type = t /\ t \in c
  BY <1>1, <1>2, <1>3
<1>5. \A i \in 1 .. Len(gs) : gs[i].type \in c
  BY <1>1, <1>4
<1>6. \A u \in c : PHASE(u) \in 0 .. 2
  BY Phases DEF TypeSet
<1>7. PHASE(t) \in 0 .. 2
  BY Phases DEF TypeSet
<1>8. \A i \in 1 .. Len(gs) : at(i) \in 0 .. 2
  BY <1>5, <1>6
<1>9. /\ \A i \in 1 .. Len(es) : at(i) =< p
      /\ \A i, j \in 1 .. Len(es) : i < j => at(i) =< at(j)
  BY <1>2 DEF InPhases, Ordered
<1>10. \A i \in Len(es) + 1 .. Len(gs) : i \in 1 .. Len(gs) /\ at(i) = PHASE(t)
  <2>1. \A i \in Len(es) + 1 .. Len(gs) : i \in 1 .. Len(gs) /\ i \notin 1 .. Len(es)
    BY <1>2
  <2>2. QED
    BY <1>4, <2>1
<1>11. \A i \in 1 .. Len(gs) : at(i) =< PHASE(t)
  BY <1>3, <1>7, <1>8, <1>9, <1>10
<1>12. \A i, j \in 1 .. Len(gs) : i < j => at(i) =< at(j)
  <2>1. SUFFICES ASSUME NEW i \in 1 .. Len(gs), NEW j \in 1 .. Len(gs), i < j
                 PROVE  at(i) =< at(j)
    OBVIOUS
  <2>2. CASE j \in 1 .. Len(es)
    <3>1. i \in 1 .. Len(es)
      BY <1>2, <2>1, <2>2
    <3>2. QED
      BY <1>9, <2>1, <2>2, <3>1
  <2>3. CASE j \in Len(es) + 1 .. Len(gs)
    BY <1>10, <1>11, <2>3
  <2>4. QED
    BY <1>3, <2>2, <2>3
<1>13. QED
  BY <1>2, <1>5, <1>11, <1>12 DEF InPhases, Ordered, gs

\* The group that is handled, and what is done before it and with it.
LEMMA GroupStep ==
  ASSUME IInv, pc \in {"group", "dense", "stopped"}, group =< Len(Blob.groups)
  PROVE  /\ Group \in GroupSet /\ Begun \in Seq(GroupSet)
         /\ Begun = BegunAt(file, blob, group)
         /\ BegunAt(file, blob, group + 1) = Append(Begun, Group)
         /\ Begins(Append(Begun, Group), Groups(file))
         /\ AllBy(callbacks, Append(Begun, Group))
            = AllBy(callbacks, Begun) \o WantedBy(callbacks, Group)
         /\ group + 1 \in 1 .. Len(Blob.groups) + 1
<1>1. blob =< Len(file) /\ GroupsIn(Blob) = Blob.groups /\ group \in 1 .. Len(Blob.groups) + 1
  BY DEF IInv, PlaceInv, InBlock
<1>2. file \in Seq(BlobSet) /\ blob \in 1 .. Len(file)
  BY <1>1, InputIs DEF IInv
<1>3. Len(Blob.groups) \in Nat
  <2>1. Blob \in BlobSet
    BY <1>2 DEF Blob
  <2>2. Blob.groups \in Seq(GroupSet)
    BY <2>1 DEF BlobSet
  <2>3. QED
    BY <2>2
<1>4. group \in 1 .. Len(file[blob].groups) /\ group + 1 \in 1 .. Len(Blob.groups) + 1
  BY <1>1, <1>3 DEF Blob
<1>5. /\ BegunAt(file, blob, group) \in Seq(GroupSet) /\ file[blob].groups[group] \in GroupSet
      /\ BegunAt(file, blob, group + 1)
         = Append(BegunAt(file, blob, group), file[blob].groups[group])
      /\ Begins(Append(BegunAt(file, blob, group), file[blob].groups[group]), Groups(file))
  BY <1>1, <1>2, <1>4, BegunSteps DEF Blob
<1>6. Begun = BegunAt(file, blob, group)
  BY DEF Begun, InBlock
<1>7. Group = file[blob].groups[group]
  BY DEF Group, Blob
<1>8. AllBy(callbacks, Append(Begun, Group))
      = AllBy(callbacks, Begun) \o WantedBy(callbacks, Group)
  BY <1>5, <1>6, <1>7, AllAppend
<1>9. QED
  BY <1>4, <1>5, <1>6, <1>7, <1>8

LEMMA JoinThree ==
  ASSUME NEW T, NEW s \in Seq(T), NEW t \in Seq(T), NEW u \in Seq(T)
  PROVE  (s \o t) \o u = s \o (t \o u)
BY ConcatAssociative

LEMMA HandleGroupKeeps ==
  ASSUME IInv, HandleGroup
  PROVE  IInv'
<1> DEFINE c == callbacks
           g == Group
           H == Handled(c, g)
           dense == g.dense # NoDense /\ "NODE" \in c
<1>1. /\ file' = file /\ callbacks' = callbacks /\ blob' = blob /\ header' = header
      /\ slab_next' = slab_next /\ phase' = Max({phase, element_type(g)})
      /\ pc = "group" /\ group =< Len(Blob.groups) /\ ~enforce_ordering(g)
      /\ IF dense
         THEN /\ pc' = "dense" /\ group' = group
              /\ n' = 1 /\ id' = 0 /\ lat' = LAT_OFFSET /\ kv0' = 1
         ELSE /\ pc' = "group" /\ group' = group + 1
              /\ n' = n /\ id' = id /\ lat' = lat /\ kv0' = kv0
  BY DEF HandleGroup, input, dense_state
<1>2. delivered' = delivered \o H
  <2>1. delivered' = delivered \o CalledFor(c, "WAY", g.ways)
                     \o CalledFor(c, "NODE", PlainOf(g))
                     \o CalledFor(c, "RELATION", g.relations)
    BY WantedSame DEF HandleGroup, PlainOf
  <2> DEFINE W == CalledFor(c, "WAY", g.ways)
             N == CalledFor(c, "NODE", PlainOf(g))
             R == CalledFor(c, "RELATION", g.relations)
  <2>2. delivered \in Seq(Elements)
    BY DEF IInv, IType
  <2>3. W \in Seq(Elements) /\ N \in Seq(Elements) /\ R \in Seq(Elements)
    <3>1. g \in GroupSet
      BY <1>1, GroupStep
    <3>2. g.ways \in Seq(Elements) /\ PlainOf(g) \in Seq(Elements)
          /\ g.relations \in Seq(Elements)
      BY <3>1, GroupFields
    <3>3. <<>> \in Seq(Elements)
      OBVIOUS
    <3> HIDE DEF g, c
    <3>4. QED
      BY <3>2, <3>3 DEF CalledFor
  <2>4. H = W \o N \o R
    BY DEF Handled
  <2> HIDE DEF W, N, R, H
  <2>5. W \o N \in Seq(Elements)
    BY <2>3
  <2>6. (delivered \o W) \o N = delivered \o (W \o N)
    BY <2>2, <2>3, JoinThree
  <2>7. (delivered \o (W \o N)) \o R = delivered \o ((W \o N) \o R)
    <3> DEFINE d == delivered
               t == W \o N
    <3>1. d \in Seq(Elements) /\ t \in Seq(Elements) /\ R \in Seq(Elements)
      BY <2>2, <2>3, <2>5
    <3> HIDE DEF d, t
    <3>2. (d \o t) \o R = d \o (t \o R)
      BY <3>1, JoinThree
    <3>3. QED
      BY <3>2 DEF d, t
  <2>8. QED
    BY <2>1, <2>4, <2>6, <2>7 DEF W, N, R
<1>3. /\ g \in GroupSet /\ Begun \in Seq(GroupSet)
      /\ BegunAt(file, blob, group + 1) = Append(Begun, g)
      /\ BegunAt(file, blob, group) = Begun
      /\ AllBy(c, Append(Begun, g)) = AllBy(c, Begun) \o WantedBy(c, g)
      /\ group + 1 \in 1 .. Len(Blob.groups) + 1
  BY <1>1, GroupStep
<1>4. phase \in 0 .. 2 /\ delivered \in Seq(Elements) /\ c \subseteq TypeSet
      /\ \A i \in 1 .. Len(delivered) : delivered[i].type \in c
      /\ InPhases(delivered, phase)
  BY InputIs DEF IInv, IType, TypeOK, PhaseInv
<1>5. PICK t \in TypeSet : /\ TypesOf(g) = {t} /\ element_type(g) = PHASE(t)
                           /\ PHASE(t) >= phase
  BY <1>1, <1>4, OneType
<1>6. PHASE(t) \in 0 .. 2
  BY Phases DEF TypeSet
<1>7. phase' = PHASE(t)
  <2>1. Max({phase, PHASE(t)}) = IF phase >= PHASE(t) THEN phase ELSE PHASE(t)
    BY <1>4, <1>6, MaxOfTwo
  <2>2. QED
    BY <1>1, <1>4, <1>5, <1>6, <2>1
<1>8. /\ Gives(c, t, H)
      /\ IF dense
         THEN /\ t = "NODE" /\ H = PlainOf(g)
              /\ WantedBy(c, g) = PlainOf(g) \o DenseTo(g, Len(g.dense))
         ELSE WantedBy(c, g) = H
  BY <1>3, <1>5, GroupGives
<1> HIDE DEF c, g, H
<1>9. /\ InPhases(delivered', phase')
      /\ \A i \in 1 .. Len(delivered') : delivered'[i].type \in c
      /\ delivered' \in Seq(Elements)
  <2>1. c \in SUBSET TypeSet /\ Ordered(c, delivered, phase)
    <3>1. delivered \in Seq(Elements)
      BY <1>4
    <3>2. InPhases(delivered, phase)
      BY Zenon DEF IInv, PhaseInv
    <3>3. \A i \in 1 .. Len(delivered) : delivered[i].type \in c
      BY <1>4
    <3>4. Ordered(c, delivered, phase)
      BY <3>1, <3>2, <3>3, Zenon DEF Ordered
    <3>5. QED
      BY <1>4, <3>4
  <2>2. Ordered(c, delivered \o H, PHASE(t))
    BY <1>4, <1>5, <1>8, <2>1, OrderedJoin
  <2>3. QED
    BY <1>2, <1>7, <2>2, Zenon DEF Ordered
<1>10. IType'
  <2>1. phase' \in 0 .. 2
    BY <1>6, <1>7
  <2>2. group' \in Nat
    BY <1>1 DEF IInv, IType, TypeOK
  <2>3. n' \in Nat /\ id' \in Int /\ lat' \in Int /\ kv0' \in Nat
        /\ pc' \in {"group", "dense"}
    BY <1>1, SizeAssumption DEF IInv, IType, TypeOK
  <2>4. /\ file \in Files /\ callbacks \in CallbackSets /\ blob \in 1 .. Len(file) + 1
        /\ header \in BOOLEAN
    BY DEF IInv, IType, TypeOK
  <2>5. TypeOK'
    BY <1>1, <1>9, <2>1, <2>2, <2>3, <2>4, Zenon DEF TypeOK, c
  <2>6. QED
    BY <1>9, <2>3, <2>5 DEF IType
<1>11. Blob' = Blob
  BY <1>1 DEF Blob
<1>12. PlaceInv'
  <2>1. group \in 1 .. Len(Blob.groups) + 1 /\ blob =< Len(file)
        /\ GroupsIn(Blob) = Blob.groups /\ header
    BY <1>1 DEF IInv, PlaceInv, InBlock
  <2>2. header <=> blob > 1
    BY DEF IInv, PlaceInv
  <2>3. CASE dense
    BY <1>1, <1>11, <2>1, <2>2, <2>3 DEF PlaceInv, InBlock
  <2>4. CASE ~dense
    BY <1>1, <1>3, <1>11, <2>1, <2>2, <2>4 DEF PlaceInv, InBlock
  <2>5. QED
    BY <2>3, <2>4
<1>13. dense => Group' = g
  BY <1>1, <1>11 DEF Group, g
<1>14. DenseInv'
  <2>1. SUFFICES ASSUME dense  PROVE DenseInv'
    BY <1>1 DEF DenseInv
  <2>2. g.dense \in Seq(Nodes)
    BY <1>3, <2>1, GroupFields
  <2>3. 1 \in 1 .. Len(g.dense) + 1
    BY <2>2
  <2>4. phase' = 0
    BY <1>7, <1>8, <2>1, Phases
  <2>5. Len(ListsBefore(g.dense, 1)) = 0
    <3>1. KeysVals(g.dense) \in Seq(Seq(Nat))
      BY <2>2, KeysValsAre
    <3>2. SubSeq(KeysVals(g.dense), 1, 0) = <<>> /\ 1 - 1 = 0
      BY <3>1, SubSeqEmpty
    <3>3. ListsBefore(g.dense, 1) = <<>>
      BY <3>2, ConcatEmpty DEF ListsBefore
    <3>4. QED
      BY <3>3
  <2>6. n' = 1 /\ id' = 0 /\ lat' = LAT_OFFSET /\ kv0' = 1 /\ pc' = "dense"
    BY <1>1, <2>1
  <2>7. kv0' = Len(ListsBefore(g.dense, 1)) + 1
    BY <2>5, <2>6
  <2>8. Group' = g /\ callbacks' = c
    BY <1>1, <1>13, <2>1 DEF c
  <2>9. WantedBy(callbacks', Group') = PlainOf(Group') \o DenseTo(Group', Len(Group'.dense))
    BY <1>8, <2>1, <2>8, Zenon
  <2>10. /\ Group'.dense # NoDense /\ "NODE" \in callbacks'
         /\ n' \in 1 .. Len(Group'.dense) + 1 /\ ~(n' > 1)
         /\ kv0' = Len(ListsBefore(Group'.dense, n')) + 1
    BY <2>1, <2>3, <2>6, <2>7, <2>8
  <2>11. QED
    BY <2>4, <2>6, <2>9, <2>10 DEF DenseInv
<1>15. (StopInv /\ FailsOnBadBlob)'
  BY <1>1 DEF StopInv, FailsOnBadBlob
<1>16. delivered = AllBy(c, Begun) /\ AllBy(c, Begun) \in Seq(Elements)
  <2>1. Part = <<>>
    BY <1>1 DEF Part
  <2>2. AllBy(c, Begun) \in Seq(Elements)
    BY <1>3, EachIs
  <2>3. delivered = AllBy(c, Begun) \o <<>>
    BY <2>1 DEF IInv, DeliveredInv, c
  <2>4. QED
    BY <2>2, <2>3, ConcatEmptySeq
<1>17. DeliveredInv'
  <2>1. CASE dense
    <3>1. Begun' = Begun
      BY <1>1, <1>3, <2>1 DEF Begun, InBlock
    <3>2. Part' = H
      <4>1. Part' = PlainOf(g) \o DenseTo(g, 1 - 1)
        BY <1>1, <1>13, <2>1 DEF Part
      <4>2. DenseTo(g, 1 - 1) = <<>>
        BY DEF DenseTo
      <4>3. H = PlainOf(g) /\ H \in Seq(Elements)
        BY <1>8, <2>1 DEF Gives
      <4>4. QED
        BY <4>1, <4>2, <4>3, ConcatEmptySeq
    <3>3. QED
      BY <1>1, <1>2, <1>16, <3>1, <3>2 DEF DeliveredInv, c
  <2>2. CASE ~dense
    <3>1. Begun' = Append(Begun, g)
      BY <1>1, <1>3, <2>2 DEF Begun, InBlock
    <3>2. Part' = <<>>
      BY <1>1, <2>2 DEF Part
    <3>3. AllBy(c, Append(Begun, g)) = delivered \o H
      BY <1>3, <1>8, <1>16, <2>2
    <3>4. delivered' \o <<>> = delivered'
      BY <1>9, ConcatEmptySeq
    <3>5. QED
      BY <1>1, <1>2, <3>1, <3>2, <3>3, <3>4 DEF DeliveredInv, c
  <2>3. QED
    BY <2>1, <2>2
<1>18. PhaseInv'
  <2>1. CASE dense
    <3>1. phase' = 0
      BY <1>7, <1>8, <2>1, Phases
    <3>2. QED
      BY <1>9, <3>1 DEF PhaseInv
  <2>2. CASE ~dense
    <3>1. Begun' = Append(Begun, g)
      BY <1>1, <1>3, <2>2 DEF Begun, InBlock
    <3>2. Append(Begun, g)[Len(Begun) + 1] = g
          /\ Len(Begun) + 1 \in 1 .. Len(Append(Begun, g))
      BY <1>3
    <3>3. \E i \in 1 .. Len(Append(Begun, g)) : element_type(Append(Begun, g)[i]) = phase'
      BY <1>5, <1>7, <3>2
    <3>4. QED
      BY <1>9, <3>1, <3>3, Zenon DEF PhaseInv
  <2>3. QED
    BY <2>1, <2>2
<1>19. QED
  BY <1>10, <1>12, <1>14, <1>15, <1>17, <1>18 DEF IInv

LEMMA DenseStep ==
  ASSUME IInv, pc = "dense"
  PROVE  /\ Group \in GroupSet /\ Group.dense \in Seq(Nodes) /\ Group.dense # NoDense
         /\ \A k \in 0 .. Len(Group.dense) :
              DenseTo(Group, k) \in Seq(Elements) /\ Len(DenseTo(Group, k)) = k
         /\ PlainOf(Group) \in Seq(Elements)
         /\ AllBy(callbacks, Begun) \in Seq(Elements)
         /\ delivered = AllBy(callbacks, Begun) \o (PlainOf(Group) \o DenseTo(Group, n - 1))
         /\ group =< Len(Blob.groups)
<1>1. group =< Len(Blob.groups) /\ Group.dense # NoDense
  BY DEF IInv, PlaceInv, DenseInv
<1>2. Group \in GroupSet /\ Begun \in Seq(GroupSet)
  BY <1>1, GroupStep
<1>3. /\ Group.dense \in Seq(Nodes) /\ PlainOf(Group) \in Seq(Elements)
      /\ \A k \in 0 .. Len(Group.dense) :
           DenseTo(Group, k) \in Seq(Elements) /\ Len(DenseTo(Group, k)) = k
  <2> DEFINE g == Group
  <2>1. g \in GroupSet /\ g.dense # NoDense
    BY <1>1, <1>2
  <2> HIDE DEF g
  <2>2. /\ g.dense \in Seq(Nodes) /\ PlainOf(g) \in Seq(Elements)
        /\ \A k \in 0 .. Len(g.dense) :
             DenseTo(g, k) \in Seq(Elements) /\ Len(DenseTo(g, k)) = k
    BY <2>1, GroupFields
  <2>3. QED
    BY <2>2 DEF g
<1>4. AllBy(callbacks, Begun) \in Seq(Elements)
  BY <1>2, EachIs
<1>5. delivered = AllBy(callbacks, Begun) \o (PlainOf(Group) \o DenseTo(Group, n - 1))
  BY DEF IInv, DeliveredInv, Part
<1>6. QED
  BY <1>1, <1>2, <1>3, <1>4, <1>5

\* What is appended to the last of three sequences is at the end of them all.
JoinsAppend(s, t, u, x) ==
  Append(s \o (t \o u), x) = s \o (t \o Append(u, x))

LEMMA JoinAppend ==
  ASSUME NEW T, NEW s \in Seq(T), NEW t \in Seq(T), NEW u \in Seq(T), NEW x \in T
  PROVE  JoinsAppend(s, t, u, x)
<1> DEFINE a == Append(s \o (t \o u), x)
           b == s \o (t \o Append(u, x))
<1>1. t \o u \in Seq(T) /\ Append(u, x) \in Seq(T)
  OBVIOUS
<1>2. Append(u, x) = u \o <<x>>
  BY AppendIsConcat
<1>3. t \o Append(u, x) = (t \o u) \o <<x>>
  <2>1. <<x>> \in Seq(T)
    OBVIOUS
  <2>2. (t \o u) \o <<x>> = t \o (u \o <<x>>)
    BY <2>1, ConcatAssociative
  <2>3. QED
    BY <1>2, <2>2
<1>4. Append(s \o (t \o u), x) = (s \o (t \o u)) \o <<x>>
  <2>1. s \o (t \o u) \in Seq(T)
    BY <1>1
  <2>2. QED
    BY <2>1, AppendIsConcat
<1>5. (s \o (t \o u)) \o <<x>> = s \o ((t \o u) \o <<x>>)
  <2> DEFINE v == t \o u
             w == <<x>>
  <2>1. v \in Seq(T) /\ w \in Seq(T)
    BY <1>1
  <2> HIDE DEF v, w
  <2>2. (s \o v) \o w = s \o (v \o w)
    BY <2>1, ConcatAssociative
  <2>3. QED
    BY <2>2 DEF v, w
<1>6. QED
  BY <1>3, <1>4, <1>5 DEF JoinsAppend

LEMMA HandleDenseNodeKeeps ==
  ASSUME IInv, HandleDenseNode
  PROVE  IInv'
<1> DEFINE c == callbacks
           g == Group
           nodes == g.dense
           kvs == DenseOf(nodes).keys_vals
           e == [type |-> "NODE", id |-> id', lat |-> lat', tags |-> TagsRead(kvs, kv0)]
<1>1. /\ file' = file /\ callbacks' = callbacks /\ blob' = blob /\ group' = group
      /\ header' = header /\ slab_next' = slab_next /\ phase' = phase /\ pc' = pc
      /\ pc = "dense" /\ n =< Len(nodes) /\ n' = n + 1
      /\ id' = id + DenseOf(nodes).ids[n]
      /\ lat' = lat + DenseOf(nodes).lats[n] * GRANULARITY
      /\ kv0' = ListEnd(kvs, kv0) + 1
      /\ delivered' = Append(delivered, e)
  BY DEF HandleDenseNode, input, ListEnd, TagsRead, Terminator
<1>2. /\ g \in GroupSet /\ nodes \in Seq(Nodes) /\ g.dense # NoDense
      /\ \A k \in 0 .. Len(nodes) :
           DenseTo(g, k) \in Seq(Elements) /\ Len(DenseTo(g, k)) = k
      /\ PlainOf(g) \in Seq(Elements)
      /\ AllBy(c, Begun) \in Seq(Elements)
      /\ delivered = AllBy(c, Begun) \o (PlainOf(g) \o DenseTo(g, n - 1))
  BY <1>1, DenseStep
<1>3. /\ "NODE" \in c /\ phase = 0 /\ n \in 1 .. Len(nodes) + 1
      /\ WantedBy(c, g) = PlainOf(g) \o DenseTo(g, Len(nodes))
      /\ n = 1 => id = 0 /\ lat = LAT_OFFSET
      /\ n > 1 => /\ id = nodes[n - 1].id
                  /\ lat = LAT_OFFSET + nodes[n - 1].lat * GRANULARITY
      /\ kvs # <<>> => kv0 = Len(ListsBefore(nodes, n)) + 1
  BY <1>1 DEF IInv, DenseInv
<1>4. /\ c \in SUBSET TypeSet /\ id \in Int /\ lat \in Int /\ kv0 \in Nat
      /\ delivered \in Seq(Elements)
      /\ \A i \in 1 .. Len(delivered) : delivered[i].type \in c
      /\ InPhases(delivered, phase)
  BY InputIs DEF IInv, IType, TypeOK, PhaseInv
<1>5. Blob' = Blob /\ Group' = g
  BY <1>1 DEF Blob, Group
<1> HIDE DEF c, g
<1>6. n \in 1 .. Len(nodes) /\ nodes[n] \in Nodes /\ Len(nodes) \in Nat
  <2>1. n \in 1 .. Len(nodes)
    BY <1>1, <1>2, <1>3
  <2>2. QED
    BY <1>2, <2>1
<1>7. id' = nodes[n].id /\ lat' = LAT_OFFSET + nodes[n].lat * GRANULARITY
      /\ id' \in Int /\ lat' \in Int
  <2> DEFINE i == DenseOf(nodes).ids[n]
             l == DenseOf(nodes).lats[n]
             x == nodes[n]
             y == nodes[n - 1]
  <2>1. /\ x.id \in Int /\ x.lat \in Int
        /\ n = 1 => i = x.id /\ l = x.lat
        /\ n > 1 => /\ y.id \in Int /\ y.lat \in Int
                    /\ i = x.id - y.id /\ l = x.lat - y.lat
    BY <1>2, <1>6, DeltasAre
  <2>2. id' = id + i /\ lat' = lat + l * GRANULARITY
    BY <1>1
  <2>3. /\ n = 1 => id = 0 /\ lat = LAT_OFFSET
        /\ n > 1 => id = y.id /\ lat = LAT_OFFSET + y.lat * GRANULARITY
        /\ n = 1 \/ n > 1
    BY <1>3, <1>6
  <2> HIDE DEF i, l, x, y
  <2>4. GRANULARITY \in Int /\ LAT_OFFSET \in Int
    BY SizeAssumption
  <2>5. CASE n = 1
    BY <2>1, <2>2, <2>3, <2>4, <2>5 DEF x
  <2>6. CASE n > 1
    <3>1. id' = x.id
      BY <2>1, <2>2, <2>3, <2>6
    <3>2. y.lat * GRANULARITY + (x.lat - y.lat) * GRANULARITY = x.lat * GRANULARITY
      BY <2>1, <2>4, <2>6
    <3>3. lat' = LAT_OFFSET + x.lat * GRANULARITY
      BY <2>1, <2>2, <2>3, <2>4, <2>6, <3>2
    <3>4. QED
      BY <2>1, <2>4, <3>1, <3>3 DEF x
  <2>7. QED
    BY <2>3, <2>5, <2>6
<1>8. /\ kv0' \in Nat
      /\ kvs # <<>> => kv0' = Len(ListsBefore(nodes, n + 1)) + 1
      /\ TagsRead(kvs, kv0) = Cut(nodes[n]).tags
  <2>1. /\ ListEnd(kvs, kv0) \in Nat
        /\ kvs # <<>> => ListEnd(kvs, kv0) + 1 = Len(ListsBefore(nodes, n + 1)) + 1
        /\ TagsRead(kvs, kv0) = Cut(nodes[n]).tags
    BY <1>2, <1>3, <1>4, <1>6, TagsDecode
  <2>2. QED
    BY <1>1, <2>1
<1>9. e = Scaled(Cut(nodes[n])) /\ e \in Elements /\ e.type = "NODE"
  <2> DEFINE x == nodes[n]
             y == Cut(x)
             ts == SubSeq(x.tags, 1, Min({Len(x.tags), MAX_TAGS}))
  <2>1. x \in Nodes /\ Scaled(Cut(x)) \in Nodes
    BY <1>6, ScaledIs
  <2> HIDE DEF x
  <2>2. y = [type |-> x.type, id |-> x.id, lat |-> x.lat, tags |-> ts]
    <3>1. x \in [type : {"NODE"}, id : Int, lat : Int, tags : Seq((Nat \ {0}) \X Nat)]
      BY <2>1 DEF Nodes
    <3>2. y = [x EXCEPT !.tags = ts]
      BY DEF Cut
    <3> HIDE DEF ts, y
    <3>3. QED
      BY <3>1, <3>2
  <2>3. x.type = "NODE" /\ y.tags = ts
    <3>1. x.type = "NODE"
      BY <2>1 DEF Nodes
    <3> HIDE DEF ts, y
    <3>2. y.tags = ts
      BY <2>2
    <3>3. QED
      BY <3>1, <3>2
  <2> HIDE DEF ts, y
  <2>4. Scaled(y) = [type |-> "NODE", id |-> x.id,
                     lat |-> LAT_OFFSET + x.lat * GRANULARITY, tags |-> y.tags]
    BY <2>2, <2>3 DEF Scaled
  <2>5. e = Scaled(y)
    BY <1>7, <1>8, <2>4 DEF x, y
  <2>6. e \in Elements
    BY <2>1, <2>5 DEF y, Elements
  <2>7. QED
    BY <2>5, <2>6 DEF x, y
<1> HIDE DEF e, kvs
<1>10. delivered' = AllBy(c, Begun) \o (PlainOf(g) \o DenseTo(g, n))
  <2> DEFINE s == DenseTo(g, n - 1)
  <2>1. n - 1 \in 0 .. Len(nodes) /\ n \in 0 .. Len(nodes) /\ n \in Nat
    BY <1>6
  <2>2. s \in Seq(Elements) /\ Len(s) = n - 1
        /\ DenseTo(g, n) \in Seq(Elements) /\ Len(DenseTo(g, n)) = n
    BY <1>2, <2>1
  <2>3. DenseTo(g, n) = Append(s, e)
    <3>1. \A i \in 1 .. n - 1 : DenseTo(g, n)[i] = s[i]
      BY <2>1 DEF DenseTo
    <3>2. DenseTo(g, n)[n] = e
      BY <1>6, <1>9 DEF DenseTo
    <3> HIDE DEF s
    <3>3. Append(s, e) \in Seq(Elements) /\ Len(Append(s, e)) = n
          /\ \A i \in 1 .. n - 1 : Append(s, e)[i] = s[i]
      BY <1>9, <2>1, <2>2
    <3>4. Append(s, e)[n] = e
      BY <1>9, <2>1, <2>2
    <3>5. \A i \in 1 .. n : i \in 1 .. n - 1 \/ i = n
      BY <2>1
    <3>6. \A i \in 1 .. n : DenseTo(g, n)[i] = Append(s, e)[i]
      BY <3>1, <3>2, <3>3, <3>4, <3>5
    <3>7. QED
      BY <2>2, <3>3, <3>6, SeqEqual
  <2> HIDE DEF s
  <2> DEFINE A == AllBy(c, Begun)
             P == PlainOf(g)
  <2>4. Append(A \o (P \o s), e) = A \o (P \o Append(s, e))
    <3>1. A \in Seq(Elements) /\ P \in Seq(Elements)
      BY <1>2
    <3>2. e \in Elements /\ s \in Seq(Elements)
      BY <1>9, <2>2
    <3> HIDE DEF A, P
    <3>3. JoinsAppend(A, P, s, e)
      BY <3>1, <3>2, JoinAppend, Zenon
    <3>4. QED
      BY <3>3, Zenon DEF JoinsAppend
  <2>5. QED
    BY <1>1, <1>2, <2>3, <2>4 DEF s
<1>11. Ordered(c, delivered', 0)
  <2>1. Gives(c, "NODE", <<e>>)
    <3>1. <<e>> \in Seq(Elements) /\ \A i \in 1 .. Len(<<e>>) : <<e>>[i] = e
      BY <1>9
    <3>2. QED
      BY <1>3, <1>9, <3>1 DEF Gives
  <2>2. Ordered(c, delivered, 0)
    BY <1>3, <1>4, Zenon DEF Ordered
  <2>3. 0 \in 0 .. 2 /\ "NODE" \in TypeSet /\ PHASE("NODE") >= 0
    BY Phases DEF TypeSet
  <2>4. Ordered(c, delivered \o <<e>>, PHASE("NODE"))
    BY <1>4, <2>1, <2>2, <2>3, OrderedJoin
  <2>5. delivered' = delivered \o <<e>>
    BY <1>1, <1>4, <1>9, AppendIsConcat
  <2>6. QED
    BY <2>4, <2>5, Phases
<1>12. IType'
  <2>1. /\ file \in Files /\ callbacks \in CallbackSets /\ blob \in 1 .. Len(file) + 1
        /\ header \in BOOLEAN /\ group \in Nat /\ phase \in 0 .. 2
        /\ pc \in {"blob", "group", "dense"} \cup Ends
    BY DEF IInv, IType, TypeOK
  <2>2. n' \in Nat
    BY <1>1, <1>6
  <2>3. delivered' \in Seq(Elements)
        /\ \A i \in 1 .. Len(delivered') : delivered'[i].type \in c
    BY <1>11 DEF Ordered
  <2>4. TypeOK'
    BY <1>1, <1>8, <2>1, <2>2, <2>3, Zenon DEF TypeOK, c
  <2>5. QED
    BY <1>7, <2>3, <2>4 DEF IType
<1>13. PlaceInv'
  BY <1>1, <1>5 DEF IInv, PlaceInv, InBlock
<1>14. DenseInv'
  <2>1. n' = n + 1 /\ n' \in 1 .. Len(nodes) + 1 /\ n' - 1 = n /\ ~(n' = 1)
    BY <1>1, <1>6
  <2>2. callbacks' = c /\ phase' = 0
    BY <1>1, <1>3 DEF c
  <2>3. WantedBy(callbacks', Group') = PlainOf(Group') \o DenseTo(Group', Len(Group'.dense))
    BY <1>3, <1>5, <2>2
  <2>4. DenseOf(Group'.dense).keys_vals # <<>> =>
          kv0' = Len(ListsBefore(Group'.dense, n')) + 1
    BY <1>5, <1>8, <2>1 DEF kvs
  <2>5. id' = Group'.dense[n' - 1].id
        /\ lat' = LAT_OFFSET + Group'.dense[n' - 1].lat * GRANULARITY
    BY <1>5, <1>7, <2>1
  <2>6. Group'.dense # NoDense /\ "NODE" \in callbacks' /\ n' \in 1 .. Len(Group'.dense) + 1
    BY <1>2, <1>3, <1>5, <2>1, <2>2
  <2>7. QED
    BY <2>1, <2>2, <2>3, <2>4, <2>5, <2>6, Zenon DEF DenseInv
<1>15. (StopInv /\ FailsOnBadBlob)'
  BY <1>1 DEF StopInv, FailsOnBadBlob
<1>16. Begun' = Begun
  BY <1>1 DEF Begun, InBlock
<1>17. DeliveredInv'
  <2>1. Part' = PlainOf(g) \o DenseTo(g, n)
    <3>1. n' - 1 = n
      BY <1>1, <1>6
    <3>2. QED
      BY <1>1, <1>5, <3>1 DEF Part
  <2>2. QED
    BY <1>1, <1>10, <1>16, <2>1 DEF DeliveredInv, c
<1>18. PhaseInv'
  <2>1. InPhases(delivered', phase')
    BY <1>1, <1>3, <1>11 DEF Ordered
  <2>2. phase' = 0
    BY <1>1, <1>3
  <2>3. QED
    BY <2>1, <2>2 DEF PhaseInv
<1>19. QED
  BY <1>12, <1>13, <1>14, <1>15, <1>17, <1>18 DEF IInv

LEMMA EndDenseKeeps ==
  ASSUME IInv, EndDense
  PROVE  IInv'
<1> DEFINE c == callbacks
           g == Group
<1>1. /\ file' = file /\ callbacks' = callbacks /\ blob' = blob /\ group' = group + 1
      /\ header' = header /\ slab_next' = slab_next /\ phase' = phase /\ pc' = "group"
      /\ n' = n /\ id' = id /\ lat' = lat /\ kv0' = kv0 /\ delivered' = delivered
      /\ pc = "dense" /\ n > Len(g.dense)
  BY DEF EndDense, input, dense_state
<1>2. /\ g.dense \in Seq(Nodes) /\ group =< Len(Blob.groups)
      /\ delivered = AllBy(c, Begun) \o (PlainOf(g) \o DenseTo(g, n - 1))
  BY <1>1, DenseStep
<1>3. /\ n \in 1 .. Len(g.dense) + 1 /\ phase = 0
      /\ WantedBy(c, g) = PlainOf(g) \o DenseTo(g, Len(g.dense))
  BY <1>1 DEF IInv, DenseInv
<1>4. n - 1 = Len(g.dense)
  BY <1>1, <1>2, <1>3
<1>5. /\ Begun \in Seq(GroupSet) /\ g \in GroupSet
      /\ BegunAt(file, blob, group + 1) = Append(Begun, g)
      /\ AllBy(c, Append(Begun, g)) = AllBy(c, Begun) \o WantedBy(c, g)
      /\ group + 1 \in 1 .. Len(Blob.groups) + 1
  BY <1>1, <1>2, GroupStep
<1>6. Blob' = Blob
  BY <1>1 DEF Blob
<1> HIDE DEF c, g
<1>7. IType'
  <2>1. group + 1 \in Nat
    BY DEF IInv, IType, TypeOK
  <2>2. QED
    BY <1>1, <2>1, Zenon DEF IInv, IType, TypeOK
<1>8. PlaceInv'
  BY <1>1, <1>5, <1>6 DEF IInv, PlaceInv, InBlock
<1>9. (DenseInv /\ StopInv /\ FailsOnBadBlob)'
  BY <1>1 DEF DenseInv, StopInv, FailsOnBadBlob
<1>10. Begun' = Append(Begun, g)
  BY <1>1, <1>5 DEF Begun, InBlock
<1>11. DeliveredInv'
  <2>1. delivered = AllBy(c, Append(Begun, g))
    BY <1>2, <1>3, <1>4, <1>5
  <2>2. Part' = <<>>
    BY <1>1 DEF Part
  <2>3. delivered \o <<>> = delivered
    <3>1. delivered \in Seq(Elements)
      BY DEF IInv, IType
    <3>2. QED
      BY <3>1, ConcatEmptySeq
  <2>4. QED
    BY <1>1, <1>10, <2>1, <2>2, <2>3 DEF DeliveredInv, c
<1>12. PhaseInv'
  BY <1>1, <1>3 DEF IInv, PhaseInv
<1>13. QED
  BY <1>7, <1>8, <1>9, <1>11, <1>12 DEF IInv

-----------------------------------------------------------------------------
(* The invariant, and what it says by itself.                              *)

LEMMA StepKeeps ==
  ASSUME IInv, [Next]_vars
  PROVE  IInv'
<1>1. CASE UNCHANGED vars
  <2>1. /\ file' = file /\ callbacks' = callbacks /\ blob' = blob /\ group' = group
        /\ header' = header /\ slab_next' = slab_next /\ phase' = phase /\ pc' = pc
        /\ n' = n /\ id' = id /\ lat' = lat /\ kv0' = kv0 /\ delivered' = delivered
    BY <1>1 DEF vars, input, dense_state
  <2>2. Blob' = Blob /\ Group' = Group /\ Begun' = Begun /\ Part' = Part
    BY <2>1 DEF Blob, Group, Begun, Part, InBlock
  <2>3. (IType /\ PlaceInv)'
    BY <2>1, <2>2 DEF IInv, IType, TypeOK, PlaceInv, InBlock
  <2>4. DenseInv'
    BY <2>1, <2>2 DEF IInv, DenseInv
  <2>5. (DeliveredInv /\ PhaseInv)'
    BY <2>1, <2>2 DEF IInv, DeliveredInv, PhaseInv
  <2>6. (StopInv /\ FailsOnBadBlob)'
    <3>1. Exhausted(phase)' <=> Exhausted(phase)
      BY <2>1 DEF Exhausted
    <3>2. QED
      BY <2>1, <2>2, <3>1 DEF IInv, StopInv, FailsOnBadBlob
  <2>7. QED
    BY <2>3, <2>4, <2>5, <2>6 DEF IInv
<1>2. CASE Next
  BY <1>2, ReadHeaderKeeps, SkipBlobKeeps, DieKeeps, ReadNullBlobKeeps,
     WritePastSlabKeeps, OpenBlockKeeps, EndFileKeeps, StopAtGroupKeeps,
     HandleGroupKeeps, HandleDenseNodeKeeps, EndDenseKeeps, EndBlockKeeps, Zenon
     DEF Next
<1>3. QED
  BY <1>1, <1>2

(* The reader keeps its place in the file, the sums of the dense node it   *)
(* is at, and the elements of exactly the groups that it has done.         *)
THEOREM Invariance == Spec => []IInv
<1>1. Init => IInv
  BY InitInv
<1>2. IInv /\ [Next]_vars => IInv'
  BY StepKeeps
<1>3. QED
  BY <1>1, <1>2, PTL DEF Spec

(* Every variable keeps its type, and only elements that have a callback   *)
(* are handed over.                                                        *)
THEOREM TypesHold == Spec => []TypeOK
<1>1. IInv => TypeOK
  BY DEF IInv, IType
<1>2. QED
  BY <1>1, Invariance, PTL

(* The reader fails only on a blob that is bad by itself, not the header   *)
(* it must begin with, or larger than the whole slab: the slab is reset    *)
(* between blobs on every path of pbf_read.                                *)
THEOREM FailsOnlyOnBadBlobs == Spec => []FailsOnBadBlob
<1>1. IInv => FailsOnBadBlob
  BY DEF IInv
<1>2. QED
  BY <1>1, Invariance, PTL

-----------------------------------------------------------------------------
(* What is delivered begins what should be.                                *)

LEMMA BeginsTrans ==
  ASSUME NEW T, NEW s \in Seq(T), NEW t \in Seq(T), NEW u \in Seq(T),
         Begins(s, t), Begins(t, u)
  PROVE  Begins(s, u)
BY DEF Begins

LEMMA BeginsJoin ==
  ASSUME NEW T, NEW s \in Seq(T), NEW t \in Seq(T), NEW u \in Seq(T), Begins(t, u)
  PROVE  Begins(s \o t, s \o u)
BY DEF Begins

LEMMA BeginsAppend ==
  ASSUME NEW T, NEW s \in Seq(T), NEW x \in T, NEW t \in Seq(T), Begins(Append(s, x), t)
  PROVE  Begins(s, t) /\ Len(s) < Len(t) /\ t[Len(s) + 1] = x
<1>1. /\ Len(Append(s, x)) = Len(s) + 1 /\ Append(s, x)[Len(s) + 1] = x
      /\ \A i \in 1 .. Len(s) : Append(s, x)[i] = s[i]
      /\ Len(s) \in Nat /\ Len(t) \in Nat
  OBVIOUS
<1>2. QED
  BY <1>1 DEF Begins

LEMMA BeginsAll ==
  ASSUME NEW T, NEW s \in Seq(T), NEW t \in Seq(T), Begins(s, t), Len(s) = Len(t)
  PROVE  s = t
BY SeqEqual DEF Begins

LEMMA GroupsToBegins ==
  ASSUME NEW f \in Seq(BlobSet), NEW k \in 0 .. Len(f)
  PROVE  GroupsTo(f, k) \in Seq(GroupSet) /\ Begins(GroupsTo(f, k), Groups(f))
<1> DEFINE S == GroupSeqs(f)
<1>1. /\ S \in Seq(Seq(GroupSet)) /\ Len(S) = Len(f) /\ Groups(f) = Concat(S)
  BY GroupSeqsAre
<1>2. GroupsTo(f, k) = Concat(SubSeq(S, 1, k)) /\ GroupsTo(f, k) \in Seq(GroupSet)
  BY GroupsFront
<1> HIDE DEF S
<1>3. Begins(Concat(SubSeq(S, 1, k)), Concat(SubSeq(S, 1, Len(S))))
  <2>1. k \in 0 .. Len(S) /\ Len(S) \in k .. Len(S)
    BY <1>1
  <2>2. QED
    BY <1>1, <2>1, ConcatBegins
<1>4. SubSeq(S, 1, Len(S)) = S
  BY <1>1, FrontAll
<1>5. QED
  BY <1>1, <1>2, <1>3, <1>4, Zenon

\* The groups that are done begin the file's, and the next is the one being handled.
LEMMA BegunBegins ==
  ASSUME IInv
  PROVE  /\ Begun \in Seq(GroupSet) /\ Groups(file) \in Seq(GroupSet)
         /\ Begins(Begun, Groups(file))
         /\ pc \in {"dense", "stopped"} =>
              Len(Begun) < Len(Groups(file)) /\ Groups(file)[Len(Begun) + 1] = Group
         /\ pc = "done" => Begun = Groups(file)
<1>1. file \in Seq(BlobSet) /\ blob \in 1 .. Len(file) + 1
  BY InputIs DEF IInv
<1>2. Groups(file) \in Seq(GroupSet)
  BY <1>1, GroupSeqsAre
<1>3. CASE InBlock /\ group =< Len(Blob.groups)
  <2>1. Group \in GroupSet /\ Begun \in Seq(GroupSet)
        /\ Begins(Append(Begun, Group), Groups(file))
    BY <1>3, GroupStep DEF InBlock
  <2> DEFINE s == Begun
             x == Group
             t == Groups(file)
  <2>2. s \in Seq(GroupSet) /\ x \in GroupSet /\ t \in Seq(GroupSet)
        /\ Begins(Append(s, x), t)
    BY <1>2, <2>1
  <2> HIDE DEF s, x, t
  <2>3. Begins(s, t) /\ Len(s) < Len(t) /\ t[Len(s) + 1] = x
    BY <2>2, BeginsAppend
  <2>4. pc # "done"
    BY <1>3 DEF InBlock
  <2>5. QED
    BY <2>2, <2>3, <2>4 DEF s, x, t
<1>4. CASE InBlock /\ ~(group =< Len(Blob.groups))
  <2>1. blob =< Len(file) /\ GroupsIn(Blob) = Blob.groups
        /\ group \in 1 .. Len(Blob.groups) + 1 /\ pc = "group"
    BY <1>4 DEF IInv, PlaceInv, InBlock
  <2>2. blob \in 1 .. Len(file) /\ Blob \in BlobSet
    BY <1>1, <2>1 DEF Blob
  <2>3. Len(Blob.groups) \in Nat
    <3>1. Blob.groups \in Seq(GroupSet)
      BY <2>2 DEF BlobSet
    <3>2. QED
      BY <3>1
  <2>4. group = Len(file[blob].groups) + 1
    BY <1>4, <2>1, <2>3 DEF Blob
  <2>5. BegunAt(file, blob + 1, 0) = BegunAt(file, blob, group)
    BY <1>1, <2>1, <2>2, <2>4, BegunSteps DEF Blob
  <2>6. BegunAt(file, blob + 1, 0) = GroupsTo(file, blob)
    <3>1. (blob + 1) - 1 = blob
      BY <2>2
    <3>2. QED
      BY <3>1 DEF BegunAt
  <2>7. Begun = GroupsTo(file, blob)
    BY <1>4, <2>5, <2>6 DEF Begun
  <2>8. blob \in 0 .. Len(file)
    BY <2>2
  <2>9. QED
    BY <1>1, <1>2, <2>1, <2>7, <2>8, GroupsToBegins
<1>5. CASE ~InBlock
  <2> DEFINE k == blob - 1
  <2>1. Begun = GroupsTo(file, k) /\ k \in 0 .. Len(file)
    BY <1>1, <1>5 DEF Begun, BegunAt
  <2>2. pc = "done" => k = Len(file)
    BY <1>1 DEF IInv, PlaceInv
  <2> HIDE DEF k
  <2>3. pc = "done" => Begun = Groups(file)
    BY <1>1, <2>1, <2>2, GroupsEnds
  <2>4. Begun \in Seq(GroupSet) /\ Begins(Begun, Groups(file))
    BY <1>1, <2>1, GroupsToBegins
  <2>5. QED
    BY <1>2, <1>5, <2>3, <2>4 DEF InBlock
<1>6. QED
  BY <1>3, <1>4, <1>5

LEMMA DeliveredBegins ==
  ASSUME IInv
  PROVE  /\ delivered \in Seq(Elements) /\ AllBy(callbacks, Groups(file)) \in Seq(Elements)
         /\ Begins(delivered, AllBy(callbacks, Groups(file)))
<1> DEFINE c == callbacks
           gs == Begun
           hs == Groups(file)
           g == Group
<1>1. /\ gs \in Seq(GroupSet) /\ hs \in Seq(GroupSet) /\ Begins(gs, hs)
      /\ pc = "dense" => Len(gs) < Len(hs) /\ hs[Len(gs) + 1] = g
  BY BegunBegins
<1>2. delivered \in Seq(Elements) /\ delivered = AllBy(c, gs) \o Part
  BY DEF IInv, IType, DeliveredInv
<1>3. pc = "dense" =>
        /\ Part = PlainOf(g) \o DenseTo(g, n - 1) /\ n \in 1 .. Len(g.dense) + 1
        /\ WantedBy(c, g) = PlainOf(g) \o DenseTo(g, Len(g.dense))
        /\ g \in GroupSet /\ g.dense \in Seq(Nodes) /\ g.dense # NoDense
        /\ \A k \in 0 .. Len(g.dense) :
             DenseTo(g, k) \in Seq(Elements) /\ Len(DenseTo(g, k)) = k
        /\ PlainOf(g) \in Seq(Elements)
  BY DenseStep DEF IInv, DenseInv, Part
<1>4. pc # "dense" => Part = <<>>
  BY DEF Part
<1> HIDE DEF c, gs, hs, g
<1>5. AllBy(c, gs) \in Seq(Elements) /\ AllBy(c, hs) \in Seq(Elements)
  BY <1>1, EachIs
<1>6. Begins(AllBy(c, gs), AllBy(c, hs))
  BY <1>1, AllBegins
<1>7. CASE pc # "dense"
  <2>1. delivered = AllBy(c, gs)
    BY <1>2, <1>4, <1>5, <1>7, ConcatEmptySeq
  <2>2. QED
    BY <1>5, <1>6, <2>1 DEF c, hs
<1>8. CASE pc = "dense"
  <2> DEFINE A == AllBy(c, gs)
             W == AllBy(c, hs)
             P == PlainOf(g)
             s == DenseTo(g, n - 1)
             u == DenseTo(g, Len(g.dense))
  <2>1. Begins(A \o WantedBy(c, g), W)
    BY <1>1, <1>8, AllBegins
  <2>2. /\ n - 1 \in 0 .. Len(g.dense) /\ Len(g.dense) \in 0 .. Len(g.dense)
    BY <1>3, <1>8
  <2>3. /\ s \in Seq(Elements) /\ Len(s) = n - 1
        /\ u \in Seq(Elements) /\ Len(u) = Len(g.dense)
        /\ P \in Seq(Elements) /\ A \in Seq(Elements) /\ W \in Seq(Elements)
    BY <1>3, <1>5, <1>8, <2>2
  <2>4. Begins(s, u)
    <3>1. \A i \in 1 .. n - 1 : u[i] = s[i]
      BY <2>2 DEF DenseTo
    <3> HIDE DEF s, u
    <3>2. QED
      BY <2>2, <2>3, <3>1 DEF Begins
  <2>5. WantedBy(c, g) = P \o u /\ delivered = A \o (P \o s)
    BY <1>2, <1>3, <1>8
  <2> HIDE DEF A, W, P, s, u
  <2>6. /\ P \o s \in Seq(Elements) /\ P \o u \in Seq(Elements)
        /\ A \o (P \o s) \in Seq(Elements) /\ A \o (P \o u) \in Seq(Elements)
    BY <2>3
  <2>7. Begins(P \o s, P \o u)
    BY <2>3, <2>4, BeginsJoin
  <2>8. Begins(A \o (P \o s), A \o (P \o u))
    BY <2>3, <2>6, <2>7, BeginsJoin
  <2>9. Begins(delivered, W)
    <3>1. Begins(A \o (P \o u), W)
      BY <2>1, <2>5
    <3>2. Begins(A \o (P \o s), W)
      BY <2>3, <2>6, <2>8, <3>1, BeginsTrans
    <3>3. QED
      BY <2>5, <3>2
  <2>10. QED
    BY <1>2, <1>5, <2>9 DEF W, c, hs
<1>9. QED
  BY <1>7, <1>8

LEMMA BeginsIsPrefix ==
  ASSUME NEW T, NEW s \in Seq(T), NEW t \in Seq(T), Begins(s, t)
  PROVE  IsPrefix(s, t)
<1> DEFINE k == Len(s)
<1>1. SubSeq(s, 1, k) \in Seq(T) /\ Len(SubSeq(s, 1, k)) = k
      /\ \A i \in 1 .. k : SubSeq(s, 1, k)[i] = s[i]
  OBVIOUS
<1>2. k \in 0 .. Len(t) /\ \A i \in 1 .. k : t[i] = s[i]
  BY DEF Begins
<1> HIDE DEF k
<1>3. SubSeq(t, 1, k) \in Seq(T) /\ Len(SubSeq(t, 1, k)) = k
      /\ \A i \in 1 .. k : SubSeq(t, 1, k)[i] = t[i]
  BY <1>2, FrontType
<1>4. SubSeq(s, 1, k) = SubSeq(t, 1, k)
  BY <1>1, <1>2, <1>3, SeqEqual
<1>5. QED
  BY <1>2, <1>4 DEF IsPrefix, k

(* What the callbacks receive is a prefix of what the file holds for them, *)
(* each dense node decoded to its own id, latitude and tags, and nodes,    *)
(* ways and relations come in that order, in any file whatever.            *)
THEOREM PrefixDelivered == Spec => []PrefixInOrder
<1>1. ASSUME IInv  PROVE PrefixInOrder
  <2>1. AllWanted(file) = AllBy(callbacks, Groups(file))
    BY WantedSame DEF AllWanted
  <2>2. IsPrefix(delivered, AllWanted(file))
    <3> DEFINE W == AllBy(callbacks, Groups(file))
    <3>1. delivered \in Seq(Elements) /\ W \in Seq(Elements) /\ Begins(delivered, W)
      BY <1>1, DeliveredBegins
    <3> HIDE DEF W
    <3>2. IsPrefix(delivered, W)
      BY <3>1, BeginsIsPrefix
    <3>3. QED
      BY <2>1, <3>2 DEF W
  <2>3. InPhases(delivered, phase)
    BY <1>1, Zenon DEF IInv, PhaseInv
  <2>4. QED
    BY <2>2, <2>3 DEF InPhases, PrefixInOrder
<1>2. QED
  BY <1>1, Invariance, PTL

-----------------------------------------------------------------------------
(* Nothing is missed of a sorted file.                                     *)

LEMMA RestEmpty ==
  ASSUME NEW c, NEW gs \in Seq(GroupSet), NEW hs \in Seq(GroupSet), Begins(gs, hs),
         \A i \in Len(gs) + 1 .. Len(hs) : WantedBy(c, hs[i]) = <<>>
  PROVE  AllBy(c, hs) = AllBy(c, gs)
<1> DEFINE k == Len(gs)
           F == Each(c, hs)
           C(j) == Concat(SubSeq(F, 1, j))
           N == {d \in Nat : k + d =< Len(hs) => C(k + d) = C(k)}
<1>1. F \in Seq(Seq(Elements)) /\ Len(F) = Len(hs) /\ k \in 0 .. Len(F)
      /\ k \in Nat /\ Len(hs) \in Nat
  BY EachIs DEF Begins
<1>2. \A i \in k + 1 .. Len(hs) : F[i] = <<>>
  <2>1. \A i \in k + 1 .. Len(hs) : i \in 1 .. Len(hs)
    BY <1>1
  <2>2. \A i \in 1 .. Len(hs) : F[i] = WantedBy(c, hs[i])
    BY EachIs
  <2>3. QED
    BY <2>1, <2>2
<1>3. AllBy(c, gs) = C(k)
  <2>1. AllBy(c, gs) = Concat(Each(c, gs))
    BY EachIs
  <2>2. Each(c, gs) = SubSeq(F, 1, k)
    BY EachFront
  <2>3. QED
    BY <2>1, <2>2, Zenon
<1>4. AllBy(c, hs) = C(Len(hs))
  <2>1. AllBy(c, hs) = Concat(F)
    BY EachIs
  <2>2. SubSeq(F, 1, Len(F)) = F
    BY <1>1, FrontAll
  <2>3. QED
    BY <1>1, <2>1, <2>2, Zenon
<1> HIDE DEF k, F
<1>5. ASSUME NEW j \in 0 .. Len(F), j < Len(F)
      PROVE  C(j) \in Seq(Elements) /\ C(j + 1) = C(j) \o F[j + 1]
  <2>1. SubSeq(F, 1, j) \in Seq(Seq(Elements))
    BY <1>1, FrontType
  <2>2. Concat(SubSeq(F, 1, j)) \in Seq(Elements)
    BY <2>1, ConcatType
  <2>3. Concat(SubSeq(F, 1, j + 1)) = Concat(SubSeq(F, 1, j)) \o F[j + 1]
    BY <1>1, <1>5, ConcatFront
  <2>4. QED
    BY <2>2, <2>3
<1> HIDE DEF C
<1>6. 0 \in N
  <2>1. k + 0 = k
    BY <1>1
  <2>2. QED
    BY <2>1
<1>7. ASSUME NEW d \in Nat, d \in N  PROVE d + 1 \in N
  <2>1. SUFFICES ASSUME k + (d + 1) =< Len(hs)  PROVE C(k + (d + 1)) = C(k)
    OBVIOUS
  <2> DEFINE j == k + d
  <2>2. /\ j \in 0 .. Len(F) /\ j < Len(F) /\ k + (d + 1) = j + 1 /\ j =< Len(hs)
        /\ j + 1 \in k + 1 .. Len(hs)
    BY <1>1, <2>1
  <2>3. C(j) = C(k)
    BY <1>7, <2>2
  <2> HIDE DEF j
  <2>4. C(j + 1) = C(j) \o <<>> /\ C(j) \in Seq(Elements)
    BY <1>2, <1>5, <2>2
  <2>5. C(j + 1) = C(j)
    BY <2>4, ConcatEmptySeq
  <2>6. QED
    BY <2>2, <2>3, <2>5
<1>8. Nat \subseteq N
  <2> HIDE DEF N
  <2>1. QED
    BY <1>6, <1>7, Joins!InductiveSet
<1>9. C(Len(hs)) = C(k)
  <2>1. Len(hs) - k \in Nat /\ k + (Len(hs) - k) = Len(hs)
    BY <1>1
  <2>2. Len(hs) - k \in N
    BY <1>8, <2>1, Zenon
  <2>3. k + (Len(hs) - k) =< Len(hs) => C(k + (Len(hs) - k)) = C(k)
    BY <2>2
  <2>4. QED
    BY <1>1, <2>1, <2>3
<1>10. QED
  BY <1>3, <1>4, <1>9

\* A group of one type has that type.
LEMMA SingleType ==
  ASSUME NEW g, Cardinality(TypesOf(g)) = 1
  PROVE  \E t \in TypeSet : /\ TypesOf(g) = {t} /\ element_type(g) = PHASE(t)
                            /\ element_type(g) \in 0 .. 2
<1>1. TypesOf(g) # {}
  BY FS_EmptySet
<1>2. PICK t \in TypeSet : TypesOf(g) = {t}
  BY <1>1, OneOrNone
<1>3. element_type(g) = PHASE(t)
  BY <1>2, TypesOfGroup
<1>4. PHASE(t) \in 0 .. 2
  BY Phases DEF TypeSet
<1>5. QED
  BY <1>2, <1>3, <1>4

\* Nothing is wanted of groups of types that have no callback left.
LEMMA NothingWanted ==
  ASSUME NEW g \in GroupSet, Cardinality(TypesOf(g)) = 1, NEW p \in 0 .. 2,
         Exhausted(p), element_type(g) >= p
  PROVE  WantedBy(callbacks, g) = <<>>
<1>1. PICK t \in TypeSet : /\ TypesOf(g) = {t} /\ element_type(g) = PHASE(t)
                           /\ element_type(g) \in 0 .. 2
  BY SingleType
<1>2. t \notin callbacks
  <2>1. PHASE(t) >= p /\ PHASE(t) \in 0 .. 2
        /\ (t = "NODE" \/ t = "WAY" \/ t = "RELATION")
    BY <1>1 DEF TypeSet
  <2>2. \/ p = 1 /\ "WAY" \notin callbacks /\ "RELATION" \notin callbacks
        \/ p = 2 /\ "RELATION" \notin callbacks
    BY Phases DEF Exhausted
  <2>3. t = "NODE" => ~(PHASE(t) >= 1)
    BY Phases
  <2>4. t = "WAY" => ~(PHASE(t) >= 2)
    BY Phases
  <2>5. QED
    BY <2>1, <2>2, <2>3, <2>4
<1>3. Gives(callbacks, t, WantedBy(callbacks, g))
  BY <1>1, GroupGives
<1> DEFINE w == WantedBy(callbacks, g)
<1>4. w \in Seq(Elements) /\ \A i \in 1 .. Len(w) : FALSE
  <2> HIDE DEF w
  <2>1. QED
    BY <1>2, <1>3 DEF Gives, w
<1> HIDE DEF w
<1>5. w = <<>>
  <2>1. Len(w) \in Nat /\ ~(1 \in 1 .. Len(w))
    BY <1>4
  <2>2. Len(w) = 0
    BY <2>1
  <2>3. QED
    BY <1>4, <2>2, EmptySeq
<1>6. QED
  BY <1>5 DEF w

\* The reader stops at a group of a sorted file only when nothing is left.
LEMMA StopsExhausted ==
  ASSUME IInv, pc = "stopped", Sorted(file)
  PROVE  \A i \in Len(Begun) + 1 .. Len(Groups(file)) :
           WantedBy(callbacks, Groups(file)[i]) = <<>>
<1> DEFINE gs == Begun
           hs == Groups(file)
           k == Len(gs)
           g == Group
<1>1. /\ gs \in Seq(GroupSet) /\ hs \in Seq(GroupSet) /\ Begins(gs, hs)
      /\ k < Len(hs) /\ hs[k + 1] = g
  BY BegunBegins
<1>2. /\ \A i \in 1 .. Len(hs) : Cardinality(TypesOf(hs[i])) = 1
      /\ \A i, j \in 1 .. Len(hs) : i < j => element_type(hs[i]) =< element_type(hs[j])
  BY DEF Sorted
<1>3. /\ \/ phase = 0
         \/ \E i \in 1 .. k : element_type(gs[i]) = phase
         \/ phase = element_type(g)
      /\ \/ Cardinality(TypesOf(g)) > 1
         \/ element_type(g) < phase
         \/ element_type(g) = phase /\ Exhausted(phase)
      /\ phase \in 0 .. 2
  BY DEF IInv, PhaseInv, StopInv, IType, TypeOK
<1> HIDE DEF gs, hs, g
<1>4. k \in Nat /\ Len(hs) \in Nat /\ k + 1 \in 1 .. Len(hs)
      /\ \A i \in 1 .. k : i \in 1 .. Len(hs) /\ i < k + 1 /\ hs[i] = gs[i]
  BY <1>1 DEF Begins
<1> HIDE DEF k
<1>5. Cardinality(TypesOf(g)) = 1
  BY <1>1, <1>2, <1>4
<1>6. element_type(g) \in 0 .. 2
  BY <1>5, SingleType
<1>7. element_type(g) >= phase
  <2>1. CASE phase = 0
    BY <1>6, <2>1
  <2>2. CASE phase = element_type(g)
    BY <1>6, <2>2
  <2>3. ASSUME NEW i \in 1 .. k, element_type(gs[i]) = phase
        PROVE  element_type(g) >= phase
    <3>1. element_type(hs[i]) =< element_type(hs[k + 1]) /\ hs[i] = gs[i]
      BY <1>2, <1>4
    <3>2. phase =< element_type(g)
      BY <1>1, <2>3, <3>1
    <3>3. QED
      BY <1>3, <1>6, <3>2
  <2>4. QED
    BY <1>3, <2>1, <2>2, <2>3
<1>8. element_type(g) = phase /\ Exhausted(phase)
  BY <1>3, <1>5, <1>6, <1>7
<1>9. ASSUME NEW i \in k + 1 .. Len(hs)  PROVE WantedBy(callbacks, hs[i]) = <<>>
  <2>1. i \in 1 .. Len(hs) /\ (i = k + 1 \/ k + 1 < i)
    BY <1>4
  <2>2. hs[i] \in GroupSet /\ Cardinality(TypesOf(hs[i])) = 1
    BY <1>1, <1>2, <2>1
  <2>3. element_type(hs[i]) \in 0 .. 2
    BY <2>2, SingleType
  <2>4. element_type(hs[k + 1]) =< element_type(hs[i])
    <3>1. CASE i = k + 1
      BY <2>3, <3>1
    <3>2. CASE k + 1 < i
      BY <1>2, <1>4, <2>1, <3>2
    <3>3. QED
      BY <2>1, <3>1, <3>2
  <2>5. element_type(hs[i]) >= phase
    BY <1>1, <1>3, <1>8, <2>3, <2>4
  <2>6. QED
    BY <1>3, <1>8, <2>2, <2>5, NothingWanted
<1>10. QED
  BY <1>9 DEF k, gs, hs

(* When the reader returns, whether it read to the end or stopped early to *)
(* save time, the callbacks have been given everything that a sorted file  *)
(* holds for them (pbf-read.c, enforce_ordering).                          *)
THEOREM NothingIsMissed == Spec => []NothingMissed
<1>1. ASSUME IInv  PROVE NothingMissed
  <2>1. SUFFICES ASSUME pc \in {"done", "stopped"}, Sorted(file)
                 PROVE  delivered = AllWanted(file)
    BY DEF NothingMissed
  <2>2. AllWanted(file) = AllBy(callbacks, Groups(file))
    BY WantedSame DEF AllWanted
  <2>3. /\ Begun \in Seq(GroupSet) /\ Groups(file) \in Seq(GroupSet)
        /\ Begins(Begun, Groups(file))
        /\ pc = "done" => Begun = Groups(file)
    BY <1>1, BegunBegins
  <2>4. AllBy(callbacks, Groups(file)) = AllBy(callbacks, Begun)
    <3>1. CASE pc = "done"
      BY <2>3, <3>1
    <3>2. CASE pc = "stopped"
      <4>1. \A i \in Len(Begun) + 1 .. Len(Groups(file)) :
              WantedBy(callbacks, Groups(file)[i]) = <<>>
        BY <1>1, <2>1, <3>2, StopsExhausted
      <4> DEFINE gs == Begun
                 hs == Groups(file)
                 c == callbacks
      <4>2. gs \in Seq(GroupSet) /\ hs \in Seq(GroupSet) /\ Begins(gs, hs)
            /\ \A i \in Len(gs) + 1 .. Len(hs) : WantedBy(c, hs[i]) = <<>>
        BY <2>3, <4>1
      <4> HIDE DEF gs, hs, c
      <4>3. AllBy(c, hs) = AllBy(c, gs)
        BY <4>2, RestEmpty
      <4>4. QED
        BY <4>3 DEF gs, hs, c
    <3>3. QED
      BY <2>1, <3>1, <3>2
  <2>5. delivered = AllBy(callbacks, Begun) \o <<>>
    BY <1>1, <2>1 DEF IInv, DeliveredInv, Part
  <2>6. AllBy(callbacks, Begun) \in Seq(Elements)
    BY <2>3, EachIs
  <2>7. QED
    BY <2>2, <2>4, <2>5, <2>6, ConcatEmptySeq
<1>2. QED
  BY <1>1, Invariance, PTL
====
