------------------------- MODULE PbfWriteProofs ---------------------------
(***************************************************************************)
(* The PBF writer for every extract, block size and room for tags: what    *)
(* is in the file and in the buffers decodes to what was given.            *)
(***************************************************************************)
EXTENDS PbfWrite, SequenceTheorems, TLAPS

\* The folds of the model, each with the induction of SeqFold.
Strings  == INSTANCE SeqFold WITH op <- Dedup_dedup
TagPairs == INSTANCE SeqFold WITH op <- DedupTag
Sums     == INSTANCE SeqFold WITH op <- AddDelta
Counts   == INSTANCE SeqFold WITH op <- AddTags
Joined   == INSTANCE SeqFold WITH op <- AddElements

LEMMA FoldsAre ==
  /\ \A t, list : FoldLeft(Dedup_dedup, t, list) = Strings!Fold(t, list)
  /\ \A t, list : FoldLeft(DedupTag, t, list) = TagPairs!Fold(t, list)
  /\ \A n, list : FoldLeft(AddDelta, n, list) = Sums!Fold(n, list)
  /\ \A n, list : FoldLeft(AddTags, n, list) = Counts!Fold(n, list)
  /\ \A es, list : FoldLeft(AddElements, es, list) = Joined!Fold(es, list)
<1>1. \A t, list : FoldLeft(Dedup_dedup, t, list) = Strings!Fold(t, list)
  BY DEF Strings!Fold, Strings!Folds, FoldLeft, MapThenFoldSet,
         Max, Strings!Max
<1>2. \A t, list : FoldLeft(DedupTag, t, list) = TagPairs!Fold(t, list)
  BY DEF TagPairs!Fold, TagPairs!Folds, FoldLeft, MapThenFoldSet,
         Max, TagPairs!Max
<1>3. \A n, list : FoldLeft(AddDelta, n, list) = Sums!Fold(n, list)
  BY DEF Sums!Fold, Sums!Folds, FoldLeft, MapThenFoldSet,
         Max, Sums!Max
<1>4. \A n, list : FoldLeft(AddTags, n, list) = Counts!Fold(n, list)
  BY DEF Counts!Fold, Counts!Folds, FoldLeft, MapThenFoldSet,
         Max, Counts!Max
<1>5. \A es, list : FoldLeft(AddElements, es, list) = Joined!Fold(es, list)
  BY DEF Joined!Fold, Joined!Folds, FoldLeft, MapThenFoldSet,
         Max, Joined!Max
<1>6. QED
  BY <1>1, <1>2, <1>3, <1>4, <1>5

-----------------------------------------------------------------------------
(* The string table.                                                       *)

\* A name of its own, left unexpanded: the solver does not take STRING for a set.
Text == STRING

Extends(t, u) == Len(t) =< Len(u) /\ \A i \in 1 .. Len(t) : u[i] = t[i]
Has(t, s) == \E i \in 1 .. Len(t) : t[i] = s

\* k is the index of s.
Names(t, k, s) == k \in 0 .. Len(t) - 1 /\ t[k + 1] = s

LEMMA InTable ==
  ASSUME NEW t \in Seq(Text), NEW s
  PROVE  s \in ToSet(t) <=> Has(t, s)
BY DEF ToSet, Has

LEMMA DedupGrows ==
  ASSUME NEW t \in Seq(Text), NEW s \in Text
  PROVE  /\ Dedup_dedup(t, s) \in Seq(Text)
         /\ Extends(t, Dedup_dedup(t, s))
         /\ Has(Dedup_dedup(t, s), s)
<1>1. CASE s \in ToSet(t)
  <2>1. Dedup_dedup(t, s) = t
    BY <1>1, Zenon DEF Dedup_dedup
  <2>2. QED
    BY <1>1, <2>1, InTable DEF Extends
<1>2. CASE s \notin ToSet(t)
  <2>1. Dedup_dedup(t, s) = Append(t, s)
    BY <1>2, Zenon DEF Dedup_dedup
  <2>2. Append(t, s)[Len(t) + 1] = s /\ Len(t) + 1 \in 1 .. Len(Append(t, s))
    OBVIOUS
  <2>3. Has(Append(t, s), s)
    BY <2>2 DEF Has
  <2>4. QED
    BY <2>1, <2>3 DEF Extends
<1>3. QED
  BY <1>1, <1>2

LEMMA StillHas ==
  ASSUME NEW t \in Seq(Text), NEW u \in Seq(Text), Extends(t, u), NEW s, Has(t, s)
  PROVE  Has(u, s)
BY DEF Extends, Has

LEMMA ExtendsFurther ==
  ASSUME NEW t \in Seq(Text), NEW u \in Seq(Text), NEW v \in Seq(Text),
         Extends(t, u), Extends(u, v)
  PROVE  Extends(t, v)
BY DEF Extends

LEMMA DedupAll ==
  ASSUME NEW t \in Seq(Text), NEW list \in Seq(Text)
  PROVE  LET u == FoldLeft(Dedup_dedup, t, list)
         IN  /\ u \in Seq(Text) /\ Extends(t, u)
             /\ \A i \in 1 .. Len(list) : Has(u, list[i])
<1> DEFINE Q(s, u) == /\ u \in Seq(Text) /\ Extends(t, u)
                      /\ \A i \in 1 .. Len(s) : Has(u, s[i])
           P == {p \in Seq(Text) \X Seq(Text) : Q(p[1], p[2])}
<1>1. <<<<>>, t>> \in P
  <2>1. Q(<<>>, t)
    BY DEF Extends
  <2> HIDE DEF Q
  <2>2. <<>> \in Seq(Text)
    OBVIOUS
  <2>3. <<<<>>, t>> \in Seq(Text) \X Seq(Text)
    BY <2>2
  <2>4. QED
    BY <2>1, <2>3
<1>2. ASSUME NEW s \in Seq(Text), NEW x \in Text, <<s, Strings!Fold(t, s)>> \in P
      PROVE  <<Append(s, x), Dedup_dedup(Strings!Fold(t, s), x)>> \in P
  <2> DEFINE u == Strings!Fold(t, s)
             v == Dedup_dedup(u, x)
  <2>1. u \in Seq(Text) /\ Extends(t, u) /\ \A i \in 1 .. Len(s) : Has(u, s[i])
    BY <1>2
  <2> HIDE DEF u
  <2>2. v \in Seq(Text) /\ Extends(u, v) /\ Has(v, x)
    BY <2>1, DedupGrows
  <2> HIDE DEF v
  <2>3. Extends(t, v)
    BY <2>1, <2>2, ExtendsFurther
  <2>4. \A i \in 1 .. Len(s) : Has(v, s[i])
    BY <2>1, <2>2, StillHas
  <2>5. \A i \in 1 .. Len(Append(s, x)) : Has(v, Append(s, x)[i])
    <3>1. \A i \in 1 .. Len(Append(s, x)) :
            \/ i \in 1 .. Len(s) /\ Append(s, x)[i] = s[i]
            \/ Append(s, x)[i] = x
      OBVIOUS
    <3>2. QED
      BY <2>2, <2>4, <3>1, Zenon
  <2>6. Q(Append(s, x), v)
    BY <2>2, <2>3, <2>5
  <2> HIDE DEF Q
  <2>7. Append(s, x) \in Seq(Text)
    OBVIOUS
  <2>8. <<Append(s, x), v>> \in P
    BY <2>2, <2>6, <2>7
  <2>9. QED
    BY <2>8 DEF v, u
<1> HIDE DEF P
<1>3. <<list, Strings!Fold(t, list)>> \in P
  BY <1>1, <1>2, Strings!FoldInduction
<1>4. Strings!Fold(t, list) = FoldLeft(Dedup_dedup, t, list)
  BY FoldsAre
<1>5. QED
  BY <1>3, <1>4 DEF P

LEMMA DedupTags ==
  ASSUME NEW t \in Seq(Text), NEW list \in Seq(Text \X Text)
  PROVE  LET u == FoldLeft(DedupTag, t, list)
         IN  /\ u \in Seq(Text) /\ Extends(t, u)
             /\ \A i \in 1 .. Len(list) : Has(u, list[i][1]) /\ Has(u, list[i][2])
<1> DEFINE Q(s, u) == /\ u \in Seq(Text) /\ Extends(t, u)
                      /\ \A i \in 1 .. Len(s) : Has(u, s[i][1]) /\ Has(u, s[i][2])
           P == {p \in Seq(Text \X Text) \X Seq(Text) : Q(p[1], p[2])}
<1>1. <<<<>>, t>> \in P
  <2>1. Q(<<>>, t)
    BY DEF Extends
  <2> HIDE DEF Q
  <2>2. <<>> \in Seq(Text \X Text)
    OBVIOUS
  <2>3. <<<<>>, t>> \in Seq(Text \X Text) \X Seq(Text)
    BY <2>2
  <2>4. QED
    BY <2>1, <2>3
<1>2. ASSUME NEW s \in Seq(Text \X Text), NEW x \in Text \X Text,
             <<s, TagPairs!Fold(t, s)>> \in P
      PROVE  <<Append(s, x), DedupTag(TagPairs!Fold(t, s), x)>> \in P
  <2> DEFINE u == TagPairs!Fold(t, s)
             w == Dedup_dedup(u, x[1])
             v == Dedup_dedup(w, x[2])
  <2>1. /\ u \in Seq(Text) /\ Extends(t, u)
        /\ \A i \in 1 .. Len(s) : Has(u, s[i][1]) /\ Has(u, s[i][2])
    BY <1>2
  <2> HIDE DEF u
  <2>2. w \in Seq(Text) /\ Extends(u, w) /\ Has(w, x[1])
    BY <2>1, DedupGrows
  <2> HIDE DEF w
  <2>3. v \in Seq(Text) /\ Extends(w, v) /\ Has(v, x[2])
    BY <2>2, DedupGrows
  <2>4. DedupTag(u, x) = v
    BY DEF DedupTag, w
  <2> HIDE DEF v
  <2>5. Extends(u, v) /\ Extends(t, v)
    BY <2>1, <2>2, <2>3, ExtendsFurther
  <2>6. \A i \in 1 .. Len(s) : Has(v, s[i][1]) /\ Has(v, s[i][2])
    BY <2>1, <2>3, <2>5, StillHas
  <2>7. Has(v, x[1])
    BY <2>2, <2>3, StillHas
  <2>8. \A i \in 1 .. Len(Append(s, x)) :
          Has(v, Append(s, x)[i][1]) /\ Has(v, Append(s, x)[i][2])
    <3>1. \A i \in 1 .. Len(Append(s, x)) :
            \/ i \in 1 .. Len(s) /\ Append(s, x)[i] = s[i]
            \/ Append(s, x)[i] = x
      OBVIOUS
    <3>2. QED
      BY <2>3, <2>6, <2>7, <3>1, Zenon
  <2>9. Q(Append(s, x), v)
    BY <2>3, <2>5, <2>8
  <2> HIDE DEF Q
  <2>10. Append(s, x) \in Seq(Text \X Text)
    OBVIOUS
  <2>11. <<Append(s, x), v>> \in P
    BY <2>3, <2>9, <2>10
  <2>12. QED
    BY <2>4, <2>11 DEF u
<1> HIDE DEF P
<1>3. <<list, TagPairs!Fold(t, list)>> \in P
  BY <1>1, <1>2, TagPairs!FoldInduction
<1>4. TagPairs!Fold(t, list) = FoldLeft(DedupTag, t, list)
  BY FoldsAre
<1>5. QED
  BY <1>3, <1>4 DEF P

\* The strings of an element are in the table once it is buffered, and those
\* that were there keep their indexes.
LEMMA DedupedHas ==
  ASSUME NEW t \in Seq(Text), NEW e \in Element
  PROVE  /\ Deduped(t, e) \in Seq(Text) /\ Extends(t, Deduped(t, e))
         /\ \A i \in 1 .. Len(e.roles) : Has(Deduped(t, e), e.roles[i])
         /\ \A i \in 1 .. Len(e.tags) :
              Has(Deduped(t, e), e.tags[i][1]) /\ Has(Deduped(t, e), e.tags[i][2])
<1> DEFINE u == FoldLeft(Dedup_dedup, t, e.roles)
           v == FoldLeft(DedupTag, u, e.tags)
<1>1. e.roles \in Seq(Text) /\ e.tags \in Seq(Text \X Text)
  BY DEF Element, Text
<1>2. u \in Seq(Text) /\ Extends(t, u) /\ \A i \in 1 .. Len(e.roles) : Has(u, e.roles[i])
  BY <1>1, DedupAll
<1> HIDE DEF u
<1>3. /\ v \in Seq(Text) /\ Extends(u, v)
      /\ \A i \in 1 .. Len(e.tags) : Has(v, e.tags[i][1]) /\ Has(v, e.tags[i][2])
  BY <1>1, <1>2, DedupTags
<1>4. Deduped(t, e) = v
  BY DEF Deduped, u
<1> HIDE DEF v
<1>5. QED
  BY <1>2, <1>3, <1>4, StillHas, ExtendsFurther

LEMMA IndexNames ==
  ASSUME NEW t \in Seq(Text), NEW s, Has(t, s)
  PROVE  Names(t, IndexOf(t, s), s)
<1> DEFINE i == CHOOSE j \in 1 .. Len(t) : t[j] = s
<1>1. i \in 1 .. Len(t) /\ t[i] = s
  BY DEF Has
<1>2. IndexOf(t, s) = i - 1
  BY DEF IndexOf
<1> HIDE DEF i
<1>3. QED
  BY <1>1, <1>2 DEF Names

LEMMA StillNames ==
  ASSUME NEW t \in Seq(Text), NEW u \in Seq(Text), Extends(t, u), NEW k, NEW s, Names(t, k, s)
  PROVE  Names(u, k, s)
BY DEF Extends, Names

-----------------------------------------------------------------------------
(* Delta coding.                                                           *)

LEMMA DeltasAre ==
  ASSUME NEW ids \in Seq(Int)
  PROVE  /\ Deltas(ids) \in Seq(Int) /\ Len(Deltas(ids)) = Len(ids)
         /\ \A i \in 1 .. Len(ids) :
              Deltas(ids)[i] = Abs(ids[i]) - IF i = 1 THEN 0 ELSE Abs(ids[i - 1])
         /\ \A i \in 1 .. Len(ids) : Abs(ids[i]) \in Int
<1>1. \A i \in 1 .. Len(ids) : Abs(ids[i]) \in Int
  BY DEF Abs
<1>2. QED
  BY <1>1 DEF Deltas

\* The sum of the first deltas is the id.
LEMMA DeltasSum ==
  ASSUME NEW ids \in Seq(Int)
  PROVE  \A i \in 1 .. Len(ids) :
           FoldLeft(AddDelta, 0, SubSeq(Deltas(ids), 1, i)) = Abs(ids[i])
<1> DEFINE d == Deltas(ids)
           F(n) == Sums!Fold(0, SubSeq(d, 1, n))
           S == {n \in Nat : n \in 1 .. Len(ids) => F(n) = Abs(ids[n])}
<1>1. /\ d \in Seq(Int) /\ Len(d) = Len(ids)
      /\ \A i \in 1 .. Len(ids) : d[i] = Abs(ids[i]) - IF i = 1 THEN 0 ELSE Abs(ids[i - 1])
      /\ \A i \in 1 .. Len(ids) : Abs(ids[i]) \in Int
  BY DeltasAre
<1> HIDE DEF d
<1>2. F(0) = 0
  <2>1. SubSeq(d, 1, 0) = <<>>
    BY SubSeqEmpty
  <2>2. QED
    BY <2>1, Sums!FoldEmpty
<1>3. ASSUME NEW n \in Nat, n + 1 \in 1 .. Len(ids)
      PROVE  F(n + 1) = F(n) + d[n + 1]
  <2> DEFINE s == SubSeq(d, 1, n)
  <2>1. s \in Seq(Int) /\ d[n + 1] \in Int
    BY <1>1, <1>3
  <2>2. SubSeq(d, 1, n + 1) = Append(s, d[n + 1])
    BY <1>1, <1>3
  <2> HIDE DEF s
  <2>3. Sums!Fold(0, Append(s, d[n + 1])) = AddDelta(Sums!Fold(0, s), d[n + 1])
    BY <2>1, Sums!FoldAppend
  <2>4. QED
    BY <2>2, <2>3 DEF AddDelta, s
<1> HIDE DEF F
<1>4. 0 \in S
  OBVIOUS
<1>5. ASSUME NEW n \in Nat, n \in S  PROVE n + 1 \in S
  <2> SUFFICES ASSUME n + 1 \in 1 .. Len(ids)  PROVE F(n + 1) = Abs(ids[n + 1])
    OBVIOUS
  <2>1. F(n + 1) = F(n) + d[n + 1]
    BY <1>3
  <2>2. CASE n = 0
    BY <1>1, <1>2, <2>1, <2>2
  <2>3. CASE n # 0
    <3>1. F(n) = Abs(ids[n]) /\ Abs(ids[n]) \in Int /\ Abs(ids[n + 1]) \in Int
      BY <1>1, <1>5, <2>3
    <3>2. d[n + 1] = Abs(ids[n + 1]) - Abs(ids[n])
      <4> DEFINE j == n + 1
      <4>1. j # 1 /\ j - 1 = n /\ j \in 1 .. Len(ids)
        BY <2>3
      <4>2. \A i \in 1 .. Len(ids) : i # 1 => d[i] = Abs(ids[i]) - Abs(ids[i - 1])
        BY <1>1, Zenon
      <4> HIDE DEF j
      <4>3. d[j] = Abs(ids[j]) - Abs(ids[j - 1])
        BY <4>1, <4>2, Zenon
      <4>4. QED
        BY <4>1, <4>3, Zenon DEF j
    <3>3. QED
      BY <2>1, <3>1, <3>2
  <2>4. QED
    BY <2>2, <2>3
<1> HIDE DEF S
<1>6. Nat \subseteq S
  BY <1>4, <1>5, Sums!InductiveSet
<1>7. \A i \in 1 .. Len(ids) : F(i) = Abs(ids[i])
  BY <1>6 DEF S
<1>8. \A i \in 1 .. Len(ids) : F(i) = FoldLeft(AddDelta, 0, SubSeq(d, 1, i))
  BY FoldsAre DEF F
<1>9. QED
  BY <1>7, <1>8 DEF d

-----------------------------------------------------------------------------
(* Elements and what stands for them in a block.                           *)

LEMMA Kinds ==
  /\ Types = {"NODE", "WAY", "RELATION"}
  /\ Stages[1] = "NODE" /\ Stages[2] = "WAY" /\ Stages[3] = "RELATION"
  /\ StageOf("NODE") = 1 /\ StageOf("WAY") = 2 /\ StageOf("RELATION") = 3
<1>1. Stages[1] = "NODE" /\ Stages[2] = "WAY" /\ Stages[3] = "RELATION"
  BY DEF Stages
<1>2. Types = {"NODE", "WAY", "RELATION"}
  <2>1. DOMAIN Stages = {1, 2, 3}
    BY DEF Stages
  <2>2. QED
    BY <1>1, <2>1 DEF Types, ToSet
<1>3. \A s \in 1 .. 3 : s = 1 \/ s = 2 \/ s = 3
  OBVIOUS
<1>4. QED
  BY <1>1, <1>2, <1>3 DEF StageOf

LEMMA StagesAreKinds ==
  /\ \A s \in 1 .. 3 : Stages[s] \in Types /\ StageOf(Stages[s]) = s
  /\ \A y \in Types : StageOf(y) \in 1 .. 3 /\ Stages[StageOf(y)] = y
<1>1. \A s \in 1 .. 3 : s = 1 \/ s = 2 \/ s = 3
  OBVIOUS
<1>2. QED
  BY <1>1, Kinds

LEMMA OtherKinds ==
  ASSUME NEW s \in 1 .. 3, NEW y \in Types, y # Stages[s]
  PROVE  StageOf(y) # s
BY StagesAreKinds

Item == [id : Int, n : Nat, keys : Nat, vals : Nat, roles : Seq(Nat), ids : Seq(Int),
         array : Nat]
Coded == [id : Int, keys : Seq(Nat), vals : Seq(Nat), ids : Seq(Int), roles : Seq(Nat)]
DataBlob == [elements : [Types -> Seq(Coded)], strings : Seq(Text)]

LEMMA ElementIs ==
  ASSUME NEW e \in Element
  PROVE  /\ e.type \in Types /\ e.id \in Int /\ e.tags \in Seq(Text \X Text)
         /\ e.ids \in Seq(Int) /\ e.roles \in Seq(Text)
         /\ e = [type |-> e.type, id |-> e.id, tags |-> e.tags, ids |-> e.ids,
                 roles |-> e.roles]
BY DEF Element, Text

\* b stands for e: its indexes, those in kv_buff included, name the strings of e.
\* What b has in kv_buff lies below top.
Holds(b, e, kvs, t, top) ==
  /\ b.id = e.id /\ b.n = Len(e.tags) /\ b.ids = Deltas(e.ids)
  /\ Len(b.roles) = Len(e.roles)
  /\ \A i \in 1 .. Len(e.roles) : Names(t, b.roles[i], e.roles[i])
  /\ b.keys + b.n =< top /\ b.vals + b.n =< top
  /\ \A i \in 1 .. Len(e.tags) : /\ Names(t, kvs[b.keys + i - 1], e.tags[i][1])
                                 /\ Names(t, kvs[b.vals + i - 1], e.tags[i][2])

\* It still does when kv_buff and the table are filled on.
LEMMA StillHolds ==
  ASSUME NEW b \in Item, NEW e \in Element, NEW kvs, NEW kvs2,
         NEW t \in Seq(Text), NEW u \in Seq(Text), NEW top \in Nat, NEW top2 \in Nat,
         Holds(b, e, kvs, t, top), Extends(t, u), top =< top2,
         \A i \in 0 .. top - 1 : kvs2[i] = kvs[i]
  PROVE  Holds(b, e, kvs2, u, top2)
<1>1. b.n \in Nat /\ b.keys \in Nat /\ b.vals \in Nat /\ b.n = Len(e.tags)
  BY DEF Item, Holds
<1>2. b.keys + b.n =< top2 /\ b.vals + b.n =< top2
  BY <1>1 DEF Holds
<1>3. \A i \in 1 .. Len(e.tags) : /\ kvs2[b.keys + i - 1] = kvs[b.keys + i - 1]
                                  /\ kvs2[b.vals + i - 1] = kvs[b.vals + i - 1]
  <2>1. \A i \in 1 .. Len(e.tags) : /\ b.keys + i - 1 \in 0 .. top - 1
                                    /\ b.vals + i - 1 \in 0 .. top - 1
    <3>1. b.keys + b.n =< top /\ b.vals + b.n =< top
      BY DEF Holds
    <3>2. QED
      BY <1>1, <3>1
  <2>2. QED
    BY <2>1
<1>4. \A i \in 1 .. Len(e.tags) : /\ Names(u, kvs2[b.keys + i - 1], e.tags[i][1])
                                  /\ Names(u, kvs2[b.vals + i - 1], e.tags[i][2])
  BY <1>3, StillNames, Zenon DEF Holds
<1>5. \A i \in 1 .. Len(e.roles) : Names(u, b.roles[i], e.roles[i])
  BY StillNames, Zenon DEF Holds
<1>6. QED
  BY <1>2, <1>4, <1>5, Zenon DEF Holds

LEMMA PackedIs ==
  ASSUME NEW b \in Item, NEW e \in Element, NEW kvs, NEW t, NEW top,
         Holds(b, e, kvs, t, top)
  PROVE  /\ Packed(b, kvs) \in Coded
         /\ Len(Packed(b, kvs).keys) = Len(e.tags)
         /\ \A i \in 1 .. Len(e.tags) : /\ Packed(b, kvs).keys[i] = kvs[b.keys + i - 1]
                                        /\ Packed(b, kvs).vals[i] = kvs[b.vals + i - 1]
         /\ Packed(b, kvs).id = e.id /\ Packed(b, kvs).ids = Deltas(e.ids)
         /\ Packed(b, kvs).roles = b.roles
<1> DEFINE k == [i \in 1 .. b.n |-> kvs[b.keys + i - 1]]
           v == [i \in 1 .. b.n |-> kvs[b.vals + i - 1]]
<1>1. /\ b.n \in Nat /\ b.n = Len(e.tags) /\ b.id = e.id /\ b.ids = Deltas(e.ids)
      /\ b.id \in Int /\ b.ids \in Seq(Int) /\ b.roles \in Seq(Nat)
  BY DEF Item, Holds
<1>2. \A i \in 1 .. b.n : kvs[b.keys + i - 1] \in Nat /\ kvs[b.vals + i - 1] \in Nat
  BY <1>1 DEF Holds, Names
<1>3. /\ k \in Seq(Nat) /\ Len(k) = b.n
      /\ v \in Seq(Nat)
      /\ \A i \in 1 .. b.n : k[i] = kvs[b.keys + i - 1] /\ v[i] = kvs[b.vals + i - 1]
  BY <1>1, <1>2
<1>4. Packed(b, kvs) = [id |-> b.id, keys |-> k, vals |-> v, ids |-> b.ids, roles |-> b.roles]
  BY DEF Packed
<1> HIDE DEF k, v
<1>5. QED
  BY <1>1, <1>3, <1>4 DEF Coded

LEMMA GivenIs ==
  ASSUME NEW e \in Element
  PROVE  Given(e) = [type |-> e.type, id |-> e.id,
                     ids |-> [i \in 1 .. Len(e.ids) |-> Abs(e.ids[i])],
                     tags |-> e.tags, roles |-> e.roles]
<1> DEFINE a == [i \in 1 .. Len(e.ids) |-> Abs(e.ids[i])]
<1>1. Given(e) = [e EXCEPT !.ids = a]
  BY DEF Given
<1> HIDE DEF a
<1>2. [e EXCEPT !.ids = a] = [type |-> e.type, id |-> e.id, ids |-> a, tags |-> e.tags,
                              roles |-> e.roles]
  <2> DEFINE r == [type |-> e.type, id |-> e.id, tags |-> e.tags, ids |-> e.ids,
                   roles |-> e.roles]
  <2>1. e = r
    BY ElementIs
  <2>2. [r EXCEPT !.ids = a] = [type |-> e.type, id |-> e.id, ids |-> a, tags |-> e.tags,
                                roles |-> e.roles]
    OBVIOUS
  <2> HIDE DEF r
  <2>3. [e EXCEPT !.ids = a] = [r EXCEPT !.ids = a]
    BY <2>1
  <2>4. QED
    BY <2>2, <2>3
<1>3. QED
  BY <1>1, <1>2 DEF a

\* What stands for an element decodes to it.
LEMMA DecodedIs ==
  ASSUME NEW b \in Item, NEW e \in Element, NEW kvs, NEW t \in Seq(Text), NEW top,
         Holds(b, e, kvs, t, top)
  PROVE  Decoded(e.type, Packed(b, kvs), t) = Given(e)
<1> DEFINE p == Packed(b, kvs)
           ids == [i \in 1 .. Len(p.ids) |-> FoldLeft(AddDelta, 0, SubSeq(p.ids, 1, i))]
           tags == [i \in 1 .. Len(p.keys) |-> <<t[p.keys[i] + 1], t[p.vals[i] + 1]>>]
           roles == [i \in 1 .. Len(p.roles) |-> t[p.roles[i] + 1]]
<1>1. Decoded(e.type, p, t) =
        [type |-> e.type, id |-> p.id, ids |-> ids, tags |-> tags, roles |-> roles]
  BY DEF Decoded
<1> HIDE DEF p
<1>2. ids = [i \in 1 .. Len(e.ids) |-> Abs(e.ids[i])]
  <2>1. e.ids \in Seq(Int)
    BY ElementIs
  <2>2. p.ids = Deltas(e.ids)
    BY PackedIs DEF p
  <2>3. Len(p.ids) = Len(e.ids)
    BY <2>1, <2>2, DeltasAre
  <2>4. \A i \in 1 .. Len(e.ids) :
          FoldLeft(AddDelta, 0, SubSeq(p.ids, 1, i)) = Abs(e.ids[i])
    BY <2>1, <2>2, DeltasSum
  <2>5. QED
    BY <2>3, <2>4
<1>3. tags = e.tags
  <2>1. e.tags \in Seq(Text \X Text)
    BY ElementIs
  <2>2. /\ Len(p.keys) = Len(e.tags)
        /\ \A i \in 1 .. Len(e.tags) : /\ p.keys[i] = kvs[b.keys + i - 1]
                                       /\ p.vals[i] = kvs[b.vals + i - 1]
    BY PackedIs DEF p
  <2>3. \A i \in 1 .. Len(e.tags) : /\ t[p.keys[i] + 1] = e.tags[i][1]
                                    /\ t[p.vals[i] + 1] = e.tags[i][2]
    BY <2>2 DEF Holds, Names
  <2>4. \A i \in 1 .. Len(e.tags) : e.tags[i] = <<e.tags[i][1], e.tags[i][2]>>
    BY <2>1
  <2>5. \A i \in 1 .. Len(e.tags) : <<t[p.keys[i] + 1], t[p.vals[i] + 1]>> = e.tags[i]
    BY <2>3, <2>4
  <2>6. e.tags = [i \in 1 .. Len(e.tags) |-> e.tags[i]]
    BY <2>1
  <2>7. tags = [i \in 1 .. Len(e.tags) |-> e.tags[i]]
    BY <2>2, <2>5
  <2> HIDE DEF tags
  <2>8. QED
    BY <2>6, <2>7
<1>4. roles = e.roles
  <2>1. e.roles \in Seq(Text)
    BY ElementIs
  <2>2. p.roles = b.roles
    BY PackedIs DEF p
  <2>3. Len(p.roles) = Len(e.roles)
    BY <2>2 DEF Holds
  <2>4. \A i \in 1 .. Len(e.roles) : t[p.roles[i] + 1] = e.roles[i]
    BY <2>2 DEF Holds, Names
  <2>5. e.roles = [i \in 1 .. Len(e.roles) |-> e.roles[i]]
    BY <2>1
  <2>6. roles = [i \in 1 .. Len(e.roles) |-> e.roles[i]]
    BY <2>3, <2>4
  <2> HIDE DEF roles
  <2>7. QED
    BY <2>5, <2>6
<1>5. p.id = e.id
  BY PackedIs DEF p
<1> HIDE DEF ids, tags, roles
<1>6. QED
  BY <1>1, <1>2, <1>3, <1>4, <1>5, GivenIs DEF p

-----------------------------------------------------------------------------
(* A blob and the elements read back from it.                              *)

\* What elements are once read back.
Written == {Given(e) : e \in Element}

LEMMA AllGivenIs ==
  ASSUME NEW es \in Seq(Element)
  PROVE  /\ AllGiven(es) \in Seq(Written) /\ Len(AllGiven(es)) = Len(es)
         /\ \A i \in 1 .. Len(es) : AllGiven(es)[i] = Given(es[i])
<1>1. \A i \in 1 .. Len(es) : Given(es[i]) \in Written
  BY DEF Written
<1>2. QED
  BY <1>1 DEF AllGiven

LEMMA AllGivenConcat ==
  ASSUME NEW es \in Seq(Element), NEW fs \in Seq(Element)
  PROVE  AllGiven(es) \o AllGiven(fs) = AllGiven(es \o fs)
<1> DEFINE s == AllGiven(es) \o AllGiven(fs)
           u == AllGiven(es \o fs)
           c == es \o fs
<1>1. /\ c \in Seq(Element) /\ Len(c) = Len(es) + Len(fs)
      /\ \A i \in 1 .. Len(c) : c[i] = IF i =< Len(es) THEN es[i] ELSE fs[i - Len(es)]
  BY ConcatProperties
<1> HIDE DEF c
<1>2. /\ s \in Seq(Written) /\ Len(s) = Len(es) + Len(fs)
      /\ \A i \in 1 .. Len(es) + Len(fs) : s[i] = IF i =< Len(es) THEN AllGiven(es)[i]
                                                  ELSE AllGiven(fs)[i - Len(es)]
  <2> DEFINE p == AllGiven(es)
             q == AllGiven(fs)
  <2>1. p \in Seq(Written) /\ q \in Seq(Written) /\ Len(p) = Len(es) /\ Len(q) = Len(fs)
    BY AllGivenIs
  <2> HIDE DEF p, q
  <2>2. /\ p \o q \in Seq(Written) /\ Len(p \o q) = Len(p) + Len(q)
        /\ \A i \in 1 .. Len(p) + Len(q) :
             (p \o q)[i] = IF i =< Len(p) THEN p[i] ELSE q[i - Len(p)]
    BY <2>1, ConcatProperties
  <2>3. s = p \o q
    BY DEF p, q
  <2> HIDE DEF s
  <2>4. QED
    BY <2>1, <2>2, <2>3 DEF p, q
<1>3. /\ u \in Seq(Written) /\ Len(u) = Len(c)
      /\ \A i \in 1 .. Len(c) : u[i] = Given(c[i])
  BY <1>1, AllGivenIs DEF c
<1> HIDE DEF s, u
<1>4. ASSUME NEW i \in 1 .. Len(s)  PROVE s[i] = u[i]
  <2>1. CASE i =< Len(es)
    BY <1>1, <1>2, <1>3, <2>1, AllGivenIs
  <2>2. CASE ~(i =< Len(es))
    <3>1. i - Len(es) \in 1 .. Len(fs)
      BY <1>2, <2>2
    <3>2. s[i] = AllGiven(fs)[i - Len(es)] /\ c[i] = fs[i - Len(es)]
      BY <1>1, <1>2, <2>2
    <3>3. QED
      BY <1>1, <1>2, <1>3, <3>1, <3>2, AllGivenIs
  <2>3. QED
    BY <2>1, <2>2
<1>5. s = u
  BY <1>1, <1>2, <1>3, <1>4, SeqEqual
<1>6. QED
  BY <1>5 DEF s, u, c

\* A blob of elements of one type reads back as these.
LEMMA OneKind ==
  ASSUME NEW b, NEW T \in Types, \A y \in Types \ {T} : b.elements[y] = <<>>,
         ElementsOf(b, T) \in Seq(Written)
  PROVE  Elements(b) = ElementsOf(b, T)
<1>1. \A y \in Types \ {T} : ElementsOf(b, y) = <<>>
  BY DEF ElementsOf
<1>2. \A s \in Seq(Written) : s \o <<>> = s /\ <<>> \o s = s
  BY ConcatEmptySeq
<1>3. CASE T = "NODE"
  <2>1. ElementsOf(b, "WAY") = <<>> /\ ElementsOf(b, "RELATION") = <<>>
    BY <1>1, <1>3, Kinds
  <2>2. QED
    BY <1>2, <1>3, <2>1, Zenon DEF Elements
<1>4. CASE T = "WAY"
  <2>1. ElementsOf(b, "NODE") = <<>> /\ ElementsOf(b, "RELATION") = <<>>
    BY <1>1, <1>4, Kinds
  <2>2. QED
    BY <1>2, <1>4, <2>1, Zenon DEF Elements
<1>5. CASE T = "RELATION"
  <2>1. ElementsOf(b, "NODE") = <<>> /\ ElementsOf(b, "WAY") = <<>>
    BY <1>1, <1>5, Kinds
  <2>2. <<>> \o <<>> = <<>>
    OBVIOUS
  <2>3. QED
    BY <1>2, <1>5, <2>1, <2>2, Zenon DEF Elements
<1>6. QED
  BY <1>3, <1>4, <1>5, Kinds

\* The items of a block stand for the elements es, which are all of type T.
Stands(items, T, es, kvs, t, top) ==
  /\ items \in Seq(Item) /\ es \in Seq(Element) /\ Len(items) = Len(es)
  /\ \A i \in 1 .. Len(es) : es[i].type = T /\ Holds(items[i], es[i], kvs, t, top)

\* Blob b has the elements es, of type T, and nothing else.
BlobOf(b, T, es) ==
  /\ b \in DataBlob /\ Len(b.elements[T]) = Len(es)
  /\ \A y \in Types \ {T} : b.elements[y] = <<>>
  /\ Elements(b) = AllGiven(es)

\* The blob made of blocks of which that of T alone has items.
LEMMA Packs ==
  ASSUME NEW types \in SUBSET Types, NEW T \in types, NEW blk,
         \A y \in Types \ {T} : blk[y] = <<>>,
         NEW es, NEW kvs, NEW t \in Seq(Text), NEW top, Stands(blk[T], T, es, kvs, t, top)
  PROVE  BlobOf(Blob(types, blk, kvs, t), T, es)
<1> DEFINE b == Blob(types, blk, kvs, t)
           pack(y) == [i \in 1 .. Len(blk[y]) |-> Packed(blk[y][i], kvs)]
           els == [y \in Types |-> IF y \in types THEN pack(y) ELSE <<>>]
<1>1. b = [elements |-> els, strings |-> t]
  BY DEF Blob
<1>2. b.elements = els /\ b.strings = t
  BY <1>1
<1>3. T \in Types /\ els[T] = pack(T)
  OBVIOUS
<1>4. \A y \in Types \ {T} : els[y] = <<>>
  OBVIOUS
<1>5. /\ blk[T] \in Seq(Item) /\ es \in Seq(Element) /\ Len(blk[T]) = Len(es)
      /\ \A i \in 1 .. Len(es) :
           es[i].type = T /\ Holds(blk[T][i], es[i], kvs, t, top)
  BY DEF Stands
<1>6. \A i \in 1 .. Len(es) : blk[T][i] \in Item /\ es[i] \in Element
  BY <1>5
<1>7. \A i \in 1 .. Len(es) : Packed(blk[T][i], kvs) \in Coded
  BY <1>5, <1>6, PackedIs
<1>8. /\ pack(T) \in Seq(Coded) /\ Len(pack(T)) = Len(es)
      /\ \A i \in 1 .. Len(es) : pack(T)[i] = Packed(blk[T][i], kvs)
  BY <1>5, <1>7
<1> HIDE DEF pack
<1>9. els \in [Types -> Seq(Coded)]
  <2>1. \A y \in Types : els[y] \in Seq(Coded)
    <3> HIDE DEF els
    <3>1. <<>> \in Seq(Coded)
      OBVIOUS
    <3>2. QED
      BY <1>3, <1>4, <1>8, <3>1
  <2>2. QED
    BY <2>1
<1>10. b \in DataBlob
  <2> HIDE DEF els
  <2>1. QED
    BY <1>1, <1>9 DEF DataBlob
<1> HIDE DEF els
<1> HIDE DEF b
<1>11. ElementsOf(b, T) = AllGiven(es)
  <2>1. ElementsOf(b, T) = [i \in 1 .. Len(es) |-> Decoded(T, pack(T)[i], t)]
    BY <1>2, <1>3, <1>8 DEF ElementsOf
  <2>2. \A i \in 1 .. Len(es) : Decoded(T, pack(T)[i], t) = Given(es[i])
    <3>1. ASSUME NEW i \in 1 .. Len(es)  PROVE Decoded(T, pack(T)[i], t) = Given(es[i])
      <4>1. Decoded(es[i].type, Packed(blk[T][i], kvs), t) = Given(es[i])
        BY <1>5, <1>6, DecodedIs
      <4>2. QED
        BY <1>5, <1>8, <4>1
    <3>2. QED
      BY <3>1
  <2>3. [i \in 1 .. Len(es) |-> Decoded(T, pack(T)[i], t)] =
          [i \in 1 .. Len(es) |-> Given(es[i])]
    BY <2>2, Zenon
  <2>4. QED
    BY <2>1, <2>3, Zenon DEF AllGiven
<1>12. Elements(b) = ElementsOf(b, T)
  BY <1>2, <1>3, <1>4, <1>5, <1>11, AllGivenIs, OneKind
<1>13. QED
  BY <1>2, <1>3, <1>4, <1>8, <1>10, <1>11, <1>12 DEF b, BlobOf

\* Reading one more blob.
LEMMA ReadAppend ==
  ASSUME NEW bs \in Seq(DataBlob), NEW b \in DataBlob
  PROVE  Read(Append(bs, b)) = Read(bs) \o Elements(b)
<1>1. Joined!Fold(<<>>, Append(bs, b)) = AddElements(Joined!Fold(<<>>, bs), b)
  BY Joined!FoldAppend
<1>2. QED
  BY <1>1, FoldsAre DEF Read, AddElements

\* The tags of the items, counted.
LEMMA TagsAppend ==
  ASSUME NEW items \in Seq(Item), NEW b \in Item
  PROVE  /\ Tags(<<>>) = 0
         /\ Tags(items) \in Nat
         /\ Tags(Append(items, b)) = Tags(items) + b.n
<1>1. \A n \in Nat, x \in Item : AddTags(n, x) \in Nat
  BY DEF AddTags, Item
<1>2. Counts!Fold(0, items) \in Nat
  BY <1>1, Counts!FoldType
<1>3. Counts!Fold(0, Append(items, b)) = AddTags(Counts!Fold(0, items), b)
  BY Counts!FoldAppend
<1>4. Counts!Fold(0, <<>>) = 0
  BY Counts!FoldEmpty
<1>5. QED
  BY <1>2, <1>3, <1>4, FoldsAre DEF Tags, AddTags

-----------------------------------------------------------------------------
(* The inductive invariant.                                                *)

\* The type of what is buffered; none is once the last stage has ended.
Kind  == IF stage < 4 THEN Stages[stage] ELSE "RELATION"
Items == block[Kind]

IType ==
  /\ input \in Extracts /\ at \in 1 .. Len(input) + 1 /\ stage \in 1 .. 4
  /\ block \in [Types -> Seq(Item)]
  /\ kv_buff \in [0 .. MAX_KEYS_VALS - 1 -> Nat] /\ kv_n \in 0 .. MAX_KEYS_VALS
  /\ heap \subseteq 1 .. Len(input) /\ table \in Seq(Text)
  /\ blobs \in Seq(DataBlob) /\ crashed \in BOOLEAN

\* The block of the stage has the last elements given, all still below kv_n.
BlockInv ==
  /\ \A y \in Types \ {Kind} : block[y] = <<>>
  /\ stage = 4 => Items = <<>>
  /\ Len(Items) < PBF_BLOCK_SIZE /\ Len(Items) =< at - 1
  /\ Stands(Items, Kind, SubSeq(input, at - Len(Items), at - 1), kv_buff, table, kv_n)
  /\ kv_n = 2 * Tags(Items)

\* What is not written yet belongs to this stage or to a later one.
InputInv == \A i \in at .. Len(input) : stage =< StageOf(input[i].type)

\* Blobs of one type each, of up to stage s, in the order of the stages.
InOrder(bs, s) ==
  /\ \A i \in 1 .. Len(bs) :
       \E T \in Types :
         /\ Len(bs[i].elements[T]) \in 1 .. PBF_BLOCK_SIZE
         /\ \A other \in Types \ {T} : bs[i].elements[other] = <<>>
  /\ \A i \in 1 .. Len(bs) : \A T \in Types :
       bs[i].elements[T] # <<>> => StageOf(T) =< s
  /\ \A i, j \in 1 .. Len(bs) : \A T, U \in Types :
       i < j /\ bs[i].elements[T] # <<>> /\ bs[j].elements[U] # <<>>
         => StageOf(T) =< StageOf(U)

FileInv ==
  /\ Read(blobs) = AllGiven(SubSeq(input, 1, at - 1 - Len(Items)))
  /\ InOrder(blobs, stage)

\* An array in use is of a way, or of a relation that is still buffered.
Owned(arrays, blk) ==
  \A a \in arrays : \/ input[a].type = "WAY"
                    \/ \E i \in 1 .. Len(blk["RELATION"]) : blk["RELATION"][i].array = a

HeapInv ==
  /\ Owned(heap, block)
  /\ \A i \in 1 .. Len(block["WAY"]) : block["WAY"][i].array \in heap
  /\ \A i \in 1 .. Len(block["RELATION"]) : block["RELATION"][i].array \in heap

CrashInv == crashed => at =< Len(input) /\ ~RoomForTags(input[at])

IInv == IType /\ BlockInv /\ InputInv /\ FileInv /\ HeapInv /\ CrashInv

-----------------------------------------------------------------------------
(* Buffering one element.                                                  *)

LEMMA InputIs ==
  ASSUME IType
  PROVE  /\ input \in Seq(Element) /\ Len(input) \in Nat
         /\ \A i, j \in 1 .. Len(input) :
              i < j => StageOf(input[i].type) =< StageOf(input[j].type)
         /\ \A i \in 1 .. Len(input) : input[i] \in Element
<1>1. input \in Extracts
  BY DEF IType
<1>2. input \in Seq(Element)
  BY <1>1, ExtractsAssumption
<1>3. QED
  BY <1>1, <1>2, ExtractsAssumption

LEMMA FilledIs ==
  ASSUME IType, NEW e \in Element, RoomForTags(e), NEW t \in Seq(Text),
         \A i \in 1 .. Len(e.tags) : Has(t, e.tags[i][1]) /\ Has(t, e.tags[i][2])
  PROVE  /\ Len(e.tags) \in Nat /\ kv_n + 2 * Len(e.tags) =< MAX_KEYS_VALS
         /\ Filled(e, t) \in [0 .. MAX_KEYS_VALS - 1 -> Nat]
         /\ \A i \in 0 .. kv_n - 1 : Filled(e, t)[i] = kv_buff[i]
         /\ \A i \in 1 .. Len(e.tags) :
              /\ Names(t, Filled(e, t)[kv_n + i - 1], e.tags[i][1])
              /\ Names(t, Filled(e, t)[kv_n + Len(e.tags) + i - 1], e.tags[i][2])
<1> DEFINE n == Len(e.tags)
           f == Filled(e, t)
           D == 0 .. MAX_KEYS_VALS - 1
           K(i) == i \in kv_n .. kv_n + n - 1
           V(i) == i \in kv_n + n .. kv_n + 2 * n - 1
           key(i) == IndexOf(t, e.tags[i - kv_n + 1][1])
           val(i) == IndexOf(t, e.tags[i - kv_n - n + 1][2])
<1>1. e.tags \in Seq(Text \X Text) /\ n \in Nat
  BY ElementIs
<1>2. kv_n \in Nat /\ kv_n =< MAX_KEYS_VALS /\ MAX_KEYS_VALS \in Nat /\ DOMAIN kv_buff = D
      /\ \A i \in D : kv_buff[i] \in Nat
  BY SizeAssumption DEF IType
<1>3. kv_n + 2 * n =< MAX_KEYS_VALS
  <2>1. e.tags = <<>> => n = 0
    OBVIOUS
  <2>2. QED
    BY <1>1, <1>2, <2>1 DEF RoomForTags
<1>4. f = [i \in D |-> CASE K(i) -> key(i) [] V(i) -> val(i) [] OTHER -> kv_buff[i]]
  BY <1>2, Zenon DEF Filled
<1>5. \A i \in D : f[i] = CASE K(i) -> key(i) [] V(i) -> val(i) [] OTHER -> kv_buff[i]
  <2> HIDE DEF K, V, key, val, D, f
  <2>1. QED
    BY <1>4, Zenon
<1>6. \A i \in D : ~(K(i) /\ V(i))
  BY <1>1, <1>2
<1>9. \A i \in 0 .. kv_n - 1 : i \in D /\ ~K(i) /\ ~V(i)
  BY <1>1, <1>2, <1>3
<1>10. \A i \in D : (K(i) => i - kv_n + 1 \in 1 .. n) /\ (V(i) => i - kv_n - n + 1 \in 1 .. n)
  BY <1>1, <1>2
<1>11. \A i \in 1 .. n : /\ Names(t, IndexOf(t, e.tags[i][1]), e.tags[i][1])
                         /\ Names(t, IndexOf(t, e.tags[i][2]), e.tags[i][2])
  BY IndexNames
<1>12. \A k, s : Names(t, k, s) => k \in Nat
  BY DEF Names
<1> HIDE DEF K, V, f
<1>13. \A i \in D : (K(i) => f[i] = key(i)) /\ (V(i) => f[i] = val(i))
                    /\ (~K(i) /\ ~V(i) => f[i] = kv_buff[i])
  <2> HIDE DEF key, val, D
  <2>1. QED
    BY <1>5, <1>6, Zenon
<1>14. \A i \in 1 .. n : f[kv_n + i - 1] = IndexOf(t, e.tags[i][1])
  <2>1. ASSUME NEW i \in 1 .. n  PROVE f[kv_n + i - 1] = IndexOf(t, e.tags[i][1])
    <3> DEFINE j == kv_n + i - 1
    <3>1. j \in D /\ K(j) /\ j - kv_n + 1 = i
      BY <1>1, <1>2, <1>3 DEF K
    <3> HIDE DEF j, D
    <3>2. f[j] = key(j)
      BY <1>13, <3>1, Zenon
    <3>3. f[j] = IndexOf(t, e.tags[i][1])
      BY <3>1, <3>2, Zenon
    <3>4. QED
      BY <3>3 DEF j
  <2>2. QED
    BY <2>1
<1>15. \A i \in 1 .. n : f[kv_n + n + i - 1] = IndexOf(t, e.tags[i][2])
  <2>1. ASSUME NEW i \in 1 .. n  PROVE f[kv_n + n + i - 1] = IndexOf(t, e.tags[i][2])
    <3> DEFINE j == kv_n + n + i - 1
    <3>1. j \in D /\ V(j) /\ j - kv_n - n + 1 = i
      BY <1>1, <1>2, <1>3 DEF V
    <3> HIDE DEF j, D
    <3>2. f[j] = val(j)
      BY <1>13, <3>1, Zenon
    <3>3. f[j] = IndexOf(t, e.tags[i][2])
      BY <3>1, <3>2, Zenon
    <3>4. QED
      BY <3>3 DEF j
  <2>2. QED
    BY <2>1
<1>16. \A i \in D : f[i] \in Nat
  <2>1. ASSUME NEW i \in D  PROVE f[i] \in Nat
    <3>1. CASE K(i)
      BY <1>10, <1>11, <1>12, <1>13, <2>1, <3>1, Zenon
    <3>2. CASE V(i)
      BY <1>10, <1>11, <1>12, <1>13, <2>1, <3>2, Zenon
    <3>3. CASE ~K(i) /\ ~V(i)
      BY <1>2, <1>13, <2>1, <3>3, Zenon
    <3>4. QED
      BY <3>1, <3>2, <3>3
  <2>2. QED
    BY <2>1
<1>17. f \in [D -> Nat]
  BY <1>4, <1>16 DEF f
<1>18. \A i \in 0 .. kv_n - 1 : f[i] = kv_buff[i]
  BY <1>9, <1>13, Zenon
<1>19. QED
  BY <1>1, <1>3, <1>11, <1>14, <1>15, <1>17, <1>18, Zenon DEF f

\* What Buffer makes of e.
NewItem(e, t) ==
  [id |-> e.id, n |-> Len(e.tags), keys |-> kv_n, vals |-> kv_n + Len(e.tags),
   roles |-> [i \in 1 .. Len(e.roles) |-> IndexOf(t, e.roles[i])],
   ids |-> Deltas(e.ids), array |-> at]

LEMMA ItemHolds ==
  ASSUME IType, NEW e \in Element, RoomForTags(e)
  PROVE  LET t == Deduped(table, e)
         IN  /\ NewItem(e, t) \in Item
             /\ Holds(NewItem(e, t), e, Filled(e, t), t, kv_n + 2 * Len(e.tags))
<1> DEFINE t == Deduped(table, e)
           b == NewItem(e, t)
           r == [i \in 1 .. Len(e.roles) |-> IndexOf(t, e.roles[i])]
<1>1. /\ t \in Seq(Text)
      /\ \A i \in 1 .. Len(e.roles) : Has(t, e.roles[i])
      /\ \A i \in 1 .. Len(e.tags) : Has(t, e.tags[i][1]) /\ Has(t, e.tags[i][2])
  BY DedupedHas DEF IType
<1> HIDE DEF t
<1>2. /\ Len(e.tags) \in Nat
      /\ \A i \in 1 .. Len(e.tags) :
           /\ Names(t, Filled(e, t)[kv_n + i - 1], e.tags[i][1])
           /\ Names(t, Filled(e, t)[kv_n + Len(e.tags) + i - 1], e.tags[i][2])
  BY <1>1, FilledIs
<1>3. \A i \in 1 .. Len(e.roles) : Names(t, IndexOf(t, e.roles[i]), e.roles[i])
  BY <1>1, IndexNames
<1>4. \A i \in 1 .. Len(e.roles) : IndexOf(t, e.roles[i]) \in Nat
  BY <1>3 DEF Names
<1>5. e.roles \in Seq(Text) /\ Deltas(e.ids) \in Seq(Int) /\ e.id \in Int
  BY ElementIs, DeltasAre
<1>6. /\ r \in Seq(Nat) /\ Len(r) = Len(e.roles)
      /\ \A i \in 1 .. Len(e.roles) : r[i] = IndexOf(t, e.roles[i])
  BY <1>4, <1>5
<1>7. b = [id |-> e.id, n |-> Len(e.tags), keys |-> kv_n, vals |-> kv_n + Len(e.tags),
           roles |-> r, ids |-> Deltas(e.ids), array |-> at]
  BY DEF NewItem
<1> HIDE DEF r, b
<1>8. kv_n \in Nat /\ at \in Nat
  BY SizeAssumption, InputIs DEF IType
<1>9. b \in Item
  BY <1>2, <1>5, <1>6, <1>7, <1>8 DEF Item
<1>10. /\ b.id = e.id /\ b.n = Len(e.tags) /\ b.keys = kv_n /\ b.vals = kv_n + Len(e.tags)
       /\ b.roles = r /\ b.ids = Deltas(e.ids)
  BY <1>7
<1>11. /\ b.keys + b.n =< kv_n + 2 * Len(e.tags)
       /\ b.vals + b.n =< kv_n + 2 * Len(e.tags)
  BY <1>2, <1>8, <1>10
<1>12. \A i \in 1 .. Len(e.roles) : Names(t, b.roles[i], e.roles[i])
  BY <1>3, <1>6, <1>10
<1>13. \A i \in 1 .. Len(e.tags) :
         /\ Names(t, Filled(e, t)[b.keys + i - 1], e.tags[i][1])
         /\ Names(t, Filled(e, t)[b.vals + i - 1], e.tags[i][2])
  BY <1>2, <1>10
<1>14. Holds(b, e, Filled(e, t), t, kv_n + 2 * Len(e.tags))
  BY <1>6, <1>10, <1>11, <1>12, <1>13, Zenon DEF Holds
<1>15. QED
  BY <1>9, <1>14 DEF b, t

\* One more item, and what kv_buff and the table have for it.
LEMMA StandsOneMore ==
  ASSUME NEW items, NEW T, NEW es, NEW kvs, NEW t \in Seq(Text), NEW top \in Nat,
         Stands(items, T, es, kvs, t, top),
         NEW kvs2, NEW u \in Seq(Text), NEW top2 \in Nat, Extends(t, u), top =< top2,
         \A i \in 0 .. top - 1 : kvs2[i] = kvs[i],
         NEW b \in Item, NEW e \in Element, e.type = T, Holds(b, e, kvs2, u, top2)
  PROVE  Stands(Append(items, b), T, Append(es, e), kvs2, u, top2)
<1> DEFINE m == Append(items, b)
           fs == Append(es, e)
<1>1. /\ items \in Seq(Item) /\ es \in Seq(Element) /\ Len(items) = Len(es)
      /\ \A i \in 1 .. Len(es) : es[i].type = T /\ Holds(items[i], es[i], kvs, t, top)
  BY DEF Stands
<1>2. \A i \in 1 .. Len(es) : Holds(items[i], es[i], kvs2, u, top2)
  <2>1. \A i \in 1 .. Len(es) : items[i] \in Item /\ es[i] \in Element
    BY <1>1
  <2>2. QED
    BY <1>1, <2>1, StillHolds
<1>3. /\ m \in Seq(Item) /\ fs \in Seq(Element) /\ Len(m) = Len(fs)
      /\ \A i \in 1 .. Len(fs) :
           \/ i \in 1 .. Len(es) /\ m[i] = items[i] /\ fs[i] = es[i]
           \/ m[i] = b /\ fs[i] = e
  <2>1. /\ m \in Seq(Item) /\ Len(m) = Len(items) + 1 /\ m[Len(items) + 1] = b
        /\ \A i \in 1 .. Len(items) : m[i] = items[i]
    BY <1>1
  <2>2. /\ fs \in Seq(Element) /\ Len(fs) = Len(es) + 1 /\ fs[Len(es) + 1] = e
        /\ \A i \in 1 .. Len(es) : fs[i] = es[i]
    BY <1>1
  <2> HIDE DEF m, fs
  <2>3. Len(es) \in Nat
    BY <1>1
  <2>4. \A i \in 1 .. Len(es) + 1 : i \in 1 .. Len(es) \/ i = Len(es) + 1
    BY <2>3
  <2>5. Len(items) = Len(es)
    BY <1>1
  <2>6. QED
    BY <2>1, <2>2, <2>4, <2>5
<1> HIDE DEF m, fs
<1>4. \A i \in 1 .. Len(fs) : fs[i].type = T /\ Holds(m[i], fs[i], kvs2, u, top2)
  BY <1>1, <1>2, <1>3, Zenon
<1>5. QED
  BY <1>3, <1>4, Zenon DEF Stands, m, fs

\* Less is in order up to a later stage.
LEMMA InOrderLater ==
  ASSUME NEW bs, NEW s \in 1 .. 4, NEW u \in 1 .. 4, InOrder(bs, s), s =< u
  PROVE  InOrder(bs, u)
<1>1. \A T \in Types : StageOf(T) \in 1 .. 3
  BY StagesAreKinds
<1>2. \A i \in 1 .. Len(bs) : \A T \in Types : bs[i].elements[T] # <<>> => StageOf(T) =< u
  BY <1>1 DEF InOrder
<1>3. QED
  BY <1>2, Zenon DEF InOrder

\* A blob of the stage keeps the order.
LEMMA InOrderAppend ==
  ASSUME NEW bs \in Seq(DataBlob), NEW b \in DataBlob, NEW s \in 1 .. 3, InOrder(bs, s),
         Len(b.elements[Stages[s]]) \in 1 .. PBF_BLOCK_SIZE,
         \A y \in Types \ {Stages[s]} : b.elements[y] = <<>>
  PROVE  InOrder(Append(bs, b), s)
<1> DEFINE cs == Append(bs, b)
<1>1. Stages[s] \in Types /\ StageOf(Stages[s]) = s
  BY StagesAreKinds
<1>2. \A T \in Types : StageOf(T) \in 1 .. 3 /\ (b.elements[T] # <<>> => StageOf(T) = s)
  BY <1>1, StagesAreKinds
<1>3. /\ Len(cs) = Len(bs) + 1 /\ cs[Len(bs) + 1] = b /\ Len(bs) \in Nat
      /\ \A i \in 1 .. Len(bs) : cs[i] = bs[i]
      /\ \A i \in 1 .. Len(cs) : i \in 1 .. Len(bs) \/ i = Len(bs) + 1
  OBVIOUS
<1> HIDE DEF cs
<1>4. ASSUME NEW i \in 1 .. Len(cs)
      PROVE  \E T \in Types : /\ Len(cs[i].elements[T]) \in 1 .. PBF_BLOCK_SIZE
                              /\ \A other \in Types \ {T} : cs[i].elements[other] = <<>>
  <2>1. CASE i \in 1 .. Len(bs)
    <3>1. cs[i] = bs[i]
      BY <1>3, <2>1
    <3>2. QED
      BY <2>1, <3>1, Zenon DEF InOrder
  <2>2. CASE i = Len(bs) + 1
    <3>1. cs[i] = b
      BY <1>3, <2>2
    <3>2. QED
      BY <1>1, <3>1, Zenon
  <2>3. QED
    BY <1>3, <2>1, <2>2
<1>5. \A i \in 1 .. Len(cs) : \A T \in Types :
        cs[i].elements[T] # <<>> => StageOf(T) =< s
  <2>1. \A T \in Types : b.elements[T] # <<>> => StageOf(T) =< s
    BY <1>2
  <2>2. QED
    BY <1>3, <2>1, Zenon DEF InOrder
<1>6. ASSUME NEW i \in 1 .. Len(cs), NEW j \in 1 .. Len(cs), NEW T \in Types, NEW U \in Types,
             i < j, cs[i].elements[T] # <<>>, cs[j].elements[U] # <<>>
      PROVE  StageOf(T) =< StageOf(U)
  <2>1. i \in 1 .. Len(bs)
    BY <1>3, <1>6
  <2>2. CASE j \in 1 .. Len(bs)
    BY <1>3, <1>6, <2>1, <2>2, Zenon DEF InOrder
  <2>3. CASE j = Len(bs) + 1
    <3>1. StageOf(U) = s
      BY <1>2, <1>3, <1>6, <2>3, Zenon
    <3>2. StageOf(T) =< s
      BY <1>5, <1>6
    <3>3. QED
      BY <3>1, <3>2
  <2>4. QED
    BY <1>3, <2>2, <2>3
<1>7. QED
  BY <1>4, <1>5, <1>6, Zenon DEF InOrder, cs

-----------------------------------------------------------------------------
(* Writing a blob.                                                         *)

LEMMA KindIs ==
  ASSUME stage \in 1 .. 4
  PROVE  /\ Kind \in Types
         /\ stage < 4 => Kind = Stages[stage] /\ stage \in 1 .. 3 /\ StageOf(Kind) = stage
<1>1. stage < 4 => stage \in 1 .. 3
  OBVIOUS
<1>2. QED
  BY <1>1, Kinds, StagesAreKinds DEF Kind

LEMMA BlobWritten ==
  ASSUME IInv, stage < 4, NEW types, types = {Kind} \/ types = Types,
         NEW full \in [Types -> Seq(Item)], \A y \in Types \ {Kind} : full[y] = <<>>,
         NEW k \in Nat, NEW m \in Nat, k < m, m =< Len(input),
         m - k =< PBF_BLOCK_SIZE,
         NEW kvs, NEW t \in Seq(Text), NEW top,
         Stands(full[Kind], Kind, SubSeq(input, k + 1, m), kvs, t, top),
         Read(blobs) = AllGiven(SubSeq(input, 1, k)),
         NEW arrays, Owned(arrays, full),
         WriteBlob(types, full, kvs, t, arrays)
  PROVE  /\ blobs' \in Seq(DataBlob) /\ InOrder(blobs', stage)
         /\ Read(blobs') = AllGiven(SubSeq(input, 1, m))
         /\ block' = NoElements /\ table' = <<>> /\ kv_n' = 0
         /\ heap' \subseteq arrays /\ \A a \in heap' : input[a].type = "WAY"
<1> DEFINE b == Blob(types, full, kvs, t)
           es == SubSeq(input, k + 1, m)
<1>1. /\ blobs' = Append(blobs, b) /\ table' = <<>> /\ kv_n' = 0
      /\ heap' = arrays \ Freed(types, full) /\ block' = Emptied(types, full)
  BY Zenon DEF WriteBlob
<1>2. /\ Kind \in Types /\ Kind \in types /\ types \in SUBSET Types
      /\ stage \in 1 .. 3 /\ Kind = Stages[stage]
  BY KindIs DEF IInv, IType
<1>3. blobs \in Seq(DataBlob) /\ InOrder(blobs, stage)
  BY DEF IInv, IType, FileInv
<1>4. /\ b \in DataBlob /\ Len(b.elements[Kind]) = Len(es)
      /\ \A y \in Types \ {Kind} : b.elements[y] = <<>>
      /\ Elements(b) = AllGiven(es)
  <2>1. Stands(full[Kind], Kind, es, kvs, t, top)
    OBVIOUS
  <2> HIDE DEF es, b
  <2>2. BlobOf(Blob(types, full, kvs, t), Kind, es)
    BY <1>2, <2>1, Packs
  <2>3. QED
    BY <2>2 DEF BlobOf, b
<1>5. input \in Seq(Element) /\ PBF_BLOCK_SIZE \in Nat
  BY InputIs, SizeAssumption DEF IInv
<1>6. Len(es) \in 1 .. PBF_BLOCK_SIZE
  BY <1>5
<1> HIDE DEF b
<1>7. blobs' \in Seq(DataBlob)
  BY <1>1, <1>3, <1>4
<1>8. InOrder(blobs', stage)
  <2>1. Len(b.elements[Stages[stage]]) \in 1 .. PBF_BLOCK_SIZE
    BY <1>2, <1>4, <1>6
  <2>2. \A y \in Types \ {Stages[stage]} : b.elements[y] = <<>>
    BY <1>2, <1>4
  <2>3. QED
    BY <1>1, <1>2, <1>3, <1>4, <2>1, <2>2, InOrderAppend
<1>9. Read(blobs') = AllGiven(SubSeq(input, 1, m))
  <2>1. Read(blobs') = AllGiven(SubSeq(input, 1, k)) \o AllGiven(es)
    BY <1>1, <1>3, <1>4, ReadAppend
  <2>2. SubSeq(input, 1, k) \in Seq(Element) /\ es \in Seq(Element)
    BY <1>5
  <2>3. SubSeq(input, 1, k) \o es = SubSeq(input, 1, m)
    BY <1>5, ConcatAdjacentSubSeq
  <2> HIDE DEF es
  <2>4. QED
    BY <2>1, <2>2, <2>3, AllGivenConcat
<1>10. block' = NoElements
  <2>1. \A y \in Types : y \notin types => full[y] = <<>>
    BY <1>2
  <2>2. QED
    BY <1>1, <2>1 DEF Emptied, NoElements
<1>11. \A a \in heap' : input[a].type = "WAY"
  <2>1. SUFFICES ASSUME NEW a \in arrays, a \notin Freed(types, full),
                        input[a].type # "WAY"
                 PROVE  FALSE
    BY <1>1
  <2>2. PICK i \in 1 .. Len(full["RELATION"]) : full["RELATION"][i].array = a
    BY <2>1 DEF Owned
  <2>3. Kind = "RELATION"
    BY <2>2, Kinds
  <2>4. QED
    BY <1>2, <2>1, <2>2, <2>3 DEF Freed
<1>12. QED
  BY <1>1, <1>7, <1>8, <1>9, <1>10, <1>11

\* The invariant when all blocks are empty.
LEMMA NothingBuffered ==
  ASSUME IInv, input' = input, at' \in 1 .. Len(input) + 1, stage' \in 1 .. 4,
         block' = NoElements, kv_buff' \in [0 .. MAX_KEYS_VALS - 1 -> Nat], kv_n' = 0,
         heap' \subseteq 1 .. Len(input), \A a \in heap' : input[a].type = "WAY",
         table' \in Seq(Text), blobs' \in Seq(DataBlob), crashed' = FALSE, InputInv',
         Read(blobs') = AllGiven(SubSeq(input, 1, at' - 1)), InOrder(blobs', stage')
  PROVE  IInv'
<1>1. Kind' \in Types
  BY Kinds, StagesAreKinds DEF Kind
<1>2. \A y \in Types : block'[y] = <<>>
  BY DEF NoElements
<1>3. block' \in [Types -> Seq(Item)]
  BY DEF NoElements
<1>4. Items' = <<>>
  BY <1>1, <1>2 DEF Items
<1>5. IType'
  <2>1. input' \in Extracts /\ at' \in 1 .. Len(input') + 1
    BY DEF IInv, IType
  <2>2. kv_n' \in 0 .. MAX_KEYS_VALS
    BY SizeAssumption
  <2>3. heap' \subseteq 1 .. Len(input') /\ crashed' \in BOOLEAN
    OBVIOUS
  <2>4. QED
    BY <1>3, <2>1, <2>2, <2>3, Zenon DEF IType
<1>6. at' \in Nat /\ at' >= 1 /\ input \in Seq(Element) /\ Len(<<>>) = 0
  BY InputIs DEF IInv
<1> DEFINE n == Len(Items')
           a == at'
<1>12. n = 0 /\ a \in Nat /\ a >= 1
  BY <1>4, <1>6
<1> HIDE DEF n, a
<1>7. BlockInv'
  <2>1. SubSeq(input', a - n, a - 1) = <<>>
    BY <1>12, SubSeqEmpty
  <2>2. Stands(<<>>, Kind', <<>>, kv_buff', table', kv_n')
    BY DEF Stands
  <2>3. kv_n' = 2 * Tags(<<>>)
    <3>1. Tags(<<>>) = 0
      BY FoldsAre, Counts!FoldEmpty DEF Tags
    <3>2. QED
      BY <3>1
  <2>4. n < PBF_BLOCK_SIZE /\ n =< a - 1
    BY <1>12, SizeAssumption
  <2>5. QED
    BY <1>2, <1>4, <2>1, <2>2, <2>3, <2>4, Zenon DEF BlockInv, n, a
<1>8. FileInv'
  <2>1. a - 1 - n = a - 1
    BY <1>12
  <2>2. QED
    BY <2>1, Zenon DEF FileInv, n, a
<1>9. HeapInv'
  BY <1>2, Kinds DEF HeapInv, Owned
<1>10. CrashInv'
  BY DEF CrashInv
<1>11. QED
  BY <1>5, <1>7, <1>8, <1>9, <1>10 DEF IInv

-----------------------------------------------------------------------------
(* The steps.                                                              *)

LEMMA BufferInv ==
  ASSUME IInv, NEW T \in Types, Writes(T), Buffer(T)
  PROVE  IInv'
<1> DEFINE e    == input[at]
           t    == Deduped(table, e)
           kvs  == Filled(e, t)
           item == NewItem(e, t)
           n    == Len(Items)
           es   == SubSeq(input, at - n, at - 1)
           top  == kv_n + 2 * Len(e.tags)
           arrays == IF T = "NODE" THEN heap ELSE heap \cup {at}
           full == [block EXCEPT ![T] = Append(block[T], item)]
<1>1. /\ ~crashed /\ stage < 4 /\ Kind = T /\ Items = block[T] /\ stage \in 1 .. 3
      /\ at \in 1 .. Len(input) /\ e.type = T
  BY KindIs DEF Writes, IInv, IType, Items
<1>2. /\ RoomForTags(e) /\ kv_buff' = kvs /\ at' = at + 1
      /\ input' = input /\ stage' = stage /\ crashed' = crashed
      /\ IF Len(full[T]) = PBF_BLOCK_SIZE
         THEN WriteBlob({T}, full, kvs, t, arrays)
         ELSE /\ block' = full /\ table' = t /\ kv_n' = kv_n + 2 * Len(e.tags)
              /\ heap' = arrays /\ UNCHANGED blobs
  BY Zenon DEF Buffer, NewItem
<1>3. /\ input \in Seq(Element) /\ Len(input) \in Nat /\ at \in Nat /\ e \in Element
  BY <1>1, InputIs DEF IInv
<1>4. t \in Seq(Text) /\ Extends(table, t) /\ table \in Seq(Text)
  BY <1>3, DedupedHas DEF IInv, IType
<1>5. /\ item \in Item /\ Holds(item, e, kvs, t, top)
      /\ item.array = at /\ item.n = Len(e.tags)
  BY <1>2, <1>3, ItemHolds DEF IInv, NewItem
<1>6. /\ kvs \in [0 .. MAX_KEYS_VALS - 1 -> Nat] /\ Len(e.tags) \in Nat
      /\ top =< MAX_KEYS_VALS /\ kv_n \in Nat /\ top \in Nat
      /\ \A i \in 0 .. kv_n - 1 : kvs[i] = kv_buff[i]
  <2>1. \A i \in 1 .. Len(e.tags) : Has(t, e.tags[i][1]) /\ Has(t, e.tags[i][2])
    BY <1>3, <1>4, DedupedHas
  <2>2. kv_n \in Nat /\ IType
    BY SizeAssumption DEF IInv, IType
  <2> HIDE DEF t, e
  <2>3. QED
    BY <1>2, <1>3, <1>4, <2>1, <2>2, FilledIs
<1> HIDE DEF t, kvs, item
<1>7. /\ block \in [Types -> Seq(Item)] /\ full \in [Types -> Seq(Item)]
      /\ full[T] = Append(Items, item) /\ Len(full[T]) = n + 1 /\ n \in Nat
      /\ \A y \in Types \ {T} : full[y] = block[y]
  BY <1>1, <1>5 DEF IInv, IType
<1> HIDE DEF full
<1>8. /\ n < PBF_BLOCK_SIZE /\ n =< at - 1 /\ kv_n = 2 * Tags(Items)
      /\ Stands(Items, T, es, kv_buff, table, kv_n)
      /\ \A y \in Types \ {T} : block[y] = <<>>
  BY <1>1 DEF IInv, BlockInv
<1>9. Append(es, e) = SubSeq(input, at - n, at) /\ es \in Seq(Element)
  <2>1. at - n \in 1 .. at
    BY <1>3, <1>7, <1>8
  <2> HIDE DEF n
  <2>2. SubSeq(input, at - n, at) = SubSeq(input, at - n, at - 1) \o <<input[at]>>
    <3>1. at - n \in 1 .. Len(input) /\ at \in at - n .. Len(input)
      BY <1>1, <1>3, <1>7, <1>8 DEF n
    <3>2. QED
      BY <1>3, <3>1, SubSeqRecursiveSecond
  <2>3. es \in Seq(Element)
    BY <1>1, <1>3, <2>1
  <2> HIDE DEF es, e
  <2>4. es \o <<e>> = Append(es, e)
    BY <1>3, <2>3
  <2>5. QED
    BY <2>2, <2>3, <2>4 DEF es, e
<1> HIDE DEF es, e, n, top
<1>10. Stands(full[T], T, Append(es, e), kvs, t, top)
  <2>1. kv_n =< top
    BY <1>6 DEF top
  <2>2. Stands(Append(Items, item), T, Append(es, e), kvs, t, top)
    BY <1>1, <1>3, <1>4, <1>5, <1>6, <1>8, <2>1, StandsOneMore
  <2>3. QED
    BY <1>7, <2>2
<1>11. InputInv'
  <2>1. \A i \in at + 1 .. Len(input) : i \in at .. Len(input)
    BY <1>3
  <2>2. QED
    BY <1>2, <2>1 DEF IInv, InputInv
<1>12. Owned(arrays, full)
  <2>1. SUFFICES ASSUME NEW a \in arrays, input[a].type # "WAY"
                 PROVE  \E i \in 1 .. Len(full["RELATION"]) : full["RELATION"][i].array = a
    BY DEF Owned
  <2>2. CASE a \in heap
    <3>1. PICK i \in 1 .. Len(block["RELATION"]) : block["RELATION"][i].array = a
      BY <2>1, <2>2 DEF IInv, HeapInv, Owned
    <3>2. T = "RELATION"
      BY <1>8, <3>1, Kinds
    <3>3. i \in 1 .. Len(full[T]) /\ full[T][i] = Items[i] /\ Items \in Seq(Item)
      BY <1>1, <1>7, <3>1, <3>2 DEF n
    <3>4. QED
      BY <1>1, <3>1, <3>2, <3>3
  <2>3. CASE a = at /\ T # "NODE"
    <3>1. T = "RELATION"
      BY <1>1, <2>1, <2>3, Kinds DEF e
    <3>2. Len(full[T]) \in 1 .. Len(full[T]) /\ full[T][Len(full[T])] = item
      BY <1>1, <1>5, <1>7 DEF n
    <3>3. QED
      BY <1>5, <2>3, <3>1, <3>2
  <2>4. QED
    BY <2>1, <2>2, <2>3
<1>13. heap \subseteq 1 .. Len(input) /\ arrays \subseteq 1 .. Len(input) /\ heap \subseteq arrays
  BY <1>1 DEF IInv, IType
<1> HIDE DEF arrays
<1>14. CASE Len(full[T]) = PBF_BLOCK_SIZE
  <2> DEFINE k == at - 1 - n
  <2>1. k \in Nat /\ k < at /\ at =< Len(input) /\ at - k =< PBF_BLOCK_SIZE /\ k + 1 = at - n
    BY <1>1, <1>3, <1>7, <1>8, <1>14
  <2>2. WriteBlob({T}, full, kvs, t, arrays)
    BY <1>2, <1>14
  <2>3. Read(blobs) = AllGiven(SubSeq(input, 1, k))
    BY DEF IInv, FileInv, n
  <2>4. Stands(full[T], T, SubSeq(input, k + 1, at), kvs, t, top)
    BY <1>9, <1>10, <2>1
  <2>5. \A y \in Types \ {T} : full[y] = <<>>
    BY <1>7, <1>8
  <2> HIDE DEF k
  <2>6. /\ blobs' \in Seq(DataBlob) /\ InOrder(blobs', stage)
        /\ Read(blobs') = AllGiven(SubSeq(input, 1, at))
        /\ block' = NoElements /\ table' = <<>> /\ kv_n' = 0
        /\ heap' \subseteq arrays /\ \A a \in heap' : input[a].type = "WAY"
    BY <1>1, <1>3, <1>4, <1>7, <1>12, <2>1, <2>2, <2>3, <2>4, <2>5, BlobWritten
  <2>7. /\ at' \in 1 .. Len(input) + 1 /\ at' - 1 = at /\ table' \in Seq(Text)
        /\ heap' \subseteq 1 .. Len(input) /\ stage' \in 1 .. 4 /\ crashed' = FALSE
    <3>1. at + 1 \in 1 .. Len(input) + 1 /\ at + 1 - 1 = at
      BY <1>1, <1>3
    <3>2. crashed' = FALSE
      BY <1>1, <1>2 DEF IInv, IType
    <3>3. QED
      BY <1>1, <1>2, <1>13, <2>6, <3>1, <3>2
  <2>8. QED
    BY <1>2, <1>6, <1>11, <2>6, <2>7, NothingBuffered
<1>15. CASE Len(full[T]) # PBF_BLOCK_SIZE
  <2>1. /\ block' = full /\ table' = t /\ kv_n' = top /\ heap' = arrays /\ blobs' = blobs
    BY <1>2, <1>15 DEF top
  <2>2. Kind' = T /\ Items' = full[T]
    <3>1. Kind' = Kind
      BY <1>2 DEF Kind
    <3>2. QED
      BY <1>1, <2>1, <3>1 DEF Items
  <2>3. IType'
    <3>1. at + 1 \in 1 .. Len(input) + 1
      BY <1>1, <1>3
    <3>2. top \in 0 .. MAX_KEYS_VALS
      BY <1>6, SizeAssumption
    <3>3. QED
      BY <1>2, <1>4, <1>6, <1>7, <1>13, <2>1, <3>1, <3>2 DEF IInv, IType
  <2> DEFINE a == at'
             m == Len(Items')
  <2>9. a = at + 1 /\ m = n + 1 /\ n = Len(Items) /\ n \in Nat /\ at \in Nat
    BY <1>2, <1>3, <1>7, <2>2 DEF n
  <2> HIDE DEF a, m
  <2>4. BlockInv'
    <3>1. n + 1 < PBF_BLOCK_SIZE /\ n + 1 =< at + 1 - 1 /\ PBF_BLOCK_SIZE \in Nat
          /\ at + 1 - (n + 1) = at - n /\ at + 1 - 1 = at
      BY <1>3, <1>7, <1>8, <1>15, SizeAssumption
    <3>2. Stands(full[T], T, SubSeq(input, at + 1 - (n + 1), at + 1 - 1), kvs, t, top)
      BY <1>9, <1>10, <3>1
    <3>3. top = 2 * Tags(full[T])
      <4>1. Tags(full[T]) = Tags(Items) + Len(e.tags) /\ Tags(Items) \in Nat
        BY <1>1, <1>5, <1>7, TagsAppend DEF IInv, IType
      <4>2. QED
        BY <1>6, <1>8, <4>1 DEF top
    <3>4. \A y \in Types \ {T} : full[y] = <<>>
      BY <1>7, <1>8
    <3>5. stage' # 4
      BY <1>1, <1>2
    <3>6. Stands(Items', Kind', SubSeq(input', a - m, a - 1), kv_buff', table', kv_n')
      BY <1>2, <2>1, <2>2, <2>9, <3>2
    <3>7. m < PBF_BLOCK_SIZE /\ m =< a - 1
      BY <2>9, <3>1
    <3>8. \A y \in Types \ {Kind'} : block'[y] = <<>>
      BY <2>1, <2>2, <3>4
    <3>9. kv_n' = 2 * Tags(Items')
      BY <2>1, <2>2, <3>3
    <3>10. QED
      BY <3>5, <3>6, <3>7, <3>8, <3>9, Zenon DEF BlockInv, a, m
  <2>5. FileInv'
    <3>1. at + 1 - 1 - (n + 1) = at - 1 - n
      BY <1>3, <1>7
    <3>2. a - 1 - m = at - 1 - Len(Items)
      BY <2>9, <3>1
    <3>3. Read(blobs') = AllGiven(SubSeq(input', 1, a - 1 - m))
      BY <1>2, <2>1, <3>2 DEF IInv, FileInv
    <3>4. InOrder(blobs', stage')
      BY <1>2, <2>1 DEF IInv, FileInv
    <3>5. QED
      BY <3>3, <3>4, Zenon DEF FileInv, a, m
  <2>6. HeapInv'
    <3>1. Owned(heap, block)'
      BY <1>2, <1>12, <2>1 DEF Owned
    <3>2. ASSUME NEW y \in {"WAY", "RELATION"}, NEW i \in 1 .. Len(full[y])
          PROVE  full[y][i].array \in arrays
      <4>1. CASE y # T
        BY <1>7, <1>8, <3>2, <4>1, Kinds
      <4>2. CASE y = T
        <5>1. \A j \in 1 .. Len(Items) : Items[j].array \in heap
          BY <1>1, <3>2, <4>2 DEF IInv, HeapInv
        <5>2. \/ i \in 1 .. Len(Items) /\ full[T][i] = Items[i]
              \/ full[T][i] = item
          BY <1>1, <1>5, <1>7, <3>2, <4>2 DEF n
        <5>3. at \in arrays
          BY <3>2, <4>2 DEF arrays
        <5>4. QED
          BY <1>5, <1>13, <4>2, <5>1, <5>2, <5>3
      <4>3. QED
        BY <4>1, <4>2
    <3>3. QED
      BY <2>1, <3>1, <3>2 DEF HeapInv
  <2>7. CrashInv'
    BY <1>1, <1>2 DEF CrashInv
  <2>8. QED
    BY <1>11, <2>3, <2>4, <2>5, <2>6, <2>7 DEF IInv
<1>16. QED
  BY <1>14, <1>15

LEMMA EndStageInv ==
  ASSUME IInv, EndStage
  PROVE  IInv'
<1> DEFINE n == Len(Items)
<1>1. /\ crashed = FALSE /\ stage < 4 /\ stage \in 1 .. 3 /\ Kind = Stages[stage]
      /\ stage' = stage + 1 /\ input' = input /\ at' = at /\ kv_buff' = kv_buff
      /\ crashed' = crashed /\ Kind \in Types /\ Items = block[Kind]
  BY KindIs DEF EndStage, IInv, IType, Items
<1>2. /\ input \in Seq(Element) /\ Len(input) \in Nat /\ at \in Nat
      /\ at \in 1 .. Len(input) + 1 /\ block \in [Types -> Seq(Item)]
      /\ heap \subseteq 1 .. Len(input) /\ table \in Seq(Text)
      /\ blobs \in Seq(DataBlob) /\ kv_buff \in [0 .. MAX_KEYS_VALS - 1 -> Nat]
  BY InputIs DEF IInv, IType
<1>3. InputInv'
  <2>1. ASSUME NEW i \in at .. Len(input)  PROVE stage + 1 =< StageOf(input[i].type)
    <3>1. at \in 1 .. Len(input) /\ i \in 1 .. Len(input)
      BY <1>2, <2>1
    <3>2. input[at] \in Element /\ input[at].type \in Types /\ input[i].type \in Types
      BY <3>1, InputIs, ElementIs DEF IInv
    <3>3. stage =< StageOf(input[at].type)
      BY <1>2, <3>1 DEF IInv, InputInv
    <3>4. input[at].type # Stages[stage]
      BY <3>1 DEF EndStage
    <3>5. StageOf(input[at].type) # stage
      BY <1>1, <3>2, <3>4, OtherKinds
    <3>6. StageOf(input[at].type) =< StageOf(input[i].type)
      BY <2>1, <3>1, <3>2, InputIs, StagesAreKinds DEF IInv
    <3>7. /\ StageOf(input[at].type) \in 1 .. 3 /\ StageOf(input[i].type) \in 1 .. 3
          /\ stage \in 1 .. 3
      BY <1>1, <3>2, StagesAreKinds
    <3>8. QED
      BY <3>3, <3>5, <3>6, <3>7
  <2>2. QED
    BY <1>1, <2>1 DEF InputInv
<1>4. stage + 1 \in 1 .. 4 /\ stage \in 1 .. 4 /\ stage =< stage + 1
  BY <1>1
<1>5. /\ n \in Nat /\ n < PBF_BLOCK_SIZE /\ n =< at - 1 /\ kv_n = 2 * Tags(Items)
      /\ Stands(Items, Kind, SubSeq(input, at - n, at - 1), kv_buff, table, kv_n)
      /\ \A y \in Types \ {Kind} : block[y] = <<>>
      /\ Read(blobs) = AllGiven(SubSeq(input, 1, at - 1 - n)) /\ InOrder(blobs, stage)
      /\ Owned(heap, block)
  BY <1>1, <1>2 DEF IInv, BlockInv, FileInv, HeapInv
<1> HIDE DEF n
<1>6. CASE block # NoElements
  <2> DEFINE k == at - 1 - n
             m == at - 1
  <2>1. WriteBlob(Types, block, kv_buff, table, heap)
    BY <1>6 DEF EndStage
  <2>2. Items # <<>>
    BY <1>1, <1>2, <1>5, <1>6 DEF NoElements
  <2>3. n # 0
    BY <1>1, <1>2, <2>2 DEF n
  <2>4. /\ k \in Nat /\ m \in Nat /\ k < m /\ m =< Len(input) /\ k + 1 = at - n
        /\ m - k =< PBF_BLOCK_SIZE
    BY <1>2, <1>5, <2>3, SizeAssumption
  <2>5. Stands(block[Kind], Kind, SubSeq(input, k + 1, m), kv_buff, table, kv_n)
    BY <1>1, <1>5, <2>4
  <2>6. Read(blobs) = AllGiven(SubSeq(input, 1, k))
    BY <1>5
  <2> HIDE DEF k
  <2>7. /\ blobs' \in Seq(DataBlob) /\ InOrder(blobs', stage)
        /\ Read(blobs') = AllGiven(SubSeq(input, 1, m))
        /\ block' = NoElements /\ table' = <<>> /\ kv_n' = 0
        /\ heap' \subseteq heap /\ \A a \in heap' : input[a].type = "WAY"
    <3> HIDE DEF m
    <3>1. QED
      BY <1>1, <1>2, <1>5, <2>1, <2>4, <2>5, <2>6, BlobWritten
  <2>8. InOrder(blobs', stage')
    BY <1>1, <1>4, <2>7, InOrderLater
  <2>9. /\ table' \in Seq(Text) /\ heap' \subseteq 1 .. Len(input)
        /\ Read(blobs') = AllGiven(SubSeq(input, 1, at' - 1))
    BY <1>1, <1>2, <2>7
  <2>10. QED
    BY <1>1, <1>2, <1>3, <1>4, <2>7, <2>8, <2>9, NothingBuffered
<1>7. CASE block = NoElements
  <2>1. UNCHANGED <<block, kv_n, heap, table, blobs>>
    BY <1>7 DEF EndStage
  <2>2. Items = <<>> /\ \A y \in Types : block[y] = <<>>
    BY <1>1, <1>7 DEF NoElements
  <2>3. n = 0
    BY <2>2 DEF n
  <2>4. kv_n' = 0
    <3>1. Tags(<<>>) = 0
      BY FoldsAre, Counts!FoldEmpty DEF Tags
    <3>2. QED
      BY <1>5, <2>1, <2>2, <3>1
  <2>5. \A a \in heap' : input[a].type = "WAY"
    BY <1>5, <2>1, <2>2, Kinds DEF Owned
  <2>6. at - 1 - n = at - 1
    BY <1>2, <2>3
  <2>7. Read(blobs') = AllGiven(SubSeq(input, 1, at' - 1))
    BY <1>1, <1>5, <2>1, <2>6
  <2>8. InOrder(blobs', stage')
    BY <1>1, <1>4, <1>5, <2>1, InOrderLater
  <2>9. QED
    BY <1>1, <1>2, <1>3, <1>4, <1>7, <2>1, <2>4, <2>5, <2>7, <2>8, NothingBuffered
<1>8. QED
  BY <1>6, <1>7

LEMMA InitInv == Init => IInv
<1> SUFFICES ASSUME Init  PROVE IInv
  OBVIOUS
<1>1. /\ input \in Extracts /\ at = 1 /\ stage = 1 /\ block = NoElements
      /\ kv_buff = [i \in 0 .. MAX_KEYS_VALS - 1 |-> 0] /\ kv_n = 0
      /\ heap = {} /\ table = <<>> /\ blobs = <<>> /\ crashed = FALSE
  BY DEF Init
<1>2. IType
  <2>1. input \in Seq(Element)
    BY <1>1, ExtractsAssumption
  <2>2. at \in 1 .. Len(input) + 1
    BY <1>1, <2>1
  <2>3. block \in [Types -> Seq(Item)]
    BY <1>1 DEF NoElements
  <2>4. kv_buff \in [0 .. MAX_KEYS_VALS - 1 -> Nat] /\ kv_n \in 0 .. MAX_KEYS_VALS
    BY <1>1, SizeAssumption
  <2>5. table \in Seq(Text) /\ blobs \in Seq(DataBlob) /\ stage \in 1 .. 4
    BY <1>1
  <2>6. QED
    BY <1>1, <2>2, <2>3, <2>4, <2>5 DEF IType
<1>3. Kind \in Types /\ \A y \in Types : block[y] = <<>>
  BY <1>1, KindIs DEF NoElements
<1>4. Items = <<>> /\ Len(Items) = 0
  BY <1>3 DEF Items
<1>5. BlockInv
  <2>1. SubSeq(input, at - Len(Items), at - 1) = <<>>
    BY <1>1, <1>4, SubSeqEmpty
  <2>2. Stands(<<>>, Kind, <<>>, kv_buff, table, kv_n)
    BY DEF Stands
  <2>3. kv_n = 2 * Tags(<<>>)
    BY <1>1, FoldsAre, Counts!FoldEmpty DEF Tags
  <2>4. Len(Items) < PBF_BLOCK_SIZE /\ Len(Items) =< at - 1
    BY <1>1, <1>4, SizeAssumption
  <2>5. QED
    BY <1>3, <1>4, <2>1, <2>2, <2>3, <2>4 DEF BlockInv
<1>6. InputInv
  <2>1. ASSUME NEW i \in at .. Len(input)  PROVE stage =< StageOf(input[i].type)
    <3>1. i \in 1 .. Len(input)
      BY <1>1, <2>1
    <3>2. StageOf(input[i].type) \in 1 .. 3
      BY <1>2, <3>1, InputIs, ElementIs, StagesAreKinds
    <3>3. QED
      BY <1>1, <3>2
  <2>2. QED
    BY <2>1 DEF InputInv
<1>7. FileInv
  <2>1. SubSeq(input, 1, at - 1 - Len(Items)) = <<>>
    BY <1>1, <1>4, SubSeqEmpty
  <2>2. AllGiven(<<>>) = <<>>
    BY DEF AllGiven
  <2>3. Read(<<>>) = <<>>
    BY FoldsAre, Joined!FoldEmpty DEF Read
  <2>4. InOrder(<<>>, stage)
    BY DEF InOrder
  <2>5. QED
    BY <1>1, <2>1, <2>2, <2>3, <2>4 DEF FileInv
<1>8. HeapInv /\ CrashInv
  BY <1>1, <1>3, Kinds DEF HeapInv, Owned, CrashInv
<1>9. QED
  BY <1>2, <1>5, <1>6, <1>7, <1>8 DEF IInv

LEMMA NextInv == IInv /\ [Next]_vars => IInv'
<1> SUFFICES ASSUME IInv, [Next]_vars  PROVE IInv'
  OBVIOUS
<1>1. ASSUME NEW T \in Types, Writes(T), Buffer(T)  PROVE IInv'
  BY <1>1, BufferInv
<1>2. CASE WriteThroughNull
  <2>1. /\ at =< Len(input) /\ ~RoomForTags(input[at])
        /\ UNCHANGED <<input, at, stage, block, kv_buff, kv_n, heap, table, blobs>>
        /\ crashed' = TRUE
    BY <1>2 DEF WriteThroughNull, Writes
  <2>2. Kind' = Kind /\ Items' = Items
    BY <2>1 DEF Kind, Items
  <2>3. IType' /\ BlockInv' /\ InputInv'
    BY <2>1, <2>2 DEF IInv, IType, BlockInv, InputInv
  <2>4. FileInv' /\ HeapInv' /\ CrashInv'
    BY <2>1, <2>2 DEF IInv, FileInv, HeapInv, Owned, CrashInv, RoomForTags
  <2>5. QED
    BY <2>3, <2>4 DEF IInv
<1>3. CASE EndStage
  BY <1>3, EndStageInv
<1>4. CASE UNCHANGED vars
  <2>1. UNCHANGED <<input, at, stage, block, kv_buff, kv_n, heap, table, blobs, crashed>>
    BY <1>4 DEF vars
  <2>2. Kind' = Kind /\ Items' = Items
    BY <2>1 DEF Kind, Items
  <2>3. IType' /\ BlockInv' /\ InputInv'
    BY <2>1, <2>2 DEF IInv, IType, BlockInv, InputInv
  <2>4. FileInv' /\ HeapInv' /\ CrashInv'
    BY <2>1, <2>2 DEF IInv, FileInv, HeapInv, Owned, CrashInv, RoomForTags
  <2>5. QED
    BY <2>3, <2>4 DEF IInv
<1>5. QED
  BY <1>1, <1>2, <1>3, <1>4, Kinds
     DEF Next, pbf_write_node, pbf_write_way, pbf_write_relation

(* The buffers of the writer stay as IInv says, whatever is written and    *)
(* however large a block and the room for tags are.                        *)
THEOREM Invariance == Spec => []IInv
<1>1. QED
  BY InitInv, NextInv, PTL DEF Spec

-----------------------------------------------------------------------------
(* Blocks never fill beyond their size and kv_buff has indexes only        *)
(* (pbf-write.c:161-169, 330-334).                                         *)
THEOREM TypesHold == Spec => []TypeOK
<1>1. IInv => TypeOK
  <2> SUFFICES ASSUME IInv  PROVE TypeOK
    OBVIOUS
  <2>1. \A y \in Types : Len(block[y]) < PBF_BLOCK_SIZE
    <3>1. Len(<<>>) = 0 /\ PBF_BLOCK_SIZE > 0
      BY SizeAssumption
    <3>2. \A y \in Types : y # Kind => Len(block[y]) = 0
      BY DEF IInv, BlockInv
    <3>3. Len(block[Kind]) < PBF_BLOCK_SIZE
      BY DEF IInv, BlockInv, Items
    <3>4. QED
      BY <3>1, <3>2, <3>3, SizeAssumption
  <2>2. QED
    BY <2>1 DEF TypeOK, IInv, IType
<1>2. QED
  BY <1>1, Invariance, PTL

(* What is in the file and in the buffers decodes to what was given, in    *)
(* its order: no buffered element is left with an index into a table or a  *)
(* kv_buff that was reset with an earlier blob (pbf-write.c:232-238).      *)
THEOREM WritesDecode == Spec => []DecodesAsWritten
<1>1. IInv => DecodesAsWritten
  <2> SUFFICES ASSUME IInv  PROVE DecodesAsWritten
    OBVIOUS
  <2> DEFINE n  == Len(Items)
             es == SubSeq(input, at - n, at - 1)
             fs == SubSeq(input, 1, at - 1 - n)
             b  == Blob(Types, block, kv_buff, table)
             m  == at - 1
  <2>1. Kind \in Types /\ Items = block[Kind]
    BY KindIs DEF IInv, IType, Items
  <2>2. /\ Stands(block[Kind], Kind, es, kv_buff, table, kv_n) /\ table \in Seq(Text)
        /\ \A y \in Types \ {Kind} : block[y] = <<>>
        /\ n =< at - 1 /\ Read(blobs) = AllGiven(fs)
    BY <2>1 DEF IInv, IType, BlockInv, FileInv, Items
  <2>3. input \in Seq(Element) /\ at \in 1 .. Len(input) + 1 /\ n \in Nat
    BY <2>1, InputIs DEF IInv, IType
  <2>4. fs \in Seq(Element) /\ es \in Seq(Element) /\ fs \o es = SubSeq(input, 1, m)
    <3> DEFINE k == at - 1 - n
    <3>1. /\ k \in 0 .. Len(input) /\ m \in k .. Len(input) /\ at - n = k + 1
          /\ 1 \in 1 .. Len(input) + 1 /\ k + 1 \in 1 .. Len(input) + 1
          /\ k \in 1 - 1 .. Len(input)
      BY <2>2, <2>3
    <3> HIDE DEF k, m
    <3>2. SubSeq(input, 1, k) \o SubSeq(input, k + 1, m) = SubSeq(input, 1, m)
      BY <2>3, <3>1, ConcatAdjacentSubSeq
    <3>3. SubSeq(input, 1, k) \in Seq(Element) /\ SubSeq(input, k + 1, m) \in Seq(Element)
      BY <2>3, <3>1
    <3>4. fs = SubSeq(input, 1, k) /\ es = SubSeq(input, k + 1, m)
      BY <3>1 DEF k, m
    <3>5. QED
      BY <3>2, <3>3, <3>4
  <2> HIDE DEF es, fs, n, b
  <2>5. Elements(b) = AllGiven(es)
    <3>1. BlobOf(Blob(Types, block, kv_buff, table), Kind, es)
      BY <2>1, <2>2, Packs
    <3>2. QED
      BY <3>1 DEF BlobOf, b
  <2>6. Read(blobs) \o Elements(b) = AllGiven(SubSeq(input, 1, m))
    BY <2>2, <2>4, <2>5, AllGivenConcat
  <2>7. QED
    BY <2>6 DEF DecodesAsWritten, b
<1>2. QED
  BY <1>1, Invariance, PTL

(* When the extraction has ended, all of it is in the file: in blobs of    *)
(* one type each, none empty and none too large, nodes before ways before  *)
(* relations (pbf-write.c:286-334, vex.c:886-954).                         *)
THEOREM FilesAreWhole == Spec => []FileReadsBack
<1>1. IInv => FileReadsBack
  <2> SUFFICES ASSUME IInv  PROVE FileReadsBack
    OBVIOUS
  <2>1. \A i \in 1 .. Len(blobs) :
          \E T \in Types :
            /\ Len(blobs[i].elements[T]) \in 1 .. PBF_BLOCK_SIZE
            /\ \A other \in Types \ {T} : blobs[i].elements[other] = <<>>
    BY Zenon DEF IInv, FileInv, InOrder
  <2>2. ASSUME NEW i \in 1 .. Len(blobs), NEW j \in 1 .. Len(blobs),
               NEW s \in 1 .. 3, NEW u \in 1 .. 3, i < j,
               blobs[i].elements[Stages[s]] # <<>>, blobs[j].elements[Stages[u]] # <<>>
        PROVE  s =< u
    <3>1. /\ Stages[s] \in Types /\ StageOf(Stages[s]) = s
          /\ Stages[u] \in Types /\ StageOf(Stages[u]) = u
      BY StagesAreKinds
    <3>2. StageOf(Stages[s]) =< StageOf(Stages[u])
      BY <2>2, <3>1, Zenon DEF IInv, FileInv, InOrder
    <3>3. QED
      BY <3>1, <3>2
  <2>3. ASSUME stage = 4  PROVE Read(blobs) = AllGiven(input)
    <3>1. input \in Seq(Element) /\ at \in 1 .. Len(input) + 1 /\ Items = <<>>
      BY <2>3, InputIs DEF IInv, IType, BlockInv
    <3>2. at = Len(input) + 1
      <4>1. SUFFICES ASSUME at \in 1 .. Len(input)  PROVE FALSE
        BY <3>1
      <4>2. at \in at .. Len(input) /\ StageOf(input[at].type) \in 1 .. 3
        BY <3>1, <4>1, InputIs, ElementIs, StagesAreKinds DEF IInv
      <4>3. QED
        BY <2>3, <4>2 DEF IInv, InputInv
    <3>3. at - 1 - Len(Items) = Len(input)
      BY <3>1, <3>2
    <3>4. SubSeq(input, 1, Len(input)) = input
      BY <3>1, SubSeqFull
    <3>5. QED
      BY <3>3, <3>4 DEF IInv, FileInv
  <2>4. QED
    BY <2>1, <2>2, <2>3 DEF FileReadsBack
<1>2. QED
  BY <1>1, Invariance, PTL

(* No array is freed before the blob that has it is packed, and none of a  *)
(* relation is left after it; those of ways always are, for the loop that  *)
(* frees them counts the nodes (pbf-write.c:131-149).                      *)
THEOREM ArraysStayInUse == Spec => []ArraysInUse
<1>1. IInv => ArraysInUse
  BY DEF IInv, HeapInv, Owned, ArraysInUse, Buffered
<1>2. QED
  BY <1>1, Invariance, PTL

(* The room for keys and values runs out only for what is buffered now:    *)
(* every blob written gives back all it took (pbf-write.c:161-173).        *)
THEOREM FullOnlyOfBuffered == Spec => []FullOfBuffered
<1>1. IInv => FullOfBuffered
  <2> SUFFICES ASSUME IInv, crashed  PROVE
         2 * (Len(input[at].tags) + Tags(block["NODE"]) + Tags(block["WAY"])
              + Tags(block["RELATION"])) > MAX_KEYS_VALS
    BY DEF FullOfBuffered
  <2>1. /\ at =< Len(input) /\ kv_n + 2 * Len(input[at].tags) > MAX_KEYS_VALS
        /\ Len(input[at].tags) \in Nat /\ MAX_KEYS_VALS \in Nat /\ kv_n \in Nat
    <3>1. at =< Len(input) /\ ~RoomForTags(input[at])
      BY DEF IInv, CrashInv
    <3>2. at \in 1 .. Len(input)
      BY <3>1, InputIs DEF IInv, IType
    <3>3. Len(input[at].tags) \in Nat
      BY <3>2, InputIs, ElementIs DEF IInv
    <3>4. MAX_KEYS_VALS \in Nat /\ kv_n \in Nat
      BY SizeAssumption DEF IInv, IType
    <3>5. QED
      BY <3>1, <3>3, <3>4 DEF RoomForTags
  <2>2. Tags(<<>>) = 0
    BY FoldsAre, Counts!FoldEmpty DEF Tags
  <2>3. /\ Kind \in Types /\ kv_n = 2 * Tags(block[Kind])
        /\ \A y \in Types \ {Kind} : Tags(block[y]) = 0
    BY <2>2, KindIs DEF IInv, IType, BlockInv, Items
  <2>4. Tags(block[Kind]) \in Nat
    <3>1. \A items \in Seq(Item) : Tags(items) \in Nat
      <4>1. [id |-> 0, n |-> 0, keys |-> 0, vals |-> 0, roles |-> <<>>, ids |-> <<>>,
             array |-> 0] \in Item
        BY DEF Item
      <4>2. QED
        BY <4>1, TagsAppend
    <3>2. QED
      BY <2>3, <3>1 DEF IInv, IType
  <2>5. Tags(block["NODE"]) + Tags(block["WAY"]) + Tags(block["RELATION"]) = Tags(block[Kind])
    <3>1. CASE Kind = "NODE"
      BY <2>3, <2>4, <3>1, Kinds
    <3>2. CASE Kind = "WAY"
      BY <2>3, <2>4, <3>2, Kinds
    <3>3. CASE Kind = "RELATION"
      BY <2>3, <2>4, <3>3, Kinds
    <3>4. QED
      BY <2>3, <3>1, <3>2, <3>3, Kinds
  <2>6. /\ Tags(block["NODE"]) \in Nat /\ Tags(block["WAY"]) \in Nat
        /\ Tags(block["RELATION"]) \in Nat
    BY <2>3, <2>4, Kinds
  <2> DEFINE e == Len(input[at].tags)
             a == Tags(block["NODE"])
             b == Tags(block["WAY"])
             c == Tags(block["RELATION"])
  <2>7. /\ a \in Nat /\ b \in Nat /\ c \in Nat /\ e \in Nat
        /\ kv_n = 2 * (a + b + c) /\ kv_n + 2 * e > MAX_KEYS_VALS
        /\ MAX_KEYS_VALS \in Nat
    BY <2>1, <2>3, <2>5, <2>6
  <2> HIDE DEF a, b, c, e
  <2>8. 2 * (e + a + b + c) > MAX_KEYS_VALS
    BY <2>7
  <2>9. QED
    BY <2>8 DEF a, b, c, e
<1>2. QED
  BY <1>1, Invariance, PTL
=============================================================================
