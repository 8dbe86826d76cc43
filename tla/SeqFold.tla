------------------------------ MODULE SeqFold -------------------------------
(***************************************************************************)
(* Folds over sequences, for proofs.  FoldLeft of the community modules    *)
(* takes its step as an operator and chooses a recursive function; this    *)
(* module proves, for one step operator that an INSTANCE gives, that the   *)
(* function exists and that the fold goes through a sequence element by    *)
(* element.  It is built on an induction over Nat whose hypothesis is a    *)
(* set, which needs no operator to be instantiated.  Fold is defined here  *)
(* and not by FoldLeft, so that an INSTANCE brings in little else; who     *)
(* uses it proves that its folds are FoldLeft.                             *)
(***************************************************************************)
EXTENDS Integers, Sequences, WellFoundedInduction, TLAPS

CONSTANT op(_, _)

Max(S) == CHOOSE x \in S : \A y \in S : x >= y

\* f is the recursive function of the fold, for all sets of places in D.
Folds(f, base, s, D) ==
  f = [d \in SUBSET D |-> IF d = {} THEN base ELSE op(f[d \ {Max(d)}], s[Max(d)])]

Fold(base, s) == (CHOOSE f : Folds(f, base, s, DOMAIN s))[DOMAIN s]

-----------------------------------------------------------------------------
(* Induction.                                                              *)

(* A set that has 0 and the successor of every number it has, has all:    *)
(* a smallest number missing would be the successor of one it has.         *)
LEMMA InductiveSet ==
  ASSUME NEW S, 0 \in S, \A n \in Nat : n \in S => n + 1 \in S
  PROVE  Nat \subseteq S
<1> DEFINE R == OpToRel(<, Nat)
           Missing == Nat \ S
<1>1. \A i, j \in Nat : i < j => <<i, j>> \in R
  BY DEF OpToRel
<1>2. IsWellFoundedOn(R, Nat)
  BY NatLessThanWellFounded
<1> HIDE DEF R
<1> SUFFICES ASSUME Missing # {}  PROVE FALSE
  OBVIOUS
<1>3. PICK m \in Missing : \A k \in Missing : <<k, m>> \notin R
  BY <1>2, WFMin
<1>4. m - 1 \in Nat /\ m - 1 < m /\ m = (m - 1) + 1
  OBVIOUS
<1>5. m - 1 \in S
  BY <1>1, <1>3, <1>4
<1>6. QED
  BY <1>4, <1>5

\* Sequences of one length with the same elements are the same.
LEMMA SeqEqual ==
  ASSUME NEW T, NEW s \in Seq(T), NEW t \in Seq(T), Len(s) = Len(t),
         \A i \in 1 .. Len(s) : s[i] = t[i]
  PROVE  s = t
OBVIOUS

\* A set that has the empty sequence and grows at the end has all sequences.
LEMMA InductiveSeqs ==
  ASSUME NEW T, NEW S, <<>> \in S,
         \A s \in Seq(T), x \in T : s \in S => Append(s, x) \in S
  PROVE  Seq(T) \subseteq S
<1> DEFINE N == {n \in Nat : \A s \in Seq(T) : Len(s) = n => s \in S}
<1>1. 0 \in N
  <2>1. \A s \in Seq(T) : Len(s) = 0 => s = <<>>
    OBVIOUS
  <2>2. QED
    BY <2>1
<1>2. ASSUME NEW n \in Nat, n \in N  PROVE n + 1 \in N
  <2>1. ASSUME NEW s \in Seq(T), Len(s) = n + 1  PROVE s \in S
    <3> DEFINE t == [i \in 1 .. n |-> s[i]]
               x == s[n + 1]
    <3>1. t \in Seq(T) /\ x \in T /\ Len(t) = n
      BY <2>1
    <3>2. s = Append(t, x)
      <4>1. Len(Append(t, x)) = n + 1 /\ Append(t, x) \in Seq(T)
        BY <3>1
      <4>2. \A i \in 1 .. n + 1 : s[i] = Append(t, x)[i]
        BY <2>1, <3>1
      <4> HIDE DEF t, x
      <4>3. QED
        BY <2>1, <4>1, <4>2, SeqEqual
    <3> HIDE DEF t, x
    <3>3. Len(t) = n
      BY <3>1
    <3>4. t \in S
      BY <1>2, <3>1, <3>3
    <3>5. QED
      BY <3>1, <3>2, <3>4
  <2>2. QED
    BY <2>1
<1>3. Nat \subseteq N
  <2> HIDE DEF N
  <2>1. QED
    BY <1>1, <1>2, InductiveSet
<1>4. ASSUME NEW s \in Seq(T)  PROVE s \in S
  <2>1. Len(s) \in N
    BY <1>3
  <2>2. QED
    BY <2>1
<1>5. QED
  BY <1>4

-----------------------------------------------------------------------------
(* The recursive function of a fold.                                       *)

LEMMA MaxOfPlaces ==
  ASSUME NEW n \in Nat, NEW d \in SUBSET (1 .. n + 1), n + 1 \in d
  PROVE  Max(d) = n + 1
<1>1. \A y \in d : y \in Int /\ n + 1 >= y
  OBVIOUS
<1>2. Max(d) \in d /\ \A y \in d : Max(d) >= y
  BY <1>1 DEF Max
<1>3. Max(d) \in Int /\ n + 1 >= Max(d) /\ Max(d) >= n + 1
  BY <1>1, <1>2
<1>4. QED
  BY <1>3

LEMMA MaxOfInterval ==
  ASSUME NEW n \in Nat
  PROVE  /\ Max(1 .. n + 1) = n + 1
         /\ (1 .. n + 1) \ {n + 1} = 1 .. n
         /\ 1 .. n + 1 # {}
<1>1. n + 1 \in 1 .. n + 1
  OBVIOUS
<1>2. Max(1 .. n + 1) = n + 1
  BY <1>1, MaxOfPlaces
<1>3. \A i \in (1 .. n + 1) \ {n + 1} : i \in 1 .. n
  OBVIOUS
<1>4. \A i \in 1 .. n : i \in (1 .. n + 1) \ {n + 1}
  OBVIOUS
<1>5. QED
  BY <1>1, <1>2, <1>3, <1>4

\* A set of places that is not empty has a last one, which is in it.
LEMMA MaxIn ==
  ASSUME NEW n \in Nat, NEW d \in SUBSET (1 .. n), d # {}
  PROVE  Max(d) \in d
<1> DEFINE N == {k \in Nat : \A c \in SUBSET (1 .. k) : c # {} => Max(c) \in c}
<1>1. 0 \in N
  <2>1. \A c \in SUBSET (1 .. 0) : c = {}
    OBVIOUS
  <2>2. QED
    BY <2>1
<1>2. ASSUME NEW k \in Nat, k \in N  PROVE k + 1 \in N
  <2>1. ASSUME NEW c \in SUBSET (1 .. k + 1), c # {}  PROVE Max(c) \in c
    <3>1. CASE k + 1 \in c
      BY <3>1, MaxOfPlaces
    <3>2. CASE k + 1 \notin c
      <4>1. c \in SUBSET (1 .. k)
        BY <3>2
      <4>2. QED
        BY <1>2, <2>1, <4>1
    <3>3. QED
      BY <3>1, <3>2
  <2>2. QED
    BY <2>1
<1>3. Nat \subseteq N
  <2> HIDE DEF N
  <2>1. QED
    BY <1>1, <1>2, InductiveSet
<1>4. QED
  BY <1>3

LEMMA FoldExists ==
  ASSUME NEW base, NEW s, NEW n \in Nat
  PROVE  \E f : Folds(f, base, s, 1 .. n)
<1> DEFINE N == {k \in Nat : \E f : Folds(f, base, s, 1 .. k)}
<1>1. 0 \in N
  <2> DEFINE f == [d \in SUBSET (1 .. 0) |-> base]
  <2>1. Folds(f, base, s, 1 .. 0)
    BY DEF Folds
  <2>2. QED
    BY <2>1
<1>2. ASSUME NEW k \in Nat, k \in N  PROVE k + 1 \in N
  <2>1. PICK f : Folds(f, base, s, 1 .. k)
    BY <1>2
  <2> DEFINE g == [d \in SUBSET (1 .. k + 1) |->
                     IF k + 1 \in d THEN op(f[d \ {k + 1}], s[k + 1]) ELSE f[d]]
             h == [d \in SUBSET (1 .. k + 1) |->
                     IF d = {} THEN base ELSE op(g[d \ {Max(d)}], s[Max(d)])]
  <2>2. ASSUME NEW d \in SUBSET (1 .. k + 1)  PROVE g[d] = h[d]
    <3>1. CASE k + 1 \in d
      <4>1. Max(d) = k + 1 /\ d # {}
        BY <3>1, MaxOfPlaces
      <4>2. d \ {k + 1} \in SUBSET (1 .. k + 1) /\ k + 1 \notin d \ {k + 1}
        OBVIOUS
      <4>3. g[d \ {k + 1}] = f[d \ {k + 1}]
        BY <4>2
      <4>4. QED
        BY <3>1, <4>1, <4>3
    <3>2. CASE k + 1 \notin d
      <4>1. d \in SUBSET (1 .. k)
        BY <3>2
      <4>2. f[d] = IF d = {} THEN base ELSE op(f[d \ {Max(d)}], s[Max(d)])
        BY <2>1, <4>1 DEF Folds
      <4>3. d # {} => d \ {Max(d)} \in SUBSET (1 .. k + 1) /\ k + 1 \notin d \ {Max(d)}
        BY <3>2
      <4>4. g[d] = f[d]
        BY <3>2
      <4>5. d # {} => g[d \ {Max(d)}] = f[d \ {Max(d)}]
        BY <4>3
      <4>6. QED
        BY <4>2, <4>4, <4>5
    <3>3. QED
      BY <3>1, <3>2
  <2>3. g = h
    BY <2>2
  <2>4. Folds(g, base, s, 1 .. k + 1)
    BY <2>3 DEF Folds
  <2>5. QED
    BY <2>4
<1>3. Nat \subseteq N
  <2> HIDE DEF N
  <2>1. QED
    BY <1>1, <1>2, InductiveSet
<1>4. QED
  BY <1>3

LEMMA FoldsStep ==
  ASSUME NEW base, NEW s, NEW D, NEW f, Folds(f, base, s, D),
         NEW n \in Nat, 1 .. n + 1 \subseteq D
  PROVE  f[1 .. n + 1] = op(f[1 .. n], s[n + 1])
<1> DEFINE d == 1 .. n + 1
<1>1. d \in SUBSET D /\ d # {} /\ Max(d) = n + 1 /\ d \ {Max(d)} = 1 .. n
  BY MaxOfInterval
<1> HIDE DEF d
<1>2. f[d] = op(f[d \ {Max(d)}], s[Max(d)])
  BY <1>1 DEF Folds
<1>3. f[d] = op(f[1 .. n], s[n + 1])
  BY <1>1, <1>2
<1>4. QED
  BY <1>3 DEF d

\* Two such functions agree on the places of both.
LEMMA FoldsAgree ==
  ASSUME NEW base, NEW s, NEW t, NEW n \in Nat, NEW m \in Nat, n =< m,
         \A i \in 1 .. n : s[i] = t[i],
         NEW f, Folds(f, base, s, 1 .. n), NEW g, Folds(g, base, t, 1 .. m)
  PROVE  f[1 .. n] = g[1 .. n]
<1> DEFINE N == {k \in Nat : k =< n => f[1 .. k] = g[1 .. k]}
<1>1. 0 \in N
  BY DEF Folds
<1>2. ASSUME NEW k \in Nat, k \in N  PROVE k + 1 \in N
  <2>1. CASE k + 1 =< n
    <3>1. 1 .. k + 1 \subseteq 1 .. n /\ 1 .. k + 1 \subseteq 1 .. m
      BY <2>1
    <3>2. f[1 .. k + 1] = op(f[1 .. k], s[k + 1])
      BY <3>1, FoldsStep
    <3>3. g[1 .. k + 1] = op(g[1 .. k], t[k + 1])
      BY <3>1, FoldsStep
    <3>4. s[k + 1] = t[k + 1] /\ k =< n
      BY <2>1
    <3>5. QED
      BY <1>2, <3>2, <3>3, <3>4
  <2>2. QED
    BY <2>1
<1>3. Nat \subseteq N
  <2> HIDE DEF N
  <2>1. QED
    BY <1>1, <1>2, InductiveSet
<1>4. QED
  BY <1>3

-----------------------------------------------------------------------------
(* What the proofs use.                                                    *)

LEMMA FoldEmpty ==
  ASSUME NEW base
  PROVE  Fold(base, <<>>) = base
<1>1. DOMAIN <<>> = 1 .. 0
  OBVIOUS
<1>2. PICK f : Folds(f, base, <<>>, 1 .. 0)
  BY FoldExists
<1>3. Folds(CHOOSE h : Folds(h, base, <<>>, 1 .. 0), base, <<>>, 1 .. 0)
  BY <1>2
<1>4. Fold(base, <<>>) = (CHOOSE h : Folds(h, base, <<>>, 1 .. 0))[1 .. 0]
  BY <1>1 DEF Fold
<1>5. 1 .. 0 \in SUBSET (1 .. 0) /\ 1 .. 0 = {}
  OBVIOUS
<1>6. QED
  BY <1>3, <1>4, <1>5 DEF Folds

\* The fold of a longer sequence is one step from the fold of its front.
LEMMA FoldAppend ==
  ASSUME NEW T, NEW s \in Seq(T), NEW x \in T, NEW base
  PROVE  Fold(base, Append(s, x)) = op(Fold(base, s), x)
<1> DEFINE t == Append(s, x)
           n == Len(s)
           f == CHOOSE h : Folds(h, base, s, 1 .. n)
           g == CHOOSE h : Folds(h, base, t, 1 .. n + 1)
<1>1. n \in Nat /\ DOMAIN s = 1 .. n /\ DOMAIN t = 1 .. n + 1 /\ t[n + 1] = x
      /\ \A i \in 1 .. n : s[i] = t[i]
  OBVIOUS
<1> HIDE DEF t, n
<1>2. Folds(f, base, s, 1 .. n) /\ Folds(g, base, t, 1 .. n + 1)
  <2>1. n + 1 \in Nat
    BY <1>1
  <2>2. \E h : Folds(h, base, s, 1 .. n)
    BY <1>1, FoldExists
  <2>3. \E h : Folds(h, base, t, 1 .. n + 1)
    BY <2>1, FoldExists
  <2>4. QED
    BY <2>2, <2>3
<1>3. Fold(base, s) = f[1 .. n] /\ Fold(base, t) = g[1 .. n + 1]
  BY <1>1 DEF Fold
<1> HIDE DEF f, g
<1>4. f[1 .. n] = g[1 .. n]
  BY <1>1, <1>2, FoldsAgree
<1>5. g[1 .. n + 1] = op(g[1 .. n], t[n + 1])
  BY <1>1, <1>2, FoldsStep
<1>6. QED
  BY <1>1, <1>3, <1>4, <1>5 DEF t

(* What holds of the empty sequence and its fold, and goes from a sequence *)
(* and its fold to the next, holds of all.  P is the set of the pairs of   *)
(* which it holds.                                                         *)
LEMMA FoldInduction ==
  ASSUME NEW T, NEW base, NEW P, <<<<>>, base>> \in P,
         \A s \in Seq(T), x \in T : <<s, Fold(base, s)>> \in P =>
           <<Append(s, x), op(Fold(base, s), x)>> \in P
  PROVE  \A s \in Seq(T) : <<s, Fold(base, s)>> \in P
<1> DEFINE S == {s \in Seq(T) : <<s, Fold(base, s)>> \in P}
<1>1. <<>> \in S
  BY FoldEmpty
<1>2. ASSUME NEW s \in Seq(T), NEW x \in T, s \in S  PROVE Append(s, x) \in S
  <2>1. Fold(base, Append(s, x)) = op(Fold(base, s), x)
    BY FoldAppend
  <2>2. QED
    BY <1>2, <2>1
<1>3. Seq(T) \subseteq S
  <2> HIDE DEF S
  <2>1. QED
    BY <1>1, <1>2, InductiveSeqs
<1>4. QED
  BY <1>3

\* The result of a fold whose step stays in a set is in that set.
LEMMA FoldType ==
  ASSUME NEW T, NEW A, NEW base \in A, \A a \in A, x \in T : op(a, x) \in A,
         NEW s \in Seq(T)
  PROVE  Fold(base, s) \in A
<1> DEFINE S == {t \in Seq(T) : Fold(base, t) \in A}
<1>1. <<>> \in S
  BY FoldEmpty
<1>2. ASSUME NEW t \in Seq(T), NEW x \in T, t \in S  PROVE Append(t, x) \in S
  <2>1. Fold(base, Append(t, x)) = op(Fold(base, t), x)
    BY FoldAppend
  <2>2. QED
    BY <1>2, <2>1
<1>3. Seq(T) \subseteq S
  <2> HIDE DEF S
  <2>1. QED
    BY <1>1, <1>2, InductiveSeqs
<1>4. QED
  BY <1>3

\* A sequence is built up by its beginnings, and so is its fold.
LEMMA PrefixNext ==
  ASSUME NEW T, NEW s \in Seq(T), NEW k \in 0 .. Len(s) - 1
  PROVE  /\ SubSeq(s, 1, k) \in Seq(T) /\ s[k + 1] \in T
         /\ SubSeq(s, 1, k + 1) = Append(SubSeq(s, 1, k), s[k + 1])
<1> DEFINE a == SubSeq(s, 1, k)
           b == SubSeq(s, 1, k + 1)
           c == Append(a, s[k + 1])
<1>1. Len(s) \in Nat /\ k \in Nat /\ k + 1 \in 1 .. Len(s) /\ s[k + 1] \in T
  OBVIOUS
<1>2. a \in Seq(T) /\ Len(a) = k /\ \A i \in 1 .. k : a[i] = s[i]
  BY <1>1
<1>3. b \in Seq(T) /\ Len(b) = k + 1 /\ \A i \in 1 .. k + 1 : b[i] = s[i]
  BY <1>1
<1> HIDE DEF a, b
<1>4. c \in Seq(T) /\ Len(c) = k + 1 /\ \A i \in 1 .. k + 1 : c[i] = s[i]
  BY <1>1, <1>2
<1> HIDE DEF c
<1>5. b = c
  BY <1>3, <1>4, SeqEqual
<1>6. QED
  BY <1>1, <1>2, <1>5 DEF a, b, c

LEMMA FoldPrefix ==
  ASSUME NEW T, NEW s \in Seq(T), NEW base
  PROVE  /\ Fold(base, SubSeq(s, 1, 0)) = base
         /\ Fold(base, SubSeq(s, 1, Len(s))) = Fold(base, s)
         /\ \A k \in 0 .. Len(s) - 1 :
              Fold(base, SubSeq(s, 1, k + 1)) = op(Fold(base, SubSeq(s, 1, k)), s[k + 1])
<1>1. SubSeq(s, 1, 0) = <<>>
  OBVIOUS
<1>2. SubSeq(s, 1, Len(s)) = s
  <2> DEFINE a == SubSeq(s, 1, Len(s))
  <2>1. a \in Seq(T) /\ Len(a) = Len(s) /\ \A i \in 1 .. Len(s) : a[i] = s[i]
    OBVIOUS
  <2> HIDE DEF a
  <2>2. a = s
    BY <2>1, SeqEqual
  <2>3. QED
    BY <2>2 DEF a
<1>3. ASSUME NEW k \in 0 .. Len(s) - 1
      PROVE  Fold(base, SubSeq(s, 1, k + 1)) = op(Fold(base, SubSeq(s, 1, k)), s[k + 1])
  <2> DEFINE a == SubSeq(s, 1, k)
             b == SubSeq(s, 1, k + 1)
  <2>1. a \in Seq(T) /\ s[k + 1] \in T /\ b = Append(a, s[k + 1])
    BY PrefixNext
  <2> HIDE DEF a, b
  <2>2. Fold(base, b) = op(Fold(base, a), s[k + 1])
    BY <2>1, FoldAppend
  <2>3. QED
    BY <2>2 DEF a, b
<1>4. QED
  BY <1>1, <1>2, <1>3, FoldEmpty
=============================================================================
