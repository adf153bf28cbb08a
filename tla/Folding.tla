------------------------------ MODULE Folding -------------------------------
(***************************************************************************)
(* What FoldLeft computes, for any operator: nothing on the empty sequence,*)
(* one more application for an element at the front, and in general the    *)
(* end of any sequence of results each of which follows from the one       *)
(* before.  The proofs about the encoding instantiate it for every parser  *)
(* and every list.  Like Recursion it takes induction as a hypothesis and  *)
(* extends little, because every instance repeats what it extends.         *)
(***************************************************************************)
EXTENDS Integers, Sequences, Folds

CONSTANT Op(_, _)

Greatest(S) == CHOOSE x \in S : \A y \in S : x >= y

\* FoldLeft(Op, b, s), as SequencesExt defines it.
Fold(b, s) ==
    MapThenFoldSet(LAMBDA x, y : Op(y, x), b, LAMBDA i : s[i],
                   LAMBDA S : Greatest(S), DOMAIN s)

-----------------------------------------------------------------------------
\* The recursion of MapThenFoldSet, as FoldLeft uses it: p is the start and
\* the sequence, x a set of positions.
FoldDom(p) == SUBSET DOMAIN p[2]
FoldSize(x) == IF x = {} THEN 0 ELSE Greatest(x)
FoldDef(p, f, x) ==
    IF x = {} THEN p[1] ELSE Op(f[x \ {Greatest(x)}], p[2][Greatest(x)])

R == INSTANCE Recursion WITH Dom <- FoldDom, Size <- FoldSize, Def <- FoldDef

Induction ==
    \A T : 0 \in T /\ (\A n \in Nat : n \in T => n + 1 \in T) => Nat \subseteq T

\* The greatest of the numbers from 1 to k is k.
LEMMA GreatestInInterval ==
  ASSUME NEW k \in Nat \ {0}
  PROVE  Greatest(1..k) = k
<1>1. k \in 1..k /\ \A y \in 1..k : k >= y
  OBVIOUS
<1>2. \A z \in 1..k : (\A y \in 1..k : z >= y) => z = k
  OBVIOUS
<1>3. /\ Greatest(1..k) \in 1..k
      /\ \A y \in 1..k : Greatest(1..k) >= y
  <2>1. \E x \in 1..k : \A y \in 1..k : x >= y
    BY <1>1
  <2> QED
    BY <2>1 DEF Greatest
<1> QED
  BY <1>2, <1>3

\* A set of positions that is not empty has a greatest one.
LEMMA GreatestIn ==
  ASSUME Induction, NEW n \in Nat, NEW S \in SUBSET (1..n), S # {}
  PROVE  Greatest(S) \in S /\ \A y \in S : Greatest(S) >= y
<1> DEFINE T == {k \in Nat : \A U \in SUBSET (1..k) :
                    U # {} => \E x \in U : \A y \in U : x >= y}
<1>1. 0 \in T
  <2>1. 1..0 = {}
    OBVIOUS
  <2> QED
    BY <2>1
<1>2. ASSUME NEW k \in Nat, k \in T PROVE k + 1 \in T
  <2> SUFFICES ASSUME NEW U \in SUBSET (1..(k + 1)), U # {}
               PROVE  \E x \in U : \A y \in U : x >= y
    OBVIOUS
  <2>1. CASE k + 1 \in U
    <3>1. \A y \in U : k + 1 >= y
      OBVIOUS
    <3> QED
      BY <2>1, <3>1
  <2>2. CASE k + 1 \notin U
    <3>1. U \in SUBSET (1..k)
      BY <2>2
    <3> QED
      BY <1>2, <3>1
  <2> QED
    BY <2>1, <2>2
<1>3. Nat \subseteq T
  <2> HIDE DEF T
  <2> QED
    BY <1>1, <1>2 DEF Induction
<1>4. \E x \in S : \A y \in S : x >= y
  BY <1>3
<1> QED
  BY <1>4 DEF Greatest

\* The equation looks at sets with a smaller greatest position only.
LEMMA FoldWellFounded ==
  ASSUME Induction, NEW b, NEW S, NEW s \in Seq(S)
  PROVE  R!WellFounded(<<b, s>>)
<1> DEFINE p == <<b, s>>
<1>1. FoldDom(p) = SUBSET (1..Len(s)) /\ Len(s) \in Nat
  BY DEF FoldDom
<1>2. ASSUME NEW x \in FoldDom(p), x # {}
      PROVE  /\ Greatest(x) \in x /\ \A y \in x : Greatest(x) >= y
             /\ Greatest(x) \in 1..Len(s)
  BY <1>1, <1>2, GreatestIn
<1>3. ASSUME NEW x \in FoldDom(p) PROVE FoldSize(x) \in Nat
  BY <1>1, <1>2 DEF FoldSize
<1>4. ASSUME NEW x \in FoldDom(p), NEW g, NEW h,
             \A y \in FoldDom(p) : FoldSize(y) < FoldSize(x) => g[y] = h[y]
      PROVE  FoldDef(p, g, x) = FoldDef(p, h, x)
  <2>1. CASE x = {}
    BY <2>1 DEF FoldDef
  <2>2. CASE x # {}
    <3>1. PICK y : y = x \ {Greatest(x)}
      OBVIOUS
    <3>2. y \in FoldDom(p)
      BY <1>1, <3>1
    <3>3. FoldSize(y) < FoldSize(x)
      <4>1. CASE y = {}
        BY <1>2, <2>2, <4>1, <1>1 DEF FoldSize
      <4>2. CASE y # {}
        <5>1. Greatest(y) \in y /\ Greatest(y) \in 1..Len(s)
          BY <1>2, <3>2, <4>2
        <5>2. Greatest(x) >= Greatest(y) /\ Greatest(y) # Greatest(x) /\ Greatest(x) \in 1..Len(s)
          BY <1>2, <2>2, <3>1, <5>1
        <5> QED
          BY <1>1, <2>2, <4>2, <5>1, <5>2 DEF FoldSize
      <4> QED
        BY <4>1, <4>2
    <3>4. g[y] = h[y]
      BY <1>4, <3>2, <3>3
    <3> QED
      BY <3>1, <3>4 DEF FoldDef
  <2> QED
    BY <2>1, <2>2
<1> QED
  BY <1>3, <1>4 DEF R!WellFounded

\* it holds the results of folding the first k elements of s, for every k.
Results(b, s, it) ==
    /\ Fold(b, s) = it[1..Len(s)]
    /\ it[1..0] = b
    /\ \A k \in 1..Len(s) : it[1..k] = Op(it[1..(k - 1)], s[k])

\* So FoldLeft goes from each position to the next.
LEMMA FoldSteps ==
  ASSUME Induction, NEW b, NEW S, NEW s \in Seq(S)
  PROVE  \E it : Results(b, s, it)
<1> DEFINE Eq(f) == f = [x \in SUBSET DOMAIN s |->
                            IF x = {} THEN b ELSE Op(f[x \ {Greatest(x)}], s[Greatest(x)])]
           it == CHOOSE f : Eq(f)
<1>1. \E f : f = [x \in FoldDom(<<b, s>>) |-> FoldDef(<<b, s>>, f, x)]
  BY FoldWellFounded, R!RecursiveFunction DEF Induction, R!Induction
<1>2. \E f : Eq(f)
  BY <1>1 DEF FoldDom, FoldDef
<1>3. Fold(b, s) = it[DOMAIN s]
  BY DEF Fold, MapThenFoldSet
<1>4. Eq(it)
  BY <1>2
<1> HIDE DEF it
<1>5. DOMAIN s = 1..Len(s) /\ Len(s) \in Nat
  OBVIOUS
<1>6. it[1..0] = b
  <2>1. 1..0 = {}
    OBVIOUS
  <2>2. it[{}] = b
    BY <1>4
  <2> QED
    BY <2>1, <2>2
<1>7. ASSUME NEW k \in 1..Len(s) PROVE it[1..k] = Op(it[1..(k - 1)], s[k])
  <2>1. (1..k) \ {k} = 1..(k - 1) /\ 1..k \in SUBSET DOMAIN s /\ k \in Nat \ {0}
    BY <1>5
  <2>2. Greatest(1..k) = k
    BY <2>1, GreatestInInterval
  <2>3. k \in 1..k
    BY <2>1
  <2> QED
    BY <1>4, <2>1, <2>2, <2>3
<1> QED
  BY <1>3, <1>5, <1>6, <1>7 DEF Results

-----------------------------------------------------------------------------
\* Nothing to fold.
LEMMA FoldEmpty ==
  ASSUME Induction
  PROVE  \A b : Fold(b, <<>>) = b
<1> SUFFICES ASSUME NEW b PROVE Fold(b, <<>>) = b
  OBVIOUS
<1>1. <<>> \in Seq({}) /\ Len(<<>>) = 0
  OBVIOUS
<1>2. PICK it : Results(b, <<>>, it)
  BY <1>1, FoldSteps
<1> QED
  BY <1>1, <1>2 DEF Results

\* A sequence of results, each one obtained from the one before, ends with
\* the result of the fold.
LEMMA FoldTrace ==
  ASSUME Induction, NEW S, NEW b, NEW s \in Seq(S), NEW r, r[0] = b,
         \A k \in 1..Len(s) : r[k] = Op(r[k - 1], s[k])
  PROVE  Fold(b, s) = r[Len(s)]
<1>1. Len(s) \in Nat
  OBVIOUS
<1>2. PICK f : Results(b, s, f)
  BY FoldSteps
<1> DEFINE T == {k \in Nat : k <= Len(s) => f[1..k] = r[k]}
<1>3. 0 \in T
  BY <1>2 DEF Results
<1>4. ASSUME NEW k \in Nat, k \in T PROVE k + 1 \in T
  <2> SUFFICES ASSUME k + 1 <= Len(s) PROVE f[1..(k + 1)] = r[k + 1]
    OBVIOUS
  <2>1. k + 1 \in 1..Len(s) /\ (k + 1) - 1 = k
    BY <1>1
  <2>2. f[1..(k + 1)] = Op(f[1..k], s[k + 1])
    BY <1>2, <2>1 DEF Results
  <2>3. r[k + 1] = Op(r[k], s[k + 1])
    BY <2>1
  <2>4. f[1..k] = r[k]
    BY <1>1, <1>4
  <2> QED
    BY <2>2, <2>3, <2>4
<1> HIDE DEF T
<1>5. Nat \subseteq T
  BY <1>3, <1>4 DEF Induction
<1> QED
  BY <1>1, <1>2, <1>5 DEF T, Results

\* An element at the front is folded first.
LEMMA FoldFront ==
  ASSUME Induction, NEW S, NEW b, NEW x \in S, NEW s \in Seq(S)
  PROVE  Fold(b, <<x>> \o s) = Fold(Op(b, x), s)
<1>1. PICK t : t = <<x>> \o s
  OBVIOUS
<1>2. /\ t \in Seq(S) /\ Len(t) = Len(s) + 1 /\ Len(s) \in Nat /\ t[1] = x
      /\ \A i \in 1..Len(s) : t[i + 1] = s[i]
  BY <1>1
<1>3. PICK f : Results(Op(b, x), s, f)
  BY FoldSteps
<1>4. PICK g : Results(b, t, g)
  BY <1>2, FoldSteps
<1> DEFINE T == {k \in Nat : k <= Len(s) => f[1..k] = g[1..(k + 1)]}
<1>5. 0 \in T
  <2>1. 1 \in 1..Len(t) /\ 1 - 1 = 0 /\ 0 + 1 = 1
    BY <1>2
  <2>2. g[1..1] = Op(g[1..0], t[1])
    BY <1>4, <2>1 DEF Results
  <2>3. f[1..0] = g[1..1]
    BY <1>2, <1>3, <1>4, <2>2 DEF Results
  <2> QED
    BY <2>1, <2>3
<1>6. ASSUME NEW k \in Nat, k \in T PROVE k + 1 \in T
  <2> SUFFICES ASSUME k + 1 <= Len(s) PROVE f[1..(k + 1)] = g[1..((k + 1) + 1)]
    OBVIOUS
  <2>1. k + 1 \in 1..Len(s) /\ (k + 1) + 1 \in 1..Len(t) /\ ((k + 1) + 1) - 1 = k + 1
        /\ (k + 1) - 1 = k
    BY <1>2
  <2>2. f[1..(k + 1)] = Op(f[1..k], s[k + 1])
    BY <1>3, <2>1 DEF Results
  <2>3. g[1..((k + 1) + 1)] = Op(g[1..(k + 1)], t[(k + 1) + 1])
    BY <1>4, <2>1 DEF Results
  <2>4. f[1..k] = g[1..(k + 1)]
    BY <1>2, <1>6
  <2>5. t[(k + 1) + 1] = s[k + 1]
    BY <1>2, <2>1
  <2> QED
    BY <2>2, <2>3, <2>4, <2>5
<1> HIDE DEF T
<1>7. Nat \subseteq T
  BY <1>5, <1>6 DEF Induction
<1>8. f[1..Len(s)] = g[1..(Len(s) + 1)]
  BY <1>2, <1>7 DEF T
<1> QED
  BY <1>1, <1>2, <1>3, <1>4, <1>8 DEF Results

=============================================================================
