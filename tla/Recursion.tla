----------------------------- MODULE Recursion ------------------------------
(***************************************************************************)
(* A recursive function of TLA+ is whatever satisfies its equation, if     *)
(* anything does.  This module proves, for any equation whose right-hand   *)
(* side looks at smaller arguments only, that a function satisfies it.     *)
(* The proofs about the encoding instantiate it for each of the functions  *)
(* they unfold: f[x] = Def(p, f, x) for x in Dom(p), where p stands for    *)
(* whatever else the equation depends on.                                  *)
(***************************************************************************)
EXTENDS Integers

CONSTANTS
    Dom(_),        \* the arguments of the function
    Size(_),       \* what decreases from an argument to those it looks at
    Def(_, _, _)   \* the right-hand side of the equation

\* Induction over the numbers, for a property given as the set of the numbers
\* that have it.  It is a hypothesis of what is proved here, which keeps the
\* library that proves it out of the instances of this module.
Induction ==
    \A T : 0 \in T /\ (\A n \in Nat : n \in T => n + 1 \in T) => Nat \subseteq T

-----------------------------------------------------------------------------
\* The part of the function on the arguments smaller than n.
Below(p, n) == {x \in Dom(p) : Size(x) < n}
Approx(p, n, f) == f = [x \in Below(p, n) |-> Def(p, f, x)]

\* The equation is well-founded: its right-hand side at x looks at smaller
\* arguments only.
WellFounded(p) ==
    /\ \A x \in Dom(p) : Size(x) \in Nat
    /\ \A x \in Dom(p) : \A g, h :
           (\A y \in Dom(p) : Size(y) < Size(x) => g[y] = h[y])
               => Def(p, g, x) = Def(p, h, x)

\* Two parts agree where both are defined.
LEMMA ApproxUnique ==
  ASSUME Induction, NEW p, WellFounded(p), NEW n \in Nat, NEW m \in Nat,
         NEW f, NEW g, Approx(p, n, f), Approx(p, m, g)
  PROVE  \A x \in Dom(p) : Size(x) < n /\ Size(x) < m => f[x] = g[x]
<1> DEFINE T == {k \in Nat : \A x \in Dom(p) :
                    Size(x) < k /\ Size(x) < n /\ Size(x) < m => f[x] = g[x]}
<1>1. 0 \in T
  BY DEF WellFounded
<1>2. ASSUME NEW k \in Nat, k \in T PROVE k + 1 \in T
  <2> SUFFICES ASSUME NEW x \in Dom(p), Size(x) < k + 1, Size(x) < n, Size(x) < m
               PROVE  f[x] = g[x]
    OBVIOUS
  <2>1. \A y \in Dom(p) : Size(y) < Size(x) => f[y] = g[y]
    BY <1>2 DEF WellFounded
  <2>2. Def(p, f, x) = Def(p, g, x)
    BY <2>1 DEF WellFounded
  <2>3. f[x] = Def(p, f, x) /\ g[x] = Def(p, g, x)
    BY DEF Approx, Below
  <2> QED
    BY <2>2, <2>3
<1>3. Nat \subseteq T
  <2> HIDE DEF T
  <2> QED BY <1>1, <1>2 DEF Induction
<1> SUFFICES ASSUME NEW x \in Dom(p), Size(x) < n, Size(x) < m PROVE f[x] = g[x]
  OBVIOUS
<1>4. Size(x) + 1 \in T /\ Size(x) < Size(x) + 1
  BY <1>3 DEF WellFounded
<1> QED
  BY <1>4

\* Every part exists.
LEMMA ApproxExists ==
  ASSUME Induction, NEW p, WellFounded(p)
  PROVE  \A n \in Nat : \E f : Approx(p, n, f)
<1> DEFINE T == {n \in Nat : \E f : Approx(p, n, f)}
<1>1. 0 \in T
  <2> DEFINE f == [x \in Below(p, 0) |-> Def(p, <<>>, x)]
  <2>1. Below(p, 0) = {}
    BY DEF Below, WellFounded
  <2>2. Approx(p, 0, f)
    BY <2>1 DEF Approx
  <2> QED
    BY <2>2
<1>2. ASSUME NEW n \in Nat, n \in T PROVE n + 1 \in T
  <2>1. PICK f : Approx(p, n, f)
    BY <1>2
  <2> DEFINE g == [x \in Below(p, n + 1) |-> Def(p, f, x)]
  <2>2. ASSUME NEW x \in Dom(p), Size(x) < n PROVE g[x] = f[x]
    <3>1. x \in Below(p, n) /\ x \in Below(p, n + 1)
      BY <2>2 DEF Below, WellFounded
    <3> QED
      BY <2>1, <3>1 DEF Approx
  <2> HIDE DEF g
  <2>3. ASSUME NEW x \in Below(p, n + 1) PROVE Def(p, f, x) = Def(p, g, x)
    <3>1. x \in Dom(p) /\ Size(x) \in Nat /\ Size(x) <= n
      BY DEF Below, WellFounded
    <3>2. \A y \in Dom(p) : Size(y) < Size(x) => f[y] = g[y]
      BY <2>2, <3>1 DEF WellFounded
    <3> QED
      BY <3>1, <3>2 DEF WellFounded
  <2>4. Approx(p, n + 1, g)
    BY <2>3 DEF Approx, g
  <2> QED
    BY <2>4
<1> HIDE DEF T
<1>3. Nat \subseteq T
  BY <1>1, <1>2 DEF Induction
<1> QED
  BY <1>3 DEF T

\* A function defined by a well-founded equation satisfies it.
THEOREM RecursiveFunction ==
  ASSUME Induction, NEW p, WellFounded(p)
  PROVE  \E f : f = [x \in Dom(p) |-> Def(p, f, x)]
<1> DEFINE A(n) == CHOOSE f : Approx(p, n, f)
           F == [x \in Dom(p) |-> A(Size(x) + 1)[x]]
<1>1. \A n \in Nat : Approx(p, n, A(n))
  BY ApproxExists
<1> HIDE DEF A
<1>2. ASSUME NEW x \in Dom(p) PROVE F[x] = Def(p, F, x)
  <2>1. Size(x) \in Nat /\ Size(x) + 1 \in Nat /\ x \in Below(p, Size(x) + 1)
    BY DEF WellFounded, Below
  <2>2. F[x] = Def(p, A(Size(x) + 1), x)
    BY <1>1, <2>1 DEF Approx
  <2>3. ASSUME NEW y \in Dom(p), Size(y) < Size(x)
        PROVE  F[y] = A(Size(x) + 1)[y]
    <3>1. Size(y) \in Nat /\ Size(y) + 1 \in Nat /\ Size(y) < Size(y) + 1 /\ Size(y) < Size(x) + 1
      BY <2>1, <2>3 DEF WellFounded
    <3>2. A(Size(y) + 1)[y] = A(Size(x) + 1)[y]
      BY <1>1, <2>1, <3>1, ApproxUnique
    <3> QED
      BY <3>2
  <2>4. Def(p, A(Size(x) + 1), x) = Def(p, F, x)
    <3> HIDE DEF F
    <3> QED BY <2>3 DEF WellFounded
  <2> QED
    BY <2>2, <2>4
<1>3. F = [x \in Dom(p) |-> Def(p, F, x)]
  BY <1>2
<1> HIDE DEF F
<1> QED
  BY <1>3

=============================================================================
