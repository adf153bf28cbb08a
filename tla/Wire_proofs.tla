----------------------------- MODULE Wire_proofs ----------------------------
(***************************************************************************)
(* Proofs about Messages and Wire, for any identifiers, any strings and    *)
(* lists of any length.                                                    *)
(*                                                                         *)
(* Every message that is written is read back as it was, and takes as many *)
(* bytes as ByteSize says.  The argument goes from the inside out: varints *)
(* and fixed64 numbers, a field (a tag and a value), the messages made of  *)
(* strings and numbers, those that hold other messages, those that are     *)
(* lists of rows, the wrapped message, and the frame with its prefix.      *)
(*                                                                         *)
(* What a recursive function computes is taken from instances of Recursion *)
(* (Varint, ReadVarint, Fields, ...), and what a fold computes from        *)
(* instances of Folding (T_P is the parser of T, its Op one step of        *)
(* MergePartialFromCodedStream).  A property of all sequences is proved as *)
(* one of all lengths, with Induction.                                     *)
(*                                                                         *)
(* With that, Inv says byte by byte what is on its way in each phase of a  *)
(* request, and the invariants of Wire follow from it.                     *)
(***************************************************************************)
EXTENDS Wire, SequenceTheorems, WellFoundedInduction, TLAPS

\* Induction over the numbers, for a property given as the set of the numbers
\* that have it.
LEMMA Induction ==
  \A T : 0 \in T /\ (\A n \in Nat : n \in T => n + 1 \in T) => Nat \subseteq T
<1> SUFFICES ASSUME NEW T, 0 \in T, \A n \in Nat : n \in T => n + 1 \in T
             PROVE  Nat \subseteq T
  OBVIOUS
<1> DEFINE U == Nat \ T
<1> SUFFICES ASSUME U # {} PROVE FALSE
  OBVIOUS
<1>1. \E x \in U : \A y \in U : ~(<<y, x>> \in OpToRel(<, Nat))
  BY WFMin, NatLessThanWellFounded
<1>2. PICK x \in U : \A y \in U : ~(<<y, x>> \in OpToRel(<, Nat))
  BY <1>1
<1>3. \A y \in U : ~(y < x)
  BY <1>2 DEF OpToRel
<1>4. x # 0 /\ x - 1 \in Nat
  OBVIOUS
<1>5. x - 1 \in U
  BY <1>4, (x - 1) + 1 = x
<1> QED
  BY <1>3, <1>4, <1>5

\* A function on the first n positions is a sequence of length n.
LEMMA IsSequence ==
  ASSUME NEW S, NEW n \in Nat, NEW f \in [1..n -> S]
  PROVE  f \in Seq(S) /\ Len(f) = n
<1>1. f \in Seq(S)
  OBVIOUS
<1> QED
  OBVIOUS

\* What is written to a socket, and what is read from it.
Encoded == Seq(0..255)

\* Bytes are numbers.
LEMMA EncodedIsInput == Encoded \subseteq Seq(Nat)
<1>1. 0..255 \subseteq Nat
  OBVIOUS
<1> QED
  BY <1>1, SeqMonotonic DEF Encoded

-----------------------------------------------------------------------------
(***************************************************************************)
(* Varints.                                                                *)
(***************************************************************************)

Numbers(p) == Nat
Itself(n) == n
VarintEquation(p, f, v) ==
    IF v < 128 THEN <<v>> ELSE <<128 + (v % 128)>> \o f[v \div 128]

VarintR == INSTANCE Recursion
    WITH Dom <- Numbers, Size <- Itself, Def <- VarintEquation

\* Dividing makes a number smaller.
LEMMA Quotient ==
  \A v \in Nat : /\ v \div 128 \in Nat /\ v % 128 \in 0..127
                 /\ v = (v % 128) + 128 * (v \div 128)
                 /\ v >= 128 => v \div 128 < v
  OBVIOUS

\* Varint satisfies its equation.
LEMMA VarintUnfolds ==
  \A v \in Nat : Varint[v] = IF v < 128 THEN <<v>>
                             ELSE <<128 + (v % 128)>> \o Varint[v \div 128]
<1>1. VarintR!WellFounded(0)
  <2>1. ASSUME NEW v \in Nat, NEW g, NEW h, \A w \in Nat : w < v => g[w] = h[w]
        PROVE  VarintEquation(0, g, v) = VarintEquation(0, h, v)
    BY <2>1, Quotient DEF VarintEquation
  <2> QED
    BY <2>1 DEF VarintR!WellFounded, Numbers, Itself
<1>2. \E f : f = [v \in Nat |-> IF v < 128 THEN <<v>> ELSE <<128 + (v % 128)>> \o f[v \div 128]]
  <2>1. \E f : f = [v \in Numbers(0) |-> VarintEquation(0, f, v)]
    BY <1>1, Induction, VarintR!RecursiveFunction DEF VarintR!Induction
  <2> QED
    BY <2>1 DEF Numbers, VarintEquation
<1>3. Varint = [v \in Nat |-> IF v < 128 THEN <<v>>
                              ELSE <<128 + (v % 128)>> \o Varint[v \div 128]]
  BY <1>2, Zenon DEF Varint
<1> QED
  BY <1>3

\* A varint is one byte or more.
LEMMA VarintType == \A v \in Nat : Varint[v] \in Encoded /\ Varint[v] # <<>>
<1> DEFINE T == {n \in Nat : \A v \in Nat : v < n => Varint[v] \in Encoded /\ Varint[v] # <<>>}
<1>1. 0 \in T
  OBVIOUS
<1>2. ASSUME NEW n \in Nat, n \in T PROVE n + 1 \in T
  <2> SUFFICES ASSUME NEW v \in Nat, v < n + 1
               PROVE  Varint[v] \in Encoded /\ Varint[v] # <<>>
    OBVIOUS
  <2>1. CASE v < 128
    <3>1. Varint[v] = <<v>>
      BY <2>1, VarintUnfolds
    <3> QED
      BY <2>1, <3>1 DEF Encoded
  <2>2. CASE v >= 128
    <3>1. Varint[v] = <<128 + (v % 128)>> \o Varint[v \div 128]
      <4>1. ~(v < 128)
        BY <2>2
      <4> QED
        BY <4>1, VarintUnfolds, Zenon
    <3>2. v \div 128 \in Nat /\ v \div 128 < n
      BY <2>2, Quotient
    <3>3. Varint[v \div 128] \in Encoded
      BY <1>2, <3>2
    <3>4. 128 + (v % 128) \in 0..255
      BY Quotient
    <3> HIDE DEF T
    <3>5. <<128 + (v % 128)>> \in Encoded /\ <<128 + (v % 128)>> # <<>>
      BY <3>4 DEF Encoded
    <3> QED
      BY <3>1, <3>3, <3>5, ConcatProperties, ConcatEqualIffEmpty DEF Encoded
  <2> QED
    BY <2>1, <2>2
<1> HIDE DEF T
<1>3. Nat \subseteq T
  BY <1>1, <1>2, Induction
<1> QED
  <2> SUFFICES ASSUME NEW v \in Nat PROVE Varint[v] \in Encoded /\ Varint[v] # <<>>
    OBVIOUS
  <2>1. v + 1 \in T /\ v < v + 1
    BY <1>3
  <2> QED
    BY <2>1 DEF T

Inputs(p) == Seq(Nat)
ReadVarintEquation(p, f, s) ==
    IF s = <<>> THEN Failure
    ELSE IF Head(s) < 128 THEN [value |-> Head(s), rest |-> Tail(s)]
    ELSE IF f[Tail(s)] = Failure THEN Failure
    ELSE [value |-> Head(s) - 128 + 128 * f[Tail(s)].value, rest |-> f[Tail(s)].rest]

ReadVarintR == INSTANCE Recursion
    WITH Dom <- Inputs, Size <- Len, Def <- ReadVarintEquation

\* ReadVarint satisfies its equation.
LEMMA ReadVarintUnfolds ==
  \A s \in Seq(Nat) :
    ReadVarint[s] =
      IF s = <<>> THEN Failure
      ELSE IF Head(s) < 128 THEN [value |-> Head(s), rest |-> Tail(s)]
      ELSE IF ReadVarint[Tail(s)] = Failure THEN Failure
      ELSE [value |-> Head(s) - 128 + 128 * ReadVarint[Tail(s)].value,
            rest |-> ReadVarint[Tail(s)].rest]
<1>1. ReadVarintR!WellFounded(0)
  <2>1. ASSUME NEW s \in Seq(Nat), NEW g, NEW h,
               \A t \in Seq(Nat) : Len(t) < Len(s) => g[t] = h[t]
        PROVE  ReadVarintEquation(0, g, s) = ReadVarintEquation(0, h, s)
    <3>1. CASE s = <<>>
      BY <3>1 DEF ReadVarintEquation
    <3>2. CASE s # <<>>
      <4>1. Tail(s) \in Seq(Nat) /\ Len(Tail(s)) < Len(s)
        BY <3>2, HeadTailProperties, LenProperties
      <4>2. g[Tail(s)] = h[Tail(s)]
        BY <2>1, <4>1
      <4> QED
        BY <4>2, Zenon DEF ReadVarintEquation
    <3> QED
      BY <3>1, <3>2
  <2> QED
    BY <2>1, LenProperties DEF ReadVarintR!WellFounded, Inputs
<1>2. \E f : f = [s \in Seq(Nat) |-> ReadVarintEquation(0, f, s)]
  <2>1. \E f : f = [s \in Inputs(0) |-> ReadVarintEquation(0, f, s)]
    BY <1>1, Induction, ReadVarintR!RecursiveFunction DEF ReadVarintR!Induction
  <2> QED
    BY <2>1 DEF Inputs
<1>3. ReadVarint = [s \in Seq(Nat) |-> ReadVarintEquation(0, ReadVarint, s)]
  BY <1>2, Zenon DEF ReadVarint, ReadVarintEquation
<1>4. \A s \in Seq(Nat) : ReadVarint[s] = ReadVarintEquation(0, ReadVarint, s)
  BY <1>3
<1> QED
  BY <1>4, Zenon DEF ReadVarintEquation

\* What a successful read returns is not Failure.
LEMMA ReadIsNoFailure == \A v, r : [value |-> v, rest |-> r] # Failure
  BY DEF Failure

\* The value and the rest of what was read.
LEMMA ReadParts ==
  \A v, r : [value |-> v, rest |-> r].value = v /\ [value |-> v, rest |-> r].rest = r
  OBVIOUS

\* Something was read from the front of s.
IsRead(x, V, s) == \E v \in V, r \in Seq(Nat) :
    x = [value |-> v, rest |-> r] /\ Len(r) < Len(s)

\* Reading a varint takes at least one byte.
LEMMA ReadVarintType ==
  \A s \in Seq(Nat) : ReadVarint[s] = Failure \/ IsRead(ReadVarint[s], Nat, s)
<1> DEFINE T == {n \in Nat : \A s \in Seq(Nat) : Len(s) = n =>
                    (ReadVarint[s] = Failure \/ IsRead(ReadVarint[s], Nat, s))}
<1>1. 0 \in T
  <2> SUFFICES ASSUME NEW s \in Seq(Nat), Len(s) = 0 PROVE ReadVarint[s] = Failure
    OBVIOUS
  <2>1. s = <<>>
    BY EmptySeq
  <2> QED
    BY <2>1, ReadVarintUnfolds, Zenon
<1>2. ASSUME NEW n \in Nat, n \in T PROVE n + 1 \in T
  <2> SUFFICES ASSUME NEW s \in Seq(Nat), Len(s) = n + 1, ReadVarint[s] # Failure
               PROVE  IsRead(ReadVarint[s], Nat, s)
    OBVIOUS
  <2>1. s # <<>>
    BY EmptySeq
  <2>2. Head(s) \in Nat /\ Tail(s) \in Seq(Nat) /\ Len(Tail(s)) = n
    BY <2>1, HeadTailProperties
  <2>3. ReadVarint[Tail(s)] = Failure \/ IsRead(ReadVarint[Tail(s)], Nat, Tail(s))
    BY <1>2, <2>2
  <2> HIDE DEF T
  <2>4. CASE Head(s) < 128
    <3>1. ReadVarint[s] = [value |-> Head(s), rest |-> Tail(s)]
      BY <2>1, <2>4, ReadVarintUnfolds, Zenon
    <3>2. Len(Tail(s)) < Len(s)
      BY <2>2
    <3> QED
      BY <2>2, <3>1, <3>2 DEF IsRead
  <2>5. CASE ~(Head(s) < 128)
    <3>1. /\ ReadVarint[Tail(s)] # Failure
          /\ ReadVarint[s] = [value |-> Head(s) - 128 + 128 * ReadVarint[Tail(s)].value,
                              rest |-> ReadVarint[Tail(s)].rest]
      BY <2>1, <2>5, ReadVarintUnfolds, Zenon
    <3>2. PICK v \in Nat, r \in Seq(Nat) :
             ReadVarint[Tail(s)] = [value |-> v, rest |-> r] /\ Len(r) < Len(Tail(s))
      BY <2>3, <3>1 DEF IsRead
    <3>3. ReadVarint[s] = [value |-> Head(s) - 128 + 128 * v, rest |-> r]
      BY <3>1, <3>2, ReadParts
    <3>4. Head(s) - 128 + 128 * v \in Nat
      BY <2>2, <2>5
    <3>5. Len(r) < Len(s)
      BY <2>2, <3>2, LenProperties
    <3> QED
      BY <3>3, <3>4, <3>5 DEF IsRead
  <2> QED
    BY <2>4, <2>5
<1> HIDE DEF T
<1>3. Nat \subseteq T
  BY <1>1, <1>2, Induction
<1> QED
  BY <1>3, LenProperties DEF T

\* What is in front of an input.
LEMMA FrontOf ==
  ASSUME NEW x \in Nat, NEW s \in Seq(Nat)
  PROVE  /\ <<x>> \o s \in Seq(Nat) /\ <<x>> \o s # <<>>
         /\ Head(<<x>> \o s) = x /\ Tail(<<x>> \o s) = s
  OBVIOUS

\* A byte by itself.
LEMMA OneByte == \A x \in 0..255 : <<x>> \in Encoded /\ Len(<<x>>) = 1
  BY DEF Encoded

\* No bytes, and bytes put together, are bytes.
LEMMA NoBytes == <<>> \in Encoded /\ Len(<<>>) = 0
  BY EmptySeq DEF Encoded

\* Nothing in front or behind changes nothing.
LEMMA NothingAround == \A u \in Encoded : <<>> \o u = u /\ u \o <<>> = u
  BY ConcatEmptySeq DEF Encoded

\* Bytes after bytes.
LEMMA Concat ==
  \A a, b \in Encoded : /\ a \o b \in Encoded /\ Len(a \o b) = Len(a) + Len(b)
                        /\ a \o <<>> = a /\ <<>> \o a = a /\ Len(a) \in Nat
  BY ConcatProperties, LenProperties, ConcatEmptySeq DEF Encoded

\* How bytes are grouped does not matter.
LEMMA Regroup == \A a, b, c \in Encoded : (a \o b) \o c = a \o (b \o c)
  BY ConcatAssociative DEF Encoded

\* b is a varint that is read as v, whatever follows it.
IsVarint(b, v) ==
    \A t \in Encoded : ReadVarint[b \o t] = [value |-> v, rest |-> t]

\* One byte that says that more follow.
LEMMA VarintMore ==
  ASSUME NEW x \in 128..255, NEW w \in Nat, NEW b \in Encoded, IsVarint(b, w)
  PROVE  IsVarint(<<x>> \o b, x - 128 + 128 * w)
<1> SUFFICES ASSUME NEW t \in Encoded
             PROVE  ReadVarint[(<<x>> \o b) \o t] = [value |-> x - 128 + 128 * w, rest |-> t]
  BY Zenon DEF IsVarint
<1>1. PICK u : u = b \o t
  OBVIOUS
<1>2. u \in Seq(Nat) /\ (<<x>> \o b) \o t = <<x>> \o u
  <2>1. PICK h \in Encoded : h = <<x>>
    BY OneByte, x \in 0..255
  <2>2. u \in Encoded
    BY <1>1, Concat
  <2>3. (h \o b) \o t = h \o u
    BY <1>1, <2>1, Regroup
  <2> QED
    BY <2>1, <2>2, <2>3, EncodedIsInput
<1>3. PICK z \in Seq(Nat) : z = <<x>> \o u /\ z # <<>> /\ Head(z) = x /\ Tail(z) = u
  <2>1. /\ <<x>> \o u \in Seq(Nat) /\ <<x>> \o u # <<>>
        /\ Head(<<x>> \o u) = x /\ Tail(<<x>> \o u) = u
    BY <1>2, FrontOf, x \in Nat, Zenon
  <2> QED
    BY <2>1, Zenon
<1>4. ReadVarint[Tail(z)] = [value |-> w, rest |-> t]
  BY <1>1, <1>3 DEF IsVarint
<1>5. ~(Head(z) < 128)
  BY <1>3
<1>6. ReadVarint[Tail(z)] # Failure
  BY <1>4, ReadIsNoFailure, Zenon
<1>7. ReadVarint[z] = [value |-> Head(z) - 128 + 128 * ReadVarint[Tail(z)].value,
                       rest |-> ReadVarint[Tail(z)].rest]
  BY <1>3, <1>5, <1>6, ReadVarintUnfolds, Zenon
<1>8. ReadVarint[Tail(z)].value = w /\ ReadVarint[Tail(z)].rest = t
  BY <1>4
<1> QED
  BY <1>2, <1>3, <1>7, <1>8

\* A byte that says that it is the last one.
LEMMA VarintLast ==
  ASSUME NEW v \in 0..127
  PROVE  IsVarint(<<v>>, v)
<1> SUFFICES ASSUME NEW t \in Encoded
             PROVE  ReadVarint[<<v>> \o t] = [value |-> v, rest |-> t]
  BY Zenon DEF IsVarint
<1>1. t \in Seq(Nat) /\ v \in Nat /\ v < 128
  BY EncodedIsInput
<1>2. /\ <<v>> \o t \in Seq(Nat) /\ <<v>> \o t # <<>>
      /\ Head(<<v>> \o t) = v /\ Tail(<<v>> \o t) = t
  BY <1>1, FrontOf, Zenon
<1> QED
  BY <1>1, <1>2, ReadVarintUnfolds, Zenon

\* A varint that was written is read back, and nothing after it is touched.
THEOREM VarintRoundTrip == \A v \in Nat : IsVarint(Varint[v], v)
<1> DEFINE T == {n \in Nat : \A v \in Nat : v < n => IsVarint(Varint[v], v)}
<1>1. 0 \in T
  OBVIOUS
<1>2. ASSUME NEW n \in Nat, n \in T PROVE n + 1 \in T
  <2> SUFFICES ASSUME NEW v \in Nat, v < n + 1 PROVE IsVarint(Varint[v], v)
    OBVIOUS
  <2>1. CASE v < 128
    <3>1. Varint[v] = <<v>>
      BY <2>1, VarintUnfolds
    <3> QED
      BY <2>1, <3>1, VarintLast, v \in 0..127
  <2>2. CASE ~(v < 128)
    <3>1. PICK x \in 128..255, w \in Nat :
             x = 128 + (v % 128) /\ w = v \div 128 /\ w < n /\ v = x - 128 + 128 * w
      <4>1. 128 + (v % 128) \in 128..255 /\ v \div 128 \in Nat /\ v \div 128 < n
            /\ v = (128 + (v % 128)) - 128 + 128 * (v \div 128)
        BY <2>2, Quotient
      <4> QED
        BY <4>1, Zenon
    <3>2. Varint[v] = <<x>> \o Varint[w]
      BY <2>2, <3>1, VarintUnfolds, Zenon
    <3>3. IsVarint(Varint[w], w) /\ Varint[w] \in Encoded
      BY <1>2, <3>1, VarintType
    <3> HIDE DEF T
    <3>4. IsVarint(<<x>> \o Varint[w], x - 128 + 128 * w)
      BY <3>3, VarintMore
    <3> QED
      BY <3>1, <3>2, <3>4, Zenon
  <2> QED
    BY <2>1, <2>2
<1> HIDE DEF T
<1>3. Nat \subseteq T
  BY <1>1, <1>2, Induction
<1> QED
  <2> SUFFICES ASSUME NEW v \in Nat PROVE IsVarint(Varint[v], v)
    OBVIOUS
  <2>1. v + 1 \in T /\ v < v + 1
    BY <1>3
  <2> QED
    BY <2>1 DEF T

-----------------------------------------------------------------------------
(***************************************************************************)
(* Numbers of eight bytes.                                                 *)
(***************************************************************************)

ShiftDom(p) == 0..7
ShiftEquation(v, f, i) == IF i = 0 THEN v ELSE f[i - 1] \div 256

ShiftR == INSTANCE Recursion
    WITH Dom <- ShiftDom, Size <- Itself, Def <- ShiftEquation

FromDom(p) == 1..9
FromSize(i) == 9 - i
FromEquation(b, f, i) == IF i = 9 THEN 0 ELSE b[i] + 256 * f[i + 1]

FromR == INSTANCE Recursion
    WITH Dom <- FromDom, Size <- FromSize, Def <- FromEquation

\* The bytes are taken off one after the other, the lowest first.
LEMMA Fixed64Unfolds ==
  ASSUME NEW v \in Nat
  PROVE  \E sh : /\ sh[0] = v
                 /\ \A i \in 1..7 : sh[i] = sh[i - 1] \div 256
                 /\ Fixed64(v) = [i \in 1..8 |-> sh[i - 1] % 256]
<1>1. ShiftR!WellFounded(v)
  <2>1. ASSUME NEW i \in 0..7, NEW g, NEW h, \A j \in 0..7 : j < i => g[j] = h[j]
        PROVE  ShiftEquation(v, g, i) = ShiftEquation(v, h, i)
    BY <2>1 DEF ShiftEquation
  <2> QED
    BY <2>1 DEF ShiftR!WellFounded, ShiftDom, Itself
<1> DEFINE Eq(f) == f = [i \in 0..7 |-> IF i = 0 THEN v ELSE f[i - 1] \div 256]
           sh == CHOOSE f : Eq(f)
<1>2. \E f : f = [i \in ShiftDom(v) |-> ShiftEquation(v, f, i)]
  BY <1>1, Induction, ShiftR!RecursiveFunction DEF ShiftR!Induction
<1>3. \E f : Eq(f)
  BY <1>2 DEF ShiftDom, ShiftEquation
<1>4. Eq(sh)
  BY <1>3, Zenon
<1>5. Fixed64(v) = [i \in 1..8 |-> sh[i - 1] % 256]
  BY DEF Fixed64
<1> HIDE DEF sh
<1>6. sh[0] = v /\ \A i \in 1..7 : sh[i] = sh[i - 1] \div 256
  BY <1>4
<1> QED
  BY <1>5, <1>6

\* And put together again from the highest.
LEMMA FromFixed64Unfolds ==
  ASSUME NEW b
  PROVE  \E from : /\ from[9] = 0
                   /\ \A i \in 1..8 : from[i] = b[i] + 256 * from[i + 1]
                   /\ FromFixed64(b) = from[1]
<1>1. FromR!WellFounded(b)
  <2>1. ASSUME NEW i \in 1..9, NEW g, NEW h, \A j \in 1..9 : 9 - j < 9 - i => g[j] = h[j]
        PROVE  FromEquation(b, g, i) = FromEquation(b, h, i)
    BY <2>1 DEF FromEquation
  <2> QED
    BY <2>1 DEF FromR!WellFounded, FromDom, FromSize
<1> DEFINE Eq(f) == f = [i \in 1..9 |-> IF i = 9 THEN 0 ELSE b[i] + 256 * f[i + 1]]
           from == CHOOSE f : Eq(f)
<1>2. \E f : f = [i \in FromDom(b) |-> FromEquation(b, f, i)]
  BY <1>1, Induction, FromR!RecursiveFunction DEF FromR!Induction
<1>3. \E f : Eq(f)
  BY <1>2 DEF FromDom, FromEquation
<1>4. Eq(from)
  BY <1>3, Zenon
<1>5. FromFixed64(b) = from[1]
  BY DEF FromFixed64
<1> HIDE DEF from
<1>6. from[9] = 0 /\ \A i \in 1..8 : from[i] = b[i] + 256 * from[i + 1]
  BY <1>4
<1> QED
  BY <1>5, <1>6

\* Eight numbers make a number.
LEMMA FromFixed64Type ==
  ASSUME NEW b, \A i \in 1..8 : b[i] \in Nat
  PROVE  FromFixed64(b) \in Nat
<1>1. PICK from : /\ from[9] = 0
                  /\ \A i \in 1..8 : from[i] = b[i] + 256 * from[i + 1]
                  /\ FromFixed64(b) = from[1]
  BY FromFixed64Unfolds
<1>2. from[8] \in Nat
  BY <1>1, 8 + 1 = 9
<1>3. from[7] \in Nat
  BY <1>1, <1>2, 7 + 1 = 8
<1>4. from[6] \in Nat
  BY <1>1, <1>3, 6 + 1 = 7
<1>5. from[5] \in Nat
  BY <1>1, <1>4, 5 + 1 = 6
<1>6. from[4] \in Nat
  BY <1>1, <1>5, 4 + 1 = 5
<1>7. from[3] \in Nat
  BY <1>1, <1>6, 3 + 1 = 4
<1>8. from[2] \in Nat
  BY <1>1, <1>7, 2 + 1 = 3
<1>9. from[1] \in Nat
  BY <1>1, <1>8, 1 + 1 = 2
<1> QED
  BY <1>1, <1>9

\* One byte of a number and what is left of it.
LEMMA ByteOf ==
  \A v \in Nat : /\ v \div 256 \in Nat /\ v % 256 \in 0..255
                 /\ v = (v % 256) + 256 * (v \div 256)
  OBVIOUS

\* An int has four bytes.
LEMMA FourBytes ==
  ASSUME NEW a \in Nat, a <= INT_MAX, NEW b, NEW c, NEW d,
         b = a \div 256, c = b \div 256, d = c \div 256
  PROVE  d \div 256 = 0
<1>1. a <= 2147483647
  BY SMT DEF INT_MAX
<1>2. b \in Nat /\ b < 8388608
  BY <1>1, SMT
<1>3. c \in Nat /\ c < 32768
  BY <1>2, SMT
<1>4. d \in Nat /\ d < 128
  BY <1>3, SMT
<1> QED
  BY <1>4, SMT

\* A length that an int can hold is read back from its eight bytes.
THEOREM Fixed64RoundTrip ==
  ASSUME NEW v \in Nat, v <= INT_MAX
  PROVE  /\ Fixed64(v) \in Encoded /\ Len(Fixed64(v)) = 8
         /\ FromFixed64(Fixed64(v)) = v
<1>1. PICK sh : /\ sh[0] = v
                /\ \A i \in 1..7 : sh[i] = sh[i - 1] \div 256
                /\ Fixed64(v) = [i \in 1..8 |-> sh[i - 1] % 256]
  BY Fixed64Unfolds
<1>2. PICK from : /\ from[9] = 0
                  /\ \A i \in 1..8 : from[i] = Fixed64(v)[i] + 256 * from[i + 1]
                  /\ FromFixed64(Fixed64(v)) = from[1]
  BY FromFixed64Unfolds
<1>3. \A i \in 0..6 : sh[i + 1] = sh[i] \div 256
  BY <1>1
<1>4. \A i \in 0..6 : sh[i] \in Nat => sh[i + 1] \in Nat
  BY <1>3, ByteOf
<1>5. /\ sh[0] \in Nat /\ sh[1] \in Nat /\ sh[2] \in Nat /\ sh[3] \in Nat
      /\ sh[4] \in Nat /\ sh[5] \in Nat /\ sh[6] \in Nat /\ sh[7] \in Nat
  <2>1. sh[0] \in Nat
    BY <1>1
  <2>2. sh[1] \in Nat
    BY <1>4, <2>1
  <2>3. sh[2] \in Nat
    BY <1>4, <2>2
  <2>4. sh[3] \in Nat
    BY <1>4, <2>3
  <2>5. sh[4] \in Nat
    BY <1>4, <2>4
  <2>6. sh[5] \in Nat
    BY <1>4, <2>5
  <2>7. sh[6] \in Nat
    BY <1>4, <2>6
  <2>8. sh[7] \in Nat
    BY <1>4, <2>7
  <2> QED
    BY <2>1, <2>2, <2>3, <2>4, <2>5, <2>6, <2>7, <2>8
<1>6. sh[7] = 0
  <2>1. sh[1] = sh[0] \div 256 /\ sh[2] = sh[1] \div 256 /\ sh[3] = sh[2] \div 256
    BY <1>3
  <2>2. sh[3] \div 256 = 0
    BY <1>1, <2>1, FourBytes
  <2>3. sh[4] = 0
    BY <1>3, <2>2
  <2>4. sh[5] = 0
    BY <1>3, <2>3
  <2>5. sh[6] = 0
    BY <1>3, <2>4
  <2> QED
    BY <1>3, <2>5
<1>7. \A i \in 0..7 : from[i + 1] = (sh[i] % 256) + 256 * from[i + 2]
  BY <1>1, <1>2
<1>8. from[8] = sh[7]
  BY <1>2, <1>6, <1>7
<1>9. ASSUME NEW i \in 0..6, sh[i] \in Nat, from[i + 2] = sh[i + 1] PROVE from[i + 1] = sh[i]
  <2>1. from[i + 1] = (sh[i] % 256) + 256 * (sh[i] \div 256)
    BY <1>3, <1>7, <1>9
  <2> QED
    BY <1>9, <2>1, ByteOf
<1>10. from[4] = sh[3]
  <2>1. from[7] = sh[6]
    BY <1>5, <1>8, <1>9
  <2>2. from[6] = sh[5]
    BY <1>5, <1>9, <2>1
  <2>3. from[5] = sh[4]
    BY <1>5, <1>9, <2>2
  <2> QED
    BY <1>5, <1>9, <2>3
<1>11. from[1] = sh[0]
  <2>1. from[3] = sh[2]
    BY <1>5, <1>9, <1>10
  <2>2. from[2] = sh[1]
    BY <1>5, <1>9, <2>1
  <2> QED
    BY <1>5, <1>9, <2>2
<1>12. \A i \in 1..8 : sh[i - 1] % 256 \in 0..255
  <2>1. \A i \in 0..7 : sh[i] \in Nat
    BY <1>5
  <2> QED
    BY <2>1, ByteOf
<1>13. Fixed64(v) \in [1..8 -> 0..255]
  BY <1>1, <1>12
<1>14. Fixed64(v) \in Encoded /\ Len(Fixed64(v)) = 8
  <2>1. PICK n \in Nat : n = 8
    OBVIOUS
  <2> PICK S : S = 0..255
    OBVIOUS
  <2>2. Fixed64(v) \in [1..n -> S]
    BY <1>13, <2>1
  <2>3. Fixed64(v) \in Seq(S) /\ Len(Fixed64(v)) = n
    BY <2>2, IsSequence
  <2> QED
    BY <2>1, <2>3 DEF Encoded
<1> QED
  BY <1>1, <1>2, <1>11, <1>14

-----------------------------------------------------------------------------
(***************************************************************************)
(* Fields.                                                                 *)
(***************************************************************************)

\* The first n bytes of an input and what follows them.
LEMMA Cut ==
  ASSUME NEW s \in Seq(Nat), NEW n \in Nat, n <= Len(s)
  PROVE  /\ SubSeq(s, 1, n) \in Seq(Nat) /\ Len(SubSeq(s, 1, n)) = n
         /\ SubSeq(s, n + 1, Len(s)) \in Seq(Nat)
         /\ Len(SubSeq(s, n + 1, Len(s))) = Len(s) - n
<1>1. Len(s) \in Nat /\ \A i \in 1..Len(s) : s[i] \in Nat
  BY LenProperties, ElementOfSeq
<1>2. \A i \in 1..n : s[i] \in Nat
  BY <1>1
<1>3. \A i \in (n + 1)..Len(s) : s[i] \in Nat
  BY <1>1
<1>4. SubSeq(s, 1, n) \in Seq(Nat) /\ Len(SubSeq(s, 1, n)) = n
  BY <1>2, SubSeqProperties
<1>5. /\ SubSeq(s, n + 1, Len(s)) \in Seq(Nat)
      /\ Len(SubSeq(s, n + 1, Len(s))) = IF n + 1 <= Len(s) THEN Len(s) - (n + 1) + 1 ELSE 0
  BY <1>1, <1>3, SubSeqProperties
<1> QED
  BY <1>1, <1>4, <1>5

\* Cutting where two parts were put together gives them back.
LEMMA CutConcat ==
  ASSUME NEW a \in Encoded, NEW t \in Encoded
  PROVE  /\ SubSeq(a \o t, 1, Len(a)) = a
         /\ SubSeq(a \o t, Len(a) + 1, Len(a \o t)) = t
         /\ Len(a) <= Len(a \o t)
<1>1. a \in Seq(0..255) /\ t \in Seq(0..255) /\ Len(a) \in Nat /\ Len(t) \in Nat
  BY LenProperties DEF Encoded
<1>2. /\ a \o t \in Seq(0..255) /\ Len(a \o t) = Len(a) + Len(t)
      /\ \A i \in 1..(Len(a) + Len(t)) :
            (a \o t)[i] = IF i <= Len(a) THEN a[i] ELSE t[i - Len(a)]
  BY <1>1, ConcatProperties
<1>3. \A i \in 1..Len(a \o t) : (a \o t)[i] \in 0..255
  BY <1>2, ElementOfSeq
<1>4. PICK u : u = a \o t
  OBVIOUS
<1>5. SubSeq(u, 1, Len(a)) = a
  <2>1. \A i \in 1..Len(a) : u[i] \in 0..255
    BY <1>1, <1>2, <1>3, <1>4
  <2>2. /\ SubSeq(u, 1, Len(a)) \in Seq(0..255)
        /\ Len(SubSeq(u, 1, Len(a))) = Len(a)
        /\ \A i \in 1..Len(a) : SubSeq(u, 1, Len(a))[i] = u[i]
    BY <1>1, <2>1, SubSeqProperties
  <2>3. \A i \in 1..Len(a) : u[i] = a[i]
    BY <1>1, <1>2, <1>4
  <2> QED
    BY <1>1, <2>2, <2>3, SeqEqual
<1>6. SubSeq(u, Len(a) + 1, Len(u)) = t
  <2>1. \A i \in (Len(a) + 1)..Len(u) : u[i] \in 0..255
    BY <1>1, <1>2, <1>3, <1>4
  <2>2. Len(u) \in Nat /\ Len(u) - (Len(a) + 1) + 1 = Len(t)
        /\ (Len(a) + 1 <= Len(u) <=> Len(t) # 0)
    BY <1>1, <1>2, <1>4
  <2>3. /\ SubSeq(u, Len(a) + 1, Len(u)) \in Seq(0..255)
        /\ Len(SubSeq(u, Len(a) + 1, Len(u))) = Len(t)
        /\ \A i \in 1..Len(t) : SubSeq(u, Len(a) + 1, Len(u))[i] = u[(Len(a) + 1) + i - 1]
    BY <1>1, <2>1, <2>2, SubSeqProperties
  <2>4. \A i \in 1..Len(t) : u[(Len(a) + 1) + i - 1] = t[i]
    <3> SUFFICES ASSUME NEW i \in 1..Len(t) PROVE u[(Len(a) + 1) + i - 1] = t[i]
      OBVIOUS
    <3>1. PICK j \in Int : j = Len(a) + i
      BY <1>1
    <3>2. j \in 1..(Len(a) + Len(t)) /\ ~(j <= Len(a)) /\ j - Len(a) = i
          /\ (Len(a) + 1) + i - 1 = j
      BY <1>1, <3>1
    <3> QED
      BY <1>2, <1>4, <3>2
  <2> QED
    BY <1>1, <2>3, <2>4, SeqEqual
<1> QED
  BY <1>1, <1>2, <1>4, <1>5, <1>6

\* What a field may hold.
Value == Nat \cup Seq(Nat)

\* Reading a value takes at least one byte.
LEMMA ReadBytesType ==
  ASSUME NEW s \in Seq(Nat), NEW n \in Nat
  PROVE  \/ n > Len(s)
         \/ /\ SubSeq(s, 1, n) \in Seq(Nat) /\ \A i \in 1..n : SubSeq(s, 1, n)[i] \in Nat
            /\ SubSeq(s, n + 1, Len(s)) \in Seq(Nat)
            /\ Len(SubSeq(s, n + 1, Len(s))) = Len(s) - n
<1> SUFFICES ASSUME n <= Len(s)
             PROVE  /\ SubSeq(s, 1, n) \in Seq(Nat)
                    /\ \A i \in 1..n : SubSeq(s, 1, n)[i] \in Nat
                    /\ SubSeq(s, n + 1, Len(s)) \in Seq(Nat)
                    /\ Len(SubSeq(s, n + 1, Len(s))) = Len(s) - n
  BY LenProperties
<1> QED
  BY Cut, ElementOfSeq

\* A value with its length in front is bytes, and what is left is shorter.
LEMMA ReadDelimitedType ==
  \A s \in Seq(Nat) : ReadDelimited(s) = Failure \/ IsRead(ReadDelimited(s), Value, s)
<1> SUFFICES ASSUME NEW s \in Seq(Nat), ReadDelimited(s) # Failure
             PROVE  IsRead(ReadDelimited(s), Value, s)
  OBVIOUS
<1>1. ReadVarint[s] # Failure
  BY DEF ReadDelimited
<1>2. PICK n \in Nat, r \in Seq(Nat) :
         ReadVarint[s] = [value |-> n, rest |-> r] /\ Len(r) < Len(s)
  BY <1>1, ReadVarintType DEF IsRead
<1>3. ReadVarint[s].value = n /\ ReadVarint[s].rest = r
  BY <1>2
<1>4. ReadDelimited(s) = IF n > Len(r) THEN Failure
                         ELSE [value |-> SubSeq(r, 1, n), rest |-> SubSeq(r, n + 1, Len(r))]
  BY <1>1, <1>3 DEF ReadDelimited, ReadBytes
<1>5. ~(n > Len(r))
  BY <1>4
<1>6. /\ SubSeq(r, 1, n) \in Seq(Nat) /\ SubSeq(r, n + 1, Len(r)) \in Seq(Nat)
      /\ Len(SubSeq(r, n + 1, Len(r))) = Len(r) - n
  BY <1>5, ReadBytesType
<1>7. Len(SubSeq(r, n + 1, Len(r))) < Len(s)
  BY <1>2, <1>6, LenProperties
<1> QED
  BY <1>4, <1>5, <1>6, <1>7 DEF IsRead, Value

\* So is a value of any wire type a number or bytes.
LEMMA ReadValueType ==
  ASSUME NEW type, NEW s \in Seq(Nat)
  PROVE  ReadValue(type, s) = Failure \/ IsRead(ReadValue(type, s), Value, s)
<1>0. Len(s) \in Nat
  BY LenProperties
<1>1. CASE type = 0
  <2>1. ReadValue(type, s) = ReadVarint[s]
    BY <1>1 DEF ReadValue
  <2>2. ReadVarint[s] = Failure \/ IsRead(ReadVarint[s], Nat, s)
    BY ReadVarintType
  <2> QED
    BY <2>1, <2>2 DEF IsRead, Value
<1>2. CASE type = 1
  <2>1. ReadValue(type, s) = IF 8 > Len(s) THEN Failure
          ELSE [value |-> FromFixed64(SubSeq(s, 1, 8)), rest |-> SubSeq(s, 8 + 1, Len(s))]
    BY <1>2 DEF ReadValue, ReadBytes
  <2>2. CASE 8 > Len(s)
    BY <2>1, <2>2
  <2>3. CASE ~(8 > Len(s))
    <3>1. /\ \A i \in 1..8 : SubSeq(s, 1, 8)[i] \in Nat
          /\ SubSeq(s, 8 + 1, Len(s)) \in Seq(Nat)
          /\ Len(SubSeq(s, 8 + 1, Len(s))) = Len(s) - 8
      BY <2>3, ReadBytesType
    <3>2. FromFixed64(SubSeq(s, 1, 8)) \in Nat
      BY <3>1, FromFixed64Type
    <3>3. Len(SubSeq(s, 8 + 1, Len(s))) < Len(s)
      BY <1>0, <3>1
    <3> QED
      BY <2>1, <2>3, <3>1, <3>2, <3>3, Zenon DEF IsRead, Value
  <2> QED
    BY <2>2, <2>3
<1>3. CASE type = 2
  <2>1. ReadValue(type, s) = ReadDelimited(s)
    BY <1>3 DEF ReadValue
  <2> QED
    BY <2>1, ReadDelimitedType
<1>4. CASE type = 5
  <2>1. ReadValue(type, s) = IF 4 > Len(s) THEN Failure
          ELSE [value |-> SubSeq(s, 1, 4), rest |-> SubSeq(s, 4 + 1, Len(s))]
    BY <1>4 DEF ReadValue, ReadBytes
  <2>2. CASE 4 > Len(s)
    BY <2>1, <2>2
  <2>3. CASE ~(4 > Len(s))
    <3>1. /\ SubSeq(s, 1, 4) \in Seq(Nat)
          /\ SubSeq(s, 4 + 1, Len(s)) \in Seq(Nat)
          /\ Len(SubSeq(s, 4 + 1, Len(s))) = Len(s) - 4
      BY <2>3, ReadBytesType
    <3>2. Len(SubSeq(s, 4 + 1, Len(s))) < Len(s)
      BY <1>0, <3>1
    <3> QED
      BY <2>1, <2>3, <3>1, <3>2, Zenon DEF IsRead, Value
  <2> QED
    BY <2>2, <2>3
<1>5. CASE type \notin {0, 1, 2, 5}
  BY <1>5 DEF ReadValue
<1> QED
  BY <1>1, <1>2, <1>3, <1>4, <1>5

\* And reading a field.
Field == [tag : Nat, value : Value]

\* A field is a tag and such a value.
LEMMA ReadFieldType ==
  \A s \in Seq(Nat) : ReadField(s) = Failure \/ IsRead(ReadField(s), Field, s)
<1> SUFFICES ASSUME NEW s \in Seq(Nat), ReadField(s) # Failure
             PROVE  IsRead(ReadField(s), Field, s)
  OBVIOUS
<1> DEFINE v == ReadValue(ReadVarint[s].value % 8, ReadVarint[s].rest)
<1>1. /\ ReadVarint[s] # Failure /\ v # Failure
      /\ ReadField(s) = [value |-> [tag |-> ReadVarint[s].value, value |-> v.value],
                         rest |-> v.rest]
  BY Zenon DEF ReadField
<1>2. PICK n \in Nat, r \in Seq(Nat) :
         ReadVarint[s] = [value |-> n, rest |-> r] /\ Len(r) < Len(s)
  BY <1>1, ReadVarintType DEF IsRead
<1>3. ReadVarint[s].value = n /\ ReadVarint[s].rest = r
  BY <1>2
<1>4. v = Failure \/ IsRead(v, Value, r)
  BY <1>3, ReadValueType
<1> HIDE DEF v
<1>5. PICK x \in Value, u \in Seq(Nat) : v = [value |-> x, rest |-> u] /\ Len(u) < Len(r)
  BY <1>1, <1>4 DEF IsRead
<1>6. v.value = x /\ v.rest = u
  BY <1>5
<1>7. ReadField(s) = [value |-> [tag |-> n, value |-> x], rest |-> u]
  BY <1>1, <1>3, <1>6, Zenon
<1>8. Len(u) < Len(s)
  BY <1>2, <1>5, LenProperties
<1>9. [tag |-> n, value |-> x] \in Field
  BY DEF Field
<1> QED
  BY <1>7, <1>8, <1>9, Zenon DEF IsRead

FieldsEquation(p, f, s) ==
    IF s = <<>> THEN <<>>
    ELSE IF ReadField(s) = Failure THEN <<Failure>>
    ELSE <<ReadField(s).value>> \o f[ReadField(s).rest]

FieldsR == INSTANCE Recursion
    WITH Dom <- Inputs, Size <- Len, Def <- FieldsEquation

\* Fields satisfies its equation.
LEMMA FieldsUnfolds ==
  \A s \in Seq(Nat) :
    Fields[s] = IF s = <<>> THEN <<>>
                ELSE IF ReadField(s) = Failure THEN <<Failure>>
                ELSE <<ReadField(s).value>> \o Fields[ReadField(s).rest]
<1>1. FieldsR!WellFounded(0)
  <2>1. ASSUME NEW s \in Seq(Nat), NEW g, NEW h,
               \A t \in Seq(Nat) : Len(t) < Len(s) => g[t] = h[t]
        PROVE  FieldsEquation(0, g, s) = FieldsEquation(0, h, s)
    <3>1. CASE ReadField(s) = Failure
      BY <3>1 DEF FieldsEquation
    <3>2. CASE ReadField(s) # Failure
      <4>1. IsRead(ReadField(s), Field, s)
        BY <3>2, ReadFieldType
      <4>2. ReadField(s).rest \in Seq(Nat) /\ Len(ReadField(s).rest) < Len(s)
        BY <4>1 DEF IsRead
      <4>3. g[ReadField(s).rest] = h[ReadField(s).rest]
        BY <2>1, <4>2
      <4> QED
        BY <4>3, Zenon DEF FieldsEquation
    <3> QED
      BY <3>1, <3>2
  <2> QED
    BY <2>1, LenProperties DEF FieldsR!WellFounded, Inputs
<1>2. \E f : f = [s \in Seq(Nat) |-> FieldsEquation(0, f, s)]
  <2>1. \E f : f = [s \in Inputs(0) |-> FieldsEquation(0, f, s)]
    BY <1>1, Induction, FieldsR!RecursiveFunction DEF FieldsR!Induction
  <2> QED
    BY <2>1 DEF Inputs
<1>3. Fields = [s \in Seq(Nat) |-> FieldsEquation(0, Fields, s)]
  BY <1>2, Zenon DEF Fields, FieldsEquation
<1>4. \A s \in Seq(Nat) : Fields[s] = FieldsEquation(0, Fields, s)
  BY <1>3
<1> QED
  BY <1>4, Zenon DEF FieldsEquation

\* What is read is a sequence of fields, Failure perhaps among them.
LEMMA FieldsType == \A s \in Seq(Nat) : Fields[s] \in Seq(Field \cup {Failure})
<1> DEFINE F == Field \cup {Failure}
           T == {n \in Nat : \A s \in Seq(Nat) : Len(s) < n => Fields[s] \in Seq(F)}
<1>1. 0 \in T
  BY LenProperties
<1>2. ASSUME NEW n \in Nat, n \in T PROVE n + 1 \in T
  <2> SUFFICES ASSUME NEW s \in Seq(Nat), Len(s) < n + 1 PROVE Fields[s] \in Seq(F)
    OBVIOUS
  <2>1. CASE s = <<>>
    <3>1. Fields[s] = <<>>
      BY <2>1, FieldsUnfolds, Zenon
    <3> QED
      BY <3>1
  <2>2. CASE s # <<>> /\ ReadField(s) = Failure
    <3>1. Fields[s] = <<Failure>>
      BY <2>2, FieldsUnfolds, Zenon
    <3> QED
      BY <3>1
  <2>3. CASE s # <<>> /\ ReadField(s) # Failure
    <3>1. Fields[s] = <<ReadField(s).value>> \o Fields[ReadField(s).rest]
      BY <2>3, FieldsUnfolds, Zenon
    <3>2. IsRead(ReadField(s), Field, s)
      BY <2>3, ReadFieldType
    <3>3. PICK x \in Field, r \in Seq(Nat) :
             ReadField(s) = [value |-> x, rest |-> r] /\ Len(r) < Len(s)
      BY <3>2 DEF IsRead
    <3>4. ReadField(s).value = x /\ ReadField(s).rest = r
      BY <3>3
    <3>5. Fields[r] \in Seq(F)
      <4>1. Len(r) < n
        BY <3>3, LenProperties
      <4> QED
        BY <1>2, <4>1
    <3>6. <<x>> \in Seq(F)
      OBVIOUS
    <3> HIDE DEF F, T
    <3>7. <<x>> \o Fields[r] \in Seq(F)
      BY <3>5, <3>6, ConcatProperties
    <3> QED
      BY <3>1, <3>4, <3>7
  <2> QED
    BY <2>1, <2>2, <2>3
<1> HIDE DEF T
<1>3. Nat \subseteq T
  BY <1>1, <1>2, Induction
<1> QED
  <2> SUFFICES ASSUME NEW s \in Seq(Nat) PROVE Fields[s] \in Seq(F)
    OBVIOUS
  <2>1. Len(s) + 1 \in T /\ Len(s) < Len(s) + 1
    BY <1>3, LenProperties
  <2> QED
    BY <2>1 DEF T

-----------------------------------------------------------------------------
(***************************************************************************)
(* What is written is read back.                                           *)
(***************************************************************************)

\* b is the encoding of the value x of a field of the given wire type, and of
\* the field f, whatever follows it.
IsValue(type, b, x) ==
    \A t \in Encoded : ReadValue(type, b \o t) = [value |-> x, rest |-> t]

IsField(b, f) ==
    \A t \in Encoded : ReadField(b \o t) = [value |-> f, rest |-> t]

\* A number.
LEMMA NumberValue == \A v \in Nat : IsValue(0, Varint[v], v)
<1>1. \A s : ReadValue(0, s) = ReadVarint[s]
  BY DEF ReadValue
<1> QED
  BY <1>1, VarintRoundTrip DEF IsValue, IsVarint

\* A length and as many bytes.
LEMMA DelimitedValue ==
  ASSUME NEW x \in Encoded
  PROVE  IsValue(2, Varint[Len(x)] \o x, x)
<1> SUFFICES ASSUME NEW t \in Encoded
             PROVE  ReadValue(2, (Varint[Len(x)] \o x) \o t) = [value |-> x, rest |-> t]
  BY Zenon DEF IsValue
<1>1. Len(x) \in Nat /\ Varint[Len(x)] \in Encoded /\ x \o t \in Encoded
  BY Concat, VarintType
<1>2. PICK u : u = x \o t
  OBVIOUS
<1>3. (Varint[Len(x)] \o x) \o t = Varint[Len(x)] \o u
  BY <1>1, <1>2, Regroup
<1>4. PICK s : s = Varint[Len(x)] \o u
  OBVIOUS
<1>5. ReadVarint[s] = [value |-> Len(x), rest |-> u]
  BY <1>1, <1>2, <1>4, VarintRoundTrip DEF IsVarint
<1>6. ReadVarint[s] # Failure /\ ReadVarint[s].value = Len(x) /\ ReadVarint[s].rest = u
  BY <1>5, ReadIsNoFailure
<1>7. /\ SubSeq(u, 1, Len(x)) = x /\ SubSeq(u, Len(x) + 1, Len(u)) = t
      /\ Len(x) <= Len(u)
  BY <1>2, CutConcat
<1>8. Len(u) \in Nat /\ ~(Len(x) > Len(u))
  BY <1>1, <1>2, <1>7, Concat
<1>9. ReadDelimited(s) = [value |-> x, rest |-> t]
  BY <1>6, <1>7, <1>8 DEF ReadDelimited, ReadBytes
<1>10. ReadValue(2, s) = ReadDelimited(s)
  BY DEF ReadValue
<1> QED
  BY <1>3, <1>4, <1>9, <1>10

\* A number of eight bytes.
LEMMA Fixed64Value ==
  ASSUME NEW v \in Nat, v <= INT_MAX
  PROVE  IsValue(1, Fixed64(v), v)
<1> SUFFICES ASSUME NEW t \in Encoded
             PROVE  ReadValue(1, Fixed64(v) \o t) = [value |-> v, rest |-> t]
  BY Zenon DEF IsValue
<1>1. PICK b \in Encoded : b = Fixed64(v) /\ Len(b) = 8 /\ FromFixed64(b) = v
  BY Fixed64RoundTrip
<1>2. PICK u : u = b \o t
  OBVIOUS
<1>3. /\ SubSeq(u, 1, 8) = b /\ SubSeq(u, 8 + 1, Len(u)) = t /\ 8 <= Len(u)
  <2>1. /\ SubSeq(u, 1, Len(b)) = b /\ SubSeq(u, Len(b) + 1, Len(u)) = t
        /\ Len(b) <= Len(u)
    BY <1>2, CutConcat
  <2> QED
    BY <1>1, <2>1, Zenon
<1>4. Len(u) \in Nat /\ ~(8 > Len(u))
  BY <1>2, <1>3, Concat
<1>5. ReadValue(1, u) = IF 8 > Len(u) THEN Failure
         ELSE [value |-> FromFixed64(SubSeq(u, 1, 8)), rest |-> SubSeq(u, 8 + 1, Len(u))]
  BY DEF ReadValue, ReadBytes
<1>6. ReadValue(1, u) = [value |-> v, rest |-> t]
  BY <1>1, <1>3, <1>4, <1>5, Zenon
<1> QED
  BY <1>1, <1>2, <1>6

\* A tag of one byte and a value of its type make a field.
LEMMA TagAndValue ==
  ASSUME NEW tag \in 8..127, NEW b \in Encoded, NEW x, IsValue(tag % 8, b, x)
  PROVE  IsField(<<tag>> \o b, [tag |-> tag, value |-> x])
<1> SUFFICES ASSUME NEW t \in Encoded
             PROVE  ReadField((<<tag>> \o b) \o t)
                      = [value |-> [tag |-> tag, value |-> x], rest |-> t]
  BY Zenon DEF IsField
<1>1. PICK u \in Encoded : u = b \o t
  BY Concat
<1>2. (<<tag>> \o b) \o t = <<tag>> \o u
  <2>1. PICK h \in Encoded : h = <<tag>>
    BY OneByte, tag \in 0..255
  <2> QED
    BY <1>1, <2>1, Regroup
<1>3. PICK s : s = <<tag>> \o u
  OBVIOUS
<1>4. ReadVarint[s] = [value |-> tag, rest |-> u]
  BY <1>3, VarintLast, tag \in 0..127 DEF IsVarint
<1>5. ReadVarint[s] # Failure /\ ReadVarint[s].value = tag /\ ReadVarint[s].rest = u
  BY <1>4, ReadIsNoFailure
<1>6. tag \div 8 # 0
  OBVIOUS
<1>7. PICK v : v = ReadValue(tag % 8, u)
  OBVIOUS
<1>8. v = [value |-> x, rest |-> t]
  BY <1>1, <1>7 DEF IsValue
<1>9. v # Failure /\ v.value = x /\ v.rest = t
  BY <1>8, ReadIsNoFailure
<1>10. ReadField(s) = [value |-> [tag |-> tag, value |-> x], rest |-> t]
  BY <1>5, <1>6, <1>7, <1>9, Zenon DEF ReadField
<1> QED
  BY <1>2, <1>3, <1>10

\* The field in front of an input is the first that is found in it.
LEMMA FieldsFront ==
  ASSUME NEW b \in Encoded, b # <<>>, NEW f, IsField(b, f), NEW t \in Encoded
  PROVE  Fields[b \o t] = <<f>> \o Fields[t]
<1>1. PICK s : s = b \o t
  OBVIOUS
<1>2. s \in Seq(Nat) /\ s # <<>>
  BY <1>1, Concat, EncodedIsInput, ConcatEqualIffEmpty DEF Encoded
<1>3. ReadField(s) = [value |-> f, rest |-> t]
  BY <1>1 DEF IsField
<1>4. ReadField(s) # Failure /\ ReadField(s).value = f /\ ReadField(s).rest = t
  BY <1>3, ReadIsNoFailure
<1>5. Fields[s] = <<ReadField(s).value>> \o Fields[ReadField(s).rest]
  BY <1>2, <1>4, FieldsUnfolds, Zenon
<1> QED
  BY <1>1, <1>4, <1>5, Zenon

\* Nothing is found in nothing.
LEMMA FieldsEmpty == Fields[<<>>] = <<>>
<1>1. <<>> \in Seq(Nat)
  BY EmptySeq
<1> QED
  BY <1>1, FieldsUnfolds, Zenon

\* Tags fit in a byte.
LEMMA Tags ==
  \A n \in 1..15 : /\ 8 * n \in 8..127 /\ (8 * n) % 8 = 0
                   /\ 8 * n + 2 \in 8..127 /\ (8 * n + 2) % 8 = 2
  OBVIOUS

\* A tag and a value are bytes, one more than those of the value.
LEMMA TagAndBytes ==
  ASSUME NEW tag \in 8..127, NEW b \in Encoded
  PROVE  /\ <<tag>> \o b \in Encoded /\ <<tag>> \o b # <<>>
         /\ Len(<<tag>> \o b) = 1 + Len(b)
<1>1. PICK h \in Encoded : h = <<tag>> /\ Len(h) = 1
  BY OneByte, tag \in 0..255
<1>2. h \o b \in Encoded /\ Len(h \o b) = 1 + Len(b) /\ Len(b) \in Nat
  BY <1>1, Concat
<1>3. h \o b # <<>>
  BY <1>2, NoBytes
<1> QED
  BY <1>1, <1>2, <1>3

\* b is what is written for the field f.
IsWritten(b, f) == f \in Field /\ b \in Encoded /\ b # <<>> /\ IsField(b, f)

\* Bytes and numbers are values.
LEMMA WrittenField ==
  ASSUME NEW tag \in 8..127, NEW x, x \in Encoded \/ x \in Nat
  PROVE  [tag |-> tag, value |-> x] \in Field
<1>1. x \in Value
  BY EncodedIsInput DEF Value
<1> QED
  BY <1>1 DEF Field

\* A message that is a field is read back as its bytes, if the size in front
\* of them is right.
LEMMA MessageWritten ==
  ASSUME NEW n \in 1..15, NEW x \in Encoded
  PROVE  /\ IsWritten(WriteMessage(n, Len(x), x), [tag |-> 8 * n + 2, value |-> x])
         /\ Len(WriteMessage(n, Len(x), x)) = MessageSize(Len(x))
<1>1. PICK tag \in 8..127 : tag = 8 * n + 2 /\ tag % 8 = 2
  BY Tags
<1>2. Len(x) \in Nat /\ Varint[Len(x)] \in Encoded
  BY Concat, VarintType
<1>3. PICK b \in Encoded : b = Varint[Len(x)] \o x /\ Len(b) = Len(Varint[Len(x)]) + Len(x)
  BY <1>2, Concat
<1>4. WriteMessage(n, Len(x), x) = <<tag>> \o b
  <2>1. WriteMessage(n, Len(x), x) = (<<tag>> \o Varint[Len(x)]) \o x
    BY <1>1 DEF WriteMessage
  <2>2. PICK h \in Encoded : h = <<tag>>
    BY OneByte, tag \in 0..255
  <2>3. (h \o Varint[Len(x)]) \o x = h \o b
    BY <1>2, <1>3, Regroup
  <2> QED
    BY <2>1, <2>2, <2>3
<1>5. IsValue(tag % 8, b, x)
  BY <1>1, <1>3, DelimitedValue
<1>6. IsField(<<tag>> \o b, [tag |-> tag, value |-> x])
  BY <1>5, TagAndValue
<1>7. /\ <<tag>> \o b \in Encoded /\ <<tag>> \o b # <<>>
      /\ Len(<<tag>> \o b) = 1 + Len(b)
  BY TagAndBytes
<1>8. 1 + Len(b) = MessageSize(Len(x))
  <2>1. Len(Varint[Len(x)]) \in Nat
    BY <1>2, Concat
  <2> QED
    BY <1>2, <1>3, <2>1 DEF MessageSize, VarintSize
<1>9. [tag |-> tag, value |-> x] \in Field
  BY WrittenField
<1> QED
  BY <1>1, <1>4, <1>6, <1>7, <1>8, <1>9 DEF IsWritten

\* So is a string that is not empty.
LEMMA StringWritten ==
  ASSUME NEW n \in 1..15, NEW x \in Encoded, x # <<>>
  PROVE  /\ IsWritten(WriteString(n, x), [tag |-> 8 * n + 2, value |-> x])
         /\ Len(WriteString(n, x)) = StringSize(x)
<1>1. WriteString(n, x) = WriteMessage(n, Len(x), x) /\ StringSize(x) = MessageSize(Len(x))
  BY DEF WriteString, WriteMessage, StringSize, MessageSize
<1> QED
  BY <1>1, MessageWritten

\* And a number other than zero.
LEMMA NumberWritten ==
  ASSUME NEW n \in 1..15, NEW v \in Nat, v # 0
  PROVE  /\ IsWritten(WriteUInt64(n, v), [tag |-> 8 * n, value |-> v])
         /\ Len(WriteUInt64(n, v)) = UInt64Size(v)
<1>1. PICK tag \in 8..127 : tag = 8 * n /\ tag % 8 = 0
  BY Tags
<1>2. PICK b \in Encoded : b = Varint[v]
  BY VarintType
<1>3. WriteUInt64(n, v) = <<tag>> \o b
  BY <1>1, <1>2 DEF WriteUInt64
<1>4. IsValue(tag % 8, b, v)
  BY <1>1, <1>2, NumberValue
<1>5. IsField(<<tag>> \o b, [tag |-> tag, value |-> v])
  BY <1>4, TagAndValue
<1>6. /\ <<tag>> \o b \in Encoded /\ <<tag>> \o b # <<>>
      /\ Len(<<tag>> \o b) = 1 + Len(b)
  BY TagAndBytes
<1>7. 1 + Len(b) = UInt64Size(v)
  BY <1>2 DEF UInt64Size, VarintSize
<1>8. [tag |-> tag, value |-> v] \in Field
  BY WrittenField
<1> QED
  BY <1>1, <1>3, <1>5, <1>6, <1>7, <1>8 DEF IsWritten

\* b is size bytes long.
Encodes(b, size) == b \in Encoded /\ size \in Nat /\ Len(b) = size

\* Sizes add up.
LEMMA EncodesBoth ==
  \A a, b, i, j : Encodes(a, i) /\ Encodes(b, j) => Encodes(a \o b, i + j)
  BY Concat DEF Encodes

\* What is written for a string or a number, written or not, takes the bytes
\* that its size says.
LEMMA FieldSizes ==
  /\ \A n \in 1..15, x \in Encoded : Encodes(WriteString(n, x), StringSize(x))
  /\ \A n \in 1..15, v \in Nat : Encodes(WriteUInt64(n, v), UInt64Size(v))
<1>1. ASSUME NEW n \in 1..15, NEW x \in Encoded
      PROVE  WriteString(n, x) \in Encoded /\ Len(WriteString(n, x)) = StringSize(x)
  <2>1. CASE x = <<>>
    BY <2>1, NoBytes DEF WriteString, StringSize
  <2>2. CASE x # <<>>
    BY <2>2, StringWritten DEF IsWritten
  <2> QED
    BY <2>1, <2>2
<1>2. ASSUME NEW n \in 1..15, NEW v \in Nat
      PROVE  WriteUInt64(n, v) \in Encoded /\ Len(WriteUInt64(n, v)) = UInt64Size(v)
  <2>1. CASE v = 0
    BY <2>1, NoBytes DEF WriteUInt64, UInt64Size
  <2>2. CASE v # 0
    BY <2>2, NumberWritten DEF IsWritten
  <2> QED
    BY <2>1, <2>2
<1> QED
  BY <1>1, <1>2, Concat DEF Encodes

-----------------------------------------------------------------------------
(***************************************************************************)
(* Merging what was read into a message.  A parser reads its input field   *)
(* by field, and takes nothing from an empty one.                          *)
(***************************************************************************)

AnyField == Field \cup {Failure}

Checked(Step(_, _), m, f) == IF m = Failure \/ f = Failure THEN Failure ELSE Step(m, f)

Reads(Step(_, _)) ==
    /\ \A m : Merged(Step, m, <<>>) = m
    /\ \A m, b, f : \A t \in Encoded : m # Failure /\ IsWritten(b, f)
           => Merged(Step, m, b \o t) = Merged(Step, Step(m, f), t)

\* A field that was read is not Failure, and is the first of those of an input
\* that starts with its bytes.
LEMMA FirstField ==
  ASSUME NEW b, NEW f, IsWritten(b, f), NEW t \in Encoded
  PROVE  \E u \in Seq(AnyField) : u = Fields[t] /\ Fields[b \o t] = <<f>> \o u
<1>1. b \in Encoded /\ b # <<>> /\ IsField(b, f) /\ f \in Field
  BY DEF IsWritten
<1> QED
  BY <1>1, FieldsFront, FieldsType, EncodedIsInput DEF AnyField

\* A field that was written is not a failure.
LEMMA FieldIsNoFailure ==
  \A b, f : IsWritten(b, f) => f # Failure /\ f \in AnyField
  BY DEF Failure, Field, IsWritten, AnyField

-----------------------------------------------------------------------------
(***************************************************************************)
(* The messages whose fields are strings and numbers.  For each of them:   *)
(* its parser reads field by field (T_Reads), it takes the bytes that it   *)
(* announces (T_Size), and reading what was written of it, whatever comes  *)
(* after, is going on with it (T_Takes); so it is read back (T_RoundTrip). *)
(***************************************************************************)

Chat_P == INSTANCE Folding WITH Op <- LAMBDA m, f : Checked(Chat_MergePartial, m, f)

\* The parser of Chat reads field by field.
LEMMA Chat_Reads == Reads(Chat_MergePartial)
<1>1. Chat_P!Induction
  BY Induction DEF Chat_P!Induction
<1>2. \A m, s : Merged(Chat_MergePartial, m, s) = Chat_P!Fold(m, Fields[s])
  BY DEF Merged, Checked, Chat_P!Fold, FoldLeft, MapThenFoldSet, Chat_P!MapThenFoldSet,
         Max, Chat_P!Greatest
<1>3. \A m : \A f \in AnyField, u \in Seq(AnyField) :
         Chat_P!Fold(m, <<f>> \o u) = Chat_P!Fold(Checked(Chat_MergePartial, m, f), u)
  BY <1>1, Chat_P!FoldFront
<1>4. \A m : Merged(Chat_MergePartial, m, <<>>) = m
  BY <1>1, <1>2, Chat_P!FoldEmpty, FieldsEmpty
<1> SUFFICES ASSUME NEW m, NEW b, NEW f, NEW t \in Encoded, m # Failure /\ IsWritten(b, f)
             PROVE  Merged(Chat_MergePartial, m, b \o t)
                      = Merged(Chat_MergePartial, Chat_MergePartial(m, f), t)
  BY <1>4, Zenon DEF Reads
<1>5. PICK u \in Seq(AnyField) : u = Fields[t] /\ Fields[b \o t] = <<f>> \o u
  BY FirstField
<1>6. f \in AnyField /\ Checked(Chat_MergePartial, m, f) = Chat_MergePartial(m, f)
  BY FieldIsNoFailure DEF Checked
<1>7. Chat_P!Fold(m, <<f>> \o u) = Chat_P!Fold(Chat_MergePartial(m, f), u)
  BY <1>3, <1>6, Zenon
<1> QED
  BY <1>2, <1>5, <1>7, Zenon

\* The strings and numbers of Chat.
LEMMA Chat_Parts ==
  \A m \in Chat : /\ m.chat_id \in Nat
                  /\ m.title \in Texts /\ m.title \in Encoded
  BY TextsAssumption, IdsAssumption DEF Chat, Encoded

\* Chat is written in the bytes that it announces.
LEMMA Chat_Size == \A m \in Chat : Encodes(Chat_Serialize(m), Chat_ByteSize(m))
<1> SUFFICES ASSUME NEW m \in Chat PROVE Encodes(Chat_Serialize(m), Chat_ByteSize(m))
  OBVIOUS
<1>1. /\ Encodes(WriteUInt64(1, m.chat_id), UInt64Size(m.chat_id))
      /\ Encodes(WriteString(2, m.title), StringSize(m.title))
  BY Chat_Parts, FieldSizes
<1> QED
  BY <1>1, EncodesBoth DEF Chat_Serialize, Chat_ByteSize

\* Every field of Chat is read into its place.
LEMMA Chat_Takes ==
  ASSUME NEW m \in Chat, NEW t \in Encoded
  PROVE  Merged(Chat_MergePartial, Chat_New, Chat_Serialize(m) \o t)
           = Merged(Chat_MergePartial, m, t)
<1> DEFINE M(x, s) == Merged(Chat_MergePartial, x, s)
<1>1. \A x, b, f : \A u \in Encoded : x # Failure /\ IsWritten(b, f)
                  => M(x, b \o u) = M(Chat_MergePartial(x, f), u)
  BY Chat_Reads DEF Reads
<1> HIDE DEF M
<1>2. PICK w1, w2, r0, r1 :
        /\ w1 = WriteUInt64(1, m.chat_id)
        /\ w2 = WriteString(2, m.title)
        /\ r0 = [chat_id |-> 0, title |-> <<>>]
        /\ r1 = [chat_id |-> m.chat_id, title |-> <<>>]
  OBVIOUS
<1>3. w1 \in Encoded /\ w2 \in Encoded
  <2>1. Encodes(w1, UInt64Size(m.chat_id)) /\ Encodes(w2, StringSize(m.title))
    BY <1>2, Chat_Parts, FieldSizes
  <2> QED
    BY <2>1 DEF Encodes
<1>4. r0 # Failure /\ r1 # Failure
  BY <1>2 DEF Failure
<1>5. ASSUME NEW u \in Encoded PROVE M(r0, w1 \o u) = M(r1, u)
  <2>1. r1 = [r0 EXCEPT !.chat_id = m.chat_id]
    BY <1>2
  <2>2. CASE m.chat_id = 0
    <3>1. w1 = <<>> /\ r1 = r0
      BY <1>2, <2>1, <2>2 DEF WriteUInt64
    <3> QED
      BY <3>1, NothingAround, Zenon
  <2>3. CASE m.chat_id # 0
    <3>1. PICK f : f = [tag |-> 8, value |-> m.chat_id]
      OBVIOUS
    <3>2. IsWritten(w1, f)
      BY <1>2, <2>3, <3>1, Chat_Parts, NumberWritten
    <3>3. Chat_MergePartial(r0, f) = r1
      BY <2>1, <3>1, Chat_Parts DEF Chat_MergePartial
    <3> QED
      BY <1>1, <1>4, <3>2, <3>3, Zenon
  <2> QED
    BY <2>2, <2>3, Zenon
<1>6. ASSUME NEW u \in Encoded PROVE M(r1, w2 \o u) = M(m, u)
  <2>1. m = [r1 EXCEPT !.title = m.title]
    BY <1>2 DEF Chat
  <2>2. CASE m.title = <<>>
    <3>1. w2 = <<>> /\ m = r1
      BY <1>2, <2>1, <2>2 DEF WriteString
    <3> QED
      BY <3>1, NothingAround, Zenon
  <2>3. CASE m.title # <<>>
    <3>1. PICK f : f = [tag |-> 18, value |-> m.title]
      OBVIOUS
    <3>2. IsWritten(w2, f)
      BY <1>2, <2>3, <3>1, Chat_Parts, StringWritten
    <3>3. Chat_MergePartial(r1, f) = m
      BY <2>1, <3>1, Chat_Parts DEF Chat_MergePartial, ReadString
    <3> QED
      BY <1>1, <1>4, <3>2, <3>3, Zenon
  <2> QED
    BY <2>2, <2>3, Zenon
<1>7. Chat_Serialize(m) = w1 \o w2 /\ Chat_New = r0
  BY <1>2 DEF Chat_Serialize, Chat_New
<1>8. PICK v : v = w2 \o t
  OBVIOUS
<1>9. v \in Encoded /\ (w1 \o w2) \o t = w1 \o v
  BY <1>3, <1>8, Concat, Regroup
<1>10. M(r0, w1 \o v) = M(m, t)
  BY <1>5, <1>6, <1>8, <1>9, Zenon
<1> QED
  BY <1>7, <1>9, <1>10, Zenon DEF M

\* What is written of Chat is read back as it was.
LEMMA Chat_RoundTrip ==
  \A m \in Chat : Merged(Chat_MergePartial, Chat_New, Chat_Serialize(m)) = m
<1> SUFFICES ASSUME NEW m \in Chat
             PROVE  Merged(Chat_MergePartial, Chat_New, Chat_Serialize(m)) = m
  OBVIOUS
<1>1. PICK b : b = Chat_Serialize(m)
  OBVIOUS
<1>2. b \in Encoded /\ b \o <<>> = b
  BY <1>1, Chat_Size, NothingAround DEF Encodes
<1>3. /\ Merged(Chat_MergePartial, Chat_New, b \o <<>>) = Merged(Chat_MergePartial, m, <<>>)
      /\ Merged(Chat_MergePartial, m, <<>>) = m
  BY <1>1, Chat_Takes, Chat_Reads, NoBytes DEF Reads
<1> QED
  BY <1>1, <1>2, <1>3, Zenon

RegisterRequest_P == INSTANCE Folding
    WITH Op <- LAMBDA m, f : Checked(RegisterRequest_MergePartial, m, f)

\* The parser of RegisterRequest reads field by field.
LEMMA RegisterRequest_Reads == Reads(RegisterRequest_MergePartial)
<1>1. RegisterRequest_P!Induction
  BY Induction DEF RegisterRequest_P!Induction
<1>2. \A m, s :
          Merged(RegisterRequest_MergePartial, m, s) = RegisterRequest_P!Fold(m, Fields[s])
  BY DEF Merged, Checked, RegisterRequest_P!Fold, FoldLeft, MapThenFoldSet,
     RegisterRequest_P!MapThenFoldSet,
         Max, RegisterRequest_P!Greatest
<1>3. \A m : \A f \in AnyField, u \in Seq(AnyField) :
         RegisterRequest_P!Fold(m, <<f>> \o u)
             = RegisterRequest_P!Fold(Checked(RegisterRequest_MergePartial, m, f), u)
  BY <1>1, RegisterRequest_P!FoldFront
<1>4. \A m : Merged(RegisterRequest_MergePartial, m, <<>>) = m
  BY <1>1, <1>2, RegisterRequest_P!FoldEmpty, FieldsEmpty
<1> SUFFICES ASSUME NEW m, NEW b, NEW f, NEW t \in Encoded, m # Failure /\ IsWritten(b, f)
             PROVE  Merged(RegisterRequest_MergePartial, m, b \o t)
                      = Merged(RegisterRequest_MergePartial, RegisterRequest_MergePartial(m, f),
                          t)
  BY <1>4, Zenon DEF Reads
<1>5. PICK u \in Seq(AnyField) : u = Fields[t] /\ Fields[b \o t] = <<f>> \o u
  BY FirstField
<1>6. f \in AnyField
      /\ Checked(RegisterRequest_MergePartial, m, f) = RegisterRequest_MergePartial(m, f)
  BY FieldIsNoFailure DEF Checked
<1>7. RegisterRequest_P!Fold(m, <<f>> \o u)
          = RegisterRequest_P!Fold(RegisterRequest_MergePartial(m, f), u)
  BY <1>3, <1>6, Zenon
<1> QED
  BY <1>2, <1>5, <1>7, Zenon

\* The strings and numbers of RegisterRequest.
LEMMA RegisterRequest_Parts ==
  \A m \in RegisterRequest : /\ m.name \in Texts /\ m.name \in Encoded
                             /\ m.email \in Texts /\ m.email \in Encoded
                             /\ m.password \in Texts /\ m.password \in Encoded
  BY TextsAssumption DEF RegisterRequest, Encoded

\* RegisterRequest is written in the bytes that it announces.
LEMMA RegisterRequest_Size ==
  \A m \in RegisterRequest : Encodes(RegisterRequest_Serialize(m), RegisterRequest_ByteSize(m))
<1> SUFFICES ASSUME NEW m \in RegisterRequest
             PROVE Encodes(RegisterRequest_Serialize(m), RegisterRequest_ByteSize(m))
  OBVIOUS
<1>1. /\ Encodes(WriteString(1, m.name), StringSize(m.name))
      /\ Encodes(WriteString(2, m.email), StringSize(m.email))
      /\ Encodes(WriteString(3, m.password), StringSize(m.password))
  BY RegisterRequest_Parts, FieldSizes
<1> QED
  BY <1>1, EncodesBoth DEF RegisterRequest_Serialize, RegisterRequest_ByteSize

\* Every field of RegisterRequest is read into its place.
LEMMA RegisterRequest_Takes ==
  ASSUME NEW m \in RegisterRequest, NEW t \in Encoded
  PROVE  Merged(RegisterRequest_MergePartial, RegisterRequest_New,
             RegisterRequest_Serialize(m) \o t)
           = Merged(RegisterRequest_MergePartial, m, t)
<1> DEFINE M(x, s) == Merged(RegisterRequest_MergePartial, x, s)
<1>1. \A x, b, f : \A u \in Encoded : x # Failure /\ IsWritten(b, f)
                  => M(x, b \o u) = M(RegisterRequest_MergePartial(x, f), u)
  BY RegisterRequest_Reads DEF Reads
<1> HIDE DEF M
<1>2. PICK w1, w2, w3, r0, r1, r2 :
        /\ w1 = WriteString(1, m.name)
        /\ w2 = WriteString(2, m.email)
        /\ w3 = WriteString(3, m.password)
        /\ r0 = [name |-> <<>>, email |-> <<>>, password |-> <<>>]
        /\ r1 = [name |-> m.name, email |-> <<>>, password |-> <<>>]
        /\ r2 = [name |-> m.name, email |-> m.email, password |-> <<>>]
  OBVIOUS
<1>3. w1 \in Encoded /\ w2 \in Encoded /\ w3 \in Encoded
  <2>1. Encodes(w1, StringSize(m.name)) /\ Encodes(w2, StringSize(m.email))
        /\ Encodes(w3, StringSize(m.password))
    BY <1>2, RegisterRequest_Parts, FieldSizes
  <2> QED
    BY <2>1 DEF Encodes
<1>4. r0 # Failure /\ r1 # Failure /\ r2 # Failure
  BY <1>2 DEF Failure
<1>5. ASSUME NEW u \in Encoded PROVE M(r0, w1 \o u) = M(r1, u)
  <2>1. r1 = [r0 EXCEPT !.name = m.name]
    BY <1>2
  <2>2. CASE m.name = <<>>
    <3>1. w1 = <<>> /\ r1 = r0
      BY <1>2, <2>1, <2>2 DEF WriteString
    <3> QED
      BY <3>1, NothingAround, Zenon
  <2>3. CASE m.name # <<>>
    <3>1. PICK f : f = [tag |-> 10, value |-> m.name]
      OBVIOUS
    <3>2. IsWritten(w1, f)
      BY <1>2, <2>3, <3>1, RegisterRequest_Parts, StringWritten
    <3>3. RegisterRequest_MergePartial(r0, f) = r1
      BY <2>1, <3>1, RegisterRequest_Parts DEF RegisterRequest_MergePartial, ReadString
    <3> QED
      BY <1>1, <1>4, <3>2, <3>3, Zenon
  <2> QED
    BY <2>2, <2>3, Zenon
<1>6. ASSUME NEW u \in Encoded PROVE M(r1, w2 \o u) = M(r2, u)
  <2>1. r2 = [r1 EXCEPT !.email = m.email]
    BY <1>2
  <2>2. CASE m.email = <<>>
    <3>1. w2 = <<>> /\ r2 = r1
      BY <1>2, <2>1, <2>2 DEF WriteString
    <3> QED
      BY <3>1, NothingAround, Zenon
  <2>3. CASE m.email # <<>>
    <3>1. PICK f : f = [tag |-> 18, value |-> m.email]
      OBVIOUS
    <3>2. IsWritten(w2, f)
      BY <1>2, <2>3, <3>1, RegisterRequest_Parts, StringWritten
    <3>3. RegisterRequest_MergePartial(r1, f) = r2
      BY <2>1, <3>1, RegisterRequest_Parts DEF RegisterRequest_MergePartial, ReadString
    <3> QED
      BY <1>1, <1>4, <3>2, <3>3, Zenon
  <2> QED
    BY <2>2, <2>3, Zenon
<1>7. ASSUME NEW u \in Encoded PROVE M(r2, w3 \o u) = M(m, u)
  <2>1. m = [r2 EXCEPT !.password = m.password]
    BY <1>2 DEF RegisterRequest
  <2>2. CASE m.password = <<>>
    <3>1. w3 = <<>> /\ m = r2
      BY <1>2, <2>1, <2>2 DEF WriteString
    <3> QED
      BY <3>1, NothingAround, Zenon
  <2>3. CASE m.password # <<>>
    <3>1. PICK f : f = [tag |-> 26, value |-> m.password]
      OBVIOUS
    <3>2. IsWritten(w3, f)
      BY <1>2, <2>3, <3>1, RegisterRequest_Parts, StringWritten
    <3>3. RegisterRequest_MergePartial(r2, f) = m
      BY <2>1, <3>1, RegisterRequest_Parts DEF RegisterRequest_MergePartial, ReadString
    <3> QED
      BY <1>1, <1>4, <3>2, <3>3, Zenon
  <2> QED
    BY <2>2, <2>3, Zenon
<1>8. RegisterRequest_Serialize(m) = (w1 \o w2) \o w3 /\ RegisterRequest_New = r0
  BY <1>2 DEF RegisterRequest_Serialize, RegisterRequest_New
<1>9. PICK u, v : u = w3 \o t /\ v = w2 \o u
  OBVIOUS
<1>10. u \in Encoded /\ v \in Encoded /\ w1 \o w2 \in Encoded
  BY <1>3, <1>9, Concat
<1>11. ((w1 \o w2) \o w3) \o t = w1 \o v
  <2>1. \A x \in Encoded : (x \o w3) \o t = x \o (w3 \o t)
    BY <1>3, Regroup, Zenon
  <2>2. \A x \in Encoded : (w1 \o w2) \o x = w1 \o (w2 \o x)
    BY <1>3, Regroup, Zenon
  <2> QED
    BY <1>9, <1>10, <2>1, <2>2, Zenon
<1>12. M(r0, w1 \o v) = M(m, t)
  BY <1>5, <1>6, <1>7, <1>9, <1>10, Zenon
<1> QED
  BY <1>8, <1>11, <1>12, Zenon DEF M

\* What is written of RegisterRequest is read back as it was.
LEMMA RegisterRequest_RoundTrip ==
  \A m \in RegisterRequest :
      Merged(RegisterRequest_MergePartial, RegisterRequest_New, RegisterRequest_Serialize(m))
          = m
<1> SUFFICES ASSUME NEW m \in RegisterRequest
             PROVE  Merged(RegisterRequest_MergePartial, RegisterRequest_New,
                        RegisterRequest_Serialize(m)) = m
  OBVIOUS
<1>1. PICK b : b = RegisterRequest_Serialize(m)
  OBVIOUS
<1>2. b \in Encoded /\ b \o <<>> = b
  BY <1>1, RegisterRequest_Size, NothingAround DEF Encodes
<1>3. /\ Merged(RegisterRequest_MergePartial, RegisterRequest_New, b \o <<>>)
             = Merged(RegisterRequest_MergePartial, m, <<>>)
      /\ Merged(RegisterRequest_MergePartial, m, <<>>) = m
  BY <1>1, RegisterRequest_Takes, RegisterRequest_Reads, NoBytes DEF Reads
<1> QED
  BY <1>1, <1>2, <1>3, Zenon

LoginRequest_P == INSTANCE Folding
    WITH Op <- LAMBDA m, f : Checked(LoginRequest_MergePartial, m, f)

\* The parser of LoginRequest reads field by field.
LEMMA LoginRequest_Reads == Reads(LoginRequest_MergePartial)
<1>1. LoginRequest_P!Induction
  BY Induction DEF LoginRequest_P!Induction
<1>2. \A m, s : Merged(LoginRequest_MergePartial, m, s) = LoginRequest_P!Fold(m, Fields[s])
  BY DEF Merged, Checked, LoginRequest_P!Fold, FoldLeft, MapThenFoldSet,
     LoginRequest_P!MapThenFoldSet,
         Max, LoginRequest_P!Greatest
<1>3. \A m : \A f \in AnyField, u \in Seq(AnyField) :
         LoginRequest_P!Fold(m, <<f>> \o u)
             = LoginRequest_P!Fold(Checked(LoginRequest_MergePartial, m, f), u)
  BY <1>1, LoginRequest_P!FoldFront
<1>4. \A m : Merged(LoginRequest_MergePartial, m, <<>>) = m
  BY <1>1, <1>2, LoginRequest_P!FoldEmpty, FieldsEmpty
<1> SUFFICES ASSUME NEW m, NEW b, NEW f, NEW t \in Encoded, m # Failure /\ IsWritten(b, f)
             PROVE  Merged(LoginRequest_MergePartial, m, b \o t)
                      = Merged(LoginRequest_MergePartial, LoginRequest_MergePartial(m, f), t)
  BY <1>4, Zenon DEF Reads
<1>5. PICK u \in Seq(AnyField) : u = Fields[t] /\ Fields[b \o t] = <<f>> \o u
  BY FirstField
<1>6. f \in AnyField
      /\ Checked(LoginRequest_MergePartial, m, f) = LoginRequest_MergePartial(m, f)
  BY FieldIsNoFailure DEF Checked
<1>7. LoginRequest_P!Fold(m, <<f>> \o u)
          = LoginRequest_P!Fold(LoginRequest_MergePartial(m, f), u)
  BY <1>3, <1>6, Zenon
<1> QED
  BY <1>2, <1>5, <1>7, Zenon

\* The strings and numbers of LoginRequest.
LEMMA LoginRequest_Parts ==
  \A m \in LoginRequest : /\ m.email \in Texts /\ m.email \in Encoded
                          /\ m.password \in Texts /\ m.password \in Encoded
  BY TextsAssumption DEF LoginRequest, Encoded

\* LoginRequest is written in the bytes that it announces.
LEMMA LoginRequest_Size ==
  \A m \in LoginRequest : Encodes(LoginRequest_Serialize(m), LoginRequest_ByteSize(m))
<1> SUFFICES ASSUME NEW m \in LoginRequest
             PROVE Encodes(LoginRequest_Serialize(m), LoginRequest_ByteSize(m))
  OBVIOUS
<1>1. /\ Encodes(WriteString(1, m.email), StringSize(m.email))
      /\ Encodes(WriteString(2, m.password), StringSize(m.password))
  BY LoginRequest_Parts, FieldSizes
<1> QED
  BY <1>1, EncodesBoth DEF LoginRequest_Serialize, LoginRequest_ByteSize

\* Every field of LoginRequest is read into its place.
LEMMA LoginRequest_Takes ==
  ASSUME NEW m \in LoginRequest, NEW t \in Encoded
  PROVE  Merged(LoginRequest_MergePartial, LoginRequest_New, LoginRequest_Serialize(m) \o t)
           = Merged(LoginRequest_MergePartial, m, t)
<1> DEFINE M(x, s) == Merged(LoginRequest_MergePartial, x, s)
<1>1. \A x, b, f : \A u \in Encoded : x # Failure /\ IsWritten(b, f)
                  => M(x, b \o u) = M(LoginRequest_MergePartial(x, f), u)
  BY LoginRequest_Reads DEF Reads
<1> HIDE DEF M
<1>2. PICK w1, w2, r0, r1 :
        /\ w1 = WriteString(1, m.email)
        /\ w2 = WriteString(2, m.password)
        /\ r0 = [email |-> <<>>, password |-> <<>>]
        /\ r1 = [email |-> m.email, password |-> <<>>]
  OBVIOUS
<1>3. w1 \in Encoded /\ w2 \in Encoded
  <2>1. Encodes(w1, StringSize(m.email)) /\ Encodes(w2, StringSize(m.password))
    BY <1>2, LoginRequest_Parts, FieldSizes
  <2> QED
    BY <2>1 DEF Encodes
<1>4. r0 # Failure /\ r1 # Failure
  BY <1>2 DEF Failure
<1>5. ASSUME NEW u \in Encoded PROVE M(r0, w1 \o u) = M(r1, u)
  <2>1. r1 = [r0 EXCEPT !.email = m.email]
    BY <1>2
  <2>2. CASE m.email = <<>>
    <3>1. w1 = <<>> /\ r1 = r0
      BY <1>2, <2>1, <2>2 DEF WriteString
    <3> QED
      BY <3>1, NothingAround, Zenon
  <2>3. CASE m.email # <<>>
    <3>1. PICK f : f = [tag |-> 10, value |-> m.email]
      OBVIOUS
    <3>2. IsWritten(w1, f)
      BY <1>2, <2>3, <3>1, LoginRequest_Parts, StringWritten
    <3>3. LoginRequest_MergePartial(r0, f) = r1
      BY <2>1, <3>1, LoginRequest_Parts DEF LoginRequest_MergePartial, ReadString
    <3> QED
      BY <1>1, <1>4, <3>2, <3>3, Zenon
  <2> QED
    BY <2>2, <2>3, Zenon
<1>6. ASSUME NEW u \in Encoded PROVE M(r1, w2 \o u) = M(m, u)
  <2>1. m = [r1 EXCEPT !.password = m.password]
    BY <1>2 DEF LoginRequest
  <2>2. CASE m.password = <<>>
    <3>1. w2 = <<>> /\ m = r1
      BY <1>2, <2>1, <2>2 DEF WriteString
    <3> QED
      BY <3>1, NothingAround, Zenon
  <2>3. CASE m.password # <<>>
    <3>1. PICK f : f = [tag |-> 18, value |-> m.password]
      OBVIOUS
    <3>2. IsWritten(w2, f)
      BY <1>2, <2>3, <3>1, LoginRequest_Parts, StringWritten
    <3>3. LoginRequest_MergePartial(r1, f) = m
      BY <2>1, <3>1, LoginRequest_Parts DEF LoginRequest_MergePartial, ReadString
    <3> QED
      BY <1>1, <1>4, <3>2, <3>3, Zenon
  <2> QED
    BY <2>2, <2>3, Zenon
<1>7. LoginRequest_Serialize(m) = w1 \o w2 /\ LoginRequest_New = r0
  BY <1>2 DEF LoginRequest_Serialize, LoginRequest_New
<1>8. PICK v : v = w2 \o t
  OBVIOUS
<1>9. v \in Encoded /\ (w1 \o w2) \o t = w1 \o v
  BY <1>3, <1>8, Concat, Regroup
<1>10. M(r0, w1 \o v) = M(m, t)
  BY <1>5, <1>6, <1>8, <1>9, Zenon
<1> QED
  BY <1>7, <1>9, <1>10, Zenon DEF M

\* What is written of LoginRequest is read back as it was.
LEMMA LoginRequest_RoundTrip ==
  \A m \in LoginRequest :
      Merged(LoginRequest_MergePartial, LoginRequest_New, LoginRequest_Serialize(m)) = m
<1> SUFFICES ASSUME NEW m \in LoginRequest
             PROVE  Merged(LoginRequest_MergePartial, LoginRequest_New,
                        LoginRequest_Serialize(m)) = m
  OBVIOUS
<1>1. PICK b : b = LoginRequest_Serialize(m)
  OBVIOUS
<1>2. b \in Encoded /\ b \o <<>> = b
  BY <1>1, LoginRequest_Size, NothingAround DEF Encodes
<1>3. /\ Merged(LoginRequest_MergePartial, LoginRequest_New, b \o <<>>)
             = Merged(LoginRequest_MergePartial, m, <<>>)
      /\ Merged(LoginRequest_MergePartial, m, <<>>) = m
  BY <1>1, LoginRequest_Takes, LoginRequest_Reads, NoBytes DEF Reads
<1> QED
  BY <1>1, <1>2, <1>3, Zenon

MessagesRequest_P == INSTANCE Folding
    WITH Op <- LAMBDA m, f : Checked(MessagesRequest_MergePartial, m, f)

\* The parser of MessagesRequest reads field by field.
LEMMA MessagesRequest_Reads == Reads(MessagesRequest_MergePartial)
<1>1. MessagesRequest_P!Induction
  BY Induction DEF MessagesRequest_P!Induction
<1>2. \A m, s :
          Merged(MessagesRequest_MergePartial, m, s) = MessagesRequest_P!Fold(m, Fields[s])
  BY DEF Merged, Checked, MessagesRequest_P!Fold, FoldLeft, MapThenFoldSet,
     MessagesRequest_P!MapThenFoldSet,
         Max, MessagesRequest_P!Greatest
<1>3. \A m : \A f \in AnyField, u \in Seq(AnyField) :
         MessagesRequest_P!Fold(m, <<f>> \o u)
             = MessagesRequest_P!Fold(Checked(MessagesRequest_MergePartial, m, f), u)
  BY <1>1, MessagesRequest_P!FoldFront
<1>4. \A m : Merged(MessagesRequest_MergePartial, m, <<>>) = m
  BY <1>1, <1>2, MessagesRequest_P!FoldEmpty, FieldsEmpty
<1> SUFFICES ASSUME NEW m, NEW b, NEW f, NEW t \in Encoded, m # Failure /\ IsWritten(b, f)
             PROVE  Merged(MessagesRequest_MergePartial, m, b \o t)
                      = Merged(MessagesRequest_MergePartial, MessagesRequest_MergePartial(m, f),
                          t)
  BY <1>4, Zenon DEF Reads
<1>5. PICK u \in Seq(AnyField) : u = Fields[t] /\ Fields[b \o t] = <<f>> \o u
  BY FirstField
<1>6. f \in AnyField
      /\ Checked(MessagesRequest_MergePartial, m, f) = MessagesRequest_MergePartial(m, f)
  BY FieldIsNoFailure DEF Checked
<1>7. MessagesRequest_P!Fold(m, <<f>> \o u)
          = MessagesRequest_P!Fold(MessagesRequest_MergePartial(m, f), u)
  BY <1>3, <1>6, Zenon
<1> QED
  BY <1>2, <1>5, <1>7, Zenon

\* The strings and numbers of MessagesRequest.
LEMMA MessagesRequest_Parts ==
  \A m \in MessagesRequest : m.chat_id \in Nat
  BY IdsAssumption DEF MessagesRequest

\* MessagesRequest is written in the bytes that it announces.
LEMMA MessagesRequest_Size ==
  \A m \in MessagesRequest : Encodes(MessagesRequest_Serialize(m), MessagesRequest_ByteSize(m))
<1> SUFFICES ASSUME NEW m \in MessagesRequest
             PROVE Encodes(MessagesRequest_Serialize(m), MessagesRequest_ByteSize(m))
  OBVIOUS
<1>1. Encodes(WriteUInt64(1, m.chat_id), UInt64Size(m.chat_id))
  BY MessagesRequest_Parts, FieldSizes
<1> QED
  BY <1>1 DEF MessagesRequest_Serialize, MessagesRequest_ByteSize

\* Every field of MessagesRequest is read into its place.
LEMMA MessagesRequest_Takes ==
  ASSUME NEW m \in MessagesRequest, NEW t \in Encoded
  PROVE  Merged(MessagesRequest_MergePartial, MessagesRequest_New,
             MessagesRequest_Serialize(m) \o t)
           = Merged(MessagesRequest_MergePartial, m, t)
<1> DEFINE M(x, s) == Merged(MessagesRequest_MergePartial, x, s)
<1>1. \A x, b, f : \A u \in Encoded : x # Failure /\ IsWritten(b, f)
                  => M(x, b \o u) = M(MessagesRequest_MergePartial(x, f), u)
  BY MessagesRequest_Reads DEF Reads
<1> HIDE DEF M
<1>2. PICK w1, r0 :
        /\ w1 = WriteUInt64(1, m.chat_id)
        /\ r0 = [chat_id |-> 0]
  OBVIOUS
<1>3. w1 \in Encoded
  <2>1. Encodes(w1, UInt64Size(m.chat_id))
    BY <1>2, MessagesRequest_Parts, FieldSizes
  <2> QED
    BY <2>1 DEF Encodes
<1>4. r0 # Failure
  BY <1>2 DEF Failure
<1>5. ASSUME NEW u \in Encoded PROVE M(r0, w1 \o u) = M(m, u)
  <2>1. m = [r0 EXCEPT !.chat_id = m.chat_id]
    BY <1>2 DEF MessagesRequest
  <2>2. CASE m.chat_id = 0
    <3>1. w1 = <<>> /\ m = r0
      BY <1>2, <2>1, <2>2 DEF WriteUInt64
    <3> QED
      BY <3>1, NothingAround, Zenon
  <2>3. CASE m.chat_id # 0
    <3>1. PICK f : f = [tag |-> 8, value |-> m.chat_id]
      OBVIOUS
    <3>2. IsWritten(w1, f)
      BY <1>2, <2>3, <3>1, MessagesRequest_Parts, NumberWritten
    <3>3. MessagesRequest_MergePartial(r0, f) = m
      BY <2>1, <3>1, MessagesRequest_Parts DEF MessagesRequest_MergePartial
    <3> QED
      BY <1>1, <1>4, <3>2, <3>3, Zenon
  <2> QED
    BY <2>2, <2>3, Zenon
<1>6. MessagesRequest_Serialize(m) = w1 /\ MessagesRequest_New = r0
  BY <1>2 DEF MessagesRequest_Serialize, MessagesRequest_New
<1> QED
  BY <1>5, <1>6, Zenon DEF M

\* What is written of MessagesRequest is read back as it was.
LEMMA MessagesRequest_RoundTrip ==
  \A m \in MessagesRequest :
      Merged(MessagesRequest_MergePartial, MessagesRequest_New, MessagesRequest_Serialize(m))
          = m
<1> SUFFICES ASSUME NEW m \in MessagesRequest
             PROVE  Merged(MessagesRequest_MergePartial, MessagesRequest_New,
                        MessagesRequest_Serialize(m)) = m
  OBVIOUS
<1>1. PICK b : b = MessagesRequest_Serialize(m)
  OBVIOUS
<1>2. b \in Encoded /\ b \o <<>> = b
  BY <1>1, MessagesRequest_Size, NothingAround DEF Encodes
<1>3. /\ Merged(MessagesRequest_MergePartial, MessagesRequest_New, b \o <<>>)
             = Merged(MessagesRequest_MergePartial, m, <<>>)
      /\ Merged(MessagesRequest_MergePartial, m, <<>>) = m
  BY <1>1, MessagesRequest_Takes, MessagesRequest_Reads, NoBytes DEF Reads
<1> QED
  BY <1>1, <1>2, <1>3, Zenon

MessageToSend_P == INSTANCE Folding
    WITH Op <- LAMBDA m, f : Checked(MessageToSend_MergePartial, m, f)

\* The parser of MessageToSend reads field by field.
LEMMA MessageToSend_Reads == Reads(MessageToSend_MergePartial)
<1>1. MessageToSend_P!Induction
  BY Induction DEF MessageToSend_P!Induction
<1>2. \A m, s : Merged(MessageToSend_MergePartial, m, s) = MessageToSend_P!Fold(m, Fields[s])
  BY DEF Merged, Checked, MessageToSend_P!Fold, FoldLeft, MapThenFoldSet,
     MessageToSend_P!MapThenFoldSet,
         Max, MessageToSend_P!Greatest
<1>3. \A m : \A f \in AnyField, u \in Seq(AnyField) :
         MessageToSend_P!Fold(m, <<f>> \o u)
             = MessageToSend_P!Fold(Checked(MessageToSend_MergePartial, m, f), u)
  BY <1>1, MessageToSend_P!FoldFront
<1>4. \A m : Merged(MessageToSend_MergePartial, m, <<>>) = m
  BY <1>1, <1>2, MessageToSend_P!FoldEmpty, FieldsEmpty
<1> SUFFICES ASSUME NEW m, NEW b, NEW f, NEW t \in Encoded, m # Failure /\ IsWritten(b, f)
             PROVE  Merged(MessageToSend_MergePartial, m, b \o t)
                      = Merged(MessageToSend_MergePartial, MessageToSend_MergePartial(m, f), t)
  BY <1>4, Zenon DEF Reads
<1>5. PICK u \in Seq(AnyField) : u = Fields[t] /\ Fields[b \o t] = <<f>> \o u
  BY FirstField
<1>6. f \in AnyField
      /\ Checked(MessageToSend_MergePartial, m, f) = MessageToSend_MergePartial(m, f)
  BY FieldIsNoFailure DEF Checked
<1>7. MessageToSend_P!Fold(m, <<f>> \o u)
          = MessageToSend_P!Fold(MessageToSend_MergePartial(m, f), u)
  BY <1>3, <1>6, Zenon
<1> QED
  BY <1>2, <1>5, <1>7, Zenon

\* The strings and numbers of MessageToSend.
LEMMA MessageToSend_Parts ==
  \A m \in MessageToSend : /\ m.chat_id \in Nat
                           /\ m.text \in Texts /\ m.text \in Encoded
  BY TextsAssumption, IdsAssumption DEF MessageToSend, Encoded

\* MessageToSend is written in the bytes that it announces.
LEMMA MessageToSend_Size ==
  \A m \in MessageToSend : Encodes(MessageToSend_Serialize(m), MessageToSend_ByteSize(m))
<1> SUFFICES ASSUME NEW m \in MessageToSend
             PROVE Encodes(MessageToSend_Serialize(m), MessageToSend_ByteSize(m))
  OBVIOUS
<1>1. /\ Encodes(WriteUInt64(1, m.chat_id), UInt64Size(m.chat_id))
      /\ Encodes(WriteString(2, m.text), StringSize(m.text))
  BY MessageToSend_Parts, FieldSizes
<1> QED
  BY <1>1, EncodesBoth DEF MessageToSend_Serialize, MessageToSend_ByteSize

\* Every field of MessageToSend is read into its place.
LEMMA MessageToSend_Takes ==
  ASSUME NEW m \in MessageToSend, NEW t \in Encoded
  PROVE  Merged(MessageToSend_MergePartial, MessageToSend_New, MessageToSend_Serialize(m) \o t)
           = Merged(MessageToSend_MergePartial, m, t)
<1> DEFINE M(x, s) == Merged(MessageToSend_MergePartial, x, s)
<1>1. \A x, b, f : \A u \in Encoded : x # Failure /\ IsWritten(b, f)
                  => M(x, b \o u) = M(MessageToSend_MergePartial(x, f), u)
  BY MessageToSend_Reads DEF Reads
<1> HIDE DEF M
<1>2. PICK w1, w2, r0, r1 :
        /\ w1 = WriteUInt64(1, m.chat_id)
        /\ w2 = WriteString(2, m.text)
        /\ r0 = [chat_id |-> 0, text |-> <<>>]
        /\ r1 = [chat_id |-> m.chat_id, text |-> <<>>]
  OBVIOUS
<1>3. w1 \in Encoded /\ w2 \in Encoded
  <2>1. Encodes(w1, UInt64Size(m.chat_id)) /\ Encodes(w2, StringSize(m.text))
    BY <1>2, MessageToSend_Parts, FieldSizes
  <2> QED
    BY <2>1 DEF Encodes
<1>4. r0 # Failure /\ r1 # Failure
  BY <1>2 DEF Failure
<1>5. ASSUME NEW u \in Encoded PROVE M(r0, w1 \o u) = M(r1, u)
  <2>1. r1 = [r0 EXCEPT !.chat_id = m.chat_id]
    BY <1>2
  <2>2. CASE m.chat_id = 0
    <3>1. w1 = <<>> /\ r1 = r0
      BY <1>2, <2>1, <2>2 DEF WriteUInt64
    <3> QED
      BY <3>1, NothingAround, Zenon
  <2>3. CASE m.chat_id # 0
    <3>1. PICK f : f = [tag |-> 8, value |-> m.chat_id]
      OBVIOUS
    <3>2. IsWritten(w1, f)
      BY <1>2, <2>3, <3>1, MessageToSend_Parts, NumberWritten
    <3>3. MessageToSend_MergePartial(r0, f) = r1
      BY <2>1, <3>1, MessageToSend_Parts DEF MessageToSend_MergePartial
    <3> QED
      BY <1>1, <1>4, <3>2, <3>3, Zenon
  <2> QED
    BY <2>2, <2>3, Zenon
<1>6. ASSUME NEW u \in Encoded PROVE M(r1, w2 \o u) = M(m, u)
  <2>1. m = [r1 EXCEPT !.text = m.text]
    BY <1>2 DEF MessageToSend
  <2>2. CASE m.text = <<>>
    <3>1. w2 = <<>> /\ m = r1
      BY <1>2, <2>1, <2>2 DEF WriteString
    <3> QED
      BY <3>1, NothingAround, Zenon
  <2>3. CASE m.text # <<>>
    <3>1. PICK f : f = [tag |-> 18, value |-> m.text]
      OBVIOUS
    <3>2. IsWritten(w2, f)
      BY <1>2, <2>3, <3>1, MessageToSend_Parts, StringWritten
    <3>3. MessageToSend_MergePartial(r1, f) = m
      BY <2>1, <3>1, MessageToSend_Parts DEF MessageToSend_MergePartial, ReadString
    <3> QED
      BY <1>1, <1>4, <3>2, <3>3, Zenon
  <2> QED
    BY <2>2, <2>3, Zenon
<1>7. MessageToSend_Serialize(m) = w1 \o w2 /\ MessageToSend_New = r0
  BY <1>2 DEF MessageToSend_Serialize, MessageToSend_New
<1>8. PICK v : v = w2 \o t
  OBVIOUS
<1>9. v \in Encoded /\ (w1 \o w2) \o t = w1 \o v
  BY <1>3, <1>8, Concat, Regroup
<1>10. M(r0, w1 \o v) = M(m, t)
  BY <1>5, <1>6, <1>8, <1>9, Zenon
<1> QED
  BY <1>7, <1>9, <1>10, Zenon DEF M

\* What is written of MessageToSend is read back as it was.
LEMMA MessageToSend_RoundTrip ==
  \A m \in MessageToSend :
      Merged(MessageToSend_MergePartial, MessageToSend_New, MessageToSend_Serialize(m)) = m
<1> SUFFICES ASSUME NEW m \in MessageToSend
             PROVE  Merged(MessageToSend_MergePartial, MessageToSend_New,
                        MessageToSend_Serialize(m)) = m
  OBVIOUS
<1>1. PICK b : b = MessageToSend_Serialize(m)
  OBVIOUS
<1>2. b \in Encoded /\ b \o <<>> = b
  BY <1>1, MessageToSend_Size, NothingAround DEF Encodes
<1>3. /\ Merged(MessageToSend_MergePartial, MessageToSend_New, b \o <<>>)
             = Merged(MessageToSend_MergePartial, m, <<>>)
      /\ Merged(MessageToSend_MergePartial, m, <<>>) = m
  BY <1>1, MessageToSend_Takes, MessageToSend_Reads, NoBytes DEF Reads
<1> QED
  BY <1>1, <1>2, <1>3, Zenon

AddContactRequest_P == INSTANCE Folding
    WITH Op <- LAMBDA m, f : Checked(AddContactRequest_MergePartial, m, f)

\* The parser of AddContactRequest reads field by field.
LEMMA AddContactRequest_Reads == Reads(AddContactRequest_MergePartial)
<1>1. AddContactRequest_P!Induction
  BY Induction DEF AddContactRequest_P!Induction
<1>2. \A m, s :
          Merged(AddContactRequest_MergePartial, m, s) = AddContactRequest_P!Fold(m, Fields[s])
  BY DEF Merged, Checked, AddContactRequest_P!Fold, FoldLeft, MapThenFoldSet,
     AddContactRequest_P!MapThenFoldSet,
         Max, AddContactRequest_P!Greatest
<1>3. \A m : \A f \in AnyField, u \in Seq(AnyField) :
         AddContactRequest_P!Fold(m, <<f>> \o u)
             = AddContactRequest_P!Fold(Checked(AddContactRequest_MergePartial, m, f), u)
  BY <1>1, AddContactRequest_P!FoldFront
<1>4. \A m : Merged(AddContactRequest_MergePartial, m, <<>>) = m
  BY <1>1, <1>2, AddContactRequest_P!FoldEmpty, FieldsEmpty
<1> SUFFICES ASSUME NEW m, NEW b, NEW f, NEW t \in Encoded, m # Failure /\ IsWritten(b, f)
             PROVE  Merged(AddContactRequest_MergePartial, m, b \o t)
                      = Merged(AddContactRequest_MergePartial,
                          AddContactRequest_MergePartial(m, f), t)
  BY <1>4, Zenon DEF Reads
<1>5. PICK u \in Seq(AnyField) : u = Fields[t] /\ Fields[b \o t] = <<f>> \o u
  BY FirstField
<1>6. f \in AnyField
      /\ Checked(AddContactRequest_MergePartial, m, f) = AddContactRequest_MergePartial(m, f)
  BY FieldIsNoFailure DEF Checked
<1>7. AddContactRequest_P!Fold(m, <<f>> \o u)
          = AddContactRequest_P!Fold(AddContactRequest_MergePartial(m, f), u)
  BY <1>3, <1>6, Zenon
<1> QED
  BY <1>2, <1>5, <1>7, Zenon

\* The strings and numbers of AddContactRequest.
LEMMA AddContactRequest_Parts ==
  \A m \in AddContactRequest : m.email \in Texts /\ m.email \in Encoded
  BY TextsAssumption DEF AddContactRequest, Encoded

\* AddContactRequest is written in the bytes that it announces.
LEMMA AddContactRequest_Size ==
  \A m \in AddContactRequest :
      Encodes(AddContactRequest_Serialize(m), AddContactRequest_ByteSize(m))
<1> SUFFICES ASSUME NEW m \in AddContactRequest
             PROVE Encodes(AddContactRequest_Serialize(m), AddContactRequest_ByteSize(m))
  OBVIOUS
<1>1. Encodes(WriteString(1, m.email), StringSize(m.email))
  BY AddContactRequest_Parts, FieldSizes
<1> QED
  BY <1>1 DEF AddContactRequest_Serialize, AddContactRequest_ByteSize

\* Every field of AddContactRequest is read into its place.
LEMMA AddContactRequest_Takes ==
  ASSUME NEW m \in AddContactRequest, NEW t \in Encoded
  PROVE  Merged(AddContactRequest_MergePartial, AddContactRequest_New,
             AddContactRequest_Serialize(m) \o t)
           = Merged(AddContactRequest_MergePartial, m, t)
<1> DEFINE M(x, s) == Merged(AddContactRequest_MergePartial, x, s)
<1>1. \A x, b, f : \A u \in Encoded : x # Failure /\ IsWritten(b, f)
                  => M(x, b \o u) = M(AddContactRequest_MergePartial(x, f), u)
  BY AddContactRequest_Reads DEF Reads
<1> HIDE DEF M
<1>2. PICK w1, r0 :
        /\ w1 = WriteString(1, m.email)
        /\ r0 = [email |-> <<>>]
  OBVIOUS
<1>3. w1 \in Encoded
  <2>1. Encodes(w1, StringSize(m.email))
    BY <1>2, AddContactRequest_Parts, FieldSizes
  <2> QED
    BY <2>1 DEF Encodes
<1>4. r0 # Failure
  BY <1>2 DEF Failure
<1>5. ASSUME NEW u \in Encoded PROVE M(r0, w1 \o u) = M(m, u)
  <2>1. m = [r0 EXCEPT !.email = m.email]
    BY <1>2 DEF AddContactRequest
  <2>2. CASE m.email = <<>>
    <3>1. w1 = <<>> /\ m = r0
      BY <1>2, <2>1, <2>2 DEF WriteString
    <3> QED
      BY <3>1, NothingAround, Zenon
  <2>3. CASE m.email # <<>>
    <3>1. PICK f : f = [tag |-> 10, value |-> m.email]
      OBVIOUS
    <3>2. IsWritten(w1, f)
      BY <1>2, <2>3, <3>1, AddContactRequest_Parts, StringWritten
    <3>3. AddContactRequest_MergePartial(r0, f) = m
      BY <2>1, <3>1, AddContactRequest_Parts DEF AddContactRequest_MergePartial, ReadString
    <3> QED
      BY <1>1, <1>4, <3>2, <3>3, Zenon
  <2> QED
    BY <2>2, <2>3, Zenon
<1>6. AddContactRequest_Serialize(m) = w1 /\ AddContactRequest_New = r0
  BY <1>2 DEF AddContactRequest_Serialize, AddContactRequest_New
<1> QED
  BY <1>5, <1>6, Zenon DEF M

\* What is written of AddContactRequest is read back as it was.
LEMMA AddContactRequest_RoundTrip ==
  \A m \in AddContactRequest :
      Merged(AddContactRequest_MergePartial, AddContactRequest_New,
          AddContactRequest_Serialize(m)) = m
<1> SUFFICES ASSUME NEW m \in AddContactRequest
             PROVE  Merged(AddContactRequest_MergePartial, AddContactRequest_New,
                        AddContactRequest_Serialize(m)) = m
  OBVIOUS
<1>1. PICK b : b = AddContactRequest_Serialize(m)
  OBVIOUS
<1>2. b \in Encoded /\ b \o <<>> = b
  BY <1>1, AddContactRequest_Size, NothingAround DEF Encodes
<1>3. /\ Merged(AddContactRequest_MergePartial, AddContactRequest_New, b \o <<>>)
             = Merged(AddContactRequest_MergePartial, m, <<>>)
      /\ Merged(AddContactRequest_MergePartial, m, <<>>) = m
  BY <1>1, AddContactRequest_Takes, AddContactRequest_Reads, NoBytes DEF Reads
<1> QED
  BY <1>1, <1>2, <1>3, Zenon

CreateChatRequest_P == INSTANCE Folding
    WITH Op <- LAMBDA m, f : Checked(CreateChatRequest_MergePartial, m, f)

\* The parser of CreateChatRequest reads field by field.
LEMMA CreateChatRequest_Reads == Reads(CreateChatRequest_MergePartial)
<1>1. CreateChatRequest_P!Induction
  BY Induction DEF CreateChatRequest_P!Induction
<1>2. \A m, s :
          Merged(CreateChatRequest_MergePartial, m, s) = CreateChatRequest_P!Fold(m, Fields[s])
  BY DEF Merged, Checked, CreateChatRequest_P!Fold, FoldLeft, MapThenFoldSet,
     CreateChatRequest_P!MapThenFoldSet,
         Max, CreateChatRequest_P!Greatest
<1>3. \A m : \A f \in AnyField, u \in Seq(AnyField) :
         CreateChatRequest_P!Fold(m, <<f>> \o u)
             = CreateChatRequest_P!Fold(Checked(CreateChatRequest_MergePartial, m, f), u)
  BY <1>1, CreateChatRequest_P!FoldFront
<1>4. \A m : Merged(CreateChatRequest_MergePartial, m, <<>>) = m
  BY <1>1, <1>2, CreateChatRequest_P!FoldEmpty, FieldsEmpty
<1> SUFFICES ASSUME NEW m, NEW b, NEW f, NEW t \in Encoded, m # Failure /\ IsWritten(b, f)
             PROVE  Merged(CreateChatRequest_MergePartial, m, b \o t)
                      = Merged(CreateChatRequest_MergePartial,
                          CreateChatRequest_MergePartial(m, f), t)
  BY <1>4, Zenon DEF Reads
<1>5. PICK u \in Seq(AnyField) : u = Fields[t] /\ Fields[b \o t] = <<f>> \o u
  BY FirstField
<1>6. f \in AnyField
      /\ Checked(CreateChatRequest_MergePartial, m, f) = CreateChatRequest_MergePartial(m, f)
  BY FieldIsNoFailure DEF Checked
<1>7. CreateChatRequest_P!Fold(m, <<f>> \o u)
          = CreateChatRequest_P!Fold(CreateChatRequest_MergePartial(m, f), u)
  BY <1>3, <1>6, Zenon
<1> QED
  BY <1>2, <1>5, <1>7, Zenon

\* The strings and numbers of CreateChatRequest.
LEMMA CreateChatRequest_Parts ==
  \A m \in CreateChatRequest : m.friend_id \in Nat
  BY IdsAssumption DEF CreateChatRequest

\* CreateChatRequest is written in the bytes that it announces.
LEMMA CreateChatRequest_Size ==
  \A m \in CreateChatRequest :
      Encodes(CreateChatRequest_Serialize(m), CreateChatRequest_ByteSize(m))
<1> SUFFICES ASSUME NEW m \in CreateChatRequest
             PROVE Encodes(CreateChatRequest_Serialize(m), CreateChatRequest_ByteSize(m))
  OBVIOUS
<1>1. Encodes(WriteUInt64(1, m.friend_id), UInt64Size(m.friend_id))
  BY CreateChatRequest_Parts, FieldSizes
<1> QED
  BY <1>1 DEF CreateChatRequest_Serialize, CreateChatRequest_ByteSize

\* Every field of CreateChatRequest is read into its place.
LEMMA CreateChatRequest_Takes ==
  ASSUME NEW m \in CreateChatRequest, NEW t \in Encoded
  PROVE  Merged(CreateChatRequest_MergePartial, CreateChatRequest_New,
             CreateChatRequest_Serialize(m) \o t)
           = Merged(CreateChatRequest_MergePartial, m, t)
<1> DEFINE M(x, s) == Merged(CreateChatRequest_MergePartial, x, s)
<1>1. \A x, b, f : \A u \in Encoded : x # Failure /\ IsWritten(b, f)
                  => M(x, b \o u) = M(CreateChatRequest_MergePartial(x, f), u)
  BY CreateChatRequest_Reads DEF Reads
<1> HIDE DEF M
<1>2. PICK w1, r0 :
        /\ w1 = WriteUInt64(1, m.friend_id)
        /\ r0 = [friend_id |-> 0]
  OBVIOUS
<1>3. w1 \in Encoded
  <2>1. Encodes(w1, UInt64Size(m.friend_id))
    BY <1>2, CreateChatRequest_Parts, FieldSizes
  <2> QED
    BY <2>1 DEF Encodes
<1>4. r0 # Failure
  BY <1>2 DEF Failure
<1>5. ASSUME NEW u \in Encoded PROVE M(r0, w1 \o u) = M(m, u)
  <2>1. m = [r0 EXCEPT !.friend_id = m.friend_id]
    BY <1>2 DEF CreateChatRequest
  <2>2. CASE m.friend_id = 0
    <3>1. w1 = <<>> /\ m = r0
      BY <1>2, <2>1, <2>2 DEF WriteUInt64
    <3> QED
      BY <3>1, NothingAround, Zenon
  <2>3. CASE m.friend_id # 0
    <3>1. PICK f : f = [tag |-> 8, value |-> m.friend_id]
      OBVIOUS
    <3>2. IsWritten(w1, f)
      BY <1>2, <2>3, <3>1, CreateChatRequest_Parts, NumberWritten
    <3>3. CreateChatRequest_MergePartial(r0, f) = m
      BY <2>1, <3>1, CreateChatRequest_Parts DEF CreateChatRequest_MergePartial
    <3> QED
      BY <1>1, <1>4, <3>2, <3>3, Zenon
  <2> QED
    BY <2>2, <2>3, Zenon
<1>6. CreateChatRequest_Serialize(m) = w1 /\ CreateChatRequest_New = r0
  BY <1>2 DEF CreateChatRequest_Serialize, CreateChatRequest_New
<1> QED
  BY <1>5, <1>6, Zenon DEF M

\* What is written of CreateChatRequest is read back as it was.
LEMMA CreateChatRequest_RoundTrip ==
  \A m \in CreateChatRequest :
      Merged(CreateChatRequest_MergePartial, CreateChatRequest_New,
          CreateChatRequest_Serialize(m)) = m
<1> SUFFICES ASSUME NEW m \in CreateChatRequest
             PROVE  Merged(CreateChatRequest_MergePartial, CreateChatRequest_New,
                        CreateChatRequest_Serialize(m)) = m
  OBVIOUS
<1>1. PICK b : b = CreateChatRequest_Serialize(m)
  OBVIOUS
<1>2. b \in Encoded /\ b \o <<>> = b
  BY <1>1, CreateChatRequest_Size, NothingAround DEF Encodes
<1>3. /\ Merged(CreateChatRequest_MergePartial, CreateChatRequest_New, b \o <<>>)
             = Merged(CreateChatRequest_MergePartial, m, <<>>)
      /\ Merged(CreateChatRequest_MergePartial, m, <<>>) = m
  BY <1>1, CreateChatRequest_Takes, CreateChatRequest_Reads, NoBytes DEF Reads
<1> QED
  BY <1>1, <1>2, <1>3, Zenon

StatusResponse_P == INSTANCE Folding
    WITH Op <- LAMBDA m, f : Checked(StatusResponse_MergePartial, m, f)

\* The parser of StatusResponse reads field by field.
LEMMA StatusResponse_Reads == Reads(StatusResponse_MergePartial)
<1>1. StatusResponse_P!Induction
  BY Induction DEF StatusResponse_P!Induction
<1>2. \A m, s : Merged(StatusResponse_MergePartial, m, s) = StatusResponse_P!Fold(m, Fields[s])
  BY DEF Merged, Checked, StatusResponse_P!Fold, FoldLeft, MapThenFoldSet,
     StatusResponse_P!MapThenFoldSet,
         Max, StatusResponse_P!Greatest
<1>3. \A m : \A f \in AnyField, u \in Seq(AnyField) :
         StatusResponse_P!Fold(m, <<f>> \o u)
             = StatusResponse_P!Fold(Checked(StatusResponse_MergePartial, m, f), u)
  BY <1>1, StatusResponse_P!FoldFront
<1>4. \A m : Merged(StatusResponse_MergePartial, m, <<>>) = m
  BY <1>1, <1>2, StatusResponse_P!FoldEmpty, FieldsEmpty
<1> SUFFICES ASSUME NEW m, NEW b, NEW f, NEW t \in Encoded, m # Failure /\ IsWritten(b, f)
             PROVE  Merged(StatusResponse_MergePartial, m, b \o t)
                      = Merged(StatusResponse_MergePartial, StatusResponse_MergePartial(m, f),
                          t)
  BY <1>4, Zenon DEF Reads
<1>5. PICK u \in Seq(AnyField) : u = Fields[t] /\ Fields[b \o t] = <<f>> \o u
  BY FirstField
<1>6. f \in AnyField
      /\ Checked(StatusResponse_MergePartial, m, f) = StatusResponse_MergePartial(m, f)
  BY FieldIsNoFailure DEF Checked
<1>7. StatusResponse_P!Fold(m, <<f>> \o u)
          = StatusResponse_P!Fold(StatusResponse_MergePartial(m, f), u)
  BY <1>3, <1>6, Zenon
<1> QED
  BY <1>2, <1>5, <1>7, Zenon

\* The strings and numbers of StatusResponse.
LEMMA StatusResponse_Parts ==
  \A m \in StatusResponse : m.result \in Nat
  BY DEF StatusResponse, ACCEPTED, REJECTED

\* StatusResponse is written in the bytes that it announces.
LEMMA StatusResponse_Size ==
  \A m \in StatusResponse : Encodes(StatusResponse_Serialize(m), StatusResponse_ByteSize(m))
<1> SUFFICES ASSUME NEW m \in StatusResponse
             PROVE Encodes(StatusResponse_Serialize(m), StatusResponse_ByteSize(m))
  OBVIOUS
<1>1. Encodes(WriteUInt64(1, m.result), UInt64Size(m.result))
  BY StatusResponse_Parts, FieldSizes
<1> QED
  BY <1>1 DEF StatusResponse_Serialize, StatusResponse_ByteSize

\* Every field of StatusResponse is read into its place.
LEMMA StatusResponse_Takes ==
  ASSUME NEW m \in StatusResponse, NEW t \in Encoded
  PROVE  Merged(StatusResponse_MergePartial, StatusResponse_New,
             StatusResponse_Serialize(m) \o t)
           = Merged(StatusResponse_MergePartial, m, t)
<1> DEFINE M(x, s) == Merged(StatusResponse_MergePartial, x, s)
<1>1. \A x, b, f : \A u \in Encoded : x # Failure /\ IsWritten(b, f)
                  => M(x, b \o u) = M(StatusResponse_MergePartial(x, f), u)
  BY StatusResponse_Reads DEF Reads
<1> HIDE DEF M
<1>2. PICK w1, r0 :
        /\ w1 = WriteUInt64(1, m.result)
        /\ r0 = [result |-> 0]
  OBVIOUS
<1>3. w1 \in Encoded
  <2>1. Encodes(w1, UInt64Size(m.result))
    BY <1>2, StatusResponse_Parts, FieldSizes
  <2> QED
    BY <2>1 DEF Encodes
<1>4. r0 # Failure
  BY <1>2 DEF Failure
<1>5. ASSUME NEW u \in Encoded PROVE M(r0, w1 \o u) = M(m, u)
  <2>1. m = [r0 EXCEPT !.result = m.result]
    BY <1>2 DEF StatusResponse
  <2>2. CASE m.result = 0
    <3>1. w1 = <<>> /\ m = r0
      BY <1>2, <2>1, <2>2 DEF WriteUInt64
    <3> QED
      BY <3>1, NothingAround, Zenon
  <2>3. CASE m.result # 0
    <3>1. PICK f : f = [tag |-> 8, value |-> m.result]
      OBVIOUS
    <3>2. IsWritten(w1, f)
      BY <1>2, <2>3, <3>1, StatusResponse_Parts, NumberWritten
    <3>3. StatusResponse_MergePartial(r0, f) = m
      BY <2>1, <3>1, StatusResponse_Parts DEF StatusResponse_MergePartial
    <3> QED
      BY <1>1, <1>4, <3>2, <3>3, Zenon
  <2> QED
    BY <2>2, <2>3, Zenon
<1>6. StatusResponse_Serialize(m) = w1 /\ StatusResponse_New = r0
  BY <1>2 DEF StatusResponse_Serialize, StatusResponse_New, ACCEPTED
<1> QED
  BY <1>5, <1>6, Zenon DEF M

\* What is written of StatusResponse is read back as it was.
LEMMA StatusResponse_RoundTrip ==
  \A m \in StatusResponse :
      Merged(StatusResponse_MergePartial, StatusResponse_New, StatusResponse_Serialize(m)) = m
<1> SUFFICES ASSUME NEW m \in StatusResponse
             PROVE  Merged(StatusResponse_MergePartial, StatusResponse_New,
                        StatusResponse_Serialize(m)) = m
  OBVIOUS
<1>1. PICK b : b = StatusResponse_Serialize(m)
  OBVIOUS
<1>2. b \in Encoded /\ b \o <<>> = b
  BY <1>1, StatusResponse_Size, NothingAround DEF Encodes
<1>3. /\ Merged(StatusResponse_MergePartial, StatusResponse_New, b \o <<>>)
             = Merged(StatusResponse_MergePartial, m, <<>>)
      /\ Merged(StatusResponse_MergePartial, m, <<>>) = m
  BY <1>1, StatusResponse_Takes, StatusResponse_Reads, NoBytes DEF Reads
<1> QED
  BY <1>1, <1>2, <1>3, Zenon

Contact_P == INSTANCE Folding WITH Op <- LAMBDA m, f : Checked(Contact_MergePartial, m, f)

\* The parser of Contact reads field by field.
LEMMA Contact_Reads == Reads(Contact_MergePartial)
<1>1. Contact_P!Induction
  BY Induction DEF Contact_P!Induction
<1>2. \A m, s : Merged(Contact_MergePartial, m, s) = Contact_P!Fold(m, Fields[s])
  BY DEF Merged, Checked, Contact_P!Fold, FoldLeft, MapThenFoldSet, Contact_P!MapThenFoldSet,
         Max, Contact_P!Greatest
<1>3. \A m : \A f \in AnyField, u \in Seq(AnyField) :
         Contact_P!Fold(m, <<f>> \o u) = Contact_P!Fold(Checked(Contact_MergePartial, m, f), u)
  BY <1>1, Contact_P!FoldFront
<1>4. \A m : Merged(Contact_MergePartial, m, <<>>) = m
  BY <1>1, <1>2, Contact_P!FoldEmpty, FieldsEmpty
<1> SUFFICES ASSUME NEW m, NEW b, NEW f, NEW t \in Encoded, m # Failure /\ IsWritten(b, f)
             PROVE  Merged(Contact_MergePartial, m, b \o t)
                      = Merged(Contact_MergePartial, Contact_MergePartial(m, f), t)
  BY <1>4, Zenon DEF Reads
<1>5. PICK u \in Seq(AnyField) : u = Fields[t] /\ Fields[b \o t] = <<f>> \o u
  BY FirstField
<1>6. f \in AnyField /\ Checked(Contact_MergePartial, m, f) = Contact_MergePartial(m, f)
  BY FieldIsNoFailure DEF Checked
<1>7. Contact_P!Fold(m, <<f>> \o u) = Contact_P!Fold(Contact_MergePartial(m, f), u)
  BY <1>3, <1>6, Zenon
<1> QED
  BY <1>2, <1>5, <1>7, Zenon

\* The strings and numbers of Contact.
LEMMA Contact_Parts ==
  \A m \in Contact : /\ m.user_id \in Nat
                     /\ m.name \in Texts /\ m.name \in Encoded
                     /\ m.email \in Texts /\ m.email \in Encoded
  BY TextsAssumption, IdsAssumption DEF Contact, Encoded

\* Contact is written in the bytes that it announces.
LEMMA Contact_Size == \A m \in Contact : Encodes(Contact_Serialize(m), Contact_ByteSize(m))
<1> SUFFICES ASSUME NEW m \in Contact PROVE Encodes(Contact_Serialize(m), Contact_ByteSize(m))
  OBVIOUS
<1>1. /\ Encodes(WriteUInt64(1, m.user_id), UInt64Size(m.user_id))
      /\ Encodes(WriteString(2, m.name), StringSize(m.name))
      /\ Encodes(WriteString(3, m.email), StringSize(m.email))
  BY Contact_Parts, FieldSizes
<1> QED
  BY <1>1, EncodesBoth DEF Contact_Serialize, Contact_ByteSize

\* Every field of Contact is read into its place.
LEMMA Contact_Takes ==
  ASSUME NEW m \in Contact, NEW t \in Encoded
  PROVE  Merged(Contact_MergePartial, Contact_New, Contact_Serialize(m) \o t)
           = Merged(Contact_MergePartial, m, t)
<1> DEFINE M(x, s) == Merged(Contact_MergePartial, x, s)
<1>1. \A x, b, f : \A u \in Encoded : x # Failure /\ IsWritten(b, f)
                  => M(x, b \o u) = M(Contact_MergePartial(x, f), u)
  BY Contact_Reads DEF Reads
<1> HIDE DEF M
<1>2. PICK w1, w2, w3, r0, r1, r2 :
        /\ w1 = WriteUInt64(1, m.user_id)
        /\ w2 = WriteString(2, m.name)
        /\ w3 = WriteString(3, m.email)
        /\ r0 = [user_id |-> 0, name |-> <<>>, email |-> <<>>]
        /\ r1 = [user_id |-> m.user_id, name |-> <<>>, email |-> <<>>]
        /\ r2 = [user_id |-> m.user_id, name |-> m.name, email |-> <<>>]
  OBVIOUS
<1>3. w1 \in Encoded /\ w2 \in Encoded /\ w3 \in Encoded
  <2>1. Encodes(w1, UInt64Size(m.user_id)) /\ Encodes(w2, StringSize(m.name))
        /\ Encodes(w3, StringSize(m.email))
    BY <1>2, Contact_Parts, FieldSizes
  <2> QED
    BY <2>1 DEF Encodes
<1>4. r0 # Failure /\ r1 # Failure /\ r2 # Failure
  BY <1>2 DEF Failure
<1>5. ASSUME NEW u \in Encoded PROVE M(r0, w1 \o u) = M(r1, u)
  <2>1. r1 = [r0 EXCEPT !.user_id = m.user_id]
    BY <1>2
  <2>2. CASE m.user_id = 0
    <3>1. w1 = <<>> /\ r1 = r0
      BY <1>2, <2>1, <2>2 DEF WriteUInt64
    <3> QED
      BY <3>1, NothingAround, Zenon
  <2>3. CASE m.user_id # 0
    <3>1. PICK f : f = [tag |-> 8, value |-> m.user_id]
      OBVIOUS
    <3>2. IsWritten(w1, f)
      BY <1>2, <2>3, <3>1, Contact_Parts, NumberWritten
    <3>3. Contact_MergePartial(r0, f) = r1
      BY <2>1, <3>1, Contact_Parts DEF Contact_MergePartial
    <3> QED
      BY <1>1, <1>4, <3>2, <3>3, Zenon
  <2> QED
    BY <2>2, <2>3, Zenon
<1>6. ASSUME NEW u \in Encoded PROVE M(r1, w2 \o u) = M(r2, u)
  <2>1. r2 = [r1 EXCEPT !.name = m.name]
    BY <1>2
  <2>2. CASE m.name = <<>>
    <3>1. w2 = <<>> /\ r2 = r1
      BY <1>2, <2>1, <2>2 DEF WriteString
    <3> QED
      BY <3>1, NothingAround, Zenon
  <2>3. CASE m.name # <<>>
    <3>1. PICK f : f = [tag |-> 18, value |-> m.name]
      OBVIOUS
    <3>2. IsWritten(w2, f)
      BY <1>2, <2>3, <3>1, Contact_Parts, StringWritten
    <3>3. Contact_MergePartial(r1, f) = r2
      BY <2>1, <3>1, Contact_Parts DEF Contact_MergePartial, ReadString
    <3> QED
      BY <1>1, <1>4, <3>2, <3>3, Zenon
  <2> QED
    BY <2>2, <2>3, Zenon
<1>7. ASSUME NEW u \in Encoded PROVE M(r2, w3 \o u) = M(m, u)
  <2>1. m = [r2 EXCEPT !.email = m.email]
    BY <1>2 DEF Contact
  <2>2. CASE m.email = <<>>
    <3>1. w3 = <<>> /\ m = r2
      BY <1>2, <2>1, <2>2 DEF WriteString
    <3> QED
      BY <3>1, NothingAround, Zenon
  <2>3. CASE m.email # <<>>
    <3>1. PICK f : f = [tag |-> 26, value |-> m.email]
      OBVIOUS
    <3>2. IsWritten(w3, f)
      BY <1>2, <2>3, <3>1, Contact_Parts, StringWritten
    <3>3. Contact_MergePartial(r2, f) = m
      BY <2>1, <3>1, Contact_Parts DEF Contact_MergePartial, ReadString
    <3> QED
      BY <1>1, <1>4, <3>2, <3>3, Zenon
  <2> QED
    BY <2>2, <2>3, Zenon
<1>8. Contact_Serialize(m) = (w1 \o w2) \o w3 /\ Contact_New = r0
  BY <1>2 DEF Contact_Serialize, Contact_New
<1>9. PICK u, v : u = w3 \o t /\ v = w2 \o u
  OBVIOUS
<1>10. u \in Encoded /\ v \in Encoded /\ w1 \o w2 \in Encoded
  BY <1>3, <1>9, Concat
<1>11. ((w1 \o w2) \o w3) \o t = w1 \o v
  <2>1. \A x \in Encoded : (x \o w3) \o t = x \o (w3 \o t)
    BY <1>3, Regroup, Zenon
  <2>2. \A x \in Encoded : (w1 \o w2) \o x = w1 \o (w2 \o x)
    BY <1>3, Regroup, Zenon
  <2> QED
    BY <1>9, <1>10, <2>1, <2>2, Zenon
<1>12. M(r0, w1 \o v) = M(m, t)
  BY <1>5, <1>6, <1>7, <1>9, <1>10, Zenon
<1> QED
  BY <1>8, <1>11, <1>12, Zenon DEF M

\* What is written of Contact is read back as it was.
LEMMA Contact_RoundTrip ==
  \A m \in Contact : Merged(Contact_MergePartial, Contact_New, Contact_Serialize(m)) = m
<1> SUFFICES ASSUME NEW m \in Contact
             PROVE  Merged(Contact_MergePartial, Contact_New, Contact_Serialize(m)) = m
  OBVIOUS
<1>1. PICK b : b = Contact_Serialize(m)
  OBVIOUS
<1>2. b \in Encoded /\ b \o <<>> = b
  BY <1>1, Contact_Size, NothingAround DEF Encodes
<1>3. /\ Merged(Contact_MergePartial, Contact_New, b \o <<>>)
             = Merged(Contact_MergePartial, m, <<>>)
      /\ Merged(Contact_MergePartial, m, <<>>) = m
  BY <1>1, Contact_Takes, Contact_Reads, NoBytes DEF Reads
<1> QED
  BY <1>1, <1>2, <1>3, Zenon

MessageToRecieve_P == INSTANCE Folding
    WITH Op <- LAMBDA m, f : Checked(MessageToRecieve_MergePartial, m, f)

\* The parser of MessageToRecieve reads field by field.
LEMMA MessageToRecieve_Reads == Reads(MessageToRecieve_MergePartial)
<1>1. MessageToRecieve_P!Induction
  BY Induction DEF MessageToRecieve_P!Induction
<1>2. \A m, s :
          Merged(MessageToRecieve_MergePartial, m, s) = MessageToRecieve_P!Fold(m, Fields[s])
  BY DEF Merged, Checked, MessageToRecieve_P!Fold, FoldLeft, MapThenFoldSet,
     MessageToRecieve_P!MapThenFoldSet,
         Max, MessageToRecieve_P!Greatest
<1>3. \A m : \A f \in AnyField, u \in Seq(AnyField) :
         MessageToRecieve_P!Fold(m, <<f>> \o u)
             = MessageToRecieve_P!Fold(Checked(MessageToRecieve_MergePartial, m, f), u)
  BY <1>1, MessageToRecieve_P!FoldFront
<1>4. \A m : Merged(MessageToRecieve_MergePartial, m, <<>>) = m
  BY <1>1, <1>2, MessageToRecieve_P!FoldEmpty, FieldsEmpty
<1> SUFFICES ASSUME NEW m, NEW b, NEW f, NEW t \in Encoded, m # Failure /\ IsWritten(b, f)
             PROVE  Merged(MessageToRecieve_MergePartial, m, b \o t)
                      = Merged(MessageToRecieve_MergePartial,
                          MessageToRecieve_MergePartial(m, f), t)
  BY <1>4, Zenon DEF Reads
<1>5. PICK u \in Seq(AnyField) : u = Fields[t] /\ Fields[b \o t] = <<f>> \o u
  BY FirstField
<1>6. f \in AnyField
      /\ Checked(MessageToRecieve_MergePartial, m, f) = MessageToRecieve_MergePartial(m, f)
  BY FieldIsNoFailure DEF Checked
<1>7. MessageToRecieve_P!Fold(m, <<f>> \o u)
          = MessageToRecieve_P!Fold(MessageToRecieve_MergePartial(m, f), u)
  BY <1>3, <1>6, Zenon
<1> QED
  BY <1>2, <1>5, <1>7, Zenon

\* The strings and numbers of MessageToRecieve.
LEMMA MessageToRecieve_Parts ==
  \A m \in MessageToRecieve : /\ m.sender_id \in Nat
                              /\ m.text \in Texts /\ m.text \in Encoded
  BY TextsAssumption, IdsAssumption DEF MessageToRecieve, Encoded

\* MessageToRecieve is written in the bytes that it announces.
LEMMA MessageToRecieve_Size ==
  \A m \in MessageToRecieve :
      Encodes(MessageToRecieve_Serialize(m), MessageToRecieve_ByteSize(m))
<1> SUFFICES ASSUME NEW m \in MessageToRecieve
             PROVE Encodes(MessageToRecieve_Serialize(m), MessageToRecieve_ByteSize(m))
  OBVIOUS
<1>1. /\ Encodes(WriteUInt64(1, m.sender_id), UInt64Size(m.sender_id))
      /\ Encodes(WriteString(2, m.text), StringSize(m.text))
  BY MessageToRecieve_Parts, FieldSizes
<1> QED
  BY <1>1, EncodesBoth DEF MessageToRecieve_Serialize, MessageToRecieve_ByteSize

\* Every field of MessageToRecieve is read into its place.
LEMMA MessageToRecieve_Takes ==
  ASSUME NEW m \in MessageToRecieve, NEW t \in Encoded
  PROVE  Merged(MessageToRecieve_MergePartial, MessageToRecieve_New,
             MessageToRecieve_Serialize(m) \o t)
           = Merged(MessageToRecieve_MergePartial, m, t)
<1> DEFINE M(x, s) == Merged(MessageToRecieve_MergePartial, x, s)
<1>1. \A x, b, f : \A u \in Encoded : x # Failure /\ IsWritten(b, f)
                  => M(x, b \o u) = M(MessageToRecieve_MergePartial(x, f), u)
  BY MessageToRecieve_Reads DEF Reads
<1> HIDE DEF M
<1>2. PICK w1, w2, r0, r1 :
        /\ w1 = WriteUInt64(1, m.sender_id)
        /\ w2 = WriteString(2, m.text)
        /\ r0 = [sender_id |-> 0, text |-> <<>>]
        /\ r1 = [sender_id |-> m.sender_id, text |-> <<>>]
  OBVIOUS
<1>3. w1 \in Encoded /\ w2 \in Encoded
  <2>1. Encodes(w1, UInt64Size(m.sender_id)) /\ Encodes(w2, StringSize(m.text))
    BY <1>2, MessageToRecieve_Parts, FieldSizes
  <2> QED
    BY <2>1 DEF Encodes
<1>4. r0 # Failure /\ r1 # Failure
  BY <1>2 DEF Failure
<1>5. ASSUME NEW u \in Encoded PROVE M(r0, w1 \o u) = M(r1, u)
  <2>1. r1 = [r0 EXCEPT !.sender_id = m.sender_id]
    BY <1>2
  <2>2. CASE m.sender_id = 0
    <3>1. w1 = <<>> /\ r1 = r0
      BY <1>2, <2>1, <2>2 DEF WriteUInt64
    <3> QED
      BY <3>1, NothingAround, Zenon
  <2>3. CASE m.sender_id # 0
    <3>1. PICK f : f = [tag |-> 8, value |-> m.sender_id]
      OBVIOUS
    <3>2. IsWritten(w1, f)
      BY <1>2, <2>3, <3>1, MessageToRecieve_Parts, NumberWritten
    <3>3. MessageToRecieve_MergePartial(r0, f) = r1
      BY <2>1, <3>1, MessageToRecieve_Parts DEF MessageToRecieve_MergePartial
    <3> QED
      BY <1>1, <1>4, <3>2, <3>3, Zenon
  <2> QED
    BY <2>2, <2>3, Zenon
<1>6. ASSUME NEW u \in Encoded PROVE M(r1, w2 \o u) = M(m, u)
  <2>1. m = [r1 EXCEPT !.text = m.text]
    BY <1>2 DEF MessageToRecieve
  <2>2. CASE m.text = <<>>
    <3>1. w2 = <<>> /\ m = r1
      BY <1>2, <2>1, <2>2 DEF WriteString
    <3> QED
      BY <3>1, NothingAround, Zenon
  <2>3. CASE m.text # <<>>
    <3>1. PICK f : f = [tag |-> 18, value |-> m.text]
      OBVIOUS
    <3>2. IsWritten(w2, f)
      BY <1>2, <2>3, <3>1, MessageToRecieve_Parts, StringWritten
    <3>3. MessageToRecieve_MergePartial(r1, f) = m
      BY <2>1, <3>1, MessageToRecieve_Parts DEF MessageToRecieve_MergePartial, ReadString
    <3> QED
      BY <1>1, <1>4, <3>2, <3>3, Zenon
  <2> QED
    BY <2>2, <2>3, Zenon
<1>7. MessageToRecieve_Serialize(m) = w1 \o w2 /\ MessageToRecieve_New = r0
  BY <1>2 DEF MessageToRecieve_Serialize, MessageToRecieve_New
<1>8. PICK v : v = w2 \o t
  OBVIOUS
<1>9. v \in Encoded /\ (w1 \o w2) \o t = w1 \o v
  BY <1>3, <1>8, Concat, Regroup
<1>10. M(r0, w1 \o v) = M(m, t)
  BY <1>5, <1>6, <1>8, <1>9, Zenon
<1> QED
  BY <1>7, <1>9, <1>10, Zenon DEF M

\* What is written of MessageToRecieve is read back as it was.
LEMMA MessageToRecieve_RoundTrip ==
  \A m \in MessageToRecieve :
      Merged(MessageToRecieve_MergePartial, MessageToRecieve_New,
          MessageToRecieve_Serialize(m)) = m
<1> SUFFICES ASSUME NEW m \in MessageToRecieve
             PROVE  Merged(MessageToRecieve_MergePartial, MessageToRecieve_New,
                        MessageToRecieve_Serialize(m)) = m
  OBVIOUS
<1>1. PICK b : b = MessageToRecieve_Serialize(m)
  OBVIOUS
<1>2. b \in Encoded /\ b \o <<>> = b
  BY <1>1, MessageToRecieve_Size, NothingAround DEF Encodes
<1>3. /\ Merged(MessageToRecieve_MergePartial, MessageToRecieve_New, b \o <<>>)
             = Merged(MessageToRecieve_MergePartial, m, <<>>)
      /\ Merged(MessageToRecieve_MergePartial, m, <<>>) = m
  BY <1>1, MessageToRecieve_Takes, MessageToRecieve_Reads, NoBytes DEF Reads
<1> QED
  BY <1>1, <1>2, <1>3, Zenon

-----------------------------------------------------------------------------
(***************************************************************************)
(* The messages that hold one other message or one of several, and the two *)
(* without fields.                                                         *)
(***************************************************************************)

\* A member is written with its size in front of it.
LEMMA MessageField ==
  ASSUME NEW n \in 1..15, NEW x, NEW size, Encodes(x, size)
  PROVE  /\ IsWritten(WriteMessage(n, size, x), [tag |-> 8 * n + 2, value |-> x])
         /\ Encodes(WriteMessage(n, size, x), MessageSize(size))
<1>1. x \in Encoded /\ size = Len(x)
  BY DEF Encodes
<1>2. /\ IsWritten(WriteMessage(n, Len(x), x), [tag |-> 8 * n + 2, value |-> x])
      /\ Len(WriteMessage(n, Len(x), x)) = MessageSize(Len(x))
  BY <1>1, MessageWritten
<1> QED
  BY <1>1, <1>2, Concat DEF IsWritten, Encodes

\* Its size, with what is in front of it.
LEMMA MemberSize ==
  \A x, size : Encodes(x, size)
     => \A n \in 1..15 : Encodes(WriteMessage(n, size, x), MessageSize(size))
  BY MessageField

\* An object of Chat is not what a failed parse returns.
LEMMA Chat_NoFailure == Failure \notin Chat
  BY DEF Failure, Chat

\* An object of RegisterRequest is not what a failed parse returns.
LEMMA RegisterRequest_NoFailure == Failure \notin RegisterRequest
  BY DEF Failure, RegisterRequest

\* An object of LoginRequest is not what a failed parse returns.
LEMMA LoginRequest_NoFailure == Failure \notin LoginRequest
  BY DEF Failure, LoginRequest

\* An object of MessagesRequest is not what a failed parse returns.
LEMMA MessagesRequest_NoFailure == Failure \notin MessagesRequest
  BY DEF Failure, MessagesRequest

\* An object of MessageToSend is not what a failed parse returns.
LEMMA MessageToSend_NoFailure == Failure \notin MessageToSend
  BY DEF Failure, MessageToSend

\* An object of AddContactRequest is not what a failed parse returns.
LEMMA AddContactRequest_NoFailure == Failure \notin AddContactRequest
  BY DEF Failure, AddContactRequest

\* An object of CreateChatRequest is not what a failed parse returns.
LEMMA CreateChatRequest_NoFailure == Failure \notin CreateChatRequest
  BY DEF Failure, CreateChatRequest

\* An object of StatusResponse is not what a failed parse returns.
LEMMA StatusResponse_NoFailure == Failure \notin StatusResponse
  BY DEF Failure, StatusResponse

\* An object of Contact is not what a failed parse returns.
LEMMA Contact_NoFailure == Failure \notin Contact
  BY DEF Failure, Contact

\* An object of MessageToRecieve is not what a failed parse returns.
LEMMA MessageToRecieve_NoFailure == Failure \notin MessageToRecieve
  BY DEF Failure, MessageToRecieve

AllMyChatsRequest_P == INSTANCE Folding
    WITH Op <- LAMBDA m, f : Checked(AllMyChatsRequest_MergePartial, m, f)

\* The parser of AllMyChatsRequest reads field by field.
LEMMA AllMyChatsRequest_Reads == Reads(AllMyChatsRequest_MergePartial)
<1>1. AllMyChatsRequest_P!Induction
  BY Induction DEF AllMyChatsRequest_P!Induction
<1>2. \A m, s :
          Merged(AllMyChatsRequest_MergePartial, m, s) = AllMyChatsRequest_P!Fold(m, Fields[s])
  BY DEF Merged, Checked, AllMyChatsRequest_P!Fold, FoldLeft, MapThenFoldSet,
     AllMyChatsRequest_P!MapThenFoldSet,
         Max, AllMyChatsRequest_P!Greatest
<1>3. \A m : \A f \in AnyField, u \in Seq(AnyField) :
         AllMyChatsRequest_P!Fold(m, <<f>> \o u)
             = AllMyChatsRequest_P!Fold(Checked(AllMyChatsRequest_MergePartial, m, f), u)
  BY <1>1, AllMyChatsRequest_P!FoldFront
<1>4. \A m : Merged(AllMyChatsRequest_MergePartial, m, <<>>) = m
  BY <1>1, <1>2, AllMyChatsRequest_P!FoldEmpty, FieldsEmpty
<1> SUFFICES ASSUME NEW m, NEW b, NEW f, NEW t \in Encoded, m # Failure /\ IsWritten(b, f)
             PROVE  Merged(AllMyChatsRequest_MergePartial, m, b \o t)
                      = Merged(AllMyChatsRequest_MergePartial,
                          AllMyChatsRequest_MergePartial(m, f), t)
  BY <1>4, Zenon DEF Reads
<1>5. PICK u \in Seq(AnyField) : u = Fields[t] /\ Fields[b \o t] = <<f>> \o u
  BY FirstField
<1>6. f \in AnyField
      /\ Checked(AllMyChatsRequest_MergePartial, m, f) = AllMyChatsRequest_MergePartial(m, f)
  BY FieldIsNoFailure DEF Checked
<1>7. AllMyChatsRequest_P!Fold(m, <<f>> \o u)
          = AllMyChatsRequest_P!Fold(AllMyChatsRequest_MergePartial(m, f), u)
  BY <1>3, <1>6, Zenon
<1> QED
  BY <1>2, <1>5, <1>7, Zenon

\* A message without fields is written as nothing and read as it was.
LEMMA AllMyChatsRequest_Size ==
  \A m \in AllMyChatsRequest :
      Encodes(AllMyChatsRequest_Serialize(m), AllMyChatsRequest_ByteSize(m))
  BY NoBytes DEF Encodes, AllMyChatsRequest_Serialize, AllMyChatsRequest_ByteSize

\* Of AllMyChatsRequest nothing is written, and reading nothing gives it back.
LEMMA AllMyChatsRequest_RoundTrip ==
  \A m \in AllMyChatsRequest :
      Merged(AllMyChatsRequest_MergePartial, AllMyChatsRequest_New,
          AllMyChatsRequest_Serialize(m)) = m
<1>1. \A m \in AllMyChatsRequest :
          AllMyChatsRequest_Serialize(m) = <<>> /\ m = AllMyChatsRequest_New
  BY DEF AllMyChatsRequest, AllMyChatsRequest_Serialize, AllMyChatsRequest_New
<1>2. Merged(AllMyChatsRequest_MergePartial, AllMyChatsRequest_New, <<>>)
          = AllMyChatsRequest_New
  BY AllMyChatsRequest_Reads DEF Reads
<1> QED
  BY <1>1, <1>2, Zenon

\* An object of AllMyChatsRequest is not what a failed parse returns.
LEMMA AllMyChatsRequest_NoFailure == Failure \notin AllMyChatsRequest
  BY DEF Failure, AllMyChatsRequest

AllMyContactsRequest_P == INSTANCE Folding
    WITH Op <- LAMBDA m, f : Checked(AllMyContactsRequest_MergePartial, m, f)

\* The parser of AllMyContactsRequest reads field by field.
LEMMA AllMyContactsRequest_Reads == Reads(AllMyContactsRequest_MergePartial)
<1>1. AllMyContactsRequest_P!Induction
  BY Induction DEF AllMyContactsRequest_P!Induction
<1>2. \A m, s :
          Merged(AllMyContactsRequest_MergePartial, m, s)
              = AllMyContactsRequest_P!Fold(m, Fields[s])
  BY DEF Merged, Checked, AllMyContactsRequest_P!Fold, FoldLeft, MapThenFoldSet,
     AllMyContactsRequest_P!MapThenFoldSet,
         Max, AllMyContactsRequest_P!Greatest
<1>3. \A m : \A f \in AnyField, u \in Seq(AnyField) :
         AllMyContactsRequest_P!Fold(m, <<f>> \o u)
             = AllMyContactsRequest_P!Fold(Checked(AllMyContactsRequest_MergePartial, m, f), u)
  BY <1>1, AllMyContactsRequest_P!FoldFront
<1>4. \A m : Merged(AllMyContactsRequest_MergePartial, m, <<>>) = m
  BY <1>1, <1>2, AllMyContactsRequest_P!FoldEmpty, FieldsEmpty
<1> SUFFICES ASSUME NEW m, NEW b, NEW f, NEW t \in Encoded, m # Failure /\ IsWritten(b, f)
             PROVE  Merged(AllMyContactsRequest_MergePartial, m, b \o t)
                      = Merged(AllMyContactsRequest_MergePartial,
                          AllMyContactsRequest_MergePartial(m, f), t)
  BY <1>4, Zenon DEF Reads
<1>5. PICK u \in Seq(AnyField) : u = Fields[t] /\ Fields[b \o t] = <<f>> \o u
  BY FirstField
<1>6. f \in AnyField
      /\ Checked(AllMyContactsRequest_MergePartial, m, f)
             = AllMyContactsRequest_MergePartial(m, f)
  BY FieldIsNoFailure DEF Checked
<1>7. AllMyContactsRequest_P!Fold(m, <<f>> \o u)
          = AllMyContactsRequest_P!Fold(AllMyContactsRequest_MergePartial(m, f), u)
  BY <1>3, <1>6, Zenon
<1> QED
  BY <1>2, <1>5, <1>7, Zenon

\* A message without fields is written as nothing and read as it was.
LEMMA AllMyContactsRequest_Size ==
  \A m \in AllMyContactsRequest :
      Encodes(AllMyContactsRequest_Serialize(m), AllMyContactsRequest_ByteSize(m))
  BY NoBytes DEF Encodes, AllMyContactsRequest_Serialize, AllMyContactsRequest_ByteSize

\* Of AllMyContactsRequest nothing is written, and reading nothing gives it back.
LEMMA AllMyContactsRequest_RoundTrip ==
  \A m \in AllMyContactsRequest :
      Merged(AllMyContactsRequest_MergePartial, AllMyContactsRequest_New,
          AllMyContactsRequest_Serialize(m)) = m
<1>1. \A m \in AllMyContactsRequest :
          AllMyContactsRequest_Serialize(m) = <<>> /\ m = AllMyContactsRequest_New
  BY DEF AllMyContactsRequest, AllMyContactsRequest_Serialize, AllMyContactsRequest_New
<1>2. Merged(AllMyContactsRequest_MergePartial, AllMyContactsRequest_New, <<>>)
          = AllMyContactsRequest_New
  BY AllMyContactsRequest_Reads DEF Reads
<1> QED
  BY <1>1, <1>2, Zenon

\* An object of AllMyContactsRequest is not what a failed parse returns.
LEMMA AllMyContactsRequest_NoFailure == Failure \notin AllMyContactsRequest
  BY DEF Failure, AllMyContactsRequest

SendMessageRequest_P == INSTANCE Folding
    WITH Op <- LAMBDA m, f : Checked(SendMessageRequest_MergePartial, m, f)

\* The parser of SendMessageRequest reads field by field.
LEMMA SendMessageRequest_Reads == Reads(SendMessageRequest_MergePartial)
<1>1. SendMessageRequest_P!Induction
  BY Induction DEF SendMessageRequest_P!Induction
<1>2. \A m, s :
          Merged(SendMessageRequest_MergePartial, m, s)
              = SendMessageRequest_P!Fold(m, Fields[s])
  BY DEF Merged, Checked, SendMessageRequest_P!Fold, FoldLeft, MapThenFoldSet,
     SendMessageRequest_P!MapThenFoldSet,
         Max, SendMessageRequest_P!Greatest
<1>3. \A m : \A f \in AnyField, u \in Seq(AnyField) :
         SendMessageRequest_P!Fold(m, <<f>> \o u)
             = SendMessageRequest_P!Fold(Checked(SendMessageRequest_MergePartial, m, f), u)
  BY <1>1, SendMessageRequest_P!FoldFront
<1>4. \A m : Merged(SendMessageRequest_MergePartial, m, <<>>) = m
  BY <1>1, <1>2, SendMessageRequest_P!FoldEmpty, FieldsEmpty
<1> SUFFICES ASSUME NEW m, NEW b, NEW f, NEW t \in Encoded, m # Failure /\ IsWritten(b, f)
             PROVE  Merged(SendMessageRequest_MergePartial, m, b \o t)
                      = Merged(SendMessageRequest_MergePartial,
                          SendMessageRequest_MergePartial(m, f), t)
  BY <1>4, Zenon DEF Reads
<1>5. PICK u \in Seq(AnyField) : u = Fields[t] /\ Fields[b \o t] = <<f>> \o u
  BY FirstField
<1>6. f \in AnyField
      /\ Checked(SendMessageRequest_MergePartial, m, f) = SendMessageRequest_MergePartial(m, f)
  BY FieldIsNoFailure DEF Checked
<1>7. SendMessageRequest_P!Fold(m, <<f>> \o u)
          = SendMessageRequest_P!Fold(SendMessageRequest_MergePartial(m, f), u)
  BY <1>3, <1>6, Zenon
<1> QED
  BY <1>2, <1>5, <1>7, Zenon

\* SendMessageRequest takes the bytes that it announces, whatever its member.
LEMMA SendMessageRequest_Size ==
  \A m \in SendMessageRequest :
      Encodes(SendMessageRequest_Serialize(m), SendMessageRequest_ByteSize(m))
<1> SUFFICES ASSUME NEW m \in SendMessageRequest
             PROVE Encodes(SendMessageRequest_Serialize(m), SendMessageRequest_ByteSize(m))
  OBVIOUS
<1>1. CASE m = NotSet
  BY <1>1, NoBytes DEF Encodes, SendMessageRequest_Serialize, SendMessageRequest_ByteSize,
     NotSet
<1>2. CASE m \in [case : {"mesg"}, value : MessageToSend]
  <2>1. PICK x, size : x = MessageToSend_Serialize(m.value)
        /\ size = MessageToSend_ByteSize(m.value)
    OBVIOUS
  <2>2. SendMessageRequest_Serialize(m) = WriteMessage(1, size, x)
        /\ SendMessageRequest_ByteSize(m) = MessageSize(size)
    BY <1>2, <2>1 DEF SendMessageRequest_Serialize, SendMessageRequest_ByteSize, NotSet
  <2>3. Encodes(x, size)
    BY <1>2, <2>1, MessageToSend_Size
  <2>4. Encodes(WriteMessage(1, size, x), MessageSize(size))
    BY <2>3, MemberSize, 1 \in 1..15, Zenon
  <2> QED
    BY <2>2, <2>4, Zenon
<1> QED
  BY <1>1, <1>2 DEF SendMessageRequest

\* SendMessageRequest is read back with the member that was written, or with none.
LEMMA SendMessageRequest_RoundTrip ==
  \A m \in SendMessageRequest :
      Merged(SendMessageRequest_MergePartial, SendMessageRequest_New,
          SendMessageRequest_Serialize(m)) = m
<1> SUFFICES ASSUME NEW m \in SendMessageRequest
             PROVE  Merged(SendMessageRequest_MergePartial, SendMessageRequest_New,
                        SendMessageRequest_Serialize(m)) = m
  OBVIOUS
<1>1. SendMessageRequest_New = NotSet /\ NotSet # Failure
  BY DEF SendMessageRequest_New, NotSet, Failure
<1>2. CASE m = NotSet
  <2>1. SendMessageRequest_Serialize(m) = <<>>
    BY <1>2 DEF SendMessageRequest_Serialize, NotSet
  <2> QED
    BY <1>1, <1>2, <2>1, SendMessageRequest_Reads, Zenon DEF Reads
<1>3. ASSUME NEW f, IsWritten(SendMessageRequest_Serialize(m), f),
                 SendMessageRequest_MergePartial(NotSet, f) = m
      PROVE  Merged(SendMessageRequest_MergePartial, SendMessageRequest_New,
                 SendMessageRequest_Serialize(m)) = m
  <2>1. PICK b \in Encoded : b = SendMessageRequest_Serialize(m) /\ b \o <<>> = b
    BY <1>3, NothingAround DEF IsWritten
  <2>2. Merged(SendMessageRequest_MergePartial, NotSet, b \o <<>>)
            = Merged(SendMessageRequest_MergePartial, m, <<>>)
    <3>1. \A u, g : \A t \in Encoded : NotSet # Failure /\ IsWritten(u, g)
            => Merged(SendMessageRequest_MergePartial, NotSet, u \o t)
                 = Merged(SendMessageRequest_MergePartial,
                     SendMessageRequest_MergePartial(NotSet, g), t)
      BY SendMessageRequest_Reads DEF Reads
    <3> QED
      BY <1>1, <1>3, <2>1, <3>1, NoBytes, Zenon
  <2>3. Merged(SendMessageRequest_MergePartial, m, <<>>) = m
    BY SendMessageRequest_Reads DEF Reads
  <2> QED
    BY <1>1, <2>1, <2>2, <2>3, Zenon
<1>4. CASE m \in [case : {"mesg"}, value : MessageToSend]
  <2>1. PICK v \in MessageToSend : m = [case |-> "mesg", value |-> v]
    BY <1>4
  <2>2. PICK x, f : x = MessageToSend_Serialize(v) /\ f = [tag |-> 10, value |-> x]
    OBVIOUS
  <2>3. IsWritten(SendMessageRequest_Serialize(m), f)
    <3>1. SendMessageRequest_Serialize(m) = WriteMessage(1, MessageToSend_ByteSize(v), x)
      BY <2>1, <2>2 DEF SendMessageRequest_Serialize, NotSet
    <3>2. Encodes(x, MessageToSend_ByteSize(v))
      BY <2>2, MessageToSend_Size
    <3> QED
      BY <2>2, <3>1, <3>2, MessageField
  <2>4. SendMessageRequest_MergePartial(NotSet, f) = m
    <3>1. Mutable(NotSet, "mesg", MessageToSend_New) = MessageToSend_New
      BY DEF Mutable, NotSet
    <3>2. Merged(MessageToSend_MergePartial, Mutable(NotSet, "mesg", MessageToSend_New), x) = v
      BY <2>2, <3>1, MessageToSend_RoundTrip, Zenon
    <3>3. f.tag = 10 /\ f.value = x
      BY <2>2
    <3>4. SendMessageRequest_MergePartial(NotSet, f)
            = ReadMember("mesg",
                Merged(MessageToSend_MergePartial, Mutable(NotSet, "mesg", MessageToSend_New),
                    x))
      BY <3>3 DEF SendMessageRequest_MergePartial
    <3>5. v # Failure
      BY MessageToSend_NoFailure
    <3> QED
      BY <2>1, <3>2, <3>4, <3>5 DEF ReadMember
  <2> QED
    BY <1>3, <2>3, <2>4
<1> QED
  BY <1>2, <1>4 DEF SendMessageRequest

\* An object of SendMessageRequest is not what a failed parse returns.
LEMMA SendMessageRequest_NoFailure == Failure \notin SendMessageRequest
  BY DEF Failure, SendMessageRequest, NotSet

LoginResponse_P == INSTANCE Folding
    WITH Op <- LAMBDA m, f : Checked(LoginResponse_MergePartial, m, f)

\* The parser of LoginResponse reads field by field.
LEMMA LoginResponse_Reads == Reads(LoginResponse_MergePartial)
<1>1. LoginResponse_P!Induction
  BY Induction DEF LoginResponse_P!Induction
<1>2. \A m, s : Merged(LoginResponse_MergePartial, m, s) = LoginResponse_P!Fold(m, Fields[s])
  BY DEF Merged, Checked, LoginResponse_P!Fold, FoldLeft, MapThenFoldSet,
     LoginResponse_P!MapThenFoldSet,
         Max, LoginResponse_P!Greatest
<1>3. \A m : \A f \in AnyField, u \in Seq(AnyField) :
         LoginResponse_P!Fold(m, <<f>> \o u)
             = LoginResponse_P!Fold(Checked(LoginResponse_MergePartial, m, f), u)
  BY <1>1, LoginResponse_P!FoldFront
<1>4. \A m : Merged(LoginResponse_MergePartial, m, <<>>) = m
  BY <1>1, <1>2, LoginResponse_P!FoldEmpty, FieldsEmpty
<1> SUFFICES ASSUME NEW m, NEW b, NEW f, NEW t \in Encoded, m # Failure /\ IsWritten(b, f)
             PROVE  Merged(LoginResponse_MergePartial, m, b \o t)
                      = Merged(LoginResponse_MergePartial, LoginResponse_MergePartial(m, f), t)
  BY <1>4, Zenon DEF Reads
<1>5. PICK u \in Seq(AnyField) : u = Fields[t] /\ Fields[b \o t] = <<f>> \o u
  BY FirstField
<1>6. f \in AnyField
      /\ Checked(LoginResponse_MergePartial, m, f) = LoginResponse_MergePartial(m, f)
  BY FieldIsNoFailure DEF Checked
<1>7. LoginResponse_P!Fold(m, <<f>> \o u)
          = LoginResponse_P!Fold(LoginResponse_MergePartial(m, f), u)
  BY <1>3, <1>6, Zenon
<1> QED
  BY <1>2, <1>5, <1>7, Zenon

\* LoginResponse takes the bytes that it announces, whatever its member.
LEMMA LoginResponse_Size ==
  \A m \in LoginResponse : Encodes(LoginResponse_Serialize(m), LoginResponse_ByteSize(m))
<1> SUFFICES ASSUME NEW m \in LoginResponse
             PROVE Encodes(LoginResponse_Serialize(m), LoginResponse_ByteSize(m))
  OBVIOUS
<1>1. CASE m = NotSet
  BY <1>1, NoBytes DEF Encodes, LoginResponse_Serialize, LoginResponse_ByteSize, NotSet
<1>2. CASE m \in [case : {"profile"}, value : Contact]
  <2>1. PICK x, size : x = Contact_Serialize(m.value) /\ size = Contact_ByteSize(m.value)
    OBVIOUS
  <2>2. LoginResponse_Serialize(m) = WriteMessage(1, size, x)
        /\ LoginResponse_ByteSize(m) = MessageSize(size)
    BY <1>2, <2>1 DEF LoginResponse_Serialize, LoginResponse_ByteSize, NotSet
  <2>3. Encodes(x, size)
    BY <1>2, <2>1, Contact_Size
  <2>4. Encodes(WriteMessage(1, size, x), MessageSize(size))
    BY <2>3, MemberSize, 1 \in 1..15, Zenon
  <2> QED
    BY <2>2, <2>4, Zenon
<1> QED
  BY <1>1, <1>2 DEF LoginResponse

\* LoginResponse is read back with the member that was written, or with none.
LEMMA LoginResponse_RoundTrip ==
  \A m \in LoginResponse :
      Merged(LoginResponse_MergePartial, LoginResponse_New, LoginResponse_Serialize(m)) = m
<1> SUFFICES ASSUME NEW m \in LoginResponse
             PROVE  Merged(LoginResponse_MergePartial, LoginResponse_New,
                        LoginResponse_Serialize(m)) = m
  OBVIOUS
<1>1. LoginResponse_New = NotSet /\ NotSet # Failure
  BY DEF LoginResponse_New, NotSet, Failure
<1>2. CASE m = NotSet
  <2>1. LoginResponse_Serialize(m) = <<>>
    BY <1>2 DEF LoginResponse_Serialize, NotSet
  <2> QED
    BY <1>1, <1>2, <2>1, LoginResponse_Reads, Zenon DEF Reads
<1>3. ASSUME NEW f, IsWritten(LoginResponse_Serialize(m), f),
                 LoginResponse_MergePartial(NotSet, f) = m
      PROVE  Merged(LoginResponse_MergePartial, LoginResponse_New, LoginResponse_Serialize(m))
                 = m
  <2>1. PICK b \in Encoded : b = LoginResponse_Serialize(m) /\ b \o <<>> = b
    BY <1>3, NothingAround DEF IsWritten
  <2>2. Merged(LoginResponse_MergePartial, NotSet, b \o <<>>)
            = Merged(LoginResponse_MergePartial, m, <<>>)
    <3>1. \A u, g : \A t \in Encoded : NotSet # Failure /\ IsWritten(u, g)
            => Merged(LoginResponse_MergePartial, NotSet, u \o t)
                 = Merged(LoginResponse_MergePartial, LoginResponse_MergePartial(NotSet, g), t)
      BY LoginResponse_Reads DEF Reads
    <3> QED
      BY <1>1, <1>3, <2>1, <3>1, NoBytes, Zenon
  <2>3. Merged(LoginResponse_MergePartial, m, <<>>) = m
    BY LoginResponse_Reads DEF Reads
  <2> QED
    BY <1>1, <2>1, <2>2, <2>3, Zenon
<1>4. CASE m \in [case : {"profile"}, value : Contact]
  <2>1. PICK v \in Contact : m = [case |-> "profile", value |-> v]
    BY <1>4
  <2>2. PICK x, f : x = Contact_Serialize(v) /\ f = [tag |-> 10, value |-> x]
    OBVIOUS
  <2>3. IsWritten(LoginResponse_Serialize(m), f)
    <3>1. LoginResponse_Serialize(m) = WriteMessage(1, Contact_ByteSize(v), x)
      BY <2>1, <2>2 DEF LoginResponse_Serialize, NotSet
    <3>2. Encodes(x, Contact_ByteSize(v))
      BY <2>2, Contact_Size
    <3> QED
      BY <2>2, <3>1, <3>2, MessageField
  <2>4. LoginResponse_MergePartial(NotSet, f) = m
    <3>1. Mutable(NotSet, "profile", Contact_New) = Contact_New
      BY DEF Mutable, NotSet
    <3>2. Merged(Contact_MergePartial, Mutable(NotSet, "profile", Contact_New), x) = v
      BY <2>2, <3>1, Contact_RoundTrip, Zenon
    <3>3. f.tag = 10 /\ f.value = x
      BY <2>2
    <3>4. LoginResponse_MergePartial(NotSet, f)
            = ReadMember("profile",
                Merged(Contact_MergePartial, Mutable(NotSet, "profile", Contact_New), x))
      BY <3>3 DEF LoginResponse_MergePartial
    <3>5. v # Failure
      BY Contact_NoFailure
    <3> QED
      BY <2>1, <3>2, <3>4, <3>5 DEF ReadMember
  <2> QED
    BY <1>3, <2>3, <2>4
<1> QED
  BY <1>2, <1>4 DEF LoginResponse

\* An object of LoginResponse is not what a failed parse returns.
LEMMA LoginResponse_NoFailure == Failure \notin LoginResponse
  BY DEF Failure, LoginResponse, NotSet

Request_P == INSTANCE Folding WITH Op <- LAMBDA m, f : Checked(Request_MergePartial, m, f)

\* The parser of Request reads field by field.
LEMMA Request_Reads == Reads(Request_MergePartial)
<1>1. Request_P!Induction
  BY Induction DEF Request_P!Induction
<1>2. \A m, s : Merged(Request_MergePartial, m, s) = Request_P!Fold(m, Fields[s])
  BY DEF Merged, Checked, Request_P!Fold, FoldLeft, MapThenFoldSet, Request_P!MapThenFoldSet,
         Max, Request_P!Greatest
<1>3. \A m : \A f \in AnyField, u \in Seq(AnyField) :
         Request_P!Fold(m, <<f>> \o u) = Request_P!Fold(Checked(Request_MergePartial, m, f), u)
  BY <1>1, Request_P!FoldFront
<1>4. \A m : Merged(Request_MergePartial, m, <<>>) = m
  BY <1>1, <1>2, Request_P!FoldEmpty, FieldsEmpty
<1> SUFFICES ASSUME NEW m, NEW b, NEW f, NEW t \in Encoded, m # Failure /\ IsWritten(b, f)
             PROVE  Merged(Request_MergePartial, m, b \o t)
                      = Merged(Request_MergePartial, Request_MergePartial(m, f), t)
  BY <1>4, Zenon DEF Reads
<1>5. PICK u \in Seq(AnyField) : u = Fields[t] /\ Fields[b \o t] = <<f>> \o u
  BY FirstField
<1>6. f \in AnyField /\ Checked(Request_MergePartial, m, f) = Request_MergePartial(m, f)
  BY FieldIsNoFailure DEF Checked
<1>7. Request_P!Fold(m, <<f>> \o u) = Request_P!Fold(Request_MergePartial(m, f), u)
  BY <1>3, <1>6, Zenon
<1> QED
  BY <1>2, <1>5, <1>7, Zenon

\* Request takes the bytes that it announces, whatever its member.
LEMMA Request_Size == \A m \in Request : Encodes(Request_Serialize(m), Request_ByteSize(m))
<1> SUFFICES ASSUME NEW m \in Request PROVE Encodes(Request_Serialize(m), Request_ByteSize(m))
  OBVIOUS
<1>1. CASE m = NotSet
  BY <1>1, NoBytes DEF Encodes, Request_Serialize, Request_ByteSize, NotSet
<1>2. CASE m \in [case : {"register_request"}, value : RegisterRequest]
  <2>1. PICK x, size : x = RegisterRequest_Serialize(m.value)
        /\ size = RegisterRequest_ByteSize(m.value)
    OBVIOUS
  <2>2. Request_Serialize(m) = WriteMessage(1, size, x)
        /\ Request_ByteSize(m) = MessageSize(size)
    BY <1>2, <2>1 DEF Request_Serialize, Request_ByteSize, NotSet
  <2>3. Encodes(x, size)
    BY <1>2, <2>1, RegisterRequest_Size
  <2>4. Encodes(WriteMessage(1, size, x), MessageSize(size))
    BY <2>3, MemberSize, 1 \in 1..15, Zenon
  <2> QED
    BY <2>2, <2>4, Zenon
<1>3. CASE m \in [case : {"login_request"}, value : LoginRequest]
  <2>1. PICK x, size : x = LoginRequest_Serialize(m.value)
        /\ size = LoginRequest_ByteSize(m.value)
    OBVIOUS
  <2>2. Request_Serialize(m) = WriteMessage(2, size, x)
        /\ Request_ByteSize(m) = MessageSize(size)
    BY <1>3, <2>1 DEF Request_Serialize, Request_ByteSize, NotSet
  <2>3. Encodes(x, size)
    BY <1>3, <2>1, LoginRequest_Size
  <2>4. Encodes(WriteMessage(2, size, x), MessageSize(size))
    BY <2>3, MemberSize, 2 \in 1..15, Zenon
  <2> QED
    BY <2>2, <2>4, Zenon
<1>4. CASE m \in [case : {"chats_request"}, value : AllMyChatsRequest]
  <2>1. PICK x, size : x = AllMyChatsRequest_Serialize(m.value)
        /\ size = AllMyChatsRequest_ByteSize(m.value)
    OBVIOUS
  <2>2. Request_Serialize(m) = WriteMessage(3, size, x)
        /\ Request_ByteSize(m) = MessageSize(size)
    BY <1>4, <2>1 DEF Request_Serialize, Request_ByteSize, NotSet
  <2>3. Encodes(x, size)
    BY <1>4, <2>1, AllMyChatsRequest_Size
  <2>4. Encodes(WriteMessage(3, size, x), MessageSize(size))
    BY <2>3, MemberSize, 3 \in 1..15, Zenon
  <2> QED
    BY <2>2, <2>4, Zenon
<1>5. CASE m \in [case : {"contacts_request"}, value : AllMyContactsRequest]
  <2>1. PICK x, size : x = AllMyContactsRequest_Serialize(m.value)
        /\ size = AllMyContactsRequest_ByteSize(m.value)
    OBVIOUS
  <2>2. Request_Serialize(m) = WriteMessage(4, size, x)
        /\ Request_ByteSize(m) = MessageSize(size)
    BY <1>5, <2>1 DEF Request_Serialize, Request_ByteSize, NotSet
  <2>3. Encodes(x, size)
    BY <1>5, <2>1, AllMyContactsRequest_Size
  <2>4. Encodes(WriteMessage(4, size, x), MessageSize(size))
    BY <2>3, MemberSize, 4 \in 1..15, Zenon
  <2> QED
    BY <2>2, <2>4, Zenon
<1>6. CASE m \in [case : {"messages_request"}, value : MessagesRequest]
  <2>1. PICK x, size : x = MessagesRequest_Serialize(m.value)
        /\ size = MessagesRequest_ByteSize(m.value)
    OBVIOUS
  <2>2. Request_Serialize(m) = WriteMessage(5, size, x)
        /\ Request_ByteSize(m) = MessageSize(size)
    BY <1>6, <2>1 DEF Request_Serialize, Request_ByteSize, NotSet
  <2>3. Encodes(x, size)
    BY <1>6, <2>1, MessagesRequest_Size
  <2>4. Encodes(WriteMessage(5, size, x), MessageSize(size))
    BY <2>3, MemberSize, 5 \in 1..15, Zenon
  <2> QED
    BY <2>2, <2>4, Zenon
<1>7. CASE m \in [case : {"send_mesg_request"}, value : SendMessageRequest]
  <2>1. PICK x, size : x = SendMessageRequest_Serialize(m.value)
        /\ size = SendMessageRequest_ByteSize(m.value)
    OBVIOUS
  <2>2. Request_Serialize(m) = WriteMessage(6, size, x)
        /\ Request_ByteSize(m) = MessageSize(size)
    BY <1>7, <2>1 DEF Request_Serialize, Request_ByteSize, NotSet
  <2>3. Encodes(x, size)
    BY <1>7, <2>1, SendMessageRequest_Size
  <2>4. Encodes(WriteMessage(6, size, x), MessageSize(size))
    BY <2>3, MemberSize, 6 \in 1..15, Zenon
  <2> QED
    BY <2>2, <2>4, Zenon
<1>8. CASE m \in [case : {"add_contact_request"}, value : AddContactRequest]
  <2>1. PICK x, size : x = AddContactRequest_Serialize(m.value)
        /\ size = AddContactRequest_ByteSize(m.value)
    OBVIOUS
  <2>2. Request_Serialize(m) = WriteMessage(7, size, x)
        /\ Request_ByteSize(m) = MessageSize(size)
    BY <1>8, <2>1 DEF Request_Serialize, Request_ByteSize, NotSet
  <2>3. Encodes(x, size)
    BY <1>8, <2>1, AddContactRequest_Size
  <2>4. Encodes(WriteMessage(7, size, x), MessageSize(size))
    BY <2>3, MemberSize, 7 \in 1..15, Zenon
  <2> QED
    BY <2>2, <2>4, Zenon
<1>9. CASE m \in [case : {"create_chat_request"}, value : CreateChatRequest]
  <2>1. PICK x, size : x = CreateChatRequest_Serialize(m.value)
        /\ size = CreateChatRequest_ByteSize(m.value)
    OBVIOUS
  <2>2. Request_Serialize(m) = WriteMessage(8, size, x)
        /\ Request_ByteSize(m) = MessageSize(size)
    BY <1>9, <2>1 DEF Request_Serialize, Request_ByteSize, NotSet
  <2>3. Encodes(x, size)
    BY <1>9, <2>1, CreateChatRequest_Size
  <2>4. Encodes(WriteMessage(8, size, x), MessageSize(size))
    BY <2>3, MemberSize, 8 \in 1..15, Zenon
  <2> QED
    BY <2>2, <2>4, Zenon
<1> QED
  BY <1>1, <1>2, <1>3, <1>4, <1>5, <1>6, <1>7, <1>8, <1>9 DEF Request

\* Request is read back with the member that was written, or with none.
LEMMA Request_RoundTrip ==
  \A m \in Request : Merged(Request_MergePartial, Request_New, Request_Serialize(m)) = m
<1> SUFFICES ASSUME NEW m \in Request
             PROVE  Merged(Request_MergePartial, Request_New, Request_Serialize(m)) = m
  OBVIOUS
<1>1. Request_New = NotSet /\ NotSet # Failure
  BY DEF Request_New, NotSet, Failure
<1>2. CASE m = NotSet
  <2>1. Request_Serialize(m) = <<>>
    BY <1>2 DEF Request_Serialize, NotSet
  <2> QED
    BY <1>1, <1>2, <2>1, Request_Reads, Zenon DEF Reads
<1>3. ASSUME NEW f, IsWritten(Request_Serialize(m), f), Request_MergePartial(NotSet, f) = m
      PROVE  Merged(Request_MergePartial, Request_New, Request_Serialize(m)) = m
  <2>1. PICK b \in Encoded : b = Request_Serialize(m) /\ b \o <<>> = b
    BY <1>3, NothingAround DEF IsWritten
  <2>2. Merged(Request_MergePartial, NotSet, b \o <<>>) = Merged(Request_MergePartial, m, <<>>)
    <3>1. \A u, g : \A t \in Encoded : NotSet # Failure /\ IsWritten(u, g)
            => Merged(Request_MergePartial, NotSet, u \o t)
                 = Merged(Request_MergePartial, Request_MergePartial(NotSet, g), t)
      BY Request_Reads DEF Reads
    <3> QED
      BY <1>1, <1>3, <2>1, <3>1, NoBytes, Zenon
  <2>3. Merged(Request_MergePartial, m, <<>>) = m
    BY Request_Reads DEF Reads
  <2> QED
    BY <1>1, <2>1, <2>2, <2>3, Zenon
<1>4. CASE m \in [case : {"register_request"}, value : RegisterRequest]
  <2>1. PICK v \in RegisterRequest : m = [case |-> "register_request", value |-> v]
    BY <1>4
  <2>2. PICK x, f : x = RegisterRequest_Serialize(v) /\ f = [tag |-> 10, value |-> x]
    OBVIOUS
  <2>3. IsWritten(Request_Serialize(m), f)
    <3>1. Request_Serialize(m) = WriteMessage(1, RegisterRequest_ByteSize(v), x)
      BY <2>1, <2>2 DEF Request_Serialize, NotSet
    <3>2. Encodes(x, RegisterRequest_ByteSize(v))
      BY <2>2, RegisterRequest_Size
    <3> QED
      BY <2>2, <3>1, <3>2, MessageField
  <2>4. Request_MergePartial(NotSet, f) = m
    <3>1. Mutable(NotSet, "register_request", RegisterRequest_New) = RegisterRequest_New
      BY DEF Mutable, NotSet
    <3>2. Merged(RegisterRequest_MergePartial,
              Mutable(NotSet, "register_request", RegisterRequest_New), x) = v
      BY <2>2, <3>1, RegisterRequest_RoundTrip, Zenon
    <3>3. f.tag = 10 /\ f.value = x
      BY <2>2
    <3>4. Request_MergePartial(NotSet, f)
            = ReadMember("register_request",
                Merged(RegisterRequest_MergePartial,
                    Mutable(NotSet, "register_request", RegisterRequest_New), x))
      BY <3>3 DEF Request_MergePartial, Request_mutable_register_request
    <3>5. v # Failure
      BY RegisterRequest_NoFailure
    <3> QED
      BY <2>1, <3>2, <3>4, <3>5 DEF ReadMember
  <2> QED
    BY <1>3, <2>3, <2>4
<1>5. CASE m \in [case : {"login_request"}, value : LoginRequest]
  <2>1. PICK v \in LoginRequest : m = [case |-> "login_request", value |-> v]
    BY <1>5
  <2>2. PICK x, f : x = LoginRequest_Serialize(v) /\ f = [tag |-> 18, value |-> x]
    OBVIOUS
  <2>3. IsWritten(Request_Serialize(m), f)
    <3>1. Request_Serialize(m) = WriteMessage(2, LoginRequest_ByteSize(v), x)
      BY <2>1, <2>2 DEF Request_Serialize, NotSet
    <3>2. Encodes(x, LoginRequest_ByteSize(v))
      BY <2>2, LoginRequest_Size
    <3> QED
      BY <2>2, <3>1, <3>2, MessageField
  <2>4. Request_MergePartial(NotSet, f) = m
    <3>1. Mutable(NotSet, "login_request", LoginRequest_New) = LoginRequest_New
      BY DEF Mutable, NotSet
    <3>2. Merged(LoginRequest_MergePartial, Mutable(NotSet, "login_request", LoginRequest_New),
              x) = v
      BY <2>2, <3>1, LoginRequest_RoundTrip, Zenon
    <3>3. f.tag = 18 /\ f.value = x
      BY <2>2
    <3>4. Request_MergePartial(NotSet, f)
            = ReadMember("login_request",
                Merged(LoginRequest_MergePartial,
                    Mutable(NotSet, "login_request", LoginRequest_New), x))
      BY <3>3 DEF Request_MergePartial, Request_mutable_login_request
    <3>5. v # Failure
      BY LoginRequest_NoFailure
    <3> QED
      BY <2>1, <3>2, <3>4, <3>5 DEF ReadMember
  <2> QED
    BY <1>3, <2>3, <2>4
<1>6. CASE m \in [case : {"chats_request"}, value : AllMyChatsRequest]
  <2>1. PICK v \in AllMyChatsRequest : m = [case |-> "chats_request", value |-> v]
    BY <1>6
  <2>2. PICK x, f : x = AllMyChatsRequest_Serialize(v) /\ f = [tag |-> 26, value |-> x]
    OBVIOUS
  <2>3. IsWritten(Request_Serialize(m), f)
    <3>1. Request_Serialize(m) = WriteMessage(3, AllMyChatsRequest_ByteSize(v), x)
      BY <2>1, <2>2 DEF Request_Serialize, NotSet
    <3>2. Encodes(x, AllMyChatsRequest_ByteSize(v))
      BY <2>2, AllMyChatsRequest_Size
    <3> QED
      BY <2>2, <3>1, <3>2, MessageField
  <2>4. Request_MergePartial(NotSet, f) = m
    <3>1. Mutable(NotSet, "chats_request", AllMyChatsRequest_New) = AllMyChatsRequest_New
      BY DEF Mutable, NotSet
    <3>2. Merged(AllMyChatsRequest_MergePartial,
              Mutable(NotSet, "chats_request", AllMyChatsRequest_New), x) = v
      BY <2>2, <3>1, AllMyChatsRequest_RoundTrip, Zenon
    <3>3. f.tag = 26 /\ f.value = x
      BY <2>2
    <3>4. Request_MergePartial(NotSet, f)
            = ReadMember("chats_request",
                Merged(AllMyChatsRequest_MergePartial,
                    Mutable(NotSet, "chats_request", AllMyChatsRequest_New), x))
      BY <3>3 DEF Request_MergePartial, Request_mutable_chats_request
    <3>5. v # Failure
      BY AllMyChatsRequest_NoFailure
    <3> QED
      BY <2>1, <3>2, <3>4, <3>5 DEF ReadMember
  <2> QED
    BY <1>3, <2>3, <2>4
<1>7. CASE m \in [case : {"contacts_request"}, value : AllMyContactsRequest]
  <2>1. PICK v \in AllMyContactsRequest : m = [case |-> "contacts_request", value |-> v]
    BY <1>7
  <2>2. PICK x, f : x = AllMyContactsRequest_Serialize(v) /\ f = [tag |-> 34, value |-> x]
    OBVIOUS
  <2>3. IsWritten(Request_Serialize(m), f)
    <3>1. Request_Serialize(m) = WriteMessage(4, AllMyContactsRequest_ByteSize(v), x)
      BY <2>1, <2>2 DEF Request_Serialize, NotSet
    <3>2. Encodes(x, AllMyContactsRequest_ByteSize(v))
      BY <2>2, AllMyContactsRequest_Size
    <3> QED
      BY <2>2, <3>1, <3>2, MessageField
  <2>4. Request_MergePartial(NotSet, f) = m
    <3>1. Mutable(NotSet, "contacts_request", AllMyContactsRequest_New)
              = AllMyContactsRequest_New
      BY DEF Mutable, NotSet
    <3>2. Merged(AllMyContactsRequest_MergePartial,
              Mutable(NotSet, "contacts_request", AllMyContactsRequest_New), x) = v
      BY <2>2, <3>1, AllMyContactsRequest_RoundTrip, Zenon
    <3>3. f.tag = 34 /\ f.value = x
      BY <2>2
    <3>4. Request_MergePartial(NotSet, f)
            = ReadMember("contacts_request",
                Merged(AllMyContactsRequest_MergePartial,
                    Mutable(NotSet, "contacts_request", AllMyContactsRequest_New), x))
      BY <3>3 DEF Request_MergePartial, Request_mutable_contacts_request
    <3>5. v # Failure
      BY AllMyContactsRequest_NoFailure
    <3> QED
      BY <2>1, <3>2, <3>4, <3>5 DEF ReadMember
  <2> QED
    BY <1>3, <2>3, <2>4
<1>8. CASE m \in [case : {"messages_request"}, value : MessagesRequest]
  <2>1. PICK v \in MessagesRequest : m = [case |-> "messages_request", value |-> v]
    BY <1>8
  <2>2. PICK x, f : x = MessagesRequest_Serialize(v) /\ f = [tag |-> 42, value |-> x]
    OBVIOUS
  <2>3. IsWritten(Request_Serialize(m), f)
    <3>1. Request_Serialize(m) = WriteMessage(5, MessagesRequest_ByteSize(v), x)
      BY <2>1, <2>2 DEF Request_Serialize, NotSet
    <3>2. Encodes(x, MessagesRequest_ByteSize(v))
      BY <2>2, MessagesRequest_Size
    <3> QED
      BY <2>2, <3>1, <3>2, MessageField
  <2>4. Request_MergePartial(NotSet, f) = m
    <3>1. Mutable(NotSet, "messages_request", MessagesRequest_New) = MessagesRequest_New
      BY DEF Mutable, NotSet
    <3>2. Merged(MessagesRequest_MergePartial,
              Mutable(NotSet, "messages_request", MessagesRequest_New), x) = v
      BY <2>2, <3>1, MessagesRequest_RoundTrip, Zenon
    <3>3. f.tag = 42 /\ f.value = x
      BY <2>2
    <3>4. Request_MergePartial(NotSet, f)
            = ReadMember("messages_request",
                Merged(MessagesRequest_MergePartial,
                    Mutable(NotSet, "messages_request", MessagesRequest_New), x))
      BY <3>3 DEF Request_MergePartial, Request_mutable_messages_request
    <3>5. v # Failure
      BY MessagesRequest_NoFailure
    <3> QED
      BY <2>1, <3>2, <3>4, <3>5 DEF ReadMember
  <2> QED
    BY <1>3, <2>3, <2>4
<1>9. CASE m \in [case : {"send_mesg_request"}, value : SendMessageRequest]
  <2>1. PICK v \in SendMessageRequest : m = [case |-> "send_mesg_request", value |-> v]
    BY <1>9
  <2>2. PICK x, f : x = SendMessageRequest_Serialize(v) /\ f = [tag |-> 50, value |-> x]
    OBVIOUS
  <2>3. IsWritten(Request_Serialize(m), f)
    <3>1. Request_Serialize(m) = WriteMessage(6, SendMessageRequest_ByteSize(v), x)
      BY <2>1, <2>2 DEF Request_Serialize, NotSet
    <3>2. Encodes(x, SendMessageRequest_ByteSize(v))
      BY <2>2, SendMessageRequest_Size
    <3> QED
      BY <2>2, <3>1, <3>2, MessageField
  <2>4. Request_MergePartial(NotSet, f) = m
    <3>1. Mutable(NotSet, "send_mesg_request", SendMessageRequest_New) = SendMessageRequest_New
      BY DEF Mutable, NotSet
    <3>2. Merged(SendMessageRequest_MergePartial,
              Mutable(NotSet, "send_mesg_request", SendMessageRequest_New), x) = v
      BY <2>2, <3>1, SendMessageRequest_RoundTrip, Zenon
    <3>3. f.tag = 50 /\ f.value = x
      BY <2>2
    <3>4. Request_MergePartial(NotSet, f)
            = ReadMember("send_mesg_request",
                Merged(SendMessageRequest_MergePartial,
                    Mutable(NotSet, "send_mesg_request", SendMessageRequest_New), x))
      BY <3>3 DEF Request_MergePartial, Request_mutable_send_mesg_request
    <3>5. v # Failure
      BY SendMessageRequest_NoFailure
    <3> QED
      BY <2>1, <3>2, <3>4, <3>5 DEF ReadMember
  <2> QED
    BY <1>3, <2>3, <2>4
<1>10. CASE m \in [case : {"add_contact_request"}, value : AddContactRequest]
  <2>1. PICK v \in AddContactRequest : m = [case |-> "add_contact_request", value |-> v]
    BY <1>10
  <2>2. PICK x, f : x = AddContactRequest_Serialize(v) /\ f = [tag |-> 58, value |-> x]
    OBVIOUS
  <2>3. IsWritten(Request_Serialize(m), f)
    <3>1. Request_Serialize(m) = WriteMessage(7, AddContactRequest_ByteSize(v), x)
      BY <2>1, <2>2 DEF Request_Serialize, NotSet
    <3>2. Encodes(x, AddContactRequest_ByteSize(v))
      BY <2>2, AddContactRequest_Size
    <3> QED
      BY <2>2, <3>1, <3>2, MessageField
  <2>4. Request_MergePartial(NotSet, f) = m
    <3>1. Mutable(NotSet, "add_contact_request", AddContactRequest_New) = AddContactRequest_New
      BY DEF Mutable, NotSet
    <3>2. Merged(AddContactRequest_MergePartial,
              Mutable(NotSet, "add_contact_request", AddContactRequest_New), x) = v
      BY <2>2, <3>1, AddContactRequest_RoundTrip, Zenon
    <3>3. f.tag = 58 /\ f.value = x
      BY <2>2
    <3>4. Request_MergePartial(NotSet, f)
            = ReadMember("add_contact_request",
                Merged(AddContactRequest_MergePartial,
                    Mutable(NotSet, "add_contact_request", AddContactRequest_New), x))
      BY <3>3 DEF Request_MergePartial, Request_mutable_add_contact_request
    <3>5. v # Failure
      BY AddContactRequest_NoFailure
    <3> QED
      BY <2>1, <3>2, <3>4, <3>5 DEF ReadMember
  <2> QED
    BY <1>3, <2>3, <2>4
<1>11. CASE m \in [case : {"create_chat_request"}, value : CreateChatRequest]
  <2>1. PICK v \in CreateChatRequest : m = [case |-> "create_chat_request", value |-> v]
    BY <1>11
  <2>2. PICK x, f : x = CreateChatRequest_Serialize(v) /\ f = [tag |-> 66, value |-> x]
    OBVIOUS
  <2>3. IsWritten(Request_Serialize(m), f)
    <3>1. Request_Serialize(m) = WriteMessage(8, CreateChatRequest_ByteSize(v), x)
      BY <2>1, <2>2 DEF Request_Serialize, NotSet
    <3>2. Encodes(x, CreateChatRequest_ByteSize(v))
      BY <2>2, CreateChatRequest_Size
    <3> QED
      BY <2>2, <3>1, <3>2, MessageField
  <2>4. Request_MergePartial(NotSet, f) = m
    <3>1. Mutable(NotSet, "create_chat_request", CreateChatRequest_New) = CreateChatRequest_New
      BY DEF Mutable, NotSet
    <3>2. Merged(CreateChatRequest_MergePartial,
              Mutable(NotSet, "create_chat_request", CreateChatRequest_New), x) = v
      BY <2>2, <3>1, CreateChatRequest_RoundTrip, Zenon
    <3>3. f.tag = 66 /\ f.value = x
      BY <2>2
    <3>4. Request_MergePartial(NotSet, f)
            = ReadMember("create_chat_request",
                Merged(CreateChatRequest_MergePartial,
                    Mutable(NotSet, "create_chat_request", CreateChatRequest_New), x))
      BY <3>3 DEF Request_MergePartial, Request_mutable_create_chat_request
    <3>5. v # Failure
      BY CreateChatRequest_NoFailure
    <3> QED
      BY <2>1, <3>2, <3>4, <3>5 DEF ReadMember
  <2> QED
    BY <1>3, <2>3, <2>4
<1> QED
  BY <1>2, <1>4, <1>5, <1>6, <1>7, <1>8, <1>9, <1>10, <1>11 DEF Request

\* An object of Request is not what a failed parse returns.
LEMMA Request_NoFailure == Failure \notin Request
  BY DEF Failure, Request, NotSet

-----------------------------------------------------------------------------
(***************************************************************************)
(* The messages that are lists of rows.                                    *)
(***************************************************************************)

FlattenDom(p) == 1..Len(p)
FlattenEquation(p, f, i) == IF i = 1 THEN p[i] ELSE f[i - 1] \o p[i]

FlattenR == INSTANCE Recursion
    WITH Dom <- FlattenDom, Size <- Itself, Def <- FlattenEquation

\* fl holds the first k pieces of ss put together, for every k.
Flattened(ss, fl) ==
    /\ fl[0] = <<>>
    /\ \A k \in 1..Len(ss) : fl[k] = fl[k - 1] \o ss[k]
    /\ \A k \in 0..Len(ss) : fl[k] \in Encoded
    /\ FlattenSeq(ss) = fl[Len(ss)]

\* FlattenSeq puts the pieces together one after the other.
LEMMA FlattenSteps ==
  ASSUME NEW ss \in Seq(Encoded)
  PROVE  \E fl : Flattened(ss, fl)
<1>1. FlattenR!WellFounded(ss)
  <2>1. ASSUME NEW i \in 1..Len(ss), NEW g, NEW h,
               \A j \in 1..Len(ss) : j < i => g[j] = h[j]
        PROVE  FlattenEquation(ss, g, i) = FlattenEquation(ss, h, i)
    <3>1. CASE i = 1
      BY <3>1 DEF FlattenEquation
    <3>2. CASE i # 1
      <4>1. i - 1 \in 1..Len(ss) /\ i - 1 < i
        BY <3>2, LenProperties
      <4>2. g[i - 1] = h[i - 1]
        BY <2>1, <4>1
      <4> QED
        BY <3>2, <4>2 DEF FlattenEquation
    <3> QED
      BY <3>1, <3>2
  <2> QED
    BY <2>1 DEF FlattenR!WellFounded, FlattenDom, Itself
<1>2. FlattenR!Induction
  BY Induction DEF FlattenR!Induction
<1>3. \E f : f = [i \in FlattenDom(ss) |-> FlattenEquation(ss, f, i)]
  BY <1>1, <1>2, FlattenR!RecursiveFunction
<1> DEFINE Eq(f) == f = [i \in 1..Len(ss) |-> IF i = 1 THEN ss[i] ELSE f[i - 1] \o ss[i]]
           flatten == CHOOSE f : Eq(f)
           fl == [k \in 0..Len(ss) |-> IF k = 0 THEN <<>> ELSE flatten[k]]
<1>4. \E f : Eq(f)
  BY <1>3 DEF FlattenDom, FlattenEquation
<1>5. FlattenSeq(ss) = IF Len(ss) = 0 THEN ss ELSE flatten[Len(ss)]
  BY DEF FlattenSeq
<1>6. Eq(flatten)
  BY <1>4, Zenon
<1>7. Len(ss) \in Nat /\ \A k \in 1..Len(ss) : ss[k] \in Encoded
  BY LenProperties, ElementOfSeq
<1> HIDE DEF flatten
<1>8. fl[0] = <<>>
  BY <1>7
<1>9. ASSUME NEW k \in 1..Len(ss) PROVE fl[k] = fl[k - 1] \o ss[k]
  <2>1. CASE k = 1
    <3>1. flatten[1] = ss[1] /\ fl[1] = flatten[1]
      BY <1>6, <1>7, <2>1
    <3>2. <<>> \o ss[1] = ss[1]
      BY <1>7, <2>1, NothingAround
    <3> QED
      BY <1>8, <2>1, <3>1, <3>2
  <2>2. CASE k # 1
    <3>1. flatten[k] = flatten[k - 1] \o ss[k]
      BY <1>6, <2>2
    <3>2. fl[k] = flatten[k] /\ fl[k - 1] = flatten[k - 1]
      BY <1>7, <2>2
    <3> QED
      BY <3>1, <3>2
  <2> QED
    BY <2>1, <2>2
<1>10. FlattenSeq(ss) = fl[Len(ss)]
  <2>1. CASE Len(ss) = 0
    <3>1. ss = <<>>
      BY <2>1, EmptySeq
    <3> QED
      BY <1>5, <1>8, <2>1, <3>1
  <2>2. CASE Len(ss) # 0
    BY <1>5, <1>7, <2>2
  <2> QED
    BY <2>1, <2>2
<1> HIDE DEF fl
<1> DEFINE T == {k \in Nat : k <= Len(ss) => fl[k] \in Encoded}
<1>11. 0 \in T
  BY <1>8, NoBytes
<1>12. ASSUME NEW k \in Nat, k \in T PROVE k + 1 \in T
  <2> SUFFICES ASSUME k + 1 <= Len(ss) PROVE fl[k + 1] \in Encoded
    OBVIOUS
  <2>1. k + 1 \in 1..Len(ss) /\ (k + 1) - 1 = k /\ fl[k] \in Encoded
    BY <1>7, <1>12
  <2>2. fl[k + 1] = fl[k] \o ss[k + 1] /\ ss[k + 1] \in Encoded
    BY <1>7, <1>9, <2>1
  <2> QED
    BY <2>1, <2>2, Concat
<1> HIDE DEF T
<1>13. Nat \subseteq T
  BY <1>11, <1>12, Induction
<1>14. \A k \in 0..Len(ss) : fl[k] \in Encoded
  BY <1>7, <1>13 DEF T
<1>15. Flattened(ss, fl)
  BY <1>8, <1>9, <1>10, <1>14 DEF Flattened
<1> QED
  BY <1>15

\* The first rows of a list, and one more.
LEMMA FirstRows ==
  ASSUME NEW S, NEW s \in Seq(S)
  PROVE  /\ SubSeq(s, 1, 0) = <<>> /\ SubSeq(s, 1, Len(s)) = s
         /\ \A k \in Nat : k + 1 <= Len(s)
              => SubSeq(s, 1, k + 1) = Append(SubSeq(s, 1, k), s[k + 1])
<1>1. Len(s) \in Nat
  BY LenProperties
<1>2. SubSeq(s, 1, 0) = <<>> /\ SubSeq(s, 1, Len(s)) = s
  BY <1>1
<1>3. ASSUME NEW k \in Nat, k + 1 <= Len(s)
      PROVE  SubSeq(s, 1, k + 1) = Append(SubSeq(s, 1, k), s[k + 1])
  BY <1>1, <1>3
<1> QED
  BY <1>2, <1>3

ChatsResponse_P == INSTANCE Folding
    WITH Op <- LAMBDA m, f : Checked(ChatsResponse_MergePartial, m, f)

\* The parser of ChatsResponse reads field by field.
LEMMA ChatsResponse_Reads == Reads(ChatsResponse_MergePartial)
<1>1. ChatsResponse_P!Induction
  BY Induction DEF ChatsResponse_P!Induction
<1>2. \A m, s : Merged(ChatsResponse_MergePartial, m, s) = ChatsResponse_P!Fold(m, Fields[s])
  BY DEF Merged, Checked, ChatsResponse_P!Fold, FoldLeft, MapThenFoldSet,
     ChatsResponse_P!MapThenFoldSet,
         Max, ChatsResponse_P!Greatest
<1>3. \A m : \A f \in AnyField, u \in Seq(AnyField) :
         ChatsResponse_P!Fold(m, <<f>> \o u)
             = ChatsResponse_P!Fold(Checked(ChatsResponse_MergePartial, m, f), u)
  BY <1>1, ChatsResponse_P!FoldFront
<1>4. \A m : Merged(ChatsResponse_MergePartial, m, <<>>) = m
  BY <1>1, <1>2, ChatsResponse_P!FoldEmpty, FieldsEmpty
<1> SUFFICES ASSUME NEW m, NEW b, NEW f, NEW t \in Encoded, m # Failure /\ IsWritten(b, f)
             PROVE  Merged(ChatsResponse_MergePartial, m, b \o t)
                      = Merged(ChatsResponse_MergePartial, ChatsResponse_MergePartial(m, f), t)
  BY <1>4, Zenon DEF Reads
<1>5. PICK u \in Seq(AnyField) : u = Fields[t] /\ Fields[b \o t] = <<f>> \o u
  BY FirstField
<1>6. f \in AnyField
      /\ Checked(ChatsResponse_MergePartial, m, f) = ChatsResponse_MergePartial(m, f)
  BY FieldIsNoFailure DEF Checked
<1>7. ChatsResponse_P!Fold(m, <<f>> \o u)
          = ChatsResponse_P!Fold(ChatsResponse_MergePartial(m, f), u)
  BY <1>3, <1>6, Zenon
<1> QED
  BY <1>2, <1>5, <1>7, Zenon

ChatsResponse_S == INSTANCE Folding
    WITH Op <- LAMBDA total, row : total + MessageSize(Chat_ByteSize(row))

\* The pieces of ChatsResponse, each one a row, and what is put together of them.
ChatsResponse_Pieces(m, ss, fl) ==
    /\ ss \in Seq(Encoded) /\ Len(ss) = Len(m.chats) /\ Flattened(ss, fl)
    /\ ChatsResponse_Serialize(m) = FlattenSeq(ss)
    /\ \A i \in 1..Len(ss) :
          ss[i] = WriteMessage(1, Chat_ByteSize(m.chats[i]), Chat_Serialize(m.chats[i]))

\* ChatsResponse is written row by row.
LEMMA ChatsResponse_Written ==
  ASSUME NEW m \in ChatsResponse
  PROVE  \E ss, fl : ChatsResponse_Pieces(m, ss, fl)
<1> DEFINE ss == [i \in DOMAIN m.chats |->
                     WriteMessage(1, Chat_ByteSize(m.chats[i]), Chat_Serialize(m.chats[i]))]
<1>1. /\ Len(m.chats) \in Nat /\ DOMAIN m.chats = 1..Len(m.chats)
      /\ \A i \in 1..Len(m.chats) : m.chats[i] \in Chat
  BY LenProperties, ElementOfSeq DEF ChatsResponse
<1>2. ASSUME NEW i \in 1..Len(m.chats) PROVE ss[i] \in Encoded
  <2>1. Encodes(Chat_Serialize(m.chats[i]), Chat_ByteSize(m.chats[i]))
    BY <1>1, Chat_Size
  <2>2. Encodes(ss[i], MessageSize(Chat_ByteSize(m.chats[i])))
    BY <1>1, <2>1, MemberSize, 1 \in 1..15
  <2> QED
    BY <2>2 DEF Encodes
<1>3. ChatsResponse_Serialize(m) = FlattenSeq(ss)
  BY DEF ChatsResponse_Serialize, WriteRows
<1>4. \A i \in 1..Len(m.chats) :
         ss[i] = WriteMessage(1, Chat_ByteSize(m.chats[i]), Chat_Serialize(m.chats[i]))
  BY <1>1
<1>5. ss \in [1..Len(m.chats) -> Encoded]
  BY <1>1, <1>2
<1> HIDE DEF ss
<1>6. ss \in Seq(Encoded) /\ Len(ss) = Len(m.chats)
  BY <1>1, <1>5, IsSequence
<1>7. PICK fl : Flattened(ss, fl)
  BY <1>6, FlattenSteps
<1>8. ChatsResponse_Pieces(m, ss, fl)
  BY <1>3, <1>4, <1>6, <1>7 DEF ChatsResponse_Pieces
<1> QED
  BY <1>8

\* ChatsResponse takes the bytes that it announces: the sizes of its rows add up.
LEMMA ChatsResponse_Size ==
  \A m \in ChatsResponse : Encodes(ChatsResponse_Serialize(m), ChatsResponse_ByteSize(m))
<1> SUFFICES ASSUME NEW m \in ChatsResponse
             PROVE Encodes(ChatsResponse_Serialize(m), ChatsResponse_ByteSize(m))
  OBVIOUS
<1>1. PICK ss, fl : ChatsResponse_Pieces(m, ss, fl)
  BY ChatsResponse_Written
<1>2. PICK rows, n : rows = m.chats /\ n = Len(rows)
  OBVIOUS
<1>3. rows \in Seq(Chat) /\ n \in Nat /\ n = Len(ss) /\ \A k \in 1..n : rows[k] \in Chat
  BY <1>1, <1>2, LenProperties, ElementOfSeq DEF ChatsResponse, ChatsResponse_Pieces
<1>4. /\ fl[0] = <<>>
      /\ \A k \in 1..n : fl[k] = fl[k - 1] \o ss[k]
      /\ \A k \in 0..n : fl[k] \in Encoded
      /\ ChatsResponse_Serialize(m) = fl[n]
  BY <1>1, <1>3 DEF ChatsResponse_Pieces, Flattened
<1> DEFINE r == [k \in 0..n |-> Len(fl[k])]
<1>5. r[0] = 0
  BY <1>3, <1>4, NoBytes
<1>6. ASSUME NEW k \in 1..n PROVE r[k] = r[k - 1] + MessageSize(Chat_ByteSize(rows[k]))
  <2>1. Encodes(ss[k], MessageSize(Chat_ByteSize(rows[k])))
    <3>1. Encodes(Chat_Serialize(rows[k]), Chat_ByteSize(rows[k]))
      BY <1>3, Chat_Size
    <3>2. ss[k] = WriteMessage(1, Chat_ByteSize(rows[k]), Chat_Serialize(rows[k]))
      BY <1>1, <1>2, <1>3 DEF ChatsResponse_Pieces
    <3> QED
      BY <3>1, <3>2, MemberSize, 1 \in 1..15
  <2>2. k \in 0..n /\ k - 1 \in 0..n
    BY <1>3
  <2>3. fl[k - 1] \in Encoded /\ fl[k] = fl[k - 1] \o ss[k]
    BY <1>4, <2>2
  <2>4. Len(fl[k]) = Len(fl[k - 1]) + MessageSize(Chat_ByteSize(rows[k]))
    BY <2>1, <2>3, Concat DEF Encodes
  <2> QED
    BY <2>2, <2>4
<1>7. ChatsResponse_ByteSize(m) = ChatsResponse_S!Fold(0, rows)
  BY <1>2 DEF ChatsResponse_ByteSize, RowsSize, ChatsResponse_S!Fold, FoldLeft, MapThenFoldSet,
              ChatsResponse_S!MapThenFoldSet, Max, ChatsResponse_S!Greatest
<1>8. ChatsResponse_S!Fold(0, rows) = r[n]
  <2>1. ChatsResponse_S!Induction
    BY Induction DEF ChatsResponse_S!Induction
  <2> HIDE DEF r
  <2>2. \A k \in 1..Len(rows) : r[k] = r[k - 1] + MessageSize(Chat_ByteSize(rows[k]))
    BY <1>2, <1>6
  <2>3. ChatsResponse_S!Fold(0, rows) = r[Len(rows)]
    BY <1>3, <1>5, <2>1, <2>2, ChatsResponse_S!FoldTrace
  <2> QED
    BY <1>2, <2>3
<1>9. r[n] = Len(fl[n]) /\ fl[n] \in Encoded
  BY <1>3, <1>4
<1> QED
  BY <1>4, <1>7, <1>8, <1>9, Concat DEF Encodes

\* ChatsResponse is read back row by row.
LEMMA ChatsResponse_RoundTrip ==
  \A m \in ChatsResponse :
      Merged(ChatsResponse_MergePartial, ChatsResponse_New, ChatsResponse_Serialize(m)) = m
<1> SUFFICES ASSUME NEW m \in ChatsResponse
             PROVE  Merged(ChatsResponse_MergePartial, ChatsResponse_New,
                        ChatsResponse_Serialize(m)) = m
  OBVIOUS
<1> DEFINE M(x, s) == Merged(ChatsResponse_MergePartial, x, s)
<1>1. \A x, b, f : \A u \in Encoded : x # Failure /\ IsWritten(b, f)
                  => M(x, b \o u) = M(ChatsResponse_MergePartial(x, f), u)
  BY ChatsResponse_Reads DEF Reads
<1>2. \A x : M(x, <<>>) = x
  BY ChatsResponse_Reads DEF Reads
<1> HIDE DEF M
<1>3. PICK ss, fl : ChatsResponse_Pieces(m, ss, fl)
  BY ChatsResponse_Written
<1>4. PICK rows, n : rows = m.chats /\ n = Len(rows)
  OBVIOUS
<1>5. /\ rows \in Seq(Chat) /\ n \in Nat /\ n = Len(ss) /\ m = [chats |-> rows]
      /\ \A k \in 1..n : rows[k] \in Chat /\ ss[k] \in Encoded
  BY <1>3, <1>4, LenProperties, ElementOfSeq DEF ChatsResponse, ChatsResponse_Pieces
<1>6. /\ fl[0] = <<>>
      /\ \A k \in 1..n : fl[k] = fl[k - 1] \o ss[k]
      /\ \A k \in 0..n : fl[k] \in Encoded
      /\ ChatsResponse_Serialize(m) = fl[n]
  BY <1>3, <1>5 DEF ChatsResponse_Pieces, Flattened
<1> DEFINE r(k) == [chats |-> SubSeq(rows, 1, k)]
           P(k) == \A t \in Encoded : M(ChatsResponse_New, fl[k] \o t) = M(r(k), t)
           T == {k \in Nat : k <= n => P(k)}
<1>7. /\ r(0) = ChatsResponse_New /\ r(n) = m
      /\ \A k \in Nat : k + 1 <= n
           => SubSeq(rows, 1, k + 1) = Append(SubSeq(rows, 1, k), rows[k + 1])
  BY <1>4, <1>5, FirstRows DEF ChatsResponse_New
<1>8. 0 \in T
  <2>1. ASSUME NEW t \in Encoded PROVE M(ChatsResponse_New, fl[0] \o t) = M(r(0), t)
    <3>1. fl[0] \o t = t
      BY <1>6, NothingAround
    <3> QED
      BY <1>7, <3>1, Zenon
  <2> QED
    BY <2>1
<1>9. ASSUME NEW k \in Nat, k \in T PROVE k + 1 \in T
  <2> SUFFICES ASSUME k + 1 <= n, NEW t \in Encoded
               PROVE  M(ChatsResponse_New, fl[k + 1] \o t) = M(r(k + 1), t)
    OBVIOUS
  <2>1. /\ k + 1 \in 1..n /\ (k + 1) - 1 = k /\ k \in 0..n /\ k <= n
    BY <1>5
  <2>2. PICK a, b : a = fl[k] /\ b = ss[k + 1]
    OBVIOUS
  <2>3. a \in Encoded /\ b \in Encoded /\ fl[k + 1] = a \o b
    BY <1>5, <1>6, <2>1, <2>2
  <2>4. PICK v \in Chat : v = rows[k + 1]
    BY <1>5, <2>1
  <2>5. PICK x, f : x = Chat_Serialize(v) /\ f = [tag |-> 10, value |-> x]
    OBVIOUS
  <2>6. IsWritten(b, f)
    <3>1. b = WriteMessage(1, Chat_ByteSize(v), x)
      BY <1>3, <1>4, <1>5, <2>1, <2>2, <2>4, <2>5 DEF ChatsResponse_Pieces
    <3>2. Encodes(x, Chat_ByteSize(v))
      BY <2>5, Chat_Size
    <3> QED
      BY <2>5, <3>1, <3>2, MessageField
  <2>7. PICK p, q : q = r(k) /\ p = r(k + 1)
    OBVIOUS
  <2>8. q # Failure
    BY <2>7 DEF Failure
  <2>9. ChatsResponse_MergePartial(q, f) = p
    <3>1. Merged(Chat_MergePartial, Chat_New, x) = v
      BY <2>5, Chat_RoundTrip, Zenon
    <3>2. f.tag = 10 /\ f.value = x
      BY <2>5
    <3>3. ChatsResponse_MergePartial(q, f)
              = ReadRow(q, "chats", Merged(Chat_MergePartial, Chat_New, x))
      BY <3>2 DEF ChatsResponse_MergePartial
    <3>4. v # Failure
      BY Chat_NoFailure
    <3>5. ReadRow(q, "chats", v) = [chats |-> Append(SubSeq(rows, 1, k), v)]
      BY <2>7, <3>4 DEF ReadRow
    <3>6. SubSeq(rows, 1, k + 1) = Append(SubSeq(rows, 1, k), v)
      BY <1>7, <2>4
    <3> QED
      BY <2>7, <3>1, <3>3, <3>5, <3>6
  <2>10. PICK u : u = b \o t
    OBVIOUS
  <2>11. u \in Encoded /\ (a \o b) \o t = a \o u
    BY <2>3, <2>10, Concat, Regroup
  <2>12. M(ChatsResponse_New, a \o u) = M(q, u)
    BY <1>9, <2>1, <2>2, <2>7, <2>11
  <2>13. M(q, b \o t) = M(ChatsResponse_MergePartial(q, f), t)
    BY <1>1, <2>6, <2>8, Zenon
  <2> QED
    BY <2>3, <2>7, <2>9, <2>10, <2>11, <2>12, <2>13, Zenon
<1> HIDE DEF T
<1>10. Nat \subseteq T
  BY <1>8, <1>9, Induction
<1>11. M(ChatsResponse_New, fl[n] \o <<>>) = M(m, <<>>)
  <2>1. P(n)
    BY <1>5, <1>10 DEF T
  <2>2. M(ChatsResponse_New, fl[n] \o <<>>) = M(r(n), <<>>)
    BY <2>1, NoBytes
  <2> QED
    BY <1>7, <2>2, Zenon
<1>12. fl[n] \o <<>> = fl[n]
  BY <1>5, <1>6, NothingAround
<1> QED
  BY <1>2, <1>6, <1>11, <1>12, Zenon DEF M

\* An object of ChatsResponse is not what a failed parse returns.
LEMMA ChatsResponse_NoFailure == Failure \notin ChatsResponse
  BY DEF Failure, ChatsResponse

ContactsResponse_P == INSTANCE Folding
    WITH Op <- LAMBDA m, f : Checked(ContactsResponse_MergePartial, m, f)

\* The parser of ContactsResponse reads field by field.
LEMMA ContactsResponse_Reads == Reads(ContactsResponse_MergePartial)
<1>1. ContactsResponse_P!Induction
  BY Induction DEF ContactsResponse_P!Induction
<1>2. \A m, s :
          Merged(ContactsResponse_MergePartial, m, s) = ContactsResponse_P!Fold(m, Fields[s])
  BY DEF Merged, Checked, ContactsResponse_P!Fold, FoldLeft, MapThenFoldSet,
     ContactsResponse_P!MapThenFoldSet,
         Max, ContactsResponse_P!Greatest
<1>3. \A m : \A f \in AnyField, u \in Seq(AnyField) :
         ContactsResponse_P!Fold(m, <<f>> \o u)
             = ContactsResponse_P!Fold(Checked(ContactsResponse_MergePartial, m, f), u)
  BY <1>1, ContactsResponse_P!FoldFront
<1>4. \A m : Merged(ContactsResponse_MergePartial, m, <<>>) = m
  BY <1>1, <1>2, ContactsResponse_P!FoldEmpty, FieldsEmpty
<1> SUFFICES ASSUME NEW m, NEW b, NEW f, NEW t \in Encoded, m # Failure /\ IsWritten(b, f)
             PROVE  Merged(ContactsResponse_MergePartial, m, b \o t)
                      = Merged(ContactsResponse_MergePartial,
                          ContactsResponse_MergePartial(m, f), t)
  BY <1>4, Zenon DEF Reads
<1>5. PICK u \in Seq(AnyField) : u = Fields[t] /\ Fields[b \o t] = <<f>> \o u
  BY FirstField
<1>6. f \in AnyField
      /\ Checked(ContactsResponse_MergePartial, m, f) = ContactsResponse_MergePartial(m, f)
  BY FieldIsNoFailure DEF Checked
<1>7. ContactsResponse_P!Fold(m, <<f>> \o u)
          = ContactsResponse_P!Fold(ContactsResponse_MergePartial(m, f), u)
  BY <1>3, <1>6, Zenon
<1> QED
  BY <1>2, <1>5, <1>7, Zenon

ContactsResponse_S == INSTANCE Folding
    WITH Op <- LAMBDA total, row : total + MessageSize(Contact_ByteSize(row))

\* The pieces of ContactsResponse, each one a row, and what is put together of them.
ContactsResponse_Pieces(m, ss, fl) ==
    /\ ss \in Seq(Encoded) /\ Len(ss) = Len(m.contacts) /\ Flattened(ss, fl)
    /\ ContactsResponse_Serialize(m) = FlattenSeq(ss)
    /\ \A i \in 1..Len(ss) :
          ss[i]
              = WriteMessage(1, Contact_ByteSize(m.contacts[i]),
                  Contact_Serialize(m.contacts[i]))

\* ContactsResponse is written row by row.
LEMMA ContactsResponse_Written ==
  ASSUME NEW m \in ContactsResponse
  PROVE  \E ss, fl : ContactsResponse_Pieces(m, ss, fl)
<1> DEFINE ss == [i \in DOMAIN m.contacts |->
                     WriteMessage(1, Contact_ByteSize(m.contacts[i]),
                         Contact_Serialize(m.contacts[i]))]
<1>1. /\ Len(m.contacts) \in Nat /\ DOMAIN m.contacts = 1..Len(m.contacts)
      /\ \A i \in 1..Len(m.contacts) : m.contacts[i] \in Contact
  BY LenProperties, ElementOfSeq DEF ContactsResponse
<1>2. ASSUME NEW i \in 1..Len(m.contacts) PROVE ss[i] \in Encoded
  <2>1. Encodes(Contact_Serialize(m.contacts[i]), Contact_ByteSize(m.contacts[i]))
    BY <1>1, Contact_Size
  <2>2. Encodes(ss[i], MessageSize(Contact_ByteSize(m.contacts[i])))
    BY <1>1, <2>1, MemberSize, 1 \in 1..15
  <2> QED
    BY <2>2 DEF Encodes
<1>3. ContactsResponse_Serialize(m) = FlattenSeq(ss)
  BY DEF ContactsResponse_Serialize, WriteRows
<1>4. \A i \in 1..Len(m.contacts) :
         ss[i]
             = WriteMessage(1, Contact_ByteSize(m.contacts[i]),
                 Contact_Serialize(m.contacts[i]))
  BY <1>1
<1>5. ss \in [1..Len(m.contacts) -> Encoded]
  BY <1>1, <1>2
<1> HIDE DEF ss
<1>6. ss \in Seq(Encoded) /\ Len(ss) = Len(m.contacts)
  BY <1>1, <1>5, IsSequence
<1>7. PICK fl : Flattened(ss, fl)
  BY <1>6, FlattenSteps
<1>8. ContactsResponse_Pieces(m, ss, fl)
  BY <1>3, <1>4, <1>6, <1>7 DEF ContactsResponse_Pieces
<1> QED
  BY <1>8

\* ContactsResponse takes the bytes that it announces: the sizes of its rows add up.
LEMMA ContactsResponse_Size ==
  \A m \in ContactsResponse :
      Encodes(ContactsResponse_Serialize(m), ContactsResponse_ByteSize(m))
<1> SUFFICES ASSUME NEW m \in ContactsResponse
             PROVE Encodes(ContactsResponse_Serialize(m), ContactsResponse_ByteSize(m))
  OBVIOUS
<1>1. PICK ss, fl : ContactsResponse_Pieces(m, ss, fl)
  BY ContactsResponse_Written
<1>2. PICK rows, n : rows = m.contacts /\ n = Len(rows)
  OBVIOUS
<1>3. rows \in Seq(Contact) /\ n \in Nat /\ n = Len(ss) /\ \A k \in 1..n : rows[k] \in Contact
  BY <1>1, <1>2, LenProperties, ElementOfSeq DEF ContactsResponse, ContactsResponse_Pieces
<1>4. /\ fl[0] = <<>>
      /\ \A k \in 1..n : fl[k] = fl[k - 1] \o ss[k]
      /\ \A k \in 0..n : fl[k] \in Encoded
      /\ ContactsResponse_Serialize(m) = fl[n]
  BY <1>1, <1>3 DEF ContactsResponse_Pieces, Flattened
<1> DEFINE r == [k \in 0..n |-> Len(fl[k])]
<1>5. r[0] = 0
  BY <1>3, <1>4, NoBytes
<1>6. ASSUME NEW k \in 1..n PROVE r[k] = r[k - 1] + MessageSize(Contact_ByteSize(rows[k]))
  <2>1. Encodes(ss[k], MessageSize(Contact_ByteSize(rows[k])))
    <3>1. Encodes(Contact_Serialize(rows[k]), Contact_ByteSize(rows[k]))
      BY <1>3, Contact_Size
    <3>2. ss[k] = WriteMessage(1, Contact_ByteSize(rows[k]), Contact_Serialize(rows[k]))
      BY <1>1, <1>2, <1>3 DEF ContactsResponse_Pieces
    <3> QED
      BY <3>1, <3>2, MemberSize, 1 \in 1..15
  <2>2. k \in 0..n /\ k - 1 \in 0..n
    BY <1>3
  <2>3. fl[k - 1] \in Encoded /\ fl[k] = fl[k - 1] \o ss[k]
    BY <1>4, <2>2
  <2>4. Len(fl[k]) = Len(fl[k - 1]) + MessageSize(Contact_ByteSize(rows[k]))
    BY <2>1, <2>3, Concat DEF Encodes
  <2> QED
    BY <2>2, <2>4
<1>7. ContactsResponse_ByteSize(m) = ContactsResponse_S!Fold(0, rows)
  BY <1>2 DEF ContactsResponse_ByteSize, RowsSize, ContactsResponse_S!Fold, FoldLeft,
     MapThenFoldSet,
              ContactsResponse_S!MapThenFoldSet, Max, ContactsResponse_S!Greatest
<1>8. ContactsResponse_S!Fold(0, rows) = r[n]
  <2>1. ContactsResponse_S!Induction
    BY Induction DEF ContactsResponse_S!Induction
  <2> HIDE DEF r
  <2>2. \A k \in 1..Len(rows) : r[k] = r[k - 1] + MessageSize(Contact_ByteSize(rows[k]))
    BY <1>2, <1>6
  <2>3. ContactsResponse_S!Fold(0, rows) = r[Len(rows)]
    BY <1>3, <1>5, <2>1, <2>2, ContactsResponse_S!FoldTrace
  <2> QED
    BY <1>2, <2>3
<1>9. r[n] = Len(fl[n]) /\ fl[n] \in Encoded
  BY <1>3, <1>4
<1> QED
  BY <1>4, <1>7, <1>8, <1>9, Concat DEF Encodes

\* ContactsResponse is read back row by row.
LEMMA ContactsResponse_RoundTrip ==
  \A m \in ContactsResponse :
      Merged(ContactsResponse_MergePartial, ContactsResponse_New,
          ContactsResponse_Serialize(m)) = m
<1> SUFFICES ASSUME NEW m \in ContactsResponse
             PROVE  Merged(ContactsResponse_MergePartial, ContactsResponse_New,
                        ContactsResponse_Serialize(m)) = m
  OBVIOUS
<1> DEFINE M(x, s) == Merged(ContactsResponse_MergePartial, x, s)
<1>1. \A x, b, f : \A u \in Encoded : x # Failure /\ IsWritten(b, f)
                  => M(x, b \o u) = M(ContactsResponse_MergePartial(x, f), u)
  BY ContactsResponse_Reads DEF Reads
<1>2. \A x : M(x, <<>>) = x
  BY ContactsResponse_Reads DEF Reads
<1> HIDE DEF M
<1>3. PICK ss, fl : ContactsResponse_Pieces(m, ss, fl)
  BY ContactsResponse_Written
<1>4. PICK rows, n : rows = m.contacts /\ n = Len(rows)
  OBVIOUS
<1>5. /\ rows \in Seq(Contact) /\ n \in Nat /\ n = Len(ss) /\ m = [contacts |-> rows]
      /\ \A k \in 1..n : rows[k] \in Contact /\ ss[k] \in Encoded
  BY <1>3, <1>4, LenProperties, ElementOfSeq DEF ContactsResponse, ContactsResponse_Pieces
<1>6. /\ fl[0] = <<>>
      /\ \A k \in 1..n : fl[k] = fl[k - 1] \o ss[k]
      /\ \A k \in 0..n : fl[k] \in Encoded
      /\ ContactsResponse_Serialize(m) = fl[n]
  BY <1>3, <1>5 DEF ContactsResponse_Pieces, Flattened
<1> DEFINE r(k) == [contacts |-> SubSeq(rows, 1, k)]
           P(k) == \A t \in Encoded : M(ContactsResponse_New, fl[k] \o t) = M(r(k), t)
           T == {k \in Nat : k <= n => P(k)}
<1>7. /\ r(0) = ContactsResponse_New /\ r(n) = m
      /\ \A k \in Nat : k + 1 <= n
           => SubSeq(rows, 1, k + 1) = Append(SubSeq(rows, 1, k), rows[k + 1])
  BY <1>4, <1>5, FirstRows DEF ContactsResponse_New
<1>8. 0 \in T
  <2>1. ASSUME NEW t \in Encoded PROVE M(ContactsResponse_New, fl[0] \o t) = M(r(0), t)
    <3>1. fl[0] \o t = t
      BY <1>6, NothingAround
    <3> QED
      BY <1>7, <3>1, Zenon
  <2> QED
    BY <2>1
<1>9. ASSUME NEW k \in Nat, k \in T PROVE k + 1 \in T
  <2> SUFFICES ASSUME k + 1 <= n, NEW t \in Encoded
               PROVE  M(ContactsResponse_New, fl[k + 1] \o t) = M(r(k + 1), t)
    OBVIOUS
  <2>1. /\ k + 1 \in 1..n /\ (k + 1) - 1 = k /\ k \in 0..n /\ k <= n
    BY <1>5
  <2>2. PICK a, b : a = fl[k] /\ b = ss[k + 1]
    OBVIOUS
  <2>3. a \in Encoded /\ b \in Encoded /\ fl[k + 1] = a \o b
    BY <1>5, <1>6, <2>1, <2>2
  <2>4. PICK v \in Contact : v = rows[k + 1]
    BY <1>5, <2>1
  <2>5. PICK x, f : x = Contact_Serialize(v) /\ f = [tag |-> 10, value |-> x]
    OBVIOUS
  <2>6. IsWritten(b, f)
    <3>1. b = WriteMessage(1, Contact_ByteSize(v), x)
      BY <1>3, <1>4, <1>5, <2>1, <2>2, <2>4, <2>5 DEF ContactsResponse_Pieces
    <3>2. Encodes(x, Contact_ByteSize(v))
      BY <2>5, Contact_Size
    <3> QED
      BY <2>5, <3>1, <3>2, MessageField
  <2>7. PICK p, q : q = r(k) /\ p = r(k + 1)
    OBVIOUS
  <2>8. q # Failure
    BY <2>7 DEF Failure
  <2>9. ContactsResponse_MergePartial(q, f) = p
    <3>1. Merged(Contact_MergePartial, Contact_New, x) = v
      BY <2>5, Contact_RoundTrip, Zenon
    <3>2. f.tag = 10 /\ f.value = x
      BY <2>5
    <3>3. ContactsResponse_MergePartial(q, f)
              = ReadRow(q, "contacts", Merged(Contact_MergePartial, Contact_New, x))
      BY <3>2 DEF ContactsResponse_MergePartial
    <3>4. v # Failure
      BY Contact_NoFailure
    <3>5. ReadRow(q, "contacts", v) = [contacts |-> Append(SubSeq(rows, 1, k), v)]
      BY <2>7, <3>4 DEF ReadRow
    <3>6. SubSeq(rows, 1, k + 1) = Append(SubSeq(rows, 1, k), v)
      BY <1>7, <2>4
    <3> QED
      BY <2>7, <3>1, <3>3, <3>5, <3>6
  <2>10. PICK u : u = b \o t
    OBVIOUS
  <2>11. u \in Encoded /\ (a \o b) \o t = a \o u
    BY <2>3, <2>10, Concat, Regroup
  <2>12. M(ContactsResponse_New, a \o u) = M(q, u)
    BY <1>9, <2>1, <2>2, <2>7, <2>11
  <2>13. M(q, b \o t) = M(ContactsResponse_MergePartial(q, f), t)
    BY <1>1, <2>6, <2>8, Zenon
  <2> QED
    BY <2>3, <2>7, <2>9, <2>10, <2>11, <2>12, <2>13, Zenon
<1> HIDE DEF T
<1>10. Nat \subseteq T
  BY <1>8, <1>9, Induction
<1>11. M(ContactsResponse_New, fl[n] \o <<>>) = M(m, <<>>)
  <2>1. P(n)
    BY <1>5, <1>10 DEF T
  <2>2. M(ContactsResponse_New, fl[n] \o <<>>) = M(r(n), <<>>)
    BY <2>1, NoBytes
  <2> QED
    BY <1>7, <2>2, Zenon
<1>12. fl[n] \o <<>> = fl[n]
  BY <1>5, <1>6, NothingAround
<1> QED
  BY <1>2, <1>6, <1>11, <1>12, Zenon DEF M

\* An object of ContactsResponse is not what a failed parse returns.
LEMMA ContactsResponse_NoFailure == Failure \notin ContactsResponse
  BY DEF Failure, ContactsResponse

MessagesResponse_P == INSTANCE Folding
    WITH Op <- LAMBDA m, f : Checked(MessagesResponse_MergePartial, m, f)

\* The parser of MessagesResponse reads field by field.
LEMMA MessagesResponse_Reads == Reads(MessagesResponse_MergePartial)
<1>1. MessagesResponse_P!Induction
  BY Induction DEF MessagesResponse_P!Induction
<1>2. \A m, s :
          Merged(MessagesResponse_MergePartial, m, s) = MessagesResponse_P!Fold(m, Fields[s])
  BY DEF Merged, Checked, MessagesResponse_P!Fold, FoldLeft, MapThenFoldSet,
     MessagesResponse_P!MapThenFoldSet,
         Max, MessagesResponse_P!Greatest
<1>3. \A m : \A f \in AnyField, u \in Seq(AnyField) :
         MessagesResponse_P!Fold(m, <<f>> \o u)
             = MessagesResponse_P!Fold(Checked(MessagesResponse_MergePartial, m, f), u)
  BY <1>1, MessagesResponse_P!FoldFront
<1>4. \A m : Merged(MessagesResponse_MergePartial, m, <<>>) = m
  BY <1>1, <1>2, MessagesResponse_P!FoldEmpty, FieldsEmpty
<1> SUFFICES ASSUME NEW m, NEW b, NEW f, NEW t \in Encoded, m # Failure /\ IsWritten(b, f)
             PROVE  Merged(MessagesResponse_MergePartial, m, b \o t)
                      = Merged(MessagesResponse_MergePartial,
                          MessagesResponse_MergePartial(m, f), t)
  BY <1>4, Zenon DEF Reads
<1>5. PICK u \in Seq(AnyField) : u = Fields[t] /\ Fields[b \o t] = <<f>> \o u
  BY FirstField
<1>6. f \in AnyField
      /\ Checked(MessagesResponse_MergePartial, m, f) = MessagesResponse_MergePartial(m, f)
  BY FieldIsNoFailure DEF Checked
<1>7. MessagesResponse_P!Fold(m, <<f>> \o u)
          = MessagesResponse_P!Fold(MessagesResponse_MergePartial(m, f), u)
  BY <1>3, <1>6, Zenon
<1> QED
  BY <1>2, <1>5, <1>7, Zenon

MessagesResponse_S == INSTANCE Folding
    WITH Op <- LAMBDA total, row : total + MessageSize(MessageToRecieve_ByteSize(row))

\* The pieces of MessagesResponse, each one a row, and what is put together of them.
MessagesResponse_Pieces(m, ss, fl) ==
    /\ ss \in Seq(Encoded) /\ Len(ss) = Len(m.messages) /\ Flattened(ss, fl)
    /\ MessagesResponse_Serialize(m) = FlattenSeq(ss)
    /\ \A i \in 1..Len(ss) :
          ss[i]
              = WriteMessage(1, MessageToRecieve_ByteSize(m.messages[i]),
                  MessageToRecieve_Serialize(m.messages[i]))

\* MessagesResponse is written row by row.
LEMMA MessagesResponse_Written ==
  ASSUME NEW m \in MessagesResponse
  PROVE  \E ss, fl : MessagesResponse_Pieces(m, ss, fl)
<1> DEFINE ss == [i \in DOMAIN m.messages |->
                     WriteMessage(1, MessageToRecieve_ByteSize(m.messages[i]),
                         MessageToRecieve_Serialize(m.messages[i]))]
<1>1. /\ Len(m.messages) \in Nat /\ DOMAIN m.messages = 1..Len(m.messages)
      /\ \A i \in 1..Len(m.messages) : m.messages[i] \in MessageToRecieve
  BY LenProperties, ElementOfSeq DEF MessagesResponse
<1>2. ASSUME NEW i \in 1..Len(m.messages) PROVE ss[i] \in Encoded
  <2>1. Encodes(MessageToRecieve_Serialize(m.messages[i]),
            MessageToRecieve_ByteSize(m.messages[i]))
    BY <1>1, MessageToRecieve_Size
  <2>2. Encodes(ss[i], MessageSize(MessageToRecieve_ByteSize(m.messages[i])))
    BY <1>1, <2>1, MemberSize, 1 \in 1..15
  <2> QED
    BY <2>2 DEF Encodes
<1>3. MessagesResponse_Serialize(m) = FlattenSeq(ss)
  BY DEF MessagesResponse_Serialize, WriteRows
<1>4. \A i \in 1..Len(m.messages) :
         ss[i]
             = WriteMessage(1, MessageToRecieve_ByteSize(m.messages[i]),
                 MessageToRecieve_Serialize(m.messages[i]))
  BY <1>1
<1>5. ss \in [1..Len(m.messages) -> Encoded]
  BY <1>1, <1>2
<1> HIDE DEF ss
<1>6. ss \in Seq(Encoded) /\ Len(ss) = Len(m.messages)
  BY <1>1, <1>5, IsSequence
<1>7. PICK fl : Flattened(ss, fl)
  BY <1>6, FlattenSteps
<1>8. MessagesResponse_Pieces(m, ss, fl)
  BY <1>3, <1>4, <1>6, <1>7 DEF MessagesResponse_Pieces
<1> QED
  BY <1>8

\* MessagesResponse takes the bytes that it announces: the sizes of its rows add up.
LEMMA MessagesResponse_Size ==
  \A m \in MessagesResponse :
      Encodes(MessagesResponse_Serialize(m), MessagesResponse_ByteSize(m))
<1> SUFFICES ASSUME NEW m \in MessagesResponse
             PROVE Encodes(MessagesResponse_Serialize(m), MessagesResponse_ByteSize(m))
  OBVIOUS
<1>1. PICK ss, fl : MessagesResponse_Pieces(m, ss, fl)
  BY MessagesResponse_Written
<1>2. PICK rows, n : rows = m.messages /\ n = Len(rows)
  OBVIOUS
<1>3. rows \in Seq(MessageToRecieve) /\ n \in Nat /\ n = Len(ss)
      /\ \A k \in 1..n : rows[k] \in MessageToRecieve
  BY <1>1, <1>2, LenProperties, ElementOfSeq DEF MessagesResponse, MessagesResponse_Pieces
<1>4. /\ fl[0] = <<>>
      /\ \A k \in 1..n : fl[k] = fl[k - 1] \o ss[k]
      /\ \A k \in 0..n : fl[k] \in Encoded
      /\ MessagesResponse_Serialize(m) = fl[n]
  BY <1>1, <1>3 DEF MessagesResponse_Pieces, Flattened
<1> DEFINE r == [k \in 0..n |-> Len(fl[k])]
<1>5. r[0] = 0
  BY <1>3, <1>4, NoBytes
<1>6. ASSUME NEW k \in 1..n
      PROVE r[k] = r[k - 1] + MessageSize(MessageToRecieve_ByteSize(rows[k]))
  <2>1. Encodes(ss[k], MessageSize(MessageToRecieve_ByteSize(rows[k])))
    <3>1. Encodes(MessageToRecieve_Serialize(rows[k]), MessageToRecieve_ByteSize(rows[k]))
      BY <1>3, MessageToRecieve_Size
    <3>2. ss[k]
              = WriteMessage(1, MessageToRecieve_ByteSize(rows[k]),
                  MessageToRecieve_Serialize(rows[k]))
      BY <1>1, <1>2, <1>3 DEF MessagesResponse_Pieces
    <3> QED
      BY <3>1, <3>2, MemberSize, 1 \in 1..15
  <2>2. k \in 0..n /\ k - 1 \in 0..n
    BY <1>3
  <2>3. fl[k - 1] \in Encoded /\ fl[k] = fl[k - 1] \o ss[k]
    BY <1>4, <2>2
  <2>4. Len(fl[k]) = Len(fl[k - 1]) + MessageSize(MessageToRecieve_ByteSize(rows[k]))
    BY <2>1, <2>3, Concat DEF Encodes
  <2> QED
    BY <2>2, <2>4
<1>7. MessagesResponse_ByteSize(m) = MessagesResponse_S!Fold(0, rows)
  BY <1>2 DEF MessagesResponse_ByteSize, RowsSize, MessagesResponse_S!Fold, FoldLeft,
     MapThenFoldSet,
              MessagesResponse_S!MapThenFoldSet, Max, MessagesResponse_S!Greatest
<1>8. MessagesResponse_S!Fold(0, rows) = r[n]
  <2>1. MessagesResponse_S!Induction
    BY Induction DEF MessagesResponse_S!Induction
  <2> HIDE DEF r
  <2>2. \A k \in 1..Len(rows) :
            r[k] = r[k - 1] + MessageSize(MessageToRecieve_ByteSize(rows[k]))
    BY <1>2, <1>6
  <2>3. MessagesResponse_S!Fold(0, rows) = r[Len(rows)]
    BY <1>3, <1>5, <2>1, <2>2, MessagesResponse_S!FoldTrace
  <2> QED
    BY <1>2, <2>3
<1>9. r[n] = Len(fl[n]) /\ fl[n] \in Encoded
  BY <1>3, <1>4
<1> QED
  BY <1>4, <1>7, <1>8, <1>9, Concat DEF Encodes

\* MessagesResponse is read back row by row.
LEMMA MessagesResponse_RoundTrip ==
  \A m \in MessagesResponse :
      Merged(MessagesResponse_MergePartial, MessagesResponse_New,
          MessagesResponse_Serialize(m)) = m
<1> SUFFICES ASSUME NEW m \in MessagesResponse
             PROVE  Merged(MessagesResponse_MergePartial, MessagesResponse_New,
                        MessagesResponse_Serialize(m)) = m
  OBVIOUS
<1> DEFINE M(x, s) == Merged(MessagesResponse_MergePartial, x, s)
<1>1. \A x, b, f : \A u \in Encoded : x # Failure /\ IsWritten(b, f)
                  => M(x, b \o u) = M(MessagesResponse_MergePartial(x, f), u)
  BY MessagesResponse_Reads DEF Reads
<1>2. \A x : M(x, <<>>) = x
  BY MessagesResponse_Reads DEF Reads
<1> HIDE DEF M
<1>3. PICK ss, fl : MessagesResponse_Pieces(m, ss, fl)
  BY MessagesResponse_Written
<1>4. PICK rows, n : rows = m.messages /\ n = Len(rows)
  OBVIOUS
<1>5. /\ rows \in Seq(MessageToRecieve) /\ n \in Nat /\ n = Len(ss) /\ m = [messages |-> rows]
      /\ \A k \in 1..n : rows[k] \in MessageToRecieve /\ ss[k] \in Encoded
  BY <1>3, <1>4, LenProperties, ElementOfSeq DEF MessagesResponse, MessagesResponse_Pieces
<1>6. /\ fl[0] = <<>>
      /\ \A k \in 1..n : fl[k] = fl[k - 1] \o ss[k]
      /\ \A k \in 0..n : fl[k] \in Encoded
      /\ MessagesResponse_Serialize(m) = fl[n]
  BY <1>3, <1>5 DEF MessagesResponse_Pieces, Flattened
<1> DEFINE r(k) == [messages |-> SubSeq(rows, 1, k)]
           P(k) == \A t \in Encoded : M(MessagesResponse_New, fl[k] \o t) = M(r(k), t)
           T == {k \in Nat : k <= n => P(k)}
<1>7. /\ r(0) = MessagesResponse_New /\ r(n) = m
      /\ \A k \in Nat : k + 1 <= n
           => SubSeq(rows, 1, k + 1) = Append(SubSeq(rows, 1, k), rows[k + 1])
  BY <1>4, <1>5, FirstRows DEF MessagesResponse_New
<1>8. 0 \in T
  <2>1. ASSUME NEW t \in Encoded PROVE M(MessagesResponse_New, fl[0] \o t) = M(r(0), t)
    <3>1. fl[0] \o t = t
      BY <1>6, NothingAround
    <3> QED
      BY <1>7, <3>1, Zenon
  <2> QED
    BY <2>1
<1>9. ASSUME NEW k \in Nat, k \in T PROVE k + 1 \in T
  <2> SUFFICES ASSUME k + 1 <= n, NEW t \in Encoded
               PROVE  M(MessagesResponse_New, fl[k + 1] \o t) = M(r(k + 1), t)
    OBVIOUS
  <2>1. /\ k + 1 \in 1..n /\ (k + 1) - 1 = k /\ k \in 0..n /\ k <= n
    BY <1>5
  <2>2. PICK a, b : a = fl[k] /\ b = ss[k + 1]
    OBVIOUS
  <2>3. a \in Encoded /\ b \in Encoded /\ fl[k + 1] = a \o b
    BY <1>5, <1>6, <2>1, <2>2
  <2>4. PICK v \in MessageToRecieve : v = rows[k + 1]
    BY <1>5, <2>1
  <2>5. PICK x, f : x = MessageToRecieve_Serialize(v) /\ f = [tag |-> 10, value |-> x]
    OBVIOUS
  <2>6. IsWritten(b, f)
    <3>1. b = WriteMessage(1, MessageToRecieve_ByteSize(v), x)
      BY <1>3, <1>4, <1>5, <2>1, <2>2, <2>4, <2>5 DEF MessagesResponse_Pieces
    <3>2. Encodes(x, MessageToRecieve_ByteSize(v))
      BY <2>5, MessageToRecieve_Size
    <3> QED
      BY <2>5, <3>1, <3>2, MessageField
  <2>7. PICK p, q : q = r(k) /\ p = r(k + 1)
    OBVIOUS
  <2>8. q # Failure
    BY <2>7 DEF Failure
  <2>9. MessagesResponse_MergePartial(q, f) = p
    <3>1. Merged(MessageToRecieve_MergePartial, MessageToRecieve_New, x) = v
      BY <2>5, MessageToRecieve_RoundTrip, Zenon
    <3>2. f.tag = 10 /\ f.value = x
      BY <2>5
    <3>3. MessagesResponse_MergePartial(q, f)
              = ReadRow(q, "messages",
                  Merged(MessageToRecieve_MergePartial, MessageToRecieve_New, x))
      BY <3>2 DEF MessagesResponse_MergePartial
    <3>4. v # Failure
      BY MessageToRecieve_NoFailure
    <3>5. ReadRow(q, "messages", v) = [messages |-> Append(SubSeq(rows, 1, k), v)]
      BY <2>7, <3>4 DEF ReadRow
    <3>6. SubSeq(rows, 1, k + 1) = Append(SubSeq(rows, 1, k), v)
      BY <1>7, <2>4
    <3> QED
      BY <2>7, <3>1, <3>3, <3>5, <3>6
  <2>10. PICK u : u = b \o t
    OBVIOUS
  <2>11. u \in Encoded /\ (a \o b) \o t = a \o u
    BY <2>3, <2>10, Concat, Regroup
  <2>12. M(MessagesResponse_New, a \o u) = M(q, u)
    BY <1>9, <2>1, <2>2, <2>7, <2>11
  <2>13. M(q, b \o t) = M(MessagesResponse_MergePartial(q, f), t)
    BY <1>1, <2>6, <2>8, Zenon
  <2> QED
    BY <2>3, <2>7, <2>9, <2>10, <2>11, <2>12, <2>13, Zenon
<1> HIDE DEF T
<1>10. Nat \subseteq T
  BY <1>8, <1>9, Induction
<1>11. M(MessagesResponse_New, fl[n] \o <<>>) = M(m, <<>>)
  <2>1. P(n)
    BY <1>5, <1>10 DEF T
  <2>2. M(MessagesResponse_New, fl[n] \o <<>>) = M(r(n), <<>>)
    BY <2>1, NoBytes
  <2> QED
    BY <1>7, <2>2, Zenon
<1>12. fl[n] \o <<>> = fl[n]
  BY <1>5, <1>6, NothingAround
<1> QED
  BY <1>2, <1>6, <1>11, <1>12, Zenon DEF M

\* An object of MessagesResponse is not what a failed parse returns.
LEMMA MessagesResponse_NoFailure == Failure \notin MessagesResponse
  BY DEF Failure, MessagesResponse

ChatsResponse_A == INSTANCE Folding WITH Op <- ChatsResponse_add

\* Adding the rows one by one makes the list of them.
LEMMA ChatsResponse_Added ==
  \A rows \in Seq(Chat) :
      FoldLeft(ChatsResponse_add, ChatsResponse_New, rows) = [chats |-> rows]
<1> SUFFICES ASSUME NEW rows \in Seq(Chat)
             PROVE  FoldLeft(ChatsResponse_add, ChatsResponse_New, rows) = [chats |-> rows]
  OBVIOUS
<1> DEFINE r == [k \in 0..Len(rows) |-> [chats |-> SubSeq(rows, 1, k)]]
<1>1. ChatsResponse_A!Induction
  BY Induction DEF ChatsResponse_A!Induction
<1>2. FoldLeft(ChatsResponse_add, ChatsResponse_New, rows)
          = ChatsResponse_A!Fold(ChatsResponse_New, rows)
  BY DEF ChatsResponse_A!Fold, FoldLeft, MapThenFoldSet, ChatsResponse_A!MapThenFoldSet,
         Max, ChatsResponse_A!Greatest
<1>3. Len(rows) \in Nat
  BY LenProperties
<1>4. r[0] = ChatsResponse_New /\ r[Len(rows)] = [chats |-> rows]
  BY <1>3, FirstRows DEF ChatsResponse_New
<1>5. ASSUME NEW k \in 1..Len(rows) PROVE r[k] = ChatsResponse_add(r[k - 1], rows[k])
  <2>1. PICK j \in Nat : k = j + 1 /\ j = k - 1 /\ j + 1 <= Len(rows)
    BY <1>3
  <2>2. SubSeq(rows, 1, k) = Append(SubSeq(rows, 1, j), rows[k])
    BY <2>1, FirstRows
  <2>3. j \in 0..Len(rows) /\ k \in 0..Len(rows)
    BY <1>3, <2>1
  <2>4. r[k] = [chats |-> SubSeq(rows, 1, k)] /\ r[k - 1] = [chats |-> SubSeq(rows, 1, j)]
    BY <2>1, <2>3
  <2>5. ASSUME NEW q, NEW a, NEW c, q = [chats |-> a]
        PROVE  ChatsResponse_add(q, c) = [chats |-> Append(a, c)]
    <3>1. ChatsResponse_add(q, c) = [q EXCEPT !.chats = Append(q.chats, c)] /\ q.chats = a
      BY <2>5 DEF ChatsResponse_add
    <3> QED
      BY <2>5, <3>1
  <2> HIDE DEF r
  <2>6. ChatsResponse_add(r[k - 1], rows[k]) = [chats |-> Append(SubSeq(rows, 1, j), rows[k])]
    BY <2>4, <2>5
  <2> QED
    BY <2>2, <2>4, <2>6
<1> HIDE DEF r
<1>6. ChatsResponse_A!Fold(ChatsResponse_New, rows) = r[Len(rows)]
  BY <1>1, <1>4, <1>5, ChatsResponse_A!FoldTrace
<1> QED
  BY <1>2, <1>4, <1>6

ContactsResponse_A == INSTANCE Folding WITH Op <- ContactsResponse_add

\* Adding the rows one by one makes the list of them.
LEMMA ContactsResponse_Added ==
  \A rows \in Seq(Contact) :
      FoldLeft(ContactsResponse_add, ContactsResponse_New, rows) = [contacts |-> rows]
<1> SUFFICES ASSUME NEW rows \in Seq(Contact)
             PROVE  FoldLeft(ContactsResponse_add, ContactsResponse_New, rows)
                        = [contacts |-> rows]
  OBVIOUS
<1> DEFINE r == [k \in 0..Len(rows) |-> [contacts |-> SubSeq(rows, 1, k)]]
<1>1. ContactsResponse_A!Induction
  BY Induction DEF ContactsResponse_A!Induction
<1>2. FoldLeft(ContactsResponse_add, ContactsResponse_New, rows)
          = ContactsResponse_A!Fold(ContactsResponse_New, rows)
  BY DEF ContactsResponse_A!Fold, FoldLeft, MapThenFoldSet, ContactsResponse_A!MapThenFoldSet,
         Max, ContactsResponse_A!Greatest
<1>3. Len(rows) \in Nat
  BY LenProperties
<1>4. r[0] = ContactsResponse_New /\ r[Len(rows)] = [contacts |-> rows]
  BY <1>3, FirstRows DEF ContactsResponse_New
<1>5. ASSUME NEW k \in 1..Len(rows) PROVE r[k] = ContactsResponse_add(r[k - 1], rows[k])
  <2>1. PICK j \in Nat : k = j + 1 /\ j = k - 1 /\ j + 1 <= Len(rows)
    BY <1>3
  <2>2. SubSeq(rows, 1, k) = Append(SubSeq(rows, 1, j), rows[k])
    BY <2>1, FirstRows
  <2>3. j \in 0..Len(rows) /\ k \in 0..Len(rows)
    BY <1>3, <2>1
  <2>4. r[k] = [contacts |-> SubSeq(rows, 1, k)] /\ r[k - 1] = [contacts |-> SubSeq(rows, 1, j)]
    BY <2>1, <2>3
  <2>5. ASSUME NEW q, NEW a, NEW c, q = [contacts |-> a]
        PROVE  ContactsResponse_add(q, c) = [contacts |-> Append(a, c)]
    <3>1. ContactsResponse_add(q, c) = [q EXCEPT !.contacts = Append(q.contacts, c)]
          /\ q.contacts = a
      BY <2>5 DEF ContactsResponse_add
    <3> QED
      BY <2>5, <3>1
  <2> HIDE DEF r
  <2>6. ContactsResponse_add(r[k - 1], rows[k])
            = [contacts |-> Append(SubSeq(rows, 1, j), rows[k])]
    BY <2>4, <2>5
  <2> QED
    BY <2>2, <2>4, <2>6
<1> HIDE DEF r
<1>6. ContactsResponse_A!Fold(ContactsResponse_New, rows) = r[Len(rows)]
  BY <1>1, <1>4, <1>5, ContactsResponse_A!FoldTrace
<1> QED
  BY <1>2, <1>4, <1>6

MessagesResponse_A == INSTANCE Folding WITH Op <- MessagesResponse_add

\* Adding the rows one by one makes the list of them.
LEMMA MessagesResponse_Added ==
  \A rows \in Seq(MessageToRecieve) :
      FoldLeft(MessagesResponse_add, MessagesResponse_New, rows) = [messages |-> rows]
<1> SUFFICES ASSUME NEW rows \in Seq(MessageToRecieve)
             PROVE  FoldLeft(MessagesResponse_add, MessagesResponse_New, rows)
                        = [messages |-> rows]
  OBVIOUS
<1> DEFINE r == [k \in 0..Len(rows) |-> [messages |-> SubSeq(rows, 1, k)]]
<1>1. MessagesResponse_A!Induction
  BY Induction DEF MessagesResponse_A!Induction
<1>2. FoldLeft(MessagesResponse_add, MessagesResponse_New, rows)
          = MessagesResponse_A!Fold(MessagesResponse_New, rows)
  BY DEF MessagesResponse_A!Fold, FoldLeft, MapThenFoldSet, MessagesResponse_A!MapThenFoldSet,
         Max, MessagesResponse_A!Greatest
<1>3. Len(rows) \in Nat
  BY LenProperties
<1>4. r[0] = MessagesResponse_New /\ r[Len(rows)] = [messages |-> rows]
  BY <1>3, FirstRows DEF MessagesResponse_New
<1>5. ASSUME NEW k \in 1..Len(rows) PROVE r[k] = MessagesResponse_add(r[k - 1], rows[k])
  <2>1. PICK j \in Nat : k = j + 1 /\ j = k - 1 /\ j + 1 <= Len(rows)
    BY <1>3
  <2>2. SubSeq(rows, 1, k) = Append(SubSeq(rows, 1, j), rows[k])
    BY <2>1, FirstRows
  <2>3. j \in 0..Len(rows) /\ k \in 0..Len(rows)
    BY <1>3, <2>1
  <2>4. r[k] = [messages |-> SubSeq(rows, 1, k)] /\ r[k - 1] = [messages |-> SubSeq(rows, 1, j)]
    BY <2>1, <2>3
  <2>5. ASSUME NEW q, NEW a, NEW c, q = [messages |-> a]
        PROVE  MessagesResponse_add(q, c) = [messages |-> Append(a, c)]
    <3>1. MessagesResponse_add(q, c) = [q EXCEPT !.messages = Append(q.messages, c)]
          /\ q.messages = a
      BY <2>5 DEF MessagesResponse_add
    <3> QED
      BY <2>5, <3>1
  <2> HIDE DEF r
  <2>6. MessagesResponse_add(r[k - 1], rows[k])
            = [messages |-> Append(SubSeq(rows, 1, j), rows[k])]
    BY <2>4, <2>5
  <2> QED
    BY <2>2, <2>4, <2>6
<1> HIDE DEF r
<1>6. MessagesResponse_A!Fold(MessagesResponse_New, rows) = r[Len(rows)]
  BY <1>1, <1>4, <1>5, MessagesResponse_A!FoldTrace
<1> QED
  BY <1>2, <1>4, <1>6

Response_P == INSTANCE Folding WITH Op <- LAMBDA m, f : Checked(Response_MergePartial, m, f)

\* The parser of Response reads field by field.
LEMMA Response_Reads == Reads(Response_MergePartial)
<1>1. Response_P!Induction
  BY Induction DEF Response_P!Induction
<1>2. \A m, s : Merged(Response_MergePartial, m, s) = Response_P!Fold(m, Fields[s])
  BY DEF Merged, Checked, Response_P!Fold, FoldLeft, MapThenFoldSet, Response_P!MapThenFoldSet,
         Max, Response_P!Greatest
<1>3. \A m : \A f \in AnyField, u \in Seq(AnyField) :
         Response_P!Fold(m, <<f>> \o u)
             = Response_P!Fold(Checked(Response_MergePartial, m, f), u)
  BY <1>1, Response_P!FoldFront
<1>4. \A m : Merged(Response_MergePartial, m, <<>>) = m
  BY <1>1, <1>2, Response_P!FoldEmpty, FieldsEmpty
<1> SUFFICES ASSUME NEW m, NEW b, NEW f, NEW t \in Encoded, m # Failure /\ IsWritten(b, f)
             PROVE  Merged(Response_MergePartial, m, b \o t)
                      = Merged(Response_MergePartial, Response_MergePartial(m, f), t)
  BY <1>4, Zenon DEF Reads
<1>5. PICK u \in Seq(AnyField) : u = Fields[t] /\ Fields[b \o t] = <<f>> \o u
  BY FirstField
<1>6. f \in AnyField /\ Checked(Response_MergePartial, m, f) = Response_MergePartial(m, f)
  BY FieldIsNoFailure DEF Checked
<1>7. Response_P!Fold(m, <<f>> \o u) = Response_P!Fold(Response_MergePartial(m, f), u)
  BY <1>3, <1>6, Zenon
<1> QED
  BY <1>2, <1>5, <1>7, Zenon

\* Response takes the bytes that it announces, whatever its member.
LEMMA Response_Size == \A m \in Response : Encodes(Response_Serialize(m), Response_ByteSize(m))
<1> SUFFICES ASSUME NEW m \in Response
             PROVE Encodes(Response_Serialize(m), Response_ByteSize(m))
  OBVIOUS
<1>1. CASE m = NotSet
  BY <1>1, NoBytes DEF Encodes, Response_Serialize, Response_ByteSize, NotSet
<1>2. CASE m \in [case : {"status_response"}, value : StatusResponse]
  <2>1. PICK x, size : x = StatusResponse_Serialize(m.value)
        /\ size = StatusResponse_ByteSize(m.value)
    OBVIOUS
  <2>2. Response_Serialize(m) = WriteMessage(1, size, x)
        /\ Response_ByteSize(m) = MessageSize(size)
    BY <1>2, <2>1 DEF Response_Serialize, Response_ByteSize, NotSet
  <2>3. Encodes(x, size)
    BY <1>2, <2>1, StatusResponse_Size
  <2>4. Encodes(WriteMessage(1, size, x), MessageSize(size))
    BY <2>3, MemberSize, 1 \in 1..15, Zenon
  <2> QED
    BY <2>2, <2>4, Zenon
<1>3. CASE m \in [case : {"chats_response"}, value : ChatsResponse]
  <2>1. PICK x, size : x = ChatsResponse_Serialize(m.value)
        /\ size = ChatsResponse_ByteSize(m.value)
    OBVIOUS
  <2>2. Response_Serialize(m) = WriteMessage(2, size, x)
        /\ Response_ByteSize(m) = MessageSize(size)
    BY <1>3, <2>1 DEF Response_Serialize, Response_ByteSize, NotSet
  <2>3. Encodes(x, size)
    BY <1>3, <2>1, ChatsResponse_Size
  <2>4. Encodes(WriteMessage(2, size, x), MessageSize(size))
    BY <2>3, MemberSize, 2 \in 1..15, Zenon
  <2> QED
    BY <2>2, <2>4, Zenon
<1>4. CASE m \in [case : {"contacts_response"}, value : ContactsResponse]
  <2>1. PICK x, size : x = ContactsResponse_Serialize(m.value)
        /\ size = ContactsResponse_ByteSize(m.value)
    OBVIOUS
  <2>2. Response_Serialize(m) = WriteMessage(3, size, x)
        /\ Response_ByteSize(m) = MessageSize(size)
    BY <1>4, <2>1 DEF Response_Serialize, Response_ByteSize, NotSet
  <2>3. Encodes(x, size)
    BY <1>4, <2>1, ContactsResponse_Size
  <2>4. Encodes(WriteMessage(3, size, x), MessageSize(size))
    BY <2>3, MemberSize, 3 \in 1..15, Zenon
  <2> QED
    BY <2>2, <2>4, Zenon
<1>5. CASE m \in [case : {"messages_response"}, value : MessagesResponse]
  <2>1. PICK x, size : x = MessagesResponse_Serialize(m.value)
        /\ size = MessagesResponse_ByteSize(m.value)
    OBVIOUS
  <2>2. Response_Serialize(m) = WriteMessage(4, size, x)
        /\ Response_ByteSize(m) = MessageSize(size)
    BY <1>5, <2>1 DEF Response_Serialize, Response_ByteSize, NotSet
  <2>3. Encodes(x, size)
    BY <1>5, <2>1, MessagesResponse_Size
  <2>4. Encodes(WriteMessage(4, size, x), MessageSize(size))
    BY <2>3, MemberSize, 4 \in 1..15, Zenon
  <2> QED
    BY <2>2, <2>4, Zenon
<1>6. CASE m \in [case : {"login_response"}, value : LoginResponse]
  <2>1. PICK x, size : x = LoginResponse_Serialize(m.value)
        /\ size = LoginResponse_ByteSize(m.value)
    OBVIOUS
  <2>2. Response_Serialize(m) = WriteMessage(5, size, x)
        /\ Response_ByteSize(m) = MessageSize(size)
    BY <1>6, <2>1 DEF Response_Serialize, Response_ByteSize, NotSet
  <2>3. Encodes(x, size)
    BY <1>6, <2>1, LoginResponse_Size
  <2>4. Encodes(WriteMessage(5, size, x), MessageSize(size))
    BY <2>3, MemberSize, 5 \in 1..15, Zenon
  <2> QED
    BY <2>2, <2>4, Zenon
<1> QED
  BY <1>1, <1>2, <1>3, <1>4, <1>5, <1>6 DEF Response

\* Response is read back with the member that was written, or with none.
LEMMA Response_RoundTrip ==
  \A m \in Response : Merged(Response_MergePartial, Response_New, Response_Serialize(m)) = m
<1> SUFFICES ASSUME NEW m \in Response
             PROVE  Merged(Response_MergePartial, Response_New, Response_Serialize(m)) = m
  OBVIOUS
<1>1. Response_New = NotSet /\ NotSet # Failure
  BY DEF Response_New, NotSet, Failure
<1>2. CASE m = NotSet
  <2>1. Response_Serialize(m) = <<>>
    BY <1>2 DEF Response_Serialize, NotSet
  <2> QED
    BY <1>1, <1>2, <2>1, Response_Reads, Zenon DEF Reads
<1>3. ASSUME NEW f, IsWritten(Response_Serialize(m), f), Response_MergePartial(NotSet, f) = m
      PROVE  Merged(Response_MergePartial, Response_New, Response_Serialize(m)) = m
  <2>1. PICK b \in Encoded : b = Response_Serialize(m) /\ b \o <<>> = b
    BY <1>3, NothingAround DEF IsWritten
  <2>2. Merged(Response_MergePartial, NotSet, b \o <<>>)
            = Merged(Response_MergePartial, m, <<>>)
    <3>1. \A u, g : \A t \in Encoded : NotSet # Failure /\ IsWritten(u, g)
            => Merged(Response_MergePartial, NotSet, u \o t)
                 = Merged(Response_MergePartial, Response_MergePartial(NotSet, g), t)
      BY Response_Reads DEF Reads
    <3> QED
      BY <1>1, <1>3, <2>1, <3>1, NoBytes, Zenon
  <2>3. Merged(Response_MergePartial, m, <<>>) = m
    BY Response_Reads DEF Reads
  <2> QED
    BY <1>1, <2>1, <2>2, <2>3, Zenon
<1>4. CASE m \in [case : {"status_response"}, value : StatusResponse]
  <2>1. PICK v \in StatusResponse : m = [case |-> "status_response", value |-> v]
    BY <1>4
  <2>2. PICK x, f : x = StatusResponse_Serialize(v) /\ f = [tag |-> 10, value |-> x]
    OBVIOUS
  <2>3. IsWritten(Response_Serialize(m), f)
    <3>1. Response_Serialize(m) = WriteMessage(1, StatusResponse_ByteSize(v), x)
      BY <2>1, <2>2 DEF Response_Serialize, NotSet
    <3>2. Encodes(x, StatusResponse_ByteSize(v))
      BY <2>2, StatusResponse_Size
    <3> QED
      BY <2>2, <3>1, <3>2, MessageField
  <2>4. Response_MergePartial(NotSet, f) = m
    <3>1. Mutable(NotSet, "status_response", StatusResponse_New) = StatusResponse_New
      BY DEF Mutable, NotSet
    <3>2. Merged(StatusResponse_MergePartial,
              Mutable(NotSet, "status_response", StatusResponse_New), x) = v
      BY <2>2, <3>1, StatusResponse_RoundTrip, Zenon
    <3>3. f.tag = 10 /\ f.value = x
      BY <2>2
    <3>4. Response_MergePartial(NotSet, f)
            = ReadMember("status_response",
                Merged(StatusResponse_MergePartial,
                    Mutable(NotSet, "status_response", StatusResponse_New), x))
      BY <3>3 DEF Response_MergePartial, Response_mutable_status_response
    <3>5. v # Failure
      BY StatusResponse_NoFailure
    <3> QED
      BY <2>1, <3>2, <3>4, <3>5 DEF ReadMember
  <2> QED
    BY <1>3, <2>3, <2>4
<1>5. CASE m \in [case : {"chats_response"}, value : ChatsResponse]
  <2>1. PICK v \in ChatsResponse : m = [case |-> "chats_response", value |-> v]
    BY <1>5
  <2>2. PICK x, f : x = ChatsResponse_Serialize(v) /\ f = [tag |-> 18, value |-> x]
    OBVIOUS
  <2>3. IsWritten(Response_Serialize(m), f)
    <3>1. Response_Serialize(m) = WriteMessage(2, ChatsResponse_ByteSize(v), x)
      BY <2>1, <2>2 DEF Response_Serialize, NotSet
    <3>2. Encodes(x, ChatsResponse_ByteSize(v))
      BY <2>2, ChatsResponse_Size
    <3> QED
      BY <2>2, <3>1, <3>2, MessageField
  <2>4. Response_MergePartial(NotSet, f) = m
    <3>1. Mutable(NotSet, "chats_response", ChatsResponse_New) = ChatsResponse_New
      BY DEF Mutable, NotSet
    <3>2. Merged(ChatsResponse_MergePartial,
              Mutable(NotSet, "chats_response", ChatsResponse_New), x) = v
      BY <2>2, <3>1, ChatsResponse_RoundTrip, Zenon
    <3>3. f.tag = 18 /\ f.value = x
      BY <2>2
    <3>4. Response_MergePartial(NotSet, f)
            = ReadMember("chats_response",
                Merged(ChatsResponse_MergePartial,
                    Mutable(NotSet, "chats_response", ChatsResponse_New), x))
      BY <3>3 DEF Response_MergePartial, Response_mutable_chats_response
    <3>5. v # Failure
      BY ChatsResponse_NoFailure
    <3> QED
      BY <2>1, <3>2, <3>4, <3>5 DEF ReadMember
  <2> QED
    BY <1>3, <2>3, <2>4
<1>6. CASE m \in [case : {"contacts_response"}, value : ContactsResponse]
  <2>1. PICK v \in ContactsResponse : m = [case |-> "contacts_response", value |-> v]
    BY <1>6
  <2>2. PICK x, f : x = ContactsResponse_Serialize(v) /\ f = [tag |-> 26, value |-> x]
    OBVIOUS
  <2>3. IsWritten(Response_Serialize(m), f)
    <3>1. Response_Serialize(m) = WriteMessage(3, ContactsResponse_ByteSize(v), x)
      BY <2>1, <2>2 DEF Response_Serialize, NotSet
    <3>2. Encodes(x, ContactsResponse_ByteSize(v))
      BY <2>2, ContactsResponse_Size
    <3> QED
      BY <2>2, <3>1, <3>2, MessageField
  <2>4. Response_MergePartial(NotSet, f) = m
    <3>1. Mutable(NotSet, "contacts_response", ContactsResponse_New) = ContactsResponse_New
      BY DEF Mutable, NotSet
    <3>2. Merged(ContactsResponse_MergePartial,
              Mutable(NotSet, "contacts_response", ContactsResponse_New), x) = v
      BY <2>2, <3>1, ContactsResponse_RoundTrip, Zenon
    <3>3. f.tag = 26 /\ f.value = x
      BY <2>2
    <3>4. Response_MergePartial(NotSet, f)
            = ReadMember("contacts_response",
                Merged(ContactsResponse_MergePartial,
                    Mutable(NotSet, "contacts_response", ContactsResponse_New), x))
      BY <3>3 DEF Response_MergePartial, Response_mutable_contacts_response
    <3>5. v # Failure
      BY ContactsResponse_NoFailure
    <3> QED
      BY <2>1, <3>2, <3>4, <3>5 DEF ReadMember
  <2> QED
    BY <1>3, <2>3, <2>4
<1>7. CASE m \in [case : {"messages_response"}, value : MessagesResponse]
  <2>1. PICK v \in MessagesResponse : m = [case |-> "messages_response", value |-> v]
    BY <1>7
  <2>2. PICK x, f : x = MessagesResponse_Serialize(v) /\ f = [tag |-> 34, value |-> x]
    OBVIOUS
  <2>3. IsWritten(Response_Serialize(m), f)
    <3>1. Response_Serialize(m) = WriteMessage(4, MessagesResponse_ByteSize(v), x)
      BY <2>1, <2>2 DEF Response_Serialize, NotSet
    <3>2. Encodes(x, MessagesResponse_ByteSize(v))
      BY <2>2, MessagesResponse_Size
    <3> QED
      BY <2>2, <3>1, <3>2, MessageField
  <2>4. Response_MergePartial(NotSet, f) = m
    <3>1. Mutable(NotSet, "messages_response", MessagesResponse_New) = MessagesResponse_New
      BY DEF Mutable, NotSet
    <3>2. Merged(MessagesResponse_MergePartial,
              Mutable(NotSet, "messages_response", MessagesResponse_New), x) = v
      BY <2>2, <3>1, MessagesResponse_RoundTrip, Zenon
    <3>3. f.tag = 34 /\ f.value = x
      BY <2>2
    <3>4. Response_MergePartial(NotSet, f)
            = ReadMember("messages_response",
                Merged(MessagesResponse_MergePartial,
                    Mutable(NotSet, "messages_response", MessagesResponse_New), x))
      BY <3>3 DEF Response_MergePartial, Response_mutable_messages_response
    <3>5. v # Failure
      BY MessagesResponse_NoFailure
    <3> QED
      BY <2>1, <3>2, <3>4, <3>5 DEF ReadMember
  <2> QED
    BY <1>3, <2>3, <2>4
<1>8. CASE m \in [case : {"login_response"}, value : LoginResponse]
  <2>1. PICK v \in LoginResponse : m = [case |-> "login_response", value |-> v]
    BY <1>8
  <2>2. PICK x, f : x = LoginResponse_Serialize(v) /\ f = [tag |-> 42, value |-> x]
    OBVIOUS
  <2>3. IsWritten(Response_Serialize(m), f)
    <3>1. Response_Serialize(m) = WriteMessage(5, LoginResponse_ByteSize(v), x)
      BY <2>1, <2>2 DEF Response_Serialize, NotSet
    <3>2. Encodes(x, LoginResponse_ByteSize(v))
      BY <2>2, LoginResponse_Size
    <3> QED
      BY <2>2, <3>1, <3>2, MessageField
  <2>4. Response_MergePartial(NotSet, f) = m
    <3>1. Mutable(NotSet, "login_response", LoginResponse_New) = LoginResponse_New
      BY DEF Mutable, NotSet
    <3>2. Merged(LoginResponse_MergePartial,
              Mutable(NotSet, "login_response", LoginResponse_New), x) = v
      BY <2>2, <3>1, LoginResponse_RoundTrip, Zenon
    <3>3. f.tag = 42 /\ f.value = x
      BY <2>2
    <3>4. Response_MergePartial(NotSet, f)
            = ReadMember("login_response",
                Merged(LoginResponse_MergePartial,
                    Mutable(NotSet, "login_response", LoginResponse_New), x))
      BY <3>3 DEF Response_MergePartial, Response_mutable_login_response
    <3>5. v # Failure
      BY LoginResponse_NoFailure
    <3> QED
      BY <2>1, <3>2, <3>4, <3>5 DEF ReadMember
  <2> QED
    BY <1>3, <2>3, <2>4
<1> QED
  BY <1>2, <1>4, <1>5, <1>6, <1>7, <1>8 DEF Response

\* An object of Response is not what a failed parse returns.
LEMMA Response_NoFailure == Failure \notin Response
  BY DEF Failure, Response, NotSet

WrappedMessage_P == INSTANCE Folding
    WITH Op <- LAMBDA m, f : Checked(WrappedMessage_MergePartial, m, f)

\* The parser of WrappedMessage reads field by field.
LEMMA WrappedMessage_Reads == Reads(WrappedMessage_MergePartial)
<1>1. WrappedMessage_P!Induction
  BY Induction DEF WrappedMessage_P!Induction
<1>2. \A m, s : Merged(WrappedMessage_MergePartial, m, s) = WrappedMessage_P!Fold(m, Fields[s])
  BY DEF Merged, Checked, WrappedMessage_P!Fold, FoldLeft, MapThenFoldSet,
     WrappedMessage_P!MapThenFoldSet,
         Max, WrappedMessage_P!Greatest
<1>3. \A m : \A f \in AnyField, u \in Seq(AnyField) :
         WrappedMessage_P!Fold(m, <<f>> \o u)
             = WrappedMessage_P!Fold(Checked(WrappedMessage_MergePartial, m, f), u)
  BY <1>1, WrappedMessage_P!FoldFront
<1>4. \A m : Merged(WrappedMessage_MergePartial, m, <<>>) = m
  BY <1>1, <1>2, WrappedMessage_P!FoldEmpty, FieldsEmpty
<1> SUFFICES ASSUME NEW m, NEW b, NEW f, NEW t \in Encoded, m # Failure /\ IsWritten(b, f)
             PROVE  Merged(WrappedMessage_MergePartial, m, b \o t)
                      = Merged(WrappedMessage_MergePartial, WrappedMessage_MergePartial(m, f),
                          t)
  BY <1>4, Zenon DEF Reads
<1>5. PICK u \in Seq(AnyField) : u = Fields[t] /\ Fields[b \o t] = <<f>> \o u
  BY FirstField
<1>6. f \in AnyField
      /\ Checked(WrappedMessage_MergePartial, m, f) = WrappedMessage_MergePartial(m, f)
  BY FieldIsNoFailure DEF Checked
<1>7. WrappedMessage_P!Fold(m, <<f>> \o u)
          = WrappedMessage_P!Fold(WrappedMessage_MergePartial(m, f), u)
  BY <1>3, <1>6, Zenon
<1> QED
  BY <1>2, <1>5, <1>7, Zenon

\* WrappedMessage takes the bytes that it announces, whatever its member.
THEOREM WrappedMessage_Size ==
  \A m \in WrappedMessage : Encodes(WrappedMessage_Serialize(m), WrappedMessage_ByteSize(m))
<1> SUFFICES ASSUME NEW m \in WrappedMessage
             PROVE Encodes(WrappedMessage_Serialize(m), WrappedMessage_ByteSize(m))
  OBVIOUS
<1>1. CASE m = NotSet
  BY <1>1, NoBytes DEF Encodes, WrappedMessage_Serialize, WrappedMessage_ByteSize, NotSet
<1>2. CASE m \in [case : {"response"}, value : Response]
  <2>1. PICK x, size : x = Response_Serialize(m.value) /\ size = Response_ByteSize(m.value)
    OBVIOUS
  <2>2. WrappedMessage_Serialize(m) = WriteMessage(1, size, x)
        /\ WrappedMessage_ByteSize(m) = MessageSize(size)
    BY <1>2, <2>1 DEF WrappedMessage_Serialize, WrappedMessage_ByteSize, NotSet
  <2>3. Encodes(x, size)
    BY <1>2, <2>1, Response_Size
  <2>4. Encodes(WriteMessage(1, size, x), MessageSize(size))
    BY <2>3, MemberSize, 1 \in 1..15, Zenon
  <2> QED
    BY <2>2, <2>4, Zenon
<1>3. CASE m \in [case : {"request"}, value : Request]
  <2>1. PICK x, size : x = Request_Serialize(m.value) /\ size = Request_ByteSize(m.value)
    OBVIOUS
  <2>2. WrappedMessage_Serialize(m) = WriteMessage(2, size, x)
        /\ WrappedMessage_ByteSize(m) = MessageSize(size)
    BY <1>3, <2>1 DEF WrappedMessage_Serialize, WrappedMessage_ByteSize, NotSet
  <2>3. Encodes(x, size)
    BY <1>3, <2>1, Request_Size
  <2>4. Encodes(WriteMessage(2, size, x), MessageSize(size))
    BY <2>3, MemberSize, 2 \in 1..15, Zenon
  <2> QED
    BY <2>2, <2>4, Zenon
<1> QED
  BY <1>1, <1>2, <1>3 DEF WrappedMessage

\* WrappedMessage is read back with the member that was written, or with none.
THEOREM WrappedMessage_RoundTrip ==
  \A m \in WrappedMessage :
      Merged(WrappedMessage_MergePartial, WrappedMessage_New, WrappedMessage_Serialize(m)) = m
<1> SUFFICES ASSUME NEW m \in WrappedMessage
             PROVE  Merged(WrappedMessage_MergePartial, WrappedMessage_New,
                        WrappedMessage_Serialize(m)) = m
  OBVIOUS
<1>1. WrappedMessage_New = NotSet /\ NotSet # Failure
  BY DEF WrappedMessage_New, NotSet, Failure
<1>2. CASE m = NotSet
  <2>1. WrappedMessage_Serialize(m) = <<>>
    BY <1>2 DEF WrappedMessage_Serialize, NotSet
  <2> QED
    BY <1>1, <1>2, <2>1, WrappedMessage_Reads, Zenon DEF Reads
<1>3. ASSUME NEW f, IsWritten(WrappedMessage_Serialize(m), f),
                 WrappedMessage_MergePartial(NotSet, f) = m
      PROVE  Merged(WrappedMessage_MergePartial, WrappedMessage_New,
                 WrappedMessage_Serialize(m)) = m
  <2>1. PICK b \in Encoded : b = WrappedMessage_Serialize(m) /\ b \o <<>> = b
    BY <1>3, NothingAround DEF IsWritten
  <2>2. Merged(WrappedMessage_MergePartial, NotSet, b \o <<>>)
            = Merged(WrappedMessage_MergePartial, m, <<>>)
    <3>1. \A u, g : \A t \in Encoded : NotSet # Failure /\ IsWritten(u, g)
            => Merged(WrappedMessage_MergePartial, NotSet, u \o t)
                 = Merged(WrappedMessage_MergePartial, WrappedMessage_MergePartial(NotSet, g),
                     t)
      BY WrappedMessage_Reads DEF Reads
    <3> QED
      BY <1>1, <1>3, <2>1, <3>1, NoBytes, Zenon
  <2>3. Merged(WrappedMessage_MergePartial, m, <<>>) = m
    BY WrappedMessage_Reads DEF Reads
  <2> QED
    BY <1>1, <2>1, <2>2, <2>3, Zenon
<1>4. CASE m \in [case : {"response"}, value : Response]
  <2>1. PICK v \in Response : m = [case |-> "response", value |-> v]
    BY <1>4
  <2>2. PICK x, f : x = Response_Serialize(v) /\ f = [tag |-> 10, value |-> x]
    OBVIOUS
  <2>3. IsWritten(WrappedMessage_Serialize(m), f)
    <3>1. WrappedMessage_Serialize(m) = WriteMessage(1, Response_ByteSize(v), x)
      BY <2>1, <2>2 DEF WrappedMessage_Serialize, NotSet
    <3>2. Encodes(x, Response_ByteSize(v))
      BY <2>2, Response_Size
    <3> QED
      BY <2>2, <3>1, <3>2, MessageField
  <2>4. WrappedMessage_MergePartial(NotSet, f) = m
    <3>1. Mutable(NotSet, "response", Response_New) = Response_New
      BY DEF Mutable, NotSet
    <3>2. Merged(Response_MergePartial, Mutable(NotSet, "response", Response_New), x) = v
      BY <2>2, <3>1, Response_RoundTrip, Zenon
    <3>3. f.tag = 10 /\ f.value = x
      BY <2>2
    <3>4. WrappedMessage_MergePartial(NotSet, f)
            = ReadMember("response",
                Merged(Response_MergePartial, Mutable(NotSet, "response", Response_New), x))
      BY <3>3 DEF WrappedMessage_MergePartial
    <3>5. v # Failure
      BY Response_NoFailure
    <3> QED
      BY <2>1, <3>2, <3>4, <3>5 DEF ReadMember
  <2> QED
    BY <1>3, <2>3, <2>4
<1>5. CASE m \in [case : {"request"}, value : Request]
  <2>1. PICK v \in Request : m = [case |-> "request", value |-> v]
    BY <1>5
  <2>2. PICK x, f : x = Request_Serialize(v) /\ f = [tag |-> 18, value |-> x]
    OBVIOUS
  <2>3. IsWritten(WrappedMessage_Serialize(m), f)
    <3>1. WrappedMessage_Serialize(m) = WriteMessage(2, Request_ByteSize(v), x)
      BY <2>1, <2>2 DEF WrappedMessage_Serialize, NotSet
    <3>2. Encodes(x, Request_ByteSize(v))
      BY <2>2, Request_Size
    <3> QED
      BY <2>2, <3>1, <3>2, MessageField
  <2>4. WrappedMessage_MergePartial(NotSet, f) = m
    <3>1. Mutable(NotSet, "request", Request_New) = Request_New
      BY DEF Mutable, NotSet
    <3>2. Merged(Request_MergePartial, Mutable(NotSet, "request", Request_New), x) = v
      BY <2>2, <3>1, Request_RoundTrip, Zenon
    <3>3. f.tag = 18 /\ f.value = x
      BY <2>2
    <3>4. WrappedMessage_MergePartial(NotSet, f)
            = ReadMember("request",
                Merged(Request_MergePartial, Mutable(NotSet, "request", Request_New), x))
      BY <3>3 DEF WrappedMessage_MergePartial
    <3>5. v # Failure
      BY Request_NoFailure
    <3> QED
      BY <2>1, <3>2, <3>4, <3>5 DEF ReadMember
  <2> QED
    BY <1>3, <2>3, <2>4
<1> QED
  BY <1>2, <1>4, <1>5 DEF WrappedMessage

\* An object of WrappedMessage is not what a failed parse returns.
LEMMA WrappedMessage_NoFailure == Failure \notin WrappedMessage
  BY DEF Failure, WrappedMessage, NotSet

-----------------------------------------------------------------------------
(***************************************************************************)
(* The length prefix and the frame.                                        *)
(***************************************************************************)

Prefix(n) == LengthPrefix_Serialize(LengthPrefix_set(LengthPrefix_New, n))

\* The nine bytes of a length are a field with the tag 9.
LEMMA PrefixWritten ==
  ASSUME NEW n \in Nat, n # 0, n <= INT_MAX
  PROVE  /\ IsWritten(Prefix(n), [tag |-> 9, value |-> n])
         /\ Len(Prefix(n)) = PREFIX_SIZE
         /\ LengthPrefix_ByteSize(LengthPrefix_set(LengthPrefix_New, n)) = PREFIX_SIZE
<1>1. LengthPrefix_set(LengthPrefix_New, n).length = n
  BY DEF LengthPrefix_set, LengthPrefix_New
<1>2. PICK b : b = Fixed64(n)
  OBVIOUS
<1>3. Prefix(n) = <<9>> \o b
  BY <1>1, <1>2 DEF Prefix, LengthPrefix_Serialize
<1>4. b \in Encoded /\ Len(b) = 8
  BY <1>2, Fixed64RoundTrip
<1>5. IsValue(1, b, n)
  BY <1>2, Fixed64Value
<1>6. 9 \in 8..127 /\ 9 % 8 = 1
  OBVIOUS
<1>7. IsField(<<9>> \o b, [tag |-> 9, value |-> n])
  BY <1>4, <1>5, <1>6, TagAndValue
<1>8. /\ <<9>> \o b \in Encoded /\ <<9>> \o b # <<>> /\ Len(<<9>> \o b) = 1 + Len(b)
  BY <1>4, <1>6, TagAndBytes
<1>9. [tag |-> 9, value |-> n] \in Field
  BY <1>6, WrittenField
<1>10. LengthPrefix_ByteSize(LengthPrefix_set(LengthPrefix_New, n)) = 1 + 8
  BY <1>1 DEF LengthPrefix_ByteSize
<1> QED
  BY <1>3, <1>4, <1>7, <1>8, <1>9, <1>10 DEF IsWritten, PREFIX_SIZE

LengthPrefix_P == INSTANCE Folding
    WITH Op <- LAMBDA m, f : Checked(LengthPrefix_MergePartial, m, f)

\* The parser of LengthPrefix reads field by field.
LEMMA LengthPrefix_Reads == Reads(LengthPrefix_MergePartial)
<1>1. LengthPrefix_P!Induction
  BY Induction DEF LengthPrefix_P!Induction
<1>2. \A m, s : Merged(LengthPrefix_MergePartial, m, s) = LengthPrefix_P!Fold(m, Fields[s])
  BY DEF Merged, Checked, LengthPrefix_P!Fold, FoldLeft, MapThenFoldSet,
     LengthPrefix_P!MapThenFoldSet,
         Max, LengthPrefix_P!Greatest
<1>3. \A m : \A f \in AnyField, u \in Seq(AnyField) :
         LengthPrefix_P!Fold(m, <<f>> \o u)
             = LengthPrefix_P!Fold(Checked(LengthPrefix_MergePartial, m, f), u)
  BY <1>1, LengthPrefix_P!FoldFront
<1>4. \A m : Merged(LengthPrefix_MergePartial, m, <<>>) = m
  BY <1>1, <1>2, LengthPrefix_P!FoldEmpty, FieldsEmpty
<1> SUFFICES ASSUME NEW m, NEW b, NEW f, NEW t \in Encoded, m # Failure /\ IsWritten(b, f)
             PROVE  Merged(LengthPrefix_MergePartial, m, b \o t)
                      = Merged(LengthPrefix_MergePartial, LengthPrefix_MergePartial(m, f), t)
  BY <1>4, Zenon DEF Reads
<1>5. PICK u \in Seq(AnyField) : u = Fields[t] /\ Fields[b \o t] = <<f>> \o u
  BY FirstField
<1>6. f \in AnyField
      /\ Checked(LengthPrefix_MergePartial, m, f) = LengthPrefix_MergePartial(m, f)
  BY FieldIsNoFailure DEF Checked
<1>7. LengthPrefix_P!Fold(m, <<f>> \o u)
          = LengthPrefix_P!Fold(LengthPrefix_MergePartial(m, f), u)
  BY <1>3, <1>6, Zenon
<1> QED
  BY <1>2, <1>5, <1>7, Zenon

\* A length is read back from its prefix.
LEMMA PrefixParsed ==
  ASSUME NEW n \in Nat, n # 0, n <= INT_MAX
  PROVE  ParsePrefix(Prefix(n)) = [length |-> n]
<1>1. PICK b, f : b = Prefix(n) /\ f = [tag |-> 9, value |-> n]
  OBVIOUS
<1>2. IsWritten(b, f)
  BY <1>1, PrefixWritten
<1>3. b \in Encoded /\ b \o <<>> = b
  BY <1>2, NothingAround DEF IsWritten
<1>4. LengthPrefix_New # Failure
  BY DEF LengthPrefix_New, Failure
<1>5. LengthPrefix_MergePartial(LengthPrefix_New, f) = [length |-> n]
  BY <1>1 DEF LengthPrefix_MergePartial, LengthPrefix_New
<1>6. \A x, u, g : \A t \in Encoded : x # Failure /\ IsWritten(u, g)
         => Merged(LengthPrefix_MergePartial, x, u \o t)
              = Merged(LengthPrefix_MergePartial, LengthPrefix_MergePartial(x, g), t)
  BY LengthPrefix_Reads DEF Reads
<1>7. Merged(LengthPrefix_MergePartial, LengthPrefix_New, b \o <<>>)
        = Merged(LengthPrefix_MergePartial, LengthPrefix_MergePartial(LengthPrefix_New, f),
            <<>>)
  BY <1>2, <1>4, <1>6, NoBytes, Zenon
<1>8. Merged(LengthPrefix_MergePartial, [length |-> n], <<>>) = [length |-> n]
  BY LengthPrefix_Reads DEF Reads
<1> QED
  BY <1>1, <1>3, <1>5, <1>7, <1>8, Zenon DEF ParsePrefix

\* Serialising the length and then the message, each into its place, fills the
\* whole buffer.
LEMMA Filled ==
  ASSUME NEW p \in Encoded, NEW b \in Encoded, Len(p) = PREFIX_SIZE,
         NEW buffer, DOMAIN buffer = 1..(Len(b) + PREFIX_SIZE)
  PROVE  SerializeToArray(SerializeToArray(buffer, 0, PREFIX_SIZE, PREFIX_SIZE, p),
                          PREFIX_SIZE, Len(b), Len(b), b) = p \o b
<1>1. /\ Len(b) \in Nat /\ DOMAIN b = 1..Len(b) /\ DOMAIN p = 1..9
      /\ Len(p) = 9 /\ PREFIX_SIZE = 9
  BY LenProperties DEF Encoded, PREFIX_SIZE
<1>2. PICK n, q : n = Len(b) + 9 /\ q = SerializeToArray(buffer, 0, PREFIX_SIZE, PREFIX_SIZE, p)
  OBVIOUS
<1>3. q = [i \in 1..n |-> IF i - 0 \in 1..9 THEN p[i - 0] ELSE buffer[i]]
  BY <1>1, <1>2 DEF SerializeToArray
<1>4. DOMAIN q = 1..n /\ \A i \in 1..9 : i \in 1..n => q[i] = p[i]
  BY <1>3
<1>5. PICK z : z = SerializeToArray(q, PREFIX_SIZE, Len(b), Len(b), b)
  OBVIOUS
<1>6. z = [i \in 1..n |-> IF i - 9 \in 1..Len(b) THEN b[i - 9] ELSE q[i]]
  BY <1>1, <1>4, <1>5 DEF SerializeToArray
<1>7. PICK c : c = p \o b
  OBVIOUS
<1>8. /\ c \in Encoded /\ Len(c) = n /\ n \in Nat
      /\ \A i \in 1..n : c[i] = IF i <= 9 THEN p[i] ELSE b[i - 9]
  <2>1. PICK S : S = 0..255
    OBVIOUS
  <2>2. p \in Seq(S) /\ b \in Seq(S)
    BY <2>1 DEF Encoded
  <2>3. /\ c \in Seq(S) /\ Len(c) = Len(p) + Len(b)
        /\ \A i \in 1..(Len(p) + Len(b)) : c[i] = IF i <= Len(p) THEN p[i] ELSE b[i - Len(p)]
    BY <1>7, <2>2, ConcatProperties
  <2>4. Len(p) + Len(b) = n /\ n \in Nat
    BY <1>1, <1>2
  <2> QED
    BY <1>1, <2>1, <2>3, <2>4 DEF Encoded
<1>9. ASSUME NEW i \in 1..n PROVE z[i] = c[i]
  <2>1. CASE i <= 9
    <3>1. ~(i - 9 \in 1..Len(b)) /\ i \in 1..9
      BY <1>1, <1>2, <2>1
    <3> QED
      BY <1>4, <1>6, <1>8, <2>1, <3>1
  <2>2. CASE ~(i <= 9)
    <3>1. i - 9 \in 1..Len(b)
      BY <1>1, <1>2, <2>2
    <3> QED
      BY <1>6, <1>8, <2>2, <3>1
  <2> QED
    BY <2>1, <2>2
<1>10. z = c
  <2>1. DOMAIN c = 1..n /\ DOMAIN z = 1..n
    BY <1>6, <1>8 DEF Encoded
  <2>2. c = [i \in 1..n |-> c[i]]
    BY <1>8, <2>1 DEF Encoded
  <2> QED
    BY <1>6, <1>9, <2>2
<1> QED
  BY <1>1, <1>2, <1>5, <1>7, <1>10

Body(c, v) == WrappedMessage_Serialize([case |-> c, value |-> v])

Framed(c, v) == Prefix(Len(Body(c, v))) \o Body(c, v)

\* The message c = v gets to the other end: it is sent as its length and its
\* bytes, and both are read as what they were.
Travels(c, v) ==
    /\ Body(c, v) \in Encoded /\ Len(Body(c, v)) \in Nat
    /\ Framed(c, v) \in Encoded /\ Len(Framed(c, v)) >= PREFIX_SIZE
    /\ Frame([case |-> c, value |-> v]) = Framed(c, v)
    /\ Read(Framed(c, v), PREFIX_SIZE) \in Encoded
    /\ ParsePrefix(Read(Framed(c, v), PREFIX_SIZE)) = [length |-> Len(Body(c, v))]
    /\ Rest(Framed(c, v), PREFIX_SIZE) = Body(c, v)
    /\ ParseMessage(Read(Body(c, v), Len(Body(c, v)))) = [case |-> c, value |-> v]
    /\ Rest(Body(c, v), Len(Body(c, v))) = <<>>

\* Every message that holds something and whose size is an int does.
LEMMA MessageTravels ==
  ASSUME NEW c \in {"request", "response"}, NEW v,
         [case |-> c, value |-> v] \in WrappedMessage,
         WrappedMessage_ByteSize([case |-> c, value |-> v]) <= INT_MAX,
         WrappedMessage_ByteSize([case |-> c, value |-> v]) # 0
  PROVE  Travels(c, v)
<1>1. PICK m \in WrappedMessage : m = [case |-> c, value |-> v]
  OBVIOUS
<1>2. PICK b, n : b = Body(c, v) /\ n = Len(b)
  OBVIOUS
<1>3. b \in Encoded /\ n \in Nat /\ WrappedMessage_ByteSize(m) = n
  BY <1>1, <1>2, WrappedMessage_Size DEF Body, Encodes
<1>4. n # 0 /\ n <= INT_MAX
  BY <1>1, <1>3
<1>5. PICK p : p = Prefix(n)
  OBVIOUS
<1>6. /\ p \in Encoded /\ Len(p) = PREFIX_SIZE
      /\ LengthPrefix_ByteSize(LengthPrefix_set(LengthPrefix_New, n)) = PREFIX_SIZE
  BY <1>3, <1>4, <1>5, PrefixWritten DEF IsWritten
<1>7. ParsePrefix(p) = [length |-> n]
  BY <1>3, <1>4, <1>5, PrefixParsed
<1>8. ParseMessage(b) = m
  BY <1>1, <1>2, WrappedMessage_RoundTrip DEF Body, ParseMessage
<1>9. PICK s : s = p \o b
  OBVIOUS
<1>10. Frame(m) = s
  <2>1. PICK buffer : buffer = [i \in 1..(n + PREFIX_SIZE) |-> Stale]
    OBVIOUS
  <2>2. DOMAIN buffer = 1..(Len(b) + PREFIX_SIZE)
    BY <1>2, <2>1
  <2>3. SerializeToArray(SerializeToArray(buffer, 0, PREFIX_SIZE, PREFIX_SIZE, p),
                         PREFIX_SIZE, n, n, b) = s
    BY <1>2, <1>3, <1>6, <1>9, <2>2, Filled
  <2>4. Frame(m) = SerializeToArray(
                      SerializeToArray([i \in 1..(n + PREFIX_SIZE) |-> Stale], 0, PREFIX_SIZE,
                          LengthPrefix_ByteSize(LengthPrefix_set(LengthPrefix_New, n)), p),
                      PREFIX_SIZE, n, n, b)
    BY <1>1, <1>2, <1>3, <1>5, Zenon DEF Frame, Body, Prefix
  <2> QED
    BY <1>6, <2>1, <2>3, <2>4, Zenon
<1>11. s \in Encoded /\ Len(s) >= PREFIX_SIZE
  <2>1. s \in Encoded /\ Len(s) = Len(p) + Len(b)
    BY <1>3, <1>6, <1>9, Concat
  <2>2. Len(s) = PREFIX_SIZE + n
    BY <1>2, <1>6, <2>1
  <2> QED
    BY <1>3, <2>1, <2>2 DEF PREFIX_SIZE
<1>12. Read(s, PREFIX_SIZE) = p /\ Rest(s, PREFIX_SIZE) = b
  <2>1. SubSeq(s, 1, Len(p)) = p /\ SubSeq(s, Len(p) + 1, Len(s)) = b
    BY <1>3, <1>6, <1>9, CutConcat
  <2> QED
    BY <1>6, <2>1, Zenon DEF Read, Rest
<1>13. Read(b, n) = b /\ Rest(b, n) = <<>>
  <2>1. b \o <<>> = b
    BY <1>3, NothingAround
  <2>2. SubSeq(b \o <<>>, 1, Len(b)) = b /\ SubSeq(b \o <<>>, Len(b) + 1, Len(b \o <<>>)) = <<>>
    BY <1>3, NoBytes, CutConcat
  <2> QED
    BY <1>2, <2>1, <2>2, Zenon DEF Read, Rest
<1>14. s = Framed(c, v)
  BY <1>2, <1>5, <1>9 DEF Framed
<1> QED
  BY <1>1, <1>2, <1>3, <1>6, <1>7, <1>8, <1>10, <1>11, <1>12, <1>13, <1>14, Zenon DEF Travels

\* A message that is a member is never of size zero.
LEMMA MessageIsNotEmpty ==
  \A x, size : Encodes(x, size) => MessageSize(size) \in Nat /\ MessageSize(size) # 0
<1> SUFFICES ASSUME NEW x, NEW size, Encodes(x, size)
             PROVE  MessageSize(size) \in Nat /\ MessageSize(size) # 0
  OBVIOUS
<1>1. size \in Nat
  BY DEF Encodes
<1>2. Varint[size] \in Encoded
  BY <1>1, VarintType
<1>3. Len(Varint[size]) \in Nat
  BY <1>2, Concat
<1> QED
  BY <1>1, <1>3 DEF MessageSize, VarintSize

\* Every request gets to the server.
LEMMA RequestTravels == \A r \in Request : Travels("request", r)
<1> SUFFICES ASSUME NEW r \in Request PROVE Travels("request", r)
  OBVIOUS
<1>1. PICK m : m = [case |-> "request", value |-> r]
  OBVIOUS
<1>2. m \in WrappedMessage
  BY <1>1 DEF WrappedMessage
<1>3. WrappedMessage_ByteSize(m) = MessageSize(Request_ByteSize(r))
  BY <1>1 DEF WrappedMessage_ByteSize
<1>4. WrappedMessage_ByteSize(m) \in Nat /\ WrappedMessage_ByteSize(m) # 0
  BY <1>3, Request_Size, MessageIsNotEmpty
<1>5. WrappedMessage_ByteSize(m) + PREFIX_SIZE <= INT_MAX
  BY <1>1, SizesAssumption
<1>6. WrappedMessage_ByteSize(m) <= INT_MAX
  BY <1>4, <1>5 DEF PREFIX_SIZE, INT_MAX
<1> QED
  BY <1>1, <1>2, <1>4, <1>6, MessageTravels

-----------------------------------------------------------------------------
(***************************************************************************)
(* What the jobs answer.                                                   *)
(***************************************************************************)

\* A bounded list of rows is a list of rows.
LEMMA RowsAreSequence ==
  ASSUME NEW S, NEW V, S \subseteq V, NEW rows \in SeqOf(S, MaxRows)
  PROVE  rows \in Seq(V)
<1>1. PICK k \in 0..MaxRows : rows \in [1..k -> S]
  BY DEF SeqOf
<1>2. k \in Nat
  BY MaxRowsAssumption
<1>3. rows \in [1..k -> V]
  BY <1>1
<1> QED
  BY <1>2, <1>3, IsSequence

\* The rows that a query's results are made into are objects of their classes.
LEMMA RowTypes ==
  ChatRows \subseteq Chat /\ ContactRows \subseteq Contact
  /\ MessageRows \subseteq MessageToRecieve
<1>1. \A id \in Ids, title \in Texts : Chat_set(Chat_New, id, title) \in Chat
  BY DEF Chat, Chat_set, Chat_New
<1>2. \A id \in Ids, name \in Texts, email \in Texts :
         Contact_set(Contact_New, id, name, email) \in Contact
  BY DEF Contact, Contact_set, Contact_New
<1>3. \A id \in Ids, text \in Texts :
         MessageToRecieve_set(MessageToRecieve_New, id, text) \in MessageToRecieve
  BY DEF MessageToRecieve, MessageToRecieve_set, MessageToRecieve_New
<1>4. ChatRows \subseteq Chat
  BY <1>1 DEF ChatRows
<1>5. ContactRows \subseteq Contact
  BY <1>2 DEF ContactRows
<1>6. MessageRows \subseteq MessageToRecieve
  BY <1>3 DEF MessageRows
<1> QED
  BY <1>4, <1>5, <1>6

\* Every answer is an object of Response.
LEMMA AnswersAreResponses == AllAnswers \subseteq Response
<1>1. StatusAnswers \subseteq Response
  BY DEF StatusAnswers, Response, Response_set_allocated_status_response, StatusResponse,
         StatusResponse_set, StatusResponse_New
<1>2. LoginAnswers \subseteq Response
  <2>1. ASSUME NEW profile \in ContactRows
        PROVE  LoginResponse_set_allocated_profile(LoginResponse_New, profile) \in LoginResponse
    BY RowTypes DEF LoginResponse, LoginResponse_set_allocated_profile
  <2>2. LoginResponse_New \in LoginResponse
    BY DEF LoginResponse, LoginResponse_New
  <2> QED
    BY <2>1, <2>2 DEF LoginAnswers, Response, Response_set_allocated_login_response
<1>3. ChatsAnswers \subseteq Response
  <2> SUFFICES ASSUME NEW rows \in SeqOf(ChatRows, MaxRows)
               PROVE  Response_set_allocated_chats_response(Response_New,
                          FoldLeft(ChatsResponse_add, ChatsResponse_New, rows)) \in Response
    BY Zenon DEF ChatsAnswers
  <2>1. rows \in Seq(Chat)
    BY RowTypes, RowsAreSequence
  <2>2. FoldLeft(ChatsResponse_add, ChatsResponse_New, rows) \in ChatsResponse
    BY <2>1, ChatsResponse_Added DEF ChatsResponse
  <2> QED
    BY <2>2 DEF Response, Response_set_allocated_chats_response
<1>4. ContactsAnswers \subseteq Response
  <2> SUFFICES ASSUME NEW rows \in SeqOf(ContactRows, MaxRows)
               PROVE  Response_set_allocated_contacts_response(Response_New,
                          FoldLeft(ContactsResponse_add, ContactsResponse_New,
                              rows)) \in Response
    BY Zenon DEF ContactsAnswers
  <2>1. rows \in Seq(Contact)
    BY RowTypes, RowsAreSequence
  <2>2. FoldLeft(ContactsResponse_add, ContactsResponse_New, rows) \in ContactsResponse
    BY <2>1, ContactsResponse_Added DEF ContactsResponse
  <2> QED
    BY <2>2 DEF Response, Response_set_allocated_contacts_response
<1>5. MessagesAnswers \subseteq Response
  <2> SUFFICES ASSUME NEW rows \in SeqOf(MessageRows, MaxRows)
               PROVE  Response_set_allocated_messages_response(Response_New,
                          FoldLeft(MessagesResponse_add, MessagesResponse_New,
                              rows)) \in Response
    BY Zenon DEF MessagesAnswers
  <2>1. rows \in Seq(MessageToRecieve)
    BY RowTypes, RowsAreSequence
  <2>2. FoldLeft(MessagesResponse_add, MessagesResponse_New, rows) \in MessagesResponse
    BY <2>1, MessagesResponse_Added DEF MessagesResponse
  <2> QED
    BY <2>2 DEF Response, Response_set_allocated_messages_response
<1>6. Empty \subseteq Response
  BY DEF Empty, Response_New, Response
<1> QED
  BY <1>1, <1>2, <1>3, <1>4, <1>5, <1>6 DEF AllAnswers

\* A job answers with one of them.
LEMMA JobsAnswer == \A r \in Request \ {NotSet} : Answers(r) \subseteq AllAnswers
  BY DEF Request, Answers, AllAnswers

\* Every answer gets to the client.
LEMMA ResponseTravels == \A r \in AllAnswers : Travels("response", r)
<1> SUFFICES ASSUME NEW r \in AllAnswers PROVE Travels("response", r)
  OBVIOUS
<1>1. PICK m : m = [case |-> "response", value |-> r]
  OBVIOUS
<1>2. m \in WrappedMessage /\ r \in Response
  BY <1>1, AnswersAreResponses DEF WrappedMessage
<1>3. WrappedMessage_ByteSize(m) = MessageSize(Response_ByteSize(r))
  BY <1>1 DEF WrappedMessage_ByteSize
<1>4. WrappedMessage_ByteSize(m) \in Nat /\ WrappedMessage_ByteSize(m) # 0
  BY <1>2, <1>3, Response_Size, MessageIsNotEmpty
<1>5. WrappedMessage_ByteSize(m) + PREFIX_SIZE <= INT_MAX
  BY <1>1, SizesAssumption
<1>6. WrappedMessage_ByteSize(m) <= INT_MAX
  BY <1>4, <1>5 DEF PREFIX_SIZE, INT_MAX
<1> QED
  BY <1>1, <1>2, <1>4, <1>6, MessageTravels

-----------------------------------------------------------------------------
(***************************************************************************)
(* The inductive invariant: a connection goes round through six phases, in *)
(* each of which it is known byte by byte what the two streams hold.       *)
(***************************************************************************)

\* The client waits for the answer to a request of its factory.
Asking == request \in Request \ {NotSet} /\ delivered = None

\* The client has nothing outstanding: it has just started, or the response of
\* the last request has been delivered.
Idle ==
    /\ request = None /\ received = None
    /\ response \in AllAnswers \cup {None} /\ delivered = response
    /\ toServer = <<>> /\ toClient = <<>> /\ serverSize = NoSize /\ clientSize = NoSize

\* The request is on its way, with its length in front of it.
RequestSent ==
    /\ Asking /\ received = None /\ response = None
    /\ toServer = Framed("request", request) /\ toClient = <<>>
    /\ serverSize = NoSize /\ clientSize = NoSize

\* The server has read the length.
RequestAnnounced ==
    /\ Asking /\ received = None /\ response = None
    /\ toServer = Body("request", request) /\ toClient = <<>>
    /\ serverSize = Len(Body("request", request)) /\ clientSize = NoSize

\* A job works on the request.
RequestReceived ==
    /\ Asking /\ received = request /\ response = None
    /\ toServer = <<>> /\ toClient = <<>> /\ serverSize = NoSize /\ clientSize = NoSize

\* The response is on its way back.
ResponseSent ==
    /\ Asking /\ received = None /\ response \in AllAnswers
    /\ toServer = <<>> /\ toClient = Framed("response", response)
    /\ serverSize = NoSize /\ clientSize = NoSize

\* The client has read its length.
ResponseAnnounced ==
    /\ Asking /\ received = None /\ response \in AllAnswers
    /\ toServer = <<>> /\ toClient = Body("response", response)
    /\ serverSize = NoSize /\ clientSize = Len(Body("response", response))

Inv ==
    /\ stopped = FALSE
    /\ \/ Idle
       \/ RequestSent \/ RequestAnnounced \/ RequestReceived
       \/ ResponseSent \/ ResponseAnnounced

\* What the variables hold when they hold nothing is no object and no size.
LEMMA NoneIsNoObject == None \notin Request /\ None \notin Response
<1>1. None \notin Request
  BY DEF None, Request, NotSet
<1>2. None \notin Response
  BY DEF None, Response, NotSet
<1> QED
  BY <1>1, <1>2

\* Nothing was read yet.
LEMMA NoSizeIsNoLength == NoSize \notin Nat
  BY DEF NoSize

\* A prefix that was parsed is not a failure.
LEMMA LengthIsNoFailure == \A n : [length |-> n] # Failure /\ [length |-> n].length = n
  BY DEF Failure

\* A message that was parsed is not one either, and has its member.
LEMMA MessageIsNoFailure ==
  \A c, v : /\ [case |-> c, value |-> v] # Failure
            /\ [case |-> c, value |-> v].value = v
            /\ WrappedMessage_has([case |-> c, value |-> v], c)
  BY DEF Failure, WrappedMessage_has

\* Session::request puts a request on its way when nothing is outstanding.
LEMMA SendRequestInv ==
  ASSUME Inv, NEW r \in Request \ {NotSet}, SendRequest(r)
  PROVE  Inv'
<1>1. Idle /\ ~stopped
  BY NoneIsNoObject DEF Inv, SendRequest, Asking, RequestSent, RequestAnnounced,
     RequestReceived, ResponseSent, ResponseAnnounced
<1>2. Travels("request", r)
  BY RequestTravels
<1>3. Frame(WrappedMessage_set_allocated(WrappedMessage_New, "request", r))
        = Framed("request", r)
  BY <1>2, Zenon DEF Travels, WrappedMessage_set_allocated
<1>4. toServer' = Framed("request", r)
  <2>1. toServer' = <<>> \o Framed("request", r)
    BY <1>1, <1>3, Zenon DEF SendRequest, Idle
  <2>2. Framed("request", r) \in Encoded
    BY <1>2, Zenon DEF Travels
  <2> QED
    BY <2>1, <2>2, NothingAround
<1>5. RequestSent'
  BY <1>1, <1>4 DEF SendRequest, Idle, RequestSent, Asking
<1> QED
  BY <1>1, <1>5 DEF Inv, SendRequest

\* The requests of the client's message factory are requests with a member.
LEMMA FactoryRequests ==
  /\ \A email, password \in Texts : createLoginRequest(email, password) \in Request \ {NotSet}
  /\ \A name, email, password \in Texts :
        createRegisterRequest(name, email, password) \in Request \ {NotSet}
  /\ createAllMyChatsRequest \in Request \ {NotSet}
  /\ createAllMyContactsRequest \in Request \ {NotSet}
  /\ \A chatId \in Ids : createLoadMessagesRequest(chatId) \in Request \ {NotSet}
  /\ \A chatId \in Ids, text \in Texts :
        createSendMessageRequest(chatId, text) \in Request \ {NotSet}
  /\ \A email \in Texts : createAddContactRequest(email) \in Request \ {NotSet}
  /\ \A friendId \in Ids : createCreateChatRequest(friendId) \in Request \ {NotSet}
<1>1. \A email, password \in Texts : createLoginRequest(email, password) \in Request \ {NotSet}
  BY DEF createLoginRequest, Request_set_allocated_login_request, LoginRequest_set,
     LoginRequest_New, LoginRequest, Request, NotSet
<1>2. \A name, email, password \in Texts :
        createRegisterRequest(name, email, password) \in Request \ {NotSet}
  BY DEF createRegisterRequest, Request_set_allocated_register_request, RegisterRequest_set,
     RegisterRequest_New, RegisterRequest, Request, NotSet
<1>3. createAllMyChatsRequest \in Request \ {NotSet}
  BY DEF createAllMyChatsRequest, Request_set_allocated_chats_request, AllMyChatsRequest_New,
     AllMyChatsRequest, Request, NotSet
<1>4. createAllMyContactsRequest \in Request \ {NotSet}
  BY DEF createAllMyContactsRequest, Request_set_allocated_contacts_request,
     AllMyContactsRequest_New, AllMyContactsRequest, Request, NotSet
<1>5. \A chatId \in Ids : createLoadMessagesRequest(chatId) \in Request \ {NotSet}
  BY DEF createLoadMessagesRequest, Request_set_allocated_messages_request,
     MessagesRequest_set, MessagesRequest_New, MessagesRequest, Request, NotSet
<1>6. \A chatId \in Ids, text \in Texts :
        createSendMessageRequest(chatId, text) \in Request \ {NotSet}
  BY DEF createSendMessageRequest, Request_set_allocated_send_mesg_request,
     SendMessageRequest_set_allocated_mesg, SendMessageRequest, MessageToSend_set,
     MessageToSend_New, MessageToSend, Request, NotSet
<1>7. \A email \in Texts : createAddContactRequest(email) \in Request \ {NotSet}
  BY DEF createAddContactRequest, Request_set_allocated_add_contact_request,
     AddContactRequest_set, AddContactRequest_New, AddContactRequest, Request, NotSet
<1>8. \A friendId \in Ids : createCreateChatRequest(friendId) \in Request \ {NotSet}
  BY DEF createCreateChatRequest, Request_set_allocated_create_chat_request,
     CreateChatRequest_set, CreateChatRequest_New, CreateChatRequest, Request, NotSet
<1> QED
  BY <1>1, <1>2, <1>3, <1>4, <1>5, <1>6, <1>7, <1>8

\* The server reads the length in front of a request.
LEMMA OnReadPrefixInv ==
  ASSUME Inv, OnReadPrefix
  PROVE  Inv'
<1>1. RequestSent /\ ~stopped
  <2>1. Len(toServer) >= PREFIX_SIZE /\ serverSize = NoSize
    BY DEF OnReadPrefix
  <2>2. toServer # <<>>
    BY <2>1, NoBytes DEF PREFIX_SIZE
  <2>3. ASSUME RequestAnnounced PROVE FALSE
    BY <2>1, <2>3, RequestTravels, NoSizeIsNoLength DEF RequestAnnounced, Asking, Travels
  <2> QED
    BY <2>2, <2>3 DEF Inv, Idle, RequestReceived, ResponseSent, ResponseAnnounced
<1>2. request \in Request /\ Travels("request", request)
  BY <1>1, RequestTravels DEF RequestSent, Asking
<1>3. PICK s, n : s = toServer /\ n = Len(Body("request", request))
  OBVIOUS
<1>4. /\ ParsePrefix(Read(s, PREFIX_SIZE)) = [length |-> n]
      /\ Rest(s, PREFIX_SIZE) = Body("request", request)
  BY <1>1, <1>2, <1>3, Zenon DEF RequestSent, Travels
<1>5. /\ toServer' = Body("request", request) /\ serverSize' = n /\ stopped' = FALSE
      /\ UNCHANGED <<toClient, clientSize, request, received, response, delivered>>
  BY <1>3, <1>4, LengthIsNoFailure, Zenon DEF OnReadPrefix
<1>6. RequestAnnounced'
  BY <1>1, <1>3, <1>5 DEF RequestSent, RequestAnnounced, Asking
<1> QED
  BY <1>5, <1>6 DEF Inv

\* The server reads the request and passes it to a job.
LEMMA ParseCommandInv ==
  ASSUME Inv, ParseCommand
  PROVE  Inv'
<1>1. RequestAnnounced /\ ~stopped
  BY DEF ParseCommand, Inv, Idle, RequestSent, RequestReceived, ResponseSent, ResponseAnnounced
<1>2. request \in Request /\ request # NotSet /\ Travels("request", request)
  BY <1>1, RequestTravels DEF RequestAnnounced, Asking
<1>3. PICK m : m = [case |-> "request", value |-> request]
  OBVIOUS
<1>4. /\ ParseMessage(Read(toServer, serverSize)) = m
      /\ Rest(toServer, serverSize) = <<>>
  BY <1>1, <1>2, <1>3, Zenon DEF RequestAnnounced, Travels
<1>5. m # Failure /\ WrappedMessage_has(m, "request") /\ m.value = request
  BY <1>3, MessageIsNoFailure, Zenon
<1>6. /\ toServer' = <<>> /\ serverSize' = NoSize /\ stopped' = FALSE /\ received' = request
      /\ UNCHANGED <<toClient, clientSize, request, response, delivered>>
  BY <1>2, <1>4, <1>5, Zenon DEF ParseCommand
<1>7. RequestReceived'
  BY <1>1, <1>6 DEF RequestAnnounced, RequestReceived, Asking
<1> QED
  BY <1>6, <1>7 DEF Inv

\* A job answers, and the response is written.
LEMMA AnswerInv ==
  ASSUME Inv, NEW r, Answer(r)
  PROVE  Inv'
<1>1. RequestReceived /\ ~stopped
  BY DEF Answer, Inv, Idle, RequestSent, RequestAnnounced, ResponseSent, ResponseAnnounced
<1>2. r \in AllAnswers /\ Travels("response", r)
  <2>1. received \in Request \ {NotSet} /\ r \in Answers(received)
    BY <1>1 DEF Answer, RequestReceived, Asking
  <2> QED
    BY <2>1, JobsAnswer, ResponseTravels
<1>3. Frame(WrappedMessage_set_allocated(WrappedMessage_New, "response", r))
        = Framed("response", r)
  BY <1>2, Zenon DEF Travels, WrappedMessage_set_allocated
<1>4. toClient' = Framed("response", r)
  <2>1. toClient' = <<>> \o Framed("response", r)
    BY <1>1, <1>3, Zenon DEF Answer, RequestReceived
  <2>2. Framed("response", r) \in Encoded
    BY <1>2, Zenon DEF Travels
  <2> QED
    BY <2>1, <2>2, NothingAround
<1>5. ResponseSent'
  BY <1>1, <1>2, <1>4 DEF Answer, RequestReceived, ResponseSent, Asking
<1> QED
  BY <1>1, <1>5 DEF Inv, Answer

\* The client reads the length in front of a response.
LEMMA ReadPrefixInv ==
  ASSUME Inv, ReadPrefix
  PROVE  Inv'
<1>1. ResponseSent /\ ~stopped
  <2>1. Len(toClient) >= PREFIX_SIZE /\ clientSize = NoSize
    BY DEF ReadPrefix
  <2>2. toClient # <<>>
    BY <2>1, NoBytes DEF PREFIX_SIZE
  <2>3. ASSUME ResponseAnnounced PROVE FALSE
    BY <2>1, <2>3, ResponseTravels, NoSizeIsNoLength DEF ResponseAnnounced, Travels
  <2> QED
    BY <2>2, <2>3 DEF Inv, Idle, RequestSent, RequestAnnounced, RequestReceived
<1>2. Travels("response", response)
  BY <1>1, ResponseTravels DEF ResponseSent
<1>3. PICK s, n : s = toClient /\ n = Len(Body("response", response))
  OBVIOUS
<1>4. /\ ParsePrefix(Read(s, PREFIX_SIZE)) = [length |-> n]
      /\ Rest(s, PREFIX_SIZE) = Body("response", response)
  BY <1>1, <1>2, <1>3, Zenon DEF ResponseSent, Travels
<1>5. /\ toClient' = Body("response", response) /\ clientSize' = n /\ stopped' = FALSE
      /\ UNCHANGED <<toServer, serverSize, request, received, response, delivered>>
  BY <1>3, <1>4, LengthIsNoFailure, Zenon DEF ReadPrefix
<1>6. ResponseAnnounced'
  BY <1>1, <1>3, <1>5 DEF ResponseSent, ResponseAnnounced, Asking
<1> QED
  BY <1>5, <1>6 DEF Inv

\* The copy of a login response that the login job works on is equal to it:
\* what is not copied is what has its default value in the copy already.
LEMMA CallbackIsGivenTheResponse == \A r \in Response : Callback(r) = r
<1> SUFFICES ASSUME NEW r \in Response PROVE Callback(r) = r
  OBVIOUS
<1>1. \A c \in Contact : Contact_MergeFrom(Contact_New, c) = c
  BY DEF Contact, Contact_MergeFrom, Contact_New
<1>2. \A c \in LoginResponse : LoginResponse_MergeFrom(LoginResponse_New, c) = c
  <2> SUFFICES ASSUME NEW c \in LoginResponse
               PROVE  LoginResponse_MergeFrom(LoginResponse_New, c) = c
    OBVIOUS
  <2>1. CASE c = NotSet
    BY <2>1 DEF LoginResponse_MergeFrom, LoginResponse_New
  <2>2. CASE c # NotSet
    <3>1. PICK profile \in Contact : c = [case |-> "profile", value |-> profile]
      BY <2>2 DEF LoginResponse
    <3>2. Mutable(LoginResponse_New, "profile", Contact_New) = Contact_New
      BY DEF Mutable, LoginResponse_New, NotSet
    <3> QED
      BY <1>1, <2>2, <3>1, <3>2 DEF LoginResponse_MergeFrom
  <2> QED
    BY <2>1, <2>2
<1>3. CASE r.case = "login_response"
  <2>1. PICK v \in LoginResponse : r = [case |-> "login_response", value |-> v]
    BY <1>3 DEF Response, NotSet
  <2> QED
    BY <1>2, <1>3, <2>1 DEF Callback
<1>4. CASE r.case # "login_response"
  BY <1>4 DEF Callback
<1> QED
  BY <1>3, <1>4

\* The client reads the response and delivers it.
LEMMA ReadMessageInv ==
  ASSUME Inv, ReadMessage
  PROVE  Inv'
<1>1. ResponseAnnounced /\ ~stopped
  BY DEF ReadMessage, Inv, Idle, RequestSent, RequestAnnounced, RequestReceived, ResponseSent
<1>2. response \in AllAnswers /\ Travels("response", response) /\ Callback(response) = response
  BY <1>1, ResponseTravels, AnswersAreResponses, CallbackIsGivenTheResponse
     DEF ResponseAnnounced
<1>3. PICK m : m = [case |-> "response", value |-> response]
  OBVIOUS
<1>4. /\ ParseMessage(Read(toClient, clientSize)) = m
      /\ Rest(toClient, clientSize) = <<>>
  BY <1>1, <1>2, <1>3, Zenon DEF ResponseAnnounced, Travels
<1>5. m # Failure /\ WrappedMessage_has(m, "response") /\ m.value = response
  BY <1>3, MessageIsNoFailure, Zenon
<1>6. /\ toClient' = <<>> /\ clientSize' = NoSize /\ stopped' = FALSE
      /\ delivered' = response /\ request' = None
      /\ UNCHANGED <<toServer, serverSize, received, response>>
  BY <1>2, <1>4, <1>5, Zenon DEF ReadMessage
<1>7. Idle'
  BY <1>1, <1>2, <1>6 DEF ResponseAnnounced, Idle, Asking
<1> QED
  BY <1>6, <1>7 DEF Inv

\* A step that changes nothing.
LEMMA StutterInv ==
  ASSUME Inv, UNCHANGED vars
  PROVE  Inv'
  BY DEF Inv, vars, Idle, RequestSent, RequestAnnounced, RequestReceived, ResponseSent,
     ResponseAnnounced, Asking

\* Between Session::request and the callback the connection goes through the
\* phases of Inv, whatever is sent: in each of them the two streams hold, byte
\* by byte, the message that is on its way and nothing else.
THEOREM PhasesFollow == Spec => []Inv
<1>1. Init => Inv
  BY DEF Init, Inv, Idle
<1>2. Inv /\ [Next]_vars => Inv'
  <2> SUFFICES ASSUME Inv, [Next]_vars PROVE Inv'
    OBVIOUS
  <2>1. ASSUME NEW email \in Texts, NEW password \in Texts, Login(email, password)
        PROVE  Inv'
    BY <2>1, SendRequestInv, FactoryRequests DEF Login
  <2>2. ASSUME NEW name \in Texts, NEW email \in Texts, NEW password \in Texts,
               Register(name, email, password)
        PROVE  Inv'
    BY <2>2, SendRequestInv, FactoryRequests DEF Register
  <2>3. CASE LoadChats
    BY <2>3, SendRequestInv, FactoryRequests DEF LoadChats
  <2>4. CASE LoadContacts
    BY <2>4, SendRequestInv, FactoryRequests DEF LoadContacts
  <2>5. ASSUME NEW chatId \in Ids, LoadMessages(chatId) PROVE Inv'
    BY <2>5, SendRequestInv, FactoryRequests DEF LoadMessages
  <2>6. ASSUME NEW chatId \in Ids, NEW text \in Texts, SendMessage(chatId, text) PROVE Inv'
    BY <2>6, SendRequestInv, FactoryRequests DEF SendMessage
  <2>7. ASSUME NEW email \in Texts, AddContact(email) PROVE Inv'
    BY <2>7, SendRequestInv, FactoryRequests DEF AddContact
  <2>8. ASSUME NEW friendId \in Ids, CreateChat(friendId) PROVE Inv'
    BY <2>8, SendRequestInv, FactoryRequests DEF CreateChat
  <2>9. CASE OnReadPrefix
    BY <2>9, OnReadPrefixInv
  <2>10. CASE ParseCommand
    BY <2>10, ParseCommandInv
  <2>11. ASSUME NEW r, Answer(r) PROVE Inv'
    BY <2>11, AnswerInv
  <2>12. CASE ReadPrefix
    BY <2>12, ReadPrefixInv
  <2>13. CASE ReadMessage
    BY <2>13, ReadMessageInv
  <2>14. CASE UNCHANGED vars
    BY <2>14, StutterInv
  <2> QED
    BY <2>1, <2>2, <2>3, <2>4, <2>5, <2>6, <2>7, <2>8, <2>9, <2>10, <2>11, <2>12, <2>13,
       <2>14 DEF Next
<1> QED
  BY <1>1, <1>2, PTL DEF Spec

\* A message with two more fields behind it, of numbers that the parser does
\* not know, is read as the message.
LEMMA UnknownFields ==
  ASSUME NEW row \in MessageToRecieve
  PROVE  Merged(MessageToRecieve_MergePartial, MessageToRecieve_New, WithPlannedFields(row))
             = row
<1> DEFINE M(x, s) == Merged(MessageToRecieve_MergePartial, x, s)
<1>0. M(row, <<>>) = row
  BY MessageToRecieve_Reads DEF Reads
<1>1. \A x, b, f : \A u \in Encoded : x # Failure /\ IsWritten(b, f)
         => M(x, b \o u) = M(MessageToRecieve_MergePartial(x, f), u)
  BY MessageToRecieve_Reads DEF Reads
<1>2. \A u \in Encoded :
          M(MessageToRecieve_New, MessageToRecieve_Serialize(row) \o u) = M(row, u)
  BY MessageToRecieve_Takes
<1> HIDE DEF M
<1>3. PICK b, w3, w4, f3, f4 :
        /\ b = MessageToRecieve_Serialize(row)
        /\ w3 = WriteUInt64(3, 200) /\ f3 = [tag |-> 24, value |-> 200]
        /\ w4 = WriteUInt64(4, 1) /\ f4 = [tag |-> 32, value |-> 1]
  OBVIOUS
<1>4. IsWritten(w3, f3) /\ IsWritten(w4, f4)
  BY <1>3, NumberWritten
<1>5. b \in Encoded /\ w3 \in Encoded /\ w4 \in Encoded
  BY <1>3, <1>4, MessageToRecieve_Size DEF Encodes, IsWritten
<1>6. /\ MessageToRecieve_MergePartial(row, f3) = row
      /\ MessageToRecieve_MergePartial(row, f4) = row
  BY <1>3 DEF MessageToRecieve_MergePartial
<1>7. row # Failure
  BY MessageToRecieve_NoFailure
<1>8. \A u \in Encoded : M(row, w3 \o u) = M(row, u) /\ M(row, w4 \o u) = M(row, u)
  <2> SUFFICES ASSUME NEW u \in Encoded
               PROVE  M(row, w3 \o u) = M(row, u) /\ M(row, w4 \o u) = M(row, u)
    OBVIOUS
  <2>1. M(row, w3 \o u) = M(row, u)
    <3>1. M(row, w3 \o u) = M(MessageToRecieve_MergePartial(row, f3), u)
      BY <1>1, <1>4, <1>7
    <3> QED
      BY <1>6, <3>1, Zenon
  <2>2. M(row, w4 \o u) = M(row, u)
    <3>1. M(row, w4 \o u) = M(MessageToRecieve_MergePartial(row, f4), u)
      BY <1>1, <1>4, <1>7
    <3> QED
      BY <1>6, <3>1, Zenon
  <2> QED
    BY <2>1, <2>2
<1>9. M(row, w3 \o w4) = row
  <2>1. M(row, w3 \o w4) = M(row, w4)
    BY <1>5, <1>8, Zenon
  <2>2. w4 \o <<>> = w4 /\ M(row, w4 \o <<>>) = M(row, <<>>)
    BY <1>5, <1>8, NoBytes, NothingAround, Zenon
  <2> QED
    BY <1>0, <2>1, <2>2, Zenon
<1>10. PICK u : u = w3 \o w4
  OBVIOUS
<1>11. u \in Encoded /\ (b \o w3) \o w4 = b \o u
  BY <1>5, <1>10, Concat, Regroup
<1>12. M(MessageToRecieve_New, b \o u) = row
  <2>1. M(MessageToRecieve_New, b \o u) = M(row, u)
    BY <1>2, <1>3, <1>11, Zenon
  <2> QED
    BY <1>9, <1>10, <2>1, Zenon
<1> QED
  BY <1>3, <1>11, <1>12, Zenon DEF WithPlannedFields, M

-----------------------------------------------------------------------------
(***************************************************************************)
(* The theorems.                                                           *)
(***************************************************************************)

\* The streams hold bytes and the objects are objects of the generated
\* classes, whatever ClientSession and Session read.
THEOREM TypeCorrect == Spec => []TypeOK
<1>1. Inv => TypeOK
  <2> SUFFICES ASSUME Inv PROVE TypeOK
    OBVIOUS
  <2>1. Encoded \subseteq Seq(0..Stale)
    <3>1. 0..255 \subseteq 0..Stale
      BY DEF Stale
    <3> QED
      BY <3>1, SeqMonotonic DEF Encoded
  <2>2. \A r \in Request : /\ Framed("request", r) \in Seq(0..Stale)
                           /\ Body("request", r) \in Seq(0..Stale)
                           /\ Len(Body("request", r)) \in Nat
    BY <2>1, RequestTravels DEF Travels
  <2>3. \A r \in AllAnswers : /\ Framed("response", r) \in Seq(0..Stale)
                              /\ Body("response", r) \in Seq(0..Stale)
                              /\ Len(Body("response", r)) \in Nat /\ r \in Response
    BY <2>1, ResponseTravels, AnswersAreResponses DEF Travels
  <2>4. <<>> \in Seq(0..Stale)
    BY <2>1, NoBytes
  <2> QED
    BY <2>2, <2>3, <2>4 DEF Inv, TypeOK, Idle, RequestSent, RequestAnnounced, RequestReceived,
       ResponseSent, ResponseAnnounced, Asking
<1> QED
  BY <1>1, PhasesFollow, PTL

\* What holds of a message that travels.
LEMMA TravellingHolds ==
  ASSUME NEW c, NEW v, Travels(c, v)
  PROVE  /\ Holds(Framed(c, v), NoSize, c, v)
         /\ Holds(Body(c, v), Len(Body(c, v)), c, v)
<1>1. PICK p : p = Read(Framed(c, v), PREFIX_SIZE)
  OBVIOUS
<1>2. Stale \notin ToSet(p)
  <2>1. p \in Encoded
    BY <1>1, Zenon DEF Travels
  <2>2. \A i \in DOMAIN p : p[i] \in 0..255
    <3>1. PICK S : S = 0..255
      OBVIOUS
    <3>2. p \in Seq(S)
      BY <2>1, <3>1, Zenon DEF Encoded
    <3>3. \A i \in DOMAIN p : p[i] \in S
      BY <3>2
    <3> QED
      BY <3>1, <3>3, Zenon
  <2> QED
    BY <2>2 DEF ToSet, Stale
<1>3. Rest(Framed(c, v), PREFIX_SIZE) = Body(c, v)
  BY Zenon DEF Travels
<1>4. Len(Body(c, v)) # NoSize
  BY NoSizeIsNoLength DEF Travels
<1>5. Holds(Framed(c, v), NoSize, c, v)
  BY <1>1, <1>2, <1>3, Zenon DEF Holds, Body
<1>6. Holds(Body(c, v), Len(Body(c, v)), c, v)
  BY <1>4, Zenon DEF Holds, Body
<1> QED
  BY <1>5, <1>6

\* The sizes of ByteSize are those of the bytes serialised, in every message of
\* both programs: what Session::request and ClientSession::write send is the
\* message, all of it, and nothing that was in the buffer before.
THEOREM OnlyTheMessageIsSent == Spec => []NothingStaleIsSent
<1>1. Inv => NothingStaleIsSent
  <2> SUFFICES ASSUME Inv PROVE NothingStaleIsSent
    OBVIOUS
  <2>1. \A r \in Request : /\ Holds(Framed("request", r), NoSize, "request", r)
                           /\ Holds(Body("request", r), Len(Body("request", r)), "request", r)
    BY RequestTravels, TravellingHolds
  <2>2. \A r \in AllAnswers :
           /\ Holds(Framed("response", r), NoSize, "response", r)
           /\ Holds(Body("response", r), Len(Body("response", r)), "response", r)
    BY ResponseTravels, TravellingHolds
  <2> QED
    BY <2>1, <2>2 DEF Inv, NothingStaleIsSent, Idle, RequestSent, RequestAnnounced,
       RequestReceived, ResponseSent, ResponseAnnounced, Asking
<1> QED
  BY <1>1, PhasesFollow, PTL

\* The job that ParseCommandJob starts is given the request that the client's
\* factory built, for all strings and identifiers.
THEOREM JobsGetTheRequest == Spec => []RequestArrives
<1>1. Inv => RequestArrives
  BY DEF Inv, RequestArrives, Idle, RequestSent, RequestAnnounced, RequestReceived,
     ResponseSent, ResponseAnnounced
<1> QED
  BY <1>1, PhasesFollow, PTL

\* The callback that Session::processResponse calls is given the response
\* that the job built, for lists of any number of rows.
THEOREM CallbacksGetTheResponse == Spec => []ResponseArrives
<1>1. Inv => ResponseArrives
  BY DEF Inv, ResponseArrives, Idle, RequestSent, RequestAnnounced, RequestReceived,
     ResponseSent, ResponseAnnounced, Asking
<1> QED
  BY <1>1, PhasesFollow, PTL

\* MessageToRecieve's parser skips the two fields that messages.proto plans.
THEOREM PlannedFieldsAreNoObstacle == Spec => []PlannedFieldsAreSkipped
<1>1. Inv => PlannedFieldsAreSkipped
  <2> SUFFICES ASSUME Inv, response # None, response.case = "messages_response",
                      NEW i \in DOMAIN response.value.messages
               PROVE  Merged(MessageToRecieve_MergePartial, MessageToRecieve_New,
                             WithPlannedFields(response.value.messages[i]))
                        = response.value.messages[i]
    BY DEF PlannedFieldsAreSkipped
  <2>1. response \in Response
    BY AnswersAreResponses DEF Inv, Idle, RequestSent, RequestAnnounced, RequestReceived,
       ResponseSent, ResponseAnnounced
  <2>2. PICK v \in MessagesResponse : response.value = v
    BY <2>1 DEF Response, NotSet
  <2>3. v.messages \in Seq(MessageToRecieve)
    BY <2>2 DEF MessagesResponse
  <2>4. response.value.messages[i] \in MessageToRecieve
    BY <2>2, <2>3
  <2> QED
    BY <2>4, UnknownFields
<1> QED
  BY <1>1, PhasesFollow, PTL

=============================================================================
