---------------------------- MODULE CommonLemmas ----------------------------
(***************************************************************************)
(* What the steps of the models do to the sequences they keep: the last    *)
(* element of a stack, pushing one and popping one; and induction.  The    *)
(* library's induction theorems have a predicate as parameter; here it is  *)
(* the set of those numbers that have the property.                        *)
(***************************************************************************)
EXTENDS SequencesExt, SequenceTheorems, FiniteSetTheorems, TLAPS

LEMMA LastProperties ==
  ASSUME NEW S, NEW seq \in Seq(S), seq # <<>>
  PROVE  /\ Len(seq) \in Nat \ {0}
         /\ Last(seq) = seq[Len(seq)]
         /\ Last(seq) \in S
  BY DEF Last

LEMMA FrontProperties ==
  ASSUME NEW S, NEW seq \in Seq(S), seq # <<>>
  PROVE  /\ Front(seq) \in Seq(S)
         /\ Len(Front(seq)) = Len(seq) - 1
         /\ \A i \in 1..(Len(seq) - 1) : Front(seq)[i] = seq[i]
<1>1. Len(seq) \in Nat \ {0} /\ \A i \in 1..(Len(seq) - 1) : seq[i] \in S
  BY EmptySeq
<1> DEFINE n == Len(seq) - 1
<1>2. n \in Nat /\ 1 \in Int /\ \A i \in 1..n : seq[i] \in S
  BY <1>1
<1>3. /\ SubSeq(seq, 1, n) \in Seq(S)
      /\ Len(SubSeq(seq, 1, n)) = IF 1 <= n THEN n - 1 + 1 ELSE 0
      /\ \A i \in 1..(n - 1 + 1) : SubSeq(seq, 1, n)[i] = seq[1 + i - 1]
  <2> HIDE DEF n
  <2>1. n \in Int
    BY <1>2
  <2>2. QED BY <1>2, <2>1, SubSeqProperties
<1>4. /\ SubSeq(seq, 1, n) \in Seq(S)
      /\ Len(SubSeq(seq, 1, n)) = n
      /\ \A i \in 1..n : SubSeq(seq, 1, n)[i] = seq[i]
  <2> HIDE DEF n
  <2>1. QED BY <1>2, <1>3
<1>5. QED BY <1>4 DEF Front

LEMMA AppendType ==
  ASSUME NEW S, NEW seq \in Seq(S), NEW e \in S
  PROVE  /\ Append(seq, e) \in Seq(S)
         /\ Len(Append(seq, e)) = Len(seq) + 1
         /\ \A i \in 1..Len(seq) : Append(seq, e)[i] = seq[i]
         /\ Append(seq, e)[Len(seq) + 1] = e
  OBVIOUS

LEMMA RangeOfAppend ==
  ASSUME NEW S, NEW seq \in Seq(S), NEW e \in S
  PROVE  /\ Range(Append(seq, e)) = Range(seq) \cup {e}
         /\ IsInjective(seq) /\ e \notin Range(seq) => IsInjective(Append(seq, e))
<1>1. /\ Append(seq, e) \in Seq(S) /\ Len(seq) \in Nat
      /\ DOMAIN seq = 1..Len(seq) /\ DOMAIN Append(seq, e) = 1..(Len(seq) + 1)
  BY AppendType, LenProperties
<1>2. QED BY <1>1, AppendType DEF Range, IsInjective

LEMMA RangeOfFront ==
  ASSUME NEW S, NEW seq \in Seq(S), seq # <<>>
  PROVE  /\ Range(seq) = Range(Front(seq)) \cup {Last(seq)}
         /\ IsInjective(seq) => IsInjective(Front(seq)) /\ Last(seq) \notin Range(Front(seq))
<1>1. /\ Front(seq) \in Seq(S) /\ Len(seq) \in Nat \ {0}
      /\ DOMAIN seq = 1..Len(seq) /\ DOMAIN Front(seq) = 1..(Len(seq) - 1)
      /\ \A i \in 1..(Len(seq) - 1) : Front(seq)[i] = seq[i]
      /\ Last(seq) = seq[Len(seq)]
  BY LastProperties, FrontProperties, LenProperties
<1>2. QED BY <1>1 DEF Range, IsInjective

-----------------------------------------------------------------------------
(* Induction *)

LEMMA LeastNumber ==
  ASSUME NEW T \in SUBSET Nat, T # {}
  PROVE  \E x \in T : \A y \in T : x <= y
<1> DEFINE R == OpToRel(<, Nat)
<1>1. \A x, y \in Nat : <<x, y>> \in R <=> x < y
  BY DEF OpToRel
<1> HIDE DEF R
<1>2. IsWellFoundedOn(R, Nat)
  BY NatLessThanWellFounded DEF R
<1>3. PICK x \in T : \A y \in T : <<y, x>> \notin R
  BY <1>2, WFMin
<1>4. \A y \in T : x \in Nat /\ y \in Nat /\ ~(y < x)
  BY <1>1, <1>3
<1>5. \A y \in T : x <= y
  BY <1>4
<1>6. QED BY <1>5

LEMMA Induction ==
  ASSUME NEW S, 0 \in S, \A n \in Nat : n \in S => n + 1 \in S
  PROVE  \A n \in Nat : n \in S
<1> SUFFICES ASSUME Nat \ S # {} PROVE FALSE
  OBVIOUS
<1>1. PICK x \in Nat \ S : \A y \in Nat \ S : x <= y
  BY LeastNumber
<1>2. x # 0 /\ x - 1 \in Nat
  BY <1>1
<1>3. x - 1 \in S
  BY <1>1, <1>2
<1>4. QED BY <1>1, <1>2, <1>3

\* A property that a number has if all smaller ones have it.
LEMMA StrongInduction ==
  ASSUME NEW S, \A n \in Nat : (\A m \in Nat : m < n => m \in S) => n \in S
  PROVE  \A n \in Nat : n \in S
<1> SUFFICES ASSUME Nat \ S # {} PROVE FALSE
  OBVIOUS
<1>1. PICK x \in Nat \ S : \A y \in Nat \ S : x <= y
  BY LeastNumber
<1>2. QED BY <1>1

\* One that holds at a number and goes on up to another.
LEMMA InductionUpTo ==
  ASSUME NEW k \in Nat, NEW S, 0 \in S, \A n \in 0..(k - 1) : n \in S => n + 1 \in S
  PROVE  \A n \in 0..k : n \in S
<1> DEFINE T == {n \in Nat : n <= k => n \in S}
<1>1. 0 \in T /\ \A n \in Nat : n \in T => n + 1 \in T
  OBVIOUS
<1>2. \A n \in Nat : n \in T
  <2> HIDE DEF T
  <2>1. QED BY <1>1, Induction
<1>3. QED BY <1>2

-----------------------------------------------------------------------------
(* Minima and maxima *)

\* A set of numbers that has an element has a least one.
LEMMA MinIsLeast ==
  ASSUME NEW T \in SUBSET Nat, T # {}
  PROVE  Min(T) \in T /\ \A y \in T : Min(T) <= y
<1>1. \E x \in T : \A y \in T : x <= y
  BY LeastNumber
<1>2. QED BY <1>1 DEF Min

\* One that is bounded has a largest one.
LEMMA MaxIsLargest ==
  ASSUME NEW n \in Nat, NEW T \in SUBSET (0..n), T # {}
  PROVE  Max(T) \in T /\ \A y \in T : y <= Max(T)
<1> DEFINE R == {n - x : x \in T}
<1>1. R \in SUBSET Nat /\ R # {}
  <2>1. \A x \in T : n - x \in Nat
    OBVIOUS
  <2>2. QED BY <2>1
<1>2. PICK m \in R : \A y \in R : m <= y
  BY <1>1, LeastNumber
<1>3. PICK x \in T : m = n - x
  BY <1>2
<1>4. \A y \in T : x >= y
  <2>1. \A y \in T : m <= n - y
    BY <1>2
  <2>2. QED BY <1>3, <2>1
<1>5. \E z \in T : \A y \in T : z >= y
  BY <1>4
<1>6. Max(T) \in T /\ \A y \in T : Max(T) >= y
  BY <1>5 DEF Max
<1>7. QED BY <1>6

-----------------------------------------------------------------------------
(* Iteration *)

\* f is the function a, g[a], g[g[a]], ... up to n.
Iterates(f, n, V, a, g) == f \in [0..n -> V] /\ f[0] = a /\ \A i \in 1..n : f[i] = g[f[i - 1]]

\* There is one: a definition that gives each value from the one before defines
\* something.
LEMMA IterationExists ==
  ASSUME NEW n \in Nat, NEW V, NEW a \in V, NEW g \in [V -> V]
  PROVE  \E f : Iterates(f, n, V, a, g)
<1> DEFINE Eq(f, m) == f \in [0..m -> V] /\ f[0] = a /\ \A i \in 1..m : f[i] = g[f[i - 1]]
           S == {m \in Nat : \E f : Eq(f, m)}
<1>1. 0 \in S
  <2>1. Eq([i \in 0..0 |-> a], 0)
    OBVIOUS
  <2>2. \E f : Eq(f, 0)
    BY <2>1
  <2>3. QED BY <2>2
<1>2. ASSUME NEW m \in Nat, m \in S
      PROVE  m + 1 \in S
  <2>1. PICK f : Eq(f, m)
    BY <1>2
  <2> DEFINE h == [i \in 0..(m + 1) |-> IF i = m + 1 THEN g[f[m]] ELSE f[i]]
  <2>2. h \in [0..(m + 1) -> V] /\ h[0] = a
    BY <2>1
  <2>3. \A i \in 1..(m + 1) : h[i] = g[h[i - 1]]
    BY <2>1
  <2>4. \E f1 : Eq(f1, m + 1)
    BY <2>2, <2>3
  <2>5. m + 1 \in Nat
    OBVIOUS
  <2>6. QED BY <2>4, <2>5
<1>3. n \in S
  <2> HIDE DEF S
  <2>1. QED BY <1>1, <1>2, Induction
<1>4. \E f : Eq(f, n)
  BY <1>3
<1>5. QED BY <1>4 DEF Iterates

\* The same for a function that depends on the number of the step.
IteratesOver(f, n, V, a, g) ==
  f \in [0..n -> V] /\ f[0] = a /\ \A i \in 1..n : f[i] = g[i][f[i - 1]]

LEMMA IterationOverExists ==
  ASSUME NEW n \in Nat, NEW V, NEW a \in V, NEW g \in [1..n -> [V -> V]]
  PROVE  \E f : IteratesOver(f, n, V, a, g)
<1> DEFINE Eq(f, m) == f \in [0..m -> V] /\ f[0] = a /\ \A i \in 1..m : f[i] = g[i][f[i - 1]]
           S == {m \in 0..n : \E f : Eq(f, m)}
<1>1. 0 \in S
  <2>1. Eq([i \in 0..0 |-> a], 0)
    OBVIOUS
  <2>2. \E f : Eq(f, 0)
    BY <2>1
  <2>3. QED BY <2>2
<1>2. ASSUME NEW m \in 0..(n - 1), m \in S
      PROVE  m + 1 \in S
  <2>1. PICK f : Eq(f, m)
    BY <1>2
  <2> DEFINE h == [i \in 0..(m + 1) |-> IF i = m + 1 THEN g[m + 1][f[m]] ELSE f[i]]
  <2>0. m \in 0..m /\ f[m] \in V /\ m + 1 \in 1..n /\ g[m + 1] \in [V -> V]
    BY <2>1
  <2>2. h \in [0..(m + 1) -> V] /\ h[0] = a
    BY <2>0, <2>1
  <2>3. \A i \in 1..(m + 1) : h[i] = g[i][h[i - 1]]
    BY <2>1
  <2>4. \E f1 : Eq(f1, m + 1)
    BY <2>2, <2>3
  <2>5. m + 1 \in 0..n
    OBVIOUS
  <2>6. QED BY <2>4, <2>5
<1>3. n \in S
  <2> HIDE DEF S
  <2>1. \A m \in 0..n : m \in S
    BY <1>1, <1>2, InductionUpTo
  <2>2. QED BY <2>1
<1>4. \E f : Eq(f, n)
  BY <1>3
<1>5. QED BY <1>4 DEF IteratesOver

-----------------------------------------------------------------------------
(* FlattenSeq *)

\* F gives the concatenations of the first elements of s.
Flattens(F, S, s) ==
  /\ F \in [0..Len(s) -> Seq(S)] /\ F[0] = <<>>
  /\ \A i \in 1..Len(s) : F[i] = F[i - 1] \o s[i]

LEMMA FlattenedBy ==
  ASSUME NEW S, NEW s \in Seq(Seq(S))
  PROVE  \E F : Flattens(F, S, s) /\ FlattenSeq(s) = F[Len(s)]
<1> DEFINE n == Len(s)
           V == Seq(S)
           g == [i \in 1..n |-> [t \in V |-> t \o s[i]]]
           Eq(f) == f = [i \in 1..n |-> IF i = 1 THEN s[i] ELSE f[i - 1] \o s[i]]
<1>1. n \in Nat /\ <<>> \in V /\ \A i \in 1..n : s[i] \in V
  OBVIOUS
<1>2. g \in [1..n -> [V -> V]]
  <2>1. \A i \in 1..n : \A t \in V : t \o s[i] \in V
    BY <1>1
  <2> HIDE DEF V
  <2>2. QED BY <2>1
<1>3. PICK F : IteratesOver(F, n, V, <<>>, g)
  <2> HIDE DEF g, V
  <2>1. QED BY <1>1, <1>2, IterationOverExists
<1>4. Flattens(F, S, s)
  <2>1. F \in [0..n -> V] /\ F[0] = <<>> /\ \A i \in 1..n : F[i] = g[i][F[i - 1]]
    BY <1>3 DEF IteratesOver
  <2>2. \A i \in 1..n : F[i] = F[i - 1] \o s[i]
    <3> SUFFICES ASSUME NEW i \in 1..n PROVE F[i] = F[i - 1] \o s[i]
      OBVIOUS
    <3>1. i - 1 \in 0..n
      BY <1>1
    <3>2. F[i - 1] \in V
      <4> HIDE DEF V, g
      <4>1. QED BY <2>1, <3>1
    <3>3. g[i] = [t \in V |-> t \o s[i]]
      OBVIOUS
    <3> HIDE DEF V, g
    <3>4. QED BY <2>1, <3>2, <3>3
  <2>3. QED BY <2>1, <2>2 DEF Flattens
<1>5. CASE n = 0
  <2>1. s = <<>> /\ FlattenSeq(s) = s
    BY <1>5 DEF FlattenSeq
  <2>2. QED BY <1>4, <1>5, <2>1 DEF Flattens
<1>6. CASE n # 0
  <2> DEFINE f == [i \in 1..n |-> F[i]]
  <2>1. Eq(f)
    <3> SUFFICES ASSUME NEW i \in 1..n
                 PROVE  F[i] = IF i = 1 THEN s[i] ELSE f[i - 1] \o s[i]
      OBVIOUS
    <3>1. F[i] = F[i - 1] \o s[i] /\ F[0] = <<>>
      BY <1>4 DEF Flattens
    <3>2. ASSUME i = 1 PROVE F[i] = s[i]
      <4>1. F[i - 1] = <<>> /\ s[i] \in Seq(S)
        BY <1>1, <3>1, <3>2
      <4>2. QED BY <3>1, <4>1, ConcatEmptySeq
    <3>3. i # 1 => i - 1 \in 1..n
      BY <1>1
    <3>4. QED BY <3>1, <3>2, <3>3
  <2>2. FlattenSeq(s) = (CHOOSE h : Eq(h))[n]
    BY <1>6 DEF FlattenSeq
  <2> DEFINE c == CHOOSE h : Eq(h)
  <2>3. Eq(c)
    <3> HIDE DEF Eq, f
    <3>1. QED BY <2>1
  <2>4. \A i \in 1..n : c[i] = IF i = 1 THEN s[i] ELSE c[i - 1] \o s[i]
    <3> HIDE DEF c
    <3>1. QED BY <2>3
  <2> HIDE DEF c
  <2> DEFINE T == {i \in 0..n : i # 0 => c[i] = F[i]}
  <2>5. 0 \in T
    BY <1>1
  <2>6. ASSUME NEW i \in 0..(n - 1), i \in T PROVE i + 1 \in T
    <3>1. i + 1 \in 1..n /\ (i + 1) - 1 = i
      BY <1>1
    <3>2. c[i + 1] = IF i + 1 = 1 THEN s[i + 1] ELSE c[(i + 1) - 1] \o s[i + 1]
      BY <2>4, <3>1
    <3>3. F[i + 1] = F[(i + 1) - 1] \o s[i + 1] /\ F[0] = <<>> /\ s[i + 1] \in Seq(S)
      BY <1>1, <1>4, <3>1 DEF Flattens
    <3>4. CASE i = 0
      <4>1. F[i + 1] = s[i + 1]
        BY <3>1, <3>3, <3>4, ConcatEmptySeq
      <4>2. QED BY <3>1, <3>2, <3>4, <4>1
    <3>5. CASE i # 0
      <4>1. c[i] = F[i]
        BY <2>6, <3>5
      <4>2. i + 1 # 1
        BY <3>1, <3>5
      <4>3. c[i + 1] = c[(i + 1) - 1] \o s[i + 1]
        BY <3>2, <4>2
      <4>4. c[i + 1] = F[i + 1]
        BY <3>1, <3>3, <4>1, <4>3
      <4>5. i + 1 \in 0..n
        BY <1>1
      <4>6. QED BY <4>4, <4>5
    <3>6. QED BY <3>4, <3>5
  <2>7. \A i \in 0..n : i \in T
    <3> HIDE DEF T, n
    <3>1. QED BY <1>1, <2>5, <2>6, InductionUpTo
  <2>8. c[n] = F[n]
    BY <1>1, <1>6, <2>7
  <2>9. FlattenSeq(s) = c[n]
    BY <2>2 DEF c
  <2>10. QED BY <1>4, <2>8, <2>9
<1>7. QED BY <1>5, <1>6

LEMMA FlattenEmpty == FlattenSeq(<<>>) = <<>>
  BY DEF FlattenSeq

LEMMA FlattenAppend ==
  ASSUME NEW S, NEW s \in Seq(Seq(S)), NEW x \in Seq(S)
  PROVE  /\ FlattenSeq(s) \in Seq(S)
         /\ FlattenSeq(Append(s, x)) = FlattenSeq(s) \o x
<1> DEFINE n == Len(s)
           t == Append(s, x)
<1>1. /\ t \in Seq(Seq(S)) /\ Len(t) = n + 1 /\ n \in Nat /\ t[n + 1] = x
      /\ \A i \in 1..n : t[i] = s[i]
  <2> DEFINE V == Seq(S)
  <2> HIDE DEF V
  <2>1. QED BY AppendType, LenProperties DEF V
<1>2. PICK F : Flattens(F, S, s) /\ FlattenSeq(s) = F[n]
  BY FlattenedBy
<1>3. PICK G : Flattens(G, S, t) /\ FlattenSeq(t) = G[n + 1]
  BY <1>1, FlattenedBy
<1> HIDE DEF t
<1> DEFINE T == {i \in 0..n : G[i] = F[i]}
<1>4. 0 \in T
  BY <1>1, <1>2, <1>3 DEF Flattens
<1>5. ASSUME NEW i \in 0..(n - 1), i \in T PROVE i + 1 \in T
  <2>1. i + 1 \in 1..n /\ i + 1 \in 1..(n + 1) /\ (i + 1) - 1 = i
    BY <1>1
  <2>2. F[i + 1] = F[(i + 1) - 1] \o s[i + 1]
    BY <1>2, <2>1 DEF Flattens
  <2>3. G[i + 1] = G[(i + 1) - 1] \o t[i + 1]
    BY <1>1, <1>3, <2>1 DEF Flattens
  <2>4. G[i] = F[i] /\ t[i + 1] = s[i + 1]
    BY <1>1, <1>5, <2>1
  <2>5. G[i + 1] = F[i + 1]
    BY <2>1, <2>2, <2>3, <2>4
  <2>6. i + 1 \in 0..n
    BY SMTT(30), <1>1
  <2>7. QED BY <2>5, <2>6
<1>6. \A i \in 0..n : i \in T
  <2> HIDE DEF T, n
  <2>1. QED BY <1>1, <1>4, <1>5, InductionUpTo
<1>7. G[n] = F[n]
  BY <1>1, <1>6
<1>8. G[n + 1] = G[n] \o x
  <2>1. n + 1 \in 1..(n + 1) /\ (n + 1) - 1 = n
    BY <1>1
  <2>2. G[n + 1] = G[(n + 1) - 1] \o t[n + 1]
    BY <1>1, <1>3, <2>1 DEF Flattens
  <2>3. QED BY <1>1, <2>1, <2>2
<1>9. FlattenSeq(t) = FlattenSeq(s) \o x
  <2> HIDE DEF n
  <2>1. QED BY <1>2, <1>3, <1>7, <1>8
<1>10. F[n] \in Seq(S)
  <2> DEFINE V == Seq(S)
  <2>1. F \in [0..n -> V] /\ n \in 0..n
    BY <1>1, <1>2 DEF Flattens
  <2> HIDE DEF V, n
  <2>2. F[n] \in V
    BY <2>1
  <2>3. QED BY <2>2 DEF V
<1>11. QED BY <1>2, <1>9, <1>10 DEF t

Glued(s, t) == s \o t
LEMMA Associative ==
  \A X : \A a, b, c \in Seq(X) : Glued(Glued(a, b), c) = Glued(a, Glued(b, c))
<1>1. ASSUME NEW S, NEW a \in Seq(S), NEW b \in Seq(S), NEW c \in Seq(S)
      PROVE  (a \o b) \o c = a \o (b \o c)
  BY SMT
<1>2. QED BY <1>1 DEF Glued

LEMMA SplitLast ==
  ASSUME NEW V, NEW s \in Seq(V), s # <<>>, NEW t \in Seq(V), Len(t) = Len(s),
         \A i \in 1..(Len(s) - 1) : t[i] = s[i]
  PROVE  \E u \in Seq(V), y \in V, z \in V :
           s = Append(u, y) /\ t = Append(u, z) /\ y = s[Len(s)] /\ z = t[Len(s)]
<1> DEFINE n == Len(s)
           u == Front(s)
           y == s[n]
           z == t[n]
<1>1. /\ u \in Seq(V) /\ Len(u) = n - 1 /\ \A i \in 1..(n - 1) : u[i] = s[i]
  BY FrontProperties
<1>2. n \in Nat /\ n > 0 /\ n \in 1..Len(s) /\ n \in 1..Len(t)
  BY LenProperties, EmptySeq
<1>3. y \in V /\ z \in V
  BY <1>2, ElementOfSeq
<1>4. Len(s) = n /\ Len(t) = n /\ s[n] = y /\ t[n] = z
  OBVIOUS
<1> HIDE DEF n, u, y, z
<1>5. /\ Append(u, y) \in Seq(V) /\ Len(Append(u, y)) = (n - 1) + 1
      /\ \A i \in 1..(n - 1) : Append(u, y)[i] = u[i]
      /\ Append(u, y)[(n - 1) + 1] = y
  BY <1>1, <1>3, AppendType
<1>6. s = Append(u, y)
  BY <1>1, <1>2, <1>4, <1>5
<1>7. /\ Append(u, z) \in Seq(V) /\ Len(Append(u, z)) = (n - 1) + 1
      /\ \A i \in 1..(n - 1) : Append(u, z)[i] = u[i]
      /\ Append(u, z)[(n - 1) + 1] = z
  BY <1>1, <1>3, AppendType
<1>8. t = Append(u, z)
  BY <1>1, <1>2, <1>4, <1>7
<1>9. QED BY <1>1, <1>3, <1>4, <1>6, <1>8

\* More at the end of the last element.
EndsLonger(s, t, x) ==
  /\ Len(t) = Len(s) /\ t[Len(s)] = s[Len(s)] \o x
  /\ \A i \in 1..(Len(s) - 1) : t[i] = s[i]
AreSequences(V, S) == V = Seq(S)
LEMMA FlattenLonger ==
  ASSUME NEW S, NEW V, AreSequences(V, S), NEW s \in Seq(V), s # <<>>, NEW x \in V,
         NEW t \in Seq(V), EndsLonger(s, t, x)
  PROVE  FlattenSeq(t) = FlattenSeq(s) \o x
<1>1. Len(t) = Len(s) /\ \A i \in 1..(Len(s) - 1) : t[i] = s[i]
  BY DEF EndsLonger
<1>2. PICK u \in Seq(V), y \in V, z \in V :
        s = Append(u, y) /\ t = Append(u, z) /\ y = s[Len(s)] /\ z = t[Len(s)]
  BY SMTT(30), <1>1, SplitLast
<1>3. z = Glued(y, x)
  BY <1>2 DEF EndsLonger, Glued
<1>4. /\ FlattenSeq(u) \in V
      /\ FlattenSeq(s) = Glued(FlattenSeq(u), y) /\ FlattenSeq(t) = Glued(FlattenSeq(u), z)
  BY <1>2, FlattenAppend DEF Glued, AreSequences
<1>5. \A a, b, c \in V : Glued(Glued(a, b), c) = Glued(a, Glued(b, c))
  BY Associative DEF AreSequences
<1>6. FlattenSeq(t) = Glued(FlattenSeq(s), x)
  BY <1>3, <1>4, <1>5
<1>7. QED BY <1>6 DEF Glued

\* A function defined along the parents of a tree whose nodes are 1 to n.
FollowsParents(f, n, p, V, a, g) ==
  f \in [0..n -> V] /\ f[0] = a /\ \A s \in 1..n : f[s] = g[s][f[p[s]]]

\* There is such a function.
LEMMA ParentRecursionExists ==
  ASSUME NEW n \in Nat, NEW p, \A s \in 1..n : p[s] \in 0..(s - 1),
         NEW V, NEW a \in V, NEW g \in [1..n -> [V -> V]]
  PROVE  \E f : FollowsParents(f, n, p, V, a, g)
<1> DEFINE Eq(f, m) == f \in [0..m -> V] /\ f[0] = a /\ \A s \in 1..m : f[s] = g[s][f[p[s]]]
           S == {m \in 0..n : \E f : Eq(f, m)}
<1>1. 0 \in S
  <2>1. Eq([i \in 0..0 |-> a], 0)
    OBVIOUS
  <2>2. \E f : Eq(f, 0)
    BY <2>1
  <2>3. QED BY <2>2
<1>2. ASSUME NEW m \in 0..(n - 1), m \in S
      PROVE  m + 1 \in S
  <2>1. PICK f : Eq(f, m)
    BY <1>2
  <2> DEFINE h == [i \in 0..(m + 1) |-> IF i = m + 1 THEN g[m + 1][f[p[m + 1]]] ELSE f[i]]
  <2>2. m + 1 \in 1..n /\ p[m + 1] \in 0..m
    OBVIOUS
  <2>3. f[p[m + 1]] \in V /\ g[m + 1] \in [V -> V] /\ g[m + 1][f[p[m + 1]]] \in V
    BY <2>1, <2>2
  <2>4. h \in [0..(m + 1) -> V] /\ h[0] = a
    BY <2>1, <2>3
  <2>5. ASSUME NEW s \in 1..(m + 1)
        PROVE  h[s] = g[s][h[p[s]]]
    <3>1. p[s] \in 0..m /\ p[s] # m + 1 /\ p[s] \in 0..(m + 1)
      <4>1. s \in 1..n /\ p[s] \in 0..(s - 1)
        BY <2>2
      <4>2. QED BY <4>1
    <3>2. h[p[s]] = f[p[s]]
      BY <3>1
    <3>3. CASE s = m + 1
      BY <3>2, <3>3
    <3>4. CASE s # m + 1
      <4>1. s \in 1..m
        BY <3>4
      <4>2. h[s] = f[s]
        BY <3>4
      <4>3. QED BY <2>1, <3>2, <4>1, <4>2
    <3>5. QED BY <3>3, <3>4
  <2>6. \E f1 : Eq(f1, m + 1)
    BY <2>4, <2>5
  <2>7. m + 1 \in 0..n
    OBVIOUS
  <2>8. QED BY <2>6, <2>7
<1>3. n \in S
  <2> HIDE DEF S
  <2>1. \A m \in 0..n : m \in S
    BY <1>1, <1>2, InductionUpTo
  <2>2. QED BY <2>1
<1>4. \E f : Eq(f, n)
  BY <1>3
<1>5. QED BY <1>4 DEF FollowsParents
=============================================================================
