---------------------------- MODULE SequenceLemmas ----------------------------
(***************************************************************************)
(* Lemmas that the proofs share: the least element of a set of numbers,    *)
(* which stands for induction (the induction theorems of the library take  *)
(* an operator), and with it what FlattenSeq of the community modules, a   *)
(* recursive function, makes of sequences that grow.                       *)
(***************************************************************************)
EXTENDS Integers, Sieve, SequenceTheorems, WellFoundedInduction, TLAPS

\* A non-empty set of numbers has a least element.
LEMMA Least ==
    ASSUME NEW T \in SUBSET Nat, T # {}
    PROVE  \E x \in T : \A y \in T : ~(y < x)
<1>1. PICK x \in T : \A y \in T : ~(<<y, x>> \in OpToRel(<, Nat))
  BY NatLessThanWellFounded, WFMin, Zenon
<1>2. \A y \in T : y < x => <<y, x>> \in OpToRel(<, Nat)
  BY Zenon DEF OpToRel
<1> QED
  BY <1>1, <1>2

\* FlattenSeq is defined by a recursive function: Flattens(S, f) says that f
\* is one, and there is exactly one.
Flattens(S, f) ==
    f = [i \in 1..Len(S) |-> IF i = 1 THEN S[i] ELSE f[i - 1] \o S[i]]

LEMMA FlattenStep ==
    ASSUME NEW S, NEW f, Flattens(S, f), NEW i \in 1..Len(S)
    PROVE  f[i] = IF i = 1 THEN S[i] ELSE f[i - 1] \o S[i]
<1> DEFINE F == [j \in 1..Len(S) |-> IF j = 1 THEN S[j] ELSE f[j - 1] \o S[j]]
<1>1. f = F
  BY DEF Flattens
<1>2. F[i] = IF i = 1 THEN S[i] ELSE f[i - 1] \o S[i]
  OBVIOUS
<1> HIDE DEF F
<1> QED
  BY <1>1, <1>2

LEMMA OneMoreIndex == \A n \in Nat : \A i \in 1..(n + 1) : i \in 1..n \/ i = n + 1
OBVIOUS

LEMMA Sums == \A a, b \in Nat : (a + b = 0 => a = 0) /\ (a >= b /\ b # a => b + 1 <= a)
OBVIOUS

\* T begins with S.
Begins(S, T) ==
    /\ Len(S) \in Nat /\ Len(T) \in Nat /\ Len(S) <= Len(T)
    /\ \A i \in 1..Len(S) : S[i] = T[i]

LEMMA FlattenSame ==
    ASSUME NEW S, NEW T, Begins(S, T), NEW f, NEW g, Flattens(S, f), Flattens(T, g)
    PROVE  \A i \in 1..Len(S) : f[i] = g[i]
<1>0. /\ Len(S) \in Nat /\ Len(T) \in Nat /\ Len(S) <= Len(T)
      /\ \A i \in 1..Len(S) : S[i] = T[i]
  BY DEF Begins
<1> DEFINE B == {i \in 1..Len(S) : f[i] # g[i]}
<1>1. SUFFICES ASSUME B # {} PROVE FALSE
  OBVIOUS
<1>2. PICK i \in B : \A j \in B : ~(j < i)
  <2>1. B \in SUBSET Nat
    OBVIOUS
  <2> QED
    BY <1>1, <2>1, Least
<1>3. /\ f[i] = IF i = 1 THEN S[i] ELSE f[i - 1] \o S[i]
      /\ g[i] = IF i = 1 THEN T[i] ELSE g[i - 1] \o T[i]
  BY <1>0, FlattenStep
<1>4. i # 1 => f[i - 1] = g[i - 1]
  BY <1>0, <1>2
<1> QED
  BY <1>0, <1>2, <1>3, <1>4

\* The first n values of such a function.
Part(S, n, f) == f = [i \in 1..n |-> IF i = 1 THEN S[i] ELSE f[i - 1] \o S[i]]

LEMMA PartGrows ==
    ASSUME NEW S, NEW n \in Nat, n # 0, NEW f, Part(S, n - 1, f)
    PROVE  \E g : Part(S, n, g)
<1> DEFINE next(i) == IF i = 1 THEN S[i] ELSE f[i - 1] \o S[i]
           g == [i \in 1..n |-> next(i)]
           F == [i \in 1..(n - 1) |-> next(i)]
<1>1. f = F
  BY DEF Part
<1>2. \A i \in 1..(n - 1) : F[i] = next(i)
  OBVIOUS
<1>3. \A i \in 1..n : g[i] = next(i)
  OBVIOUS
<1>4. \A i \in 1..(n - 1) : g[i] = f[i]
  <2> HIDE DEF F, g, next
  <2> QED
    BY <1>1, <1>2, <1>3
<1>5. \A i \in 1..n : next(i) = IF i = 1 THEN S[i] ELSE g[i - 1] \o S[i]
  <2> HIDE DEF F, g
  <2> QED
    BY <1>4
<1>6. g = [i \in 1..n |-> IF i = 1 THEN S[i] ELSE g[i - 1] \o S[i]]
  <2>1. g = [i \in 1..n |-> next(i)]
    OBVIOUS
  <2> HIDE DEF g, next
  <2> QED
    BY <1>5, <2>1
<1>7. Part(S, n, g)
  <2> HIDE DEF g
  <2> QED
    BY <1>6 DEF Part
<1> QED
  BY <1>7

LEMMA FlattenExists ==
    ASSUME NEW S, Len(S) \in Nat
    PROVE  \E f : Flattens(S, f)
<1> DEFINE N == {n \in 0..Len(S) : ~\E f : Part(S, n, f)}
<1>1. N = {}
  <2>1. SUFFICES ASSUME N # {} PROVE FALSE
    OBVIOUS
  <2>2. PICK n \in N : \A m \in N : ~(m < n)
    <3>1. N \in SUBSET Nat
      OBVIOUS
    <3> QED
      BY <2>1, <3>1, Least
  <2>3. n # 0
    <3>1. Part(S, 0, [i \in 1..0 |-> 0])
      BY DEF Part
    <3> QED
      BY <3>1
  <2>4. PICK f : Part(S, n - 1, f)
    BY <2>2, <2>3
  <2> QED
    BY <2>2, <2>3, <2>4, PartGrows
<1>2. \E f : Part(S, Len(S), f)
  BY <1>1
<1> QED
  BY <1>2 DEF Flattens, Part

LEMMA FlattenValue ==
    ASSUME NEW S, Len(S) \in Nat, Len(S) # 0
    PROVE  \E f : Flattens(S, f) /\ FlattenSeq(S) = f[Len(S)]
<1> DEFINE F == CHOOSE f : Flattens(S, f)
<1>1. Flattens(S, F)
  BY FlattenExists
<1>2. FlattenSeq(S) = F[Len(S)]
  BY DEF FlattenSeq, Flattens
<1> QED
  BY <1>1, <1>2

LEMMA FlattenTyped ==
    ASSUME NEW X, NEW S \in Seq(Seq(X))
    PROVE  FlattenSeq(S) \in Seq(X)
<1>1. Len(S) \in Nat /\ DOMAIN S = 1..Len(S) /\ \A i \in 1..Len(S) : S[i] \in Seq(X)
  OBVIOUS
<1>2. CASE Len(S) = 0
  <2>1. FlattenSeq(S) = S /\ S = <<>>
    BY <1>2 DEF FlattenSeq
  <2> QED
    BY <2>1
<1>3. CASE Len(S) # 0
  <2>1. PICK f : Flattens(S, f) /\ FlattenSeq(S) = f[Len(S)]
    BY <1>1, <1>3, FlattenValue
  <2> DEFINE B == {i \in 1..Len(S) : f[i] \notin Seq(X)}
  <2>2. B = {}
    <3>1. SUFFICES ASSUME B # {} PROVE FALSE
      OBVIOUS
    <3>2. PICK i \in B : \A j \in B : ~(j < i)
      <4>1. B \in SUBSET Nat
        OBVIOUS
      <4> QED
        BY <3>1, <4>1, Least
    <3>3. f[i] = IF i = 1 THEN S[i] ELSE f[i - 1] \o S[i]
      BY <2>1, FlattenStep
    <3>4. CASE i = 1
      BY <1>1, <3>2, <3>3, <3>4
    <3>5. CASE i # 1
      <4>1. f[i - 1] \in Seq(X) /\ S[i] \in Seq(X)
        BY <1>1, <3>2, <3>5
      <4>2. f[i - 1] \o S[i] \in Seq(X)
        BY <4>1
      <4> QED
        BY <3>2, <3>3, <3>5, <4>2
    <3> QED
      BY <3>4, <3>5
  <2>3. Len(S) \in 1..Len(S)
    BY <1>1, <1>3
  <2> HIDE DEF B
  <2>4. f[Len(S)] \in Seq(X)
    BY <2>2, <2>3 DEF B
  <2> QED
    BY <2>1, <2>4
<1> QED
  BY <1>1, <1>2, <1>3

LEMMA FlattenAppend ==
    ASSUME NEW X, NEW S \in Seq(Seq(X)), NEW e \in Seq(X)
    PROVE  FlattenSeq(Append(S, e)) = FlattenSeq(S) \o e
<1> DEFINE T == Append(S, e)
<1>1. /\ Len(S) \in Nat /\ Len(T) = Len(S) + 1 /\ T[Len(S) + 1] = e
      /\ \A i \in 1..Len(S) : T[i] = S[i]
  OBVIOUS
<1> HIDE DEF T
<1>2. PICK g : Flattens(T, g) /\ FlattenSeq(T) = g[Len(T)]
  <2>1. Len(T) \in Nat /\ Len(T) # 0
    BY <1>1
  <2> QED
    BY <2>1, FlattenValue
<1>3. g[Len(T)] = IF Len(T) = 1 THEN T[Len(T)] ELSE g[Len(T) - 1] \o T[Len(T)]
  <2>1. Len(T) \in 1..Len(T)
    BY <1>1
  <2> QED
    BY <1>2, <2>1, FlattenStep
<1>4. CASE Len(S) = 0
  <2>1. FlattenSeq(S) = S /\ S = <<>>
    BY <1>4 DEF FlattenSeq
  <2>2. FlattenSeq(S) \o e = e
    BY <2>1
  <2> QED
    BY <1>1, <1>2, <1>3, <1>4, <2>2 DEF T
<1>5. CASE Len(S) # 0
  <2>1. PICK f : Flattens(S, f) /\ FlattenSeq(S) = f[Len(S)]
    BY <1>1, <1>5, FlattenValue
  <2>2. f[Len(S)] = g[Len(S)]
    <3>1. /\ Len(S) <= Len(S) /\ Len(S) <= Len(T) /\ Len(T) \in Nat /\ Len(S) \in 1..Len(S)
          /\ \A i \in 1..Len(S) : S[i] = T[i]
      BY <1>1, <1>5
    <3>2. Begins(S, T)
      BY <3>1 DEF Begins
    <3>3. \A i \in 1..Len(S) : f[i] = g[i]
      BY <1>2, <2>1, <3>2, FlattenSame
    <3> QED
      BY <3>1, <3>3
  <2>3. Len(T) # 1 /\ Len(T) - 1 = Len(S)
    BY <1>1, <1>5
  <2> QED
    BY <1>1, <1>2, <1>3, <2>1, <2>2, <2>3 DEF T
<1> QED
  BY <1>1, <1>4, <1>5

\* Nothing is added by empty sequences.
LEMMA FlattenNothing ==
    ASSUME NEW X, NEW S \in Seq(Seq(X)), NEW U \in Seq(Seq(X)),
           \A i \in DOMAIN U : U[i] = <<>>
    PROVE  FlattenSeq(S \o U) = FlattenSeq(S)
<1> DEFINE T == S \o U
<1>1. /\ Len(S) \in Nat /\ Len(U) \in Nat /\ T \in Seq(Seq(X)) /\ Len(T) = Len(S) + Len(U)
      /\ \A i \in 1..(Len(S) + Len(U)) : T[i] = IF i <= Len(S) THEN S[i] ELSE U[i - Len(S)]
  BY ConcatProperties
<1>0. Len(S) \in Nat /\ Len(U) \in Nat /\ Len(T) = Len(S) + Len(U) /\ Len(T) \in Nat
  BY <1>1
<1>2. \A i \in (Len(S) + 1)..Len(T) : T[i] = <<>>
  <2>1. ASSUME NEW i \in (Len(S) + 1)..Len(T) PROVE T[i] = <<>>
    <3>1. i \in 1..(Len(S) + Len(U)) /\ ~(i <= Len(S)) /\ i - Len(S) \in 1..Len(U)
      BY <1>1, <2>1
    <3>2. DOMAIN U = 1..Len(U)
      OBVIOUS
    <3> QED
      BY <1>1, <3>1, <3>2
  <2> QED
    BY <2>1
<1>3. \A i \in 1..Len(S) : T[i] = S[i]
  BY <1>1
<1> HIDE DEF T
<1>4. CASE Len(T) = 0
  <2>1. Len(S) = 0
    BY <1>0, <1>4, Sums, Zenon
  <2>2. S = <<>> /\ T = <<>> /\ FlattenSeq(S) = S /\ FlattenSeq(T) = T
    BY <1>1, <1>4, <2>1 DEF FlattenSeq
  <2> QED
    BY <2>2 DEF T
<1>5. CASE Len(T) # 0
  <2>1. PICK g : Flattens(T, g) /\ FlattenSeq(T) = g[Len(T)]
    BY <1>0, <1>5, FlattenValue
  <2> DEFINE F == FlattenSeq(S)
             B == {i \in 1..Len(T) : i >= Len(S) /\ g[i] # F}
  <2>2. F \in Seq(X)
    BY FlattenTyped
  <2>3. Len(S) # 0 => g[Len(S)] = F
    <3>1. SUFFICES ASSUME Len(S) # 0 PROVE g[Len(S)] = F
      OBVIOUS
    <3>2. PICK f : Flattens(S, f) /\ FlattenSeq(S) = f[Len(S)]
      BY <1>1, <3>1, FlattenValue
    <3>3. /\ Len(S) <= Len(S) /\ Len(S) <= Len(T) /\ Len(T) \in Nat /\ Len(S) \in 1..Len(S)
          /\ \A i \in 1..Len(S) : S[i] = T[i]
      BY <1>1, <1>3, <3>1
    <3>4. Begins(S, T)
      BY <3>3 DEF Begins
    <3>5. \A i \in 1..Len(S) : f[i] = g[i]
      BY <2>1, <3>2, <3>4, FlattenSame
    <3> QED
      BY <3>2, <3>3, <3>5
  <2>4. Len(S) = 0 => F = <<>>
    BY DEF FlattenSeq
  <2> HIDE DEF F
  <2>5. B = {}
    <3>1. SUFFICES ASSUME B # {} PROVE FALSE
      OBVIOUS
    <3>2. PICK i \in B : \A j \in B : ~(j < i)
      <4>1. B \in SUBSET Nat
        OBVIOUS
      <4> QED
        BY <3>1, <4>1, Least
    <3>3. i \in 1..Len(T) /\ i >= Len(S) /\ g[i] # F
      BY <3>2
    <3>4. g[i] = IF i = 1 THEN T[i] ELSE g[i - 1] \o T[i]
      BY <2>1, <3>3, FlattenStep
    <3>5. i # Len(S)
      BY <2>3, <3>3
    <3>6. i \in (Len(S) + 1)..Len(T)
      BY <1>1, <3>3, <3>5
    <3>7. CASE i = 1
      <4>1. Len(S) = 0
        BY <1>0, <3>6, <3>7, SMTT(30)
      <4> QED
        BY <1>2, <2>4, <3>3, <3>4, <3>6, <3>7, <4>1
    <3>8. CASE i # 1
      <4>1. i - 1 \in 1..Len(T) /\ i - 1 >= Len(S) /\ i - 1 < i
        BY <1>1, <3>6, <3>8
      <4>2. g[i - 1] = F
        BY <3>2, <4>1
      <4>3. g[i] = F \o <<>>
        BY <1>2, <3>4, <3>6, <3>8, <4>2
      <4> QED
        BY <2>2, <3>3, <4>3
    <3> QED
      BY <3>7, <3>8
  <2>6. Len(T) \in 1..Len(T) /\ Len(T) >= Len(S)
    BY <1>1, <1>5
  <2> QED
    BY <2>1, <2>5, <2>6 DEF F, T
<1> QED
  BY <1>1, <1>4, <1>5 DEF T

LEMMA Associates == \A X : \A a, b, c \in Seq(X) : (a \o b) \o c = a \o (b \o c)
  BY ConcatAssociative

LEMMA FlattenConcat ==
    ASSUME NEW X, NEW S \in Seq(Seq(X)), NEW U \in Seq(Seq(X))
    PROVE  FlattenSeq(S \o U) = FlattenSeq(S) \o FlattenSeq(U)
<1> DEFINE V(i) == SubSeq(U, 1, i)
           B == {i \in 0..Len(U) : FlattenSeq(S \o V(i)) # FlattenSeq(S) \o FlattenSeq(V(i))}
<1>1. Len(U) \in Nat /\ FlattenSeq(S) \in Seq(X) /\ V(Len(U)) = U
  BY FlattenTyped, SubSeqFull
<1>2. B = {}
  <2>1. SUFFICES ASSUME B # {} PROVE FALSE
    OBVIOUS
  <2>2. PICK i \in B : \A j \in B : ~(j < i)
    <3>1. B \in SUBSET Nat
      BY <1>1
    <3> QED
      BY <2>1, <3>1, Least
  <2>3. i \in 0..Len(U) /\ FlattenSeq(S \o V(i)) # FlattenSeq(S) \o FlattenSeq(V(i))
    BY <2>2
  <2>4. i # 0
    <3>1. V(0) = <<>>
      BY SubSeqEmpty
    <3>2. FlattenSeq(<<>>) = <<>>
      BY DEF FlattenSeq
    <3>3. S \o <<>> = S /\ FlattenSeq(S) \o <<>> = FlattenSeq(S)
      BY <1>1, ConcatEmptySeq
    <3> QED
      BY <2>3, <3>1, <3>2, <3>3
  <2>5. i - 1 \in 0..Len(U) /\ i \in 1..Len(U) /\ i - 1 < i /\ i \in Nat /\ i - 1 \in Nat
    BY <1>1, <2>3, <2>4
  <2>6. FlattenSeq(S \o V(i - 1)) = FlattenSeq(S) \o FlattenSeq(V(i - 1))
    BY <2>2, <2>5
  <2> DEFINE W == V(i - 1)
  <2>7. W \in Seq(Seq(X)) /\ U[i] \in Seq(X)
    <3>1. \A j \in 1..i - 1 : U[j] \in Seq(X)
      BY <2>5
    <3> QED
      BY <2>5, <3>1, SubSeqProperties
  <2>8. V(i) = Append(W, U[i])
    <3>1. 1 \in 1..Len(U) /\ i \in 1..Len(U)
      BY <2>5, <1>1
    <3>2. SubSeq(U, 1, i) = SubSeq(U, 1, i - 1) \o <<U[i]>>
      BY <3>1, SubSeqRecursiveSecond
    <3> HIDE DEF W
    <3>3. Append(W, U[i]) = W \o <<U[i]>>
      BY <2>7, AppendIsConcat
    <3> QED
      BY <3>2, <3>3 DEF W
  <2>9. S \o W \in Seq(Seq(X)) /\ S \o Append(W, U[i]) = Append(S \o W, U[i])
    <3> HIDE DEF W
    <3>1. S \o W \in Seq(Seq(X))
      BY <2>7, ConcatProperties
    <3>2. Append(W, U[i]) = W \o <<U[i]>> /\ Append(S \o W, U[i]) = (S \o W) \o <<U[i]>>
      BY <2>7, <3>1, AppendIsConcat
    <3>3. <<U[i]>> \in Seq(Seq(X))
      BY <2>7
    <3>4. (S \o W) \o <<U[i]>> = S \o (W \o <<U[i]>>)
      <4> DEFINE e == <<U[i]>>
      <4>1. S \in Seq(Seq(X)) /\ W \in Seq(Seq(X)) /\ e \in Seq(Seq(X))
        BY <2>7, <3>3
      <4> HIDE DEF B, V, e
      <4>2. (S \o W) \o e = S \o (W \o e)
        BY <4>1, Associates, SMTT(30)
      <4> QED
        BY <4>2 DEF e
    <3> QED
      BY <3>1, <3>2, <3>4
  <2> HIDE DEF W
  <2>10. FlattenSeq(W) \in Seq(X)
    BY <2>7, FlattenTyped
  <2>11. /\ FlattenSeq(Append(S \o W, U[i])) = FlattenSeq(S \o W) \o U[i]
         /\ FlattenSeq(Append(W, U[i])) = FlattenSeq(W) \o U[i]
    BY <2>7, <2>9, FlattenAppend
  <2>12. (FlattenSeq(S) \o FlattenSeq(W)) \o U[i] = FlattenSeq(S) \o (FlattenSeq(W) \o U[i])
    <3> DEFINE a == FlattenSeq(S)
               b == FlattenSeq(W)
               c == U[i]
    <3>1. a \in Seq(X) /\ b \in Seq(X) /\ c \in Seq(X)
      BY <1>1, <2>7, <2>10
    <3> HIDE DEF B, V, a, b, c
    <3>2. (a \o b) \o c = a \o (b \o c)
      BY <3>1, Associates
    <3> QED
      BY <3>2 DEF a, b, c
  <2>13. FlattenSeq(S \o W) = FlattenSeq(S) \o FlattenSeq(W)
    BY <2>6 DEF W
  <2> QED
    BY <2>3, <2>8, <2>9, <2>11, <2>12, <2>13
<1>3. Len(U) \in 0..Len(U)
  BY <1>1
<1> HIDE DEF V
<1> QED
  BY <1>1, <1>2, <1>3

-----------------------------------------------------------------------------
(***************************************************************************)
(* What is left of a sequence when only the elements of a set are kept.    *)
(***************************************************************************)
Bits(q, S) == [i \in DOMAIN q |-> IF q[i] \in S THEN <<q[i]>> ELSE <<>>]

LEMMA BitsTyped ==
    ASSUME NEW X, NEW q \in Seq(X), NEW S
    PROVE  Bits(q, S) \in Seq(Seq(X))
<1>1. DOMAIN q = 1..Len(q) /\ Len(q) \in Nat /\ \A i \in 1..Len(q) : q[i] \in X
  OBVIOUS
<1>2. \A i \in 1..Len(q) : (IF q[i] \in S THEN <<q[i]>> ELSE <<>>) \in Seq(X)
  <2>1. \A x \in X : <<x>> \in Seq(X)
    OBVIOUS
  <2>2. <<>> \in Seq(X)
    OBVIOUS
  <2> QED
    BY <1>1, <2>1, <2>2
<1> QED
  BY <1>1, <1>2 DEF Bits

LEMMA OnlyTyped ==
    ASSUME NEW X, NEW q \in Seq(X), NEW S
    PROVE  Only(q, S) \in Seq(X)
BY BitsTyped, FlattenTyped DEF Only, Bits

LEMMA OnlyConcat ==
    ASSUME NEW X, NEW p \in Seq(X), NEW q \in Seq(X), NEW S
    PROVE  Only(p \o q, S) = Only(p, S) \o Only(q, S)
<1>1. Bits(p, S) \in Seq(Seq(X)) /\ Bits(q, S) \in Seq(Seq(X)) /\ p \o q \in Seq(X)
  BY BitsTyped, ConcatProperties
<1>2. Bits(p \o q, S) \in Seq(Seq(X))
  BY <1>1, BitsTyped
<1>3. Bits(p \o q, S) = Bits(p, S) \o Bits(q, S)
  <2> DEFINE a == Bits(p \o q, S)
             b == Bits(p, S)
             c == Bits(q, S)
  <2>1. Len(p \o q) = Len(p) + Len(q) /\ Len(p) \in Nat /\ Len(q) \in Nat
    BY ConcatProperties
  <2>2. DOMAIN a = 1..(Len(p) + Len(q)) /\ DOMAIN b = 1..Len(p) /\ DOMAIN c = 1..Len(q)
    <3>1. DOMAIN (p \o q) = 1..(Len(p) + Len(q)) /\ DOMAIN p = 1..Len(p) /\ DOMAIN q = 1..Len(q)
      BY <1>1, <2>1
    <3> QED
      BY <3>1 DEF Bits
  <2>3. \A i \in DOMAIN a : a[i] = IF (p \o q)[i] \in S THEN <<(p \o q)[i]>> ELSE <<>>
    BY DEF Bits
  <2>4. \A i \in DOMAIN b : b[i] = IF p[i] \in S THEN <<p[i]>> ELSE <<>>
    BY DEF Bits
  <2>5. \A i \in DOMAIN c : c[i] = IF q[i] \in S THEN <<q[i]>> ELSE <<>>
    BY DEF Bits
  <2> HIDE DEF a, b, c
  <2>6. a \in Seq(Seq(X)) /\ b \in Seq(Seq(X)) /\ c \in Seq(Seq(X))
    BY <1>1, <1>2 DEF a, b, c
  <2>7. Len(a) = Len(p) + Len(q) /\ Len(b) = Len(p) /\ Len(c) = Len(q)
    <3>1. /\ DOMAIN a = 1..Len(a) /\ DOMAIN b = 1..Len(b) /\ DOMAIN c = 1..Len(c)
          /\ Len(a) \in Nat /\ Len(b) \in Nat /\ Len(c) \in Nat
      BY <2>6, LenProperties
    <3>2. \A m, n \in Nat : 1..m = 1..n => m = n
      OBVIOUS
    <3>3. Len(p) + Len(q) \in Nat
      BY <2>1
    <3> QED
      BY <2>1, <2>2, <3>1, <3>2, <3>3, Zenon
  <2>8. /\ b \o c \in Seq(Seq(X)) /\ Len(b \o c) = Len(p) + Len(q)
        /\ \A i \in 1..(Len(p) + Len(q)) : (b \o c)[i] = IF i <= Len(p) THEN b[i] ELSE c[i - Len(p)]
    <3>1. /\ b \o c \in Seq(Seq(X)) /\ Len(b \o c) = Len(b) + Len(c)
          /\ \A i \in 1..(Len(b) + Len(c)) : (b \o c)[i] = IF i <= Len(b) THEN b[i] ELSE c[i - Len(b)]
      BY <2>6, ConcatProperties
    <3> QED
      BY <2>7, <3>1
  <2>9. \A i \in 1..(Len(p) + Len(q)) : (p \o q)[i] = IF i <= Len(p) THEN p[i] ELSE q[i - Len(p)]
    BY ConcatProperties
  <2>10. ASSUME NEW i \in 1..(Len(p) + Len(q)) PROVE a[i] = (b \o c)[i]
    <3>1. CASE i <= Len(p)
      <4>1. i \in 1..Len(p)
        BY <2>1, <3>1
      <4> QED
        BY <2>2, <2>3, <2>4, <2>8, <2>9, <3>1, <4>1
    <3>2. CASE ~(i <= Len(p))
      <4>1. i - Len(p) \in 1..Len(q)
        BY <2>1, <3>2
      <4> QED
        BY <2>2, <2>3, <2>5, <2>8, <2>9, <3>2, <4>1
    <3> QED
      BY <3>1, <3>2
  <2> QED
    BY <2>6, <2>7, <2>8, <2>10, SeqEqual DEF a, b, c
<1>4. FlattenSeq(Bits(p, S) \o Bits(q, S)) = FlattenSeq(Bits(p, S)) \o FlattenSeq(Bits(q, S))
  BY <1>1, FlattenConcat
<1> QED
  BY <1>3, <1>4 DEF Only, Bits

LEMMA OnlySame ==
    ASSUME NEW q, NEW S, NEW T, \A i \in DOMAIN q : q[i] \in S <=> q[i] \in T
    PROVE  Only(q, S) = Only(q, T)
<1>1. Bits(q, S) = Bits(q, T)
  BY DEF Bits
<1> QED
  BY <1>1 DEF Only, Bits

LEMMA OnlyNothing ==
    ASSUME NEW X, NEW q \in Seq(X), NEW S, \A i \in DOMAIN q : q[i] \notin S
    PROVE  Only(q, S) = <<>>
<1>1. Bits(q, S) \in Seq(Seq(X))
  BY BitsTyped
<1>2. \A i \in DOMAIN Bits(q, S) : Bits(q, S)[i] = <<>>
  BY DEF Bits
<1>3. <<>> \in Seq(Seq(X)) /\ FlattenSeq(<<>>) = <<>>
  BY DEF FlattenSeq
<1>4. FlattenSeq(<<>> \o Bits(q, S)) = FlattenSeq(<<>>)
  BY <1>1, <1>2, <1>3, FlattenNothing
<1>5. <<>> \o Bits(q, S) = Bits(q, S)
  BY <1>1, ConcatEmptySeq
<1> QED
  BY <1>3, <1>4, <1>5 DEF Only, Bits

LEMMA FlattenOne ==
    ASSUME NEW X, NEW q \in Seq(X)
    PROVE  FlattenSeq(<<q>>) = q
<1>1. <<>> \in Seq(Seq(X)) /\ FlattenSeq(<<>>) = <<>> /\ Append(<<>>, q) = <<q>>
  BY DEF FlattenSeq
<1>2. FlattenSeq(Append(<<>>, q)) = FlattenSeq(<<>>) \o q
  BY <1>1, FlattenAppend
<1> QED
  BY <1>1, <1>2, SMTT(30)

LEMMA OnlyOne ==
    ASSUME NEW n, NEW S
    PROVE  Only(<<n>>, S) = IF n \in S THEN <<n>> ELSE <<>>
<1>1. CASE n \in S
  <2>1. Bits(<<n>>, S) = <<<<n>>>>
    BY <1>1 DEF Bits
  <2>2. FlattenSeq(<<<<n>>>>) = <<n>>
    <3>1. <<n>> \in Seq({n})
      OBVIOUS
    <3> QED
      BY <3>1, FlattenOne
  <2> QED
    BY <1>1, <2>1, <2>2 DEF Only, Bits
<1>2. CASE n \notin S
  <2>1. <<n>> \in Seq({n}) /\ \A i \in DOMAIN <<n>> : <<n>>[i] \notin S
    BY <1>2
  <2> QED
    BY <1>2, <2>1, OnlyNothing
<1> QED
  BY <1>1, <1>2

LEMMA PrefixConcat ==
    ASSUME NEW X, NEW a \in Seq(X), NEW b \in Seq(X)
    PROVE  IsPrefix(a, a \o b)
<1>1. Len(a) \in Nat /\ Len(b) \in Nat /\ Len(a \o b) = Len(a) + Len(b)
  BY ConcatProperties
<1>2. CASE Len(a) = 0
  <2>1. SubSeq(a, 1, 0) = <<>> /\ SubSeq(a \o b, 1, 0) = <<>>
    BY SubSeqEmpty
  <2> QED
    BY <1>1, <1>2, <2>1 DEF IsPrefix
<1>3. CASE Len(a) # 0
  <2>1. 1 \in 1..Len(a) /\ Len(a) \in 1..Len(a)
    BY <1>1, <1>3
  <2>2. SubSeq(a \o b, 1, Len(a)) = SubSeq(a, 1, Len(a))
    BY <2>1, SubSeqOfConcat1
  <2> QED
    BY <1>1, <2>2 DEF IsPrefix
<1> QED
  BY <1>2, <1>3

-----------------------------------------------------------------------------
\* A sequence, apart at one of its elements.
LeftOf(F, c) == SubSeq(F, 1, c - 1)
RightOf(F, c) == SubSeq(F, c + 1, Len(F))

LEMMA Split ==
    ASSUME NEW Y, NEW F \in Seq(Y), NEW c \in 1..Len(F)
    PROVE  /\ LeftOf(F, c) \in Seq(Y) /\ RightOf(F, c) \in Seq(Y)
           /\ F[c] \in Y
           /\ RemoveAt(F, c) = LeftOf(F, c) \o RightOf(F, c)
           /\ F = (LeftOf(F, c) \o <<F[c]>>) \o RightOf(F, c)
           /\ Len(LeftOf(F, c)) = c - 1 /\ Len(RightOf(F, c)) = Len(F) - c
           /\ \A i \in 1..(c - 1) : LeftOf(F, c)[i] = F[i]
           /\ \A i \in 1..(Len(F) - c) : RightOf(F, c)[i] = F[c + i]
<1> DEFINE l == Len(F)
           a == LeftOf(F, c)
           b == <<F[c]>>
           d == RightOf(F, c)
<1>1. l \in Nat /\ c \in 1..l /\ c \in Nat /\ F[c] \in Y /\ \A i \in 1..l : F[i] \in Y
  OBVIOUS
<1>2. /\ a \in Seq(Y) /\ Len(a) = c - 1 /\ \A i \in 1..(c - 1) : a[i] = F[i]
  <2>1. /\ 1 \in Int /\ c - 1 \in Int /\ \A i \in 1..(c - 1) : F[i] \in Y
    BY <1>1
  <2>2. /\ a \in Seq(Y) /\ Len(a) = IF 1 <= c - 1 THEN (c - 1) - 1 + 1 ELSE 0
        /\ \A i \in 1..((c - 1) - 1 + 1) : a[i] = F[1 + i - 1]
    BY <2>1, SubSeqProperties DEF LeftOf
  <2> HIDE DEF a
  <2> QED
    BY <1>1, <2>2
<1>3. /\ d \in Seq(Y) /\ Len(d) = l - c /\ \A i \in 1..(l - c) : d[i] = F[c + i]
  <2>1. /\ c + 1 \in Int /\ l \in Int /\ \A i \in (c + 1)..l : F[i] \in Y
    BY <1>1
  <2>2. /\ d \in Seq(Y) /\ Len(d) = IF c + 1 <= l THEN l - (c + 1) + 1 ELSE 0
        /\ \A i \in 1..(l - (c + 1) + 1) : d[i] = F[c + 1 + i - 1]
    BY <2>1, SubSeqProperties DEF RightOf
  <2>3. \A i \in 1..(l - c) : c + 1 + i - 1 = c + i /\ i \in 1..(l - (c + 1) + 1)
    BY <1>1
  <2> HIDE DEF d
  <2> QED
    BY <1>1, <2>2, <2>3
<1>4. a \o d = RemoveAt(F, c)
  BY DEF RemoveAt, LeftOf, RightOf
<1>5. F = (a \o b) \o d
  <2> DEFINE ab == SubSeq(F, 1, c)
  <2>1. ab = a \o b
    <3>1. 1 \in 1..l /\ c \in 1..l
      BY <1>1
    <3> QED
      BY <3>1, SubSeqRecursiveSecond DEF LeftOf
  <2>2. 1 \in 1..(l + 1) /\ c \in (1 - 1)..l /\ l \in c..l
    BY <1>1
  <2>3. ab \o d = SubSeq(F, 1, l)
    BY <2>2, ConcatAdjacentSubSeq DEF RightOf
  <2>4. SubSeq(F, 1, l) = F
    BY SubSeqFull
  <2> QED
    BY <2>1, <2>3, <2>4
<1> QED
  BY <1>1, <1>2, <1>3, <1>4, <1>5

\* A sequence of sequences, and one sequence behind another.
Nested(F, X) == F \in Seq(Seq(X))
Chained(p, q) == p \o q

LEMMA ChainedTyped == \A X : \A p, q \in Seq(X) : Chained(p, q) \in Seq(X)
  BY ConcatProperties DEF Chained

LEMMA ChainedNothing == \A X : \A p \in Seq(X) : Chained(p, <<>>) = p /\ Chained(<<>>, p) = p
  BY ConcatEmptySeq DEF Chained

LEMMA ChainedAssociates ==
    \A X : \A p, q, r \in Seq(X) : Chained(Chained(p, q), r) = Chained(p, Chained(q, r))
  BY Associates DEF Chained

LEMMA NestedFlat ==
    \A X, F : Nested(F, X) =>
       FlattenSeq(F) \in Seq(X) /\ Len(F) \in Nat /\ \A i \in 1..Len(F) : F[i] \in Seq(X)
<1>1. SUFFICES ASSUME NEW X, NEW F, Nested(F, X)
               PROVE  FlattenSeq(F) \in Seq(X) /\ Len(F) \in Nat /\ \A i \in 1..Len(F) : F[i] \in Seq(X)
  OBVIOUS
<1>2. F \in Seq(Seq(X))
  BY <1>1 DEF Nested
<1>3. FlattenSeq(F) \in Seq(X)
  BY <1>2, FlattenTyped
<1> QED
  BY <1>2, <1>3

LEMMA NestedConcat ==
    \A X, F, G : Nested(F, X) /\ Nested(G, X) =>
       /\ Nested(Chained(F, G), X)
       /\ FlattenSeq(Chained(F, G)) = Chained(FlattenSeq(F), FlattenSeq(G))
<1>1. SUFFICES ASSUME NEW X, NEW F, NEW G, Nested(F, X), Nested(G, X)
               PROVE  /\ Nested(Chained(F, G), X)
                      /\ FlattenSeq(Chained(F, G)) = Chained(FlattenSeq(F), FlattenSeq(G))
  OBVIOUS
<1>2. F \in Seq(Seq(X)) /\ G \in Seq(Seq(X))
  BY <1>1 DEF Nested
<1>3. FlattenSeq(F \o G) = FlattenSeq(F) \o FlattenSeq(G)
  BY <1>2, FlattenConcat
<1>4. Chained(F, G) \in Seq(Seq(X))
  BY <1>2, ChainedTyped, Zenon
<1> QED
  BY <1>3, <1>4, Zenon DEF Nested, Chained

LEMMA NestedThree ==
    \A X, F, G, H : Nested(F, X) /\ Nested(G, X) /\ Nested(H, X) =>
       FlattenSeq(Chained(Chained(F, G), H))
         = Chained(Chained(FlattenSeq(F), FlattenSeq(G)), FlattenSeq(H))
  BY NestedConcat

LEMMA NestedOne == \A X : \A e \in Seq(X) : Nested(<<e>>, X) /\ FlattenSeq(<<e>>) = e
<1>1. SUFFICES ASSUME NEW X, NEW e \in Seq(X) PROVE Nested(<<e>>, X) /\ FlattenSeq(<<e>>) = e
  OBVIOUS
<1>2. \A Y : \A y \in Y : <<y>> \in Seq(Y)
  OBVIOUS
<1>3. <<e>> \in Seq(Seq(X))
  BY <1>2, Zenon
<1> QED
  BY <1>3, FlattenOne DEF Nested

LEMMA NestedEmpty ==
    \A X, F : Nested(F, X) /\ (\A i \in 1..Len(F) : F[i] = <<>>) => FlattenSeq(F) = <<>>
<1>1. SUFFICES ASSUME NEW X, NEW F, Nested(F, X), \A i \in 1..Len(F) : F[i] = <<>>
               PROVE  FlattenSeq(F) = <<>>
  OBVIOUS
<1>2. F \in Seq(Seq(X)) /\ DOMAIN F = 1..Len(F)
  BY <1>1 DEF Nested
<1>3. <<>> \in Seq(Seq(X)) /\ <<>> \o F = F
  BY <1>2, ConcatEmptySeq
<1>4. FlattenSeq(<<>>) = <<>>
  BY DEF FlattenSeq
<1>5. FlattenSeq(<<>> \o F) = FlattenSeq(<<>>)
  BY <1>1, <1>2, <1>3, FlattenNothing
<1> QED
  BY <1>3, <1>4, <1>5

Apart(F, c, X) ==
    /\ Nested(LeftOf(F, c), X) /\ Nested(RightOf(F, c), X) /\ F[c] \in Seq(X)
    /\ RemoveAt(F, c) = Chained(LeftOf(F, c), RightOf(F, c))
    /\ F = Chained(Chained(LeftOf(F, c), <<F[c]>>), RightOf(F, c))
    /\ Len(LeftOf(F, c)) = c - 1 /\ Len(RightOf(F, c)) = Len(F) - c
    /\ \A i \in 1..(c - 1) : LeftOf(F, c)[i] = F[i]
    /\ \A i \in 1..(Len(F) - c) : RightOf(F, c)[i] = F[c + i]

LEMMA NestedSplit == \A X, F : Nested(F, X) => \A c \in 1..Len(F) : Apart(F, c, X)
<1>1. SUFFICES ASSUME NEW X, NEW F, Nested(F, X), NEW c \in 1..Len(F) PROVE Apart(F, c, X)
  OBVIOUS
<1>2. F \in Seq(Seq(X))
  BY <1>1 DEF Nested
<1>3. /\ LeftOf(F, c) \in Seq(Seq(X)) /\ RightOf(F, c) \in Seq(Seq(X)) /\ F[c] \in Seq(X)
      /\ RemoveAt(F, c) = LeftOf(F, c) \o RightOf(F, c)
      /\ F = (LeftOf(F, c) \o <<F[c]>>) \o RightOf(F, c)
      /\ Len(LeftOf(F, c)) = c - 1 /\ Len(RightOf(F, c)) = Len(F) - c
      /\ \A i \in 1..(c - 1) : LeftOf(F, c)[i] = F[i]
      /\ \A i \in 1..(Len(F) - c) : RightOf(F, c)[i] = F[c + i]
  BY <1>1, <1>2, Split, ZenonT(60)
<1> QED
  BY <1>3, Zenon DEF Nested, Apart, Chained

\* What the three parts make.
Reassembled(F, c, X) ==
    /\ FlattenSeq(F) = Chained(Chained(FlattenSeq(LeftOf(F, c)), F[c]), FlattenSeq(RightOf(F, c)))
    /\ FlattenSeq(RemoveAt(F, c)) = Chained(FlattenSeq(LeftOf(F, c)), FlattenSeq(RightOf(F, c)))
    /\ FlattenSeq(LeftOf(F, c)) \in Seq(X) /\ FlattenSeq(RightOf(F, c)) \in Seq(X)
    /\ Nested(RemoveAt(F, c), X)
    /\ F[c] \in Seq(X)

LEMMA SplitFlat == \A X, F : Nested(F, X) => \A c \in 1..Len(F) : Reassembled(F, c, X)
<1>0. SUFFICES ASSUME NEW X, NEW F, Nested(F, X), NEW c \in 1..Len(F) PROVE Reassembled(F, c, X)
  OBVIOUS
<1> DEFINE a == LeftOf(F, c)
           b == <<F[c]>>
           d == RightOf(F, c)
           ab == Chained(a, b)
<1>1. Nested(a, X) /\ Nested(d, X) /\ F[c] \in Seq(X) /\ F = Chained(ab, d) /\ RemoveAt(F, c) = Chained(a, d)
  BY <1>0, NestedSplit DEF Apart
<1>2. Nested(b, X) /\ FlattenSeq(b) = F[c]
  BY <1>1, NestedOne
<1> HIDE DEF a, b, d
<1>4. FlattenSeq(Chained(Chained(a, b), d)) = Chained(Chained(FlattenSeq(a), FlattenSeq(b)), FlattenSeq(d))
  BY <1>1, <1>2, NestedThree
<1>5. FlattenSeq(Chained(a, d)) = Chained(FlattenSeq(a), FlattenSeq(d)) /\ Nested(Chained(a, d), X)
  BY <1>1, NestedConcat
<1>6. FlattenSeq(a) \in Seq(X) /\ FlattenSeq(d) \in Seq(X)
  BY <1>1, NestedFlat
<1> QED
  BY <1>1, <1>2, <1>4, <1>5, <1>6 DEF a, d, Reassembled

\* A sequence of sequences that loses one which nothing stands before.
LEMMA FlattenTaken ==
    \A X, F : Nested(F, X) => \A c \in 1..Len(F) :
       F[c] = <<>> \/ (\A i \in 1..Len(F) : i < c => F[i] = <<>>)
         => FlattenSeq(F) = Chained(F[c], FlattenSeq(RemoveAt(F, c)))
<1>0. SUFFICES ASSUME NEW X, NEW F, Nested(F, X), NEW c \in 1..Len(F),
                      F[c] = <<>> \/ \A i \in 1..Len(F) : i < c => F[i] = <<>>
               PROVE  FlattenSeq(F) = Chained(F[c], FlattenSeq(RemoveAt(F, c)))
  OBVIOUS
<1> DEFINE A == FlattenSeq(LeftOf(F, c))
           D == FlattenSeq(RightOf(F, c))
           e == F[c]
           R == FlattenSeq(RemoveAt(F, c))
<1>1. FlattenSeq(F) = Chained(Chained(A, e), D) /\ R = Chained(A, D) /\ A \in Seq(X) /\ D \in Seq(X) /\ e \in Seq(X)
  BY <1>0, SplitFlat DEF Reassembled
<1>2. e = <<>> \/ A = <<>>
  <2>1. SUFFICES ASSUME e # <<>> PROVE A = <<>>
    OBVIOUS
  <2>2. /\ Nested(LeftOf(F, c), X) /\ Len(LeftOf(F, c)) = c - 1
        /\ \A i \in 1..(c - 1) : LeftOf(F, c)[i] = F[i]
    <3>1. Apart(F, c, X)
      BY <1>0, NestedSplit
    <3> QED
      BY <3>1 DEF Apart
  <2>3. c \in Nat /\ Len(F) \in Nat /\ c <= Len(F)
    BY <1>0, NestedFlat
  <2>4. \A i \in 1..(c - 1) : LeftOf(F, c)[i] = <<>>
    BY <1>0, <2>1, <2>2, <2>3
  <2> QED
    BY <2>2, <2>4, NestedEmpty
<1> HIDE DEF A, D, e, R
<1>3. Chained(A, D) \in Seq(X)
  BY <1>1, ChainedTyped
<1>4. CASE e = <<>>
  <2>1. Chained(A, e) = A /\ Chained(e, R) = R
    BY <1>1, <1>3, <1>4, ChainedNothing
  <2> QED
    BY <1>1, <2>1 DEF R, e
<1>5. CASE A = <<>>
  <2>1. Chained(A, e) = e /\ R = D
    BY <1>1, <1>5, ChainedNothing
  <2> QED
    BY <1>1, <2>1 DEF R, e
<1> QED
  BY <1>2, <1>4, <1>5

\* One that gains something in its last element that is not empty.
Gains(F, G, c, e) ==
    /\ Len(G) = Len(F) /\ G[c] = Chained(F[c], e)
    /\ \A i \in 1..Len(F) : i # c => G[i] = F[i]
    /\ \A i \in 1..Len(F) : i > c => F[i] = <<>>

LEMMA FlattenGained ==
    \A X, F, G : Nested(F, X) /\ Nested(G, X) => \A c \in 1..Len(F), e \in Seq(X) :
       Gains(F, G, c, e) => FlattenSeq(G) = Chained(FlattenSeq(F), e)
<1>g. SUFFICES ASSUME NEW X, NEW F, NEW G, Nested(F, X), Nested(G, X), NEW c \in 1..Len(F), NEW e \in Seq(X),
                      Gains(F, G, c, e)
               PROVE  FlattenSeq(G) = Chained(FlattenSeq(F), e)
  OBVIOUS
<1>0. /\ Nested(F, X) /\ Nested(G, X) /\ c \in 1..Len(F)
      /\ Len(G) = Len(F) /\ G[c] = Chained(F[c], e)
      /\ \A i \in 1..Len(F) : i # c => G[i] = F[i]
      /\ \A i \in 1..Len(F) : i > c => F[i] = <<>>
  BY <1>g DEF Gains
<1> DEFINE a == LeftOf(F, c)
           d == RightOf(F, c)
           A == FlattenSeq(a)
           f == F[c]
<1>1. Len(F) \in Nat /\ c \in Nat /\ c \in 1..Len(F) /\ c \in 1..Len(G) /\ c <= Len(F)
  BY <1>0, NestedFlat
<1>2. /\ Nested(a, X) /\ Nested(d, X) /\ Len(a) = c - 1 /\ Len(d) = Len(F) - c
      /\ \A i \in 1..(c - 1) : a[i] = F[i]
      /\ \A i \in 1..(Len(F) - c) : d[i] = F[c + i]
  <2>1. Apart(F, c, X)
    BY <1>0, NestedSplit
  <2> QED
    BY <2>1 DEF Apart
<1>3. /\ Nested(LeftOf(G, c), X) /\ Nested(RightOf(G, c), X)
      /\ Len(LeftOf(G, c)) = c - 1 /\ Len(RightOf(G, c)) = Len(F) - c
      /\ \A i \in 1..(c - 1) : LeftOf(G, c)[i] = G[i]
      /\ \A i \in 1..(Len(F) - c) : RightOf(G, c)[i] = G[c + i]
  <2>1. Apart(G, c, X)
    BY <1>0, <1>1, NestedSplit
  <2> QED
    BY <1>0, <2>1 DEF Apart
<1> HIDE DEF a, d
<1>5. LeftOf(G, c) = a
  <2>1. ASSUME NEW i \in 1..(c - 1) PROVE a[i] = LeftOf(G, c)[i]
    <3>1. i \in 1..Len(F) /\ i # c
      BY <1>1
    <3>2. a[i] = F[i] /\ LeftOf(G, c)[i] = G[i]
      BY <1>2, <1>3
    <3> QED
      BY <1>0, <3>1, <3>2
  <2>2. LeftOf(G, c) \in Seq(Seq(X)) /\ a \in Seq(Seq(X)) /\ Len(a) = Len(LeftOf(G, c))
    BY <1>2, <1>3 DEF Nested
  <2>3. \A i \in 1..Len(a) : a[i] = LeftOf(G, c)[i]
    BY <1>2, <2>1
  <2> QED
    BY <2>2, <2>3, SeqEqual
<1>6. \A i \in 1..(Len(F) - c) : c + i \in 1..Len(F) /\ c + i > c /\ c + i # c
  BY <1>1
<1>7. RightOf(G, c) = d
  <2>1. \A i \in 1..(Len(F) - c) : d[i] = RightOf(G, c)[i]
    BY <1>0, <1>2, <1>3, <1>6
  <2>2. RightOf(G, c) \in Seq(Seq(X)) /\ d \in Seq(Seq(X)) /\ Len(d) = Len(RightOf(G, c))
    BY <1>2, <1>3 DEF Nested
  <2>3. \A i \in 1..Len(d) : d[i] = RightOf(G, c)[i]
    BY <1>2, <2>1
  <2> QED
    BY <2>2, <2>3, SeqEqual
<1>8. FlattenSeq(d) = <<>>
  <2>1. \A i \in 1..(Len(F) - c) : d[i] = <<>>
    BY <1>0, <1>2, <1>6
  <2> QED
    BY <1>2, <2>1, NestedEmpty
<1>9. FlattenSeq(F) = Chained(Chained(A, f), <<>>) /\ A \in Seq(X) /\ f \in Seq(X)
  BY <1>0, <1>8, SplitFlat DEF a, d, Reassembled
<1>10. FlattenSeq(G) = Chained(Chained(A, Chained(f, e)), <<>>)
  <2>1. FlattenSeq(G) = Chained(Chained(FlattenSeq(LeftOf(G, c)), G[c]), FlattenSeq(RightOf(G, c)))
    BY <1>0, <1>1, SplitFlat DEF Reassembled
  <2> QED
    BY <1>0, <1>5, <1>7, <1>8, <2>1
<1> HIDE DEF A, f
<1>12. Chained(A, f) \in Seq(X) /\ Chained(f, e) \in Seq(X)
  BY <1>9, ChainedTyped
<1>13. Chained(A, Chained(f, e)) \in Seq(X)
  BY <1>9, <1>12, ChainedTyped
<1>14. Chained(Chained(A, f), e) = Chained(A, Chained(f, e))
  BY <1>9, ChainedAssociates
<1> QED
  BY <1>9, <1>10, <1>12, <1>13, <1>14, ChainedNothing

\* A sequence of sequences that is known index by index: two behind one
\* another, and one without its element c.
MadeOf(H, F, G) ==
    /\ Len(H) = Len(F) + Len(G)
    /\ \A i \in 1..Len(F) : H[i] = F[i]
    /\ \A i \in 1..Len(G) : H[Len(F) + i] = G[i]
Without(H, F, c) ==
    /\ Len(H) = Len(F) - 1
    /\ \A i \in 1..Len(H) : H[i] = IF i < c THEN F[i] ELSE F[i + 1]

LEMMA FlattenMade ==
    \A X, F, G, H : Nested(F, X) /\ Nested(G, X) /\ Nested(H, X) /\ MadeOf(H, F, G)
       => FlattenSeq(H) = Chained(FlattenSeq(F), FlattenSeq(G))
<1>1. SUFFICES ASSUME NEW X, NEW F, NEW G, NEW H, Nested(F, X), Nested(G, X), Nested(H, X), MadeOf(H, F, G)
               PROVE  FlattenSeq(H) = Chained(FlattenSeq(F), FlattenSeq(G))
  OBVIOUS
<1>2. F \in Seq(Seq(X)) /\ G \in Seq(Seq(X)) /\ H \in Seq(Seq(X))
  BY <1>1 DEF Nested
<1> DEFINE K == Chained(F, G)
<1>3. Len(F) \in Nat /\ Len(G) \in Nat
  BY <1>2
<1>4. /\ K \in Seq(Seq(X)) /\ Len(K) = Len(F) + Len(G)
      /\ \A i \in 1..(Len(F) + Len(G)) : K[i] = IF i <= Len(F) THEN F[i] ELSE G[i - Len(F)]
  BY <1>2, ConcatProperties DEF Chained
<1> HIDE DEF K
<1>5. /\ Len(H) = Len(F) + Len(G)
      /\ \A i \in 1..Len(F) : H[i] = F[i]
      /\ \A i \in 1..Len(G) : H[Len(F) + i] = G[i]
  BY <1>1 DEF MadeOf
<1>6. ASSUME NEW i \in 1..Len(H) PROVE H[i] = K[i]
  <2>1. i \in 1..(Len(F) + Len(G)) /\ i \in Nat
    BY <1>3, <1>5
  <2>2. CASE i <= Len(F)
    <3>1. i \in 1..Len(F)
      BY <1>3, <2>1, <2>2
    <3> QED
      BY <1>4, <1>5, <2>1, <2>2, <3>1
  <2>3. CASE ~(i <= Len(F))
    <3> DEFINE j == i - Len(F)
    <3>1. j \in 1..Len(G) /\ Len(F) + j = i
      BY <1>3, <2>1, <2>3
    <3>2. K[i] = G[j]
      BY <1>4, <2>1, <2>3
    <3> HIDE DEF j
    <3>3. H[i] = G[j]
      BY <1>5, <3>1
    <3> QED
      BY <3>2, <3>3
  <2> QED
    BY <2>2, <2>3
<1>7. H = K
  <2>1. Len(H) = Len(K)
    BY <1>4, <1>5
  <2> QED
    BY <1>2, <1>4, <1>6, <2>1, SeqEqual
<1>8. FlattenSeq(K) = Chained(FlattenSeq(F), FlattenSeq(G))
  BY <1>1, NestedConcat DEF K
<1> QED
  BY <1>7, <1>8

LEMMA FlattenWithout ==
    \A X, F, H : Nested(F, X) /\ Nested(H, X) => \A c \in 1..Len(F) :
       Without(H, F, c) /\ (F[c] = <<>> \/ (\A i \in 1..Len(F) : i < c => F[i] = <<>>))
         => FlattenSeq(F) = Chained(F[c], FlattenSeq(H))
<1>1. SUFFICES ASSUME NEW X, NEW F, NEW H, Nested(F, X), Nested(H, X), NEW c \in 1..Len(F),
                      Without(H, F, c), F[c] = <<>> \/ (\A i \in 1..Len(F) : i < c => F[i] = <<>>)
               PROVE  FlattenSeq(F) = Chained(F[c], FlattenSeq(H))
  OBVIOUS
<1> DEFINE K == RemoveAt(F, c)
<1>2. FlattenSeq(F) = Chained(F[c], FlattenSeq(K))
  BY <1>1, FlattenTaken
<1>3. F \in Seq(Seq(X)) /\ H \in Seq(Seq(X)) /\ Len(F) \in Nat /\ c \in 1..Len(F)
  BY <1>1 DEF Nested
<1>4. K \in Seq(Seq(X))
  <2>1. Reassembled(F, c, X)
    BY <1>1, SplitFlat
  <2> QED
    BY <2>1 DEF Reassembled, Nested
<1> DEFINE a == LeftOf(F, c)
           d == RightOf(F, c)
<1>5. /\ K = a \o d /\ a \in Seq(Seq(X)) /\ d \in Seq(Seq(X))
      /\ Len(a) = c - 1 /\ Len(d) = Len(F) - c
      /\ \A i \in 1..(c - 1) : a[i] = F[i]
      /\ \A i \in 1..(Len(F) - c) : d[i] = F[c + i]
  <2>1. Apart(F, c, X)
    BY <1>1, NestedSplit
  <2> QED
    BY <2>1 DEF Apart, Nested, Chained
<1> HIDE DEF a, d
<1>6. /\ Len(K) = Len(a) + Len(d)
      /\ \A i \in 1..(Len(a) + Len(d)) : K[i] = IF i <= Len(a) THEN a[i] ELSE d[i - Len(a)]
  <2>1. a \in Seq(Seq(X)) /\ d \in Seq(Seq(X))
    BY <1>5
  <2>2. /\ Len(a \o d) = Len(a) + Len(d)
        /\ \A i \in 1..(Len(a) + Len(d)) : (a \o d)[i] = IF i <= Len(a) THEN a[i] ELSE d[i - Len(a)]
    BY <2>1, ConcatProperties
  <2> HIDE DEF K
  <2> QED
    BY <1>5, <2>2
<1> HIDE DEF K
<1>7. Len(K) = Len(F) - 1 /\ Len(a) = c - 1 /\ Len(a) + Len(d) = Len(F) - 1
  BY <1>3, <1>5, <1>6
<1>8. Len(H) = Len(F) - 1 /\ \A i \in 1..Len(H) : H[i] = IF i < c THEN F[i] ELSE F[i + 1]
  BY <1>1 DEF Without
<1>9. ASSUME NEW i \in 1..Len(H) PROVE H[i] = K[i]
  <2>1. i \in 1..(Len(F) - 1) /\ i \in Nat
    BY <1>3, <1>8
  <2>2. K[i] = IF i <= c - 1 THEN a[i] ELSE d[i - (c - 1)]
    BY <1>6, <1>7, <2>1
  <2>3. CASE i < c
    <3>1. i \in 1..(c - 1) /\ i <= c - 1
      BY <1>3, <2>1, <2>3
    <3> QED
      BY <1>5, <1>8, <2>2, <2>3, <3>1
  <2>4. CASE ~(i < c)
    <3> DEFINE j == i - (c - 1)
    <3>1. j \in 1..(Len(F) - c) /\ c + j = i + 1 /\ ~(i <= c - 1)
      BY <1>3, <2>1, <2>4
    <3>2. K[i] = d[j]
      BY <2>2, <3>1
    <3> HIDE DEF j
    <3>3. d[j] = F[c + j]
      BY <1>5, <3>1
    <3> QED
      BY <1>8, <2>4, <3>1, <3>2, <3>3
  <2> QED
    BY <2>3, <2>4
<1>10. H = K
  <2>1. Len(H) = Len(K)
    BY <1>7, <1>8
  <2> QED
    BY <1>3, <1>4, <1>9, <2>1, SeqEqual
<1> QED
  BY <1>2, <1>10
===============================================================================
