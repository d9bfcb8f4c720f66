------------------------------ MODULE FoldFacts ------------------------------
(***************************************************************************)
(* Facts about the folds of the community modules, which the proofs about  *)
(* sums and filtered sequences rest on.  A fold is a recursive function    *)
(* over the subsets of a finite set.  That it exists, and what it is, is   *)
(* shown for the least subset where it would fail: subsets of a finite set *)
(* are well-founded, so no induction over an operator is needed.           *)
(***************************************************************************)
EXTENDS Integers, Sequences, SequencesExt, FiniteSetsExt, FiniteSetTheorems, TLAPS

\* A family of subsets of a finite set has one with no smaller one in it.
LEMMA LeastSubset ==
  ASSUME NEW S, IsFiniteSet(S), NEW A, A \subseteq SUBSET S, A # {}
  PROVE  \E T \in A : \A U \in A : U \subseteq T => U = T
<1>1. A \subseteq FiniteSubsetsOf(S)
  <2>1. \A T \in SUBSET S : IsFiniteSet(T) BY FS_Subset
  <2> QED BY <2>1 DEF FiniteSubsetsOf
<1>2. IsWellFoundedOn(StrictSubsetOrdering(S), FiniteSubsetsOf(S))
  BY FS_StrictSubsetOrderingWellFounded
<1>3. PICK T \in A : \A U \in A : ~(<<U, T>> \in StrictSubsetOrdering(S))
  <2>1. \E T \in A : \A U \in A : ~(<<U, T>> \in StrictSubsetOrdering(S))
    BY <1>1, <1>2, WFMin, Zenon
  <2> QED BY <2>1
<1> QED BY <1>3 DEF StrictSubsetOrdering

\* The least number of a set is one of them.
LEMMA LeastIsMember ==
  ASSUME NEW A, A \subseteq Nat, A # {}
  PROVE  Min(A) \in A /\ \A k \in A : Min(A) <= k
<1>1. PICK n \in A : n \in Nat OBVIOUS
<1> DEFINE Low == {k \in A : k <= n}
           Below == {0..m : m \in Low}
<1>2. IsFiniteSet(0..n) /\ Below \subseteq SUBSET (0..n) /\ Below # {}
  <2>1. \A m \in Nat : IsFiniteSet(0..m) BY FS_Interval
  <2>2. n \in Low BY <1>1
  <2>3. \A k \in Low : 0..k \subseteq 0..n BY <1>1
  <2> HIDE DEF Low
  <2> QED BY <1>1, <2>1, <2>2, <2>3
<1>3. PICK x \in Below : \A y \in Below : y \subseteq x => y = x
  <2> DEFINE D == 0..n
  <2>1. IsFiniteSet(D) /\ Below \subseteq SUBSET D /\ Below # {} BY <1>2
  <2> HIDE DEF Below, D
  <2> QED BY <2>1, LeastSubset
<1>4. PICK m \in Low : x = 0..m OBVIOUS
<1>5. ASSUME NEW k \in A, k < m PROVE FALSE
  <2>1. k \in Nat /\ m \in Nat /\ k \in Low BY <1>1, <1>4, <1>5
  <2>2. 0..k \subseteq 0..m /\ m \in 0..m /\ m \notin 0..k BY <2>1, <1>5
  <2>3. 0..k \in Below BY <2>1
  <2> QED BY <1>3, <1>4, <2>1, <2>2, <2>3
<1>6. m \in A /\ \A k \in A : m <= k BY <1>5
<1> QED BY <1>6 DEF Min

\* What a fold computes: g[T] from an element of T and what g computes for the rest.
IsFold(g, S, V, base, pick, h) ==
  /\ g \in [SUBSET S -> V]
  /\ \A T \in SUBSET S : g[T] = IF T = {} THEN base ELSE h[<<pick[T], g[T \ {pick[T]}]>>]

\* Two folds agree where both are defined.
LEMMA FoldIsUnique ==
  ASSUME NEW S, IsFiniteSet(S), NEW V, NEW W, NEW base, NEW pick, NEW h,
         \A T \in SUBSET S : T # {} => pick[T] \in T,
         NEW f, NEW g, NEW R \in SUBSET S, NEW Q \in SUBSET S,
         IsFold(f, R, V, base, pick, h), IsFold(g, Q, W, base, pick, h)
  PROVE  \A T \in SUBSET (R \cap Q) : f[T] = g[T]
<1> DEFINE Bad == {T \in SUBSET (R \cap Q) : f[T] # g[T]}
<1> SUFFICES ASSUME Bad # {} PROVE FALSE OBVIOUS
<1>1. PICK T \in Bad : \A U \in Bad : U \subseteq T => U = T
  <2>1. Bad \subseteq SUBSET S OBVIOUS
  <2> HIDE DEF Bad
  <2> QED BY <2>1, LeastSubset
<1>2. T # {} BY <1>1 DEF IsFold
<1>3. pick[T] \in T BY <1>1, <1>2
<1>4. T \ {pick[T]} \notin Bad BY <1>1, <1>3
<1>5. f[T \ {pick[T]}] = g[T \ {pick[T]}] BY <1>1, <1>4
<1>6. f[T] = h[<<pick[T], f[T \ {pick[T]}]>>] /\ g[T] = h[<<pick[T], g[T \ {pick[T]}]>>]
  BY <1>1, <1>2 DEF IsFold
<1> QED BY <1>1, <1>5, <1>6

\* There is a fold.
LEMMA FoldExists ==
  ASSUME NEW S, IsFiniteSet(S), NEW V, NEW base \in V, NEW pick, NEW h,
         \A T \in SUBSET S : T # {} => pick[T] \in T,
         \A x \in S, v \in V : h[<<x, v>>] \in V
  PROVE  \E g : IsFold(g, S, V, base, pick, h)
<1> DEFINE Fold(T) == CHOOSE g : IsFold(g, T, V, base, pick, h)
           Bad == {T \in SUBSET S : ~\E g : IsFold(g, T, V, base, pick, h)}
<1> SUFFICES ASSUME Bad # {} PROVE FALSE OBVIOUS
<1>1. PICK B \in Bad : \A U \in Bad : U \subseteq B => U = B
  <2>1. Bad \subseteq SUBSET S OBVIOUS
  <2> HIDE DEF Bad
  <2> QED BY <2>1, LeastSubset
<1>2. \A T \in SUBSET B : T # B => IsFold(Fold(T), T, V, base, pick, h)
  <2> SUFFICES ASSUME NEW T \in SUBSET B, T # B PROVE IsFold(Fold(T), T, V, base, pick, h) OBVIOUS
  <2>1. \E g : IsFold(g, T, V, base, pick, h) BY <1>1
  <2> HIDE DEF Bad
  <2> QED BY <2>1
<1> DEFINE rest(T) == T \ {pick[T]}
           val(T) == IF T = {} THEN base ELSE h[<<pick[T], Fold(rest(T))[rest(T)]>>]
           g == [T \in SUBSET B |-> val(T)]
<1>3. \A T \in SUBSET B : T # {} => /\ pick[T] \in T /\ pick[T] \in S
                                    /\ rest(T) \in SUBSET B /\ rest(T) # B
  BY <1>1
<1>4. \A T \in SUBSET B : T # {} => Fold(rest(T))[rest(T)] \in V
  <2> SUFFICES ASSUME NEW T \in SUBSET B, T # {} PROVE Fold(rest(T))[rest(T)] \in V OBVIOUS
  <2>1. IsFold(Fold(rest(T)), rest(T), V, base, pick, h) BY <1>2, <1>3
  <2> HIDE DEF Fold, rest
  <2> QED BY <2>1 DEF IsFold
<1>5. \A T \in SUBSET B : val(T) \in V
  <2> HIDE DEF Fold, rest
  <2> QED BY <1>3, <1>4
<1>6. \A T \in SUBSET B : T # B => val(T) = Fold(T)[T]
  <2> SUFFICES ASSUME NEW T \in SUBSET B, T # B PROVE val(T) = Fold(T)[T] OBVIOUS
  <2>1. IsFold(Fold(T), T, V, base, pick, h) BY <1>2
  <2>2. Fold(T)[T] = IF T = {} THEN base ELSE h[<<pick[T], Fold(T)[rest(T)]>>]
    <3> HIDE DEF Fold
    <3> QED BY <2>1 DEF IsFold
  <2>3. T # {} => Fold(T)[rest(T)] = Fold(rest(T))[rest(T)]
    <3> SUFFICES ASSUME T # {} PROVE Fold(T)[rest(T)] = Fold(rest(T))[rest(T)] OBVIOUS
    <3>1. IsFold(Fold(rest(T)), rest(T), V, base, pick, h) BY <1>2, <1>3
    <3>2. T \in SUBSET S /\ rest(T) \in SUBSET S /\ rest(T) \in SUBSET (T \cap rest(T))
      BY <1>1
    <3> HIDE DEF Fold, rest, Bad
    <3> QED BY <2>1, <3>1, <3>2, FoldIsUnique
  <2> HIDE DEF Fold, rest
  <2> QED BY <2>2, <2>3
<1>7. \A T \in SUBSET B : g[T] = IF T = {} THEN base ELSE h[<<pick[T], g[rest(T)]>>]
  <2> SUFFICES ASSUME NEW T \in SUBSET B
               PROVE g[T] = IF T = {} THEN base ELSE h[<<pick[T], g[rest(T)]>>]
    OBVIOUS
  <2>1. CASE T = {} BY <2>1
  <2>2. CASE T # {}
    <3>1. rest(T) \in SUBSET B /\ rest(T) # B BY <1>3, <2>2
    <3>2. val(rest(T)) = Fold(rest(T))[rest(T)] BY <1>6, <3>1
    <3> HIDE DEF Fold, rest
    <3> QED BY <2>2, <3>1, <3>2
  <2> QED BY <2>1, <2>2
<1>8. IsFold(g, B, V, base, pick, h)
  <2>1. g \in [SUBSET B -> V] BY <1>5
  <2> HIDE DEF g
  <2> QED BY <1>7, <2>1 DEF IsFold
<1> QED BY <1>1, <1>8

-----------------------------------------------------------------------------
(* Sums.                                                                   *)

\* The sum of f over S.
SumOver(f, S) == MapThenSumSet(LAMBDA n : f[n], S)

\* The body of the recursive function that MapThenSumSet is.
SumsUp(c, f, S) ==
  c = [s \in SUBSET S |-> IF s = {} THEN 0
                          ELSE LET x == CHOOSE x \in s : TRUE IN f[x] + c[s \ {x}]]

\* What it computes for all subsets.
Sums(g, f, S) ==
  /\ g \in [SUBSET S -> Nat]
  /\ \A T \in SUBSET S : g[T] = IF T = {} THEN 0
                        ELSE LET x == CHOOSE x \in T : TRUE IN f[x] + g[T \ {x}]
  /\ \A T \in SUBSET S : SumOver(f, T) = g[T]

\* It is a fold of its terms.
LEMMA SumIsFold ==
  ASSUME NEW S, IsFiniteSet(S), NEW f, \A x \in S : f[x] \in Nat
  PROVE  \E g : Sums(g, f, S)
<1> DEFINE pick == [T \in SUBSET S |-> CHOOSE x \in T : TRUE]
           h == [p \in S \X Nat |-> f[p[1]] + p[2]]
<1>1. \A T \in SUBSET S : T # {} => pick[T] \in T /\ pick[T] = CHOOSE x \in T : TRUE
  OBVIOUS
<1>2. \A x \in S, v \in Nat : h[<<x, v>>] = f[x] + v /\ h[<<x, v>>] \in Nat OBVIOUS
<1>3. PICK g : IsFold(g, S, Nat, 0, pick, h)
  <2> HIDE DEF pick, h
  <2> QED BY <1>1, <1>2, FoldExists
<1>4. g \in [SUBSET S -> Nat] BY <1>3 DEF IsFold
<1>5. \A T \in SUBSET S : g[T] = IF T = {} THEN 0
                               ELSE LET x == CHOOSE x \in T : TRUE IN f[x] + g[T \ {x}]
  <2> SUFFICES ASSUME NEW T \in SUBSET S, T # {}
               PROVE  g[T] = f[pick[T]] + g[T \ {pick[T]}]
    BY <1>1, <1>3 DEF IsFold
  <2>1. pick[T] \in S /\ g[T \ {pick[T]}] \in Nat BY <1>1, <1>4
  <2> HIDE DEF pick, h
  <2> QED BY <1>2, <1>3, <2>1 DEF IsFold
<1>6. ASSUME NEW T \in SUBSET S PROVE SumOver(f, T) = g[T]
  <2> DEFINE c == CHOOSE c : SumsUp(c, f, T)
             k == [U \in SUBSET T |-> g[U]]
  <2>1. SumOver(f, T) = c[T] BY DEF SumOver, SumsUp, MapThenSumSet, MapThenFoldSet
  <2>2. SumsUp(k, f, T)
    <3>1. \A U \in SUBSET T : U # {} => /\ U \in SUBSET S /\ U \ {pick[U]} \in SUBSET T
                                        /\ pick[U] = CHOOSE x \in U : TRUE
      BY <1>1
    <3>2. \A U \in SUBSET T : k[U] = IF U = {} THEN 0
                                     ELSE LET x == CHOOSE x \in U : TRUE IN f[x] + k[U \ {x}]
      BY <1>5, <3>1
    <3> QED BY <3>2 DEF SumsUp
  <2>3. SumsUp(c, f, T)
    <3>1. \E d : SumsUp(d, f, T) BY <2>2
    <3> QED BY <3>1
  <2> HIDE DEF c
  <2>4. \A U \in SUBSET T : c[U] = IF U = {} THEN 0 ELSE f[pick[U]] + c[U \ {pick[U]}]
    BY <1>1, <2>3 DEF SumsUp
  <2> DEFINE Bad == {U \in SUBSET T : c[U] # g[U]}
  <2>5. Bad = {}
    <3> SUFFICES ASSUME Bad # {} PROVE FALSE OBVIOUS
    <3>1. PICK B \in Bad : \A U \in Bad : U \subseteq B => U = B
      <4>1. Bad \subseteq SUBSET S OBVIOUS
      <4> HIDE DEF Bad
      <4> QED BY <4>1, LeastSubset
    <3>2. B # {} BY <1>5, <2>4, <3>1
    <3>3. pick[B] \in B /\ B \in SUBSET S BY <1>1, <3>1, <3>2
    <3>4. c[B \ {pick[B]}] = g[B \ {pick[B]}] BY <3>1, <3>3
    <3>5. c[B] = f[pick[B]] + c[B \ {pick[B]}] BY <2>4, <3>1, <3>2
    <3>6. g[B] = f[pick[B]] + g[B \ {pick[B]}] BY <1>1, <1>5, <3>2, <3>3
    <3> QED BY <3>1, <3>4, <3>5, <3>6
  <2> QED BY <2>1, <2>5
<1> QED BY <1>4, <1>5, <1>6 DEF Sums

\* Any element may be taken out of a sum.
LEMMA SumStep ==
  ASSUME NEW S, IsFiniteSet(S), NEW f, \A x \in S : f[x] \in Nat
  PROVE  /\ SumOver(f, {}) = 0 /\ SumOver(f, S) \in Nat
         /\ \A x \in S : SumOver(f, S) = f[x] + SumOver(f, S \ {x})
<1>1. PICK g : Sums(g, f, S) BY SumIsFold
<1>2. \A T \in SUBSET S : T # {} => \E x \in T : g[T] = f[x] + g[T \ {x}]
  <2> SUFFICES ASSUME NEW T \in SUBSET S, T # {} PROVE \E x \in T : g[T] = f[x] + g[T \ {x}]
    OBVIOUS
  <2> DEFINE y == CHOOSE x \in T : TRUE
  <2>1. y \in T OBVIOUS
  <2>2. g[T] = f[y] + g[T \ {y}] BY <1>1 DEF Sums
  <2> HIDE DEF y
  <2> QED BY <2>1, <2>2
<1> DEFINE Bad == {T \in SUBSET S : \E x \in T : g[T] # f[x] + g[T \ {x}]}
<1>3. Bad = {}
  <2> SUFFICES ASSUME Bad # {} PROVE FALSE OBVIOUS
  <2>1. PICK B \in Bad : \A U \in Bad : U \subseteq B => U = B
    <3>1. Bad \subseteq SUBSET S OBVIOUS
    <3> HIDE DEF Bad
    <3> QED BY <3>1, LeastSubset
  <2>2. PICK x \in B : g[B] # f[x] + g[B \ {x}] BY <2>1
  <2>3. PICK y \in B : g[B] = f[y] + g[B \ {y}] BY <1>2, <2>1, <2>2
  <2>4. x # y BY <2>2, <2>3
  <2>5. B \ {x} \notin Bad /\ B \ {y} \notin Bad BY <2>1, <2>2, <2>3
  <2>6. g[B \ {y}] = f[x] + g[(B \ {y}) \ {x}] BY <2>1, <2>4, <2>5
  <2>7. g[B \ {x}] = f[y] + g[(B \ {x}) \ {y}] BY <2>1, <2>4, <2>5
  <2>8. (B \ {y}) \ {x} = (B \ {x}) \ {y} OBVIOUS
  <2>9. f[x] \in Nat /\ f[y] \in Nat /\ g[(B \ {x}) \ {y}] \in Nat BY <1>1, <2>1 DEF Sums
  <2> DEFINE z == g[(B \ {x}) \ {y}]
  <2>10. g[B] = f[y] + (f[x] + z) /\ g[B \ {x}] = f[y] + z /\ z \in Nat
    BY <2>3, <2>6, <2>7, <2>8, <2>9
  <2> HIDE DEF z
  <2> QED BY <2>2, <2>9, <2>10
<1>4. {} \in SUBSET S /\ S \in SUBSET S /\ \A x \in S : S \ {x} \in SUBSET S OBVIOUS
<1>5. SumOver(f, {}) = 0 /\ SumOver(f, S) \in Nat
  <2>1. g[{}] = 0 BY <1>1, <1>4 DEF Sums
  <2> QED BY <1>1, <1>4, <2>1 DEF Sums
<1>6. ASSUME NEW x \in S PROVE SumOver(f, S) = f[x] + SumOver(f, S \ {x})
  <2>1. g[S] = f[x] + g[S \ {x}] BY <1>3, <1>4
  <2> QED BY <1>1, <1>4, <2>1 DEF Sums
<1> QED BY <1>5, <1>6

\* An element that is added adds its number.
LEMMA SumOfMore ==
  ASSUME NEW S, IsFiniteSet(S), NEW y, y \notin S, NEW f, \A x \in S \cup {y} : f[x] \in Nat
  PROVE  SumOver(f, S \cup {y}) = SumOver(f, S) + f[y]
<1> DEFINE T == S \cup {y}
<1>1. IsFiniteSet(T) BY FS_AddElement
<1>2. T \ {y} = S /\ y \in T OBVIOUS
<1>3. SumOver(f, S) \in Nat /\ f[y] \in Nat BY SumStep
<1>4. \A x \in T : f[x] \in Nat OBVIOUS
<1> HIDE DEF T
<1>5. SumOver(f, T) = f[y] + SumOver(f, S) BY <1>1, <1>2, <1>4, SumStep
<1> QED BY <1>3, <1>5 DEF T

\* The sum over two sets that have no element in common is the sum of their sums.
LEMMA SumOfUnion ==
  ASSUME NEW S, IsFiniteSet(S), NEW R, IsFiniteSet(R), S \cap R = {},
         NEW f, \A x \in S \cup R : f[x] \in Nat
  PROVE  SumOver(f, S \cup R) = SumOver(f, S) + SumOver(f, R)
<1> DEFINE Bad == {T \in SUBSET R : SumOver(f, S \cup T) # SumOver(f, S) + SumOver(f, T)}
<1> SUFFICES ASSUME Bad # {} PROVE FALSE OBVIOUS
<1>1. PICK B \in Bad : \A U \in Bad : U \subseteq B => U = B
  <2>1. Bad \subseteq SUBSET R OBVIOUS
  <2> HIDE DEF Bad
  <2> QED BY <2>1, LeastSubset
<1>2. \A T \in SUBSET R : IsFiniteSet(T) /\ IsFiniteSet(S \cup T) BY FS_Subset, FS_Union
<1>3. SumOver(f, S) \in Nat BY SumStep
<1>4. B # {}
  <2> SUFFICES ASSUME B = {} PROVE FALSE OBVIOUS
  <2>1. SumOver(f, {}) = 0 BY SumStep
  <2>2. S \cup {} = S OBVIOUS
  <2>3. SumOver(f, S \cup {}) # SumOver(f, S) + SumOver(f, {}) BY <1>1
  <2> QED BY <1>3, <2>1, <2>2, <2>3
<1>5. PICK y \in B : TRUE BY <1>4
<1> DEFINE C == B \ {y}
           D == S \cup C
<1>6. C \in SUBSET R /\ C \notin Bad /\ y \notin C /\ y \notin D /\ C \cup {y} = B /\ D \cup {y} = S \cup B
  BY <1>1, <1>5
<1>7. IsFiniteSet(C) /\ IsFiniteSet(D) BY <1>2, <1>6
<1>8. SumOver(f, D) = SumOver(f, S) + SumOver(f, C) BY <1>6
<1>9. (\A x \in C \cup {y} : f[x] \in Nat) /\ (\A x \in D \cup {y} : f[x] \in Nat)
  BY <1>1, <1>6
<1>10. SumOver(f, B) # SumOver(f, B) + 0 \/ SumOver(f, S \cup B) # SumOver(f, S) + SumOver(f, B)
  BY <1>1
<1> HIDE DEF C, D
<1>11. SumOver(f, B) = SumOver(f, C) + f[y] BY <1>6, <1>7, <1>9, SumOfMore
<1>12. SumOver(f, S \cup B) = SumOver(f, D) + f[y] BY <1>6, <1>7, <1>9, SumOfMore
<1>13. SumOver(f, C) \in Nat /\ f[y] \in Nat BY <1>7, <1>9, SumStep
<1> QED BY <1>3, <1>8, <1>10, <1>11, <1>12, <1>13

\* A sum depends on the numbers it adds.
LEMMA SumOfSame ==
  ASSUME NEW S, IsFiniteSet(S), NEW f, NEW e, \A x \in S : f[x] \in Nat /\ e[x] = f[x]
  PROVE  SumOver(e, S) = SumOver(f, S)
<1> DEFINE Bad == {T \in SUBSET S : SumOver(e, T) # SumOver(f, T)}
<1> SUFFICES ASSUME Bad # {} PROVE FALSE OBVIOUS
<1>1. PICK B \in Bad : \A U \in Bad : U \subseteq B => U = B
  <2>1. Bad \subseteq SUBSET S OBVIOUS
  <2> HIDE DEF Bad
  <2> QED BY <2>1, LeastSubset
<1>2. IsFiniteSet(B) BY <1>1, FS_Subset
<1>3. SumOver(e, {}) = 0 /\ SumOver(f, {}) = 0 BY SumStep
<1>4. PICK y \in B : TRUE BY <1>1, <1>3
<1>5. B \ {y} \notin Bad /\ B \ {y} \in SUBSET S BY <1>1, <1>4
<1>6. (\A x \in B : f[x] \in Nat) /\ (\A x \in B : e[x] \in Nat) BY <1>1
<1>7. SumOver(e, B) = e[y] + SumOver(e, B \ {y}) BY <1>2, <1>6, SumStep
<1>8. SumOver(f, B) = f[y] + SumOver(f, B \ {y}) BY <1>2, <1>6, SumStep
<1>9. e[y] = f[y] BY <1>1, <1>4
<1> QED BY <1>1, <1>5, <1>7, <1>8, <1>9

\* A sum of smaller numbers is no larger.
LEMMA SumOfLess ==
  ASSUME NEW S, IsFiniteSet(S), NEW f, NEW e,
         \A x \in S : f[x] \in Nat /\ e[x] \in Nat /\ e[x] <= f[x]
  PROVE  SumOver(e, S) <= SumOver(f, S)
<1> DEFINE Bad == {T \in SUBSET S : ~(SumOver(e, T) <= SumOver(f, T))}
<1> SUFFICES ASSUME Bad # {} PROVE FALSE OBVIOUS
<1>1. PICK B \in Bad : \A U \in Bad : U \subseteq B => U = B
  <2>1. Bad \subseteq SUBSET S OBVIOUS
  <2> HIDE DEF Bad
  <2> QED BY <2>1, LeastSubset
<1>2. IsFiniteSet(B) BY <1>1, FS_Subset
<1>3. SumOver(e, {}) = 0 /\ SumOver(f, {}) = 0 BY SumStep
<1>4. PICK y \in B : TRUE
  <2>1. SumOver(e, {}) <= SumOver(f, {}) BY <1>3
  <2>2. B # {} BY <1>1, <2>1
  <2> QED BY <2>2
<1>5. B \ {y} \notin Bad /\ B \ {y} \in SUBSET S BY <1>1, <1>4
<1>6. (\A x \in B : f[x] \in Nat) /\ (\A x \in B : e[x] \in Nat) BY <1>1
<1>7. SumOver(e, B) = e[y] + SumOver(e, B \ {y}) BY <1>2, <1>6, SumStep
<1>8. SumOver(f, B) = f[y] + SumOver(f, B \ {y}) BY <1>2, <1>6, SumStep
<1>9. /\ e[y] \in Nat /\ f[y] \in Nat /\ e[y] <= f[y]
      /\ SumOver(e, B \ {y}) \in Nat /\ SumOver(f, B \ {y}) \in Nat
  <2>1. IsFiniteSet(B \ {y}) BY <1>2, FS_Subset
  <2>2. (\A x \in B \ {y} : f[x] \in Nat) /\ (\A x \in B \ {y} : e[x] \in Nat) BY <1>6
  <2>3. SumOver(e, B \ {y}) \in Nat /\ SumOver(f, B \ {y}) \in Nat BY <2>1, <2>2, SumStep
  <2> QED BY <1>1, <1>4, <2>3
<1> QED BY <1>1, <1>5, <1>7, <1>8, <1>9

\* ... and is larger by one at most if one of them is.
LEMMA SumOfOneMore ==
  ASSUME NEW S, IsFiniteSet(S), NEW y, NEW f, NEW e,
         \A x \in S : f[x] \in Nat /\ e[x] \in Nat,
         \A x \in S : e[x] <= IF x = y THEN f[x] + 1 ELSE f[x]
  PROVE  SumOver(e, S) <= SumOver(f, S) + 1
<1>1. SumOver(e, S) \in Nat /\ SumOver(f, S) \in Nat BY SumStep
<1>2. CASE y \in S
  <2> DEFINE R == S \ {y}
  <2>1. IsFiniteSet(R) BY FS_Subset
  <2>2. \A x \in R : f[x] \in Nat /\ e[x] \in Nat /\ e[x] <= f[x] OBVIOUS
  <2>3. SumOver(e, S) = e[y] + SumOver(e, R) /\ SumOver(f, S) = f[y] + SumOver(f, R)
    BY <1>2, SumStep
  <2>4. e[y] <= f[y] + 1 /\ e[y] \in Nat /\ f[y] \in Nat BY <1>2
  <2> HIDE DEF R
  <2>5. SumOver(e, R) <= SumOver(f, R) BY <2>1, <2>2, SumOfLess
  <2>6. SumOver(e, R) \in Nat /\ SumOver(f, R) \in Nat BY <2>1, <2>2, SumStep
  <2> QED BY <2>3, <2>4, <2>5, <2>6
<1>3. CASE y \notin S
  <2>1. \A x \in S : f[x] \in Nat /\ e[x] \in Nat /\ e[x] <= f[x] BY <1>3
  <2>2. SumOver(e, S) <= SumOver(f, S) BY <2>1, SumOfLess
  <2> QED BY <1>1, <2>2
<1> QED BY <1>2, <1>3

\* A sum of zeros is zero.
LEMMA SumOfZeros ==
  ASSUME NEW S, IsFiniteSet(S), NEW f, \A x \in S : f[x] = 0
  PROVE  SumOver(f, S) = 0
<1> DEFINE Bad == {T \in SUBSET S : SumOver(f, T) # 0}
<1> SUFFICES ASSUME Bad # {} PROVE FALSE OBVIOUS
<1>1. PICK B \in Bad : \A U \in Bad : U \subseteq B => U = B
  <2>1. Bad \subseteq SUBSET S OBVIOUS
  <2> HIDE DEF Bad
  <2> QED BY <2>1, LeastSubset
<1>2. IsFiniteSet(B) BY <1>1, FS_Subset
<1>3. SumOver(f, {}) = 0 BY SumStep
<1>4. PICK y \in B : TRUE BY <1>1, <1>3
<1>5. B \ {y} \notin Bad /\ B \ {y} \in SUBSET S BY <1>1, <1>4
<1>6. \A x \in B : f[x] \in Nat /\ f[x] = 0 BY <1>1
<1>7. SumOver(f, B) = f[y] + SumOver(f, B \ {y}) BY <1>2, <1>6, SumStep
<1> QED BY <1>1, <1>4, <1>5, <1>6, <1>7

\* A part of a sum, the rest of which is zeros or is left out.
LEMMA SumOfPart ==
  ASSUME NEW S, IsFiniteSet(S), NEW R, R \subseteq S, NEW f, \A x \in S : f[x] \in Nat
  PROVE  /\ SumOver(f, R) <= SumOver(f, S)
         /\ (\A x \in S \ R : f[x] = 0) => SumOver(f, R) = SumOver(f, S)
<1> DEFINE Q == S \ R
<1>1. IsFiniteSet(R) /\ IsFiniteSet(Q) /\ R \cap Q = {} /\ R \cup Q = S BY FS_Subset
<1>2. (\A x \in R \cup Q : f[x] \in Nat) /\ (\A x \in R : f[x] \in Nat) /\ (\A x \in Q : f[x] \in Nat)
  OBVIOUS
<1>3. (\A x \in S \ R : f[x] = 0) => (\A x \in Q : f[x] = 0) OBVIOUS
<1> HIDE DEF Q
<1>4. SumOver(f, R \cup Q) = SumOver(f, R) + SumOver(f, Q) BY <1>1, <1>2, SumOfUnion
<1>5. SumOver(f, R) \in Nat /\ SumOver(f, Q) \in Nat BY <1>1, <1>2, SumStep
<1>6. (\A x \in S \ R : f[x] = 0) => SumOver(f, Q) = 0 BY <1>1, <1>3, SumOfZeros
<1>7. SumOver(f, S) = SumOver(f, R) + SumOver(f, Q) BY <1>1, <1>4, Zenon
<1> QED BY <1>5, <1>6, <1>7

-----------------------------------------------------------------------------
(* A sequence without some elements.                                       *)

\* A sequence without the elements of gone.
Kept(s, gone) == FoldLeft(LAMBDA kept, n : IF n \in gone THEN kept ELSE Append(kept, n), <<>>, s)

\* A set of numbers up to n that is not empty has a greatest one.
LEMMA GreatestIsMember ==
  ASSUME NEW n \in Nat, NEW T \in SUBSET (1..n), T # {}
  PROVE  Max(T) \in T /\ \A k \in T : k <= Max(T)
<1> DEFINE A == {n - k : k \in T}
<1>1. A \subseteq Nat /\ A # {}
  <2>1. \A k \in T : n - k \in Nat OBVIOUS
  <2> QED BY <2>1
<1>2. Min(A) \in A /\ \A a \in A : Min(A) <= a
  <2> HIDE DEF A
  <2> QED BY <1>1, LeastIsMember
<1>3. PICK m \in T : Min(A) = n - m BY <1>2
<1>4. \A k \in T : n - m <= n - k BY <1>2, <1>3
<1>5. \A k \in T : k <= m BY <1>4
<1> QED BY <1>5 DEF Max

\* What the fold has after each element.
KeepsUp(r, s, gone, V) ==
  /\ r \in [0..Len(s) -> Seq(V)] /\ r[0] = <<>>
  /\ \A k \in 1..Len(s) : r[k] = IF s[k] \in gone THEN r[k - 1] ELSE Append(r[k - 1], s[k])
  /\ Kept(s, gone) = r[Len(s)]

\* The body of the recursive function that FoldLeft is.
KeepsBy(c, s, gone, D) ==
  c = [T \in SUBSET D |->
         IF T = {} THEN <<>>
         ELSE LET x == Max(T) IN IF s[x] \in gone THEN c[T \ {x}] ELSE Append(c[T \ {x}], s[x])]

\* Filtering is a fold, element after element.
LEMMA KeptIsFold ==
  ASSUME NEW V, NEW s \in Seq(V), NEW gone
  PROVE  \E r : KeepsUp(r, s, gone, V)
<1> DEFINE D == 1..Len(s)
           pick == [T \in SUBSET D |-> Max(T)]
           h == [p \in D \X Seq(V) |-> IF s[p[1]] \in gone THEN p[2] ELSE Append(p[2], s[p[1]])]
<1>1. Len(s) \in Nat /\ DOMAIN s = D /\ <<>> \in Seq(V) OBVIOUS
<1>2. IsFiniteSet(D) BY <1>1, FS_Interval
<1>3. \A T \in SUBSET D : T # {} => Max(T) \in T /\ (\A k \in T : k <= Max(T)) /\ pick[T] = Max(T)
  BY <1>1, GreatestIsMember
<1>4. \A x \in D, v \in Seq(V) :
        /\ h[<<x, v>>] = IF s[x] \in gone THEN v ELSE Append(v, s[x])
        /\ h[<<x, v>>] \in Seq(V)
  BY <1>1
<1>5. PICK g : IsFold(g, D, Seq(V), <<>>, pick, h)
  <2> HIDE DEF pick, h, D
  <2> QED BY <1>1, <1>2, <1>3, <1>4, FoldExists
<1>6. g \in [SUBSET D -> Seq(V)] BY <1>5 DEF IsFold
<1>7. \A T \in SUBSET D :
        g[T] = IF T = {} THEN <<>>
               ELSE IF s[Max(T)] \in gone THEN g[T \ {Max(T)}]
                                          ELSE Append(g[T \ {Max(T)}], s[Max(T)])
  <2> SUFFICES ASSUME NEW T \in SUBSET D, T # {}
               PROVE  g[T] = IF s[Max(T)] \in gone THEN g[T \ {Max(T)}]
                                                   ELSE Append(g[T \ {Max(T)}], s[Max(T)])
    BY <1>5 DEF IsFold
  <2> DEFINE m == Max(T)
  <2>1. m \in D /\ m = pick[T] /\ g[T \ {m}] \in Seq(V) BY <1>3, <1>6
  <2> HIDE DEF pick, h, D, m
  <2>2. g[T] = h[<<m, g[T \ {m}]>>] BY <1>5, <2>1 DEF IsFold
  <2>3. g[T] = IF s[m] \in gone THEN g[T \ {m}] ELSE Append(g[T \ {m}], s[m])
    BY <1>4, <2>1, <2>2
  <2> QED BY <2>3 DEF m
<1> DEFINE c == CHOOSE c : KeepsBy(c, s, gone, D)
<1>8. Kept(s, gone) = c[D]
  BY <1>1 DEF Kept, KeepsBy, FoldLeft, MapThenFoldSet
<1>9. KeepsBy(c, s, gone, D)
  <2>1. KeepsBy(g, s, gone, D)
    <3> HIDE DEF D, pick, h
    <3> QED BY <1>6, <1>7 DEF KeepsBy
  <2> HIDE DEF D
  <2> QED BY <2>1
<1>10. c[D] = g[D]
  <2> HIDE DEF c, pick, h
  <2> DEFINE Bad == {T \in SUBSET D : c[T] # g[T]}
  <2> SUFFICES ASSUME Bad # {} PROVE FALSE OBVIOUS
  <2> HIDE DEF D
  <2>1. PICK B \in Bad : \A U \in Bad : U \subseteq B => U = B
    <3>1. Bad \subseteq SUBSET D OBVIOUS
    <3> HIDE DEF Bad
    <3> QED BY <1>2, <3>1, LeastSubset
  <2> DEFINE m == Max(B)
  <2>2. \A T \in SUBSET D :
        c[T] = IF T = {} THEN <<>>
               ELSE IF s[Max(T)] \in gone THEN c[T \ {Max(T)}]
                                          ELSE Append(c[T \ {Max(T)}], s[Max(T)])
    BY <1>9 DEF KeepsBy
  <2>3. B # {} BY <1>7, <2>1, <2>2
  <2>4. m \in B BY <1>3, <2>1, <2>3
  <2> HIDE DEF m
  <2>5. c[B \ {m}] = g[B \ {m}] BY <2>1, <2>4
  <2>6. c[B] = IF s[m] \in gone THEN c[B \ {m}] ELSE Append(c[B \ {m}], s[m])
    BY <2>1, <2>2, <2>3 DEF m
  <2>7. g[B] = IF s[m] \in gone THEN g[B \ {m}] ELSE Append(g[B \ {m}], s[m])
    BY <1>7, <2>1, <2>3 DEF m
  <2> QED BY <2>1, <2>5, <2>6, <2>7
<1> DEFINE r == [k \in 0..Len(s) |-> g[1..k]]
<1>11. \A k \in 0..Len(s) : 1..k \in SUBSET D BY <1>1
<1>12. r \in [0..Len(s) -> Seq(V)] BY <1>6, <1>11
<1>13. r[0] = <<>>
  <2>1. 1..0 = {} /\ 0 \in 0..Len(s) BY <1>1
  <2> HIDE DEF D, pick, h
  <2> QED BY <1>7, <1>11, <2>1
<1>14. ASSUME NEW k \in 1..Len(s)
       PROVE  r[k] = IF s[k] \in gone THEN r[k - 1] ELSE Append(r[k - 1], s[k])
  <2>1. k \in 0..Len(s) /\ k - 1 \in 0..Len(s) /\ k \in 1..k BY <1>1
  <2>2. 1..k \in SUBSET D /\ 1..k # {} BY <1>11, <2>1
  <2>3. Max(1..k) \in 1..k /\ k <= Max(1..k) BY <1>3, <2>1, <2>2
  <2>4. Max(1..k) = k BY <2>1, <2>3
  <2>5. (1..k) \ {k} = 1..(k - 1) BY <1>1
  <2> DEFINE J == 1..k
             I == 1..(k - 1)
  <2>6. r[k] = g[J] /\ r[k - 1] = g[I] BY <2>1
  <2>7. J \in SUBSET D /\ J # {} /\ Max(J) = k /\ J \ {k} = I BY <2>2, <2>4, <2>5
  <2> HIDE DEF J, I, D, pick, h, r
  <2>8. g[J] = IF s[k] \in gone THEN g[I] ELSE Append(g[I], s[k]) BY <1>7, <2>7
  <2> QED BY <2>6, <2>8
<1>15. Kept(s, gone) = r[Len(s)]
  <2>1. Len(s) \in 0..Len(s) BY <1>1
  <2> HIDE DEF c, pick, h
  <2> QED BY <1>8, <1>10, <2>1
<1> QED BY <1>12, <1>13, <1>14, <1>15 DEF KeepsUp

\* What is kept are the other elements, each as often as before, and the last
\* is still the last if it is kept.
LEMMA KeptIs ==
  ASSUME NEW V, NEW s \in Seq(V), NEW gone
  PROVE  /\ Kept(s, gone) \in Seq(V)
         /\ ToSet(Kept(s, gone)) = ToSet(s) \ gone
         /\ (\A i, j \in DOMAIN s : s[i] = s[j] => i = j) =>
              \A i, j \in DOMAIN Kept(s, gone) : Kept(s, gone)[i] = Kept(s, gone)[j] => i = j
         /\ s # <<>> /\ Last(s) \notin gone =>
              Kept(s, gone) # <<>> /\ Last(Kept(s, gone)) = Last(s)
<1>1. PICK r : KeepsUp(r, s, gone, V) BY KeptIsFold
<1> DEFINE n == Len(s)
           Right(k) == /\ \A x : (\E i \in DOMAIN r[k] : r[k][i] = x)
                                 <=> x \notin gone /\ \E i \in 1..k : s[i] = x
                       /\ (\A i, j \in 1..k : s[i] = s[j] => i = j) =>
                            \A i, j \in DOMAIN r[k] : r[k][i] = r[k][j] => i = j
           Bad == {k \in 0..n : ~Right(k)}
<1>2. n \in Nat /\ DOMAIN s = 1..n OBVIOUS
<1>3. Bad = {}
  <2> SUFFICES ASSUME Bad # {} PROVE FALSE OBVIOUS
  <2>1. Bad \subseteq Nat BY <1>2
  <2>2. PICK k \in Bad : \A j \in Bad : k <= j
    <3> HIDE DEF Bad
    <3> QED BY <2>1, LeastIsMember
  <2>3. k # 0
    <3>1. r[0] = <<>> /\ 1..0 = {} BY <1>1 DEF KeepsUp
    <3>2. Right(0) BY <3>1
    <3> QED BY <2>2, <3>2
  <2>4. k \in 1..n /\ k - 1 \in 0..n /\ k - 1 \notin Bad
    <3>1. k \in 0..n BY <2>2
    <3> HIDE DEF Bad
    <3>2. k \in 1..n /\ k - 1 \in 0..n BY <1>2, <2>3, <3>1
    <3>3. k - 1 \notin Bad BY <1>2, <2>2, <3>2
    <3> QED BY <3>2, <3>3
  <2>5. Right(k - 1) BY <2>4
  <2>6. r[k - 1] \in Seq(V) /\ r[k] \in Seq(V) /\ s[k] \in V
    <3>1. k \in 0..n BY <1>2, <2>4
    <3>2. r[k - 1] \in Seq(V) /\ r[k] \in Seq(V) BY <1>1, <2>4, <3>1 DEF KeepsUp
    <3>3. s[k] \in V BY <1>2, <2>4
    <3> QED BY <3>2, <3>3
  <2>7. r[k] = IF s[k] \in gone THEN r[k - 1] ELSE Append(r[k - 1], s[k])
    BY <1>1, <2>4 DEF KeepsUp
  <2>8. 1..k = (1..(k - 1)) \cup {k} BY <1>2, <2>4
  <2> DEFINE q == r[k - 1]
             p == r[k]
             I == 1..(k - 1)
             J == 1..k
  <2>9. /\ \A x : (\E i \in DOMAIN q : q[i] = x) <=> x \notin gone /\ \E i \in I : s[i] = x
        /\ (\A i, j \in I : s[i] = s[j] => i = j) => \A i, j \in DOMAIN q : q[i] = q[j] => i = j
    BY <2>5
  <2>10. q \in Seq(V) /\ p = (IF s[k] \in gone THEN q ELSE Append(q, s[k])) /\ J = I \cup {k} /\ k \notin I
    BY <1>2, <2>4, <2>6, <2>7, <2>8
  <2> HIDE DEF q, p, I, J
  <2>11. \A x : (\E i \in DOMAIN p : p[i] = x) <=> x \notin gone /\ \E i \in J : s[i] = x
    <3>1. CASE s[k] \in gone BY <2>9, <2>10, <3>1
    <3>2. CASE s[k] \notin gone
      <4>1. /\ DOMAIN p = 1..(Len(q) + 1) /\ DOMAIN q = 1..Len(q) /\ Len(q) \in Nat
            /\ p[Len(q) + 1] = s[k] /\ \A i \in DOMAIN q : p[i] = q[i]
        BY <2>6, <2>10, <3>2
      <4>2. DOMAIN p = DOMAIN q \cup {Len(q) + 1} BY <4>1
      <4>3. \A x : (\E i \in DOMAIN p : p[i] = x) <=> (\E i \in DOMAIN q : q[i] = x) \/ x = s[k]
        BY <4>1, <4>2
      <4>4. \A x : (\E i \in J : s[i] = x) <=> (\E i \in I : s[i] = x) \/ x = s[k]
        BY <2>10
      <4> QED BY <2>9, <3>2, <4>3, <4>4
    <3> QED BY <3>1, <3>2
  <2>12. (\A i, j \in J : s[i] = s[j] => i = j) => \A i, j \in DOMAIN p : p[i] = p[j] => i = j
    <3> SUFFICES ASSUME \A i, j \in J : s[i] = s[j] => i = j
                 PROVE  \A i, j \in DOMAIN p : p[i] = p[j] => i = j
      OBVIOUS
    <3>1. \A i, j \in DOMAIN q : q[i] = q[j] => i = j BY <2>9, <2>10
    <3>2. CASE s[k] \in gone BY <2>10, <3>1, <3>2
    <3>3. CASE s[k] \notin gone
      <4>1. /\ DOMAIN p = DOMAIN q \cup {Len(q) + 1} /\ p[Len(q) + 1] = s[k]
            /\ \A i \in DOMAIN q : p[i] = q[i]
        BY <2>6, <2>10, <3>3
      <4>2. \A i \in DOMAIN q : q[i] # s[k] BY <2>9, <2>10
      <4> QED BY <3>1, <4>1, <4>2
    <3> QED BY <3>2, <3>3
  <2>13. Right(k) BY <2>11, <2>12 DEF p, J
  <2> QED BY <2>2, <2>13
<1>4. Right(n) BY <1>2, <1>3
<1>5. Kept(s, gone) = r[n] /\ r[n] \in Seq(V) BY <1>1, <1>2 DEF KeepsUp
<1>6. \A x : x \in ToSet(s) <=> \E i \in 1..n : s[i] = x BY <1>2 DEF ToSet
<1>7. \A x : x \in ToSet(r[n]) <=> \E i \in DOMAIN r[n] : r[n][i] = x BY DEF ToSet
<1>8. ToSet(r[n]) = ToSet(s) \ gone BY <1>4, <1>6, <1>7
<1>9. s # <<>> /\ Last(s) \notin gone => r[n] # <<>> /\ Last(r[n]) = Last(s)
  <2> SUFFICES ASSUME s # <<>>, s[n] \notin gone PROVE r[n] # <<>> /\ Last(r[n]) = s[n]
    BY DEF Last
  <2>1. n \in 1..n /\ r[n - 1] \in Seq(V) /\ s[n] \in V BY <1>1, <1>2 DEF KeepsUp
  <2>2. r[n] = Append(r[n - 1], s[n]) BY <1>1, <2>1 DEF KeepsUp
  <2> HIDE DEF n
  <2> QED BY <2>1, <2>2 DEF Last
<1> QED BY <1>2, <1>4, <1>5, <1>8, <1>9

\* What h makes at a number of a function depends on its values at greater ones.
FromAbove(h, N, V) ==
  /\ h \in [(1..N) \X [1..N -> V] -> V]
  /\ \A n \in 1..N : \A f, g \in [1..N -> V] :
        (\A c \in 1..N : n < c => f[c] = g[c]) => h[<<n, f>>] = h[<<n, g>>]

\* A function that is defined in this way exists.
LEMMA RecursionFromAbove ==
  ASSUME NEW N \in Nat, NEW V, NEW base \in V, NEW h, FromAbove(h, N, V)
  PROVE  \E r \in [1..N -> V] : \A n \in 1..N : r[n] = h[<<n, r>>]
<1> USE DEF FromAbove
<1> DEFINE Right(k) == \E r \in [1..N -> V] : \A n \in 1..N : N < n + k => r[n] = h[<<n, r>>]
           Bad == {k \in 0..N : ~Right(k)}
<1>1. Bad = {}
  <2> SUFFICES ASSUME Bad # {} PROVE FALSE OBVIOUS
  <2>1. PICK k \in Bad : \A j \in Bad : k <= j
    <3>1. Bad \subseteq Nat OBVIOUS
    <3> HIDE DEF Bad
    <3> QED BY <3>1, LeastIsMember
  <2>2. k # 0
    <3>1. [n \in 1..N |-> base] \in [1..N -> V] OBVIOUS
    <3>2. \A n \in 1..N : ~(N < n + 0) OBVIOUS
    <3>3. Right(0) BY <3>1, <3>2
    <3> QED BY <2>1, <3>3
  <2>3. k \in 1..N /\ k - 1 \in 0..N /\ k - 1 \notin Bad
    <3>1. k \in 0..N BY <2>1
    <3> HIDE DEF Bad
    <3>2. k \in 1..N /\ k - 1 \in 0..N BY <2>2, <3>1
    <3>3. k - 1 \notin Bad BY <2>1, <3>2
    <3> QED BY <3>2, <3>3
  <2>4. PICK r \in [1..N -> V] : \A n \in 1..N : N < n + (k - 1) => r[n] = h[<<n, r>>] BY <2>3
  <2> DEFINE m == N - k + 1
             q == [r EXCEPT ![m] = h[<<m, r>>]]
  <2>5. m \in 1..N BY <2>3
  <2>6. q \in [1..N -> V]
    <3>1. h[<<m, r>>] \in V BY <2>5
    <3> HIDE DEF m
    <3> QED BY <3>1
  <2>7. \A n \in 1..N : q[n] = IF n = m THEN h[<<m, r>>] ELSE r[n]
    <3> HIDE DEF m
    <3> QED BY <2>5
  <2>8. ASSUME NEW n \in 1..N, N < n + k PROVE q[n] = h[<<n, q>>]
    <3>1. m <= n BY <2>3, <2>8
    <3> HIDE DEF q
    <3>2. ASSUME NEW c \in 1..N, n < c PROVE q[c] = r[c]
      <4>1. m \in Int BY <2>5
      <4> HIDE DEF m
      <4>2. c # m BY <3>1, <3>2, <4>1
      <4> QED BY <2>7, <4>2
    <3>3. h[<<n, q>>] = h[<<n, r>>] BY <2>6, <3>2
    <3>4. CASE n = m BY <2>7, <3>3, <3>4
    <3>5. CASE n # m
      <4>1. N < n + (k - 1) BY <2>3, <3>1, <3>5
      <4>2. r[n] = h[<<n, r>>] BY <2>4, <4>1
      <4> QED BY <2>7, <3>3, <3>5, <4>2
    <3> QED BY <3>4, <3>5
  <2>9. Right(k)
    <3> HIDE DEF q
    <3> QED BY <2>6, <2>8
  <2> HIDE DEF Right
  <2>10. k \notin Bad BY <2>9
  <2> QED BY <2>1, <2>10
<1>2. Right(N)
  <2> HIDE DEF Right
  <2> QED BY <1>1
<1>3. \A n \in 1..N : N < n + N OBVIOUS
<1> QED BY <1>2, <1>3

\* What a sequence has after an element was appended.
LEMMA Appended ==
  ASSUME NEW V, NEW s \in Seq(V), NEW x \in V
  PROVE  /\ Append(s, x) \in Seq(V) /\ Append(s, x) # <<>> /\ Last(Append(s, x)) = x
         /\ ToSet(Append(s, x)) = ToSet(s) \cup {x}
<1>1. /\ Append(s, x) \in Seq(V) /\ Len(Append(s, x)) = Len(s) + 1 /\ Len(s) \in Nat
      /\ \A i \in 1..(Len(s) + 1) : Append(s, x)[i] = IF i = Len(s) + 1 THEN x ELSE s[i]
  OBVIOUS
<1>2. Append(s, x) # <<>> BY <1>1
<1>3. ToSet(Append(s, x)) = ToSet(s) \cup {x}
  <2>1. ToSet(Append(s, x)) \subseteq ToSet(s) \cup {x} BY <1>1 DEF ToSet
  <2>2. ToSet(s) \subseteq ToSet(Append(s, x)) BY <1>1 DEF ToSet
  <2>3. x \in ToSet(Append(s, x)) BY <1>1 DEF ToSet
  <2> QED BY <2>1, <2>2, <2>3
<1> QED BY <1>1, <1>2, <1>3 DEF Last
=============================================================================
