--------------------------- MODULE VaultPageProofs ---------------------------
(***************************************************************************)
(* The sums a page shows, for any coins, proposals and requests: what it   *)
(* calls spendable is free of proposals in flight, and its rows add up to  *)
(* its balance but for what the wallet learned between the two.            *)
(***************************************************************************)
EXTENDS VaultRequestProofs, WellFoundedInduction

-----------------------------------------------------------------------------
(* Sums over finite sets *)

IsFold(g, v, S) ==
  g = [s \in SUBSET S |-> IF s = {} THEN 0
                          ELSE v[CHOOSE x \in s : TRUE] + g[s \ {CHOOSE x \in s : TRUE}]]

Total(v, S) == MapThenSumSet(LAMBDA x : v[x], S)

\* Induction, as a fact about sets of numbers: the library has it for predicates.
LEMMA NatSetInduction ==
  ASSUME NEW T, 0 \in T, \A n \in Nat : n \in T => n + 1 \in T
  PROVE  Nat \subseteq T
<1> SUFFICES ASSUME Nat \ T # {} PROVE FALSE
  OBVIOUS
<1>1. \E n \in Nat \ T : \A m \in Nat \ T : <<m, n>> \notin OpToRel(<, Nat)
  <2> HIDE DEF OpToRel
  <2> QED BY WFMin, NatLessThanWellFounded, Zenon
<1>2. PICK n \in Nat \ T : \A m \in Nat \ T : <<m, n>> \notin OpToRel(<, Nat)
  BY <1>1
<1>3. n # 0 /\ n - 1 \in Nat /\ (n - 1) + 1 = n /\ n - 1 < n
  OBVIOUS
<1>4. n - 1 \in T
  BY <1>2, <1>3 DEF OpToRel
<1> QED BY <1>3, <1>4

\* Taking one element out of a finite set leaves a smaller one.
LEMMA Smaller ==
  ASSUME NEW s, IsFiniteSet(s), NEW x \in s
  PROVE  IsFiniteSet(s \ {x}) /\ Cardinality(s) \in Nat /\ Cardinality(s \ {x}) \in Nat
         /\ Cardinality(s) = Cardinality(s \ {x}) + 1
<1>1. IsFiniteSet(s \ {x}) /\ Cardinality(s \ {x}) = Cardinality(s) - 1
  BY FS_RemoveElement
<1>2. Cardinality(s) \in Nat /\ Cardinality(s \ {x}) \in Nat
  BY <1>1, FS_CardinalityType
<1> QED BY <1>1, <1>2

LEMMA FoldAgrees ==
  ASSUME NEW S, NEW T, NEW v, NEW w, NEW g, NEW h, IsFold(g, v, S), IsFold(h, w, T),
         NEW s \in SUBSET (S \cap T), IsFiniteSet(s), \A x \in s : v[x] = w[x]
  PROVE  g[s] = h[s]
<1> DEFINE Agree == {n \in Nat : \A t \in SUBSET s : Cardinality(t) = n => g[t] = h[t]}
<1>a. \A t \in SUBSET s : IsFiniteSet(t)
  BY FS_Subset
<1>b. \A t \in SUBSET s : g[t] = IF t = {} THEN 0
          ELSE v[CHOOSE x \in t : TRUE] + g[t \ {CHOOSE x \in t : TRUE}]
  <2> TAKE t \in SUBSET s
  <2> t \in SUBSET S OBVIOUS
  <2> QED BY DEF IsFold
<1>c. \A t \in SUBSET s : h[t] = IF t = {} THEN 0
          ELSE w[CHOOSE x \in t : TRUE] + h[t \ {CHOOSE x \in t : TRUE}]
  <2> TAKE t \in SUBSET s
  <2> t \in SUBSET T OBVIOUS
  <2> QED BY DEF IsFold
<1>1. 0 \in Agree
  <2> SUFFICES ASSUME NEW t \in SUBSET s, Cardinality(t) = 0 PROVE g[t] = h[t]
    OBVIOUS
  <2> t = {} BY <1>a, FS_EmptySet
  <2> QED BY <1>b, <1>c
<1>2. ASSUME NEW n \in Nat, n \in Agree PROVE n + 1 \in Agree
  <2> SUFFICES ASSUME NEW t \in SUBSET s, Cardinality(t) = n + 1 PROVE g[t] = h[t]
    OBVIOUS
  <2> DEFINE x == CHOOSE x \in t : TRUE
  <2>1. t # {} BY FS_EmptySet
  <2>2. x \in t BY <2>1
  <2> HIDE DEF x
  <2>3. Cardinality(t \ {x}) = n
    BY <2>2, <1>a, Smaller
  <2>4. g[t \ {x}] = h[t \ {x}]
    BY <2>3, <1>2
  <2>5. v[x] = w[x]
    BY <2>2
  <2> QED BY <1>b, <1>c, <2>1, <2>4, <2>5 DEF x
<1>3. Nat \subseteq Agree
  <2> HIDE DEF Agree
  <2> QED BY <1>1, <1>2, NatSetInduction
<1> QED BY <1>3, <1>a, FS_CardinalityType

LEMMA FoldExists ==
  ASSUME NEW S, IsFiniteSet(S), NEW v
  PROVE  \E g : IsFold(g, v, S)
<1> DEFINE Upto(n) == {s \in SUBSET S : Cardinality(s) <= n}
           Some(s) == CHOOSE x \in s : TRUE
           Sums(g, s) == IF s = {} THEN 0 ELSE v[Some(s)] + g[s \ {Some(s)}]
           Built == {n \in Nat : \E g : g = [s \in Upto(n) |-> Sums(g, s)]}
<1>a. \A s \in SUBSET S : IsFiniteSet(s) /\ Cardinality(s) \in Nat
  BY FS_Subset, FS_CardinalityType
<1>b. \A s \in SUBSET S : s # {} =>
        /\ Some(s) \in s
        /\ Cardinality(s) = Cardinality(s \ {Some(s)}) + 1
        /\ s \ {Some(s)} \in SUBSET S
  <2> SUFFICES ASSUME NEW s \in SUBSET S, s # {}
               PROVE  Some(s) \in s /\ Cardinality(s) = Cardinality(s \ {Some(s)}) + 1
    OBVIOUS
  <2>1. Some(s) \in s OBVIOUS
  <2> HIDE DEF Some
  <2> QED BY <2>1, <1>a, Smaller
<1> HIDE DEF Some
<1>1. 0 \in Built
  <2>1. \A s \in Upto(0) : s = {}
    BY <1>a, FS_EmptySet
  <2> DEFINE g == [s \in Upto(0) |-> 0]
  <2>2. g = [s \in Upto(0) |-> Sums(g, s)]
    BY <2>1, Zenon
  <2> QED BY <2>2
<1>2. ASSUME NEW n \in Nat, n \in Built PROVE n + 1 \in Built
  <2>1. PICK g : g = [s \in Upto(n) |-> Sums(g, s)]
    BY <1>2
  <2> DEFINE h == [s \in Upto(n + 1) |-> Sums(g, s)]
  <2>2. \A s \in Upto(n) : s \in Upto(n + 1) /\ h[s] = g[s]
    <3> SUFFICES ASSUME NEW s \in Upto(n) PROVE s \in Upto(n + 1) /\ h[s] = g[s]
      OBVIOUS
    <3>1. s \in Upto(n + 1) BY <1>a
    <3>2. g[s] = Sums(g, s) BY <2>1, Zenon
    <3>3. h[s] = Sums(g, s) BY <3>1, Zenon
    <3> QED BY <3>1, <3>2, <3>3
  <2>3. \A s \in Upto(n + 1) : s # {} => s \ {Some(s)} \in Upto(n)
    <3> SUFFICES ASSUME NEW s \in Upto(n + 1), s # {}
                 PROVE  Cardinality(s \ {Some(s)}) <= n /\ s \ {Some(s)} \in SUBSET S
      OBVIOUS
    <3> QED BY <1>a, <1>b
  <2>4. \A s \in Upto(n + 1) : Sums(h, s) = Sums(g, s)
    <3> SUFFICES ASSUME NEW s \in Upto(n + 1) PROVE Sums(h, s) = Sums(g, s)
      OBVIOUS
    <3> HIDE DEF h, Upto
    <3>1. s # {} => h[s \ {Some(s)}] = g[s \ {Some(s)}]
      BY <2>2, <2>3
    <3> QED BY <3>1
  <2>5. h = [s \in Upto(n + 1) |-> Sums(h, s)]
    <3> HIDE DEF Sums, Upto
    <3> QED BY <2>4, Zenon
  <2>6. \E f : f = [s \in Upto(n + 1) |-> Sums(f, s)]
    <3> HIDE DEF h, Sums, Upto
    <3> QED BY <2>5
  <2>7. n + 1 \in Nat OBVIOUS
  <2> HIDE DEF h, Sums, Upto
  <2> QED BY <2>6, <2>7
<1>3. Nat \subseteq Built
  <2> HIDE DEF Built
  <2> QED BY <1>1, <1>2, NatSetInduction
<1>4. Cardinality(S) \in Built
  BY <1>3, FS_CardinalityType
<1>5. Upto(Cardinality(S)) = SUBSET S
  <2> SUFFICES ASSUME NEW s \in SUBSET S PROVE Cardinality(s) <= Cardinality(S)
    OBVIOUS
  <2> QED BY FS_Subset
<1>6. PICK g : g = [s \in SUBSET S |-> Sums(g, s)]
  BY <1>4, <1>5
<1> QED BY <1>6 DEF IsFold, Some

LEMMA TotalIsFold ==
  ASSUME NEW S, IsFiniteSet(S), NEW v
  PROVE  \E g : IsFold(g, v, S) /\ Total(v, S) = g[S]
<1> DEFINE Iter == CHOOSE h : h = [s \in SUBSET S |-> IF s = {} THEN 0
                          ELSE v[CHOOSE x \in s : TRUE] + h[s \ {CHOOSE x \in s : TRUE}]]
<1>1. Total(v, S) = Iter[S]
  BY Zenon DEF Total, MapThenSumSet, MapThenFoldSet
<1>2. IsFold(Iter, v, S)
  <2>1. \E h : h = [s \in SUBSET S |-> IF s = {} THEN 0
                          ELSE v[CHOOSE x \in s : TRUE] + h[s \ {CHOOSE x \in s : TRUE}]]
    <3>1. PICK g : IsFold(g, v, S) BY FoldExists
    <3> QED BY <3>1, Zenon DEF IsFold
  <2>2. Iter = [s \in SUBSET S |-> IF s = {} THEN 0
                          ELSE v[CHOOSE x \in s : TRUE] + Iter[s \ {CHOOSE x \in s : TRUE}]]
    BY <2>1, Zenon
  <2> HIDE DEF Iter
  <2> QED BY <2>2, Zenon DEF IsFold
<1> QED BY <1>1, <1>2

Valued(v, S) == IsFiniteSet(S) /\ \A x \in S : v[x] \in Nat

LEMMA FoldIsNatural ==
  ASSUME NEW S, NEW v, Valued(v, S), NEW g, IsFold(g, v, S)
  PROVE  \A s \in SUBSET S : g[s] \in Nat
<1> DEFINE Good == {n \in Nat : \A s \in SUBSET S : Cardinality(s) = n => g[s] \in Nat}
<1>a. \A s \in SUBSET S : IsFiniteSet(s) /\ Cardinality(s) \in Nat
  BY FS_Subset, FS_CardinalityType DEF Valued
<1>b. \A s \in SUBSET S : g[s] = IF s = {} THEN 0
          ELSE v[CHOOSE x \in s : TRUE] + g[s \ {CHOOSE x \in s : TRUE}]
  BY DEF IsFold
<1>1. 0 \in Good
  <2> SUFFICES ASSUME NEW s \in SUBSET S, Cardinality(s) = 0 PROVE g[s] \in Nat
    OBVIOUS
  <2> s = {} BY <1>a, FS_EmptySet
  <2> QED BY <1>b
<1>2. ASSUME NEW n \in Nat, n \in Good PROVE n + 1 \in Good
  <2> SUFFICES ASSUME NEW s \in SUBSET S, Cardinality(s) = n + 1 PROVE g[s] \in Nat
    OBVIOUS
  <2> DEFINE y == CHOOSE x \in s : TRUE
  <2>1. s # {} BY FS_EmptySet
  <2>2. y \in s /\ g[s] = v[y] + g[s \ {y}]
    BY <1>b, <2>1
  <2> HIDE DEF y
  <2>3. Cardinality(s \ {y}) = n
    BY <2>2, <1>a, Smaller
  <2>4. g[s \ {y}] \in Nat BY <2>3, <1>2
  <2>5. v[y] \in Nat BY <2>2 DEF Valued
  <2> QED BY <2>2, <2>4, <2>5
<1>3. Nat \subseteq Good
  <2> HIDE DEF Good
  <2> QED BY <1>1, <1>2, NatSetInduction
<1> QED BY <1>3, <1>a

LEMMA FoldInAnyOrder ==
  ASSUME NEW S, NEW v, Valued(v, S), NEW g, IsFold(g, v, S)
  PROVE  \A s \in SUBSET S : g[s] \in Nat /\ \A x \in s : g[s] = v[x] + g[s \ {x}]
<1> DEFINE Fine(s) == g[s] \in Nat /\ \A x \in s : g[s] = v[x] + g[s \ {x}]
           Good == {n \in Nat : \A s \in SUBSET S : Cardinality(s) = n => Fine(s)}
<1>a. \A s \in SUBSET S : IsFiniteSet(s) /\ Cardinality(s) \in Nat
  BY FS_Subset, FS_CardinalityType DEF Valued
<1>b. \A s \in SUBSET S : g[s] = IF s = {} THEN 0
          ELSE v[CHOOSE x \in s : TRUE] + g[s \ {CHOOSE x \in s : TRUE}]
  BY DEF IsFold
<1>1. 0 \in Good
  <2> SUFFICES ASSUME NEW s \in SUBSET S, Cardinality(s) = 0 PROVE Fine(s)
    OBVIOUS
  <2> s = {} BY <1>a, FS_EmptySet
  <2> QED BY <1>b
<1>2. ASSUME NEW n \in Nat, n \in Good PROVE n + 1 \in Good
  <2> SUFFICES ASSUME NEW s \in SUBSET S, Cardinality(s) = n + 1 PROVE Fine(s)
    OBVIOUS
  <2> DEFINE y == CHOOSE x \in s : TRUE
  <2>1. s # {} BY FS_EmptySet
  <2>2. y \in s /\ g[s] = v[y] + g[s \ {y}]
    BY <1>b, <2>1
  <2> HIDE DEF y
  <2>3. \A x \in s : s \ {x} \in SUBSET S /\ Cardinality(s \ {x}) = n
    <3> SUFFICES ASSUME NEW x \in s PROVE Cardinality(s \ {x}) = n
      OBVIOUS
    <3> QED BY <1>a, Smaller
  <2>4. \A x \in s : Fine(s \ {x})
    <3> HIDE DEF Fine
    <3> QED BY <2>3, <1>2
  <2>5. \A x \in s : v[x] \in Nat BY DEF Valued
  <2>6. g[s] \in Nat BY FoldIsNatural
  <2>7. ASSUME NEW x \in s PROVE g[s] = v[x] + g[s \ {x}]
    <3>1. CASE x = y BY <3>1, <2>2
    <3>2. CASE x # y
      <4> DEFINE rest == (s \ {y}) \ {x}
      <4>1. rest = (s \ {x}) \ {y} OBVIOUS
      <4>2. x \in s \ {y} /\ y \in s \ {x} BY <2>2, <3>2
      <4>3. g[s \ {y}] = v[x] + g[rest]
        BY <2>4, <2>2, <4>2
      <4>4. g[s \ {x}] = v[y] + g[rest]
        BY <2>4, <4>1, <4>2
      <4>5. g[rest] \in Nat
        BY FoldIsNatural
      <4> QED BY <2>2, <2>5, <4>3, <4>4, <4>5
    <3> QED BY <3>1, <3>2
  <2> QED BY <2>6, <2>7
<1>3. Nat \subseteq Good
  <2> HIDE DEF Good
  <2> QED BY <1>1, <1>2, NatSetInduction
<1> QED BY <1>3, <1>a

LEMMA TotalIsNatural ==
  ASSUME NEW S, NEW v, Valued(v, S)
  PROVE  Total(v, S) \in Nat
BY TotalIsFold, FoldIsNatural DEF Valued

LEMMA TotalOfNothing ==
  ASSUME NEW v PROVE Total(v, {}) = 0
<1>1. PICK g : IsFold(g, v, {}) /\ Total(v, {}) = g[{}]
  BY TotalIsFold, FS_EmptySet
<1> QED BY <1>1 DEF IsFold

LEMMA TotalAgrees ==
  ASSUME NEW S, IsFiniteSet(S), NEW v, NEW w, \A x \in S : v[x] = w[x]
  PROVE  Total(v, S) = Total(w, S)
<1>1. PICK g : IsFold(g, v, S) /\ Total(v, S) = g[S]
  BY TotalIsFold
<1>2. PICK h : IsFold(h, w, S) /\ Total(w, S) = h[S]
  BY TotalIsFold
<1>3. g[S] = h[S]
  <2>1. S \in SUBSET (S \cap S) OBVIOUS
  <2> QED BY <1>1, <1>2, <2>1, FoldAgrees
<1> QED BY <1>1, <1>2, <1>3

LEMMA TotalTakesOne ==
  ASSUME NEW S, NEW v, Valued(v, S), NEW x \in S
  PROVE  Total(v, S) = v[x] + Total(v, S \ {x})
<1> DEFINE T == S \ {x}
<1>0. IsFiniteSet(S) /\ IsFiniteSet(T)
  BY FS_Subset DEF Valued
<1>1. PICK g : IsFold(g, v, S) /\ Total(v, S) = g[S]
  BY <1>0, TotalIsFold
<1>2. PICK h : IsFold(h, v, T) /\ Total(v, T) = h[T]
  BY <1>0, TotalIsFold
<1>3. g[T] = h[T]
  <2>1. T \in SUBSET (S \cap T) OBVIOUS
  <2> HIDE DEF T
  <2> QED BY <1>0, <1>1, <1>2, <2>1, FoldAgrees
<1>4. g[S] = v[x] + g[T]
  BY <1>1, FoldInAnyOrder
<1> QED BY <1>1, <1>2, <1>3, <1>4

LEMMA TotalOfUnion ==
  ASSUME NEW S, NEW T, NEW v, Valued(v, S), Valued(v, T), S \cap T = {}
  PROVE  Valued(v, S \cup T) /\ Total(v, S \cup T) = Total(v, S) + Total(v, T)
<1> DEFINE Good == {n \in Nat : \A s \in SUBSET S : Cardinality(s) = n =>
                                  Total(v, s \cup T) = Total(v, s) + Total(v, T)}
<1>a. \A s \in SUBSET S : /\ IsFiniteSet(s) /\ Cardinality(s) \in Nat
                          /\ Valued(v, s) /\ Valued(v, s \cup T)
  <2> SUFFICES ASSUME NEW s \in SUBSET S
               PROVE  IsFiniteSet(s) /\ Cardinality(s) \in Nat /\ IsFiniteSet(s \cup T)
    BY DEF Valued
  <2> QED BY FS_Subset, FS_CardinalityType, FS_Union DEF Valued
<1>b. Total(v, T) \in Nat BY TotalIsNatural
<1>1. 0 \in Good
  <2> SUFFICES ASSUME NEW s \in SUBSET S, Cardinality(s) = 0
               PROVE  Total(v, s \cup T) = Total(v, s) + Total(v, T)
    OBVIOUS
  <2> s = {} BY <1>a, FS_EmptySet
  <2>1. Total(v, s) = 0 BY TotalOfNothing
  <2>2. s \cup T = T OBVIOUS
  <2> QED BY <2>1, <2>2, <1>b
<1>2. ASSUME NEW n \in Nat, n \in Good PROVE n + 1 \in Good
  <2> SUFFICES ASSUME NEW s \in SUBSET S, Cardinality(s) = n + 1
               PROVE  Total(v, s \cup T) = Total(v, s) + Total(v, T)
    OBVIOUS
  <2>1. PICK x \in s : TRUE BY FS_EmptySet
  <2>2. Cardinality(s \ {x}) = n /\ s \ {x} \in SUBSET S
    <3>1. IsFiniteSet(s) /\ Cardinality(s \ {x}) \in Nat BY <1>a
    <3>2. Cardinality(s) = Cardinality(s \ {x}) + 1 BY <2>1, <3>1, Smaller
    <3> QED BY <3>1, <3>2
  <2>3. Total(v, (s \ {x}) \cup T) = Total(v, s \ {x}) + Total(v, T)
    <3> DEFINE less == s \ {x}
    <3> HIDE DEF less
    <3>1. Total(v, less \cup T) = Total(v, less) + Total(v, T)
      BY <2>2, <1>2 DEF less
    <3> QED BY <3>1 DEF less
  <2>4. Total(v, s) = v[x] + Total(v, s \ {x})
    BY <1>a, TotalTakesOne
  <2>5. Total(v, s \cup T) = v[x] + Total(v, (s \ {x}) \cup T)
    <3>1. x \in s \cup T /\ Valued(v, s \cup T) BY <1>a
    <3>2. Total(v, s \cup T) = v[x] + Total(v, (s \cup T) \ {x})
      BY <3>1, TotalTakesOne
    <3>3. x \notin T BY <2>1
    <3>4. (s \cup T) \ {x} = (s \ {x}) \cup T BY <3>3
    <3> QED BY <3>2, <3>4
  <2>7. v[x] \in Nat /\ Total(v, s \ {x}) \in Nat
    BY <1>a, <2>2, TotalIsNatural DEF Valued
  <2> QED BY <2>3, <2>4, <2>5, <2>7, <1>b
<1>3. Nat \subseteq Good
  <2> HIDE DEF Good
  <2> QED BY <1>1, <1>2, NatSetInduction
<1> QED BY <1>3, <1>a

LEMMA TotalIsMonotone ==
  ASSUME NEW T, NEW v, Valued(v, T), NEW S \in SUBSET T
  PROVE  Valued(v, S) /\ Total(v, S) <= Total(v, T)
<1>1. Valued(v, S) /\ Valued(v, T \ S)
  BY FS_Subset DEF Valued
<1>2. S \cup (T \ S) = T /\ S \cap (T \ S) = {}
  OBVIOUS
<1>3. Total(v, T) = Total(v, S) + Total(v, T \ S)
  BY <1>1, <1>2, TotalOfUnion
<1>4. Total(v, S) \in Nat /\ Total(v, T \ S) \in Nat
  BY <1>1, TotalIsNatural
<1> QED BY <1>1, <1>3, <1>4

LEMMA TotalOfCover ==
  ASSUME NEW S, NEW T, NEW v, Valued(v, S), Valued(v, T), NEW U \in SUBSET (S \cup T)
  PROVE  Valued(v, U) /\ Total(v, U) <= Total(v, S) + Total(v, T)
<1>1. Valued(v, U \cap S) /\ Total(v, U \cap S) <= Total(v, S)
  BY TotalIsMonotone
<1>2. Valued(v, U \ S) /\ Total(v, U \ S) <= Total(v, T)
  BY TotalIsMonotone
<1>3. (U \cap S) \cup (U \ S) = U /\ (U \cap S) \cap (U \ S) = {}
  OBVIOUS
<1>4. Valued(v, U) /\ Total(v, U) = Total(v, U \cap S) + Total(v, U \ S)
  BY <1>1, <1>2, <1>3, TotalOfUnion
<1>5. /\ Total(v, U \cap S) \in Nat /\ Total(v, U \ S) \in Nat
      /\ Total(v, S) \in Nat /\ Total(v, T) \in Nat
  BY <1>1, <1>2, TotalIsNatural
<1> QED BY <1>1, <1>2, <1>4, <1>5

LEMMA TotalOfReserved ==
  ASSUME NEW P, NEW u, Valued(u, P), NEW I, NEW B, NEW v, Valued(v, B),
         \A p \in P : Total(v, B \cap I[p]) <= u[p]
  PROVE  Total(v, B \cap UNION {I[p] : p \in P}) <= Total(u, P)
<1> DEFINE Taken(Q) == B \cap UNION {I[p] : p \in Q}
           Good == {n \in Nat : \A Q \in SUBSET P : Cardinality(Q) = n =>
                                  Total(v, Taken(Q)) <= Total(u, Q)}
<1>a. \A Q \in SUBSET P : IsFiniteSet(Q) /\ Cardinality(Q) \in Nat /\ Valued(u, Q)
  BY FS_Subset, FS_CardinalityType DEF Valued
<1>b. \A S \in SUBSET B : Valued(v, S) /\ Total(v, S) \in Nat
  BY TotalIsMonotone, TotalIsNatural
<1>1. 0 \in Good
  <2> SUFFICES ASSUME NEW Q \in SUBSET P, Cardinality(Q) = 0
               PROVE  Total(v, Taken(Q)) <= Total(u, Q)
    OBVIOUS
  <2>1. Q = {} BY <1>a, FS_EmptySet
  <2>2. Taken(Q) = {} BY <2>1
  <2> QED BY <2>1, <2>2, TotalOfNothing
<1>2. ASSUME NEW n \in Nat, n \in Good PROVE n + 1 \in Good
  <2> SUFFICES ASSUME NEW Q \in SUBSET P, Cardinality(Q) = n + 1
               PROVE  Total(v, Taken(Q)) <= Total(u, Q)
    OBVIOUS
  <2>1. PICK p \in Q : TRUE BY FS_EmptySet
  <2>2. Cardinality(Q \ {p}) = n /\ Q \ {p} \in SUBSET P BY <1>a, Smaller
  <2>3. Total(v, Taken(Q \ {p})) <= Total(u, Q \ {p})
    <3> HIDE DEF Taken
    <3> QED BY <2>2, <1>2
  <2>4. Total(u, Q) = u[p] + Total(u, Q \ {p})
    BY <1>a, TotalTakesOne
  <2>5. Taken(Q) \in SUBSET ((B \cap I[p]) \cup Taken(Q \ {p}))
    OBVIOUS
  <2>6. /\ Valued(v, B \cap I[p]) /\ Valued(v, Taken(Q \ {p})) /\ Valued(v, Taken(Q))
        /\ Total(v, B \cap I[p]) \in Nat /\ Total(v, Taken(Q \ {p})) \in Nat
        /\ Total(v, Taken(Q)) \in Nat
    <3>1. B \cap I[p] \in SUBSET B /\ Taken(Q \ {p}) \in SUBSET B /\ Taken(Q) \in SUBSET B
      OBVIOUS
    <3> HIDE DEF Taken
    <3> QED BY <3>1, <1>b
  <2>7. Total(v, Taken(Q)) <= Total(v, B \cap I[p]) + Total(v, Taken(Q \ {p}))
    <3> HIDE DEF Taken
    <3> QED BY <2>5, <2>6, TotalOfCover
  <2>8. u[p] \in Nat /\ Total(u, Q \ {p}) \in Nat
    BY <1>a, <2>2, TotalIsNatural DEF Valued
  <2>9. Total(v, B \cap I[p]) <= u[p] OBVIOUS
  <2> HIDE DEF Taken
  <2> QED BY <2>3, <2>4, <2>6, <2>7, <2>8, <2>9
<1>3. Nat \subseteq Good
  <2> HIDE DEF Good
  <2> QED BY <1>1, <1>2, NatSetInduction
<1> QED BY <1>3, <1>a

-----------------------------------------------------------------------------
(* What coins are worth *)

Worth(cs) == [c \in DOMAIN cs |-> cs[c].value]

LEMMA SumOfValues ==
  ASSUME NEW cs, NEW S, IsFiniteSet(S), S \subseteq DOMAIN cs
  PROVE  MapThenSumSet(LAMBDA c : cs[c].value, S) = Total(Worth(cs), S)
<1> DEFINE v == Worth(cs)
           Iter == CHOOSE h : h = [s \in SUBSET S |-> IF s = {} THEN 0
                     ELSE cs[CHOOSE x \in s : TRUE].value + h[s \ {CHOOSE x \in s : TRUE}]]
<1>1. MapThenSumSet(LAMBDA c : cs[c].value, S) = Iter[S]
  BY Zenon DEF MapThenSumSet, MapThenFoldSet
<1>2. IsFold(Iter, v, S)
  <2>0. \A s \in SUBSET S : s # {} => v[CHOOSE x \in s : TRUE] = cs[CHOOSE x \in s : TRUE].value
    BY DEF Worth
  <2>1. PICK g : IsFold(g, v, S)
    BY FoldExists
  <2> HIDE DEF v
  <2>2. \A h : [s \in SUBSET S |-> IF s = {} THEN 0
                  ELSE v[CHOOSE x \in s : TRUE] + h[s \ {CHOOSE x \in s : TRUE}]]
             = [s \in SUBSET S |-> IF s = {} THEN 0
                  ELSE cs[CHOOSE x \in s : TRUE].value + h[s \ {CHOOSE x \in s : TRUE}]]
    BY <2>0
  <2>3. g = [s \in SUBSET S |-> IF s = {} THEN 0
                  ELSE cs[CHOOSE x \in s : TRUE].value + g[s \ {CHOOSE x \in s : TRUE}]]
    BY <2>1, <2>2, Zenon DEF IsFold
  <2>4. Iter = [s \in SUBSET S |-> IF s = {} THEN 0
                  ELSE cs[CHOOSE x \in s : TRUE].value + Iter[s \ {CHOOSE x \in s : TRUE}]]
    BY <2>3, Zenon
  <2> HIDE DEF Iter
  <2>5. Iter = [s \in SUBSET S |-> IF s = {} THEN 0
                  ELSE v[CHOOSE x \in s : TRUE] + Iter[s \ {CHOOSE x \in s : TRUE}]]
    BY <2>2, <2>4
  <2> QED BY <2>5 DEF IsFold
<1>3. PICK g : IsFold(g, v, S) /\ Total(v, S) = g[S]
  BY TotalIsFold
<1>4. Iter[S] = g[S]
  <2>1. S \in SUBSET (S \cap S) OBVIOUS
  <2> HIDE DEF Iter, v
  <2> QED BY <1>2, <1>3, <2>1, FoldAgrees
<1> QED BY <1>1, <1>3, <1>4

\* The same of what proposals were stored with.
Stored(ps) == [p \in DOMAIN ps |-> ps[p].total]

LEMMA SumOfTotals ==
  ASSUME NEW ps, NEW S, IsFiniteSet(S), S \subseteq DOMAIN ps
  PROVE  MapThenSumSet(LAMBDA p : ps[p].total, S) = Total(Stored(ps), S)
<1> DEFINE v == Stored(ps)
           Iter == CHOOSE h : h = [s \in SUBSET S |-> IF s = {} THEN 0
                     ELSE ps[CHOOSE x \in s : TRUE].total + h[s \ {CHOOSE x \in s : TRUE}]]
<1>1. MapThenSumSet(LAMBDA p : ps[p].total, S) = Iter[S]
  BY Zenon DEF MapThenSumSet, MapThenFoldSet
<1>2. IsFold(Iter, v, S)
  <2>0. \A s \in SUBSET S : s # {} => v[CHOOSE x \in s : TRUE] = ps[CHOOSE x \in s : TRUE].total
    BY DEF Stored
  <2>1. PICK g : IsFold(g, v, S)
    BY FoldExists
  <2> HIDE DEF v
  <2>2. \A h : [s \in SUBSET S |-> IF s = {} THEN 0
                  ELSE v[CHOOSE x \in s : TRUE] + h[s \ {CHOOSE x \in s : TRUE}]]
             = [s \in SUBSET S |-> IF s = {} THEN 0
                  ELSE ps[CHOOSE x \in s : TRUE].total + h[s \ {CHOOSE x \in s : TRUE}]]
    BY <2>0
  <2>3. g = [s \in SUBSET S |-> IF s = {} THEN 0
                  ELSE ps[CHOOSE x \in s : TRUE].total + g[s \ {CHOOSE x \in s : TRUE}]]
    BY <2>1, <2>2, Zenon DEF IsFold
  <2>4. Iter = [s \in SUBSET S |-> IF s = {} THEN 0
                  ELSE ps[CHOOSE x \in s : TRUE].total + Iter[s \ {CHOOSE x \in s : TRUE}]]
    BY <2>3, Zenon
  <2> HIDE DEF Iter
  <2>5. Iter = [s \in SUBSET S |-> IF s = {} THEN 0
                  ELSE v[CHOOSE x \in s : TRUE] + Iter[s \ {CHOOSE x \in s : TRUE}]]
    BY <2>2, <2>4
  <2> QED BY <2>5 DEF IsFold
<1>3. PICK g : IsFold(g, v, S) /\ Total(v, S) = g[S]
  BY TotalIsFold
<1>4. Iter[S] = g[S]
  <2>1. S \in SUBSET (S \cap S) OBVIOUS
  <2> HIDE DEF Iter, v
  <2> QED BY <1>2, <1>3, <2>1, FoldAgrees
<1> QED BY <1>1, <1>3, <1>4

\* The sums of the model are totals, of naturals.
LEMMA CoinsAreValued ==
  ASSUME NEW cs \in Seq(Coin), NEW S \in SUBSET (DOMAIN cs)
  PROVE  Valued(Worth(cs), S)
<1>1. DOMAIN cs = 1..Len(cs) /\ Len(cs) \in Nat /\ \A c \in DOMAIN cs : cs[c] \in Coin
  OBVIOUS
<1>2. IsFiniteSet(DOMAIN cs)
  BY <1>1, FS_Interval
<1>3. IsFiniteSet(S)
  BY <1>2, FS_Subset
<1>4. \A c \in DOMAIN cs : Worth(cs)[c] \in Nat
  BY <1>1 DEF Worth, Coin
<1> QED BY <1>3, <1>4 DEF Valued

LEMMA ValueIsTotal ==
  CoinsTypeOK => \A S \in SUBSET (DOMAIN coins) :
                   Value(S) = Total(Worth(coins), S) /\ Value(S) \in Nat
<1> SUFFICES ASSUME CoinsTypeOK, NEW S \in SUBSET (DOMAIN coins)
             PROVE  Value(S) = Total(Worth(coins), S) /\ Value(S) \in Nat
  OBVIOUS
<1>1. Valued(Worth(coins), S)
  BY CoinsAreValued DEF CoinsTypeOK
<1>2. Value(S) = Total(Worth(coins), S)
  BY <1>1, SumOfValues DEF Valued, Value
<1> QED BY <1>1, <1>2, TotalIsNatural

-----------------------------------------------------------------------------
(* What a step does to coins *)

\* A coin stays what it is.  A Bitcoin wallet that knows it does not forget it,
\* and what it has seen spent was spent, and stays so.
Keeps(c, d) ==
  /\ d.owner = c.owner /\ d.asset = c.asset /\ d.change = c.change /\ d.value = c.value
  /\ c.spent => d.spent
  /\ c.asset = "BTC" /\ c.seen # "unseen" => d.seen # "unseen"
  /\ c.asset = "BTC" /\ c.seen = "spent" => d.seen = "spent"
SeenTrue(c)      == c.seen = "spent" => c.spent
CoinsSound(cs)   == cs \in Seq(Coin) /\ \A c \in DOMAIN cs : SeenTrue(cs[c])
CoinsGrow(cs, ds) ==
  /\ CoinsSound(ds)
  /\ DOMAIN cs \subseteq DOMAIN ds /\ \A c \in DOMAIN cs : Keeps(cs[c], ds[c])
SameSeen(cs, ds) ==
  \A c \in DOMAIN ds : ds[c].seen = IF c \in DOMAIN cs THEN cs[c].seen ELSE "unseen"

LEMMA CoinFields ==
  ASSUME NEW c \in Coin, NEW seen \in {"unseen", "untrusted", "trusted", "spent"}
  PROVE  /\ [c EXCEPT !.seen = seen] \in Coin
         /\ [c EXCEPT !.spent = TRUE] \in Coin
         /\ [c EXCEPT !.confirmed = TRUE] \in Coin
         /\ LET d == [c EXCEPT !.seen = seen]
            IN  d.owner = c.owner /\ d.asset = c.asset /\ d.change = c.change /\ d.value = c.value
                /\ d.spent = c.spent /\ d.seen = seen
         /\ LET d == [c EXCEPT !.spent = TRUE]
            IN  d.owner = c.owner /\ d.asset = c.asset /\ d.change = c.change /\ d.value = c.value
                /\ d.spent /\ d.seen = c.seen
         /\ LET d == [c EXCEPT !.confirmed = TRUE]
            IN  d.owner = c.owner /\ d.asset = c.asset /\ d.change = c.change /\ d.value = c.value
                /\ d.spent = c.spent /\ d.seen = c.seen
  BY DEF Coin

\* A step that rewrites coins one by one.
LEMMA PointwiseGrow ==
  ASSUME CoinsSound(coins), NEW ds, ds = [c \in DOMAIN coins |-> ds[c]],
         \A c \in DOMAIN coins : ds[c] \in Coin /\ Keeps(coins[c], ds[c]) /\ SeenTrue(ds[c])
  PROVE  CoinsGrow(coins, ds) /\ Len(ds) = Len(coins)
<1>1. DOMAIN coins = 1..Len(coins) /\ Len(coins) \in Nat
  BY DEF CoinsSound
<1>2. ds \in [1..Len(coins) -> Coin]
  BY <1>1
<1>3. ds \in Seq(Coin) /\ Len(ds) = Len(coins)
  BY <1>1, <1>2
<1>4. DOMAIN ds = DOMAIN coins
  OBVIOUS
<1> QED BY <1>3, <1>4 DEF CoinsGrow, CoinsSound

LEMMA KeptCoin ==
  ASSUME CoinsSound(coins), NEW c \in DOMAIN coins
  PROVE  coins[c] \in Coin /\ Keeps(coins[c], coins[c]) /\ SeenTrue(coins[c])
  BY DEF CoinsSound, Keeps

LEMMA SyncedCoin ==
  ASSUME CoinsSound(coins), NEW c \in DOMAIN coins
  PROVE  LET d == [coins[c] EXCEPT !.seen = Standing(c)]
         IN  d \in Coin /\ Keeps(coins[c], d) /\ SeenTrue(d)
<1> DEFINE d == [coins[c] EXCEPT !.seen = Standing(c)]
<1>1. coins[c] \in Coin /\ SeenTrue(coins[c])
  BY KeptCoin
<1>2. /\ Standing(c) \in {"trusted", "untrusted", "spent"}
      /\ Standing(c) = "spent" <=> coins[c].spent
  BY <1>1 DEF Standing, Coin
<1>3. /\ d \in Coin /\ d.seen = Standing(c)
      /\ d.owner = coins[c].owner /\ d.asset = coins[c].asset /\ d.change = coins[c].change
      /\ d.value = coins[c].value /\ d.spent = coins[c].spent
  <2> DEFINE st == Standing(c)
  <2>1. st \in {"unseen", "untrusted", "trusted", "spent"} BY <1>2
  <2> HIDE DEF st
  <2> DEFINE e == [coins[c] EXCEPT !.seen = st]
  <2>2. /\ e \in Coin /\ e.seen = st
        /\ e.owner = coins[c].owner /\ e.asset = coins[c].asset /\ e.change = coins[c].change
        /\ e.value = coins[c].value /\ e.spent = coins[c].spent
    BY <1>1, <2>1 DEF Coin
  <2> QED BY <2>2 DEF st
<1> HIDE DEF d
<1>4. d \in Coin /\ Keeps(coins[c], d) /\ SeenTrue(d)
  BY <1>1, <1>2, <1>3 DEF Keeps, SeenTrue
<1> QED BY <1>4 DEF d

LEMMA SyncGrows ==
  ASSUME CoinsSound(coins), NEW ds, ds = [c \in DOMAIN coins |-> ds[c]],
         \A c \in DOMAIN coins : ds[c] = coins[c] \/ \E v, chain : ds[c] = Synced(v, chain)[c]
  PROVE  CoinsGrow(coins, ds) /\ Len(ds) = Len(coins)
<1>1. ASSUME NEW c \in DOMAIN coins
      PROVE  ds[c] = coins[c] \/ ds[c] = [coins[c] EXCEPT !.seen = Standing(c)]
  BY DEF Synced
<1> QED BY <1>1, KeptCoin, SyncedCoin, PointwiseGrow

LEMMA AppendedCoin ==
  ASSUME CoinsSound(coins), NEW e \in Coin, e.seen = "unseen"
  PROVE  /\ CoinsGrow(coins, Append(coins, e)) /\ SameSeen(coins, Append(coins, e))
         /\ Len(Append(coins, e)) = Len(coins) + 1
<1>1. coins \in Seq(Coin) BY DEF CoinsSound
<1>2. /\ Append(coins, e) \in Seq(Coin) /\ Len(Append(coins, e)) = Len(coins) + 1
      /\ DOMAIN coins \subseteq DOMAIN Append(coins, e)
      /\ \A c \in DOMAIN coins : Append(coins, e)[c] = coins[c]
      /\ \A c \in DOMAIN Append(coins, e) \ DOMAIN coins : Append(coins, e)[c] = e
  BY <1>1
<1> QED BY <1>2, KeptCoin DEF CoinsGrow, CoinsSound, SameSeen, SeenTrue

LEMMA NewCoinFields ==
  ASSUME NEW v \in Nat, NEW a \in Assets, NEW isChange \in BOOLEAN, NEW value \in Nat
  PROVE  NewCoin(v, a, isChange, value) \in Coin /\ NewCoin(v, a, isChange, value).seen = "unseen"
  BY DEF NewCoin, Coin

LEMMA ConfirmedGrows ==
  ASSUME CoinsSound(coins), NEW c \in DOMAIN coins
  PROVE  CoinsGrow(coins, Confirmed(c)) /\ Len(Confirmed(c)) = Len(coins)
         /\ SameSeen(coins, Confirmed(c))
<1> DEFINE d == [coins[c] EXCEPT !.confirmed = TRUE]
           ds == [coins EXCEPT ![c] = d]
<1>1. d \in Coin /\ Keeps(coins[c], d) /\ SeenTrue(d) /\ d.seen = coins[c].seen
  <2>1. coins[c] \in Coin /\ SeenTrue(coins[c]) /\ Keeps(coins[c], coins[c])
    BY KeptCoin
  <2>2. /\ d \in Coin /\ d.seen = coins[c].seen
        /\ d.owner = coins[c].owner /\ d.asset = coins[c].asset /\ d.change = coins[c].change
        /\ d.value = coins[c].value /\ d.spent = coins[c].spent
    BY <2>1, CoinFields
  <2> HIDE DEF d
  <2> QED BY <2>1, <2>2 DEF Keeps, SeenTrue
<1>2. ds = Confirmed(c)
  BY DEF Confirmed
<1> HIDE DEF d
<1>3. coins = [x \in DOMAIN coins |-> coins[x]]
  BY DEF CoinsSound
<1>4. ds = [x \in DOMAIN coins |-> ds[x]] /\ \A x \in DOMAIN coins : ds[x] = IF x = c THEN d ELSE coins[x]
  BY <1>3
<1> HIDE DEF ds
<1>5. CoinsGrow(coins, ds) /\ Len(ds) = Len(coins)
  BY <1>1, <1>4, KeptCoin, PointwiseGrow
<1> QED BY <1>1, <1>2, <1>4, <1>5 DEF SameSeen

LEMMA ReloadedKeeps ==
  ASSUME CoinsSound(coins)
  PROVE  CoinsGrow(coins, Reloaded) /\ Len(Reloaded) = Len(coins)
<1>1. Reloaded = [c \in DOMAIN coins |-> Reloaded[c]]
  BY DEF Reloaded
<1>2. ASSUME NEW c \in DOMAIN coins
      PROVE  Reloaded[c] \in Coin /\ Keeps(coins[c], Reloaded[c]) /\ SeenTrue(Reloaded[c])
  <2> DEFINE d == [coins[c] EXCEPT !.seen = "unseen"]
  <2>1. coins[c] \in Coin /\ SeenTrue(coins[c]) /\ Keeps(coins[c], coins[c])
    BY KeptCoin
  <2>2. /\ d \in Coin /\ d.seen = "unseen"
        /\ d.owner = coins[c].owner /\ d.asset = coins[c].asset /\ d.change = coins[c].change
        /\ d.value = coins[c].value /\ d.spent = coins[c].spent
    BY <2>1, CoinFields
  <2>3. Reloaded[c] = IF Chain(coins[c].asset) = "elements" THEN d ELSE coins[c]
    BY DEF Reloaded
  <2>4. Chain("BTC") # "elements" BY DEF Chain
  <2> HIDE DEF d
  <2> QED BY <2>1, <2>2, <2>3, <2>4 DEF Keeps, SeenTrue
<1> HIDE DEF Reloaded
<1> QED BY <1>1, <1>2, PointwiseGrow

\* What a transaction pays out, once what it spends is worth something.
LEMMA OutputsTyped ==
  ASSUME CoinsTypeOK, NEW v \in Nat, NEW to \in Nat, NEW inputs \in SUBSET (DOMAIN coins),
         NEW pays, \A a \in Assets : pays[a] \in Nat
  PROVE  /\ Outputs(v, inputs, to, pays) \in Seq(Coin)
         /\ \A o \in DOMAIN Outputs(v, inputs, to, pays) : Outputs(v, inputs, to, pays)[o].seen = "unseen"
<1> DEFINE Good(s) == s \in Seq({c \in Coin : c.seen = "unseen"})
           paid(a) == Output(to, a, FALSE, pays[a])
           left(a) == Value({c \in inputs : coins[c].asset = a}) - pays[a]
           kept(a) == Output(v, a, TRUE, left(a))
<1>1. ASSUME NEW w \in Nat, NEW a \in Assets, NEW isChange \in BOOLEAN, NEW value \in Int
      PROVE  Good(Output(w, a, isChange, value))
  <2>1. value > 0 => NewCoin(w, a, isChange, value) \in {c \in Coin : c.seen = "unseen"}
    BY NewCoinFields
  <2>2. \A e \in {c \in Coin : c.seen = "unseen"} : Good(<<e>>)
    OBVIOUS
  <2>3. Good(<< >>)
    OBVIOUS
  <2> HIDE DEF Good
  <2> QED BY <2>1, <2>2, <2>3 DEF Output
<1>2. \A a \in Assets : left(a) \in Int
  <2> SUFFICES ASSUME NEW a \in Assets PROVE left(a) \in Int
    OBVIOUS
  <2>1. Value({c \in inputs : coins[c].asset = a}) \in Nat
    BY ValueIsTotal
  <2> QED BY <2>1
<1>4. ASSUME NEW s, NEW t, Good(s), Good(t)
      PROVE  Good(s \o t)
  BY <1>4
<1> HIDE DEF left, Good
<1>3. \A a \in Assets : Good(paid(a)) /\ Good(kept(a))
  <2> SUFFICES ASSUME NEW a \in Assets PROVE Good(paid(a)) /\ Good(kept(a))
    OBVIOUS
  <2>1. pays[a] \in Int /\ left(a) \in Int
    BY <1>2
  <2> QED BY <1>1, <2>1
<1>5. Outputs(v, inputs, to, pays) =
        paid("BTC") \o paid("L-BTC") \o paid("issued")
          \o kept("BTC") \o kept("L-BTC") \o kept("issued")
  BY DEF Outputs, left
<1>6. {"BTC", "L-BTC", "issued"} = Assets
  BY DEF Assets
<1> HIDE DEF paid, kept
<1>7. Good(Outputs(v, inputs, to, pays))
  <2>1. Good(paid("BTC") \o paid("L-BTC"))
    BY <1>3, <1>4, <1>6
  <2>2. Good(paid("BTC") \o paid("L-BTC") \o paid("issued"))
    BY <1>3, <1>4, <1>6, <2>1
  <2>3. Good(paid("BTC") \o paid("L-BTC") \o paid("issued") \o kept("BTC"))
    BY <1>3, <1>4, <1>6, <2>2
  <2>4. Good(paid("BTC") \o paid("L-BTC") \o paid("issued") \o kept("BTC") \o kept("L-BTC"))
    BY <1>3, <1>4, <1>6, <2>3
  <2> QED
    BY <1>3, <1>4, <1>5, <1>6, <2>4
<1> QED BY <1>7 DEF Good

LEMMA SpendingGrows ==
  ASSUME CoinsSound(coins), NEW inputs, NEW outputs \in Seq(Coin),
         \A o \in DOMAIN outputs : outputs[o].seen = "unseen"
  PROVE  /\ CoinsGrow(coins, Spending(inputs, outputs))
         /\ SameSeen(coins, Spending(inputs, outputs))
         /\ Len(Spending(inputs, outputs)) = Len(coins) + Len(outputs)
<1> DEFINE ds == [c \in DOMAIN coins |-> IF c \in inputs THEN [coins[c] EXCEPT !.spent = TRUE]
                                         ELSE coins[c]]
<1>1. ASSUME NEW c \in DOMAIN coins
      PROVE  ds[c] \in Coin /\ Keeps(coins[c], ds[c]) /\ SeenTrue(ds[c]) /\ ds[c].seen = coins[c].seen
  <2> DEFINE d == [coins[c] EXCEPT !.spent = TRUE]
  <2>1. coins[c] \in Coin /\ SeenTrue(coins[c]) /\ Keeps(coins[c], coins[c])
    BY KeptCoin
  <2>2. /\ d \in Coin /\ d.seen = coins[c].seen
        /\ d.owner = coins[c].owner /\ d.asset = coins[c].asset /\ d.change = coins[c].change
        /\ d.value = coins[c].value /\ d.spent
    BY <2>1, CoinFields
  <2>3. ds[c] = IF c \in inputs THEN d ELSE coins[c]
    OBVIOUS
  <2> HIDE DEF d, ds
  <2> QED BY <2>1, <2>2, <2>3 DEF Keeps, SeenTrue
<1>2. ds = [c \in DOMAIN coins |-> ds[c]]
  OBVIOUS
<1>3. Spending(inputs, outputs) = ds \o outputs
  BY DEF Spending
<1> HIDE DEF ds
<1>4. CoinsGrow(coins, ds) /\ Len(ds) = Len(coins)
  BY <1>1, <1>2, PointwiseGrow
<1>5. ds \in Seq(Coin) /\ \A c \in DOMAIN ds : SeenTrue(ds[c])
  BY <1>4 DEF CoinsGrow, CoinsSound
<1>6. /\ ds \o outputs \in Seq(Coin) /\ Len(ds \o outputs) = Len(ds) + Len(outputs)
      /\ DOMAIN ds \subseteq DOMAIN (ds \o outputs)
      /\ \A c \in DOMAIN ds : (ds \o outputs)[c] = ds[c]
      /\ \A c \in DOMAIN (ds \o outputs) \ DOMAIN ds :
           c - Len(ds) \in DOMAIN outputs /\ (ds \o outputs)[c] = outputs[c - Len(ds)]
  BY <1>5
<1>7. \A c \in DOMAIN (ds \o outputs) : SeenTrue((ds \o outputs)[c])
  BY <1>5, <1>6 DEF SeenTrue
<1>8. DOMAIN coins = DOMAIN ds
  BY <1>2
<1>9. \A c \in DOMAIN coins : Keeps(coins[c], (ds \o outputs)[c])
  BY <1>1, <1>6, <1>8
<1>10. CoinsGrow(coins, ds \o outputs)
  BY <1>6, <1>7, <1>8, <1>9 DEF CoinsGrow, CoinsSound
<1>11. SameSeen(coins, ds \o outputs)
  BY <1>1, <1>6, <1>8 DEF SameSeen
<1> QED BY <1>3, <1>4, <1>6, <1>10, <1>11

-----------------------------------------------------------------------------
(* The invariant *)

\* Of what was selected, the coins of a kind a page counts, as long as a Bitcoin
\* wallet has not come to see them spent.
Outstanding(p, cs) ==
  {c \in p.inputs : /\ cs[c].asset = Policy(p.chain)
                    /\ p.chain = "bitcoin" => cs[c].seen # "spent"}
\* The stored total covers them.
Covering(p, cs) == Total(Worth(cs), Outstanding(p, cs)) <= p.total

ProposalSound(p, cs) ==
  /\ p \in Proposal /\ p.inputs \subseteq DOMAIN cs
  /\ p.chain = "bitcoin" \/ p.amount = 0 => Covering(p, cs)

SlotTyped(q, cs, ps) ==
  /\ q \in Request
  /\ q.inputs \cup q.basis \cup q.moved \subseteq DOMAIN cs /\ q.counted \subseteq DOMAIN ps
  /\ q.left \subseteq 1..LastVersion

\* A request on its way to a proposal, or to the sweeps of a migration.
SlotSpends(q, cs) ==
  /\ q.op = "create" => q.chain = Chain(q.asset)
  /\ q.step = "describe" =>
       /\ q.chain = "bitcoin"
       /\ \A c \in q.inputs :
            cs[c].owner = q.version /\ cs[c].asset = "BTC" /\ cs[c].seen # "unseen"
  /\ q.step = "insert" /\ (q.chain = "bitcoin" \/ q.amount = 0) => Covering(q, cs)
  /\ q.step = "store" /\ ~q.draft[1].elements => Covering(q, cs)
  /\ q.step = "open" => Covering(q, cs)

\* A page: what it has read of the total, and what it promises.
Untouched(q) == q.basis = {} /\ q.spendable = 0 /\ q.balance = 0
InTotal(q, p) ==
  p.version = q.version /\ p.chain = q.chain /\ (p.chain = "elements" => p.amount = 0)
SlotPromises(q, cs, ps) ==
  /\ q.op \in Pages => q.asset = Policy(q.chain)
  /\ q.step \in {"external", "change", "panel"} => q.op = "receive"
  /\ q.step = "sync" => q.op = "manage"
  /\ q.step \in {"reserve", "sync", "balance", "visible", "list"} => q.op \in Pages
  /\ q.op = "receive" /\ (q.step \in {"visible", "list"} \/ q.version \in q.left) =>
       Untouched(q) /\ q.rows = 0 /\ q.moved = {}
  /\ q.step \in {"external", "change", "reserve", "sync", "balance"} =>
       Untouched(q) /\ (q.op = "receive" => q.version \notin q.left)
  /\ q.step \in {"sync", "balance"} =>
       /\ \A p \in q.counted : InTotal(q, ps[p])
       /\ Total(Stored(ps), q.counted) <= q.total
  /\ q.spendable <= Total(Worth(cs), q.basis \ UNION {ps[p].inputs : p \in q.counted})

\* Its rows are those of a set of coins, which is what the wallet holds but for
\* what it learned since they were read.
HeldIn(cs, v, a) ==
  {c \in DOMAIN cs : cs[c].owner = v /\ cs[c].asset = a /\ cs[c].seen \in {"untrusted", "trusted"}}
External(cs, S) == {c \in S : ~cs[c].change}
RowsMatch(q, cs, R, held) ==
  /\ q.rows = Total(Worth(cs), R)
  /\ q.step = "change" => /\ q.chain = "bitcoin" /\ External(cs, R) = R
                          /\ R \ q.moved = External(cs, held) \ q.moved
  /\ q.step \in {"reserve", "balance"} =>
       /\ R \ q.moved \subseteq held
       /\ q.chain = "bitcoin" => held \ q.moved \subseteq R
RowsOver(q, cs, R) == RowsMatch(q, cs, R, HeldIn(cs, q.version, q.asset))
SlotRows(q, cs) ==
  /\ q.step = "external" => q.rows = 0 /\ q.moved = {}
  /\ q.op = "receive" /\ q.step \in RowsTaken =>
       \E R \in SUBSET (DOMAIN cs) : RowsOver(q, cs, R)
  /\ q.op = "receive" /\ q.step \notin RowsTaken \cup {"external"} =>
       /\ q.rows <= q.balance + Total(Worth(cs), q.moved)
       /\ q.chain = "bitcoin" => q.balance <= q.rows + Total(Worth(cs), q.moved)

SlotReads(q, cs, ps) ==
  SlotTyped(q, cs, ps) /\ SlotSpends(q, cs) /\ SlotPromises(q, cs, ps) /\ SlotRows(q, cs)

ProposalsGrow(ps, qs) ==
  /\ DOMAIN ps \subseteq DOMAIN qs
  /\ \A p \in DOMAIN ps : /\ qs[p].version = ps[p].version /\ qs[p].chain = ps[p].chain
                          /\ qs[p].amount = ps[p].amount /\ qs[p].total = ps[p].total
                          /\ qs[p].inputs = ps[p].inputs

PageInv ==
  /\ CoinsSound(coins) /\ Len(coins) <= MaxCoins
  /\ proposals \in Seq(Proposal) /\ Len(proposals) <= MaxProposals
  /\ \A p \in DOMAIN proposals : ProposalSound(proposals[p], coins)
  /\ DOMAIN request = Requests
  /\ \A r \in Requests : SlotReads(request[r], coins, proposals)
  /\ request = [r \in Requests |-> request[r]]
  /\ known \in [1..LastVersion -> SUBSET Nat]

-----------------------------------------------------------------------------
(* What others do meanwhile *)

LEMMA WorthGrows ==
  ASSUME NEW cs, CoinsSound(cs), NEW ds, CoinsGrow(cs, ds)
  PROVE  /\ \A S \in SUBSET (DOMAIN cs) : Total(Worth(ds), S) = Total(Worth(cs), S)
         /\ \A S \in SUBSET (DOMAIN cs) : Total(Worth(cs), S) \in Nat
<1>1. ASSUME NEW S \in SUBSET (DOMAIN cs)
      PROVE  Total(Worth(ds), S) = Total(Worth(cs), S) /\ Total(Worth(cs), S) \in Nat
  <2>1. Valued(Worth(cs), S)
    BY CoinsAreValued DEF CoinsSound
  <2>2. \A c \in S : Worth(ds)[c] = Worth(cs)[c]
    BY DEF CoinsGrow, Worth, Keeps
  <2> QED BY <2>1, <2>2, TotalAgrees, TotalIsNatural DEF Valued
<1> QED BY <1>1

\* What a total covers, it goes on covering.
LEMMA CoveringGrows ==
  ASSUME NEW cs, CoinsSound(cs), NEW ds, CoinsGrow(cs, ds),
         NEW p, p.inputs \subseteq DOMAIN cs, p.total \in Nat, p.chain \in Chains, Covering(p, cs)
  PROVE  Covering(p, ds)
<1> DEFINE A == Outstanding(p, cs)
           B == Outstanding(p, ds)
<1>1. Policy("bitcoin") = "BTC" BY DEF Policy
<1>2. B \subseteq A
  BY <1>1 DEF Outstanding, CoinsGrow, Keeps
<1>3. A \subseteq DOMAIN cs
  BY DEF Outstanding
<1>4. Valued(Worth(cs), A)
  BY <1>3, CoinsAreValued DEF CoinsSound
<1> HIDE DEF A, B
<1>5. Total(Worth(cs), B) <= Total(Worth(cs), A)
  BY <1>2, <1>4, TotalIsMonotone
<1>6. Total(Worth(ds), B) = Total(Worth(cs), B) /\ Total(Worth(cs), A) \in Nat
      /\ Total(Worth(cs), B) \in Nat
  BY <1>2, <1>3, WorthGrows
<1>7. Total(Worth(cs), A) <= p.total
  BY DEF Covering, A
<1>8. Total(Worth(ds), B) <= p.total
  BY <1>5, <1>6, <1>7
<1> QED BY <1>8 DEF Covering, B

LEMMA ProposalGrows ==
  ASSUME NEW cs, CoinsSound(cs), NEW ds, CoinsGrow(cs, ds), NEW p, ProposalSound(p, cs)
  PROVE  ProposalSound(p, ds)
<1>1. p \in Proposal /\ p.total \in Nat /\ p.chain \in Chains
  BY DEF ProposalSound, Proposal
<1>2. p.inputs \subseteq DOMAIN ds
  BY DEF ProposalSound, CoinsGrow
<1> QED BY <1>1, <1>2, CoveringGrows DEF ProposalSound

LEMMA StoredGrows ==
  ASSUME NEW ps \in Seq(Proposal), NEW qs, ProposalsGrow(ps, qs)
  PROVE  /\ \A S \in SUBSET (DOMAIN ps) : Total(Stored(qs), S) = Total(Stored(ps), S)
         /\ \A S \in SUBSET (DOMAIN ps) : Valued(Stored(ps), S) /\ Total(Stored(ps), S) \in Nat
<1>1. DOMAIN ps = 1..Len(ps) /\ Len(ps) \in Nat /\ \A p \in DOMAIN ps : ps[p] \in Proposal
  OBVIOUS
<1>2. IsFiniteSet(DOMAIN ps)
  BY <1>1, FS_Interval
<1>3. \A p \in DOMAIN ps : Stored(ps)[p] \in Nat /\ Stored(qs)[p] = Stored(ps)[p]
  BY <1>1 DEF Stored, Proposal, ProposalsGrow
<1>4. ASSUME NEW S \in SUBSET (DOMAIN ps)
      PROVE  /\ Total(Stored(qs), S) = Total(Stored(ps), S)
             /\ Valued(Stored(ps), S) /\ Total(Stored(ps), S) \in Nat
  <2>1. IsFiniteSet(S) BY <1>2, FS_Subset
  <2>2. Valued(Stored(ps), S) BY <2>1, <1>3 DEF Valued
  <2>3. \A p \in S : Stored(qs)[p] = Stored(ps)[p] BY <1>3
  <2> QED BY <2>1, <2>2, <2>3, TotalAgrees, TotalIsNatural
<1> QED BY <1>4

\* What may happen to a slot while another one moves: it is told of versions
\* that became current and of coins its wallet changed its mind about.
Lives(q, s) ==
  /\ s \in Request
  /\ s.op = q.op /\ s.step = q.step /\ s.version = q.version /\ s.chain = q.chain
  /\ s.asset = q.asset /\ s.amount = q.amount /\ s.inputs = q.inputs /\ s.total = q.total
  /\ s.basis = q.basis /\ s.spendable = q.spendable /\ s.balance = q.balance
  /\ s.rows = q.rows /\ s.left = q.left /\ s.draft = q.draft /\ s.counted = q.counted
Notes(q, s, cs, ds) ==
  /\ q.moved \subseteq s.moved /\ s.moved \subseteq DOMAIN cs
  /\ ~(q.op = "receive" /\ q.step \in RowsTaken) => s.moved = q.moved
  /\ q.op = "receive" /\ q.step \in RowsTaken =>
       \A c \in DOMAIN cs :
         cs[c].owner = q.version /\ cs[c].asset = q.asset /\ ds[c].seen # cs[c].seen => c \in s.moved

LEMMA SpendsOn ==
  ASSUME NEW cs, CoinsSound(cs), NEW ds, CoinsGrow(cs, ds),
         NEW q \in Request, q.inputs \subseteq DOMAIN cs, SlotSpends(q, cs),
         NEW s, Lives(q, s)
  PROVE  SlotSpends(s, ds)
<1>1. Covering(q, cs) => Covering(s, ds)
  <2>1. q.total \in Nat /\ q.chain \in Chains
    BY DEF Request
  <2>2. Covering(q, cs) => Covering(q, ds)
    BY <2>1, CoveringGrows
  <2> QED BY <2>2 DEF Covering, Outstanding, Lives
<1>2. \A c \in q.inputs :
        cs[c].owner = q.version /\ cs[c].asset = "BTC" /\ cs[c].seen # "unseen" =>
          ds[c].owner = q.version /\ ds[c].asset = "BTC" /\ ds[c].seen # "unseen"
  BY DEF CoinsGrow, Keeps
<1> HIDE DEF Covering
<1>3. s.op = "create" => s.chain = Chain(s.asset)
  BY DEF SlotSpends, Lives
<1>4. s.step = "describe" =>
       /\ s.chain = "bitcoin"
       /\ \A c \in s.inputs :
            ds[c].owner = s.version /\ ds[c].asset = "BTC" /\ ds[c].seen # "unseen"
  BY <1>2 DEF SlotSpends, Lives
<1>5. /\ s.step = "insert" /\ (s.chain = "bitcoin" \/ s.amount = 0) => Covering(s, ds)
      /\ s.step = "store" /\ ~s.draft[1].elements => Covering(s, ds)
      /\ s.step = "open" => Covering(s, ds)
  BY <1>1 DEF SlotSpends, Lives
<1> QED BY <1>3, <1>4, <1>5 DEF SlotSpends

LEMMA PromisesOn ==
  ASSUME NEW cs, CoinsSound(cs), NEW ds, CoinsGrow(cs, ds),
         NEW ps \in Seq(Proposal), NEW qs, ProposalsGrow(ps, qs),
         NEW q, SlotTyped(q, cs, ps), SlotPromises(q, cs, ps),
         NEW s, Lives(q, s), Notes(q, s, cs, ds)
  PROVE  SlotPromises(s, ds, qs)
<1>1. q \in Request /\ q.basis \subseteq DOMAIN cs /\ q.counted \subseteq DOMAIN ps
  BY DEF SlotTyped
<1> DEFINE free(xs) == q.basis \ UNION {xs[p].inputs : p \in q.counted}
<1>2. free(qs) = free(ps)
  BY <1>1 DEF ProposalsGrow
<1>3. Total(Worth(ds), free(ps)) = Total(Worth(cs), free(ps))
  <2>1. free(ps) \in SUBSET (DOMAIN cs) BY <1>1
  <2> HIDE DEF free
  <2> QED BY <2>1, WorthGrows
<1>4. Total(Stored(qs), q.counted) = Total(Stored(ps), q.counted)
  BY <1>1, StoredGrows
<1>5. \A p \in q.counted : InTotal(q, ps[p]) => InTotal(s, qs[p])
  BY <1>1 DEF InTotal, ProposalsGrow, Lives
<1>6. s.spendable <= Total(Worth(ds), s.basis \ UNION {qs[p].inputs : p \in s.counted})
  BY <1>2, <1>3 DEF SlotPromises, Lives
<1>7. s.step \in {"sync", "balance"} =>
       /\ \A p \in s.counted : InTotal(s, qs[p])
       /\ Total(Stored(qs), s.counted) <= s.total
  BY <1>4, <1>5 DEF SlotPromises, Lives
<1>8. Untouched(q) => Untouched(s)
  BY DEF Untouched, Lives
<1>9. /\ s.op \in Pages => s.asset = Policy(s.chain)
      /\ s.step \in {"external", "change", "panel"} => s.op = "receive"
      /\ s.step = "sync" => s.op = "manage"
      /\ s.step \in {"reserve", "sync", "balance", "visible", "list"} => s.op \in Pages
      /\ s.step \in {"external", "change", "reserve", "sync", "balance"} =>
           Untouched(s) /\ (s.op = "receive" => s.version \notin s.left)
  BY <1>8 DEF SlotPromises, Lives
<1>10. s.op = "receive" /\ (s.step \in {"visible", "list"} \/ s.version \in s.left) =>
         Untouched(s) /\ s.rows = 0 /\ s.moved = {}
  <2>1. q.op = "receive" /\ (q.step \in {"visible", "list"} \/ q.version \in q.left) =>
          Untouched(q) /\ q.rows = 0 /\ q.moved = {} /\ q.step \notin RowsTaken
    BY DEF SlotPromises, RowsTaken
  <2> QED BY <1>8, <2>1 DEF Lives, Notes
<1> QED BY <1>6, <1>7, <1>9, <1>10 DEF SlotPromises

LEMMA RowsOn ==
  ASSUME NEW cs, CoinsSound(cs), NEW ds, CoinsGrow(cs, ds),
         \A c \in DOMAIN ds \ DOMAIN cs : ds[c].seen = "unseen",
         NEW q \in Request, q.moved \subseteq DOMAIN cs, SlotRows(q, cs),
         NEW s, Lives(q, s), Notes(q, s, cs, ds)
  PROVE  SlotRows(s, ds)
<1> DEFINE held == HeldIn(cs, q.version, q.asset)
           now  == HeldIn(ds, s.version, s.asset)
<1>1. /\ s.op = q.op /\ s.step = q.step /\ s.version = q.version /\ s.chain = q.chain
      /\ s.asset = q.asset /\ s.balance = q.balance /\ s.rows = q.rows
  BY DEF Lives
<1>2. s.step = "external" => s.rows = 0 /\ s.moved = {}
  BY <1>1 DEF SlotRows, Notes, RowsTaken
<1>3. ASSUME q.op = "receive", q.step \in RowsTaken
      PROVE  \E R \in SUBSET (DOMAIN ds) : RowsOver(s, ds, R)
  <2>1. PICK R \in SUBSET (DOMAIN cs) : RowsOver(q, cs, R)
    BY <1>3 DEF SlotRows
  <2>2. now \ s.moved = held \ s.moved
    <3>1. \A c \in DOMAIN ds \ s.moved : c \in now <=> c \in held
      <4> SUFFICES ASSUME NEW c \in DOMAIN ds, c \notin s.moved
                   PROVE  c \in now <=> c \in held
        OBVIOUS
      <4>1. CASE c \in DOMAIN cs
        <5>1. ds[c].owner = cs[c].owner /\ ds[c].asset = cs[c].asset
          BY <4>1 DEF CoinsGrow, Keeps
        <5>2. cs[c].owner = q.version /\ cs[c].asset = q.asset => ds[c].seen = cs[c].seen
          BY <4>1, <1>3 DEF Notes
        <5> QED BY <4>1, <5>1, <5>2, <1>1 DEF HeldIn
      <4>2. CASE c \notin DOMAIN cs
        BY <4>2 DEF HeldIn
      <4> QED BY <4>1, <4>2
    <3>2. held \subseteq DOMAIN ds /\ now \subseteq DOMAIN ds
      BY DEF HeldIn, CoinsGrow
    <3> HIDE DEF held, now
    <3> QED BY <3>1, <3>2
  <2>3. Total(Worth(ds), R) = Total(Worth(cs), R)
    BY <2>1, WorthGrows
  <2>4. External(ds, R) = External(cs, R)
    BY <2>1 DEF External, CoinsGrow, Keeps
  <2>5. held \subseteq DOMAIN cs
    BY DEF HeldIn
  <2>6. External(ds, now) \ s.moved = External(cs, held) \ s.moved
    <3>1. \A c \in DOMAIN cs : ds[c].change = cs[c].change
      BY DEF CoinsGrow, Keeps
    <3> HIDE DEF now, held
    <3> QED BY <2>2, <2>5, <3>1 DEF External
  <2>7. q.moved \subseteq s.moved
    BY DEF Notes
  <2>8. RowsMatch(q, cs, R, held)
    BY <2>1 DEF RowsOver
  <2>9. R \in SUBSET (DOMAIN ds)
    BY DEF CoinsGrow
  <2> HIDE DEF now, held
  <2>10. RowsMatch(s, ds, R, now)
    BY <1>1, <2>2, <2>3, <2>4, <2>6, <2>7, <2>8 DEF RowsMatch
  <2>11. RowsOver(s, ds, R)
    BY <2>10 DEF RowsOver, now
  <2> QED BY <2>9, <2>11
<1>4. q.op = "receive" /\ q.step \notin RowsTaken \cup {"external"} =>
       /\ s.rows <= s.balance + Total(Worth(ds), s.moved)
       /\ s.chain = "bitcoin" => s.balance <= s.rows + Total(Worth(ds), s.moved)
  <2>1. Total(Worth(ds), q.moved) = Total(Worth(cs), q.moved)
    BY WorthGrows
  <2>2. q.step \notin RowsTaken => s.moved = q.moved
    BY DEF Notes
  <2> QED BY <1>1, <2>1, <2>2 DEF SlotRows
<1> QED BY <1>1, <1>2, <1>3, <1>4 DEF SlotRows

\* A slot that another one's step leaves where it is has read no less.
LEMMA ReadsOn ==
  ASSUME NEW cs, CoinsSound(cs), NEW ds, CoinsGrow(cs, ds),
         \A c \in DOMAIN ds \ DOMAIN cs : ds[c].seen = "unseen",
         NEW ps \in Seq(Proposal), NEW qs, ProposalsGrow(ps, qs),
         NEW q, SlotReads(q, cs, ps), NEW s, Lives(q, s), Notes(q, s, cs, ds)
  PROVE  SlotReads(s, ds, qs)
<1>1. q \in Request /\ q.inputs \subseteq DOMAIN cs /\ q.moved \subseteq DOMAIN cs
  BY DEF SlotReads, SlotTyped
<1>2. SlotTyped(s, ds, qs)
  <2>1. /\ q.inputs \cup q.basis \cup q.moved \subseteq DOMAIN cs
        /\ q.counted \subseteq DOMAIN ps /\ q.left \subseteq 1..LastVersion
    BY DEF SlotReads, SlotTyped
  <2>2. DOMAIN cs \subseteq DOMAIN ds /\ DOMAIN ps \subseteq DOMAIN qs
    BY DEF CoinsGrow, ProposalsGrow
  <2> QED BY <2>1, <2>2 DEF SlotTyped, Lives, Notes
<1> QED BY <1>1, <1>2, SpendsOn, PromisesOn, RowsOn DEF SlotReads

\* A step after which every slot still reads, or reads anew, keeps the invariant.
LEMMA PageAfter ==
  ASSUME PageInv, CoinsGrow(coins, coins'), Len(coins') <= MaxCoins,
         \A c \in DOMAIN coins' \ DOMAIN coins : coins'[c].seen = "unseen",
         ProposalsGrow(proposals, proposals'), proposals' \in Seq(Proposal),
         Len(proposals') <= MaxProposals,
         \A p \in DOMAIN proposals' : ProposalSound(proposals'[p], coins'),
         known' \in [1..LastVersion -> SUBSET Nat],
         request' = [r \in Requests |-> request'[r]],
         \A r \in Requests : \/ /\ Lives(request[r], request'[r])
                                /\ Notes(request[r], request'[r], coins, coins')
                             \/ SlotReads(request'[r], coins', proposals')
  PROVE  PageInv'
<1>1. CoinsSound(coins') BY DEF CoinsGrow
<1>2. ASSUME NEW r \in Requests
      PROVE  SlotReads(request'[r], coins', proposals')
  <2>1. /\ SlotReads(request[r], coins, proposals) /\ CoinsSound(coins)
        /\ proposals \in Seq(Proposal)
    BY DEF PageInv
  <2> QED BY <2>1, ReadsOn
<1>3. DOMAIN request' = Requests
  OBVIOUS
<1> QED
  BY <1>1, <1>2, <1>3
     DEF PageInv, SlotReads, SlotTyped, SlotSpends, SlotPromises, SlotRows, RowsOver, RowsMatch,
         Covering, Outstanding, HeldIn, External, Worth, Stored, Untouched, InTotal, CoinsSound,
         SeenTrue, ProposalSound

LEMMA UntouchedLives ==
  ASSUME NEW cs, NEW ds, SameSeen(cs, ds), DOMAIN cs \subseteq DOMAIN ds,
         NEW ps, NEW q, SlotReads(q, cs, ps)
  PROVE  Lives(q, q) /\ Notes(q, q, cs, ds)
<1>1. q \in Request /\ q.moved \subseteq DOMAIN cs
  BY DEF SlotReads, SlotTyped
<1>2. \A c \in DOMAIN cs : ds[c].seen = cs[c].seen
  BY DEF SameSeen
<1> QED BY <1>1, <1>2 DEF Lives, Notes

LEMMA PolicyOfChain ==
  /\ \A chain \in Chains : Policy(chain) \in Assets /\ Chain(Policy(chain)) = chain
  /\ \A a \in Assets : Chain(a) \in Chains
  BY DEF Chain, Policy, Assets, Chains

LEMMA NoticingLives ==
  ASSUME PageInv, NEW now, DOMAIN now = DOMAIN coins, NEW q \in Requests
  PROVE  Lives(request[q], Noticing(now)[q]) /\ Notes(request[q], Noticing(now)[q], coins, now)
<1> DEFINE old == request[q]
           fresh == {c \in Wallet(old.version, old.chain) : now[c].seen # coins[c].seen}
           new == [old EXCEPT !.moved = @ \cup fresh]
<1>1. SlotReads(old, coins, proposals)
  BY DEF PageInv
<1>2. /\ old \in Request /\ old.moved \subseteq DOMAIN coins
      /\ old.op \in Pages => old.asset = Policy(old.chain)
  BY <1>1 DEF SlotReads, SlotTyped, SlotPromises
<1>3. Noticing(now)[q] = IF old.op = "receive" /\ old.step \in RowsTaken THEN new ELSE old
  BY DEF Noticing
<1>4. fresh \subseteq DOMAIN coins /\ DOMAIN coins \subseteq Nat
  <2>1. coins \in Seq(Coin) BY DEF PageInv, CoinsSound
  <2> QED BY <2>1 DEF Wallet
<1>5. old.op = "receive" => \A c \in DOMAIN coins :
        coins[c].owner = old.version /\ coins[c].asset = old.asset /\ now[c].seen # coins[c].seen =>
          c \in fresh
  BY <1>2, PolicyOfChain DEF Wallet, Pages, Request
<1>6. ASSUME old.op = "receive", old.step \in RowsTaken
      PROVE  Lives(old, new) /\ Notes(old, new, coins, now)
  <2> HIDE DEF fresh, old
  <2> DEFINE m == old.moved \cup fresh
  <2>1. m \in SUBSET Nat
    BY <1>2, <1>4
  <2> HIDE DEF m
  <2>2. PICK s : s = [old EXCEPT !.moved = m]
    OBVIOUS
  <2>3. Lives(old, s) /\ s.moved = m
    BY <1>2, <2>1, <2>2 DEF Lives, Request
  <2>4. s = new
    BY <2>2, Zenon DEF m
  <2>5. Notes(old, s, coins, now)
    BY <1>2, <1>4, <1>5, <1>6, <2>3 DEF Notes, m
  <2> QED BY <2>3, <2>4, <2>5
<1>7. ASSUME ~(old.op = "receive" /\ old.step \in RowsTaken)
      PROVE  Lives(old, old) /\ Notes(old, old, coins, now)
  BY <1>2, <1>7 DEF Lives, Notes
<1> HIDE DEF new, old, fresh
<1> QED BY <1>3, <1>6, <1>7 DEF old

LEMMA WitnessingLives ==
  ASSUME PageInv, NEW vs \in Seq(Version), NEW ds, SameSeen(coins, ds), DOMAIN coins \subseteq DOMAIN ds,
         NEW q \in Requests, request[q].step # "idle"
  PROVE  Lives(request[q], Witnessing(vs)[q]) /\ Notes(request[q], Witnessing(vs)[q], coins, ds)
<1> DEFINE old == request[q]
           h == old.heads \cup CurrentOf(vs)
<1>1. SlotReads(old, coins, proposals)
  BY DEF PageInv
<1>2. Lives(old, old) /\ Notes(old, old, coins, ds)
  BY <1>1, UntouchedLives
<1>3. old \in Request
  BY <1>2 DEF Lives
<1>4. h \in SUBSET Nat
  <2>1. DOMAIN vs \subseteq Nat OBVIOUS
  <2> QED BY <1>3, <2>1 DEF CurrentOf, Request
<1>5. Witnessing(vs)[q] = [old EXCEPT !.heads = @ \cup CurrentOf(vs)]
  BY DEF Witnessing, Holds
<1> HIDE DEF old
<1>6. [old EXCEPT !.heads = @ \cup CurrentOf(vs)] = [old EXCEPT !.heads = h]
  BY Zenon
<1> HIDE DEF h
<1>7. PICK s : s = [old EXCEPT !.heads = h]
  OBVIOUS
<1>8. Lives(old, s) /\ s.moved = old.moved
  BY <1>3, <1>4, <1>7 DEF Lives, Request
<1>9. Notes(old, s, coins, ds)
  BY <1>2, <1>8 DEF Notes
<1> QED BY <1>5, <1>6, <1>7, <1>8, <1>9 DEF old

LEMMA IdleTyped == Idle \in Request
<1>1. (CHOOSE u \in Users : TRUE) \in Users
  BY RosterAssumption
<1> DEFINE u0 == CHOOSE u \in Users : TRUE
<1> HIDE DEF u0
<1>2. << >> \in Seq(Version) OBVIOUS
<1>3. Idle = [op |-> "none", step |-> "idle", user |-> u0, version |-> 0,
         chain |-> "bitcoin", asset |-> "BTC", amount |-> 0, to |-> 0, current |-> 0,
         inputs |-> {}, total |-> 0, basis |-> {}, spendable |-> 0, balance |-> 0,
         rows |-> 0, listed |-> {}, left |-> {}, draft |-> <<>>, funded |-> {},
         heads |-> {}, counted |-> {}, moved |-> {}]
  BY DEF Idle, u0
<1> QED BY <1>1, <1>2, <1>3 DEF Request, u0, Chains, Assets

\* A slot that has read nothing yet.
Fresh(s) ==
  /\ s \in Request
  /\ s.inputs = {} /\ s.basis = {} /\ s.moved = {} /\ s.counted = {} /\ s.left = {}
  /\ s.spendable = 0 /\ s.balance = 0 /\ s.rows = 0
  /\ s.step \in {"idle", "status", "build", "visible", "reserve", "answer"}
  /\ s.op # "migrate" /\ (s.op = "create" => s.chain = Chain(s.asset))
  /\ s.op \in Pages => s.asset = Policy(s.chain)
  /\ s.step \in {"reserve", "visible"} => s.op \in Pages
  /\ s.op = "receive" => s.step = "visible"

LEMMA FreshReads ==
  ASSUME NEW s, Fresh(s), NEW cs, NEW ps
  PROVE  SlotReads(s, cs, ps)
<1>1. SlotTyped(s, cs, ps)
  BY DEF Fresh, SlotTyped
<1>2. SlotSpends(s, cs)
  BY DEF Fresh, SlotSpends
<1>3. Total(Worth(cs), {}) = 0
  BY TotalOfNothing
<1>4. s.basis \ UNION {ps[p].inputs : p \in s.counted} = {}
  BY DEF Fresh
<1>5. s.spendable <= Total(Worth(cs), s.basis \ UNION {ps[p].inputs : p \in s.counted})
  BY <1>3, <1>4 DEF Fresh
<1>6. SlotPromises(s, cs, ps)
  BY <1>5 DEF Fresh, SlotPromises, Untouched
<1>7. SlotRows(s, cs)
  BY <1>3 DEF Fresh, SlotRows, RowsTaken
<1> QED BY <1>1, <1>2, <1>6, <1>7 DEF SlotReads

LEMMA IdleFresh == Fresh(Idle)
  BY IdleTyped DEF Fresh, Idle, Pages

-----------------------------------------------------------------------------
(* Steps of one slot *)

LEMMA SameCoinsGrow ==
  ASSUME CoinsSound(coins)
  PROVE  CoinsGrow(coins, coins) /\ SameSeen(coins, coins)
  BY KeptCoin DEF CoinsGrow, SameSeen

LEMMA SameProposalsGrow == \A ps : ProposalsGrow(ps, ps)
  BY DEF ProposalsGrow

LEMMA StoringReads ==
  ASSUME PageInv, NEW r \in Requests, NEW next, Step(r, next), UNCHANGED <<coins, proposals>>,
         known' \in [1..LastVersion -> SUBSET Nat],         SlotReads(next, coins, proposals)
  PROVE  PageInv'
<1>1. CoinsGrow(coins, coins') /\ SameSeen(coins, coins')
  BY SameCoinsGrow DEF PageInv
<1>2. /\ request' = [request EXCEPT ![r] = next] /\ DOMAIN request = Requests
      /\ request = [q \in Requests |-> request[q]]
  BY DEF Step, PageInv
<1>3. request' = [q \in Requests |-> request'[q]]
  BY <1>2
<1>4. \A q \in Requests : request'[q] = IF q = r THEN next ELSE request[q]
  BY <1>2
<1>5. ASSUME NEW q \in Requests
      PROVE  \/ Lives(request[q], request'[q]) /\ Notes(request[q], request'[q], coins, coins')
             \/ SlotReads(request'[q], coins', proposals')
  <2>1. CASE q = r
    BY <1>4, <2>1
  <2>2. CASE q # r
    <3>1. SlotReads(request[q], coins, proposals) BY DEF PageInv
    <3> QED BY <1>1, <1>4, <2>2, <3>1, UntouchedLives
  <2> QED BY <2>1, <2>2
<1>6. ProposalsGrow(proposals, proposals')
  BY SameProposalsGrow
<1>7. /\ Len(coins') <= MaxCoins
      /\ \A c \in DOMAIN coins' \ DOMAIN coins : coins'[c].seen = "unseen"
      /\ proposals' \in Seq(Proposal) /\ Len(proposals') <= MaxProposals
      /\ \A p \in DOMAIN proposals' : ProposalSound(proposals'[p], coins')
  BY DEF PageInv
<1> QED BY <1>1, <1>3, <1>5, <1>6, <1>7, PageAfter

LEMMA StepReads ==
  ASSUME PageInv, NEW r \in Requests, NEW next, Step(r, next),
         UNCHANGED <<coins, proposals, history>>, SlotReads(next, coins, proposals)
  PROVE  PageInv'
  BY StoringReads DEF PageInv, history

LEMMA SyncReads ==
  ASSUME PageInv, NEW r \in Requests, NEW now, NEW next, SyncAnd(r, now, next),
         UNCHANGED <<proposals, history>>, CoinsGrow(coins, now), Len(now) = Len(coins),
         SlotReads(next, now, proposals)
  PROVE  PageInv'
<1>1. coins' = now /\ request' = [Noticing(now) EXCEPT ![r] = next]
  BY DEF SyncAnd
<1>2. DOMAIN now = DOMAIN coins
  <2>1. coins \in Seq(Coin) /\ now \in Seq(Coin)
    BY DEF PageInv, CoinsGrow, CoinsSound
  <2> QED BY <2>1
<1>3. request' = [q \in Requests |-> request'[q]]
  BY <1>1 DEF Noticing
<1>4. \A q \in Requests : request'[q] = IF q = r THEN next ELSE Noticing(now)[q]
  <2>1. DOMAIN Noticing(now) = Requests BY DEF Noticing
  <2> HIDE DEF Noticing
  <2> QED BY <1>1, <2>1
<1>5. ASSUME NEW q \in Requests
      PROVE  \/ Lives(request[q], request'[q]) /\ Notes(request[q], request'[q], coins, coins')
             \/ SlotReads(request'[q], coins', proposals')
  <2>1. CASE q = r
    BY <1>1, <1>4, <2>1
  <2>2. CASE q # r
    BY <1>1, <1>2, <1>4, <2>2, NoticingLives
  <2> QED BY <2>1, <2>2
<1>6. ProposalsGrow(proposals, proposals')
  BY SameProposalsGrow
<1>7. /\ Len(coins') <= MaxCoins /\ CoinsGrow(coins, coins')
      /\ \A c \in DOMAIN coins' \ DOMAIN coins : coins'[c].seen = "unseen"
      /\ proposals' \in Seq(Proposal) /\ Len(proposals') <= MaxProposals
      /\ known' \in [1..LastVersion -> SUBSET Nat]
  BY <1>1, <1>2 DEF PageInv, history
<1>8. \A p \in DOMAIN proposals' : ProposalSound(proposals'[p], coins')
  <2>1. \A p \in DOMAIN proposals : ProposalSound(proposals[p], coins)
    BY DEF PageInv
  <2> QED BY <1>7, <2>1, ProposalGrows DEF PageInv
<1> QED BY <1>3, <1>5, <1>6, <1>7, <1>8, PageAfter

LEMMA SyncedGrows ==
  ASSUME PageInv, NEW v, NEW chain
  PROVE  CoinsGrow(coins, Synced(v, chain)) /\ Len(Synced(v, chain)) = Len(coins)
<1>1. Synced(v, chain) = [c \in DOMAIN coins |-> Synced(v, chain)[c]]
  BY DEF Synced
<1> HIDE DEF Synced
<1> QED BY <1>1, SyncGrows DEF PageInv

-----------------------------------------------------------------------------
(* Arrivals *)

LEMMA HeadsAreNumbers ==
  ASSUME RosterTypeOK PROVE CurrentOf(versions) \in SUBSET Nat /\ Indices \subseteq Nat /\ Current \in Nat
<1>1. Indices \subseteq Nat
  BY DEF RosterTypeOK, Indices
<1>2. Current \in Nat
  BY <1>1 DEF Current
<1> QED BY <1>1, <1>2 DEF CurrentOf, Indices

Arrived(s, op, v, chain, step) ==
  /\ s \in Request
  /\ s.op = op /\ s.step = step /\ s.version = v /\ s.chain = chain /\ s.asset = Policy(chain)
  /\ s.inputs = {} /\ s.basis = {} /\ s.moved = {} /\ s.counted = {} /\ s.left = {}
  /\ s.spendable = 0 /\ s.balance = 0 /\ s.rows = 0 /\ s.total = 0

LEMMA NewSlot ==
  ASSUME RosterTypeOK, NEW r, NEW op \in {"create", "migrate"} \cup Pages, NEW u \in Users,
         NEW v \in Nat, NEW chain \in Chains,
         NEW step \in {"status", "build", "describe", "visible", "reserve", "answer"}
  PROVE  Arrived(Slot(r, op, u, v, chain, step), op, v, chain, step)
<1> DEFINE h == CurrentOf(versions)
           a == Policy(chain)
           u0 == CHOOSE w \in Users : TRUE
<1>1. h \in SUBSET Nat /\ a \in Assets
  BY HeadsAreNumbers, PolicyOfChain
<1>2. Idle = [op |-> "none", step |-> "idle", user |-> u0, version |-> 0,
         chain |-> "bitcoin", asset |-> "BTC", amount |-> 0, to |-> 0, current |-> 0,
         inputs |-> {}, total |-> 0, basis |-> {}, spendable |-> 0, balance |-> 0,
         rows |-> 0, listed |-> {}, left |-> {}, draft |-> <<>>, funded |-> {},
         heads |-> {}, counted |-> {}, moved |-> {}]
  BY DEF Idle
<1>3. Slot(r, op, u, v, chain, step) =
        [Idle EXCEPT !.op = op, !.step = step, !.user = u, !.version = v, !.chain = chain,
                     !.asset = a, !.heads = h]
  BY DEF Slot
<1> HIDE DEF h, a, u0
<1>4. PICK s : s = [op |-> op, step |-> step, user |-> u, version |-> v,
         chain |-> chain, asset |-> a, amount |-> 0, to |-> 0, current |-> 0,
         inputs |-> {}, total |-> 0, basis |-> {}, spendable |-> 0, balance |-> 0,
         rows |-> 0, listed |-> {}, left |-> {}, draft |-> <<>>, funded |-> {},
         heads |-> h, counted |-> {}, moved |-> {}]
  OBVIOUS
<1>5. s = [Idle EXCEPT !.op = op, !.step = step, !.user = u, !.version = v, !.chain = chain,
                     !.asset = a, !.heads = h]
  <2>1. PICK x : x = [Idle EXCEPT !.op = op, !.step = step, !.user = u]
    OBVIOUS
  <2>2. PICK y : y = [x EXCEPT !.version = v, !.chain = chain]
    OBVIOUS
  <2>3. PICK z : z = [y EXCEPT !.asset = a, !.heads = h]
    OBVIOUS
  <2>4. s = z
    BY <1>2, <1>4, <2>1, <2>2, <2>3
  <2> QED BY <2>1, <2>2, <2>3, <2>4, Zenon
<1>6. << >> \in Seq(Version) OBVIOUS
<1>7. s \in Request
  BY <1>1, <1>4, <1>6 DEF Request, Pages
<1>8. Slot(r, op, u, v, chain, step) = s
  BY <1>3, <1>5, Zenon
<1>9. Arrived(s, op, v, chain, step)
  BY <1>4, <1>7 DEF Arrived, a
<1> QED BY <1>8, <1>9

LEMMA ArrivalsRead ==
  ASSUME RosterInv, PageInv, NEW r \in Requests, NEW u \in Users, NEW v, NEW chain \in Chains,
         \/ \E op \in {"receive", "manage"} : OpenPage(r, op, u, v, chain)
         \/ OpenSend(r, u, v, chain) \/ Show(r, u, v, chain)
  PROVE  PageInv'
<1>1. v \in Nat /\ RosterTypeOK
  BY HeadsAreNumbers DEF OpenPage, OpenSend, Show, RosterInv
<1>2. ASSUME NEW op \in Pages, NEW step \in {"visible", "reserve", "answer"},
             op = "receive" => step = "visible"
      PROVE  Fresh(Slot(r, op, u, v, chain, step))
  <2> DEFINE s == Slot(r, op, u, v, chain, step)
  <2>1. Arrived(s, op, v, chain, step)
    BY <1>1, <1>2, NewSlot DEF Pages
  <2> HIDE DEF s
  <2>2. /\ "create" \notin Pages /\ "migrate" \notin Pages
        /\ step \in {"idle", "status", "build", "visible", "reserve", "answer"}
    BY DEF Pages
  <2>3. Fresh(s)
    BY <1>2, <2>1, <2>2 DEF Fresh, Arrived
  <2> QED BY <2>3 DEF s
<1>3. ASSUME NEW op \in {"receive", "manage"}, OpenPage(r, op, u, v, chain)
      PROVE  PageInv'
  <2> DEFINE next == Slot(r, op, u, v, chain, IF op = "receive" THEN "visible" ELSE "reserve")
  <2>1. Fresh(next)
    BY <1>2 DEF Pages
  <2>2. Step(r, next) /\ UNCHANGED <<coins, proposals, history>>
    BY <1>3 DEF OpenPage
  <2> HIDE DEF next
  <2> QED BY <2>1, <2>2, FreshReads, StepReads
<1>4. CASE OpenSend(r, u, v, chain)
  <2> DEFINE next == Slot(r, "send", u, v, chain, "reserve")
  <2>1. Fresh(next)
    BY <1>2 DEF Pages
  <2>2. SyncAnd(r, Synced(v, chain), next) /\ UNCHANGED <<proposals, history>>
    BY <1>4 DEF OpenSend
  <2> HIDE DEF next
  <2> QED BY <2>1, <2>2, FreshReads, SyncedGrows, SyncReads
<1>5. CASE Show(r, u, v, chain)
  <2> DEFINE s == Slot(r, "show", u, v, chain, "answer")
             next == [s EXCEPT !.listed = {v}]
  <2>1. Fresh(s)
    BY <1>2 DEF Pages
  <2>2. SyncAnd(r, Synced(v, chain), next) /\ UNCHANGED <<proposals, history>>
    BY <1>5 DEF Show
  <2> HIDE DEF s
  <2>3. Fresh(next)
    BY <1>1, <2>1 DEF Fresh, Request
  <2> HIDE DEF next
  <2> QED BY <2>2, <2>3, FreshReads, SyncedGrows, SyncReads
<1> QED BY <1>3, <1>4, <1>5

LEMMA DetailReads ==
  ASSUME RosterInv, PageInv, NEW r \in Requests, NEW u \in Users, NEW p \in DOMAIN proposals,
         Detail(r, u, p)
  PROVE  PageInv'
<1> DEFINE v == proposals[p].version
           chain == proposals[p].chain
           s == Slot(r, "detail", u, v, chain, "answer")
           next == [s EXCEPT !.listed = {v}]
<1>1. v \in Nat /\ chain \in Chains /\ RosterTypeOK
  <2>1. proposals[p] \in Proposal
    BY DEF PageInv
  <2> QED BY <2>1 DEF RosterInv, Proposal
<1>2. Step(r, next) /\ UNCHANGED <<coins, proposals, history>>
  BY DEF Detail
<1> HIDE DEF v, chain
<1>3. Fresh(s)
  <2>1. Arrived(s, "detail", v, chain, "answer")
    BY <1>1, NewSlot DEF Pages
  <2> HIDE DEF s
  <2> QED BY <2>1 DEF Fresh, Arrived
<1> HIDE DEF s
<1>4. Fresh(next)
  BY <1>1, <1>3 DEF Fresh, Request
<1> HIDE DEF next
<1> QED BY <1>2, <1>4, FreshReads, StepReads

LEMMA RequestCreateReads ==
  ASSUME RosterInv, PageInv, NEW r \in Requests, NEW u \in Users, NEW v \in Indices,
         NEW asset \in Assets, NEW amount \in Nat, NEW to \in Nat,
         RequestCreate(r, u, v, asset, amount, to)
  PROVE  PageInv'
<1> DEFINE chain == Chain(asset)
           step == IF asset = "BTC" THEN "status" ELSE "build"
           s == Slot(r, "create", u, v, chain, step)
           next == [s EXCEPT !.asset = asset, !.amount = amount, !.to = to]
<1>1. v \in Nat /\ chain \in Chains /\ RosterTypeOK
  BY HeadsAreNumbers, PolicyOfChain DEF RosterInv
<1>2. SyncAnd(r, Synced(v, chain), next) /\ UNCHANGED <<proposals, history>>
  BY DEF RequestCreate
<1>3. step \in {"status", "build"}
  OBVIOUS
<1>4. Arrived(s, "create", v, chain, step)
  BY <1>1, <1>3, NewSlot
<1> HIDE DEF s, step
<1>5. Fresh(next)
  BY <1>1, <1>3, <1>4 DEF Fresh, Arrived, Request, Pages
<1> HIDE DEF next
<1> QED BY <1>2, <1>5, FreshReads, SyncedGrows, SyncReads

-----------------------------------------------------------------------------
(* A proposal being built *)

\* A request on its way to a proposal shows nothing.
LEMMA CreationReads ==
  ASSUME NEW cs, NEW ps, NEW q, SlotReads(q, cs, ps), q.op \in {"create", "migrate"},
         NEW s \in Request, s.op = q.op, s.basis = q.basis, s.counted = q.counted,
         s.spendable = q.spendable, s.moved = q.moved, s.left = q.left,
         s.step \in {"build", "describe", "insert", "store", "sweep", "open", "flip"},
         s.inputs \subseteq DOMAIN cs, SlotSpends(s, cs)
  PROVE  SlotReads(s, cs, ps)
<1>1. SlotTyped(s, cs, ps)
  BY DEF SlotReads, SlotTyped
<1>2. s.op \notin Pages /\ s.op # "receive"
  BY DEF Pages
<1>3. SlotPromises(s, cs, ps)
  BY <1>2 DEF SlotReads, SlotPromises
<1>4. SlotRows(s, cs)
  BY <1>2 DEF SlotRows
<1> QED BY <1>1, <1>3, <1>4 DEF SlotReads

\* What a slot of a handler is, to begin with.
LEMMA SlotOf ==
  ASSUME RosterInv, PageInv, NEW r \in Requests
  PROVE  /\ SlotReads(request[r], coins, proposals) /\ request[r] \in Request
         /\ request[r].inputs \subseteq DOMAIN coins
         /\ SlotSound(request[r]) /\ RosterTypeOK
         /\ CoinsTypeOK /\ CoinsSound(coins)
<1>1. SlotReads(request[r], coins, proposals)
  BY DEF PageInv
<1>2. request[r] \in Request /\ request[r].inputs \subseteq DOMAIN coins
  BY <1>1 DEF SlotReads, SlotTyped
<1>3. SlotSound(request[r]) /\ RosterTypeOK
  BY DEF RosterInv, SlotsSound
<1>4. CoinsTypeOK /\ CoinsSound(coins)
  BY DEF PageInv, CoinsTypeOK, CoinsSound
<1> QED BY <1>1, <1>2, <1>3, <1>4

LEMMA CheckStatusReads ==
  ASSUME RosterInv, PageInv, NEW r \in Requests, CheckStatus(r)
  PROVE  PageInv'
<1> DEFINE q == request[r]
           next == [q EXCEPT !.current = Current, !.step = "build"]
<1>1. /\ SlotReads(q, coins, proposals) /\ q \in Request /\ SlotSound(q)
      /\ q.inputs \subseteq DOMAIN coins /\ Current \in Nat
  BY SlotOf, HeadsAreNumbers
<1>2. q.step = "status" /\ Step(r, next) /\ UNCHANGED <<coins, proposals, history>>
  BY DEF CheckStatus, Holds
<1>3. q.op = "create"
  BY <1>1, <1>2 DEF SlotSound
<1> HIDE DEF q
<1>4. /\ next \in Request /\ next.step = "build" /\ next.op = q.op /\ next.basis = q.basis
      /\ next.counted = q.counted /\ next.spendable = q.spendable /\ next.moved = q.moved
      /\ next.left = q.left /\ next.inputs = q.inputs /\ next.chain = q.chain /\ next.asset = q.asset
  <2>1. PICK n : n = Current OBVIOUS
  <2>2. n \in Nat BY <1>1, <2>1
  <2>3. PICK s : s = [q EXCEPT !.current = n, !.step = "build"] OBVIOUS
  <2>4. /\ s \in Request /\ s.step = "build" /\ s.op = q.op /\ s.basis = q.basis
        /\ s.counted = q.counted /\ s.spendable = q.spendable /\ s.moved = q.moved
        /\ s.left = q.left /\ s.inputs = q.inputs /\ s.chain = q.chain /\ s.asset = q.asset
    BY <1>1, <2>2, <2>3 DEF Request
  <2>5. s = next BY <2>1, <2>3, Zenon
  <2> QED BY <2>4, <2>5
<1> HIDE DEF next
<1>5. SlotSpends(next, coins)
  BY <1>1, <1>3, <1>4 DEF SlotReads, SlotSpends
<1>6. SlotReads(next, coins, proposals)
  BY <1>1, <1>3, <1>4, <1>5, CreationReads
<1> QED BY <1>2, <1>6, StepReads

LEMMA SelectedCoins ==
  ASSUME NEW r \in Requests, NEW inputs \in Selectable(r)
  PROVE  /\ inputs \subseteq DOMAIN coins
         /\ request[r].asset = "BTC" => inputs \subseteq Held(request[r].version, "BTC")
<1> DEFINE pool == Held(request[r].version, request[r].asset)
<1>1. \A v, a : Held(v, a) \subseteq DOMAIN coins
  BY DEF Held, Wallet
<1>2. CASE request[r].asset = "issued"
  BY <1>1, <1>2 DEF Selectable, AssetSelections, Selections
<1>3. CASE request[r].asset # "issued"
  <2>1. inputs \in Drains(pool) \/ inputs \in Selections(pool, request[r].amount)
    BY <1>3 DEF Selectable
  <2>2. inputs \subseteq pool
    BY <2>1 DEF Drains, Selections
  <2> QED BY <1>1, <2>2
<1> QED BY <1>2, <1>3

\* The value of a selection covers whatever part of it counts.
LEMMA ValueCovers ==
  ASSUME CoinsTypeOK, NEW S \in SUBSET (DOMAIN coins),
         NEW p, p.total = Value(S), Outstanding(p, coins) \subseteq S
  PROVE  Covering(p, coins)
<1>1. Value(S) = Total(Worth(coins), S)
  BY ValueIsTotal
<1>2. Valued(Worth(coins), S)
  BY CoinsAreValued DEF CoinsTypeOK
<1>3. Total(Worth(coins), Outstanding(p, coins)) <= Total(Worth(coins), S)
  BY <1>2, TotalIsMonotone
<1> QED BY <1>1, <1>3 DEF Covering

LEMMA BuildReads ==
  ASSUME RosterInv, PageInv, NEW r \in Requests, Build(r)
  PROVE  PageInv'
<1> DEFINE q == request[r]
           drained == q.asset = "BTC" /\ ~IsCurrentSigner(q.user, q.current)
           next(inputs) ==
             [q EXCEPT !.inputs = inputs, !.amount = IF drained THEN 0 ELSE @,
                       !.total = IF q.chain = "elements" /\ q.amount = 0 THEN Value(inputs) ELSE 0,
                       !.step = IF q.chain = "bitcoin" THEN "describe" ELSE "insert"]
<1>1. /\ SlotReads(q, coins, proposals) /\ q \in Request /\ SlotSound(q)
      /\ q.inputs \subseteq DOMAIN coins /\ CoinsTypeOK
  BY SlotOf
<1>2. q.step = "build" /\ UNCHANGED <<coins, proposals, history>>
  BY DEF Build, Holds
<1>3. q.op = "create" /\ q.chain = Chain(q.asset)
  BY <1>1, <1>2 DEF SlotSound, SlotReads, SlotSpends
<1>4. CASE Step(r, Idle)
  BY <1>2, <1>4, IdleFresh, FreshReads, StepReads
<1>5. ASSUME NEW inputs \in Selectable(r), Step(r, next(inputs))
      PROVE  PageInv'
  <2>1. inputs \subseteq DOMAIN coins /\ (q.asset = "BTC" => inputs \subseteq Held(q.version, "BTC"))
    BY SelectedCoins
  <2>2. inputs \subseteq Nat /\ Value(inputs) \in Nat
    <3>1. DOMAIN coins \subseteq Nat BY <1>1 DEF CoinsTypeOK
    <3> QED BY <1>1, <2>1, <3>1, ValueIsTotal
  <2> DEFINE st == IF q.chain = "bitcoin" THEN "describe" ELSE "insert"
             am == IF drained THEN 0 ELSE q.amount
             to == IF q.chain = "elements" /\ q.amount = 0 THEN Value(inputs) ELSE 0
  <2> HIDE DEF q, drained
  <2>3. /\ st \in {"describe", "insert"} /\ am \in Nat /\ to \in Nat
        /\ st = "describe" <=> q.chain = "bitcoin"
    BY <1>1, <2>2 DEF Request
  <2>4. next(inputs) = [q EXCEPT !.inputs = inputs, !.amount = am, !.total = to, !.step = st]
    BY Zenon
  <2>5. st = "insert" /\ am = 0 => to = Value(inputs)
    <3>1. st = "insert" => q.chain # "bitcoin" /\ ~drained
      BY <1>3 DEF drained, Chain
    <3>2. q.chain \in {"bitcoin", "elements"} BY <1>1 DEF Request, Chains
    <3> QED BY <3>1, <3>2
  <2> HIDE DEF st, am, to
  <2>6. PICK a : a = [q EXCEPT !.inputs = inputs, !.amount = am] OBVIOUS
  <2>7. /\ a \in Request /\ a.inputs = inputs /\ a.amount = am /\ a.op = q.op /\ a.version = q.version
        /\ a.chain = q.chain /\ a.asset = q.asset /\ a.basis = q.basis /\ a.counted = q.counted
        /\ a.spendable = q.spendable /\ a.moved = q.moved /\ a.left = q.left
    BY <1>1, <2>2, <2>3, <2>6 DEF Request
  <2>8. PICK s : s = [a EXCEPT !.total = to, !.step = st] OBVIOUS
  <2>9. /\ s \in Request /\ s.inputs = inputs /\ s.amount = am /\ s.op = q.op /\ s.version = q.version
        /\ s.chain = q.chain /\ s.asset = q.asset /\ s.basis = q.basis /\ s.counted = q.counted
        /\ s.spendable = q.spendable /\ s.moved = q.moved /\ s.left = q.left
        /\ s.total = to /\ s.step = st
    BY <2>3, <2>7, <2>8 DEF Request
  <2>10. Step(r, s)
    <3>1. next(inputs) = s
      BY <2>4, <2>6, <2>8, Zenon
    <3> QED BY <1>5, <3>1
  <2>11. ASSUME s.step = "insert", s.amount = 0 PROVE Covering(s, coins)
    <3>1. s.total = Value(inputs) BY <2>5, <2>9, <2>11
    <3>2. Outstanding(s, coins) \subseteq inputs BY <2>9 DEF Outstanding
    <3> QED BY <1>1, <2>1, <3>1, <3>2, ValueCovers
  <2>12. s.step = "insert" => s.chain # "bitcoin"
    BY <2>3, <2>9
  <2>13. ASSUME s.step = "describe"
         PROVE  /\ s.chain = "bitcoin"
                /\ \A c \in s.inputs :
                     coins[c].owner = s.version /\ coins[c].asset = "BTC" /\ coins[c].seen # "unseen"
    <3>1. q.chain = "bitcoin" BY <2>3, <2>9, <2>13
    <3>2. q.asset = "BTC" BY <1>1, <1>3, <3>1 DEF Chain
    <3> QED BY <2>1, <2>9, <3>1, <3>2 DEF Held, Wallet
  <2>14. SlotSpends(s, coins)
    BY <1>3, <2>3, <2>9, <2>11, <2>12, <2>13 DEF SlotSpends
  <2>15. SlotReads(s, coins, proposals)
    BY <1>1, <1>3, <2>1, <2>3, <2>9, <2>14, CreationReads
  <2> QED BY <1>2, <2>10, <2>15, StepReads
<1> QED BY <1>4, <1>5 DEF Build

LEMMA DescribeReads ==
  ASSUME RosterInv, PageInv, NEW r \in Requests, Describe(r)
  PROVE  PageInv'
<1> DEFINE q == request[r]
           S == q.inputs \cap Held(q.version, "BTC")
           st == Described(q)
           to == Value(S)
           next == [q EXCEPT !.total = to, !.step = st]
<1>1. /\ SlotReads(q, coins, proposals) /\ q \in Request /\ SlotSound(q)
      /\ q.inputs \subseteq DOMAIN coins /\ CoinsTypeOK
  BY SlotOf
<1>2. q.step = "describe" /\ Step(r, next) /\ UNCHANGED <<coins, proposals, history>>
  BY DEF Describe, Holds
<1>3. q.op \in {"create", "migrate"} /\ st \in {"insert", "store", "open"}
  BY <1>1, <1>2 DEF SlotSound, Described
<1>4. S \subseteq DOMAIN coins /\ to \in Nat
  <2>1. S \subseteq DOMAIN coins BY <1>1
  <2> QED BY <1>1, <2>1, ValueIsTotal
<1>5. /\ q.chain = "bitcoin" /\ (q.op = "create" => q.chain = Chain(q.asset))
      /\ \A c \in q.inputs :
           coins[c].owner = q.version /\ coins[c].asset = "BTC" /\ coins[c].seen # "unseen"
  BY <1>1, <1>2 DEF SlotReads, SlotSpends
<1>6. {c \in q.inputs : coins[c].asset = "BTC" /\ coins[c].seen # "spent"} \subseteq S
  <2>1. \A c \in DOMAIN coins : coins[c].seen \in {"unseen", "untrusted", "trusted", "spent"}
    <3>1. \A c \in DOMAIN coins : coins[c] \in Coin BY <1>1 DEF CoinsTypeOK
    <3> QED BY <3>1 DEF Coin
  <2>2. \A c \in q.inputs : c \in DOMAIN coins
    BY <1>1
  <2> QED BY <1>5, <2>1, <2>2 DEF Held, Wallet
<1> HIDE DEF q, st, to
<1>7. /\ next \in Request /\ next.inputs = q.inputs /\ next.op = q.op /\ next.version = q.version
      /\ next.chain = q.chain /\ next.asset = q.asset /\ next.basis = q.basis
      /\ next.counted = q.counted /\ next.spendable = q.spendable /\ next.moved = q.moved
      /\ next.left = q.left /\ next.total = to /\ next.step = st
  BY <1>1, <1>3, <1>4 DEF Request
<1> HIDE DEF next
<1>8. Outstanding(next, coins) \subseteq S
  <2>1. Policy("bitcoin") = "BTC" BY DEF Policy
  <2> HIDE DEF S
  <2> QED BY <1>5, <1>6, <1>7, <2>1 DEF Outstanding
<1>9. Covering(next, coins)
  <2>1. next.total = Value(S) BY <1>7 DEF to
  <2> HIDE DEF S
  <2> QED BY <1>1, <1>4, <1>8, <2>1, ValueCovers
<1>10. SlotSpends(next, coins)
  BY <1>3, <1>5, <1>7, <1>9 DEF SlotSpends
<1>11. SlotReads(next, coins, proposals)
  BY <1>1, <1>3, <1>7, <1>10, CreationReads
<1> QED BY <1>2, <1>11, StepReads

\* A proposal is stored, which covers what it selects, and its request goes on.
LEMMA StoredReads ==
  ASSUME PageInv, NEW r \in Requests, NEW p, ProposalSound(p, coins),
         Len(proposals) < MaxProposals, proposals' = Append(proposals, p),
         NEW next, Step(r, next), UNCHANGED <<coins, history>>,
         \A ps : ProposalsGrow(proposals, ps) => SlotReads(next, coins, ps)
  PROVE  PageInv'
<1>1. /\ proposals \in Seq(Proposal) /\ Len(proposals) \in Nat /\ DOMAIN request = Requests
      /\ request = [x \in Requests |-> request[x]]
      /\ \A i \in DOMAIN proposals : ProposalSound(proposals[i], coins)
      /\ CoinsSound(coins) /\ Len(coins) <= MaxCoins /\ known \in [1..LastVersion -> SUBSET Nat]
  BY DEF PageInv
<1>2. p \in Proposal
  BY DEF ProposalSound
<1>3. /\ proposals' \in Seq(Proposal) /\ Len(proposals') = Len(proposals) + 1
      /\ DOMAIN proposals \subseteq DOMAIN proposals'
      /\ \A i \in DOMAIN proposals : proposals'[i] = proposals[i]
      /\ \A i \in DOMAIN proposals' : i \in DOMAIN proposals \/ proposals'[i] = p
  BY <1>1, <1>2
<1>4. ProposalsGrow(proposals, proposals') /\ Len(proposals') <= MaxProposals
  BY <1>1, <1>3, VaultAssumption DEF ProposalsGrow
<1>5. \A i \in DOMAIN proposals' : ProposalSound(proposals'[i], coins')
  BY <1>1, <1>3
<1>6. CoinsGrow(coins, coins') /\ SameSeen(coins, coins') /\ coins' = coins /\ known' = known
  BY <1>1, SameCoinsGrow DEF history
<1>7. /\ request' = [x \in Requests |-> request'[x]]
      /\ \A x \in Requests : request'[x] = IF x = r THEN next ELSE request[x]
  BY <1>1 DEF Step
<1>8. ASSUME NEW x \in Requests
      PROVE  \/ Lives(request[x], request'[x]) /\ Notes(request[x], request'[x], coins, coins')
             \/ SlotReads(request'[x], coins', proposals')
  <2>1. CASE x = r
    BY <1>4, <1>6, <1>7, <2>1
  <2>2. CASE x # r
    <3>1. SlotReads(request[x], coins, proposals) BY DEF PageInv
    <3> QED BY <1>6, <1>7, <2>2, <3>1, UntouchedLives
  <2> QED BY <2>1, <2>2
<1> HIDE DEF Step
<1> QED BY <1>1, <1>3, <1>4, <1>5, <1>6, <1>7, <1>8, PageAfter

\* What was written down with a proposal is what its request had counted.
LEMMA InsertProposalReads ==
  ASSUME RosterInv, PageInv, NEW r \in Requests, InsertProposal(r)
  PROVE  PageInv'
<1> DEFINE q == request[r]
           p == [version |-> q.version, chain |-> q.chain, by |-> q.user, inputs |-> q.inputs,
                 total |-> q.total, asset |-> q.asset, amount |-> q.amount, to |-> q.to,
                 sweeps |-> 0, status |-> "open"]
<1>1. SlotReads(q, coins, proposals) /\ q \in Request /\ q.inputs \subseteq DOMAIN coins
  BY SlotOf
<1>2. /\ q.step = "insert" /\ Len(proposals) < MaxProposals /\ proposals' = Append(proposals, p)
      /\ Step(r, Idle) /\ UNCHANGED <<coins, history>>
  BY DEF InsertProposal, Holds
<1>3. q.chain = "bitcoin" \/ q.amount = 0 => Covering(q, coins)
  BY <1>1, <1>2 DEF SlotReads, SlotSpends
<1> HIDE DEF q
<1>4. /\ p \in Proposal /\ p.inputs = q.inputs /\ p.chain = q.chain /\ p.amount = q.amount
      /\ p.total = q.total
  BY <1>1 DEF Request, Proposal
<1> HIDE DEF p
<1>5. ProposalSound(p, coins)
  <2>1. Covering(q, coins) => Covering(p, coins)
    BY <1>4 DEF Covering, Outstanding
  <2> QED BY <1>1, <1>3, <1>4, <2>1 DEF ProposalSound
<1>6. \A ps : SlotReads(Idle, coins, ps)
  BY IdleFresh, FreshReads
<1> QED BY <1>2, <1>5, <1>6, StoredReads

-----------------------------------------------------------------------------
(* A page being filled *)

\* What a slot has read stays as good when the wallet learns more, unless its
\* rows are read and its balance is not.
LEMMA StillReads ==
  ASSUME PageInv, NEW r \in Requests, NEW now, CoinsGrow(coins, now), Len(now) = Len(coins),
         ~(request[r].op = "receive" /\ request[r].step \in RowsTaken)
  PROVE  SlotReads(request[r], now, proposals)
<1>1. /\ SlotReads(request[r], coins, proposals) /\ CoinsSound(coins) /\ proposals \in Seq(Proposal)
  BY DEF PageInv
<1>2. DOMAIN now = DOMAIN coins
  <2>1. coins \in Seq(Coin) /\ now \in Seq(Coin)
    BY <1>1 DEF CoinsGrow, CoinsSound
  <2> QED BY <2>1
<1>3. Lives(request[r], request[r]) /\ Notes(request[r], request[r], coins, now)
  BY <1>1 DEF Lives, Notes, SlotReads, SlotTyped
<1> QED BY <1>1, <1>2, <1>3, SameProposalsGrow, ReadsOn

LEMMA ReadVisibleReads ==
  ASSUME RosterInv, PageInv, NEW r \in Requests, ReadVisible(r)
  PROVE  PageInv'
<1> DEFINE q == request[r]
           n == Current
           next == [q EXCEPT !.current = n, !.step = "list"]
           lineage == [c \in DOMAIN coins |-> IF Chain(coins[c].asset) = "bitcoin"
                         THEN Synced(coins[c].owner, "bitcoin")[c] ELSE coins[c]]
           now == IF q.op = "manage" /\ q.chain = "bitcoin" THEN lineage ELSE coins
<1>1. q \in Request /\ n \in Nat /\ CoinsSound(coins)
  BY SlotOf, HeadsAreNumbers
<1>2. q.step = "visible" /\ SyncAnd(r, now, next) /\ UNCHANGED <<proposals, history>>
  BY DEF ReadVisible, Holds
<1>3. CoinsGrow(coins, now) /\ Len(now) = Len(coins)
  <2>1. CoinsGrow(coins, lineage) /\ Len(lineage) = Len(coins)
    <3>1. lineage = [c \in DOMAIN coins |-> lineage[c]]
      OBVIOUS
    <3>2. \A c \in DOMAIN coins :
            lineage[c] = coins[c] \/ \E v, chain : lineage[c] = Synced(v, chain)[c]
      OBVIOUS
    <3> HIDE DEF lineage
    <3> QED BY <1>1, <3>1, <3>2, SyncGrows
  <2>2. CoinsGrow(coins, coins)
    BY <1>1, SameCoinsGrow
  <2> HIDE DEF lineage
  <2> QED BY <2>1, <2>2
<1>4. SlotReads(q, now, proposals)
  <2> HIDE DEF now
  <2> QED BY <1>2, <1>3, StillReads DEF RowsTaken
<1> HIDE DEF q, now, n
<1>5. /\ next \in Request /\ next.inputs = q.inputs /\ next.op = q.op /\ next.version = q.version
      /\ next.chain = q.chain /\ next.asset = q.asset /\ next.basis = q.basis
      /\ next.counted = q.counted /\ next.spendable = q.spendable /\ next.moved = q.moved
      /\ next.left = q.left /\ next.balance = q.balance /\ next.rows = q.rows /\ next.step = "list"
  BY <1>1 DEF Request
<1> HIDE DEF next
<1>6. SlotTyped(next, now, proposals)
  BY <1>4, <1>5 DEF SlotReads, SlotTyped
<1>7. SlotSpends(next, now)
  BY <1>4, <1>5 DEF SlotReads, SlotSpends
<1>8. SlotPromises(next, now, proposals)
  BY <1>2, <1>4, <1>5 DEF SlotReads, SlotPromises, Untouched
<1>9. SlotRows(next, now)
  BY <1>2, <1>4, <1>5 DEF SlotReads, SlotRows, RowsTaken
<1> QED BY <1>2, <1>3, <1>6, <1>7, <1>8, <1>9, SyncReads DEF SlotReads

LEMMA ListVersionsReads ==
  ASSUME RosterInv, PageInv, NEW r \in Requests, ListVersions(r)
  PROVE  PageInv'
<1> DEFINE q == request[r]
           listed == Visible(q.user, q.current)
           left == IF q.op = "receive" THEN listed ELSE {}
           st == CASE q.op = "send" -> "lock" [] q.op = "receive" -> "panel" [] OTHER -> "answer"
           next == [q EXCEPT !.listed = listed, !.current = 0, !.left = left, !.step = st]
<1>1. q \in Request /\ SlotReads(q, coins, proposals) /\ RosterTypeOK
  BY SlotOf
<1>2. q.step = "list" /\ UNCHANGED <<coins, proposals, history>>
  BY DEF ListVersions, Holds
<1>3. Step(r, next)
  BY DEF ListVersions
<1>4. listed \subseteq 1..LastVersion
  <2>1. Indices \subseteq 1..LastVersion
    <3>1. versions \in Seq(Version) /\ Len(versions) <= LastVersion /\ LastVersion \in Nat
      BY <1>1, RosterAssumption DEF RosterTypeOK
    <3> QED BY <3>1 DEF Indices
  <2> QED BY <2>1 DEF Visible, MemberOf
<1>5. /\ st \in {"lock", "panel", "answer"} /\ (st = "panel" => q.op = "receive")
      /\ left \subseteq 1..LastVersion
  BY <1>4
<1> HIDE DEF q, listed, left, st
<1>6. /\ next \in Request /\ next.inputs = q.inputs /\ next.op = q.op /\ next.version = q.version
      /\ next.chain = q.chain /\ next.asset = q.asset /\ next.basis = q.basis
      /\ next.counted = q.counted /\ next.spendable = q.spendable /\ next.moved = q.moved
      /\ next.left = left /\ next.balance = q.balance /\ next.rows = q.rows /\ next.step = st
  <2>1. listed \in SUBSET Nat /\ left \in SUBSET Nat BY <1>4, <1>5
  <2>2. PICK a : a = [q EXCEPT !.listed = listed, !.current = 0] OBVIOUS
  <2>3. /\ a \in Request /\ a.inputs = q.inputs /\ a.op = q.op /\ a.version = q.version
        /\ a.chain = q.chain /\ a.asset = q.asset /\ a.basis = q.basis
        /\ a.counted = q.counted /\ a.spendable = q.spendable /\ a.moved = q.moved
        /\ a.balance = q.balance /\ a.rows = q.rows
    BY <1>1, <2>1, <2>2 DEF Request
  <2>4. PICK b : b = [a EXCEPT !.left = left, !.step = st] OBVIOUS
  <2>5. /\ b \in Request /\ b.inputs = q.inputs /\ b.op = q.op /\ b.version = q.version
        /\ b.chain = q.chain /\ b.asset = q.asset /\ b.basis = q.basis
        /\ b.counted = q.counted /\ b.spendable = q.spendable /\ b.moved = q.moved
        /\ b.left = left /\ b.balance = q.balance /\ b.rows = q.rows /\ b.step = st
    BY <1>5, <2>1, <2>3, <2>4 DEF Request
  <2>6. b = next BY <2>2, <2>4, Zenon
  <2> QED BY <2>5, <2>6
<1> HIDE DEF next
<1>7. SlotTyped(next, coins, proposals)
  BY <1>1, <1>5, <1>6 DEF SlotReads, SlotTyped
<1>8. SlotSpends(next, coins)
  BY <1>1, <1>5, <1>6 DEF SlotReads, SlotSpends
<1>9. SlotPromises(next, coins, proposals)
  BY <1>1, <1>2, <1>5, <1>6 DEF SlotReads, SlotPromises, Untouched
<1>10. SlotRows(next, coins)
  BY <1>1, <1>2, <1>5, <1>6 DEF SlotReads, SlotRows, RowsTaken
<1> QED BY <1>2, <1>3, <1>7, <1>8, <1>9, <1>10, StepReads DEF SlotReads

LEMMA LockRecipientReads ==
  ASSUME RosterInv, PageInv, NEW r \in Requests, LockRecipient(r)
  PROVE  PageInv'
<1> DEFINE q == request[r]
           to == IF IsCurrentSigner(q.user, Current) THEN 0 ELSE Current
           next == [q EXCEPT !.to = to, !.step = "answer"]
<1>1. q \in Request /\ SlotReads(q, coins, proposals) /\ to \in Nat
  BY SlotOf, HeadsAreNumbers
<1>2. q.step = "lock" /\ Step(r, next) /\ UNCHANGED <<coins, proposals, history>>
  BY DEF LockRecipient, Holds
<1> HIDE DEF q, to
<1>3. /\ next \in Request /\ next.inputs = q.inputs /\ next.op = q.op /\ next.version = q.version
      /\ next.chain = q.chain /\ next.asset = q.asset /\ next.basis = q.basis
      /\ next.counted = q.counted /\ next.spendable = q.spendable /\ next.moved = q.moved
      /\ next.left = q.left /\ next.balance = q.balance /\ next.rows = q.rows /\ next.step = "answer"
  BY <1>1 DEF Request
<1> HIDE DEF next
<1>4. SlotTyped(next, coins, proposals)
  BY <1>1, <1>3 DEF SlotReads, SlotTyped
<1>5. SlotSpends(next, coins)
  BY <1>1, <1>3 DEF SlotReads, SlotSpends
<1>6. SlotPromises(next, coins, proposals)
  BY <1>1, <1>2, <1>3 DEF SlotReads, SlotPromises, Untouched
<1>7. SlotRows(next, coins)
  BY <1>1, <1>2, <1>3 DEF SlotReads, SlotRows, RowsTaken
<1> QED BY <1>2, <1>4, <1>5, <1>6, <1>7, StepReads DEF SlotReads

\* Of finitely many versions one is the newest.
LEMMA NewestOfSome ==
  ASSUME NEW n \in Nat, NEW S \in SUBSET (1..n), S # {}
  PROVE  \E w \in S : \A x \in S : x <= w
<1> DEFINE T == {k \in Nat : \A U \in SUBSET (1..k) : U # {} => \E w \in U : \A x \in U : x <= w}
<1>1. 0 \in T
  <2>1. 1..0 = {} OBVIOUS
  <2> QED BY <2>1
<1>2. ASSUME NEW k \in Nat, k \in T PROVE k + 1 \in T
  <2>1. ASSUME NEW U \in SUBSET (1..(k + 1)), U # {}
        PROVE  \E w \in U : \A x \in U : x <= w
    <3>1. CASE k + 1 \in U
      BY <3>1
    <3>2. CASE k + 1 \notin U
      <4>1. U \in SUBSET (1..k) BY <3>2
      <4> QED BY <1>2, <2>1, <4>1
    <3> QED BY <3>1, <3>2
  <2> QED BY <2>1
<1> HIDE DEF T
<1>3. n \in T
  BY <1>1, <1>2, NatSetInduction
<1> QED BY <1>3 DEF T

LEMMA PanelReads ==
  ASSUME RosterInv, PageInv, NEW r \in Requests, Panel(r)
  PROVE  PageInv'
<1> DEFINE q == request[r]
           v == CHOOSE w \in q.left : \A x \in q.left : x <= w
           left == q.left \ {v}
           st == IF v = q.version THEN "external" ELSE "panel"
           now == Synced(v, q.chain)
           next == [q EXCEPT !.left = left, !.step = st]
<1>1. q \in Request
  BY SlotOf
<1>2. q.step = "panel" /\ q.left # {} /\ UNCHANGED <<proposals, history>>
  BY DEF Panel, Holds
<1>3. SyncAnd(r, now, next)
  <2>1. next = [q EXCEPT !.left = @ \ {v}, !.step = IF v = q.version THEN "external" ELSE "panel"]
    BY Zenon
  <2> QED BY <2>1 DEF Panel
<1>4. CoinsGrow(coins, now) /\ Len(now) = Len(coins)
  BY SyncedGrows
<1>5. SlotReads(q, now, proposals)
  <2> HIDE DEF now
  <2> QED BY <1>2, <1>4, StillReads DEF RowsTaken
<1>6. v \in q.left
  <2>1. q.left \subseteq 1..LastVersion
    BY <1>5 DEF SlotReads, SlotTyped
  <2>2. \E w \in q.left : \A x \in q.left : x <= w
    BY <1>2, <2>1, NewestOfSome, RosterAssumption
  <2> QED BY <2>2
<1> HIDE DEF q, now, v
<1>7. /\ next \in Request /\ next.inputs = q.inputs /\ next.op = q.op /\ next.version = q.version
      /\ next.chain = q.chain /\ next.asset = q.asset /\ next.basis = q.basis
      /\ next.counted = q.counted /\ next.spendable = q.spendable /\ next.moved = q.moved
      /\ next.left = left /\ next.balance = q.balance /\ next.rows = q.rows /\ next.step = st
      /\ next.total = q.total
  <2> HIDE DEF left, st
  <2>1. left \in SUBSET Nat /\ st \in {"external", "panel"} BY <1>1 DEF left, st, Request
  <2> QED BY <1>1, <2>1 DEF Request
<1>8. /\ next.left \subseteq q.left /\ next.step \in {"external", "panel"}
      /\ next.step = "external" => q.version \in q.left /\ q.version \notin next.left
  BY <1>6, <1>7
<1> HIDE DEF next, left, st
<1>9. SlotTyped(next, now, proposals)
  BY <1>5, <1>7, <1>8 DEF SlotReads, SlotTyped
<1>10. SlotSpends(next, now)
  BY <1>5, <1>7, <1>8 DEF SlotReads, SlotSpends
<1>11. SlotPromises(next, now, proposals)
  BY <1>2, <1>5, <1>7, <1>8 DEF SlotReads, SlotPromises, Untouched
<1>12. SlotRows(next, now)
  BY <1>2, <1>5, <1>7, <1>8, <1>11 DEF SlotReads, SlotRows, SlotPromises, RowsTaken
<1> QED BY <1>2, <1>3, <1>4, <1>9, <1>10, <1>11, <1>12, SyncReads DEF SlotReads

LEMMA SyncPageReads ==
  ASSUME RosterInv, PageInv, NEW r \in Requests, SyncPage(r)
  PROVE  PageInv'
<1> DEFINE q == request[r]
           now == Synced(q.version, q.chain)
           next == [q EXCEPT !.step = "balance"]
<1>1. q \in Request /\ SlotReads(q, coins, proposals)
  BY SlotOf
<1>2. q.step = "sync" /\ SyncAnd(r, now, next) /\ UNCHANGED <<proposals, history>>
  BY DEF SyncPage, Holds
<1>3. CoinsGrow(coins, now) /\ Len(now) = Len(coins)
  BY SyncedGrows
<1>4. SlotReads(q, now, proposals)
  <2> HIDE DEF now
  <2> QED BY <1>2, <1>3, StillReads DEF RowsTaken
<1> HIDE DEF q, now
<1>5. /\ next \in Request /\ next.inputs = q.inputs /\ next.op = q.op /\ next.version = q.version
      /\ next.chain = q.chain /\ next.asset = q.asset /\ next.basis = q.basis
      /\ next.counted = q.counted /\ next.spendable = q.spendable /\ next.moved = q.moved
      /\ next.left = q.left /\ next.balance = q.balance /\ next.rows = q.rows
      /\ next.total = q.total /\ next.step = "balance"
  BY <1>1 DEF Request
<1> HIDE DEF next
<1>6. SlotTyped(next, now, proposals)
  BY <1>4, <1>5 DEF SlotReads, SlotTyped
<1>7. SlotSpends(next, now)
  BY <1>4, <1>5 DEF SlotReads, SlotSpends
<1>8. next.op = "manage"
  BY <1>2, <1>4, <1>5 DEF SlotReads, SlotPromises
<1>9. SlotPromises(next, now, proposals)
  BY <1>2, <1>4, <1>5, <1>8 DEF SlotReads, SlotPromises, Untouched, InTotal, Pages
<1>10. SlotRows(next, now)
  BY <1>5, <1>8 DEF SlotRows
<1> QED BY <1>2, <1>3, <1>6, <1>7, <1>9, <1>10, SyncReads DEF SlotReads

LEMMA ReplyReads ==
  ASSUME PageInv, NEW r \in Requests, Reply(r)
  PROVE  PageInv'
  BY IdleFresh, FreshReads, StepReads DEF Reply

-----------------------------------------------------------------------------
(* Rows, totals, balances *)

LEMMA HeldIsHeldIn ==
  ASSUME NEW v, NEW a
  PROVE  Held(v, a) = HeldIn(coins, v, a) /\ Held(v, a) \subseteq DOMAIN coins
  BY DEF Held, HeldIn, Wallet

LEMMA RowsAreTotals ==
  ASSUME CoinsTypeOK, NEW v, NEW a
  PROVE  LET held == HeldIn(coins, v, a)
         IN  /\ UnspentRows(v, a, FALSE) = Total(Worth(coins), External(coins, held))
             /\ UnspentRows(v, a, TRUE) = Total(Worth(coins), held \ External(coins, held))
             /\ UnspentRows(v, a, FALSE) \in Nat /\ UnspentRows(v, a, TRUE) \in Nat
             /\ held \subseteq DOMAIN coins
<1> DEFINE held == HeldIn(coins, v, a)
<1>1. Held(v, a) = held /\ held \subseteq DOMAIN coins
  BY HeldIsHeldIn
<1>2. \A c \in held : coins[c].change \in BOOLEAN
  <2>1. \A c \in DOMAIN coins : coins[c] \in Coin BY DEF CoinsTypeOK
  <2> QED BY <1>1, <2>1 DEF Coin
<1> HIDE DEF held
<1>3. {c \in held : coins[c].change = FALSE} = External(coins, held)
  BY <1>2 DEF External
<1>4. {c \in held : coins[c].change = TRUE} = held \ External(coins, held)
  BY <1>2 DEF External
<1>5. External(coins, held) \subseteq DOMAIN coins
  BY <1>1 DEF External
<1>6. /\ UnspentRows(v, a, FALSE) = Value(External(coins, held))
      /\ UnspentRows(v, a, TRUE) = Value(held \ External(coins, held))
  BY <1>1, <1>3, <1>4 DEF UnspentRows
<1>7. /\ External(coins, held) \in SUBSET (DOMAIN coins)
      /\ held \ External(coins, held) \in SUBSET (DOMAIN coins)
  BY <1>1, <1>5
<1>8. /\ UnspentRows(v, a, FALSE) = Total(Worth(coins), External(coins, held))
      /\ UnspentRows(v, a, TRUE) = Total(Worth(coins), held \ External(coins, held))
      /\ UnspentRows(v, a, FALSE) \in Nat /\ UnspentRows(v, a, TRUE) \in Nat
  BY <1>6, <1>7, ValueIsTotal
<1> QED BY <1>1, <1>8 DEF held

LEMMA ExternalRowsReads ==
  ASSUME RosterInv, PageInv, NEW r \in Requests, ExternalRows(r)
  PROVE  PageInv'
<1> DEFINE q == request[r]
           rows == UnspentRows(q.version, q.asset, FALSE)
           st == IF q.chain = "bitcoin" THEN "change" ELSE "reserve"
           next == [q EXCEPT !.rows = rows, !.step = st]
           held == HeldIn(coins, q.version, q.asset)
           R == External(coins, held)
<1>1. /\ q \in Request /\ SlotReads(q, coins, proposals) /\ CoinsTypeOK
  BY SlotOf
<1>2. q.step = "external" /\ Step(r, next) /\ UNCHANGED <<coins, proposals, history>>
  BY DEF ExternalRows, Holds
<1>3. /\ q.op = "receive" /\ Untouched(q) /\ q.version \notin q.left /\ q.moved = {}
      /\ q.asset = Policy(q.chain) /\ q.op \in Pages
  BY <1>1, <1>2 DEF SlotReads, SlotPromises, SlotRows, Pages
<1>4. /\ rows = Total(Worth(coins), R) /\ rows \in Nat /\ R \in SUBSET (DOMAIN coins)
  BY <1>1, RowsAreTotals DEF External
<1>5. External(coins, R) = R /\ R \subseteq held
  BY DEF External
<1> HIDE DEF q, rows, held, R
<1>6. /\ next \in Request /\ next.inputs = q.inputs /\ next.op = q.op /\ next.version = q.version
      /\ next.chain = q.chain /\ next.asset = q.asset /\ next.basis = q.basis
      /\ next.counted = q.counted /\ next.spendable = q.spendable /\ next.moved = q.moved
      /\ next.left = q.left /\ next.balance = q.balance /\ next.rows = rows
      /\ next.total = q.total /\ next.step = st
  <2> HIDE DEF st
  <2>1. st \in {"change", "reserve"} BY DEF st
  <2> QED BY <1>1, <1>4, <2>1 DEF Request
<1> HIDE DEF next
<1>7. SlotTyped(next, coins, proposals)
  BY <1>1, <1>6 DEF SlotReads, SlotTyped
<1>8. SlotSpends(next, coins)
  BY <1>1, <1>6 DEF SlotReads, SlotSpends
<1>9. SlotPromises(next, coins, proposals)
  BY <1>1, <1>3, <1>6 DEF SlotReads, SlotPromises, Untouched
<1>10. RowsOver(next, coins, R)
  <2>1. RowsMatch(next, coins, R, held)
    BY <1>3, <1>4, <1>5, <1>6 DEF RowsMatch, R
  <2> QED BY <1>6, <2>1 DEF RowsOver, held
<1>11. SlotRows(next, coins)
  BY <1>4, <1>6, <1>10 DEF SlotRows, RowsTaken
<1> QED BY <1>2, <1>7, <1>8, <1>9, <1>11, StepReads DEF SlotReads

LEMMA ChangeRowsReads ==
  ASSUME RosterInv, PageInv, NEW r \in Requests, ChangeRows(r)
  PROVE  PageInv'
<1> DEFINE q == request[r]
           more == UnspentRows(q.version, q.asset, TRUE)
           rows == q.rows + more
           next == [q EXCEPT !.rows = rows, !.step = "reserve"]
           held == HeldIn(coins, q.version, q.asset)
           C == held \ External(coins, held)
<1>1. /\ q \in Request /\ SlotReads(q, coins, proposals) /\ CoinsTypeOK
  BY SlotOf
<1>2. q.step = "change" /\ Step(r, next) /\ UNCHANGED <<coins, proposals, history>>
  <2>1. next = [q EXCEPT !.rows = @ + more, !.step = "reserve"]
    BY Zenon
  <2> QED BY <2>1 DEF ChangeRows, Holds
<1>3. /\ q.op = "receive" /\ Untouched(q) /\ q.version \notin q.left
      /\ q.asset = Policy(q.chain) /\ q.op \in Pages
  BY <1>1, <1>2 DEF SlotReads, SlotPromises, Pages
<1>4. /\ more = Total(Worth(coins), C) /\ more \in Nat /\ held \subseteq DOMAIN coins
  BY <1>1, RowsAreTotals
<1>5. PICK R \in SUBSET (DOMAIN coins) : RowsMatch(q, coins, R, held)
  BY <1>1, <1>2, <1>3 DEF SlotReads, SlotRows, RowsTaken, RowsOver
<1> HIDE DEF q, more, held
<1>6. /\ q.rows = Total(Worth(coins), R) /\ q.chain = "bitcoin" /\ External(coins, R) = R
      /\ R \ q.moved = External(coins, held) \ q.moved
  BY <1>2, <1>5 DEF RowsMatch
<1>7. R \cap C = {}
  BY <1>6 DEF External
<1> DEFINE S == R \cup C
<1>8. rows = Total(Worth(coins), S) /\ rows \in Nat /\ S \in SUBSET (DOMAIN coins)
  <2>1. C \in SUBSET (DOMAIN coins) BY <1>4
  <2>2. Valued(Worth(coins), R) /\ Valued(Worth(coins), C)
    BY <1>1, <1>5, <2>1, CoinsAreValued DEF CoinsTypeOK
  <2>3. R \cap C = {}
    BY <1>7 DEF C
  <2>4. Total(Worth(coins), R \cup C) = Total(Worth(coins), R) + Total(Worth(coins), C)
    BY <2>2, <2>3, TotalOfUnion
  <2>5. Total(Worth(coins), S) = q.rows + more
    BY <1>4, <1>6, <2>4
  <2>6. q.rows \in Nat BY <1>1 DEF Request
  <2> QED BY <1>4, <2>1, <2>5, <2>6
<1>9. S \ q.moved \subseteq held /\ held \ q.moved \subseteq S
  BY <1>6 DEF External
<1> HIDE DEF rows, S, C
<1>10. /\ next \in Request /\ next.inputs = q.inputs /\ next.op = q.op /\ next.version = q.version
      /\ next.chain = q.chain /\ next.asset = q.asset /\ next.basis = q.basis
      /\ next.counted = q.counted /\ next.spendable = q.spendable /\ next.moved = q.moved
      /\ next.left = q.left /\ next.balance = q.balance /\ next.rows = rows
      /\ next.total = q.total /\ next.step = "reserve"
  BY <1>1, <1>8 DEF Request
<1> HIDE DEF next
<1>11. SlotTyped(next, coins, proposals)
  BY <1>1, <1>10 DEF SlotReads, SlotTyped
<1>12. SlotSpends(next, coins)
  BY <1>1, <1>10 DEF SlotReads, SlotSpends
<1>13. SlotPromises(next, coins, proposals)
  BY <1>1, <1>3, <1>10 DEF SlotReads, SlotPromises, Untouched
<1>14. RowsOver(next, coins, S)
  <2>1. RowsMatch(next, coins, S, held)
    BY <1>8, <1>9, <1>10 DEF RowsMatch
  <2> QED BY <1>10, <2>1 DEF RowsOver, held
<1>15. SlotRows(next, coins)
  BY <1>8, <1>10, <1>14 DEF SlotRows, RowsTaken
<1> QED BY <1>2, <1>11, <1>12, <1>13, <1>15, StepReads DEF SlotReads

\* The total a page subtracts covers the proposals it counted.
LEMMA ReservedCovers ==
  ASSUME proposals \in Seq(Proposal), NEW v, NEW chain, NEW C \in SUBSET InFlightOn(v, chain)
  PROVE  /\ Reserved(v, chain) \in Nat
         /\ Total(Stored(proposals), C) <= Reserved(v, chain)
<1> DEFINE P == InFlightOn(v, chain)
<1>1. P \in SUBSET (DOMAIN proposals)
  BY DEF InFlightOn
<1>2. ProposalsGrow(proposals, proposals)
  BY SameProposalsGrow
<1> HIDE DEF P
<1>3. Valued(Stored(proposals), P) /\ Total(Stored(proposals), P) \in Nat
  BY <1>1, <1>2, StoredGrows
<1>4. MapThenSumSet(LAMBDA p : proposals[p].total, P) = Total(Stored(proposals), P)
  BY <1>1, <1>3, SumOfTotals DEF Valued
<1>5. Reserved(v, chain) = Total(Stored(proposals), P)
  BY <1>4 DEF Reserved, P
<1>6. Total(Stored(proposals), C) <= Total(Stored(proposals), P)
  BY <1>3, TotalIsMonotone DEF P
<1> QED BY <1>3, <1>5, <1>6

LEMMA ReserveTotalReads ==
  ASSUME RosterInv, PageInv, NEW r \in Requests, ReserveTotal(r)
  PROVE  PageInv'
<1> DEFINE q == request[r]
           to == Reserved(q.version, q.chain)
           C == {p \in InFlightOn(q.version, q.chain) :
                   q.chain = "elements" => proposals[p].amount = 0}
           st == IF q.op = "manage" THEN "sync" ELSE "balance"
           next == [q EXCEPT !.total = to, !.counted = C, !.step = st]
<1>1. /\ q \in Request /\ SlotReads(q, coins, proposals) /\ proposals \in Seq(Proposal)
  BY SlotOf DEF PageInv
<1>2. q.step = "reserve" /\ Step(r, next) /\ UNCHANGED <<coins, proposals, history>>
  BY DEF ReserveTotal, Holds
<1>3. q.op \in Pages /\ Untouched(q) /\ (q.op = "receive" => q.version \notin q.left)
  BY <1>1, <1>2 DEF SlotReads, SlotPromises
<1>4. C \subseteq DOMAIN proposals /\ C \in SUBSET Nat
  <2>1. DOMAIN proposals \subseteq Nat BY <1>1
  <2> QED BY <2>1 DEF InFlightOn
<1>5. to \in Nat /\ Total(Stored(proposals), C) <= to
  <2>1. C \in SUBSET InFlightOn(q.version, q.chain) OBVIOUS
  <2> HIDE DEF C
  <2> QED BY <1>1, <2>1, ReservedCovers
<1>6. \A p \in C : InTotal(q, proposals[p])
  BY DEF InTotal, InFlightOn
<1> HIDE DEF q, to, C
<1>7. /\ next \in Request /\ next.inputs = q.inputs /\ next.op = q.op /\ next.version = q.version
      /\ next.chain = q.chain /\ next.asset = q.asset /\ next.basis = q.basis
      /\ next.counted = C /\ next.spendable = q.spendable /\ next.moved = q.moved
      /\ next.left = q.left /\ next.balance = q.balance /\ next.rows = q.rows
      /\ next.total = to /\ next.step = st
  <2> HIDE DEF st
  <2>1. st \in {"sync", "balance"} BY DEF st
  <2> QED BY <1>1, <1>4, <1>5, <2>1 DEF Request
<1> HIDE DEF next
<1>8. SlotTyped(next, coins, proposals)
  BY <1>1, <1>4, <1>7 DEF SlotReads, SlotTyped
<1>9. SlotSpends(next, coins)
  BY <1>1, <1>7 DEF SlotReads, SlotSpends
<1>10. SlotPromises(next, coins, proposals)
  <2>1. \A p \in next.counted : InTotal(next, proposals[p])
    BY <1>6, <1>7 DEF InTotal
  <2>2. next.spendable <= Total(Worth(coins),
                                next.basis \ UNION {proposals[p].inputs : p \in next.counted})
    <3>1. next.basis = {} /\ next.spendable = 0 BY <1>3, <1>7 DEF Untouched
    <3>2. next.basis \ UNION {proposals[p].inputs : p \in next.counted} = {} BY <3>1
    <3> QED BY <3>1, <3>2, TotalOfNothing
  <2>3. Untouched(next)
    BY <1>3, <1>7 DEF Untouched
  <2>4. next.op \in Pages => next.asset = Policy(next.chain)
    BY <1>1, <1>7 DEF SlotReads, SlotPromises
  <2>5. /\ next.step \in {"sync", "balance"} /\ (next.step = "sync" => next.op = "manage")
        /\ next.op \in Pages /\ (next.op = "receive" => next.version \notin next.left)
    BY <1>3, <1>7
  <2>6. Total(Stored(proposals), next.counted) <= next.total
    BY <1>5, <1>7
  <2> QED BY <2>1, <2>2, <2>3, <2>4, <2>5, <2>6 DEF SlotPromises
<1>11. SlotRows(next, coins)
  <2>1. ASSUME next.op = "receive"
        PROVE  next.step = "balance" /\ \E R \in SUBSET (DOMAIN coins) : RowsOver(next, coins, R)
    <3>1. PICK R \in SUBSET (DOMAIN coins) : RowsOver(q, coins, R)
      BY <1>1, <1>2, <1>7, <2>1 DEF SlotReads, SlotRows, RowsTaken
    <3>2. RowsOver(next, coins, R)
      BY <1>2, <1>7, <2>1, <3>1 DEF RowsOver, RowsMatch
    <3> QED BY <1>7, <2>1, <3>2
  <2>2. next.step \in {"sync", "balance"}
    BY <1>7
  <2> QED BY <2>1, <2>2 DEF SlotRows, RowsTaken
<1> QED BY <1>2, <1>8, <1>9, <1>10, <1>11, StepReads DEF SlotReads

\* Counted against a balance, a total leaves what no counted proposal selected.
LEMMA SpendableIsLeft ==
  ASSUME PageInv, NEW v, NEW chain \in Chains, NEW C \in SUBSET (DOMAIN proposals), NEW total \in Nat,
         \A p \in C : /\ proposals[p].version = v /\ proposals[p].chain = chain
                      /\ chain = "elements" => proposals[p].amount = 0,
         Total(Stored(proposals), C) <= total
  PROVE  LET basis == Baseline(v, chain)
         IN  /\ basis \subseteq DOMAIN coins /\ Spendable(Value(basis), total) \in Nat
             /\ Spendable(Value(basis), total) <=
                  Total(Worth(coins), basis \ UNION {proposals[p].inputs : p \in C})
<1> DEFINE B == Baseline(v, chain)
           I == [p \in C |-> proposals[p].inputs]
           U == UNION {I[p] : p \in C}
           w == Worth(coins)
           u == Stored(proposals)
<1>1. CoinsTypeOK /\ proposals \in Seq(Proposal) /\ coins \in Seq(Coin)
  BY DEF PageInv, CoinsTypeOK, CoinsSound
<1>2. /\ B \subseteq DOMAIN coins
      /\ \A c \in B : coins[c].asset = Policy(chain) /\ coins[c].seen # "spent"
  <2>1. Trusted(v) \subseteq Held(v, "BTC") BY DEF Trusted
  <2>2. B = IF chain = "bitcoin" THEN Trusted(v) ELSE Held(v, "L-BTC")
    BY DEF Baseline
  <2>3. \A a : Held(v, a) \subseteq DOMAIN coins
               /\ \A c \in Held(v, a) : coins[c].asset = a /\ coins[c].seen # "spent"
    BY DEF Held, Wallet
  <2> QED BY <2>1, <2>2, <2>3 DEF Policy
<1>3. Valued(w, B) /\ Value(B) = Total(w, B) /\ Value(B) \in Nat
  BY <1>1, <1>2, CoinsAreValued, ValueIsTotal
<1>4. Valued(u, C)
  BY <1>1, SameProposalsGrow, StoredGrows
<1>5. ASSUME NEW p \in C
      PROVE  Total(w, B \cap I[p]) <= u[p]
  <2>1. Covering(proposals[p], coins) /\ proposals[p].inputs \subseteq DOMAIN coins
    <3>1. ProposalSound(proposals[p], coins) BY DEF PageInv
    <3>2. chain \in {"bitcoin", "elements"} BY DEF Chains
    <3> QED BY <3>1, <3>2 DEF ProposalSound
  <2> DEFINE O == Outstanding(proposals[p], coins)
  <2>2. B \cap I[p] \subseteq O /\ O \subseteq DOMAIN coins
    BY <1>2, <2>1 DEF Outstanding
  <2>3. Total(w, O) <= proposals[p].total
    BY <2>1 DEF Covering
  <2>4. u[p] = proposals[p].total
    BY DEF Stored
  <2> HIDE DEF O
  <2>5. Valued(w, O)
    BY <1>1, <2>2, CoinsAreValued
  <2>6. Total(w, B \cap I[p]) <= Total(w, O)
    BY <2>2, <2>5, TotalIsMonotone
  <2>7. Total(w, O) \in Nat /\ Total(w, B \cap I[p]) \in Nat /\ proposals[p].total \in Nat
    <3>1. Valued(w, B \cap I[p]) BY <1>3, TotalIsMonotone
    <3>2. proposals[p] \in Proposal BY <1>1
    <3> QED BY <2>5, <3>1, <3>2, TotalIsNatural DEF Proposal
  <2> QED BY <2>3, <2>4, <2>6, <2>7
<1> HIDE DEF B, I, w, u
<1>6. Total(w, B \cap U) <= Total(u, C)
  BY <1>3, <1>4, <1>5, TotalOfReserved
<1> HIDE DEF U
<1>7. /\ Valued(w, B \cap U) /\ Valued(w, B \ U)
      /\ Total(w, B) = Total(w, B \cap U) + Total(w, B \ U)
  <2>1. Valued(w, B \cap U) /\ Valued(w, B \ U)
    BY <1>3, TotalIsMonotone
  <2>2. (B \cap U) \cap (B \ U) = {} /\ (B \cap U) \cup (B \ U) = B
    OBVIOUS
  <2>3. Total(w, (B \cap U) \cup (B \ U)) = Total(w, B \cap U) + Total(w, B \ U)
    BY <2>1, <2>2, TotalOfUnion
  <2> QED BY <2>1, <2>2, <2>3
<1>8. Total(w, B \cap U) \in Nat /\ Total(w, B \ U) \in Nat /\ Total(u, C) \in Nat
  BY <1>4, <1>7, TotalIsNatural
<1>9. Spendable(Value(B), total) \in Nat /\ Spendable(Value(B), total) <= Total(w, B \ U)
  <2>1. Total(u, C) <= total BY DEF u
  <2> QED BY <1>3, <1>6, <1>7, <1>8, <2>1 DEF Spendable
<1>10. U = UNION {proposals[p].inputs : p \in C}
  BY DEF U, I
<1> QED BY <1>2, <1>9, <1>10 DEF B, w

\* Rows and balance, once both are read, differ by what moved in between.
LEMMA RowsMeetBalance ==
  ASSUME CoinsTypeOK, NEW R \in SUBSET (DOMAIN coins), NEW H \in SUBSET (DOMAIN coins),
         NEW M \in SUBSET (DOMAIN coins)
  PROVE  LET w == Worth(coins)
         IN  /\ R \ M \subseteq H => Total(w, R) <= Value(H) + Total(w, M)
             /\ H \ M \subseteq R => Value(H) <= Total(w, R) + Total(w, M)
<1> DEFINE w == Worth(coins)
<1>1. Valued(w, R) /\ Valued(w, H) /\ Valued(w, M) /\ Value(H) = Total(w, H)
  BY CoinsAreValued, ValueIsTotal DEF CoinsTypeOK
<1> HIDE DEF w
<1>2. ASSUME R \ M \subseteq H PROVE Total(w, R) <= Value(H) + Total(w, M)
  <2>1. R \in SUBSET (H \cup M) BY <1>2
  <2> QED BY <1>1, <2>1, TotalOfCover
<1>3. ASSUME H \ M \subseteq R PROVE Value(H) <= Total(w, R) + Total(w, M)
  <2>1. H \in SUBSET (R \cup M) BY <1>3
  <2> QED BY <1>1, <2>1, TotalOfCover
<1> QED BY <1>2, <1>3 DEF w

LEMMA ReadBalanceReads ==
  ASSUME RosterInv, PageInv, NEW r \in Requests, ReadBalance(r)
  PROVE  PageInv'
<1> DEFINE q == request[r]
           B == Baseline(q.version, q.chain)
           sp == Spendable(Value(B), q.total)
           H == Held(q.version, q.asset)
           bal == Value(H)
           st == IF q.op = "receive" THEN "panel" ELSE "visible"
           free == Total(Worth(coins), B \ UNION {proposals[p].inputs : p \in q.counted})
           next == [q EXCEPT !.basis = B, !.spendable = sp, !.balance = bal, !.total = 0,
                             !.step = st]
<1>1. /\ q \in Request /\ SlotReads(q, coins, proposals) /\ CoinsTypeOK
      /\ proposals \in Seq(Proposal)
  BY SlotOf DEF PageInv
<1>2. q.step = "balance" /\ UNCHANGED <<coins, proposals, history>>
  BY DEF ReadBalance, Holds
<1>3. Step(r, next)
  BY DEF ReadBalance
<1>4. /\ q.op \in Pages /\ Untouched(q) /\ (q.op = "receive" => q.version \notin q.left)
      /\ q.asset = Policy(q.chain)
      /\ \A p \in q.counted : InTotal(q, proposals[p])
      /\ Total(Stored(proposals), q.counted) <= q.total
  BY <1>1, <1>2 DEF SlotReads, SlotPromises
<1>5. /\ q.counted \in SUBSET (DOMAIN proposals) /\ q.total \in Nat /\ q.chain \in Chains
      /\ q.moved \in SUBSET (DOMAIN coins) /\ q.inputs \subseteq DOMAIN coins
      /\ q.left \subseteq 1..LastVersion
  BY <1>1 DEF SlotReads, SlotTyped, Request
<1>6. B \subseteq DOMAIN coins /\ sp \in Nat /\ sp <= free
  <2>1. \A p \in q.counted : /\ proposals[p].version = q.version /\ proposals[p].chain = q.chain
                             /\ q.chain = "elements" => proposals[p].amount = 0
    BY <1>4 DEF InTotal
  <2> HIDE DEF q
  <2> QED BY <1>4, <1>5, <2>1, SpendableIsLeft
<1>7. H \in SUBSET (DOMAIN coins) /\ H = HeldIn(coins, q.version, q.asset)
  BY HeldIsHeldIn
<1>8. bal \in Nat
  BY <1>1, <1>7, ValueIsTotal
<1>9. B \in SUBSET Nat
  <2>1. DOMAIN coins \subseteq Nat BY <1>1 DEF CoinsTypeOK
  <2> QED BY <1>6, <2>1
<1> HIDE DEF B, sp, bal, free, st
<1>10. st \in {"panel", "visible"} /\ (st = "panel" <=> q.op = "receive")
  BY DEF st
<1>11. ASSUME q.op = "receive"
       PROVE  /\ q.rows <= bal + Total(Worth(coins), q.moved)
              /\ q.chain = "bitcoin" => bal <= q.rows + Total(Worth(coins), q.moved)
  <2>1. PICK R \in SUBSET (DOMAIN coins) : RowsMatch(q, coins, R, H)
    BY <1>1, <1>2, <1>7, <1>11 DEF SlotReads, SlotRows, RowsTaken, RowsOver
  <2>2. /\ q.rows = Total(Worth(coins), R) /\ R \ q.moved \subseteq H
        /\ q.chain = "bitcoin" => H \ q.moved \subseteq R
    BY <1>2, <2>1 DEF RowsMatch
  <2> HIDE DEF q, H
  <2> QED BY <1>1, <1>5, <1>7, <2>2, RowsMeetBalance DEF bal
<1> HIDE DEF q, H
<1>12. /\ next \in Request /\ next.inputs = q.inputs /\ next.op = q.op /\ next.version = q.version
      /\ next.chain = q.chain /\ next.asset = q.asset /\ next.basis = B
      /\ next.counted = q.counted /\ next.spendable = sp /\ next.moved = q.moved
      /\ next.left = q.left /\ next.balance = bal /\ next.rows = q.rows
      /\ next.step = st
  <2>1. PICK a : a = [q EXCEPT !.basis = B, !.spendable = sp, !.balance = bal] OBVIOUS
  <2>2. /\ a \in Request /\ a.inputs = q.inputs /\ a.op = q.op /\ a.version = q.version
        /\ a.chain = q.chain /\ a.asset = q.asset /\ a.basis = B
        /\ a.counted = q.counted /\ a.spendable = sp /\ a.moved = q.moved
        /\ a.left = q.left /\ a.balance = bal /\ a.rows = q.rows
    BY <1>1, <1>6, <1>8, <1>9, <2>1 DEF Request
  <2>3. PICK b : b = [a EXCEPT !.total = 0, !.step = st] OBVIOUS
  <2>4. /\ b \in Request /\ b.inputs = q.inputs /\ b.op = q.op /\ b.version = q.version
        /\ b.chain = q.chain /\ b.asset = q.asset /\ b.basis = B
        /\ b.counted = q.counted /\ b.spendable = sp /\ b.moved = q.moved
        /\ b.left = q.left /\ b.balance = bal /\ b.rows = q.rows /\ b.step = st
    BY <1>10, <2>2, <2>3 DEF Request
  <2>5. b = next BY <2>1, <2>3, Zenon
  <2> QED BY <2>4, <2>5
<1> HIDE DEF next
<1>13. SlotTyped(next, coins, proposals)
  BY <1>5, <1>6, <1>12 DEF SlotTyped
<1>14. SlotSpends(next, coins)
  BY <1>1, <1>10, <1>12 DEF SlotReads, SlotSpends
<1>15. SlotPromises(next, coins, proposals)
  <2>1. next.spendable <= Total(Worth(coins),
                                next.basis \ UNION {proposals[p].inputs : p \in next.counted})
    BY <1>6, <1>12 DEF free
  <2> QED BY <1>4, <1>10, <1>12, <2>1 DEF SlotPromises
<1>16. SlotRows(next, coins)
  BY <1>10, <1>11, <1>12 DEF SlotRows, RowsTaken
<1> QED BY <1>2, <1>3, <1>13, <1>14, <1>15, <1>16, StepReads DEF SlotReads

LEMMA MaxSpendReads ==
  ASSUME PageInv, NEW u, NEW v, NEW chain, MaxSpend(u, v, chain)
  PROVE  PageInv'
<1>1. coins' = Synced(v, chain) /\ request' = Noticing(coins') /\ UNCHANGED <<proposals, history>>
  BY DEF MaxSpend
<1>2. CoinsGrow(coins, coins') /\ Len(coins') = Len(coins)
  BY <1>1, SyncedGrows
<1>3. DOMAIN coins' = DOMAIN coins
  <2>1. coins \in Seq(Coin) /\ coins' \in Seq(Coin)
    BY <1>2 DEF PageInv, CoinsGrow, CoinsSound
  <2> QED BY <1>2, <2>1
<1>4. request' = [q \in Requests |-> request'[q]]
  BY <1>1 DEF Noticing
<1>5. \A q \in Requests : Lives(request[q], request'[q]) /\ Notes(request[q], request'[q], coins, coins')
  BY <1>1, <1>3, NoticingLives
<1>6. /\ Len(coins') <= MaxCoins
      /\ \A c \in DOMAIN coins' \ DOMAIN coins : coins'[c].seen = "unseen"
      /\ proposals' \in Seq(Proposal) /\ Len(proposals') <= MaxProposals
      /\ known' \in [1..LastVersion -> SUBSET Nat]
      /\ ProposalsGrow(proposals, proposals')
  BY <1>1, <1>2, <1>3, SameProposalsGrow DEF PageInv, history
<1>7. \A p \in DOMAIN proposals' : ProposalSound(proposals'[p], coins')
  <2>1. \A p \in DOMAIN proposals : ProposalSound(proposals[p], coins)
    BY DEF PageInv
  <2> QED BY <1>1, <1>2, <2>1, ProposalGrows DEF PageInv
<1> QED BY <1>2, <1>4, <1>5, <1>6, <1>7, PageAfter

\* Coins that come, are spent or confirmed while no wallet syncs.
LEMMA QuietCoinsReads ==
  ASSUME PageInv, CoinsGrow(coins, coins'), SameSeen(coins, coins'), Len(coins') <= MaxCoins,
         UNCHANGED <<proposals, request, history>>
  PROVE  PageInv'
<1>1. \A c \in DOMAIN coins' \ DOMAIN coins : coins'[c].seen = "unseen"
  BY DEF SameSeen
<1>2. /\ proposals' \in Seq(Proposal) /\ Len(proposals') <= MaxProposals
      /\ known' \in [1..LastVersion -> SUBSET Nat]
      /\ ProposalsGrow(proposals, proposals')
      /\ request' = [q \in Requests |-> request'[q]]
  BY SameProposalsGrow DEF PageInv, history
<1>3. \A p \in DOMAIN proposals' : ProposalSound(proposals'[p], coins')
  <2>1. \A p \in DOMAIN proposals : ProposalSound(proposals[p], coins)
    BY DEF PageInv
  <2> QED BY <2>1, ProposalGrows DEF PageInv
<1>4. ASSUME NEW q \in Requests
      PROVE  Lives(request[q], request'[q]) /\ Notes(request[q], request'[q], coins, coins')
  <2>1. SlotReads(request[q], coins, proposals) /\ DOMAIN coins \subseteq DOMAIN coins'
    BY DEF PageInv, CoinsGrow
  <2> QED BY <2>1, UntouchedLives
<1> QED BY <1>1, <1>2, <1>3, <1>4, PageAfter

LEMMA DepositReads ==
  ASSUME RosterInv, PageInv, NEW v \in Indices, NEW a \in Assets, Deposit(v, a)
  PROVE  PageInv'
<1> DEFINE e == NewCoin(v, a, FALSE, DepositValue)
<1>1. coins' = Append(coins, e) /\ UNCHANGED <<proposals, request, history>> /\ Len(coins) < mix.paidUpTo
  BY DEF Deposit, Deposited
<1>2. e \in Coin /\ e.seen = "unseen"
  BY HeadsAreNumbers, NewCoinFields, CoinsAssumption DEF RosterInv
<1>3. CoinsGrow(coins, coins') /\ SameSeen(coins, coins') /\ Len(coins') = Len(coins) + 1
  <2> HIDE DEF e
  <2> QED BY <1>1, <1>2, AppendedCoin DEF PageInv
<1>4. Len(coins') <= MaxCoins
  <2>1. mix \in Mixes /\ coins \in Seq(Coin)
    BY DEF RosterInv, PageInv, CoinsSound
  <2>2. Len(coins) \in Nat /\ mix.paidUpTo \in 0..MaxCoins /\ MaxCoins \in Nat
    BY <2>1, VaultAssumption, CoinsAssumption
  <2> QED BY <1>1, <1>3, <2>2
<1> QED BY <1>1, <1>3, <1>4, QuietCoinsReads

LEMMA ConfirmReads ==
  ASSUME PageInv, NEW c \in DOMAIN coins, Confirm(c)
  PROVE  PageInv'
<1>1. coins' = Confirmed(c) /\ UNCHANGED <<proposals, request, history>>
  BY DEF Confirm
<1>2. CoinsGrow(coins, coins') /\ SameSeen(coins, coins') /\ Len(coins') = Len(coins)
  BY <1>1, ConfirmedGrows DEF PageInv
<1> QED BY <1>1, <1>2, QuietCoinsReads DEF PageInv

LEMMA RestartReads ==
  ASSUME PageInv, Restart
  PROVE  PageInv'
<1>1. coins' = Reloaded /\ request' = [r \in Requests |-> Idle] /\ UNCHANGED <<proposals, known>>
  BY DEF Restart
<1>2. CoinsGrow(coins, coins') /\ Len(coins') = Len(coins)
  BY <1>1, ReloadedKeeps DEF PageInv
<1>3. DOMAIN coins' = DOMAIN coins
  <2>1. coins \in Seq(Coin) /\ coins' \in Seq(Coin)
    BY <1>2 DEF PageInv, CoinsGrow, CoinsSound
  <2> QED BY <1>2, <2>1
<1>4. /\ Len(coins') <= MaxCoins
      /\ \A c \in DOMAIN coins' \ DOMAIN coins : coins'[c].seen = "unseen"
      /\ proposals' \in Seq(Proposal) /\ Len(proposals') <= MaxProposals
      /\ known' \in [1..LastVersion -> SUBSET Nat]
      /\ ProposalsGrow(proposals, proposals')
  BY <1>1, <1>2, <1>3, SameProposalsGrow DEF PageInv
<1>5. \A p \in DOMAIN proposals' : ProposalSound(proposals'[p], coins')
  <2>1. \A p \in DOMAIN proposals : ProposalSound(proposals[p], coins)
    BY DEF PageInv
  <2> QED BY <1>1, <1>2, <2>1, ProposalGrows DEF PageInv
<1>6. \A r \in Requests : SlotReads(request'[r], coins', proposals')
  BY <1>1, IdleFresh, FreshReads
<1>7. request' = [r \in Requests |-> request'[r]]
  BY <1>1
<1> QED BY <1>2, <1>4, <1>5, <1>6, <1>7, PageAfter

-----------------------------------------------------------------------------
(* Proposals cancelled, broadcast, opened by a migration *)

\* Rows of proposals whose status is rewritten go on covering what they select.
LEMMA StatusesReadSame ==
  ASSUME PageInv, NEW ps, ps = [p \in DOMAIN proposals |-> ps[p]],
         \A p \in DOMAIN proposals :
           \/ ps[p] = proposals[p]
           \/ \E st \in {"open", "broadcast", "cancelled"} :
                ps[p] = [proposals[p] EXCEPT !.status = st]
  PROVE  /\ ProposalsGrow(proposals, ps) /\ ps \in Seq(Proposal) /\ Len(ps) = Len(proposals)
         /\ \A p \in DOMAIN ps : ProposalSound(ps[p], coins)
<1>1. /\ proposals \in Seq(Proposal) /\ DOMAIN proposals = 1..Len(proposals)
      /\ Len(proposals) \in Nat /\ DOMAIN ps = DOMAIN proposals
  BY DEF PageInv
<1>2. ASSUME NEW p \in DOMAIN proposals
      PROVE  /\ ps[p] \in Proposal
             /\ ps[p].version = proposals[p].version /\ ps[p].chain = proposals[p].chain
             /\ ps[p].amount = proposals[p].amount /\ ps[p].total = proposals[p].total
             /\ ps[p].inputs = proposals[p].inputs
  <2>1. proposals[p] \in Proposal BY <1>1
  <2> QED BY <2>1 DEF Proposal
<1>3. ps \in Seq(Proposal) /\ Len(ps) = Len(proposals)
  <2>1. ps \in [1..Len(proposals) -> Proposal] BY <1>1, <1>2
  <2> QED BY <1>1, <2>1
<1>4. ASSUME NEW p \in DOMAIN ps
      PROVE  ProposalSound(ps[p], coins)
  <2>1. ProposalSound(proposals[p], coins) BY <1>1 DEF PageInv
  <2>2. p \in DOMAIN proposals BY <1>1
  <2>3. Outstanding(ps[p], coins) = Outstanding(proposals[p], coins)
    BY <1>2, <2>2 DEF Outstanding
  <2> QED BY <1>2, <2>1, <2>2, <2>3 DEF ProposalSound, Covering
<1> QED BY <1>1, <1>2, <1>3, <1>4 DEF ProposalsGrow

\* Nothing but rows of proposals and of versions.
LEMMA QuietRowsReads ==
  ASSUME PageInv, ProposalsGrow(proposals, proposals'), proposals' \in Seq(Proposal),
         Len(proposals') <= MaxProposals, \A p \in DOMAIN proposals' : ProposalSound(proposals'[p], coins),
         UNCHANGED <<coins, request, history>>
  PROVE  PageInv'
<1>1. CoinsGrow(coins, coins') /\ SameSeen(coins, coins')
  BY SameCoinsGrow DEF PageInv
<1>2. /\ known' \in [1..LastVersion -> SUBSET Nat] /\ Len(coins') <= MaxCoins
      /\ request' = [q \in Requests |-> request'[q]]
      /\ \A c \in DOMAIN coins' \ DOMAIN coins : coins'[c].seen = "unseen"
  BY DEF PageInv, history
<1>3. ASSUME NEW q \in Requests
      PROVE  Lives(request[q], request'[q]) /\ Notes(request[q], request'[q], coins, coins')
  <2>1. SlotReads(request[q], coins, proposals)
    BY DEF PageInv
  <2> QED BY <1>1, <2>1, UntouchedLives
<1> QED BY <1>1, <1>2, <1>3, PageAfter

LEMMA CancelMigrationReads ==
  ASSUME PageInv, NEW u, NEW v, CancelMigration(u, v)
  PROVE  PageInv'
<1> DEFINE ps == [p \in DOMAIN proposals |->
                    IF proposals[p].sweeps = v /\ proposals[p].status # "broadcast"
                    THEN [proposals[p] EXCEPT !.status = "cancelled"] ELSE proposals[p]]
<1>1. proposals' = ps /\ UNCHANGED <<coins, request, history>>
  BY DEF CancelMigration
<1>2. ps = [p \in DOMAIN proposals |-> ps[p]]
  OBVIOUS
<1>3. \A p \in DOMAIN proposals :
        \/ ps[p] = proposals[p]
        \/ \E st \in {"open", "broadcast", "cancelled"} :
             ps[p] = [proposals[p] EXCEPT !.status = st]
  OBVIOUS
<1> HIDE DEF ps
<1>4. /\ ProposalsGrow(proposals, ps) /\ ps \in Seq(Proposal) /\ Len(ps) = Len(proposals)
      /\ \A p \in DOMAIN ps : ProposalSound(ps[p], coins)
  BY <1>2, <1>3, StatusesReadSame
<1> QED BY <1>1, <1>4, QuietRowsReads DEF PageInv

LEMMA CancelProposalReads ==
  ASSUME PageInv, NEW p \in DOMAIN proposals, CancelProposal(p)
  PROVE  PageInv'
<1> DEFINE e == [proposals[p] EXCEPT !.status = "cancelled"]
           ps == [proposals EXCEPT ![p] = e]
<1>1. proposals' = ps /\ UNCHANGED <<coins, request, history>>
  BY DEF CancelProposal
<1>2. proposals = [x \in DOMAIN proposals |-> proposals[x]]
  BY DEF PageInv
<1>3. /\ ps = [x \in DOMAIN proposals |-> ps[x]]
      /\ \A x \in DOMAIN proposals : ps[x] = IF x = p THEN e ELSE proposals[x]
  <2> HIDE DEF e
  <2> QED BY <1>2
<1>4. \A x \in DOMAIN proposals :
        \/ ps[x] = proposals[x]
        \/ \E st \in {"open", "broadcast", "cancelled"} :
             ps[x] = [proposals[x] EXCEPT !.status = st]
  BY <1>3
<1> HIDE DEF ps
<1>5. /\ ProposalsGrow(proposals, ps) /\ ps \in Seq(Proposal) /\ Len(ps) = Len(proposals)
      /\ \A x \in DOMAIN ps : ProposalSound(ps[x], coins)
  BY <1>3, <1>4, StatusesReadSame
<1> QED BY <1>1, <1>5, QuietRowsReads DEF PageInv

LEMMA PaysNumbers ==
  ASSUME CoinsTypeOK, NEW p \in DOMAIN proposals, proposals[p].inputs \subseteq DOMAIN coins,
         proposals[p].amount \in Nat
  PROVE  \A a \in Assets : Pays(p)[a] \in Nat
<1> SUFFICES ASSUME NEW a \in Assets PROVE Pays(p)[a] \in Nat
  OBVIOUS
<1> DEFINE S == {c \in proposals[p].inputs : coins[c].asset = a}
<1>1. Value(S) \in Nat
  <2>1. S \in SUBSET (DOMAIN coins) OBVIOUS
  <2> HIDE DEF S
  <2> QED BY <2>1, ValueIsTotal
<1>2. Pays(p)[a] = IF proposals[p].amount = 0 THEN Value(S)
                   ELSE IF a = proposals[p].asset THEN proposals[p].amount ELSE 0
  BY DEF Pays
<1> HIDE DEF S
<1> QED BY <1>1, <1>2

LEMMA BroadcastReads ==
  ASSUME RosterInv, RosterInv', PageInv, NEW p \in DOMAIN proposals, Broadcast(p)
  PROVE  PageInv'
<1> DEFINE i == proposals[p].inputs
           outputs == Outputs(proposals[p].version, i, proposals[p].to, Pays(p))
           e == [proposals[p] EXCEPT !.status = "broadcast"]
           ps == [proposals EXCEPT ![p] = e]
<1>1. /\ coins' = Spending(i, outputs) /\ Len(coins) + Len(outputs) <= MaxCoins
      /\ proposals' = ps /\ request' = Witnessing(versions') /\ UNCHANGED history
  BY DEF Broadcast
<1>2. CoinsTypeOK /\ CoinsSound(coins) /\ proposals[p] \in Proposal /\ i \subseteq DOMAIN coins
  BY DEF PageInv, CoinsTypeOK, CoinsSound, ProposalSound
<1>3. /\ proposals[p].version \in Nat /\ proposals[p].to \in Nat /\ proposals[p].amount \in Nat
  BY <1>2 DEF Proposal
<1>4. \A a \in Assets : Pays(p)[a] \in Nat
  BY <1>2, <1>3, PaysNumbers
<1>5. outputs \in Seq(Coin) /\ \A o \in DOMAIN outputs : outputs[o].seen = "unseen"
  BY <1>2, <1>3, <1>4, OutputsTyped
<1> HIDE DEF outputs
<1>6. CoinsGrow(coins, coins') /\ SameSeen(coins, coins') /\ Len(coins') <= MaxCoins
  BY <1>1, <1>2, <1>5, SpendingGrows
<1>7. proposals = [x \in DOMAIN proposals |-> proposals[x]]
  BY DEF PageInv
<1>8. /\ ps = [x \in DOMAIN proposals |-> ps[x]]
      /\ \A x \in DOMAIN proposals : ps[x] = IF x = p THEN e ELSE proposals[x]
  <2> HIDE DEF e
  <2> QED BY <1>7
<1>9. \A x \in DOMAIN proposals :
        \/ ps[x] = proposals[x]
        \/ \E st \in {"open", "broadcast", "cancelled"} :
             ps[x] = [proposals[x] EXCEPT !.status = st]
  BY <1>8
<1> HIDE DEF ps
<1>10. /\ ProposalsGrow(proposals, ps) /\ ps \in Seq(Proposal) /\ Len(ps) = Len(proposals)
       /\ \A x \in DOMAIN ps : ProposalSound(ps[x], coins)
  BY <1>8, <1>9, StatusesReadSame
<1>11. \A x \in DOMAIN proposals' : ProposalSound(proposals'[x], coins')
  BY <1>1, <1>2, <1>6, <1>10, ProposalGrows
<1>12. versions' \in Seq(Version)
  BY DEF RosterInv, RosterTypeOK
<1>13. ASSUME NEW q \in Requests
       PROVE  \/ Lives(request[q], request'[q]) /\ Notes(request[q], request'[q], coins, coins')
              \/ SlotReads(request'[q], coins', proposals')
  <2>1. CASE request[q].step = "idle"
    <3>1. request'[q] = Idle
      BY <1>1, <2>1 DEF Witnessing, Holds
    <3> QED BY <3>1, IdleFresh, FreshReads
  <2>2. CASE request[q].step # "idle"
    <3>1. DOMAIN coins \subseteq DOMAIN coins'
      BY <1>6 DEF CoinsGrow
    <3> QED BY <1>1, <1>6, <1>12, <2>2, <3>1, WitnessingLives
  <2> QED BY <2>1, <2>2
<1>14. request' = [q \in Requests |-> request'[q]]
  BY <1>1 DEF Witnessing
<1>15. \A c \in DOMAIN coins' \ DOMAIN coins : coins'[c].seen = "unseen"
  BY <1>6 DEF SameSeen
<1>16. Len(proposals') <= MaxProposals /\ known' \in [1..LastVersion -> SUBSET Nat]
  BY <1>1, <1>10 DEF PageInv, history
<1> QED BY <1>1, <1>6, <1>10, <1>11, <1>13, <1>14, <1>15, <1>16, PageAfter

-----------------------------------------------------------------------------
(* The sweeps of a migration *)

\* What a sweep is built from is what its total is counted over.
LEMMA BuildSweepReads ==
  ASSUME RosterInv, PageInv, NEW r \in Requests, BuildSweep(r)
  PROVE  PageInv'
<1> DEFINE q    == request[r]
           lbtc == Held(q.version, "L-BTC")
           btc  == Held(q.version, "BTC")
           all  == lbtc \cup Held(q.version, "issued")
           S    == all \cap lbtc
           onElements(inputs) ==
             [q EXCEPT !.chain = "elements", !.inputs = inputs,
                !.total = Value(inputs \cap lbtc), !.step = "open"]
           onBitcoin(inputs) ==
             [q EXCEPT !.chain = "bitcoin", !.inputs = inputs, !.step = "describe"]
<1>1. /\ SlotReads(q, coins, proposals) /\ q \in Request /\ SlotSound(q)
      /\ CoinsTypeOK /\ DOMAIN coins \subseteq Nat
  BY SlotOf DEF CoinsTypeOK
<1>2. q.step = "sweep" /\ UNCHANGED <<coins, proposals, history>>
  BY DEF BuildSweep, Holds
<1>3. q.op = "migrate"
  BY <1>1, <1>2 DEF SlotSound
<1>4. Step(r, onElements(all)) \/ Step(r, onBitcoin(btc))
  BY DEF BuildSweep, MigrationPset, Drains
<1>5. /\ all \subseteq DOMAIN coins /\ btc \subseteq DOMAIN coins /\ S \subseteq DOMAIN coins
      /\ {c \in all : coins[c].asset = "L-BTC"} \subseteq S
      /\ \A c \in btc :
           coins[c].owner = q.version /\ coins[c].asset = "BTC" /\ coins[c].seen # "unseen"
  BY DEF Held, Wallet
<1>6. ASSUME NEW s \in Request, s.op = q.op, s.basis = q.basis, s.counted = q.counted,
             s.spendable = q.spendable, s.moved = q.moved, s.left = q.left,
             s.step \in {"describe", "open"}, s.inputs \subseteq DOMAIN coins,
             SlotSpends(s, coins), Step(r, s)
      PROVE  PageInv'
  <2>1. SlotReads(s, coins, proposals)
    BY <1>1, <1>3, <1>6, CreationReads
  <2> QED BY <1>2, <1>6, <2>1, StepReads
<1>7. CASE Step(r, onElements(all))
  <2>1. PICK n : n = Value(S) OBVIOUS
  <2>2. n \in Nat
    <3> HIDE DEF S
    <3> QED BY <1>1, <1>5, <2>1, ValueIsTotal
  <2>3. PICK s : s = [q EXCEPT !.chain = "elements", !.inputs = all, !.total = n, !.step = "open"]
    OBVIOUS
  <2>4. Step(r, s)
    BY <1>7, <2>1, <2>3
  <2> HIDE DEF S, all, q, onElements, onBitcoin
  <2>5. /\ s \in Request /\ s.op = q.op /\ s.basis = q.basis /\ s.counted = q.counted
        /\ s.spendable = q.spendable /\ s.moved = q.moved /\ s.left = q.left
        /\ s.step = "open" /\ s.chain = "elements" /\ s.inputs = all /\ s.total = n
    BY <1>1, <1>5, <2>2, <2>3 DEF Request, Chains
  <2>6. Outstanding(s, coins) \subseteq S
    BY <1>5, <2>5 DEF Outstanding, Policy
  <2>7. Covering(s, coins)
    BY <1>1, <1>5, <2>1, <2>5, <2>6, ValueCovers
  <2>8. SlotSpends(s, coins)
    BY <1>3, <2>5, <2>7 DEF SlotSpends
  <2> QED BY <1>5, <1>6, <2>4, <2>5, <2>8
<1>8. CASE Step(r, onBitcoin(btc))
  <2>1. PICK s : s = onBitcoin(btc) OBVIOUS
  <2>2. Step(r, s)
    BY <1>8, <2>1
  <2> HIDE DEF btc, q
  <2>3. /\ s \in Request /\ s.op = q.op /\ s.basis = q.basis /\ s.counted = q.counted
        /\ s.spendable = q.spendable /\ s.moved = q.moved /\ s.left = q.left
        /\ s.step = "describe" /\ s.chain = "bitcoin" /\ s.inputs = btc
        /\ s.version = q.version
    BY <1>1, <1>5, <2>1 DEF Request, Chains
  <2>4. SlotSpends(s, coins)
    BY <1>3, <1>5, <2>3 DEF SlotSpends
  <2> QED BY <1>5, <1>6, <2>2, <2>3, <2>4
<1> QED BY <1>4, <1>7, <1>8

\* The total of a sweep is the one its request had counted.
LEMMA OpenSweepReads ==
  ASSUME RosterInv, PageInv, NEW r \in Requests, OpenSweep(r)
  PROVE  PageInv'
<1> DEFINE q    == request[r]
           p    == Sweep(q)
           left == q.funded \ {q.chain}
           on   == [q EXCEPT !.funded = left, !.step = "sweep"]
           next == IF left = {} THEN Idle ELSE on
<1>1. /\ SlotReads(q, coins, proposals) /\ q \in Request /\ q.inputs \subseteq DOMAIN coins
      /\ SlotSound(q) /\ CoinsSound(coins)
  BY SlotOf
<1>2. /\ q.step = "open" /\ Len(proposals) < MaxProposals /\ proposals' = Append(proposals, p)
      /\ Step(r, next) /\ UNCHANGED <<coins, history>>
  BY DEF OpenSweep, Holds
<1>3. q.op = "migrate" /\ Covering(q, coins)
  BY <1>1, <1>2 DEF SlotSound, SlotReads, SlotSpends
<1> HIDE DEF q
<1>4. /\ p \in Proposal /\ p.inputs = q.inputs /\ p.chain = q.chain /\ p.total = q.total
  <2>1. Policy(q.chain) \in Assets
    BY <1>1, PolicyOfChain DEF Request
  <2> QED BY <1>1, <2>1 DEF Sweep, Request, Proposal
<1> HIDE DEF p
<1>5. ProposalSound(p, coins)
  <2>1. Covering(p, coins)
    BY <1>3, <1>4 DEF Covering, Outstanding
  <2> QED BY <1>1, <1>4, <2>1 DEF ProposalSound
<1>6. /\ on \in Request /\ on.op = q.op /\ on.basis = q.basis /\ on.counted = q.counted
      /\ on.spendable = q.spendable /\ on.moved = q.moved /\ on.left = q.left
      /\ on.step = "sweep" /\ on.inputs = q.inputs
  BY <1>1 DEF Request
<1>7. SlotSpends(on, coins)
  BY <1>3, <1>6 DEF SlotSpends
<1> HIDE DEF on
<1>8. ASSUME NEW ps, ProposalsGrow(proposals, ps)
      PROVE  SlotReads(next, coins, ps)
  <2>1. SlotReads(Idle, coins, ps)
    BY IdleFresh, FreshReads
  <2>2. SlotReads(q, coins, ps)
    <3>1. proposals \in Seq(Proposal) /\ coins \in Seq(Coin)
      BY <1>1 DEF PageInv, CoinsSound
    <3>2. CoinsGrow(coins, coins) /\ SameSeen(coins, coins)
      BY <1>1, SameCoinsGrow
    <3>3. Lives(q, q) /\ Notes(q, q, coins, coins)
      BY <1>1, <3>2, UntouchedLives
    <3> QED BY <1>1, <1>8, <3>1, <3>2, <3>3, ReadsOn
  <2>3. SlotReads(on, coins, ps)
    BY <1>1, <1>3, <1>6, <1>7, <2>2, CreationReads
  <2> QED BY <2>1, <2>3
<1> HIDE DEF next
<1> QED BY <1>2, <1>5, <1>8, StoredReads

\* A request that ends early: its build fails, or its browser hangs up.
LEMMA CutShortReads ==
  ASSUME PageInv, NEW r \in Requests, SweepFails(r) \/ Stop(r)
  PROVE  PageInv'
<1>1. Step(r, Idle) /\ UNCHANGED <<coins, proposals, known>>
  BY DEF SweepFails, Stop
<1>2. known' \in [1..LastVersion -> SUBSET Nat] /\ SlotReads(Idle, coins, proposals)
  BY <1>1, IdleFresh, FreshReads DEF PageInv
<1> QED BY <1>1, <1>2, StoringReads

\* Nothing to sweep: the version flips, and the other requests are told.
LEMMA FlipUnfundedReads ==
  ASSUME RosterInv, RosterInv', PageInv, NEW r \in Requests, FlipUnfunded(r)
  PROVE  PageInv'
<1>1. /\ request' = [Witnessing(versions') EXCEPT ![r] = Idle]
      /\ UNCHANGED <<coins, proposals, history>>
  BY DEF FlipUnfunded
<1>2. CoinsGrow(coins, coins') /\ SameSeen(coins, coins') /\ coins' = coins
  BY <1>1, SameCoinsGrow DEF PageInv
<1>3. versions' \in Seq(Version)
  BY DEF RosterInv, RosterTypeOK
<1>4. /\ request' = [x \in Requests |-> request'[x]]
      /\ \A x \in Requests : request'[x] = IF x = r THEN Idle ELSE Witnessing(versions')[x]
  <2>1. DOMAIN Witnessing(versions') = Requests
        /\ Witnessing(versions') = [x \in Requests |-> Witnessing(versions')[x]]
    BY DEF Witnessing
  <2> HIDE DEF Witnessing
  <2> QED BY <1>1, <2>1
<1>5. ASSUME NEW x \in Requests
      PROVE  \/ Lives(request[x], request'[x]) /\ Notes(request[x], request'[x], coins, coins')
             \/ SlotReads(request'[x], coins', proposals')
  <2>1. CASE x = r \/ request[x].step = "idle"
    <3>1. request'[x] = Idle
      BY <1>4, <2>1 DEF Witnessing, Holds
    <3> QED BY <3>1, IdleFresh, FreshReads
  <2>2. CASE x # r /\ request[x].step # "idle"
    BY <1>2, <1>3, <1>4, <2>2, WitnessingLives
  <2> QED BY <2>1, <2>2
<1>6. ProposalsGrow(proposals, proposals')
  BY <1>1, SameProposalsGrow
<1>7. /\ Len(coins') <= MaxCoins
      /\ \A c \in DOMAIN coins' \ DOMAIN coins : coins'[c].seen = "unseen"
      /\ proposals' \in Seq(Proposal) /\ Len(proposals') <= MaxProposals
      /\ \A p \in DOMAIN proposals' : ProposalSound(proposals'[p], coins')
      /\ known' \in [1..LastVersion -> SUBSET Nat]
  BY <1>1 DEF PageInv, history
<1> QED BY <1>2, <1>4, <1>5, <1>6, <1>7, PageAfter

-----------------------------------------------------------------------------
(* Migrations *)

LEMMA MigrationReads ==
  ASSUME NEW cs, NEW ps, NEW s \in Request, s.op = "migrate", s.chain = "bitcoin",
         s.step \in {"describe", "store"}, s.basis = {}, s.counted = {}, s.moved = {}, s.left = {},
         s.spendable = 0, s.inputs \subseteq DOMAIN cs,
         s.step = "describe" =>
           \A c \in s.inputs :
             cs[c].owner = s.version /\ cs[c].asset = "BTC" /\ cs[c].seen # "unseen",
         s.step = "store" => s.draft[1].elements
  PROVE  SlotReads(s, cs, ps)
<1>1. SlotTyped(s, cs, ps)
  BY DEF SlotTyped
<1>2. SlotSpends(s, cs)
  BY DEF SlotSpends
<1>3. "migrate" \notin Pages
  BY DEF Pages
<1>4. s.spendable <= Total(Worth(cs), s.basis \ UNION {ps[p].inputs : p \in s.counted})
  <2>1. s.basis \ UNION {ps[p].inputs : p \in s.counted} = {}
    OBVIOUS
  <2> QED BY <2>1, TotalOfNothing
<1>5. SlotPromises(s, cs, ps)
  BY <1>3, <1>4 DEF SlotPromises
<1>6. SlotRows(s, cs)
  BY DEF SlotRows
<1> QED BY <1>1, <1>2, <1>5, <1>6 DEF SlotReads

LEMMA MigrateReads ==
  ASSUME RosterInv, PageInv, NEW r \in Requests, NEW u \in Users, NEW base \in Indices,
         NEW add \in SUBSET Users, NEW remove \in SUBSET Users, NEW m \in Nat,
         Migrate(r, u, base, add, remove, m)
  PROVE  PageInv'
<1> DEFINE s0 == Slot(r, "migrate", u, base, "bitcoin", "describe")
           slot(draft) == [s0 EXCEPT !.draft = <<draft>>]
           synced == [c \in DOMAIN coins |-> Synced(base, Chain(coins[c].asset))[c]]
           seen(a) == {c \in DOMAIN coins : /\ synced[c].owner = base /\ synced[c].asset = a
                                            /\ synced[c].seen \in {"untrusted", "trusted"}}
           all == UNION {seen(a) : a \in Assets}
           funded == {chain \in Chains : seen(Policy(chain)) # {}}
           onBoth(draft) == [slot(draft) EXCEPT !.step = "store", !.inputs = all,
                                                !.funded = funded]
           onOne(draft, inputs) == [slot(draft) EXCEPT !.inputs = inputs,
                                                       !.funded = {"bitcoin"}]
<1>1. /\ RosterTypeOK /\ CoinsSound(coins) /\ DOMAIN coins \subseteq Nat /\ base \in Nat
      /\ UNCHANGED <<proposals, history>>
  <2>1. RosterTypeOK /\ base \in Nat
    BY HeadsAreNumbers DEF RosterInv
  <2>2. CoinsSound(coins) /\ DOMAIN coins \subseteq Nat
    BY DEF PageInv, CoinsSound
  <2> QED BY <2>1, <2>2 DEF Migrate
<1>2. PICK draft \in Drafts(base, add, remove, m) :
        \/ versions[base].elements /\ SyncAnd(r, synced, onBoth(draft))
        \/ /\ ~versions[base].elements /\ UNCHANGED coins
           /\ \E inputs \in Drains(Held(base, "BTC")) : Step(r, onOne(draft, inputs))
  BY DEF Migrate
<1>3. draft \in Version /\ draft.elements = versions[base].elements
  <2>1. draft \in Version /\ Explains(draft, versions[base])
    BY <1>1, DraftsAreSound
  <2> QED BY <2>1 DEF Explains
<1>4. Arrived(s0, "migrate", base, "bitcoin", "describe")
  BY <1>1, NewSlot DEF Chains
<1> HIDE DEF s0
<1>5. PICK s : s = slot(draft)
  OBVIOUS
<1>6. /\ s \in Request /\ s.op = "migrate" /\ s.step = "describe" /\ s.version = base
      /\ s.chain = "bitcoin" /\ s.basis = {} /\ s.counted = {} /\ s.moved = {} /\ s.left = {}
      /\ s.spendable = 0 /\ s.draft[1] = draft
  <2>1. <<draft>> \in Seq(Version) BY <1>3
  <2>2. PICK ds : ds = <<draft>> OBVIOUS
  <2>3. ds \in Seq(Version) /\ ds[1] = draft BY <2>1, <2>2
  <2>4. PICK x : x = [s0 EXCEPT !.draft = ds] OBVIOUS
  <2>5. /\ x \in Request /\ x.op = "migrate" /\ x.step = "describe" /\ x.version = base
        /\ x.chain = "bitcoin" /\ x.basis = {} /\ x.counted = {} /\ x.moved = {} /\ x.left = {}
        /\ x.spendable = 0 /\ x.draft = ds
    BY <1>4, <2>3, <2>4 DEF Arrived, Request
  <2>6. x = s BY <1>5, <2>2, <2>4, Zenon
  <2> QED BY <2>3, <2>5, <2>6
<1> HIDE DEF slot
<1>7. CASE versions[base].elements /\ SyncAnd(r, synced, onBoth(draft))
  <2>1. CoinsGrow(coins, synced) /\ Len(synced) = Len(coins)
    <3>1. synced = [c \in DOMAIN coins |-> synced[c]]
      OBVIOUS
    <3>2. \A c \in DOMAIN coins : synced[c] = coins[c] \/ \E v, chain : synced[c] = Synced(v, chain)[c]
      OBVIOUS
    <3> HIDE DEF synced
    <3> QED BY <1>1, <3>1, <3>2, SyncGrows
  <2>2. DOMAIN synced = DOMAIN coins
    OBVIOUS
  <2>3. all \subseteq DOMAIN coins /\ all \in SUBSET Nat
    BY <1>1
  <2>4. funded \in SUBSET Chains
    OBVIOUS
  <2> HIDE DEF synced, all, funded
  <2>5. PICK n : n = [s EXCEPT !.step = "store", !.inputs = all, !.funded = funded]
    OBVIOUS
  <2>6. /\ n \in Request /\ n.op = "migrate" /\ n.step = "store" /\ n.version = base
        /\ n.chain = "bitcoin" /\ n.basis = {} /\ n.counted = {} /\ n.moved = {} /\ n.left = {}
        /\ n.spendable = 0 /\ n.draft[1] = draft /\ n.inputs = all
    BY <1>6, <2>3, <2>4, <2>5 DEF Request
  <2>7. SyncAnd(r, synced, n)
    BY <1>5, <1>7, <2>5
  <2>8. SlotReads(n, synced, proposals)
    BY <1>3, <1>7, <2>2, <2>3, <2>6, MigrationReads
  <2> QED BY <1>1, <2>1, <2>7, <2>8, SyncReads
<1>8. CASE /\ ~versions[base].elements /\ UNCHANGED coins
           /\ \E inputs \in Drains(Held(base, "BTC")) : Step(r, onOne(draft, inputs))
  <2>1. PICK inputs \in Drains(Held(base, "BTC")) : Step(r, onOne(draft, inputs))
    BY <1>8
  <2>2. /\ inputs \subseteq DOMAIN coins
        /\ \A c \in inputs : coins[c].owner = base /\ coins[c].asset = "BTC" /\ coins[c].seen # "unseen"
    BY DEF Drains, Held, Wallet
  <2>3. inputs \in SUBSET Nat
    BY <1>1, <2>2
  <2>4. PICK n : n = [s EXCEPT !.inputs = inputs, !.funded = {"bitcoin"}]
    OBVIOUS
  <2>5. /\ n \in Request /\ n.op = "migrate" /\ n.step = "describe" /\ n.version = base
        /\ n.chain = "bitcoin" /\ n.basis = {} /\ n.counted = {} /\ n.moved = {} /\ n.left = {}
        /\ n.spendable = 0 /\ n.draft[1] = draft /\ n.inputs = inputs
    BY <1>6, <2>3, <2>4 DEF Request, Chains
  <2>6. Step(r, n)
    BY <1>5, <2>1, <2>4
  <2>7. SlotReads(n, coins, proposals)
    BY <2>2, <2>5, MigrationReads
  <2> QED BY <1>1, <1>8, <2>6, <2>7, StepReads
<1> QED BY <1>2, <1>7, <1>8

\* A version is stored: its request goes on to the sweeps, the one of a
\* Bitcoin-only vault with the total it has counted.
LEMMA StoreReads ==
  ASSUME RosterInv, PageInv, NEW r \in Requests, Store(r)
  PROVE  PageInv'
<1> DEFINE q    == request[r]
           n    == q.version + 1
           step == IF q.funded = {} THEN "flip"
                   ELSE IF versions[q.version].elements THEN "sweep" ELSE "open"
           next == [q EXCEPT !.to = n, !.step = step]
<1>1. /\ SlotReads(q, coins, proposals) /\ q \in Request /\ SlotSound(q)
      /\ q.inputs \subseteq DOMAIN coins
  BY SlotOf
<1>2. q.step = "store" /\ UNCHANGED <<coins, proposals>>
  BY DEF Store, Holds
<1>3. known \in [1..LastVersion -> SUBSET Nat] /\ q.inputs \in SUBSET Nat /\ n \in Nat
  BY <1>1 DEF PageInv, Request
<1>4. CASE Step(r, Idle) /\ UNCHANGED known
  BY <1>2, <1>3, <1>4, IdleFresh, FreshReads, StoringReads
<1>5. CASE known' = [known EXCEPT ![n] = q.inputs] /\ Step(r, next)
  <2>1. q.op = "migrate" /\ DraftSound(q)
    BY <1>1, <1>2 DEF SlotSound
  <2>2. ~versions[q.version].elements => ~q.draft[1].elements
    BY <2>1 DEF DraftSound, Explains
  <2>3. step = "open" => Covering(q, coins)
    BY <1>1, <1>2, <2>2 DEF SlotReads, SlotSpends
  <2>4. step \in {"flip", "sweep", "open"}
    OBVIOUS
  <2>5. known' \in [1..LastVersion -> SUBSET Nat]
    <3> HIDE DEF q, n
    <3> QED BY <1>3, <1>5
  <2> HIDE DEF q, step, n
  <2>6. /\ next \in Request /\ next.op = q.op /\ next.basis = q.basis
        /\ next.counted = q.counted /\ next.spendable = q.spendable /\ next.moved = q.moved
        /\ next.left = q.left /\ next.step = step /\ next.inputs = q.inputs
        /\ next.chain = q.chain /\ next.total = q.total
    BY <1>1, <1>3, <2>4 DEF Request
  <2> HIDE DEF next
  <2>7. Covering(q, coins) => Covering(next, coins)
    BY <2>6 DEF Covering, Outstanding
  <2>8. SlotSpends(next, coins)
    BY <2>1, <2>3, <2>4, <2>6, <2>7 DEF SlotSpends
  <2>9. SlotReads(next, coins, proposals)
    BY <1>1, <2>1, <2>4, <2>6, <2>8, CreationReads
  <2> QED BY <1>2, <1>5, <2>5, <2>9, StoringReads
<1> QED BY <1>4, <1>5 DEF Store

-----------------------------------------------------------------------------
(* Every step *)

LEMMA QuietReads ==
  ASSUME PageInv, UNCHANGED <<coins, proposals, request, history>>
  PROVE  PageInv'
<1>1. /\ ProposalsGrow(proposals, proposals') /\ proposals' \in Seq(Proposal)
      /\ Len(proposals') <= MaxProposals
      /\ \A p \in DOMAIN proposals' : ProposalSound(proposals'[p], coins)
  BY SameProposalsGrow DEF PageInv
<1> QED BY <1>1, QuietRowsReads

LEMMA CreationReadsOn ==
  ASSUME RosterInv, PageInv, NEW r \in Requests, Creation(r)
  PROVE  PageInv'
<1>1. ASSUME NEW u \in mix.users, NEW v \in Indices, NEW a \in mix.assets,
             NEW amount \in Amounts \cup {0}, NEW to \in Indices \cup {0},
             RequestCreate(r, u, v, a, amount, to)
      PROVE  PageInv'
  <2>1. u \in Users /\ a \in Assets /\ amount \in Nat /\ to \in Nat
    <3>1. Indices \subseteq Nat BY HeadsAreNumbers DEF RosterInv
    <3> QED BY <3>1, VaultAssumption DEF RosterInv
  <2> QED BY <1>1, <2>1, RequestCreateReads
<1> QED
  BY <1>1, CheckStatusReads, BuildReads, DescribeReads, InsertProposalReads DEF Creation

LEMMA ViewingReadsOn ==
  ASSUME RosterInv, PageInv, NEW r \in Requests, Viewing(r)
  PROVE  PageInv'
<1>1. mix.users \subseteq Users
  BY VaultAssumption DEF RosterInv
<1>2. ASSUME NEW u \in mix.users, NEW v \in Indices, NEW chain \in Chains,
             \/ \E op \in {"receive", "manage"} : OpenPage(r, op, u, v, chain)
             \/ OpenSend(r, u, v, chain) \/ Show(r, u, v, chain)
      PROVE  PageInv'
  BY <1>1, <1>2, ArrivalsRead
<1>3. ASSUME NEW u \in mix.users, NEW p \in DOMAIN proposals, Detail(r, u, p)
      PROVE  PageInv'
  BY <1>1, <1>3, DetailReads
<1>4. ASSUME \/ ReadVisible(r) \/ ListVersions(r) \/ LockRecipient(r) \/ Panel(r)
             \/ ExternalRows(r) \/ ChangeRows(r) \/ ReserveTotal(r) \/ SyncPage(r)
             \/ ReadBalance(r) \/ Reply(r)
      PROVE  PageInv'
  BY <1>4, ReadVisibleReads, ListVersionsReads, LockRecipientReads, PanelReads,
     ExternalRowsReads, ChangeRowsReads, ReserveTotalReads, SyncPageReads, ReadBalanceReads,
     ReplyReads
<1> QED BY <1>2, <1>3, <1>4 DEF Viewing

LEMMA PageInvInductive ==
  ASSUME RosterInv, RosterInv', PageInv, [Next]_vars
  PROVE  PageInv'
<1>1. /\ mix.users \subseteq Users
      /\ \A plan \in mix.plans :
           plan.add \subseteq Users /\ plan.remove \subseteq Users /\ plan.m \in Nat
  BY VaultAssumption DEF RosterInv
<1>2. CASE Rosters
  <2>1. ASSUME NEW r \in Requests, NEW u \in mix.users, NEW base \in Indices,
               NEW plan \in mix.plans, Migrate(r, u, base, plan.add, plan.remove, plan.m)
        PROVE  PageInv'
    BY <1>1, <2>1, MigrateReads
  <2>2. ASSUME NEW u, NEW d, NEW atPath, OnboardSigner(u, d, atPath)
        PROVE  PageInv'
    BY <2>2, QuietReads DEF OnboardSigner
  <2>3. ASSUME NEW u, NEW picked, NEW m, NEW taproot, Found(u, picked, m, taproot)
        PROVE  PageInv'
    BY <2>3, QuietReads DEF Found
  <2> QED
    BY <1>2, <2>1, <2>2, <2>3, CancelMigrationReads DEF Rosters
<1>3. ASSUME NEW r \in Requests, Sweeping(r) \/ Creation(r) \/ Viewing(r)
      PROVE  PageInv'
  <2>1. CASE Sweeping(r)
    BY <2>1, StoreReads, BuildSweepReads, OpenSweepReads, FlipUnfundedReads, CutShortReads
       DEF Sweeping
  <2> QED BY <1>3, <2>1, CreationReadsOn, ViewingReadsOn
<1>4. CASE Money
  BY <1>4, BroadcastReads, CancelProposalReads, MaxSpendReads, DepositReads, ConfirmReads,
     RestartReads DEF Money
<1>5. CASE UNCHANGED vars
  BY <1>5, QuietReads DEF vars
<1> QED
  BY <1>2, <1>3, <1>4, <1>5 DEF Next

LEMMA PageInvInitial ==
  ASSUME CoinsSound(coins), Len(coins) <= MaxCoins, Init
  PROVE  PageInv
<1>1. proposals = << >> /\ << >> \in Seq(Proposal) /\ Len(<< >>) = 0 /\ DOMAIN << >> = {}
  BY DEF Init
<1>2. Len(proposals) <= MaxProposals
  BY <1>1, VaultAssumption
<1>3. \A r \in Requests : SlotReads(request[r], coins, proposals)
  BY IdleFresh, FreshReads DEF Init
<1> QED BY <1>1, <1>2, <1>3 DEF PageInv, Init

\* The chains whose sweep was never opened are some that had funds.
CutShortTyped == cutShort \in [1..LastVersion -> SUBSET Chains]

LEMMA CutShortStaysTyped ==
  ASSUME PageInv, CutShortTyped, [Next]_vars
  PROVE  CutShortTyped'
<1>1. ASSUME NEW R \in SUBSET Requests, EndingAll(R)
      PROVE  CutShortTyped'
  <2>1. \A r \in R, v \in 1..LastVersion : Opening(r, v) \subseteq Chains
    BY DEF Opening, PageInv, SlotReads, SlotTyped, Request
  <2>2. cutShort' = [v \in 1..LastVersion |->
                      cutShort[v] \cup UNION {Opening(r, v) : r \in R}]
    BY <1>1 DEF EndingAll
  <2> HIDE DEF Opening
  <2> QED BY <2>1, <2>2 DEF CutShortTyped
<1>2. UNCHANGED cutShort => CutShortTyped'
  BY DEF CutShortTyped
<1>3. CASE Rosters
  BY <1>2, <1>3 DEF Rosters, OnboardSigner, Found, Migrate, CancelMigration, history
<1>4. ASSUME NEW r \in Requests, Sweeping(r)
      PROVE  CutShortTyped'
  <2>1. SweepFails(r) \/ Stop(r) => EndingAll({r})
    BY DEF SweepFails, Stop
  <2>2. SweepFails(r) \/ Stop(r) \/ UNCHANGED cutShort
    BY <1>4 DEF Sweeping, Store, BuildSweep, OpenSweep, FlipUnfunded, history
  <2> QED BY <1>1, <1>2, <2>1, <2>2
<1>5. ASSUME NEW r \in Requests, Creation(r) \/ Viewing(r)
      PROVE  CutShortTyped'
  BY <1>2, <1>5
     DEF Creation, Viewing, RequestCreate, CheckStatus, Build, Describe, InsertProposal, OpenPage,
         OpenSend, Show, Detail, ReadVisible, ListVersions, LockRecipient, Panel, ExternalRows,
         ChangeRows, ReserveTotal, SyncPage, ReadBalance, Reply, history
<1>6. CASE Money
  <2>1. Restart => EndingAll(Requests)
    BY DEF Restart
  <2>2. Restart \/ UNCHANGED cutShort
    BY <1>6 DEF Money, Broadcast, CancelProposal, MaxSpend, Deposit, Confirm, history
  <2> QED BY <1>1, <1>2, <2>1, <2>2
<1>7. CASE UNCHANGED vars
  BY <1>2, <1>7 DEF vars, history
<1> QED BY <1>3, <1>4, <1>5, <1>6, <1>7 DEF Next

\* A page that is complete shows what its slot promises.
LEMMA PageInvSuffices ==
  ASSUME RosterInv, PageInv, CutShortTyped
  PROVE  TypeOK /\ SpendableIsFree /\ RowsAddUp
<1>1. CoinsTypeOK
  BY DEF PageInv, CoinsTypeOK, CoinsSound
<1>2. \A r \in Requests : request[r] \in Request /\ SlotReads(request[r], coins, proposals)
  BY DEF PageInv, SlotReads, SlotTyped
<1>3. TypeOK
  <2>1. request \in [Requests -> Request]
    BY <1>2 DEF PageInv
  <2> QED BY <1>1, <2>1 DEF TypeOK, RosterInv, PageInv, CutShortTyped
<1>4. SpendableIsFree
  <2> SUFFICES ASSUME NEW r \in Requests
               PROVE  request[r].spendable <=
                        Value(request[r].basis \ UNION {proposals[p].inputs : p \in request[r].counted})
    BY DEF SpendableIsFree
  <2> DEFINE S == request[r].basis \ UNION {proposals[p].inputs : p \in request[r].counted}
  <2>1. request[r].spendable <= Total(Worth(coins), S)
    BY <1>2 DEF SlotReads, SlotPromises
  <2>2. S \in SUBSET (DOMAIN coins)
    BY <1>2 DEF SlotReads, SlotTyped
  <2> HIDE DEF S
  <2>3. Value(S) = Total(Worth(coins), S)
    BY <1>1, <2>2, ValueIsTotal
  <2> QED BY <2>1, <2>3 DEF S
<1>5. RowsAddUp
  <2> SUFFICES ASSUME NEW r \in Requests, request[r].op = "receive", Complete(r)
               PROVE  /\ request[r].rows <= request[r].balance + Value(request[r].moved)
                      /\ request[r].chain = "bitcoin" =>
                           request[r].balance <= request[r].rows + Value(request[r].moved)
    BY DEF RowsAddUp
  <2>1. request[r].step \notin RowsTaken \cup {"external"}
    BY DEF Complete, Holds, RowsTaken
  <2>2. Value(request[r].moved) = Total(Worth(coins), request[r].moved)
    BY <1>1, <1>2, ValueIsTotal DEF SlotReads, SlotTyped
  <2> QED BY <1>2, <2>1, <2>2 DEF SlotReads, SlotRows
<1> QED BY <1>3, <1>4, <1>5

LEMMA PagesSound ==
  RosterTypeOK /\ RostersFollow /\ CoinsTypeOK /\ CoinsSound(coins) /\ Spec =>
    [](TypeOK /\ SpendableIsFree /\ RowsAddUp)
<1>1. RosterTypeOK /\ RostersFollow /\ CoinsTypeOK /\ CoinsSound(coins) /\ Init =>
        RosterInv /\ PageInv /\ CutShortTyped
  <2> SUFFICES ASSUME RosterTypeOK, RostersFollow, CoinsTypeOK, CoinsSound(coins), Init
               PROVE  RosterInv /\ PageInv /\ CutShortTyped
    OBVIOUS
  <2>1. SlotsSound
    BY IdleSound DEF SlotsSound, Init
  <2>2. RosterInv
    BY <2>1, RosterInvSuffices DEF RosterInv, Init
  <2>3. CutShortTyped
    BY DEF CutShortTyped, Init
  <2> QED
    BY <2>2, <2>3, PageInvInitial DEF CoinsTypeOK
<1>2. RosterInv /\ PageInv /\ CutShortTyped /\ [Next]_vars =>
        RosterInv' /\ PageInv' /\ CutShortTyped'
  BY RosterInvInductive, PageInvInductive, CutShortStaysTyped
<1>3. RosterInv /\ PageInv /\ CutShortTyped => TypeOK /\ SpendableIsFree /\ RowsAddUp
  BY PageInvSuffices
<1> QED
  BY <1>1, <1>2, <1>3, PTL DEF Spec

\* Whatever is served, built, synced, cancelled or restarted, every variable of
\* the lineage stays within its type: in particular a slot never names a coin,
\* an amount or a version of another kind than its handler expects.
THEOREM LineageStaysTyped ==
  RosterTypeOK /\ RostersFollow /\ CoinsTypeOK /\ CoinsSound(coins) /\ Spec => []TypeOK
  BY PagesSound, PTL

\* From any sound lineage whose wallets take no coin for spent that is not, what
\* a page calls spendable is worth no more than the trusted coins no counted
\* proposal has selected, however its total, its sync and its balance interleave
\* with proposals being built, stored and broadcast (federations.rs:93,
\* db.rs:690).
THEOREM SpendableStaysFree ==
  RosterTypeOK /\ RostersFollow /\ CoinsTypeOK /\ CoinsSound(coins) /\ Spec => []SpendableIsFree
  BY PagesSound, PTL

\* In the same lineages the rows of a receive page and its balance, read under
\* different locks, differ by no more than the coins its wallet changed its mind
\* about in between (federations.rs:283).
THEOREM RowsStayAddedUp ==
  RosterTypeOK /\ RostersFollow /\ CoinsTypeOK /\ CoinsSound(coins) /\ Spec => []RowsAddUp
  BY PagesSound, PTL

=============================================================================
