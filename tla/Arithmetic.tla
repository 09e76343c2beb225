----------------------------- MODULE Arithmetic -----------------------------
(***************************************************************************)
(* Sums over finite sets (MapThenSumSet of the community modules, which is *)
(* defined by recursion along an arbitrary choice of elements): the sum    *)
(* does not depend on the choice, one element can be taken out, a part of  *)
(* the set has no greater sum, a term that changes changes the sum by as   *)
(* much, and the sizes of the parts of a set add up to its own.  At the    *)
(* end, products and quotients of naturals.                                *)
(*                                                                         *)
(* The library's induction theorems take a predicate as a parameter.       *)
(* Here induction is on the least counterexample instead (LeastOf): the    *)
(* sets for which a fact fails have sizes, and a least size if any.        *)
(***************************************************************************)
EXTENDS FiniteSetsExt, FiniteSetTheorems, NaturalsInduction, WellFoundedInduction, TLAPS

Sum(f, S) == MapThenSumSet(LAMBDA m : f[m], S)

\* The table of the sums of the subsets of S, and what makes one.
Pick(s)    == CHOOSE x \in s : TRUE
Iter(f, S) == CHOOSE iter : iter = [s \in SUBSET S |->
                IF s = {} THEN 0
                ELSE LET x == CHOOSE x \in s : TRUE IN f[x] + iter[s \ {x}]]
Row(g, f, s) == g[s] = IF s = {} THEN 0 ELSE f[Pick(s)] + g[s \ {Pick(s)}]
UpTo(S, n)  == {s \in SUBSET S : Cardinality(s) <= n}
Tabled(f, S, n) ==
  \E g : /\ g = [s \in UpTo(S, n) |-> g[s]]
         /\ \A s \in UpTo(S, n) : Row(g, f, s)

\* Pairs of numbers of which the first is the smaller.
Less == {p \in Nat \X Nat : p[1] < p[2]}
\* A set of numbers that is not empty has a least one.
LEMMA LeastOf == ASSUME NEW T \in SUBSET Nat, T # {} PROVE \E n \in T : \A m \in T : n <= m
  <1>1. OpToRel(<, Nat) = Less
    BY DEF OpToRel, Less
  <1>2. IsWellFoundedOn(Less, Nat)
    BY <1>1, NatLessThanWellFounded
  <1>3. PICK n \in T : \A m \in T : ~(<<m, n>> \in Less)
    BY <1>2, WFMin
  <1>4. ASSUME NEW m \in T PROVE n <= m
    <2>1. <<m, n>> \in Nat \X Nat /\ <<m, n>>[1] = m /\ <<m, n>>[2] = n
      OBVIOUS
    <2>2. ~(m < n)
      BY <1>3, <2>1 DEF Less
    <2> QED BY <2>2
  <1> QED BY <1>4

\* A set of numbers with 0 and with the successor of each of its members has all.
LEMMA Induct ==
  ASSUME NEW P, 0 \in P, \A n \in Nat : n \in P => n + 1 \in P
  PROVE  Nat \subseteq P
  <1> SUFFICES ASSUME ~(Nat \subseteq P) PROVE FALSE
    OBVIOUS
  <1>1. PICK n \in Nat \ P : \A m \in Nat \ P : n <= m
    BY LeastOf
  <1>2. n # 0 /\ n - 1 \in Nat
    BY <1>1
  <1>3. n - 1 \in P
    BY <1>1, <1>2
  <1> QED BY <1>1, <1>2, <1>3

\* A set of numbers that is bounded has a greatest, and one that is not empty a least.
LEMMA MaxOf ==
  ASSUME NEW n \in Nat, NEW S \in SUBSET (0 .. n), S # {}
  PROVE  Max(S) \in S /\ \A x \in S : x <= Max(S)
  <1> DEFINE T == {k \in Nat : \A x \in S : x <= k}
  <1>1. n \in T
    OBVIOUS
  <1>2. PICK m \in T : \A k \in T : m <= k
    BY <1>1, LeastOf
  <1>3. m \in S
    <2> SUFFICES ASSUME m \notin S PROVE FALSE
      OBVIOUS
    <2>1. \A x \in S : x <= m - 1
      BY <1>2
    <2>2. m - 1 \in Nat
      <3>1. PICK x \in S : TRUE
        OBVIOUS
      <3> QED BY <1>2, <2>1, <3>1
    <2> QED BY <1>2, <2>1, <2>2
  <1>4. \A x \in S : m >= x
    BY <1>2
  <1> QED BY <1>3, <1>4 DEF Max

\* An element is chosen from a set that is not empty; without it the set is smaller.
LEMMA Picked ==
  ASSUME NEW S, IsFiniteSet(S), NEW s \in SUBSET S, s # {}
  PROVE  /\ Pick(s) \in s /\ s \ {Pick(s)} \in SUBSET S
         /\ Cardinality(s \ {Pick(s)}) = Cardinality(s) - 1
         /\ Cardinality(s) \in Nat /\ Cardinality(s) > 0
  <1>1. Pick(s) \in s
    BY DEF Pick
  <1>2. IsFiniteSet(s)
    BY FS_Subset
  <1> QED BY <1>1, <1>2, FS_RemoveElement, FS_CardinalityType, FS_EmptySet

\* Sizes of the subsets of a finite set; those of size 0 are empty.
LEMMA SizeOf ==
  ASSUME NEW S, IsFiniteSet(S), NEW s \in SUBSET S
  PROVE  /\ IsFiniteSet(s) /\ Cardinality(s) \in Nat
         /\ Cardinality(s) <= 0 => s = {}
         /\ \A x \in s : Cardinality(s \ {x}) = Cardinality(s) - 1
  <1>1. IsFiniteSet(s)
    BY FS_Subset
  <1> QED BY <1>1, FS_CardinalityType, FS_EmptySet, FS_RemoveElement

\* There is a table for the subsets of every size.
LEMMA TablesExist ==
  ASSUME NEW f, NEW S, IsFiniteSet(S) PROVE \A n \in Nat : Tabled(f, S, n)
  <1> DEFINE P == {n \in Nat : Tabled(f, S, n)}
  <1>1. 0 \in P
    <2> DEFINE g == [s \in UpTo(S, 0) |-> 0]
    <2>1. \A s \in UpTo(S, 0) : s = {}
      BY SizeOf DEF UpTo
    <2>2. \A s \in UpTo(S, 0) : Row(g, f, s)
      BY <2>1 DEF Row
    <2>3. g = [s \in UpTo(S, 0) |-> g[s]]
      OBVIOUS
    <2> QED BY <2>2, <2>3 DEF Tabled
  <1>2. ASSUME NEW n \in Nat, n \in P PROVE n + 1 \in P
    <2>1. PICK g : /\ g = [s \in UpTo(S, n) |-> g[s]]
                   /\ \A s \in UpTo(S, n) : Row(g, f, s)
      BY <1>2 DEF Tabled
    <2> DEFINE h == [s \in UpTo(S, n + 1) |->
                       IF s = {} THEN 0 ELSE f[Pick(s)] + g[s \ {Pick(s)}]]
    <2>2. ASSUME NEW s \in UpTo(S, n), s # {} PROVE s \in UpTo(S, n + 1)
      BY <2>2, SizeOf DEF UpTo
    <2>3. \A s \in UpTo(S, n) : s \in UpTo(S, n + 1)
      <3>1. {} \in UpTo(S, n + 1)
        BY FS_EmptySet DEF UpTo
      <3> QED BY <2>2, <3>1
    <2>4. \A s \in UpTo(S, n) : h[s] = g[s]
      BY <2>1, <2>3 DEF Row
    <2>5. ASSUME NEW s \in UpTo(S, n + 1) PROVE Row(h, f, s)
      <3>1. CASE s = {}
        BY <3>1 DEF Row
      <3>2. CASE s # {}
        <4>1. s \ {Pick(s)} \in UpTo(S, n)
          BY <3>2, Picked DEF UpTo
        <4> QED BY <2>4, <3>2, <4>1 DEF Row
      <3> QED BY <3>1, <3>2
    <2>6. h = [s \in UpTo(S, n + 1) |-> h[s]]
      OBVIOUS
    <2> HIDE DEF h
    <2>7. Tabled(f, S, n + 1)
      BY <2>5, <2>6 DEF Tabled
    <2> QED BY <2>7
  <1> QED BY <1>1, <1>2, Induct

\* The table of all subsets follows its rule.
LEMMA IterRow ==
  ASSUME NEW f, NEW S, IsFiniteSet(S)
  PROVE  \A s \in SUBSET S : Row(Iter(f, S), f, s)
  <1>1. PICK g : /\ g = [s \in UpTo(S, Cardinality(S)) |-> g[s]]
                 /\ \A s \in UpTo(S, Cardinality(S)) : Row(g, f, s)
    BY TablesExist, FS_CardinalityType DEF Tabled
  <1>2. UpTo(S, Cardinality(S)) = SUBSET S
    BY FS_Subset, FS_CardinalityType DEF UpTo
  <1>3. g = [s \in SUBSET S |-> IF s = {} THEN 0
               ELSE LET x == CHOOSE x \in s : TRUE IN f[x] + g[s \ {x}]]
    BY <1>1, <1>2 DEF Row, Pick
  <1>4. Iter(f, S) = [s \in SUBSET S |-> IF s = {} THEN 0
               ELSE LET x == CHOOSE x \in s : TRUE IN f[x] + Iter(f, S)[s \ {x}]]
    BY <1>3 DEF Iter
  <1> QED BY <1>4 DEF Row, Pick

\* The sum is the last row of the table.
LEMMA SumIs == ASSUME NEW f, NEW S PROVE Sum(f, S) = Iter(f, S)[S]
  BY DEF Sum, MapThenSumSet, MapThenFoldSet, Iter

\* The tables of two functions and sets agree where the functions and sets do.
LEMMA TablesAgree ==
  ASSUME NEW f, NEW g, NEW S, NEW T, IsFiniteSet(S), IsFiniteSet(T), NEW U,
         U \subseteq S, U \subseteq T, \A x \in U : f[x] = g[x]
  PROVE  \A s \in SUBSET U : Iter(f, S)[s] = Iter(g, T)[s]
  <1> DEFINE P == {n \in Nat : \A s \in SUBSET U :
                     Cardinality(s) <= n => Iter(f, S)[s] = Iter(g, T)[s]}
  <1>0. IsFiniteSet(U)
    BY FS_Subset
  <1>1. 0 \in P
    <2> SUFFICES ASSUME NEW s \in SUBSET U, Cardinality(s) <= 0
                 PROVE  Iter(f, S)[s] = Iter(g, T)[s]
      OBVIOUS
    <2>1. s = {}
      BY SizeOf
    <2> QED BY <2>1, IterRow DEF Row
  <1>2. ASSUME NEW n \in Nat, n \in P PROVE n + 1 \in P
    <2> SUFFICES ASSUME NEW s \in SUBSET U, Cardinality(s) <= n + 1
                 PROVE  Iter(f, S)[s] = Iter(g, T)[s]
      OBVIOUS
    <2>1. CASE s = {}
      BY <2>1, IterRow DEF Row
    <2>2. CASE s # {}
      <3>1. Pick(s) \in s /\ s \ {Pick(s)} \in SUBSET U /\ Cardinality(s \ {Pick(s)}) <= n
        BY <1>0, <2>2, Picked
      <3>2. Iter(f, S)[s \ {Pick(s)}] = Iter(g, T)[s \ {Pick(s)}]
        BY <1>2, <3>1
      <3>3. Row(Iter(f, S), f, s) /\ Row(Iter(g, T), g, s)
        BY IterRow
      <3> QED BY <2>2, <3>1, <3>2, <3>3 DEF Row
    <2> QED BY <2>1, <2>2
  <1>3. \A n \in Nat : n \in P
    BY <1>1, <1>2, Induct
  <1> SUFFICES ASSUME NEW s \in SUBSET U PROVE Iter(f, S)[s] = Iter(g, T)[s]
    OBVIOUS
  <1>4. Cardinality(s) \in Nat
    BY <1>0, FS_Subset, FS_CardinalityType
  <1> QED BY <1>3, <1>4

\* Nothing adds up to nothing.
LEMMA SumEmpty == ASSUME NEW f PROVE Sum(f, {}) = 0
  BY SumIs, IterRow, FS_EmptySet DEF Row

\* Only the values on the set count.
LEMMA SumSame ==
  ASSUME NEW S, IsFiniteSet(S), NEW f, NEW g, \A x \in S : f[x] = g[x]
  PROVE  Sum(f, S) = Sum(g, S)
  BY SumIs, TablesAgree

\* The sum along the chosen element.
LEMMA SumPick ==
  ASSUME NEW f, NEW S, IsFiniteSet(S), S # {}
  PROVE  Sum(f, S) = f[Pick(S)] + Sum(f, S \ {Pick(S)})
  <1>1. Row(Iter(f, S), f, S)
    BY IterRow
  <1>2. IsFiniteSet(S \ {Pick(S)})
    BY FS_Subset
  <1>3. Iter(f, S)[S \ {Pick(S)}] = Iter(f, S \ {Pick(S)})[S \ {Pick(S)}]
    BY <1>2, TablesAgree
  <1> QED BY <1>1, <1>3, SumIs DEF Row

\* A sum of numbers is a number, and any element can be taken out of it.
LEMMA SumRemove ==
  ASSUME NEW S, IsFiniteSet(S), NEW f, \A x \in S : f[x] \in Int
  PROVE  /\ Sum(f, S) \in Int
         /\ \A x \in S : Sum(f, S) = f[x] + Sum(f, S \ {x})
  <1> DEFINE Good(s) == /\ Sum(f, s) \in Int
                        /\ \A x \in s : Sum(f, s) = f[x] + Sum(f, s \ {x})
             P == {n \in Nat : \A s \in SUBSET S : Cardinality(s) <= n => Good(s)}
  <1>1. Good({})
    BY SumEmpty
  <1>2. 0 \in P
    <2> SUFFICES ASSUME NEW s \in SUBSET S, Cardinality(s) <= 0 PROVE Good(s)
      OBVIOUS
    <2>1. s = {}
      BY SizeOf
    <2> QED BY <1>1, <2>1
  <1>3. ASSUME NEW n \in Nat, n \in P PROVE n + 1 \in P
    <2> SUFFICES ASSUME NEW s \in SUBSET S, Cardinality(s) <= n + 1 PROVE Good(s)
      OBVIOUS
    <2>1. CASE s = {}
      BY <1>1, <2>1
    <2>2. CASE s # {}
      <3> DEFINE y == Pick(s)
      <3>1. y \in s /\ s \ {y} \in SUBSET S /\ Cardinality(s \ {y}) <= n
            /\ IsFiniteSet(s) /\ IsFiniteSet(s \ {y})
        BY <2>2, Picked, FS_Subset
      <3>2. Good(s \ {y})
        BY <1>3, <3>1
      <3>3. Sum(f, s) = f[y] + Sum(f, s \ {y}) /\ f[y] \in Int
        BY <2>2, <3>1, SumPick
      <3>4. ASSUME NEW x \in s, x # y PROVE Sum(f, s) = f[x] + Sum(f, s \ {x})
        <4>1. Sum(f, s \ {y}) = f[x] + Sum(f, (s \ {y}) \ {x})
          BY <3>2, <3>4
        <4>2. IsFiniteSet(s \ {x}) /\ Cardinality(s \ {x}) <= n /\ s \ {x} \in SUBSET S
          BY <3>1, FS_RemoveElement, FS_CardinalityType
        <4>3. Good(s \ {x}) /\ y \in s \ {x}
          BY <1>3, <3>1, <3>4, <4>2
        <4>4. Sum(f, s \ {x}) = f[y] + Sum(f, (s \ {x}) \ {y})
          BY <4>3
        <4>5. (s \ {x}) \ {y} = (s \ {y}) \ {x}
          OBVIOUS
        <4>6. Good((s \ {y}) \ {x})
          <5>1. x \in s \ {y} /\ s \ {y} \in SUBSET S /\ (s \ {y}) \ {x} \in SUBSET S
            BY <3>1, <3>4
          <5>2. Cardinality((s \ {y}) \ {x}) = Cardinality(s \ {y}) - 1
                /\ Cardinality(s \ {y}) \in Nat
            BY <5>1, SizeOf
          <5>3. Cardinality((s \ {y}) \ {x}) <= n
            BY <3>1, <5>2
          <5> QED BY <1>3, <5>1, <5>3
        <4>7. Sum(f, (s \ {y}) \ {x}) \in Int /\ f[x] \in Int /\ f[y] \in Int
          BY <3>3, <4>6
        <4>8. Sum(f, s) = f[y] + (f[x] + Sum(f, (s \ {y}) \ {x}))
          BY <3>3, <4>1
        <4>9. Sum(f, s \ {x}) = f[y] + Sum(f, (s \ {y}) \ {x})
          BY <4>4, <4>5
        <4>10. \A a, c, d \in Int : c + (a + d) = a + (c + d)
          OBVIOUS
        <4> QED BY <4>7, <4>8, <4>9, <4>10
      <3>5. \A x \in s : Sum(f, s) = f[x] + Sum(f, s \ {x})
        BY <3>3, <3>4
      <3>6. Sum(f, s) \in Int
        BY <3>2, <3>3
      <3> QED BY <3>5, <3>6
    <2> QED BY <2>1, <2>2
  <1>4. \A n \in Nat : n \in P
    BY <1>2, <1>3, Induct
  <1>5. Cardinality(S) \in Nat
    BY FS_CardinalityType
  <1> QED BY <1>4, <1>5

\* An element that is added adds its value.
LEMMA SumAdd ==
  ASSUME NEW S, IsFiniteSet(S), NEW x, x \notin S, NEW f, \A y \in S \cup {x} : f[y] \in Int
  PROVE  Sum(f, S \cup {x}) = f[x] + Sum(f, S) /\ Sum(f, S) \in Int
  <1>1. IsFiniteSet(S \cup {x}) /\ (S \cup {x}) \ {x} = S
    BY FS_AddElement
  <1> QED BY <1>1, SumRemove

\* A sum of naturals is not below that of a part of the set.
LEMMA SumPart ==
  ASSUME NEW S, IsFiniteSet(S), NEW T \in SUBSET S, NEW f, \A x \in S : f[x] \in Nat
  PROVE  Sum(f, T) \in Nat /\ Sum(f, T) <= Sum(f, S)
  <1> DEFINE Good(s) == /\ Sum(f, s) \in Nat
                        /\ \A t \in SUBSET s : Sum(f, t) <= Sum(f, s)
             P == {n \in Nat : \A s \in SUBSET S : Cardinality(s) <= n => Good(s)}
  <1>1. Good({})
    BY SumEmpty
  <1>2. 0 \in P
    <2> SUFFICES ASSUME NEW s \in SUBSET S, Cardinality(s) <= 0 PROVE Good(s)
      OBVIOUS
    <2>1. s = {}
      BY SizeOf
    <2> QED BY <1>1, <2>1
  <1>3. ASSUME NEW n \in Nat, n \in P PROVE n + 1 \in P
    <2> SUFFICES ASSUME NEW s \in SUBSET S, Cardinality(s) <= n + 1 PROVE Good(s)
      OBVIOUS
    <2>1. CASE s = {}
      BY <1>1, <2>1
    <2>2. CASE s # {}
      <3>1. IsFiniteSet(s) /\ \A x \in s : f[x] \in Int
        BY FS_Subset
      <3>2. ASSUME NEW x \in s
            PROVE  Good(s \ {x}) /\ Sum(f, s) = f[x] + Sum(f, s \ {x}) /\ f[x] \in Nat
        <4>1. Cardinality(s \ {x}) <= n /\ s \ {x} \in SUBSET S
          BY SizeOf
        <4> QED BY <1>3, <3>1, <4>1, SumRemove
      <3>3. Sum(f, s) \in Nat
        <4>1. PICK x \in s : TRUE
          BY <2>2
        <4>2. Sum(f, s) = f[x] + Sum(f, s \ {x}) /\ f[x] \in Nat /\ Sum(f, s \ {x}) \in Nat
          BY <3>2
        <4> QED BY <4>2
      <3>4. ASSUME NEW t \in SUBSET s, t # s PROVE Sum(f, t) <= Sum(f, s)
        <4>1. PICK x \in s : t \in SUBSET (s \ {x})
          BY <3>4
        <4>2. Sum(f, t) <= Sum(f, s \ {x}) /\ Sum(f, s \ {x}) \in Nat
          BY <3>2, <4>1
        <4>3. Sum(f, t) \in Int
          <5>1. IsFiniteSet(t) /\ \A z \in t : f[z] \in Int
            BY <3>1, FS_Subset
          <5> QED BY <5>1, SumRemove
        <4>4. Sum(f, s) = f[x] + Sum(f, s \ {x}) /\ f[x] \in Nat
          BY <3>2
        <4> QED BY <4>2, <4>3, <4>4
      <3> QED BY <3>3, <3>4
    <2> QED BY <2>1, <2>2
  <1>4. \A n \in Nat : n \in P
    BY <1>2, <1>3, Induct
  <1>5. Cardinality(S) \in Nat /\ Cardinality(T) \in Nat
    BY FS_CardinalityType, FS_Subset
  <1> QED BY <1>4, <1>5

-----------------------------------------------------------------------------

\* Sets whose elements correspond one to one are of a size.
LEMMA SameCount ==
  ASSUME NEW S, IsFiniteSet(S), NEW T, NEW f \in [S -> T],
         \A x, y \in S : f[x] = f[y] => x = y, \A y \in T : \E x \in S : f[x] = y
  PROVE  IsFiniteSet(T) /\ Cardinality(T) = Cardinality(S)
  <1>1. f \in Bijection(S, T)
    BY DEF Bijection, Injection, Surjection, IsInjective
  <1>2. ExistsBijection(S, T)
    BY <1>1 DEF ExistsBijection
  <1> QED BY <1>2, FS_Bijection

\* f splits B into parts of the sizes c.
Parted(B, I, f, c) == /\ \A b \in B : f[b] \in I
                      /\ \A i \in I : c[i] = Cardinality({b \in B : f[b] = i})

\* The size of a set is the sum of those of its parts.
LEMMA CountParts ==
  ASSUME NEW B, IsFiniteSet(B), NEW I, IsFiniteSet(I), NEW f, NEW c, Parted(B, I, f, c)
  PROVE  Cardinality(B) = Sum(c, I)
  <1> DEFINE In(J) == {b \in B : f[b] \in J}
             P == {n \in Nat : \A J \in SUBSET I :
                     Cardinality(J) <= n => Cardinality(In(J)) = Sum(c, J)}
  <1>a. /\ \A b \in B : f[b] \in I
        /\ \A i \in I : c[i] = Cardinality({b \in B : f[b] = i})
    BY DEF Parted
  <1>0. \A J : IsFiniteSet(In(J)) /\ Cardinality(In(J)) \in Nat
    BY FS_Subset, FS_CardinalityType
  <1>i. \A i \in I : c[i] \in Int
    <2> TAKE i \in I
    <2> DEFINE A == {b \in B : f[b] = i}
    <2>1. IsFiniteSet(A) /\ c[i] = Cardinality(A)
      BY <1>a, FS_Subset
    <2> HIDE DEF A
    <2> QED BY <2>1, FS_CardinalityType
  <1>1. 0 \in P
    <2> SUFFICES ASSUME NEW J \in SUBSET I, Cardinality(J) <= 0
                 PROVE  Cardinality(In(J)) = Sum(c, J)
      OBVIOUS
    <2>1. J = {} /\ In(J) = {}
      BY SizeOf
    <2> QED BY <2>1, SumEmpty, FS_EmptySet
  <1>2. ASSUME NEW n \in Nat, n \in P PROVE n + 1 \in P
    <2> SUFFICES ASSUME NEW J \in SUBSET I, Cardinality(J) <= n + 1
                 PROVE  Cardinality(In(J)) = Sum(c, J)
      OBVIOUS
    <2>1. CASE J = {}
      <3>1. In(J) = {}
        BY <2>1
      <3> QED BY <2>1, <3>1, SumEmpty, FS_EmptySet
    <2>2. CASE J # {}
      <3>1. PICK i \in J : TRUE
        BY <2>2
      <3> DEFINE K == J \ {i}
                 A == {b \in B : f[b] = i}
      <3>2. K \in SUBSET I /\ Cardinality(K) <= n
        <4>1. Cardinality(K) = Cardinality(J) - 1 /\ Cardinality(J) \in Nat
          BY SizeOf
        <4> QED BY <4>1
      <3>3. Cardinality(In(K)) = Sum(c, K)
        BY <1>2, <3>2
      <3>4. In(J) = In(K) \cup A /\ In(K) \cap A = {} /\ IsFiniteSet(A)
        BY <3>1, FS_Subset
      <3>5. Cardinality(In(J)) = Cardinality(In(K)) + Cardinality(A)
        <4> HIDE DEF In, A, K
        <4>1. IsFiniteSet(In(K)) /\ Cardinality(In(K)) \in Nat /\ Cardinality(A) \in Nat
          BY <1>0, <3>4, FS_CardinalityType
        <4>2. Cardinality(In(K) \cap A) = 0
          BY <3>4, FS_EmptySet
        <4>3. Cardinality(In(K) \cup A)
                = Cardinality(In(K)) + Cardinality(A) - Cardinality(In(K) \cap A)
          BY <3>4, <4>1, FS_Union
        <4> QED BY <3>4, <4>1, <4>2, <4>3
      <3>6. Sum(c, J) = c[i] + Sum(c, K) /\ Sum(c, K) \in Int
        <4>1. IsFiniteSet(J) /\ IsFiniteSet(K) /\ \A x \in J : c[x] \in Int
          BY <1>i, FS_Subset
        <4>2. \A x \in J : Sum(c, J) = c[x] + Sum(c, J \ {x})
          BY <4>1, SumRemove
        <4>3. Sum(c, K) \in Int
          BY <4>1, SumRemove
        <4> QED BY <3>1, <4>2, <4>3
      <3>7. c[i] = Cardinality(A) /\ c[i] \in Int
        BY <1>a, <1>i, <3>1
      <3> QED BY <3>3, <3>5, <3>6, <3>7
    <2> QED BY <2>1, <2>2
  <1> HIDE DEF P
  <1>3. Nat \subseteq P
    BY <1>1, <1>2, Induct
  <1>4. Cardinality(I) \in P
    BY <1>3, FS_CardinalityType
  <1>5. In(I) = B /\ I \in SUBSET I /\ Cardinality(I) \in Nat
    BY <1>a, FS_CardinalityType
  <1> QED BY <1>4, <1>5 DEF P

\* One term changes.
LEMMA SumBump ==
  ASSUME NEW S, IsFiniteSet(S), NEW f, NEW g, NEW x, NEW k \in Int,
         \A y \in S : f[y] \in Int /\ g[y] = IF y = x THEN f[y] + k ELSE f[y]
  PROVE  Sum(g, S) = IF x \in S THEN Sum(f, S) + k ELSE Sum(f, S)
  <1>1. CASE x \notin S
    <2>1. \A y \in S : g[y] = f[y]
      BY <1>1
    <2> QED BY <1>1, <2>1, SumSame
  <1>2. CASE x \in S
    <2>1. IsFiniteSet(S \ {x}) /\ \A y \in S \ {x} : g[y] = f[y]
      BY <1>2, FS_Subset
    <2>2. Sum(g, S \ {x}) = Sum(f, S \ {x})
      BY <2>1, SumSame
    <2>3. \A y \in S : g[y] \in Int
      OBVIOUS
    <2>4. /\ Sum(f, S) = f[x] + Sum(f, S \ {x}) /\ Sum(g, S) = g[x] + Sum(g, S \ {x})
          /\ Sum(f, S) \in Int
      BY <1>2, <2>3, SumRemove
    <2>5. Sum(f, S \ {x}) \in Int
      BY <2>1, SumRemove
    <2> QED BY <1>2, <2>2, <2>4, <2>5
  <1> QED BY <1>1, <1>2


\* One term grows by one.
LEMMA SumGrow ==
  ASSUME NEW S, IsFiniteSet(S), NEW f, NEW g, NEW x \in S,
         \A y \in S : f[y] \in Int /\ g[y] = IF y = x THEN f[y] + 1 ELSE f[y]
  PROVE  Sum(g, S) = Sum(f, S) + 1
  <1>1. 1 \in Int
    OBVIOUS
  <1> QED BY <1>1, SumBump

\* Nothing, however often, is nothing.
LEMMA SumZero ==
  ASSUME NEW S, IsFiniteSet(S), NEW f, \A x \in S : f[x] = 0
  PROVE  Sum(f, S) = 0
  <1>1. IsFiniteSet({}) /\ Cardinality({}) = 0
    BY FS_EmptySet
  <1>2. \A i \in S : {b \in {} : f[b] = i} = {}
    OBVIOUS
  <1>3. Parted({}, S, f, f)
    BY <1>1, <1>2 DEF Parted
  <1>4. Cardinality({}) = Sum(f, S)
    BY <1>1, <1>3, CountParts
  <1> QED BY <1>1, <1>4

-----------------------------------------------------------------------------
\* A number is so many times the divisor, and a rest below it.
LEMMA DivMod ==
  ASSUME NEW n \in Nat, NEW a \in Nat \ {0}
  PROVE  /\ n \div a \in Nat /\ n % a \in Nat /\ n % a < a
         /\ n = (n \div a) * a + (n % a)
  <1> DEFINE d == n \div a
             m == n % a
  <1>1. d \in Int /\ m \in 0 .. a - 1 /\ n = a * d + m /\ a * d = d * a
    OBVIOUS
  <1>2. d \in Nat
    OBVIOUS
  <1> HIDE DEF d, m
  <1>3. n = d * a + m /\ m \in Nat /\ m < a
    BY <1>1
  <1> QED BY <1>1, <1>2, <1>3 DEF d, m

\* A product grows with its factor.
LEMMA TimesMore ==
  ASSUME NEW m \in Int, NEW n \in Int, NEW k \in Nat, m <= n
  PROVE  m * k <= n * k /\ m * k \in Int /\ n * k \in Int
  <1>1. (n - m) * k = n * k - m * k /\ n - m \in Nat
    OBVIOUS
  <1>2. (n - m) * k \in Nat /\ m * k \in Int /\ n * k \in Int
    BY <1>1
  <1> QED BY <1>1, <1>2

\* A quotient is what fits.
LEMMA DivFits ==
  ASSUME NEW n \in Nat, NEW a \in Nat \ {0}, NEW k \in Nat
  PROVE  k <= n \div a <=> k * a <= n
  <1> DEFINE d == n \div a
             m == n % a
  <1>1. d \in Nat /\ m \in Nat /\ m < a /\ n = d * a + m
    BY DivMod
  <1> HIDE DEF d, m
  <1>2. ASSUME k <= d PROVE k * a <= n
    <2>1. k * a <= d * a /\ k * a \in Int /\ d * a \in Int
      BY <1>1, <1>2, TimesMore
    <2> QED BY <1>1, <2>1
  <1>3. ASSUME ~(k <= d) PROVE ~(k * a <= n)
    <2>1. (d + 1) * a <= k * a /\ k * a \in Int
      BY <1>1, <1>3, TimesMore
    <2>2. (d + 1) * a = d * a + a /\ d * a \in Int
      BY <1>1
    <2> QED BY <1>1, <2>1, <2>2
  <1> QED BY <1>2, <1>3 DEF d

\* A quotient grows with what is divided, and falls with what divides.
LEMMA DivOrder ==
  ASSUME NEW m \in Nat, NEW n \in Nat, NEW a \in Nat \ {0}, NEW b \in Nat \ {0},
         m <= n, a <= b
  PROVE  m \div b <= n \div a
  <1> DEFINE q == m \div b
  <1>1. q \in Nat /\ q * b <= m
    BY DivMod, DivFits
  <1> HIDE DEF q
  <1>2. a * q <= b * q /\ a * q = q * a /\ b * q = q * b /\ q * a \in Int /\ q * b \in Int
    BY <1>1, TimesMore
  <1>3. q * a <= n
    BY <1>1, <1>2
  <1> QED BY <1>1, <1>3, DivFits DEF q

\* A mean is not above what the numbers are not above.
LEMMA DivMean ==
  ASSUME NEW s \in Nat, NEW c \in Nat \ {0}, NEW k \in Nat, s <= c * k
  PROVE  s \div c \in 0 .. k
  <1>1. s \div c \in Nat
    BY DivMod
  <1>2. ~(k + 1 <= s \div c)
    <2>1. (k + 1) * c = c * k + c /\ c * k \in Nat
      OBVIOUS
    <2> QED BY <2>1, DivFits
  <1> QED BY <1>1, <1>2

=============================================================================
