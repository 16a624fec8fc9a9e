--------------------------- MODULE FileSizesProofs ---------------------------
(***************************************************************************)
(* Proofs about the sizes FileStore adds up: what the sum of the sizes of  *)
(* a set of files is, and from it that the store never takes itself for    *)
(* emptier than it is, and which steps may pass a quota or the maximum.    *)
(*                                                                         *)
(* SizeSum folds over a set in an order CHOOSE picks.  The first part      *)
(* proves, for every finite set, that the fold is defined and that the     *)
(* order does not matter.                                                  *)
(***************************************************************************)
EXTENDS FileStoreProofs, FiniteSetTheorems, WellFoundedInduction

(***************************************************************************)
(* Induction over the subsets of a finite set                              *)
(***************************************************************************)

\* Every set of numbers has a least one.
LEMMA LeastNumber ==
  ASSUME NEW T, T \subseteq Nat, T # {}
  PROVE  \E m \in T : \A k \in T : m <= k
<1> DEFINE R == OpToRel(<, Nat)
<1>1. R = {ss \in Nat \X Nat : ss[1] < ss[2]}
  BY Zenon DEF OpToRel
<1>2. IsWellFoundedOn(R, Nat)
  BY NatLessThanWellFounded
<1> HIDE DEF R
<1>3. PICK m \in T : \A k \in T : <<k, m>> \notin R
  BY <1>2, WFMin
<1>4. ASSUME NEW k \in T
      PROVE  m <= k
  <2> DEFINE pair == <<k, m>>
  <2>1. pair \in Nat \X Nat /\ pair[1] = k /\ pair[2] = m /\ pair \notin R
    BY <1>3
  <2> HIDE DEF pair
  <2>2. ~(k < m)
    BY <1>1, <2>1
  <2> QED BY <2>2
<1> QED BY <1>4

\* What holds of the empty set, and of a set if it holds of all sets with one
\* element less, holds of every subset of a finite set.
LEMMA SubsetInduction ==
  ASSUME NEW S, IsFiniteSet(S), NEW P,
         {} \in P,
         \A T \in SUBSET S : (T # {} /\ \A x \in T : T \ {x} \in P) => T \in P
  PROVE  \A T \in SUBSET S : T \in P
<1> SUFFICES ASSUME NEW V \in SUBSET S, V \notin P
             PROVE  FALSE
  OBVIOUS
<1> DEFINE sizes == {n \in Nat : \E T \in SUBSET S : T \notin P /\ Cardinality(T) = n}
<1>1. \A T \in SUBSET S : IsFiniteSet(T) /\ Cardinality(T) \in Nat
  BY FS_Subset, FS_CardinalityType
<1>2. sizes \subseteq Nat /\ Cardinality(V) \in sizes
  BY <1>1
<1>3. PICK n \in sizes : \A k \in sizes : n <= k
  <2> HIDE DEF sizes
  <2> QED BY <1>2, LeastNumber
<1>4. PICK T \in SUBSET S : T \notin P /\ Cardinality(T) = n
  BY <1>3
<1>5. ASSUME NEW x \in T
      PROVE  T \ {x} \in P
  <2>1. Cardinality(T \ {x}) = n - 1 /\ Cardinality(T \ {x}) \in Nat /\ T \ {x} \in SUBSET S
    BY <1>1, <1>4, FS_RemoveElement
  <2>2. n - 1 \notin sizes
    BY <1>2, <1>3
  <2> QED BY <2>1, <2>2
<1> QED BY <1>4, <1>5

(***************************************************************************)
(* The fold                                                                *)
(***************************************************************************)
Size(rows, i) == SizeOf[rows[i].content]

AnyOf(T) == CHOOSE x \in T : TRUE

\* g has the sum of every subset of S.
AreSums(g, rows, S) ==
  g = [T \in SUBSET S |->
         IF T = {} THEN 0 ELSE Size(rows, AnyOf(T)) + g[T \ {AnyOf(T)}]]

Sums(rows, S) == CHOOSE g : AreSums(g, rows, S)

LEMMA SizeSumDef ==
  ASSUME NEW rows, NEW S
  PROVE  SizeSum(rows, S) = Sums(rows, S)[S]
  BY DEF SizeSum, Sums, AreSums, Size, AnyOf, MapThenSumSet, MapThenFoldSet

LEMMA AreSumsAt ==
  ASSUME NEW g, NEW rows, NEW S, AreSums(g, rows, S), NEW T \in SUBSET S
  PROVE  /\ T = {} => g[T] = 0
         /\ T # {} => /\ AnyOf(T) \in T /\ T \ {AnyOf(T)} \in SUBSET S
                      /\ g[T] = Size(rows, AnyOf(T)) + g[T \ {AnyOf(T)}]
<1>1. T # {} => AnyOf(T) \in T
  BY DEF AnyOf
<1>2. g[T] = IF T = {} THEN 0 ELSE Size(rows, AnyOf(T)) + g[T \ {AnyOf(T)}]
  <2> DEFINE Sum(U) == IF U = {} THEN 0 ELSE Size(rows, AnyOf(U)) + g[U \ {AnyOf(U)}]
  <2>1. g = [U \in SUBSET S |-> Sum(U)]
    BY DEF AreSums
  <2> HIDE DEF Sum
  <2>2. g[T] = Sum(T)
    BY <2>1
  <2> QED BY <2>2 DEF Sum
<1> QED BY <1>1, <1>2

\* A subset has one sum, whatever set it is taken from.
LEMMA SumsAgree ==
  ASSUME NEW rows, NEW S, IsFiniteSet(S), NEW S2, NEW g, NEW h,
         AreSums(g, rows, S), AreSums(h, rows, S2), S \subseteq S2
  PROVE  \A T \in SUBSET S : g[T] = h[T]
<1> DEFINE P == {T \in SUBSET S : g[T] = h[T]}
<1>1. {} \in P
  BY AreSumsAt
<1>2. ASSUME NEW T \in SUBSET S, T # {}, \A x \in T : T \ {x} \in P
      PROVE  T \in P
  <2> DEFINE x == AnyOf(T)
  <2>1. /\ x \in T /\ T \in SUBSET S2
        /\ g[T] = Size(rows, x) + g[T \ {x}] /\ h[T] = Size(rows, x) + h[T \ {x}]
    BY <1>2, AreSumsAt
  <2>2. g[T \ {x}] = h[T \ {x}]
    BY <1>2, <2>1
  <2> HIDE DEF x
  <2> QED BY <2>1, <2>2
<1> HIDE DEF P
<1>3. \A T \in SUBSET S : T \in P
  BY <1>1, <1>2, SubsetInduction
<1> QED BY <1>3 DEF P

\* There are sums of a finite set.
LEMMA SumsExist ==
  ASSUME NEW rows, NEW S, IsFiniteSet(S)
  PROVE  AreSums(Sums(rows, S), rows, S)
<1> DEFINE P == {T \in SUBSET S : AreSums(Sums(rows, T), rows, T)}
<1>1. {} \in P
  <2> DEFINE g == [T \in SUBSET {} |-> 0]
  <2>1. AreSums(g, rows, {})
    BY DEF AreSums
  <2> HIDE DEF g
  <2> QED BY <2>1 DEF Sums
<1>2. ASSUME NEW T \in SUBSET S, T # {}, \A x \in T : T \ {x} \in P
      PROVE  T \in P
  <2> DEFINE Part(U) == Sums(rows, T \ {AnyOf(T \ U)})
             a == AnyOf(T)
             g == [U \in SUBSET T |-> IF U = T THEN Size(rows, a) + Part(T \ {a})[T \ {a}]
                                               ELSE Part(U)[U]]
  <2>1. ASSUME NEW U \in SUBSET T, U # T
        PROVE  /\ AreSums(Part(U), rows, T \ {AnyOf(T \ U)}) /\ U \in SUBSET (T \ {AnyOf(T \ U)})
    <3>1. AnyOf(T \ U) \in T \ U
      BY <2>1 DEF AnyOf
    <3> QED BY <1>2, <3>1
  <2>2. ASSUME NEW U \in SUBSET T, NEW V \in SUBSET U, U # T
        PROVE  Part(U)[V] = Part(V)[V]
    <3> DEFINE A == T \ {AnyOf(T \ U)}
               B == T \ {AnyOf(T \ V)}
               C == A \cap B
               g1 == Part(U)
               g2 == Part(V)
               gc == [W \in SUBSET C |-> g1[W]]
    <3>1. /\ AreSums(g1, rows, A) /\ AreSums(g2, rows, B)
          /\ V \in SUBSET A /\ V \in SUBSET B
      BY <2>1, <2>2
    <3>2. IsFiniteSet(A) /\ IsFiniteSet(C)
      BY FS_Subset
    <3> HIDE DEF A, B, g1, g2
    <3>3. AreSums(gc, rows, C)
      <4>1. ASSUME NEW W \in SUBSET C
            PROVE  gc[W] = IF W = {} THEN 0 ELSE Size(rows, AnyOf(W)) + gc[W \ {AnyOf(W)}]
        <5>1. W \in SUBSET A /\ W \ {AnyOf(W)} \in SUBSET C
          OBVIOUS
        <5>2. gc[W] = g1[W] /\ gc[W \ {AnyOf(W)}] = g1[W \ {AnyOf(W)}]
          BY <5>1
        <5>3. g1[W] = IF W = {} THEN 0 ELSE Size(rows, AnyOf(W)) + g1[W \ {AnyOf(W)}]
          BY <3>1, <5>1, AreSumsAt
        <5> HIDE DEF gc
        <5> QED BY <5>2, <5>3
      <4> DEFINE Sum(W) == IF W = {} THEN 0 ELSE Size(rows, AnyOf(W)) + gc[W \ {AnyOf(W)}]
      <4>2. gc = [W \in SUBSET C |-> gc[W]] /\ \A W \in SUBSET C : gc[W] = Sum(W)
        BY <4>1
      <4> HIDE DEF Sum, gc
      <4>3. gc = [W \in SUBSET C |-> Sum(W)]
        BY <4>2
      <4> QED BY <4>3 DEF AreSums, Sum
    <3>4. V \in SUBSET C /\ C \subseteq B
      BY <3>1
    <3>5. gc[V] = g2[V] /\ gc[V] = g1[V]
      <4> HIDE DEF gc, C
      <4>1. gc[V] = g2[V]
        BY <3>1, <3>2, <3>3, <3>4, SumsAgree
      <4> QED BY <3>4, <4>1 DEF gc
    <3> QED BY <3>5 DEF g1, g2
  <2>3. a \in T /\ T \ {a} # T /\ T \ {a} \in SUBSET T
    BY <1>2 DEF AnyOf
  <2>4. ASSUME NEW U \in SUBSET T
        PROVE  g[U] = IF U = {} THEN 0 ELSE Size(rows, AnyOf(U)) + g[U \ {AnyOf(U)}]
    <3>1. CASE U = T
      BY <1>2, <2>3, <3>1
    <3>2. CASE U # T /\ U = {}
      <4> DEFINE A == T \ {AnyOf(T \ U)}
                 h == Part(U)
      <4>1. h[U] = 0
        <5>1. AreSums(h, rows, A) /\ U \in SUBSET A
          BY <2>1, <3>2
        <5> HIDE DEF h, A
        <5> QED BY <3>2, <5>1, AreSumsAt
      <4>2. g[U] = Part(U)[U]
        BY <3>2
      <4> QED BY <3>2, <4>1, <4>2
    <3>3. CASE U # T /\ U # {}
      <4> DEFINE V == U \ {AnyOf(U)}
      <4>1. g[U] = Part(U)[U] /\ Part(U)[U] = Size(rows, AnyOf(U)) + Part(U)[V]
        BY <2>1, <3>3, AreSumsAt
      <4>2. V \in SUBSET U /\ V # T /\ V \in SUBSET T
        BY <3>3
      <4>3. g[V] = Part(V)[V] /\ Part(U)[V] = Part(V)[V]
        BY <2>2, <3>3, <4>2
      <4> QED BY <3>3, <4>1, <4>3
    <3> QED BY <3>1, <3>2, <3>3
  <2>5. AreSums(g, rows, T)
    BY <2>4 DEF AreSums
  <2> HIDE DEF g
  <2> QED BY <2>5 DEF Sums
<1> HIDE DEF P
<1>3. \A T \in SUBSET S : T \in P
  BY <1>1, <1>2, SubsetInduction
<1> QED BY <1>3 DEF P

\* The sum of nothing is 0; that of a set is the size of one of its files and
\* the sum of the others.
LEMMA SumOfAny ==
  ASSUME NEW rows, NEW S, IsFiniteSet(S)
  PROVE  /\ S = {} => SizeSum(rows, S) = 0
         /\ S # {} => /\ AnyOf(S) \in S
                      /\ SizeSum(rows, S) = Size(rows, AnyOf(S)) + SizeSum(rows, S \ {AnyOf(S)})
<1> DEFINE g == Sums(rows, S)
           rest == S \ {AnyOf(S)}
           h == Sums(rows, rest)
<1>1. AreSums(g, rows, S) /\ S \in SUBSET S /\ SizeSum(rows, S) = g[S]
  BY SumsExist, SizeSumDef
<1>2. AreSums(h, rows, rest) /\ SizeSum(rows, rest) = h[rest] /\ rest \subseteq S
      /\ IsFiniteSet(rest)
  BY SumsExist, SizeSumDef, FS_RemoveElement
<1> HIDE DEF g, h
<1>3. h[rest] = g[rest]
  <2> HIDE DEF rest
  <2>1. rest \in SUBSET rest
    OBVIOUS
  <2> QED BY <1>1, <1>2, <2>1, SumsAgree
<1>4. CASE S = {}
  BY <1>1, <1>4, AreSumsAt
<1>5. CASE S # {}
  <2>1. AnyOf(S) \in S /\ g[S] = Size(rows, AnyOf(S)) + g[rest]
    BY <1>1, <1>5, AreSumsAt
  <2> QED BY <1>1, <1>2, <1>3, <1>5, <2>1
<1> QED BY <1>4, <1>5

\* The order does not matter: the sum of a set is the size of any one of its
\* files and the sum of the others.
LEMMA SumOfOne ==
  ASSUME NEW rows, NEW S, IsFiniteSet(S), \A i \in S : Size(rows, i) \in Nat
  PROVE  /\ SizeSum(rows, S) \in Nat
         /\ \A i \in S : SizeSum(rows, S) = Size(rows, i) + SizeSum(rows, S \ {i})
<1> DEFINE sum(T) == SizeSum(rows, T)
           size(i) == Size(rows, i)
           P == {T \in SUBSET S : /\ \A U \in SUBSET T : sum(U) \in Nat
                                  /\ \A i \in T : sum(T) = size(i) + sum(T \ {i})}
<1>1. \A T \in SUBSET S : IsFiniteSet(T)
  BY FS_Subset
<1>2. {} \in P
  <2>1. sum({}) = 0
    BY <1>1, SumOfAny
  <2> HIDE DEF sum
  <2> QED BY <2>1
<1>3. ASSUME NEW T \in SUBSET S, T # {}, \A x \in T : T \ {x} \in P
      PROVE  T \in P
  <2> DEFINE a == AnyOf(T)
  <2>1. a \in T /\ sum(T) = size(a) + sum(T \ {a})
    BY <1>1, <1>3, SumOfAny
  <2>2. \A i \in T : /\ size(i) \in Nat /\ \A U \in SUBSET (T \ {i}) : sum(U) \in Nat
                     /\ \A j \in T \ {i} : sum(T \ {i}) = size(j) + sum((T \ {i}) \ {j})
    BY <1>3
  <2> HIDE DEF a, sum, size
  <2>3. ASSUME NEW i \in T, i # a
        PROVE  sum(T) = size(i) + sum(T \ {i})
    <3> DEFINE rest == (T \ {a}) \ {i}
    <3>1. rest = (T \ {i}) \ {a} /\ i \in T \ {a} /\ a \in T \ {i}
      BY <2>1, <2>3
    <3>2. sum(T \ {a}) = size(i) + sum(rest) /\ sum(T \ {i}) = size(a) + sum(rest)
      BY <2>1, <2>2, <3>1
    <3>3. /\ size(a) \in Nat /\ size(i) \in Nat /\ sum(T \ {a}) \in Nat /\ sum(T \ {i}) \in Nat
          /\ sum(rest) \in Nat
      <4>1. rest \in SUBSET (T \ {a})
        OBVIOUS
      <4> QED BY <2>1, <2>2, <4>1
    <3> QED BY <2>1, <3>2, <3>3
  <2>4. sum(T) \in Nat
    <3>1. T \ {a} \in SUBSET (T \ {a})
      OBVIOUS
    <3> QED BY <2>1, <2>2, <3>1
  <2>5. ASSUME NEW U \in SUBSET T
        PROVE  sum(U) \in Nat
    <3>1. CASE U = T
      BY <2>4, <3>1
    <3>2. CASE U # T
      <4>1. PICK i \in T : U \in SUBSET (T \ {i})
        BY <3>2
      <4> QED BY <2>2, <4>1
    <3> QED BY <3>1, <3>2
  <2> QED BY <2>1, <2>3, <2>5
<1> HIDE DEF P
<1>4. \A T \in SUBSET S : T \in P
  BY <1>2, <1>3, SubsetInduction
<1> QED BY <1>4 DEF P

\* The sum depends on the files of the set only.
LEMMA SumOfSame ==
  ASSUME NEW rows, NEW rows2, NEW S, IsFiniteSet(S),
         \A i \in S : Size(rows, i) = Size(rows2, i)
  PROVE  SizeSum(rows, S) = SizeSum(rows2, S)
<1> DEFINE P == {T \in SUBSET S : SizeSum(rows, T) = SizeSum(rows2, T)}
<1>1. \A T \in SUBSET S : IsFiniteSet(T)
  BY FS_Subset
<1>2. {} \in P
  BY <1>1, SumOfAny
<1>3. ASSUME NEW T \in SUBSET S, T # {}, \A x \in T : T \ {x} \in P
      PROVE  T \in P
  <2> DEFINE a == AnyOf(T)
  <2>1. /\ a \in T /\ SizeSum(rows, T) = Size(rows, a) + SizeSum(rows, T \ {a})
        /\ SizeSum(rows2, T) = Size(rows2, a) + SizeSum(rows2, T \ {a})
    BY <1>1, <1>3, SumOfAny
  <2> HIDE DEF a
  <2> QED BY <1>3, <2>1
<1> HIDE DEF P
<1>4. \A T \in SUBSET S : T \in P
  BY <1>2, <1>3, SubsetInduction
<1> QED BY <1>4 DEF P

\* A step that changes one row changes a sum by the sizes of that row.
LEMMA SumOfChange ==
  ASSUME NEW rows \in [Ids -> Info \cup {NoFile}], NEW rows2 \in [Ids -> Info \cup {NoFile}],
         NEW i \in Ids, \A j \in Ids \ {i} : rows2[j] = rows[j],
         NEW S \in SUBSET Stored(rows), NEW S2 \in SUBSET Stored(rows2), S \ {i} = S2 \ {i}
  PROVE  \E rest \in Nat :
           /\ SizeSum(rows, S) = IF i \in S THEN Size(rows, i) + rest ELSE rest
           /\ SizeSum(rows2, S2) = IF i \in S2 THEN Size(rows2, i) + rest ELSE rest
<1> DEFINE rest == SizeSum(rows, S \ {i})
<1>1. IsFiniteSet(S) /\ IsFiniteSet(S2) /\ IsFiniteSet(S \ {i})
  <2>1. S \in SUBSET Ids /\ S2 \in SUBSET Ids /\ S \ {i} \in SUBSET Ids
    BY DEF Stored
  <2> QED BY <2>1, FS_Subset, FileStoreAssumption
<1>2. /\ \A j \in S : Size(rows, j) \in Nat
      /\ \A j \in S2 : Size(rows2, j) \in Nat
  BY FileStoreAssumption DEF Size, Stored, Info
<1>3. rest \in Nat
  BY <1>1, <1>2, SumOfOne
<1>4. SizeSum(rows2, S2 \ {i}) = rest
  <2>1. \A j \in S \ {i} : Size(rows, j) = Size(rows2, j)
    BY DEF Size, Stored
  <2> QED BY <1>1, <2>1, SumOfSame
<1>5. SizeSum(rows, S) = IF i \in S THEN Size(rows, i) + rest ELSE rest
  <2>1. CASE i \in S
    <3>1. \A j \in S : SizeSum(rows, S) = Size(rows, j) + SizeSum(rows, S \ {j})
      BY <1>1, <1>2, SumOfOne
    <3> QED BY <2>1, <3>1
  <2>2. CASE i \notin S
    <3>1. S \ {i} = S
      BY <2>2
    <3> QED BY <2>2, <3>1
  <2> QED BY <2>1, <2>2
<1>6. SizeSum(rows2, S2) = IF i \in S2 THEN Size(rows2, i) + rest ELSE rest
  <2>1. CASE i \in S2
    <3>1. \A j \in S2 : SizeSum(rows2, S2) = Size(rows2, j) + SizeSum(rows2, S2 \ {j})
      BY <1>1, <1>2, SumOfOne
    <3> QED BY <1>4, <2>1, <3>1
  <2>2. CASE i \notin S2
    <3>1. S2 \ {i} = S2
      BY <2>2
    <3> QED BY <1>4, <2>2, <3>1
  <2> QED BY <2>1, <2>2
<1> HIDE DEF rest
<1> QED BY <1>3, <1>5, <1>6

(***************************************************************************)
(* What a step does to the sizes                                           *)
(***************************************************************************)

\* What file i adds to the size of the store, and to that of user u's files.
Charge(rows, i) == IF rows[i] = NoFile THEN 0 ELSE Size(rows, i)

UserCharge(rows, i, u) ==
  IF rows[i] # NoFile /\ rows[i].owner = u THEN Size(rows, i) ELSE 0

UserSize(rows, u) == SizeSum(rows, Owned(rows, u))

LEMMA ChargesAreNumbers ==
  ASSUME NEW rows \in [Ids -> Info \cup {NoFile}], NEW i \in Ids, NEW u
  PROVE  Charge(rows, i) \in Nat /\ UserCharge(rows, i, u) \in Nat
  BY FileStoreAssumption DEF Charge, UserCharge, Size, Info

\* Where one row changes, the sizes change by what it adds.
LEMMA ChangeOfSizes ==
  ASSUME NEW rows \in [Ids -> Info \cup {NoFile}], NEW rows2 \in [Ids -> Info \cup {NoFile}],
         NEW i \in Ids, \A j \in Ids \ {i} : rows2[j] = rows[j], NEW u
  PROVE  /\ \E rest \in Nat : /\ findStoreSize(rows) = Charge(rows, i) + rest
                              /\ findStoreSize(rows2) = Charge(rows2, i) + rest
         /\ \E rest \in Nat : /\ UserSize(rows, u) = UserCharge(rows, i, u) + rest
                              /\ UserSize(rows2, u) = UserCharge(rows2, i, u) + rest
<1>1. /\ Stored(rows) \ {i} = Stored(rows2) \ {i}
      /\ i \in Stored(rows) <=> rows[i] # NoFile
      /\ i \in Stored(rows2) <=> rows2[i] # NoFile
  BY DEF Stored
<1>2. PICK rest \in Nat :
        /\ SizeSum(rows, Stored(rows)) = IF i \in Stored(rows) THEN Size(rows, i) + rest ELSE rest
        /\ SizeSum(rows2, Stored(rows2))
             = IF i \in Stored(rows2) THEN Size(rows2, i) + rest ELSE rest
  BY <1>1, SumOfChange
<1>3. /\ findStoreSize(rows) = Charge(rows, i) + rest
      /\ findStoreSize(rows2) = Charge(rows2, i) + rest
  BY <1>1, <1>2 DEF findStoreSize, Charge
<1>4. /\ Owned(rows, u) \in SUBSET Stored(rows) /\ Owned(rows2, u) \in SUBSET Stored(rows2)
      /\ Owned(rows, u) \ {i} = Owned(rows2, u) \ {i}
      /\ i \in Owned(rows, u) <=> rows[i] # NoFile /\ rows[i].owner = u
      /\ i \in Owned(rows2, u) <=> rows2[i] # NoFile /\ rows2[i].owner = u
  BY DEF Owned, Stored
<1>5. PICK rest2 \in Nat :
        /\ SizeSum(rows, Owned(rows, u))
             = IF i \in Owned(rows, u) THEN Size(rows, i) + rest2 ELSE rest2
        /\ SizeSum(rows2, Owned(rows2, u))
             = IF i \in Owned(rows2, u) THEN Size(rows2, i) + rest2 ELSE rest2
  BY <1>4, SumOfChange
<1>6. /\ UserSize(rows, u) = UserCharge(rows, i, u) + rest2
      /\ UserSize(rows2, u) = UserCharge(rows2, i, u) + rest2
  BY <1>4, <1>5 DEF UserSize, UserCharge
<1> QED BY <1>3, <1>6

LEMMA SizesAreNumbers ==
  ASSUME NEW rows \in [Ids -> Info \cup {NoFile}], NEW u
  PROVE  findStoreSize(rows) \in Nat /\ UserSize(rows, u) \in Nat
<1>1. IsFiniteSet(Stored(rows)) /\ IsFiniteSet(Owned(rows, u))
  <2>1. Stored(rows) \in SUBSET Ids /\ Owned(rows, u) \in SUBSET Ids
    BY DEF Stored, Owned
  <2> QED BY <2>1, FS_Subset, FileStoreAssumption
<1>2. \A i \in Stored(rows) : Size(rows, i) \in Nat
  BY FileStoreAssumption DEF Size, Stored, Info
<1>3. \A i \in Owned(rows, u) : Size(rows, i) \in Nat
  BY <1>2 DEF Owned
<1> QED BY <1>1, <1>2, <1>3, SumOfOne DEF findStoreSize, UserSize

TotalInv == totalSize \in Int /\ TotalNeverUndercounts

\* What a step that is no start does to the sizes: the total grows as the index
\* does, or more; and only updates and changes of owner pass a limit.
GrowsInLimits ==
  /\ totalSize' \in Int
  /\ totalSize' - totalSize >= findStoreSize(index') - findStoreSize(index)
  /\ (findStoreSize(index') > findStoreSize(index) /\ MaxStoreSize > 0) =>
       findStoreSize(index') <= MaxStoreSize \/ task'.op = "UpdateFile"
  /\ \A u \in Users :
       UserSize(index', u) > UserSize(index, u) =>
         \/ UserSize(index', u) <= Quota[u].storeSize
         \/ task'.op = "UpdateFile" /\ task'.user # u
         \/ task'.op = "UpdateFileAccessOwner"

LEMMA SizesUntouched ==
  ASSUME TypeOK, TotalInv, UNCHANGED <<index, totalSize>>
  PROVE  GrowsInLimits
  BY SizesAreNumbers DEF TypeOK, TotalInv, GrowsInLimits

\* A file that goes takes its size with it, and the total no more than that.
LEMMA SizesShrink ==
  ASSUME TypeOK, TotalInv, NEW i \in Ids, NEW gone \in BOOLEAN, index[i] # NoFile,
         Discard(i, gone)
  PROVE  GrowsInLimits
<1>1. /\ index \in [Ids -> Info \cup {NoFile}] /\ index' \in [Ids -> Info \cup {NoFile}]
      /\ \A j \in Ids \ {i} : index'[j] = index[j]
      /\ index'[i] = NoFile
  BY DEF Discard, TypeOK
<1>2. Charge(index, i) = Size(index, i) /\ Size(index, i) \in Nat
  BY <1>1, ChargesAreNumbers DEF Charge
<1>3. /\ findStoreSize(index) \in Nat /\ findStoreSize(index') \in Nat
      /\ findStoreSize(index) = findStoreSize(index') + Size(index, i)
  <2>1. Charge(index', i) = 0
    BY <1>1 DEF Charge
  <2> QED BY <1>1, <1>2, <2>1, ChangeOfSizes, SizesAreNumbers
<1>4. totalSize' \in {totalSize, totalSize - Size(index, i)}
  BY DEF Discard, Size
<1>5. ASSUME NEW u \in Users
      PROVE  UserSize(index', u) <= UserSize(index, u) /\ UserSize(index', u) \in Nat
                /\ UserSize(index, u) \in Nat
  <2>1. UserCharge(index', i, u) = 0 /\ UserCharge(index, i, u) \in Nat
    BY <1>1, ChargesAreNumbers DEF UserCharge
  <2>2. PICK rest \in Nat : /\ UserSize(index, u) = UserCharge(index, i, u) + rest
                            /\ UserSize(index', u) = UserCharge(index', i, u) + rest
    BY <1>1, ChangeOfSizes
  <2> QED BY <2>1, <2>2
<1>6. \A u \in Users : ~(UserSize(index', u) > UserSize(index, u))
  BY <1>5
<1>7. /\ totalSize' \in Int
      /\ totalSize' - totalSize >= findStoreSize(index') - findStoreSize(index)
      /\ ~(findStoreSize(index') > findStoreSize(index))
  BY <1>2, <1>3, <1>4 DEF TotalInv
<1> QED BY <1>6, <1>7 DEF GrowsInLimits

\* A file that is stored fits.
LEMMA SizesOfStore ==
  ASSUME TypeOK, TotalInv, NEW op, NEW u \in Users, NEW i \in Ids, NEW info \in Info,
         NEW valid, NEW olds, index[i] = NoFile, info.owner = u,
         Store(op, u, i, info, valid, olds)
  PROVE  GrowsInLimits
<1>1. CASE UNCHANGED <<index, totalSize>>
  BY <1>1, SizesUntouched
<1>2. CASE /\ StoreResult(u, info, valid) = "None" /\ index' = [index EXCEPT ![i] = info]
           /\ totalSize' = totalSize + SizeOf[info.content]
           /\ Perform(op, u, i, info, "None", {i}, olds)
  <2> DEFINE size == SizeOf[info.content]
  <2>1. /\ index \in [Ids -> Info \cup {NoFile}] /\ index' \in [Ids -> Info \cup {NoFile}]
        /\ \A j \in Ids \ {i} : index'[j] = index[j]
        /\ index'[i] = info /\ info # NoFile /\ size \in Nat /\ totalSize \in Int
    BY <1>2, FileStoreAssumption DEF TypeOK, TotalInv, Info
  <2>2. /\ MaxStoreSize > 0 => size + totalSize <= MaxStoreSize
        /\ UserSize(index, u) + size <= Quota[u].storeSize
    <3>1. /\ ~(MaxStoreSize > 0 /\ size + totalSize > MaxStoreSize)
          /\ ~ExceedsQuota(u, size, size, 1)
      BY <1>2 DEF StoreResult
    <3>2. ~(UserSize(index, u) + size > Quota[u].storeSize)
      BY <3>1 DEF ExceedsQuota, quotaExceeded, findUserStoreSize, UserSize
    <3>3. Quota[u].storeSize \in Nat /\ UserSize(index, u) \in Nat /\ MaxStoreSize \in Int
      BY <2>1, SizesAreNumbers, FileStoreAssumption
    <3> HIDE DEF size
    <3> QED BY <2>1, <3>1, <3>2, <3>3
  <2>3. Charge(index, i) = 0 /\ Charge(index', i) = size
    BY <2>1 DEF Charge, Size
  <2> HIDE DEF size
  <2>4. /\ findStoreSize(index) \in Nat /\ findStoreSize(index') \in Nat
        /\ findStoreSize(index') = findStoreSize(index) + size
    BY <2>1, <2>3, ChangeOfSizes, SizesAreNumbers
  <2>5. totalSize' = totalSize + size /\ totalSize >= findStoreSize(index)
    BY <1>2 DEF TotalInv, TotalNeverUndercounts, size
  <2>6. ASSUME NEW v \in Users, UserSize(index', v) > UserSize(index, v)
        PROVE  UserSize(index', v) <= Quota[v].storeSize
    <3>1. UserCharge(index, i, v) = 0 /\ UserCharge(index', i, v) = IF u = v THEN size ELSE 0
      BY <2>1 DEF UserCharge, Size, size
    <3>2. PICK rest \in Nat : /\ UserSize(index, v) = UserCharge(index, i, v) + rest
                              /\ UserSize(index', v) = UserCharge(index', i, v) + rest
      BY <2>1, ChangeOfSizes
    <3> QED BY <2>1, <2>2, <2>6, <3>1, <3>2
  <2>7. MaxStoreSize > 0 => findStoreSize(index') <= MaxStoreSize
    BY <2>1, <2>2, <2>4, <2>5, FileStoreAssumption
  <2>8. totalSize' \in Int /\ totalSize' - totalSize >= findStoreSize(index') - findStoreSize(index)
    BY <2>1, <2>4, <2>5
  <2> QED BY <2>6, <2>7, <2>8 DEF GrowsInLimits
<1> QED BY <1>1, <1>2 DEF Store, Answer

\* An update of a user's own file fits too; the total follows any update.
LEMMA SizesOfUpdate ==
  ASSUME TypeOK, TotalInv, NEW u \in Users, NEW i \in Ids, NEW p \in Paths, NEW c \in Contents,
         NEW valid, UpdateFile(u, i, p, c, valid)
  PROVE  GrowsInLimits
<1> DEFINE info == [index[i] EXCEPT !.path = p, !.content = c]
<1>1. CASE UNCHANGED <<index, totalSize>>
  BY <1>1, SizesUntouched
<1>2. CASE /\ UpdateResult(u, i, c, valid) = "None" /\ index' = [index EXCEPT ![i] = info]
           /\ totalSize' = TotalAfterUpdate(i, c)
           /\ Perform("UpdateFile", u, i, info, "None", {i}, {})
  <2> DEFINE old == SizeOf[index[i].content]
             new == SizeOf[c]
  <2>1. index[i] \in Info
    BY <1>2 DEF UpdateResult, TypeOK
  <2>2. info \in Info /\ info.content = c /\ info.owner = index[i].owner /\ info # NoFile
    BY <2>1, FileStoreAssumption DEF Info
  <2>3. task'.op = "UpdateFile" /\ task'.user = u
    BY <1>2 DEF Perform
  <2> HIDE DEF info
  <2>4. /\ index \in [Ids -> Info \cup {NoFile}] /\ index' \in [Ids -> Info \cup {NoFile}]
        /\ \A j \in Ids \ {i} : index'[j] = index[j]
        /\ index'[i] = info
    BY <1>2, <2>2 DEF TypeOK
  <2>5. old \in Nat /\ new \in Nat /\ index[i] # NoFile /\ totalSize \in Int
    BY <2>1, FileStoreAssumption DEF Info, TotalInv
  <2>6. UserSize(index, u) + (new - old) <= Quota[u].storeSize
    <3>1. ~ExceedsQuota(u, new - old, new - old, 0)
      BY <1>2 DEF UpdateResult
    <3>2. ~(UserSize(index, u) + (new - old) > Quota[u].storeSize)
      BY <3>1 DEF ExceedsQuota, quotaExceeded, findUserStoreSize, UserSize
    <3>3. Quota[u].storeSize \in Nat /\ UserSize(index, u) \in Nat
      BY <2>4, SizesAreNumbers, FileStoreAssumption
    <3> HIDE DEF old, new
    <3> QED BY <2>5, <3>2, <3>3
  <2>7. Charge(index, i) = old /\ Charge(index', i) = new
    BY <2>2, <2>4, <2>5 DEF Charge, Size
  <2>8. totalSize' = totalSize + new - old
    BY <1>2 DEF TotalAfterUpdate
  <2>9. \A v : /\ UserCharge(index, i, v) = IF index[i].owner = v THEN old ELSE 0
               /\ UserCharge(index', i, v) = IF index[i].owner = v THEN new ELSE 0
    BY <2>2, <2>4, <2>5 DEF UserCharge, Size
  <2> HIDE DEF old, new
  <2>10. /\ totalSize' \in Int
         /\ totalSize' - totalSize >= findStoreSize(index') - findStoreSize(index)
    <3>1. PICK rest \in Nat : /\ findStoreSize(index) = Charge(index, i) + rest
                              /\ findStoreSize(index') = Charge(index', i) + rest
      BY <2>4, ChangeOfSizes
    <3> QED BY <2>5, <2>7, <2>8, <3>1
  <2>11. ASSUME NEW v \in Users, UserSize(index', v) > UserSize(index, v)
         PROVE  UserSize(index', v) <= Quota[v].storeSize \/ u # v
    <3>1. PICK rest \in Nat : /\ UserSize(index, v) = UserCharge(index, i, v) + rest
                              /\ UserSize(index', v) = UserCharge(index', i, v) + rest
      BY <2>4, ChangeOfSizes
    <3>2. v = index[i].owner
      BY <2>9, <2>11, <3>1
    <3>3. UserSize(index', v) = UserSize(index, v) + (new - old)
      BY <2>5, <2>9, <3>1, <3>2
    <3> QED BY <2>6, <3>3
  <2> QED BY <2>3, <2>10, <2>11 DEF GrowsInLimits
<1> QED BY <1>1, <1>2 DEF UpdateFile, Answer

\* What only changes a row's owner, mode or label leaves the size of the store,
\* and but for a change of owner those of the users' files.
LEMMA SizesOfRelabel ==
  ASSUME TypeOK, TotalInv, NEW op, NEW u \in Users, NEW i \in Ids, NEW result, NEW info,
         result = "None" =>
           /\ index[i] # NoFile /\ info \in Info /\ info.content = index[i].content
           /\ info.owner = index[i].owner \/ op = "UpdateFileAccessOwner",
         Relabel(op, u, i, result, info)
  PROVE  GrowsInLimits
<1>1. CASE UNCHANGED <<index, totalSize>>
  BY <1>1, SizesUntouched
<1>2. CASE /\ result = "None" /\ index' = [index EXCEPT ![i] = info]
           /\ Perform(op, u, i, info, "None", {i}, {}) /\ UNCHANGED totalSize
  <2>1. task'.op = op
    BY <1>2 DEF Perform
  <2>2. /\ index \in [Ids -> Info \cup {NoFile}] /\ index' \in [Ids -> Info \cup {NoFile}]
        /\ \A j \in Ids \ {i} : index'[j] = index[j]
        /\ index'[i] = info /\ info # NoFile
    BY <1>2, FileStoreAssumption DEF TypeOK
  <2>3. Charge(index', i) = Charge(index, i)
    BY <1>2, <2>2 DEF Charge, Size
  <2>4. findStoreSize(index') = findStoreSize(index) /\ findStoreSize(index) \in Nat
    BY <2>2, <2>3, ChangeOfSizes, SizesAreNumbers
  <2>5. ASSUME NEW v \in Users, op # "UpdateFileAccessOwner"
        PROVE  UserSize(index', v) = UserSize(index, v) /\ UserSize(index, v) \in Nat
    <3>1. UserCharge(index', i, v) = UserCharge(index, i, v)
      BY <1>2, <2>2, <2>5 DEF UserCharge, Size
    <3> QED BY <2>2, <3>1, ChangeOfSizes, SizesAreNumbers
  <2>6. /\ totalSize' \in Int
        /\ totalSize' - totalSize >= findStoreSize(index') - findStoreSize(index)
        /\ ~(findStoreSize(index') > findStoreSize(index))
    BY <1>2, <2>4 DEF TotalInv
  <2>7. ASSUME NEW v \in Users, UserSize(index', v) > UserSize(index, v)
        PROVE  op = "UpdateFileAccessOwner"
    BY <2>5, <2>7
  <2> QED BY <2>1, <2>6, <2>7 DEF GrowsInLimits
<1> QED BY <1>1, <1>2 DEF Relabel, Answer

LEMMA SizesOfRequest ==
  ASSUME TypeOK, TotalInv, Request
  PROVE  GrowsInLimits
<1>1. ASSUME NEW u \in Users, NEW i \in Ids,
             ListFiles(u, i) \/ FileInfo(u, i) \/ RetrieveFile(u, i)
      PROVE  GrowsInLimits
  BY <1>1, SizesUntouched DEF ListFiles, FileInfo, RetrieveFile, Answer
<1>2. ASSUME NEW u \in Users, NEW i \in Ids, NEW p \in Paths, NEW c \in Contents,
             NEW valid \in BOOLEAN, StoreFile(u, i, p, c, valid) \/ ReplaceFile(u, i, p, c, valid)
      PROVE  GrowsInLimits
  <2> DEFINE info == NewInfo(u, p, c)
  <2>1. info \in Info /\ info.owner = u /\ index[i] = NoFile
    BY <1>2, NewInfoType DEF NewInfo, StoreFile, ReplaceFile, Fresh
  <2> HIDE DEF info
  <2>2. \E op, olds : Store(op, u, i, info, valid, olds)
    BY <1>2 DEF StoreFile, ReplaceFile, info
  <2> QED BY <2>1, <2>2, SizesOfStore
<1>3. ASSUME NEW u \in Users, NEW i \in Ids, NEW p \in Paths, NEW c \in Contents,
             NEW valid \in BOOLEAN, UpdateFile(u, i, p, c, valid)
      PROVE  GrowsInLimits
  BY <1>3, SizesOfUpdate
<1>4. ASSUME NEW i \in Ids, index[i] # NoFile
      PROVE  index[i] \in Info
  BY <1>4 DEF TypeOK
<1>5. ASSUME NEW u \in Users, NEW i \in Ids, NEW o \in Users, NEW g \in Groups,
             NEW valid \in BOOLEAN, UpdateFileAccessOwner(u, i, o, g, valid)
      PROVE  GrowsInLimits
  <2> DEFINE info == [index[i] EXCEPT !.owner = o, !.group = g]
  <2>1. index[i] # NoFile => info \in Info /\ info.content = index[i].content
    BY <1>4 DEF Info
  <2> HIDE DEF info
  <2> QED BY <1>5, <2>1, SizesOfRelabel DEF UpdateFileAccessOwner, info
<1>6. ASSUME NEW u \in Users, NEW i \in Ids, NEW m \in Modes, NEW valid \in BOOLEAN,
             UpdateFileAccessMode(u, i, m, valid)
      PROVE  GrowsInLimits
  <2> DEFINE info == [index[i] EXCEPT !.mode = m]
  <2>1. index[i] # NoFile =>
          info \in Info /\ info.content = index[i].content /\ info.owner = index[i].owner
    BY <1>4, FileStoreAssumption DEF Info
  <2> HIDE DEF info
  <2> QED BY <1>6, <2>1, SizesOfRelabel DEF UpdateFileAccessMode, info
<1>7. ASSUME NEW u \in Users, NEW i \in Ids, NEW l \in Labels, NEW valid \in BOOLEAN,
             UpdateFileVersion(u, i, l) \/ UpdateFileTags(u, i, l, valid)
      PROVE  GrowsInLimits
  <2> DEFINE info == [index[i] EXCEPT !.label = l]
  <2>1. index[i] # NoFile =>
          info \in Info /\ info.content = index[i].content /\ info.owner = index[i].owner
    BY <1>4 DEF Info
  <2> HIDE DEF info
  <2> QED BY <1>7, <2>1, SizesOfRelabel DEF UpdateFileVersion, UpdateFileTags, info
<1>8. ASSUME NEW u \in Users, NEW i \in Ids, NEW gone \in BOOLEAN, RemoveFile(u, i, gone)
      PROVE  GrowsInLimits
  <2>1. CASE UNCHANGED <<index, totalSize>>
    BY <2>1, SizesUntouched
  <2>2. CASE RemoveResult(u, i) = "None" /\ Discard(i, gone)
    BY <2>2, SizesShrink DEF RemoveResult
  <2> QED BY <1>8, <2>1, <2>2 DEF RemoveFile, Answer
<1>9. TRUE \in BOOLEAN
  OBVIOUS
<1> QED BY <1>1, <1>2, <1>3, <1>5, <1>6, <1>7, <1>8, <1>9 DEF Request

\* Every step keeps to the limits, unless it is a start: then the total is
\* taken again from the rows.
LEMMA SizesOfStep ==
  ASSUME IInv, ReplaceInv, TotalInv, [Next]_vars
  PROVE  \/ GrowsInLimits
         \/ task' = NoTask /\ totalSize' = findStoreSize(index')
<1>1. ASSUME NEW i \in Ids, NEW gone \in BOOLEAN, ReplaceRemove(i, gone)
      PROVE  GrowsInLimits
  <2>1. i \in task.olds /\ task # NoTask /\ task.op = "ReplaceFile" /\ task.result = "None"
    BY <1>1 DEF ReplaceRemove, IInv, TaskInv, TypeOK
  <2>2. index[i] # NoFile
    BY <2>1 DEF ReplaceInv, Replaced, Stored
  <2> QED BY <1>1, <2>2, SizesShrink DEF ReplaceRemove, IInv
<1>2. ASSUME NEW readable \in BOOLEAN, Reboot(readable)
      PROVE  task' = NoTask /\ totalSize' = findStoreSize(index')
  <2>1. Stored(NoRows) = {}
    BY DEF Stored, NoRows
  <2>2. findStoreSize(NoRows) = 0
    BY <2>1, SumOfAny, FS_EmptySet DEF findStoreSize
  <2>3. task' = NoTask /\ index' = (IF readable THEN indexFile ELSE NoRows)
          /\ totalSize' = (IF readable THEN findStoreSize(indexFile) ELSE 0)
    BY <1>2 DEF Reboot, initialize
  <2>4. findStoreSize(index') = IF readable THEN findStoreSize(indexFile) ELSE findStoreSize(NoRows)
    BY <2>3
  <2> QED BY <2>2, <2>3, <2>4
<1>3. CASE Restart \/ \E readable \in BOOLEAN : Crash(readable)
  BY <1>2, <1>3 DEF Restart, Crash
<1>4. CASE UNCHANGED <<index, totalSize>>
  BY <1>4, SizesUntouched DEF IInv
<1>5. \/ Request \/ (\E i \in Ids, gone \in BOOLEAN : ReplaceRemove(i, gone))
      \/ UNCHANGED <<index, totalSize>>
      \/ Restart \/ \E readable \in BOOLEAN : Crash(readable)
  BY DEF Next, BeginWriteIndex, FailWriteIndex, WriteIndexRow, EndWriteIndex, LoseIndexRows,
     Complete, vars
<1> QED BY <1>1, <1>3, <1>4, <1>5, SizesOfRequest DEF IInv

(***************************************************************************)
(* The theorems                                                            *)
(***************************************************************************)

LEMMA SpecTotalInv == Spec => [](IInv /\ ReplaceInv /\ TotalInv)
<1>1. Init => TotalInv
  <2>1. Stored(NoRows) = {}
    BY DEF Stored, NoRows
  <2>2. findStoreSize(NoRows) = 0
    BY <2>1, SumOfAny, FS_EmptySet DEF findStoreSize
  <2>3. Init => totalSize = 0 /\ findStoreSize(index) = findStoreSize(NoRows)
    BY DEF Init
  <2> QED BY <2>2, <2>3 DEF TotalInv, TotalNeverUndercounts
<1>2. ASSUME IInv, ReplaceInv, IInv', TotalInv, [Next]_vars
      PROVE  TotalInv'
  <2>1. findStoreSize(index) \in Nat /\ findStoreSize(index') \in Nat
    BY <1>2, SizesAreNumbers DEF IInv, TypeOK
  <2>2. CASE GrowsInLimits
    BY <1>2, <2>1, <2>2 DEF GrowsInLimits, TotalInv, TotalNeverUndercounts
  <2>3. CASE totalSize' = findStoreSize(index')
    BY <2>1, <2>3 DEF TotalInv, TotalNeverUndercounts
  <2> QED BY <1>2, <2>2, <2>3, SizesOfStep
<1>3. IInv /\ ReplaceInv /\ TotalInv /\ [Next]_vars => TotalInv'
  BY <1>2, NextIInv
<1>4. Spec => []TotalInv
  BY <1>1, <1>3, SpecReplaceInv, PTL DEF Spec
<1> QED BY <1>4, SpecReplaceInv, PTL

\* The store never takes itself for emptier than it is, however rows were lost.
THEOREM TotalIsEnough == Spec => []TotalNeverUndercounts
<1>1. TotalInv => TotalNeverUndercounts
  BY DEF TotalInv
<1> QED BY <1>1, SpecTotalInv, PTL

\* Storing and replacing keep the size of the store within its maximum.
THEOREM OnlyUpdatesOutgrow == Spec => OnlyUpdatesOutgrowStore
<1> DEFINE A == (index' # index /\ task' # NoTask /\ MaxStoreSize > 0) =>
                  LET size == findStoreSize(index')
                  IN  size > findStoreSize(index) =>
                        size <= MaxStoreSize \/ task'.op = "UpdateFile"
<1>1. IInv /\ ReplaceInv /\ TotalInv /\ [Next]_vars => [A]_vars
  BY SizesOfStep DEF GrowsInLimits
<1> HIDE DEF A
<1>2. Spec => [][A]_vars
  BY <1>1, SpecTotalInv, PTL DEF Spec
<1> QED BY <1>2 DEF A, OnlyUpdatesOutgrowStore

\* Nobody passes the own quota by an own step.
THEOREM OwnStepsKeep == Spec => OwnStepsKeepQuota
<1> DEFINE A == (index' # index /\ task' # NoTask /\ task'.op # "UpdateFileAccessOwner") =>
                  \A u \in Users :
                    LET size(rows) == SizeSum(rows, Owned(rows, u))
                    IN  size(index') > size(index) =>
                          \/ size(index') <= Quota[u].storeSize
                          \/ task'.op = "UpdateFile" /\ task'.user # u
<1>1. IInv /\ ReplaceInv /\ TotalInv /\ [Next]_vars => [A]_vars
  BY SizesOfStep DEF GrowsInLimits, UserSize
<1> HIDE DEF A
<1>2. Spec => [][A]_vars
  BY <1>1, SpecTotalInv, PTL DEF Spec
<1> QED BY <1>2 DEF A, OwnStepsKeepQuota

=============================================================================
