----------------------------- MODULE ListLemmas -----------------------------
(***************************************************************************)
(* What the proofs about the usage console keep needing: lists that are    *)
(* sorted and filtered (Lists), and sums over finite sets.                 *)
(*                                                                         *)
(* The library's induction theorems take the statement as an operator,     *)
(* which no prover here can be given.  An induction is instead a search    *)
(* for the least counterexample, one statement at a time.                  *)
(***************************************************************************)
EXTENDS Lists, SequencesExt, FiniteSetsExt, FiniteSetTheorems, FunctionTheorems,
        SequenceTheorems, WellFoundedInduction, TLAPS

-----------------------------------------------------------------------------
(* Numbers *)

\* The greater and the lesser of two numbers.
LEMMA GreaterOfTwo ==
  ASSUME NEW a \in Int, NEW b \in Int
  PROVE  Max({a, b}) = IF a >= b THEN a ELSE b
<1>1. \E x \in {a, b} : \A y \in {a, b} : x >= y
  OBVIOUS
<1>2. Max({a, b}) \in {a, b} /\ \A y \in {a, b} : Max({a, b}) >= y
  BY <1>1 DEF Max
<1> QED BY <1>2

LEMMA LesserOfTwo ==
  ASSUME NEW a \in Nat, NEW b \in Nat
  PROVE  Min({a, b}) = IF a <= b THEN a ELSE b
<1>1. \E x \in {a, b} : \A y \in {a, b} : x <= y
  OBVIOUS
<1>2. Min({a, b}) \in {a, b} /\ \A y \in {a, b} : Min({a, b}) <= y
  BY <1>1 DEF Min
<1> QED BY <1>2

\* A factor cancels, and the factors of a product can be taken in any order.
LEMMA Cancels ==
  ASSUME NEW a \in Nat, a >= 1, NEW x \in Nat, NEW y \in Nat, a * x = a * y
  PROVE  x = y
OBVIOUS

LEMMA Reorders ==
  ASSUME NEW a \in Nat, NEW b \in Nat, NEW c \in Nat, NEW d \in Nat
  PROVE  a * b * c \in Nat /\ a * b \in Nat /\ (a * b) * c = c * (a * b) /\ c * (a * d) = a * (c * d)
         /\ (a * c) * b = c * (a * b)
OBVIOUS

\* How much of a number its parts make up.
LEMMA QuotientIs ==
  ASSUME NEW a \in Nat, NEW b \in Nat, b >= 1
  PROVE  a \div b \in Nat /\ b * (a \div b) <= a /\ a < b * (a \div b) + b
OBVIOUS

\* Division of a number less than one year from zero.
LEMMA WithinAYear ==
  ASSUME NEW y \in Nat, y >= 1, NEW a \in Int
  PROVE  /\ 0 <= a /\ a < y => a \div y = 0 /\ a % y = a
         /\ -y <= a /\ a < 0 => a \div y = -1 /\ a % y = a + y
<1>1. ASSUME 0 <= a, a < y PROVE a \div y = 0 /\ a % y = a
  BY <1>1
<1>2. ASSUME -y <= a, a < 0 PROVE a \div y = -1 /\ a % y = a + y
  BY <1>2
<1> QED BY <1>1, <1>2

-----------------------------------------------------------------------------
(* Induction *)

\* A set of numbers has a least one.  An induction is a search for the least
\* counterexample.
LEMMA LeastNumber ==
  ASSUME NEW S \in SUBSET Nat, S # {}
  PROVE  \E m \in S : \A x \in S : m <= x
<1>1. PICK m \in S : \A x \in S : ~(<<x, m>> \in OpToRel(<, Nat))
  BY NatLessThanWellFounded, WFMin
<1>2. \A x \in S : ~(x < m)
  BY <1>1 DEF OpToRel
<1> QED BY <1>2

\* Of finite sets some of which are bad, one that is bad has no bad part.
LEMMA SmallestBad ==
  ASSUME NEW S, IsFiniteSet(S), NEW Bad \in SUBSET SUBSET S, Bad # {}
  PROVE  \E T \in Bad : /\ IsFiniteSet(T)
                        /\ \A x \in T : T \ {x} \notin Bad
<1> DEFINE Sizes == {Cardinality(T) : T \in Bad}
<1>1. \A T \in SUBSET S : IsFiniteSet(T) /\ Cardinality(T) \in Nat
  BY FS_Subset, FS_CardinalityType
<1>2. Sizes \in SUBSET Nat /\ Sizes # {}
  BY <1>1
<1>3. PICK n \in Sizes : \A k \in Sizes : n <= k
  <2> HIDE DEF Sizes
  <2> QED BY <1>2, LeastNumber
<1>4. PICK T \in Bad : Cardinality(T) = n
  OBVIOUS
<1>5. ASSUME NEW x \in T, T \ {x} \in Bad PROVE FALSE
  <2>1. IsFiniteSet(T) /\ Cardinality(T) \in Nat
    BY <1>1
  <2>2. Cardinality(T \ {x}) = Cardinality(T) - 1
    BY <2>1, FS_RemoveElement
  <2>3. Cardinality(T \ {x}) \in Sizes
    BY <1>5
  <2> HIDE DEF Sizes
  <2> QED BY <1>3, <1>4, <2>1, <2>2, <2>3
<1> QED BY <1>1, <1>4, <1>5

-----------------------------------------------------------------------------
(* Sorting and filtering *)

\* ahead is a strict total order of S.
Orders(S, ahead) ==
  /\ \A x \in S : ahead[x] \subseteq S /\ x \notin ahead[x]
  /\ \A x, y \in S : x # y => x \in ahead[y] \/ y \in ahead[x]
  /\ \A x, y \in S : x \in ahead[y] => ahead[x] \subseteq ahead[y]

\* In a finite order every place is taken, by the element that has as many ahead of it.
LEMMA PlacesAreTaken ==
  ASSUME NEW S, IsFiniteSet(S), NEW ahead, Orders(S, ahead)
  PROVE  /\ Cardinality(S) \in Nat
         /\ \A x \in S : Cardinality(ahead[x]) \in 0 .. Cardinality(S) - 1
         /\ \A x, y \in S : x \in ahead[y] => Cardinality(ahead[x]) < Cardinality(ahead[y])
         /\ \A k \in 1 .. Cardinality(S) : \E x \in S : Cardinality(ahead[x]) = k - 1
<1> DEFINE n == Cardinality(S)
<1>1. n \in Nat
  BY FS_CardinalityType
<1>2. ASSUME NEW T, NEW U, IsFiniteSet(U), T \subseteq U, T # U
      PROVE  Cardinality(T) \in Nat /\ Cardinality(U) \in Nat /\ Cardinality(T) < Cardinality(U)
  <2>1. IsFiniteSet(T) /\ Cardinality(T) <= Cardinality(U) /\ Cardinality(T) # Cardinality(U)
    BY <1>2, FS_Subset
  <2> QED BY <1>2, <2>1, FS_CardinalityType
<1>3. ASSUME NEW x \in S PROVE IsFiniteSet(ahead[x]) /\ Cardinality(ahead[x]) \in 0 .. n - 1
  <2>1. ahead[x] \subseteq S /\ ahead[x] # S
    BY DEF Orders
  <2>2. IsFiniteSet(ahead[x])
    BY <2>1, FS_Subset
  <2>3. Cardinality(ahead[x]) \in Nat /\ Cardinality(ahead[x]) < n
    BY <1>2, <2>1
  <2> QED BY <1>1, <2>2, <2>3
<1>4. ASSUME NEW x \in S, NEW y \in S, x \in ahead[y]
      PROVE  Cardinality(ahead[x]) < Cardinality(ahead[y])
  <2>1. ahead[x] \subseteq ahead[y] /\ ahead[x] # ahead[y]
    BY <1>4 DEF Orders
  <2> QED BY <1>2, <1>3, <2>1
<1>5. ASSUME NEW k \in 1 .. n PROVE \E x \in S : Cardinality(ahead[x]) = k - 1
  <2> DEFINE T == 0 .. n - 1
             f == [x \in S |-> Cardinality(ahead[x])]
  <2>1. f \in [S -> T]
    BY <1>3
  <2>2. ASSUME NEW x \in S, NEW y \in S, f[x] = f[y] PROVE x = y
    BY <1>3, <1>4, <2>2 DEF Orders
  <2>3. f \in Injection(S, T)
    BY <2>1, <2>2 DEF Injection, IsInjective
  <2>4. IsFiniteSet(T) /\ Cardinality(T) = n
    <3>0. 0 \in Int /\ n - 1 \in Int
      BY <1>1
    <3>1. IsFiniteSet(T) /\ Cardinality(T) = IF 0 > n - 1 THEN 0 ELSE (n - 1) - 0 + 1
      BY <3>0, FS_Interval
    <3> QED BY <1>1, <3>1
  <2>5. f \in Surjection(S, T)
    BY <2>3, <2>4, FS_Injection
  <2>6. k - 1 \in T
    BY <1>1
  <2>7. \E x \in S : f[x] = k - 1
    BY <2>5, <2>6 DEF Surjection
  <2> QED BY <2>7
<1> QED BY <1>1, <1>3, <1>4, <1>5

\* Ranked lists the elements of S, each once, those ahead first.
LEMMA RankedLists ==
  ASSUME NEW S, IsFiniteSet(S), NEW ahead, Orders(S, ahead)
  PROVE  LET r == Ranked(S, ahead) n == Cardinality(S) IN
         /\ n \in Nat /\ r \in [1 .. n -> S]
         /\ \A x \in S : \E k \in 1 .. n : r[k] = x
         /\ \A j, k \in 1 .. n : j < k <=> r[j] \in ahead[r[k]]
         /\ \A j, k \in 1 .. n : r[j] = r[k] => j = k
<1> DEFINE r == Ranked(S, ahead)
           n == Cardinality(S)
<1>1. /\ n \in Nat
      /\ \A x \in S : Cardinality(ahead[x]) \in 0 .. n - 1
      /\ \A x, y \in S : x \in ahead[y] => Cardinality(ahead[x]) < Cardinality(ahead[y])
      /\ \A k \in 1 .. n : \E x \in S : Cardinality(ahead[x]) = k - 1
  BY PlacesAreTaken
<1>2. \A k \in 1 .. n : r[k] \in S /\ Cardinality(ahead[r[k]]) = k - 1
  BY <1>1 DEF Ranked
<1>3. r \in [1 .. n -> S]
  BY <1>2 DEF Ranked
<1>4. \A x, y \in S : Cardinality(ahead[x]) = Cardinality(ahead[y]) => x = y
  BY <1>1 DEF Orders
<1>5. \A x \in S : \E k \in 1 .. n : r[k] = x
  <2> TAKE x \in S
  <2>1. Cardinality(ahead[x]) + 1 \in 1 .. n
    BY <1>1
  <2>2. r[Cardinality(ahead[x]) + 1] = x
    BY <1>1, <1>2, <1>4, <2>1
  <2> QED BY <2>1, <2>2
<1>6. \A j, k \in 1 .. n : r[j] = r[k] => j = k
  BY <1>1, <1>2
<1>7. \A j, k \in 1 .. n : j < k <=> r[j] \in ahead[r[k]]
  <2> TAKE j, k \in 1 .. n
  <2>1. CASE r[j] \in ahead[r[k]]
    BY <1>1, <1>2, <2>1
  <2>2. CASE r[j] \notin ahead[r[k]]
    BY <1>1, <1>2, <2>2 DEF Orders
  <2> QED BY <2>1, <2>2
<1> QED BY <1>1, <1>3, <1>5, <1>6, <1>7

\* Numbers are ordered by a key, greatest first, and by themselves where it is the same.
LEMMA KeyOrders ==
  ASSUME NEW S, S \subseteq Nat, NEW key \in [S -> Nat]
  PROVE  Orders(S, [x \in S |-> {y \in S : key[y] > key[x] \/ (key[y] = key[x] /\ y < x)}])
<1> DEFINE ahead == [x \in S |-> {y \in S : key[y] > key[x] \/ (key[y] = key[x] /\ y < x)}]
<1>0. \A x \in S : ahead[x] = {y \in S : key[y] > key[x] \/ (key[y] = key[x] /\ y < x)}
  OBVIOUS
<1>1. \A x \in S : x \in Nat /\ key[x] \in Nat
  OBVIOUS
<1> HIDE DEF ahead
<1>2. \A x \in S : ahead[x] \subseteq S /\ x \notin ahead[x]
  BY <1>0, <1>1
<1>3. \A x, y \in S : x # y => x \in ahead[y] \/ y \in ahead[x]
  BY <1>0, <1>1
<1>4. \A x, y \in S : x \in ahead[y] => ahead[x] \subseteq ahead[y]
  <2> SUFFICES ASSUME NEW x \in S, NEW y \in S, x \in ahead[y], NEW z \in ahead[x]
               PROVE  z \in ahead[y]
    OBVIOUS
  <2>1. x \in S /\ (key[x] > key[y] \/ (key[x] = key[y] /\ x < y))
    BY <1>0
  <2>2. z \in S /\ (key[z] > key[x] \/ (key[z] = key[x] /\ z < x))
    BY <1>0, <2>1
  <2>3. key[z] > key[y] \/ (key[z] = key[y] /\ z < y)
    BY <1>1, <2>1, <2>2
  <2> QED BY <1>0, <2>2, <2>3
<1>5. Orders(S, ahead)
  BY <1>2, <1>3, <1>4 DEF Orders
<1> QED BY <1>5 DEF ahead

\* Positions are ordered as they come.
LEMMA PositionsAreOrdered ==
  ASSUME NEW S, S \subseteq Nat
  PROVE  Orders(S, [x \in S |-> {y \in S : y < x}])
<1> DEFINE ahead == [x \in S |-> {y \in S : y < x}]
<1>1. \A x \in S : ahead[x] = {y \in S : y < x}
  OBVIOUS
<1>2. \A x \in S : x \in Nat
  OBVIOUS
<1> HIDE DEF ahead
<1>3. \A x \in S : ahead[x] \subseteq S /\ x \notin ahead[x]
  BY <1>1, <1>2
<1>4. \A x, y \in S : x # y => x \in ahead[y] \/ y \in ahead[x]
  BY <1>1, <1>2
<1>5. \A x, y \in S : x \in ahead[y] => ahead[x] \subseteq ahead[y]
  <2> SUFFICES ASSUME NEW x \in S, NEW y \in S, x \in ahead[y], NEW z \in ahead[x]
               PROVE  z \in ahead[y]
    OBVIOUS
  <2>1. z \in S /\ z < x /\ x < y
    BY <1>1
  <2>2. x \in Nat /\ y \in Nat /\ z \in Nat
    BY <1>2, <2>1
  <2>3. z < y
    BY <2>1, <2>2
  <2> QED BY <1>1, <2>1, <2>3
<1>6. Orders(S, ahead)
  BY <1>3, <1>4, <1>5 DEF Orders
<1> QED BY <1>6 DEF ahead

\* A finite set of numbers that is not empty has a greatest.
LEMMA GreatestIsIn ==
  ASSUME NEW S, IsFiniteSet(S), S \subseteq Nat, S # {}
  PROVE  Max(S) \in S /\ \A y \in S : Max(S) >= y
<1> DEFINE ahead == [x \in S |-> {y \in S : y < x}]
           n == Cardinality(S)
           r == Ranked(S, ahead)
<1>1. Orders(S, ahead)
  BY PositionsAreOrdered
<1>2. /\ n \in Nat /\ r \in [1 .. n -> S]
      /\ \A x \in S : \E k \in 1 .. n : r[k] = x
      /\ \A j, k \in 1 .. n : j < k <=> r[j] \in ahead[r[k]]
  BY <1>1, RankedLists
<1>a. \A x \in S : ahead[x] = {y \in S : y < x}
  OBVIOUS
<1> HIDE DEF r, n, ahead
<1>3. n \in 1 .. n
  <2>1. PICK x \in S : TRUE
    OBVIOUS
  <2>2. PICK k \in 1 .. n : r[k] = x
    BY <1>2
  <2> QED BY <1>2, <2>2
<1>4. r[n] \in S /\ \A y \in S : r[n] >= y
  <2> SUFFICES ASSUME NEW y \in S PROVE r[n] \in S /\ r[n] >= y
    BY <1>2, <1>3
  <2>1. PICK k \in 1 .. n : r[k] = y
    BY <1>2
  <2>2. r[n] \in S /\ r[n] \in Nat
    BY <1>2, <1>3
  <2>3. CASE k = n
    BY <2>1, <2>2, <2>3
  <2>4. CASE k # n
    <3>1. k < n
      BY <1>2, <2>4
    <3>2. r[k] \in ahead[r[n]]
      BY <1>2, <1>3, <3>1
    <3> QED BY <1>a, <2>1, <2>2, <3>2
  <2> QED BY <2>3, <2>4
<1> QED BY <1>4 DEF Max

\* RowsAt keeps the rows at the given positions, in their order: o tells where each was.
LEMMA RowsAtKeeps ==
  ASSUME NEW R, NEW rows \in Seq(R), NEW at \in SUBSET DOMAIN rows
  PROVE  LET kept == RowsAt(rows, at) IN
         /\ kept \in Seq(R)
         /\ \E o \in [1 .. Len(kept) -> at] :
              /\ \A k \in 1 .. Len(kept) : kept[k] = rows[o[k]]
              /\ \A i \in at : \E k \in 1 .. Len(kept) : o[k] = i
              /\ \A j, k \in 1 .. Len(kept) : j < k <=> o[j] < o[k]
              /\ \A j, k \in 1 .. Len(kept) : o[j] = o[k] => j = k
<1> DEFINE ahead == [i \in at |-> {j \in at : j < i}]
           n == Cardinality(at)
           o == Ranked(at, ahead)
           kept == RowsAt(rows, at)
<1>1. DOMAIN rows = 1 .. Len(rows) /\ Len(rows) \in Nat /\ \A i \in DOMAIN rows : rows[i] \in R
  BY LenProperties, ElementOfSeq
<1>2. at \subseteq Nat /\ IsFiniteSet(at)
  <2>1. IsFiniteSet(1 .. Len(rows))
    BY <1>1, FS_Interval
  <2> QED BY <1>1, <2>1, FS_Subset
<1>3. /\ n \in Nat /\ o \in [1 .. n -> at]
      /\ \A x \in at : \E k \in 1 .. n : o[k] = x
      /\ \A j, k \in 1 .. n : j < k <=> o[j] \in ahead[o[k]]
      /\ \A j, k \in 1 .. n : o[j] = o[k] => j = k
  <2>1. Orders(at, ahead)
    BY <1>2, PositionsAreOrdered
  <2> QED BY <1>2, <2>1, RankedLists
<1>4. kept = [k \in 1 .. n |-> rows[o[k]]]
  <2>1. DOMAIN o = 1 .. n
    BY <1>3
  <2>2. kept = [k \in DOMAIN o |-> rows[o[k]]]
    BY DEF RowsAt
  <2> QED BY <2>1, <2>2
<1>5. \A i \in at : ahead[i] = {j \in at : j < i}
  OBVIOUS
<1> HIDE DEF o, n, kept, ahead
<1>6. kept \in Seq(R) /\ Len(kept) = n
  <2>1. \A k \in 1 .. n : rows[o[k]] \in R
    BY <1>1, <1>3
  <2> QED BY <1>3, <1>4, <2>1
<1>7. \A j, k \in 1 .. n : j < k <=> o[j] < o[k]
  BY <1>3, <1>5
<1>8. \A k \in 1 .. n : kept[k] = rows[o[k]]
  BY <1>4
<1> QED BY <1>3, <1>6, <1>7, <1>8 DEF kept

\* It keeps at most all of them.
LEMMA RowsAtLength ==
  ASSUME NEW R, NEW rows \in Seq(R), NEW at \in SUBSET DOMAIN rows
  PROVE  /\ Len(RowsAt(rows, at)) = Cardinality(at) /\ Cardinality(at) \in Nat
         /\ Cardinality(at) <= Len(rows)
         /\ Cardinality(at) = Len(rows) => at = DOMAIN rows
<1> DEFINE n == Cardinality(at)
           o == Ranked(at, [i \in at |-> {j \in at : j < i}])
<1>1. DOMAIN rows = 1 .. Len(rows) /\ Len(rows) \in Nat
  BY LenProperties
<1>2. IsFiniteSet(DOMAIN rows) /\ Cardinality(DOMAIN rows) = Len(rows)
  <2>1. 1 \in Int /\ Len(rows) \in Int
    BY <1>1
  <2>2. /\ IsFiniteSet(1 .. Len(rows))
        /\ Cardinality(1 .. Len(rows)) = IF 1 > Len(rows) THEN 0 ELSE Len(rows) - 1 + 1
    BY <2>1, FS_Interval
  <2> QED BY <1>1, <2>2
<1>3. n \in Nat /\ n <= Len(rows) /\ (n = Len(rows) => at = DOMAIN rows)
  <2>1. IsFiniteSet(at) /\ n <= Cardinality(DOMAIN rows)
        /\ (Cardinality(DOMAIN rows) = n => DOMAIN rows = at)
    BY <1>2, FS_Subset
  <2>2. n \in Nat
    BY <2>1, FS_CardinalityType
  <2> QED BY <1>2, <2>1, <2>2
<1>4. DOMAIN o = 1 .. n
  BY DEF Ranked
<1>5. RowsAt(rows, at) = [k \in 1 .. n |-> rows[o[k]]]
  BY <1>4 DEF RowsAt
<1>6. Len(RowsAt(rows, at)) = n
  <2>1. RowsAt(rows, at) \in Seq(R)
    BY RowsAtKeeps
  <2>2. DOMAIN RowsAt(rows, at) = 1 .. n
    BY <1>5
  <2>3. DOMAIN RowsAt(rows, at) = 1 .. Len(RowsAt(rows, at)) /\ Len(RowsAt(rows, at)) \in Nat
    BY <2>1, LenProperties
  <2> HIDE DEF n, o
  <2> QED BY <1>3, <2>2, <2>3
<1> QED BY <1>3, <1>6

-----------------------------------------------------------------------------
(* Sums *)

\* The element that a fold takes next.
Taken(s) == CHOOSE x \in s : TRUE

SumTable(f, S) == CHOOSE g : g = [s \in SUBSET S |->
   IF s = {} THEN 0 ELSE f[Taken(s)] + g[s \ {Taken(s)}]]

LEMMA SumUnfolds ==
  ASSUME NEW f, NEW S
  PROVE  SumFunctionOnSet(f, S) = SumTable(f, S)[S]
BY Zenon DEF SumFunctionOnSet, FoldFunctionOnSet, MapThenFoldSet, SumTable, Taken

TakenIn == \A s : s # {} => Taken(s) \in s

LEMMA ATakenIsIn == TakenIn
BY DEF Taken, TakenIn

SumRow(f, g, s) == IF s = {} THEN 0 ELSE f[Taken(s)] + g[s \ {Taken(s)}]

IsSumTable(g, f, S) == \A s \in SUBSET S : g[s] = SumRow(f, g, s)

\* The fold's table: a sum for every part of the set.
LEMMA SumTableExists ==
  ASSUME NEW S, IsFiniteSet(S), NEW f, \A x \in S : f[x] \in Int
  PROVE  \E g \in [SUBSET S -> Int] : \A s \in SUBSET S : g[s] = SumRow(f, g, s)
<1> DEFINE Level(n) == {s \in SUBSET S : Cardinality(s) <= n}
           Sol(n)   == {g \in [Level(n) -> Int] : \A s \in Level(n) : g[s] = SumRow(f, g, s)}
           Bad      == {n \in Nat : Sol(n) = {}}
<1>1. \A s \in SUBSET S : IsFiniteSet(s) /\ Cardinality(s) \in Nat
  BY FS_Subset, FS_CardinalityType
<1>2. \A s \in SUBSET S : s # {} => /\ Taken(s) \in s /\ f[Taken(s)] \in Int
                                    /\ s \ {Taken(s)} \in SUBSET S
                                    /\ Cardinality(s \ {Taken(s)}) = Cardinality(s) - 1
  BY <1>1, ATakenIsIn, FS_RemoveElement DEF TakenIn
<1>3. 0 \notin Bad
  <2> DEFINE g == [s \in Level(0) |-> 0]
  <2>1. \A s \in Level(0) : s = {}
    <3>1. \A s \in SUBSET S : s # {} => Cardinality(s) # 0
      <4> TAKE s \in SUBSET S
      <4> HAVE s # {}
      <4>1. Cardinality(s) - 1 \in Nat /\ Cardinality(s) \in Nat
        BY <1>1, <1>2
      <4> QED BY <4>1
    <3> QED BY <1>1, <3>1
  <2>2. g \in Sol(0)
    BY <2>1 DEF SumRow
  <2> QED BY <2>2
<1>4. ASSUME NEW m \in Nat, m # 0, m - 1 \notin Bad PROVE m \notin Bad
  <2>1. m - 1 \in Nat
    BY <1>4
  <2>2. PICK g \in Sol(m - 1) : TRUE
    BY <1>4, <2>1
  <2> DEFINE h == [s \in Level(m) |-> SumRow(f, g, s)]
  <2>3. \A s \in Level(m) : s # {} => s \ {Taken(s)} \in Level(m - 1)
    <3> TAKE s \in Level(m)
    <3> HAVE s # {}
    <3>1. Cardinality(s) \in Nat /\ Cardinality(s) <= m
      BY <1>1
    <3>2. s \ {Taken(s)} \in SUBSET S /\ Cardinality(s \ {Taken(s)}) = Cardinality(s) - 1
      BY <1>2
    <3>3. Cardinality(s) - 1 <= m - 1
      BY <3>1
    <3> QED BY <3>2, <3>3
  <2>4. \A s \in Level(m - 1) : s \in Level(m) /\ g[s] \in Int /\ g[s] = SumRow(f, g, s)
    <3>1. \A s \in SUBSET S : Cardinality(s) <= m - 1 => Cardinality(s) <= m
      BY <1>1, <2>1
    <3> QED BY <2>2, <3>1
  <2>5. \A s \in Level(m) : h[s] \in Int
    <3> TAKE s \in Level(m)
    <3>1. h[s] = SumRow(f, g, s)
      OBVIOUS
    <3> HIDE DEF h, Level
    <3> QED BY <1>2, <2>3, <2>4, <3>1 DEF SumRow, Level
  <2>6. \A s \in Level(m - 1) : h[s] = g[s]
    BY <2>4
  <2>7. \A s \in Level(m) : h[s] = SumRow(f, h, s)
    <3> TAKE s \in Level(m)
    <3>1. h[s] = SumRow(f, g, s)
      OBVIOUS
    <3> HIDE DEF h, Level
    <3> QED BY <2>3, <2>6, <3>1 DEF SumRow
  <2>8. h \in Sol(m)
    <3>1. h \in [Level(m) -> Int]
      <4> HIDE DEF Level
      <4> QED BY <2>5
    <3> HIDE DEF h, Level
    <3> QED BY <2>7, <3>1
  <2> HIDE DEF Sol, h
  <2> QED BY <2>8
<1>5. Bad = {}
  <2> SUFFICES ASSUME Bad # {} PROVE FALSE
    OBVIOUS
  <2>1. Bad \in SUBSET Nat
    OBVIOUS
  <2> HIDE DEF Bad
  <2>2. PICK m \in Bad : \A x \in Bad : m <= x
    BY <2>1, LeastNumber
  <2>3. m \in Nat /\ m # 0 /\ m - 1 \in Nat /\ ~(m <= m - 1)
    BY <1>3, <2>1, <2>2
  <2> QED BY <1>4, <2>2, <2>3
<1>6. Level(Cardinality(S)) = SUBSET S
  <2>1. \A s \in SUBSET S : Cardinality(s) <= Cardinality(S)
    BY FS_Subset
  <2> QED BY <2>1
<1>7. Cardinality(S) \in Nat /\ Sol(Cardinality(S)) # {}
  <2>1. Cardinality(S) \in Nat
    BY <1>1
  <2> HIDE DEF Sol
  <2> QED BY <1>5, <2>1
<1> QED BY <1>6, <1>7

\* There is one such table.
LEMMA SumTablesAgree ==
  ASSUME NEW S, IsFiniteSet(S), NEW T \in SUBSET S, NEW f, NEW e, \A x \in T : f[x] = e[x],
         NEW g, NEW h,
         IsSumTable(g, f, S), IsSumTable(h, e, T)
  PROVE  \A s \in SUBSET T : g[s] = h[s]
<1> DEFINE Bad == {s \in SUBSET T : g[s] # h[s]}
<1> SUFFICES ASSUME Bad # {} PROVE FALSE
  OBVIOUS
<1>1. IsFiniteSet(T) /\ Bad \in SUBSET SUBSET T
  BY FS_Subset
<1> HIDE DEF Bad
<1>2. PICK s \in Bad : \A x \in s : s \ {x} \notin Bad
  BY <1>1, SmallestBad
<1> USE DEF Bad
<1>3. s \in SUBSET T /\ g[s] # h[s] /\ s \in SUBSET S
  BY <1>2
<1>4. g[s] = SumRow(f, g, s) /\ h[s] = SumRow(e, h, s)
  BY <1>3 DEF IsSumTable
<1>5. CASE s = {}
  BY <1>3, <1>4, <1>5 DEF SumRow
<1>6. CASE s # {}
  <2>1. Taken(s) \in s
    BY <1>6, ATakenIsIn DEF TakenIn
  <2>2. g[s \ {Taken(s)}] = h[s \ {Taken(s)}] /\ f[Taken(s)] = e[Taken(s)]
    BY <1>2, <1>3, <2>1
  <2> QED BY <1>3, <1>4, <1>6, <2>2 DEF SumRow
<1> QED BY <1>5, <1>6

LEMMA SumTableRows ==
  ASSUME NEW S, IsFiniteSet(S), NEW f, \A x \in S : f[x] \in Int
  PROVE  /\ IsSumTable(SumTable(f, S), f, S)
         /\ \A s \in SUBSET S : SumTable(f, S)[s] \in Int
<1>1. PICK g \in [SUBSET S -> Int] : IsSumTable(g, f, S)
  BY SumTableExists DEF IsSumTable
<1>2. g = [s \in SUBSET S |-> SumRow(f, g, s)]
  BY <1>1 DEF IsSumTable
<1>3. SumTable(f, S) = [s \in SUBSET S |-> SumRow(f, SumTable(f, S), s)]
  BY <1>2 DEF SumTable, SumRow
<1> DEFINE h == SumTable(f, S)
<1>4. IsSumTable(h, f, S)
  BY <1>3 DEF IsSumTable
<1> HIDE DEF h
<1>5. \A s \in SUBSET S : h[s] = g[s]
  <2>1. S \in SUBSET S /\ \A x \in S : f[x] = f[x]
    OBVIOUS
  <2> QED BY <1>1, <1>4, <2>1, SumTablesAgree
<1> QED BY <1>1, <1>4, <1>5 DEF h

\* The sum over a part is the table's row for it, whatever else the table has.
LEMMA SumIsRow ==
  ASSUME NEW S, IsFiniteSet(S), NEW f, \A x \in S : f[x] \in Int, NEW T \in SUBSET S
  PROVE  SumFunctionOnSet(f, T) = SumTable(f, S)[T]
<1>1. IsFiniteSet(T) /\ \A x \in T : f[x] \in Int /\ f[x] = f[x]
  BY FS_Subset
<1>2. IsSumTable(SumTable(f, S), f, S) /\ IsSumTable(SumTable(f, T), f, T)
  BY <1>1, SumTableRows
<1>3. SumTable(f, S)[T] = SumTable(f, T)[T]
  BY <1>1, <1>2, SumTablesAgree
<1> QED BY <1>3, SumUnfolds

LEMMA SumInt ==
  ASSUME NEW S, IsFiniteSet(S), NEW f, \A x \in S : f[x] \in Int
  PROVE  SumFunctionOnSet(f, S) \in Int
BY SumTableRows, SumUnfolds

LEMMA SumEmpty == \A f : SumFunctionOnSet(f, {}) = 0
<1> TAKE f
<1>1. IsFiniteSet({}) /\ \A x \in {} : f[x] \in Int
  BY FS_EmptySet
<1>2. IsSumTable(SumTable(f, {}), f, {})
  BY <1>1, SumTableRows
<1> QED BY <1>2, SumUnfolds DEF IsSumTable, SumRow

\* A sum depends on the values at its elements alone.
LEMMA SumSame ==
  ASSUME NEW S, IsFiniteSet(S), NEW f, NEW e, \A x \in S : f[x] \in Int /\ f[x] = e[x]
  PROVE  SumFunctionOnSet(f, S) = SumFunctionOnSet(e, S)
<1>1. IsSumTable(SumTable(f, S), f, S) /\ IsSumTable(SumTable(e, S), e, S)
  BY SumTableRows
<1>2. SumTable(f, S)[S] = SumTable(e, S)[S]
  BY <1>1, SumTablesAgree
<1> QED BY <1>2, SumUnfolds

LEMMA SumTakes ==
  ASSUME NEW S, IsFiniteSet(S), NEW f, \A x \in S : f[x] \in Int, S # {}
  PROVE  SumFunctionOnSet(f, S) = f[Taken(S)] + SumFunctionOnSet(f, S \ {Taken(S)})
<1>1. IsSumTable(SumTable(f, S), f, S)
  BY SumTableRows
<1>2. S \in SUBSET S /\ S \ {Taken(S)} \in SUBSET S
  OBVIOUS
<1>3. SumFunctionOnSet(f, S \ {Taken(S)}) = SumTable(f, S)[S \ {Taken(S)}]
  BY <1>2, SumIsRow
<1> QED BY <1>1, <1>2, <1>3, SumUnfolds DEF IsSumTable, SumRow

\* Any element may be taken first.
LEMMA SumRemove ==
  ASSUME NEW S, IsFiniteSet(S), NEW f, \A x \in S : f[x] \in Int, NEW x \in S
  PROVE  SumFunctionOnSet(f, S) = f[x] + SumFunctionOnSet(f, S \ {x})
<1> DEFINE Sum(T) == SumFunctionOnSet(f, T)
           Bad == {T \in SUBSET S : \E y \in T : Sum(T) # f[y] + Sum(T \ {y})}
<1> SUFFICES ASSUME Bad # {} PROVE FALSE
  OBVIOUS
<1>1. Bad \in SUBSET SUBSET S
  OBVIOUS
<1> HIDE DEF Bad
<1>2. PICK T \in Bad : IsFiniteSet(T) /\ \A y \in T : T \ {y} \notin Bad
  BY <1>1, SmallestBad
<1> USE DEF Bad
<1>3. PICK y \in T : Sum(T) # f[y] + Sum(T \ {y})
  BY <1>2
<1> DEFINE t == Taken(T)
<1>4. T \in SUBSET S /\ t \in T
  BY <1>2, <1>3, ATakenIsIn DEF TakenIn
<1>5. Sum(T) = f[t] + Sum(T \ {t})
  BY <1>2, <1>4, SumTakes
<1>6. \A U \in SUBSET S : Sum(U) \in Int
  BY SumInt, FS_Subset
<1> HIDE DEF t, Sum
<1>7. t # y
  BY <1>3, <1>5
<1>8. y \in T \ {t} /\ t \in T \ {y}
  BY <1>3, <1>4, <1>7
<1>9. Sum(T \ {t}) = f[y] + Sum((T \ {t}) \ {y})
  BY <1>2, <1>4, <1>8
<1>10. Sum(T \ {y}) = f[t] + Sum((T \ {y}) \ {t})
  BY <1>2, <1>3, <1>4, <1>8
<1>11. (T \ {t}) \ {y} = (T \ {y}) \ {t} /\ (T \ {t}) \ {y} \in SUBSET S
  BY <1>4
<1>12. f[t] \in Int /\ f[y] \in Int /\ Sum((T \ {t}) \ {y}) \in Int
  BY <1>3, <1>4, <1>6, <1>11
<1>13. Sum(T) = f[y] + Sum(T \ {y})
  <2> HIDE DEF Bad
  <2> DEFINE a == Sum(T)
             b == Sum(T \ {t})
             c == Sum(T \ {y})
             d == Sum((T \ {t}) \ {y})
             p == f[t]
             q == f[y]
  <2>1. a = p + b /\ b = q + d /\ c = p + d /\ d \in Int /\ p \in Int /\ q \in Int
    BY <1>5, <1>9, <1>10, <1>11, <1>12
  <2>2. SUFFICES a = q + c
    OBVIOUS
  <2> HIDE DEF a, b, c, d, p, q
  <2> QED BY <2>1
<1> QED BY <1>3, <1>13

\* An element more.
LEMMA SumAdd ==
  ASSUME NEW S, IsFiniteSet(S), NEW x, x \notin S, NEW f, \A y \in S \cup {x} : f[y] \in Int
  PROVE  SumFunctionOnSet(f, S \cup {x}) = f[x] + SumFunctionOnSet(f, S)
<1>1. IsFiniteSet(S \cup {x}) /\ x \in S \cup {x} /\ (S \cup {x}) \ {x} = S
  BY FS_AddElement
<1> QED BY <1>1, SumRemove

\* Where nothing is below 0, neither is the sum, which is at least each part.
LEMMA SumNat ==
  ASSUME NEW S, IsFiniteSet(S), NEW f, \A x \in S : f[x] \in Nat
  PROVE  /\ SumFunctionOnSet(f, S) \in Nat
         /\ \A x \in S : f[x] <= SumFunctionOnSet(f, S)
<1> DEFINE Sum(T) == SumFunctionOnSet(f, T)
           Bad == {T \in SUBSET S : Sum(T) \notin Nat}
<1>1. Bad = {}
  <2> SUFFICES ASSUME Bad # {} PROVE FALSE
    OBVIOUS
  <2>1. Bad \in SUBSET SUBSET S
    OBVIOUS
  <2> HIDE DEF Bad
  <2>2. PICK T \in Bad : IsFiniteSet(T) /\ \A y \in T : T \ {y} \notin Bad
    BY <2>1, SmallestBad
  <2> USE DEF Bad
  <2>3. T # {}
    BY <2>2, SumEmpty
  <2>4. PICK x \in T : TRUE
    BY <2>3
  <2>5. \A y \in T : f[y] \in Int /\ f[y] \in Nat
    BY <2>2
  <2>6. Sum(T) = f[x] + Sum(T \ {x})
    BY <2>2, <2>4, <2>5, SumRemove
  <2>7. Sum(T \ {x}) \in Nat
    BY <2>1, <2>2, <2>4
  <2> HIDE DEF Sum
  <2> QED BY <2>2, <2>4, <2>5, <2>6, <2>7
<1>2. \A T \in SUBSET S : Sum(T) \in Nat
  BY <1>1
<1>3. ASSUME NEW x \in S PROVE f[x] <= Sum(S)
  <2>1. \A y \in S : f[y] \in Int
    OBVIOUS
  <2>2. Sum(S) = f[x] + Sum(S \ {x})
    BY <2>1, SumRemove
  <2>3. Sum(S \ {x}) \in Nat /\ f[x] \in Nat
    BY <1>2
  <2> HIDE DEF Sum, Bad
  <2> QED BY <2>2, <2>3
<1> QED BY <1>2, <1>3

\* Two disjoint parts.
LEMMA SumUnion ==
  ASSUME NEW S, IsFiniteSet(S), NEW T, IsFiniteSet(T), S \cap T = {},
         NEW f, \A x \in S \cup T : f[x] \in Int
  PROVE  SumFunctionOnSet(f, S \cup T) = SumFunctionOnSet(f, S) + SumFunctionOnSet(f, T)
<1> DEFINE Sum(U) == SumFunctionOnSet(f, U)
           Bad == {U \in SUBSET T : Sum(S \cup U) # Sum(S) + Sum(U)}
<1>1. Bad = {}
  <2> SUFFICES ASSUME Bad # {} PROVE FALSE
    OBVIOUS
  <2>1. Bad \in SUBSET SUBSET T
    OBVIOUS
  <2> HIDE DEF Bad
  <2>2. PICK U \in Bad : IsFiniteSet(U) /\ \A y \in U : U \ {y} \notin Bad
    BY <2>1, SmallestBad
  <2> USE DEF Bad
  <2>3. Sum(S) \in Int /\ \A x \in S : f[x] \in Int
    BY SumInt
  <2>4. CASE U = {}
    <3>1. S \cup U = S /\ Sum(U) = 0
      BY <2>4, SumEmpty
    <3> HIDE DEF Sum
    <3> QED BY <2>2, <2>3, <3>1
  <2>5. CASE U # {}
    <3>1. PICK x \in U : TRUE
      BY <2>5
    <3> DEFINE V == U \ {x}
    <3>2. IsFiniteSet(S \cup V) /\ IsFiniteSet(V) /\ x \notin S \cup V /\ x \notin V
          /\ (S \cup V) \cup {x} = S \cup U /\ V \cup {x} = U /\ V \in SUBSET T
      <4>1. U \in SUBSET T /\ V \in SUBSET U /\ IsFiniteSet(U)
        BY <2>2
      <4>2. IsFiniteSet(V)
        BY <4>1, FS_Subset
      <4>3. IsFiniteSet(S \cup V)
        BY <4>2, FS_Union
      <4> QED BY <3>1, <4>1, <4>2, <4>3
    <3>3. \A y \in S \cup U : f[y] \in Int
      BY <2>1, <2>2
    <3> HIDE DEF V
    <3>4. Sum((S \cup V) \cup {x}) = f[x] + Sum(S \cup V)
      BY <3>2, <3>3, SumAdd
    <3>5. Sum(V \cup {x}) = f[x] + Sum(V)
      BY <3>2, <3>3, SumAdd
    <3>6. Sum(S \cup V) = Sum(S) + Sum(V)
      BY <2>2, <3>1, <3>2 DEF V
    <3>7. Sum(V) \in Int /\ f[x] \in Int
      <4>1. \A y \in V : f[y] \in Int
        BY <3>2, <3>3
      <4> QED BY <3>1, <3>2, <3>3, <4>1, SumInt
    <3> HIDE DEF Sum
    <3>8. Sum(S \cup U) = f[x] + Sum(S \cup V) /\ Sum(U) = f[x] + Sum(V)
      BY <3>2, <3>4, <3>5
    <3>9. Sum(S \cup U) = Sum(S) + Sum(U)
      <4> DEFINE a == Sum(S)
                 b == Sum(V)
                 c == Sum(S \cup V)
                 d == Sum(U)
                 u == Sum(S \cup U)
                 p == f[x]
      <4>1. u = p + c /\ d = p + b /\ c = a + b /\ a \in Int /\ b \in Int /\ p \in Int
        BY <2>3, <3>6, <3>7, <3>8
      <4>2. SUFFICES u = a + d
        OBVIOUS
      <4> HIDE DEF a, b, c, d, p, u
      <4> QED BY <4>1
    <3> QED BY <2>2, <3>9
  <2> QED BY <2>4, <2>5
<1> QED BY <1>1

\* Sums of sums and of multiples, element by element.
LEMMA SumLinear ==
  ASSUME NEW S, IsFiniteSet(S), NEW f, NEW e, NEW h, NEW k \in Int,
         \A x \in S : f[x] \in Int /\ e[x] \in Int /\ h[x] = f[x] + k * e[x]
  PROVE  SumFunctionOnSet(h, S) = SumFunctionOnSet(f, S) + k * SumFunctionOnSet(e, S)
<1> DEFINE F(U) == SumFunctionOnSet(f, U)
           E(U) == SumFunctionOnSet(e, U)
           H(U) == SumFunctionOnSet(h, U)
           Bad == {U \in SUBSET S : H(U) # F(U) + k * E(U)}
<1> SUFFICES ASSUME Bad # {} PROVE FALSE
  OBVIOUS
<1>1. Bad \in SUBSET SUBSET S
  OBVIOUS
<1> HIDE DEF Bad
<1>2. PICK U \in Bad : IsFiniteSet(U) /\ \A y \in U : U \ {y} \notin Bad
  BY <1>1, SmallestBad
<1>3. U \in SUBSET S /\ H(U) # F(U) + k * E(U)
  BY <1>2 DEF Bad
<1>4. U # {}
  <2> SUFFICES ASSUME U = {} PROVE FALSE
    OBVIOUS
  <2>1. H(U) = 0 /\ F(U) = 0 /\ E(U) = 0
    BY SumEmpty
  <2> HIDE DEF H, F, E
  <2> QED BY <1>3, <2>1
<1>5. PICK x \in U : TRUE
  BY <1>4
<1> DEFINE V == U \ {x}
<1>6. IsFiniteSet(V) /\ V \in SUBSET S
  BY <1>2, <1>3, FS_Subset
<1>7. H(V) = F(V) + k * E(V)
  BY <1>2, <1>5, <1>6 DEF Bad
<1>8. \A y \in S : f[y] \in Int /\ e[y] \in Int /\ h[y] \in Int
  OBVIOUS
<1>9. /\ \A y \in U : f[y] \in Int /\ e[y] \in Int /\ h[y] \in Int
      /\ \A y \in V : f[y] \in Int /\ e[y] \in Int
  BY <1>3, <1>8
<1>10. H(U) = h[x] + H(V) /\ F(U) = f[x] + F(V) /\ E(U) = e[x] + E(V)
  BY <1>2, <1>5, <1>9, SumRemove
<1>11. F(V) \in Int /\ E(V) \in Int
  BY <1>6, <1>9, SumInt
<1>12. f[x] \in Int /\ e[x] \in Int /\ h[x] = f[x] + k * e[x]
  BY <1>3, <1>5
<1> HIDE DEF H, F, E, V
<1>13. H(U) = F(U) + k * E(U)
  <2> DEFINE a == f[x]
             b == e[x]
             c == F(V)
             d == E(V)
             l == H(U)
             m == F(U)
             n == E(U)
             o == H(V)
             z == h[x]
  <2>1. /\ a \in Int /\ b \in Int /\ c \in Int /\ d \in Int
        /\ z = a + k * b /\ o = c + k * d /\ l = z + o /\ m = a + c /\ n = b + d
    BY <1>7, <1>10, <1>11, <1>12
  <2>2. SUFFICES l = m + k * n
    OBVIOUS
  <2> HIDE DEF a, b, c, d, l, m, n, o, z
  <2>3. k * n = k * b + k * d
    BY <2>1
  <2> QED BY <2>1, <2>3
<1> QED BY <1>3, <1>13

LEMMA SumZero ==
  ASSUME NEW S, IsFiniteSet(S), NEW f, \A x \in S : f[x] = 0
  PROVE  SumFunctionOnSet(f, S) = 0
<1> DEFINE n == SumFunctionOnSet(f, S)
<1>1. \A x \in S : f[x] \in Int /\ f[x] = f[x] + 1 * f[x]
  OBVIOUS
<1>2. n = n + 1 * n
  BY <1>1, SumLinear
<1>3. n \in Int
  BY <1>1, SumInt
<1> HIDE DEF n
<1>4. n = 0
  BY <1>2, <1>3
<1> QED BY <1>4 DEF n

LEMMA SumScaled ==
  ASSUME NEW S, IsFiniteSet(S), NEW e, NEW h, NEW k \in Int,
         \A x \in S : e[x] \in Int /\ h[x] = k * e[x]
  PROVE  SumFunctionOnSet(h, S) = k * SumFunctionOnSet(e, S)
<1> DEFINE z == [x \in S |-> 0]
           s == SumFunctionOnSet(e, S)
<1>1. \A x \in S : z[x] = 0
  OBVIOUS
<1>2. \A x \in S : z[x] \in Int /\ e[x] \in Int /\ h[x] = z[x] + k * e[x]
  OBVIOUS
<1> HIDE DEF z
<1>3. SumFunctionOnSet(z, S) = 0
  BY <1>1, SumZero
<1>4. SumFunctionOnSet(h, S) = SumFunctionOnSet(z, S) + k * SumFunctionOnSet(e, S)
  BY <1>2, SumLinear
<1>5. s \in Int
  BY SumInt
<1>6. SumFunctionOnSet(h, S) = 0 + k * s
  BY <1>3, <1>4
<1>7. k * s \in Int
  <2> HIDE DEF s
  <2> QED BY <1>5
<1> HIDE DEF s
<1>8. 0 + k * s = k * s
  BY <1>7
<1> QED BY <1>6, <1>8 DEF s

LEMMA SumSingle ==
  ASSUME NEW x, NEW f, f[x] \in Int
  PROVE  SumFunctionOnSet(f, {x}) = f[x]
<1>1. IsFiniteSet({}) /\ x \notin {} /\ {} \cup {x} = {x} /\ \A y \in {} \cup {x} : f[y] \in Int
  BY FS_EmptySet
<1>2. SumFunctionOnSet(f, {} \cup {x}) = f[x] + SumFunctionOnSet(f, {})
  BY <1>1, SumAdd
<1>3. SumFunctionOnSet(f, {}) = 0
  BY SumEmpty
<1>4. SumFunctionOnSet(f, {x}) = f[x] + 0
  BY <1>1, <1>2, <1>3
<1> QED BY <1>4

\* What h puts at g.
GroupAt(S, h, g) == {x \in S : h[x] = g}

\* Groups: what each adds up to adds up to the whole.
LEMMA SumRegroup ==
  ASSUME NEW S, IsFiniteSet(S), NEW G, IsFiniteSet(G), NEW f, NEW h, NEW t,
         \A x \in S : f[x] \in Int /\ h[x] \in G,
         \A g \in G : t[g] = SumFunctionOnSet(f, GroupAt(S, h, g))
  PROVE  SumFunctionOnSet(t, G) = SumFunctionOnSet(f, S)
<1> DEFINE In(U, g) == {x \in U : h[x] = g}
           T(U) == [g \in G |-> SumFunctionOnSet(f, In(U, g))]
           Bad  == {U \in SUBSET S : SumFunctionOnSet(T(U), G) # SumFunctionOnSet(f, U)}
<1>1. \A U \in SUBSET S : \A g \in G : IsFiniteSet(In(U, g)) /\ T(U)[g] \in Int
  <2> TAKE U \in SUBSET S
  <2> TAKE g \in G
  <2>1. IsFiniteSet(In(U, g)) /\ \A x \in In(U, g) : f[x] \in Int
    BY FS_Subset
  <2>2. SumFunctionOnSet(f, In(U, g)) \in Int
    BY <2>1, SumInt
  <2> QED BY <2>1, <2>2
<1>2. Bad = {}
  <2> SUFFICES ASSUME Bad # {} PROVE FALSE
    OBVIOUS
  <2>1. Bad \in SUBSET SUBSET S
    OBVIOUS
  <2> HIDE DEF Bad
  <2>2. PICK U \in Bad : IsFiniteSet(U) /\ \A y \in U : U \ {y} \notin Bad
    BY <2>1, SmallestBad
  <2>3. U \in SUBSET S /\ SumFunctionOnSet(T(U), G) # SumFunctionOnSet(f, U)
    BY <2>2 DEF Bad
  <2>4. U # {}
    <3> SUFFICES ASSUME U = {} PROVE FALSE
      OBVIOUS
    <3>1. \A g \in G : T(U)[g] = 0
      <4>1. \A g \in G : In(U, g) = {}
        OBVIOUS
      <4> QED BY <4>1, SumEmpty
    <3> HIDE DEF T
    <3>2. SumFunctionOnSet(T(U), G) = 0
      BY <3>1, SumZero
    <3> QED BY <2>3, <3>2, SumEmpty
  <2>5. PICK x \in U : TRUE
    BY <2>4
  <2> DEFINE V == U \ {x}
  <2>6. V \in SUBSET S /\ x \in S /\ h[x] \in G /\ f[x] \in Int
    BY <2>3, <2>5
  <2>7. SumFunctionOnSet(T(V), G) = SumFunctionOnSet(f, V)
    BY <2>2, <2>5, <2>6 DEF Bad
  <2>8. SumFunctionOnSet(f, U) = f[x] + SumFunctionOnSet(f, V)
    <3>1. \A y \in U : f[y] \in Int
      BY <2>3
    <3> QED BY <2>2, <2>5, <3>1, SumRemove
  <2>9. T(U)[h[x]] = f[x] + T(V)[h[x]]
    <3>1. x \in In(U, h[x]) /\ In(U, h[x]) \ {x} = In(V, h[x])
      BY <2>5
    <3>2. IsFiniteSet(In(U, h[x])) /\ \A y \in In(U, h[x]) : f[y] \in Int
      BY <1>1, <2>3, <2>6
    <3> HIDE DEF In
    <3>3. SumFunctionOnSet(f, In(U, h[x])) = f[x] + SumFunctionOnSet(f, In(U, h[x]) \ {x})
      BY <3>1, <3>2, SumRemove
    <3> QED BY <2>6, <3>1, <3>3
  <2> DEFINE H == G \ {h[x]}
  <2>10. \A g \in H : T(U)[g] = T(V)[g]
    <3> TAKE g \in H
    <3>1. In(U, g) = In(V, g)
      OBVIOUS
    <3> HIDE DEF In
    <3> QED BY <3>1
  <2>11. IsFiniteSet(H) /\ H \in SUBSET G
    BY FS_Subset
  <2>12. \A g \in G : T(U)[g] \in Int /\ T(V)[g] \in Int
    BY <1>1, <2>3, <2>6
  <2> HIDE DEF T, V
  <2>13. /\ SumFunctionOnSet(T(U), G) = T(U)[h[x]] + SumFunctionOnSet(T(U), H)
         /\ SumFunctionOnSet(T(V), G) = T(V)[h[x]] + SumFunctionOnSet(T(V), H)
    BY <2>6, <2>12, SumRemove
  <2>14. SumFunctionOnSet(T(U), H) = SumFunctionOnSet(T(V), H) /\ SumFunctionOnSet(T(V), H) \in Int
    <3>1. \A g \in H : T(U)[g] \in Int /\ T(V)[g] \in Int /\ T(U)[g] = T(V)[g]
      BY <2>10, <2>11, <2>12
    <3> HIDE DEF H
    <3> QED BY <2>11, <3>1, SumSame, SumInt
  <2>15. SumFunctionOnSet(T(U), G) = SumFunctionOnSet(f, U)
    <3> DEFINE a == SumFunctionOnSet(T(U), G)
               b == SumFunctionOnSet(T(V), G)
               c == SumFunctionOnSet(T(V), H)
               d == SumFunctionOnSet(f, U)
               p == f[x]
               q == T(V)[h[x]]
    <3>1. /\ a = (p + q) + c /\ b = q + c /\ d = p + b
          /\ p \in Int /\ q \in Int /\ c \in Int
      BY <2>6, <2>7, <2>8, <2>9, <2>12, <2>13, <2>14
    <3>2. SUFFICES a = d
      OBVIOUS
    <3> HIDE DEF a, b, c, d, p, q
    <3> QED BY <3>1
  <2> QED BY <2>3, <2>15
<1>3. SumFunctionOnSet(T(S), G) = SumFunctionOnSet(f, S)
  BY <1>2
<1>4. \A g \in G : T(S)[g] \in Int /\ T(S)[g] = t[g]
  BY <1>1 DEF GroupAt
<1> HIDE DEF T
<1> QED BY <1>3, <1>4, SumSame

\* The same values, each once, in other places.
LEMMA SumMoved ==
  ASSUME NEW S, IsFiniteSet(S), NEW G, IsFiniteSet(G), NEW f, NEW e, NEW h,
         \A x \in S : h[x] \in G /\ f[x] \in Int /\ e[h[x]] = f[x],
         \A x, y \in S : h[x] = h[y] => x = y,
         \A g \in G : \E x \in S : h[x] = g
  PROVE  SumFunctionOnSet(e, G) = SumFunctionOnSet(f, S)
<1>1. \A g \in G : e[g] = SumFunctionOnSet(f, GroupAt(S, h, g))
  <2> TAKE g \in G
  <2>1. PICK x \in S : h[x] = g
    OBVIOUS
  <2> DEFINE W == GroupAt(S, h, g)
  <2>2. SUFFICES e[g] = SumFunctionOnSet(f, W)
    OBVIOUS
  <2>3. W = {x}
    BY <2>1 DEF GroupAt
  <2>4. SumFunctionOnSet(f, {x}) = f[x]
    BY <2>1, SumSingle
  <2>5. e[g] = f[x]
    BY <2>1
  <2> HIDE DEF W
  <2>6. SumFunctionOnSet(f, W) = f[x]
    BY <2>3, <2>4
  <2> QED BY <2>5, <2>6
<1> QED BY <1>1, SumRegroup

\* A column of a table.
ColumnAt(m, C, d) == [c \in C |-> m[c][d]]

\* By rows or by columns.
LEMMA SumSwapped ==
  ASSUME NEW C, IsFiniteSet(C), NEW D, IsFiniteSet(D), NEW m, NEW r, NEW q,
         \A c \in C, d \in D : m[c][d] \in Int,
         \A c \in C : r[c] = SumFunctionOnSet(m[c], D),
         \A d \in D : q[d] = SumFunctionOnSet(ColumnAt(m, C, d), C)
  PROVE  SumFunctionOnSet(q, D) = SumFunctionOnSet(r, C)
<1> DEFINE Col(d) == ColumnAt(m, C, d)
           Q(U) == [d \in D |-> SumFunctionOnSet(Col(d), U)]
           Bad  == {U \in SUBSET C : SumFunctionOnSet(Q(U), D) # SumFunctionOnSet(r, U)}
<1>1. \A U \in SUBSET C : \A d \in D : Q(U)[d] \in Int
  <2> TAKE U \in SUBSET C
  <2> TAKE d \in D
  <2>1. IsFiniteSet(U) /\ \A c \in U : Col(d)[c] \in Int
    BY FS_Subset DEF ColumnAt
  <2>2. SumFunctionOnSet(Col(d), U) \in Int
    <3> HIDE DEF Col
    <3> QED BY <2>1, SumInt
  <2> QED BY <2>2
<1>2. \A c \in C : r[c] \in Int
  BY SumInt
<1>3. Bad = {}
  <2> SUFFICES ASSUME Bad # {} PROVE FALSE
    OBVIOUS
  <2>1. Bad \in SUBSET SUBSET C
    OBVIOUS
  <2> HIDE DEF Bad
  <2>2. PICK U \in Bad : IsFiniteSet(U) /\ \A y \in U : U \ {y} \notin Bad
    BY <2>1, SmallestBad
  <2>3. U \in SUBSET C /\ SumFunctionOnSet(Q(U), D) # SumFunctionOnSet(r, U)
    BY <2>2 DEF Bad
  <2>4. U # {}
    <3> SUFFICES ASSUME U = {} PROVE FALSE
      OBVIOUS
    <3>1. \A d \in D : Q(U)[d] = 0
      BY SumEmpty
    <3> HIDE DEF Q
    <3>2. SumFunctionOnSet(Q(U), D) = 0
      BY <3>1, SumZero
    <3> QED BY <2>3, <3>2, SumEmpty
  <2>5. PICK x \in U : TRUE
    BY <2>4
  <2> DEFINE V == U \ {x}
  <2>6. V \in SUBSET C /\ x \in C
    BY <2>3, <2>5
  <2>7. SumFunctionOnSet(Q(V), D) = SumFunctionOnSet(r, V)
    BY <2>2, <2>5, <2>6 DEF Bad
  <2>8. SumFunctionOnSet(r, U) = r[x] + SumFunctionOnSet(r, V)
    <3>1. \A y \in U : r[y] \in Int
      BY <1>2, <2>3
    <3> QED BY <2>2, <2>5, <3>1, SumRemove
  <2>9. \A d \in D : Q(U)[d] = Q(V)[d] + 1 * m[x][d]
    <3> TAKE d \in D
    <3>1. \A c \in U : Col(d)[c] \in Int
      BY <2>3 DEF ColumnAt
    <3>2. Col(d)[x] = m[x][d] /\ m[x][d] \in Int
      BY <2>6 DEF ColumnAt
    <3> HIDE DEF Col
    <3>3. SumFunctionOnSet(Col(d), U) = Col(d)[x] + SumFunctionOnSet(Col(d), V)
      BY <2>2, <2>5, <3>1, SumRemove
    <3>4. Q(V)[d] \in Int
      BY <1>1, <2>6
    <3>5. Q(U)[d] = m[x][d] + Q(V)[d]
      BY <3>2, <3>3
    <3> HIDE DEF Q
    <3> QED BY <3>2, <3>4, <3>5
  <2>10. \A d \in D : Q(U)[d] \in Int /\ Q(V)[d] \in Int /\ m[x][d] \in Int
    BY <1>1, <2>3, <2>6
  <2> HIDE DEF Q, V
  <2>11. SumFunctionOnSet(Q(U), D) = SumFunctionOnSet(Q(V), D) + 1 * SumFunctionOnSet(m[x], D)
    BY <2>9, <2>10, SumLinear
  <2>12. SumFunctionOnSet(m[x], D) = r[x] /\ r[x] \in Int
    BY <1>2, <2>6
  <2>13. SumFunctionOnSet(Q(V), D) \in Int
    BY <2>10, SumInt
  <2>14. SumFunctionOnSet(Q(U), D) = SumFunctionOnSet(r, U)
    <3> DEFINE a == SumFunctionOnSet(Q(U), D)
               b == SumFunctionOnSet(Q(V), D)
               c == r[x]
               d == SumFunctionOnSet(r, U)
    <3>1. a = b + 1 * c /\ d = c + b /\ b \in Int /\ c \in Int
      BY <2>7, <2>8, <2>11, <2>12, <2>13
    <3>2. SUFFICES a = d
      OBVIOUS
    <3> HIDE DEF a, b, c, d
    <3> QED BY <3>1
  <2> QED BY <2>3, <2>14
<1>4. SumFunctionOnSet(Q(C), D) = SumFunctionOnSet(r, C)
  BY <1>3
<1>5. \A d \in D : Q(C)[d] \in Int /\ Q(C)[d] = q[d]
  BY <1>1
<1> HIDE DEF Q
<1> QED BY <1>4, <1>5, SumSame

\* A set that is counted through another.
LEMMA ImageCounts ==
  ASSUME NEW S, IsFiniteSet(S), NEW h, NEW T, \A x \in S : h[x] \in T,
         \A t \in T : \E x \in S : h[x] = t
  PROVE  /\ IsFiniteSet(T) /\ Cardinality(T) \in Nat /\ Cardinality(S) \in Nat
         /\ Cardinality(T) <= Cardinality(S)
<1> DEFINE f == [x \in S |-> h[x]]
<1>1. f \in Surjection(S, T)
  BY DEF Surjection
<1>2. IsFiniteSet(T) /\ Cardinality(T) <= Cardinality(S)
  BY <1>1, FS_Surjection
<1> QED BY <1>2, FS_CardinalityType

\* A set that is counted one to one.
LEMMA OneToOneCounts ==
  ASSUME NEW S, IsFiniteSet(S), NEW h, NEW T, \A x \in S : h[x] \in T,
         \A t \in T : \E x \in S : h[x] = t,
         \A x, y \in S : h[x] = h[y] => x = y
  PROVE  IsFiniteSet(T) /\ Cardinality(T) = Cardinality(S) /\ Cardinality(T) \in Nat
<1> DEFINE f == [x \in S |-> h[x]]
<1>1. f \in Surjection(S, T) /\ f \in Injection(S, T)
  BY DEF Surjection, Injection, IsInjective
<1>2. IsFiniteSet(T) /\ Cardinality(T) = Cardinality(S)
  BY <1>1, FS_Surjection
<1> QED BY <1>2, FS_CardinalityType

\* A sum of ones and zeros counts the ones.
LEMMA SumCounts ==
  ASSUME NEW S, IsFiniteSet(S), NEW f, \A x \in S : f[x] \in {0, 1}
  PROVE  /\ SumFunctionOnSet(f, S) = Cardinality({x \in S : f[x] = 1})
         /\ Cardinality({x \in S : f[x] = 1}) \in Nat
<1> DEFINE Ones(T) == {x \in T : f[x] = 1}
           Sum(T) == SumFunctionOnSet(f, T)
           Bad == {T \in SUBSET S : Sum(T) # Cardinality(Ones(T))}
<1>1. \A T \in SUBSET S : IsFiniteSet(T) /\ IsFiniteSet(Ones(T)) /\ Cardinality(Ones(T)) \in Nat
  <2> SUFFICES ASSUME NEW T \in SUBSET S
               PROVE  IsFiniteSet(T) /\ IsFiniteSet(Ones(T)) /\ Cardinality(Ones(T)) \in Nat
    OBVIOUS
  <2>1. IsFiniteSet(T)
    BY FS_Subset
  <2>2. Ones(T) \in SUBSET T
    OBVIOUS
  <2> HIDE DEF Ones
  <2>3. IsFiniteSet(Ones(T))
    BY <2>1, <2>2, FS_Subset
  <2> QED BY <2>1, <2>3, FS_CardinalityType
<1>2. Bad = {}
  <2> SUFFICES ASSUME Bad # {} PROVE FALSE
    OBVIOUS
  <2>1. Bad \in SUBSET SUBSET S
    OBVIOUS
  <2> HIDE DEF Bad
  <2>2. PICK T \in Bad : IsFiniteSet(T) /\ \A x \in T : T \ {x} \notin Bad
    BY <2>1, SmallestBad
  <2>3. T \in SUBSET S /\ Sum(T) # Cardinality(Ones(T))
    BY <2>2 DEF Bad
  <2>4. PICK x \in T : TRUE
    <3> SUFFICES ASSUME T = {} PROVE FALSE
      OBVIOUS
    <3>1. Ones(T) = {} /\ Sum(T) = 0
      BY SumEmpty
    <3> QED BY <2>3, <3>1, FS_EmptySet
  <2> DEFINE u == Sum(T \ {x})
             c == Cardinality(Ones(T))
             d == Cardinality(Ones(T \ {x}))
  <2>5. Sum(T) = f[x] + u
    <3>1. \A y \in T : f[y] \in Int
      BY <2>3
    <3> QED BY <2>2, <3>1, SumRemove
  <2>6. u = d /\ T \ {x} \in SUBSET S
    <3>1. T \ {x} \in SUBSET S /\ T \ {x} \notin Bad
      BY <2>2, <2>3
    <3> QED BY <3>1 DEF Bad
  <2>7. c = f[x] + d
    <3>0. IsFiniteSet(Ones(T)) /\ c \in Nat
      BY <1>1, <2>3
    <3>1. Ones(T \ {x}) = Ones(T) \ {x}
      OBVIOUS
    <3>2. Cardinality(Ones(T) \ {x}) = IF x \in Ones(T) THEN c - 1 ELSE c
      BY <3>0, FS_RemoveElement
    <3>3. f[x] = IF x \in Ones(T) THEN 1 ELSE 0
      BY <2>3
    <3>4. d = IF x \in Ones(T) THEN c - 1 ELSE c
      BY <3>1, <3>2
    <3> HIDE DEF c, d, Ones
    <3> QED BY <3>0, <3>3, <3>4
  <2> HIDE DEF c, d, u, Sum
  <2> QED BY <2>3, <2>5, <2>6, <2>7 DEF c
<1>3. S \in SUBSET S
  OBVIOUS
<1> QED BY <1>1, <1>2, <1>3

\* Elements can be listed by what they are worth, the greatest first.
LEMMA RankedByValue ==
  ASSUME NEW G, IsFiniteSet(G), NEW total, \A g \in G : total[g] \in Nat
  PROVE  \E s \in [1 .. Cardinality(G) -> G] :
           \A i, j \in 1 .. Cardinality(G) : i < j => s[i] # s[j] /\ total[s[i]] >= total[s[j]]
<1> DEFINE n == Cardinality(G)
           I == 1 .. n
<1>1. n \in Nat /\ ExistsBijection(I, G)
  BY FS_CardinalityType
<1>2. PICK b \in Bijection(I, G) : TRUE
  BY <1>1 DEF ExistsBijection
<1>3. b \in [I -> G] /\ \A i, j \in I : b[i] = b[j] => i = j
  BY <1>2 DEF Bijection, Injection, IsInjective
<1> DEFINE key == [i \in I |-> total[b[i]]]
           ahead == [x \in I |-> {y \in I : key[y] > key[x] \/ (key[y] = key[x] /\ y < x)}]
           r == Ranked(I, ahead)
           s == [i \in I |-> b[r[i]]]
<1>4. key \in [I -> Nat] /\ \A i \in I : key[i] = total[b[i]]
  BY <1>3
<1>5. IsFiniteSet(I) /\ Cardinality(I) = n /\ I \subseteq Nat
  <2>1. 1 \in Int /\ n \in Int
    BY <1>1
  <2>2. IsFiniteSet(I) /\ Cardinality(I) = IF 1 > n THEN 0 ELSE n - 1 + 1
    BY <2>1, FS_Interval
  <2> HIDE DEF n
  <2> QED BY <1>1, <2>2
<1>6. \A x \in I : ahead[x] = {y \in I : key[y] > key[x] \/ (key[y] = key[x] /\ y < x)}
  OBVIOUS
<1>a. key \in [I -> Nat]
  BY <1>4
<1>b. I \subseteq Nat
  BY <1>5
<1> HIDE DEF n, I, key, ahead
<1>7. Orders(I, ahead)
  BY <1>a, <1>b, KeyOrders DEF ahead
<1>8. LET q == Ranked(I, ahead) m == Cardinality(I) IN
      /\ m \in Nat /\ q \in [1 .. m -> I]
      /\ \A x \in I : \E k \in 1 .. m : q[k] = x
      /\ \A j, k \in 1 .. m : j < k <=> q[j] \in ahead[q[k]]
      /\ \A j, k \in 1 .. m : q[j] = q[k] => j = k
  BY <1>5, <1>7, RankedLists
<1>9. /\ r \in [I -> I] /\ \A j, k \in I : j < k <=> r[j] \in ahead[r[k]]
      /\ \A j, k \in I : r[j] = r[k] => j = k
  BY <1>5, <1>8 DEF I
<1> HIDE DEF r
<1>10. s \in [I -> G] /\ \A i \in I : s[i] = b[r[i]]
  BY <1>3, <1>9
<1> HIDE DEF s
<1>11. ASSUME NEW i \in I, NEW j \in I, i < j PROVE s[i] # s[j] /\ total[s[i]] >= total[s[j]]
  <2>1. r[i] \in I /\ r[j] \in I /\ r[i] \in ahead[r[j]]
    BY <1>9, <1>11
  <2>2. i # j
    BY <1>5, <1>11
  <2>3. s[i] # s[j]
    BY <1>3, <1>9, <1>10, <2>1, <2>2
  <2>4. key[r[i]] > key[r[j]] \/ key[r[i]] = key[r[j]]
    BY <1>6, <2>1
  <2>5. key[r[i]] = total[s[i]] /\ key[r[j]] = total[s[j]] /\ key[r[i]] \in Nat /\ key[r[j]] \in Nat
    BY <1>4, <1>10, <2>1
  <2> QED BY <2>3, <2>4, <2>5
<1> QED BY <1>10, <1>11 DEF I, n

\* A list without repetitions, as long as the set has elements, has them all.
LEMMA ListsAll ==
  ASSUME NEW G, IsFiniteSet(G), NEW s \in [1 .. Cardinality(G) -> G],
         \A i, j \in 1 .. Cardinality(G) : i < j => s[i] # s[j]
  PROVE  /\ \A i, j \in 1 .. Cardinality(G) : s[i] = s[j] => i = j
         /\ \A g \in G : \E i \in 1 .. Cardinality(G) : s[i] = g
<1> DEFINE n == Cardinality(G)
<1>1. n \in Nat
  BY FS_CardinalityType
<1>2. \A i, j \in 1 .. n : s[i] = s[j] => i = j
  <2> SUFFICES ASSUME NEW i \in 1 .. n, NEW j \in 1 .. n, s[i] = s[j], i # j PROVE FALSE
    OBVIOUS
  <2>1. i < j \/ j < i
    BY <1>1
  <2> QED BY <2>1
<1>3. s \in Injection(1 .. n, G)
  BY <1>2 DEF Injection, IsInjective
<1>4. Cardinality(1 .. n) = n
  <2>1. 1 \in Int /\ n \in Int
    BY <1>1
  <2>2. Cardinality(1 .. n) = IF 1 > n THEN 0 ELSE n - 1 + 1
    BY <2>1, FS_Interval
  <2> HIDE DEF n
  <2> QED BY <1>1, <2>2
<1>5. s \in Surjection(1 .. n, G)
  BY <1>3, <1>4, FS_Injection
<1> QED BY <1>2, <1>5 DEF Surjection

\* One entry is gone, the others stay.
LEMMA RemoveKeeps ==
  ASSUME NEW A, NEW s \in Seq(A), NEW i \in 1 .. Len(s)
  PROVE  /\ RemoveAt(s, i) \in Seq(A) /\ Len(RemoveAt(s, i)) = Len(s) - 1
         /\ \A j \in 1 .. Len(RemoveAt(s, i)) : \E k \in 1 .. Len(s) : RemoveAt(s, i)[j] = s[k]
<1>0. Len(s) \in Nat
  BY LenProperties
<1>1. SubSeq(s, 1, i - 1) \in Seq(A) /\ Len(SubSeq(s, 1, i - 1)) = i - 1
      /\ \A j \in 1 .. i - 1 : SubSeq(s, 1, i - 1)[j] = s[j]
  BY <1>0, SubSeqProperties
<1>2. SubSeq(s, i + 1, Len(s)) \in Seq(A) /\ Len(SubSeq(s, i + 1, Len(s))) = Len(s) - i
      /\ \A j \in 1 .. Len(s) - i : SubSeq(s, i + 1, Len(s))[j] = s[i + j]
  BY <1>0, SubSeqProperties
<1> DEFINE a == SubSeq(s, 1, i - 1)
           b == SubSeq(s, i + 1, Len(s))
<1>3. RemoveAt(s, i) = a \o b
  BY DEF RemoveAt
<1> HIDE DEF a, b
<1>4. a \o b \in Seq(A) /\ Len(a \o b) = Len(a) + Len(b)
      /\ \A j \in 1 .. Len(a) + Len(b) : (a \o b)[j] = IF j <= Len(a) THEN a[j] ELSE b[j - Len(a)]
  BY <1>1, <1>2, ConcatProperties DEF a, b
<1>a. Len(a) = i - 1 /\ Len(b) = Len(s) - i
  BY <1>1, <1>2 DEF a, b
<1>5. Len(a) = i - 1 /\ Len(b) = Len(s) - i /\ Len(a \o b) = Len(s) - 1
  BY <1>0, <1>4, <1>a
<1>6. ASSUME NEW j \in 1 .. Len(a \o b)
      PROVE  \E k \in 1 .. Len(s) : (a \o b)[j] = s[k]
  <2>1. CASE j <= i - 1
    <3>1. (a \o b)[j] = s[j]
      BY <1>1, <1>4, <1>5, <2>1 DEF a
    <3> QED BY <1>0, <2>1, <3>1
  <2>2. CASE j > i - 1
    <3>1. (a \o b)[j] = b[j - (i - 1)] /\ j - (i - 1) \in 1 .. Len(s) - i
      BY <1>0, <1>4, <1>5, <2>2
    <3>2. (a \o b)[j] = s[i + (j - (i - 1))]
      BY <1>2, <3>1 DEF b
    <3> QED BY <1>0, <3>1, <3>2
  <2> QED BY <1>0, <1>5, <2>1, <2>2
<1> QED BY <1>3, <1>4, <1>5, <1>6

\* The first entries of a list, and the sum of the others on top of them, add up to
\* what all of them do.
LEMMA FoldedBar ==
  ASSUME NEW G, NEW p \in Seq(G), NEW v, \A g \in G : v[g] \in Nat, NEW N \in Nat, N >= 1
  PROVE  LET m     == Len(p)
             top   == SubSeq(p, 1, Min({N, m}))
             other == SubSeq(p, N + 1, m)
             bar   == [i \in DOMAIN top |-> v[top[i]]]
                        \o IF other = <<>> THEN <<>>
                           ELSE <<SumFunctionOnSet([i \in DOMAIN other |-> v[other[i]]], DOMAIN other)>>
         IN /\ bar \in Seq(Nat)
            /\ SumFunctionOnSet(bar, DOMAIN bar) = SumFunctionOnSet([k \in 1 .. m |-> v[p[k]]], 1 .. m)
<1> DEFINE m     == Len(p)
           w     == [k \in 1 .. m |-> v[p[k]]]
           top   == SubSeq(p, 1, Min({N, m}))
           other == SubSeq(p, N + 1, m)
           tops  == [i \in DOMAIN top |-> v[top[i]]]
           rem   == SumFunctionOnSet([i \in DOMAIN other |-> v[other[i]]], DOMAIN other)
           bar   == tops \o IF other = <<>> THEN <<>> ELSE <<rem>>
<1>1. m \in Nat /\ \A k \in 1 .. m : p[k] \in G
  BY LenProperties, ElementOfSeq
<1>2. \A k \in 1 .. m : w[k] \in Nat /\ w[k] \in Int /\ w[k] = v[p[k]]
  BY <1>1
<1>3. Min({N, m}) = IF N <= m THEN N ELSE m
  BY <1>1, LesserOfTwo
<1> DEFINE n == IF N <= m THEN N ELSE m
<1>4. n \in Nat /\ n <= m /\ n \in Int
  BY <1>1
<1>a. \A i \in 1 .. n : i \in 1 .. m
  BY <1>1, <1>4
<1> HIDE DEF m, n
<1>5. /\ top \in Seq(G) /\ Len(top) = n /\ \A i \in 1 .. n : top[i] = p[i]
  <2>1. \A i \in 1 .. n : p[i] \in G
    BY <1>1, <1>4
  <2>2. /\ SubSeq(p, 1, n) \in Seq(G) /\ Len(SubSeq(p, 1, n)) = IF 1 <= n THEN n - 1 + 1 ELSE 0
        /\ \A i \in 1 .. n - 1 + 1 : SubSeq(p, 1, n)[i] = p[1 + i - 1]
    BY <1>4, <2>1, SubSeqProperties
  <2>3. top = SubSeq(p, 1, n)
    BY <1>3 DEF n
  <2> HIDE DEF top
  <2> QED BY <1>4, <2>2, <2>3
<1>6. tops \in Seq(Nat) /\ Len(tops) = n /\ \A i \in 1 .. n : tops[i] = w[i]
  <2>1. DOMAIN top = 1 .. n
    BY <1>5, LenProperties
  <2>2. \A i \in 1 .. n : v[top[i]] = w[i] /\ v[top[i]] \in Nat
    BY <1>1, <1>4, <1>5
  <2> HIDE DEF top, w
  <2>3. tops \in [1 .. n -> Nat]
    BY <2>1, <2>2
  <2>4. tops \in Seq(Nat) /\ Len(tops) = n
    BY <1>4, <2>3, IsASeq
  <2> QED BY <2>1, <2>2, <2>4
<1>7. IsFiniteSet(1 .. n) /\ IsFiniteSet(1 .. m)
  <2>1. 1 \in Int /\ m \in Int /\ n \in Int
    BY <1>1, <1>4
  <2> QED BY <2>1, FS_Interval
<1>8. SumFunctionOnSet(tops, 1 .. n) = SumFunctionOnSet(w, 1 .. n)
  <2>1. \A i \in 1 .. n : tops[i] \in Int /\ tops[i] = w[i]
    BY <1>2, <1>6, <1>a
  <2> HIDE DEF tops, w
  <2> QED BY <1>7, <2>1, SumSame
<1>9. CASE m <= N
  <2>1. n = m
    BY <1>1, <1>9 DEF n
  <2>2. other = <<>>
    <3>1. N + 1 \in Int /\ m \in Int /\ m < N + 1
      BY <1>1, <1>9
    <3> QED BY <3>1, SubSeqEmpty
  <2>3. bar = tops \o <<>>
    BY <2>2
  <2> HIDE DEF bar, tops, w, other
  <2>4. bar = tops
    BY <1>6, <2>3
  <2>5. DOMAIN bar = 1 .. m
    BY <1>6, <2>1, <2>4, LenProperties
  <2> QED BY <1>6, <1>8, <2>1, <2>4, <2>5 DEF bar, tops, w, other, m
<1>10. CASE m > N
  <2>1. n = N
    BY <1>1, <1>10 DEF n
  <2>2. /\ other \in Seq(G) /\ Len(other) = m - N /\ \A i \in 1 .. m - N : other[i] = p[N + i]
    <3>1. N + 1 \in Int /\ m \in Int /\ \A i \in N + 1 .. m : p[i] \in G
      BY <1>1
    <3>2. /\ other \in Seq(G) /\ Len(other) = IF N + 1 <= m THEN m - (N + 1) + 1 ELSE 0
          /\ \A i \in 1 .. m - (N + 1) + 1 : other[i] = p[(N + 1) + i - 1]
      BY <3>1, SubSeqProperties
    <3> HIDE DEF other
    <3>3. m - (N + 1) + 1 = m - N /\ N + 1 <= m
      BY <1>1, <1>10
    <3>4. ASSUME NEW i \in 1 .. m - N PROVE other[i] = p[N + i]
      <4>1. (N + 1) + i - 1 = N + i
        BY <1>1
      <4>2. other[i] = p[(N + 1) + i - 1]
        BY <3>2, <3>3
      <4> QED BY <4>1, <4>2
    <3> QED BY <3>2, <3>3, <3>4
  <2>3. other # <<>> /\ DOMAIN other = 1 .. m - N /\ m - N \in Nat /\ m - N >= 1
    <3> HIDE DEF other
    <3>1. m - N \in Nat /\ m - N >= 1
      BY <1>1, <1>10
    <3>2. DOMAIN other = 1 .. m - N
      BY <2>2, LenProperties
    <3>3. Len(<<>>) = 0
      OBVIOUS
    <3> QED BY <2>2, <3>1, <3>2, <3>3
  <2> DEFINE I == 1 .. m - N
             J == N + 1 .. m
             e == [i \in DOMAIN other |-> v[other[i]]]
             sh == [i \in I |-> N + i]
  <2>4. IsFiniteSet(I) /\ IsFiniteSet(J)
    <3>1. 1 \in Int /\ m - N \in Int /\ N + 1 \in Int /\ m \in Int
      BY <1>1
    <3> QED BY <3>1, FS_Interval
  <2>5. /\ \A i \in I : sh[i] \in J /\ e[i] \in Int /\ w[sh[i]] = e[i]
        /\ \A i, j \in I : sh[i] = sh[j] => i = j
        /\ \A k \in J : \E i \in I : sh[i] = k
    <3>1. \A i \in I : N + i \in J /\ N + i \in 1 .. m
      BY <1>1
    <3>2. \A i \in I : e[i] = v[p[N + i]]
      BY <2>2, <2>3
    <3>3. \A i \in I : w[N + i] = v[p[N + i]] /\ w[N + i] \in Int
      BY <1>2, <3>1
    <3>4. \A k \in J : k - N \in I /\ N + (k - N) = k
      BY <1>1
    <3>5. \A i, j \in I : N + i = N + j => i = j
      BY <1>1
    <3> HIDE DEF I, J, e, w
    <3> QED BY <3>1, <3>2, <3>3, <3>4, <3>5
  <2>6. rem = SumFunctionOnSet(e, I)
    BY <2>3
  <2>7. SumFunctionOnSet(w, J) = rem
    <3> HIDE DEF I, J, e, w, sh, rem
    <3>1. SumFunctionOnSet(w, J) = SumFunctionOnSet(e, I)
      BY <2>4, <2>5, SumMoved
    <3> QED BY <2>6, <3>1
  <2>8. rem \in Nat
    <3>1. \A k \in J : w[k] \in Nat
      BY <1>1, <1>2
    <3> HIDE DEF J, w, rem
    <3> QED BY <2>4, <2>7, <3>1, SumNat
  <2>9. bar = tops \o <<rem>>
    BY <2>3
  <2> HIDE DEF bar, tops, w, other, rem, I, J, e, sh
  <2>10. bar = Append(tops, rem)
    BY <1>6, <2>9
  <2>11. /\ bar \in Seq(Nat) /\ Len(bar) = N + 1 /\ bar[N + 1] = rem
         /\ \A i \in 1 .. N : bar[i] = tops[i]
    BY <1>6, <2>1, <2>8, <2>10, AppendProperties
  <2>12. DOMAIN bar = 1 .. N + 1
    BY <2>11, LenProperties
  <2>13. SumFunctionOnSet(bar, 1 .. N + 1) = rem + SumFunctionOnSet(bar, 1 .. N)
    <3>1. IsFiniteSet(1 .. N) /\ N + 1 \notin 1 .. N /\ 1 .. N + 1 = (1 .. N) \cup {N + 1}
      BY <1>7, <2>1
    <3>2. \A i \in (1 .. N) \cup {N + 1} : bar[i] \in Int
      BY <1>2, <1>4, <1>6, <2>1, <2>8, <2>11
    <3>3. SumFunctionOnSet(bar, (1 .. N) \cup {N + 1}) = bar[N + 1] + SumFunctionOnSet(bar, 1 .. N)
      BY <3>1, <3>2, SumAdd
    <3> QED BY <2>11, <3>1, <3>3
  <2>14. SumFunctionOnSet(bar, 1 .. N) = SumFunctionOnSet(w, 1 .. N)
    <3>1. IsFiniteSet(1 .. N) /\ \A i \in 1 .. N : bar[i] \in Int /\ bar[i] = w[i]
      BY <1>2, <1>4, <1>6, <1>7, <2>1, <2>11
    <3> QED BY <3>1, SumSame
  <2>15. SumFunctionOnSet(w, 1 .. m) = SumFunctionOnSet(w, 1 .. N) + SumFunctionOnSet(w, J)
    <3>1. IsFiniteSet(1 .. N) /\ (1 .. N) \cap J = {} /\ 1 .. m = (1 .. N) \cup J
      BY <1>1, <1>7, <1>10, <2>1 DEF J
    <3>2. \A k \in (1 .. N) \cup J : w[k] \in Int
      BY <1>2, <3>1
    <3>3. SumFunctionOnSet(w, (1 .. N) \cup J) = SumFunctionOnSet(w, 1 .. N) + SumFunctionOnSet(w, J)
      BY <2>4, <3>1, <3>2, SumUnion
    <3> QED BY <3>1, <3>3
  <2>16. SumFunctionOnSet(w, 1 .. N) \in Nat
    <3>1. IsFiniteSet(1 .. N) /\ \A k \in 1 .. N : w[k] \in Nat
      BY <1>2, <1>7, <1>a, <2>1
    <3> QED BY <3>1, SumNat
  <2>17. SumFunctionOnSet(bar, DOMAIN bar) = SumFunctionOnSet(w, 1 .. m)
    BY <2>7, <2>8, <2>12, <2>13, <2>14, <2>15, <2>16
  <2> QED BY <2>11, <2>17 DEF bar, tops, w, other, rem, m
<1>11. m <= N \/ m > N
  BY <1>1
<1> QED BY <1>9, <1>10, <1>11
=============================================================================
