-------------------------- MODULE OrderedSetsProofs --------------------------
(***************************************************************************)
(* Lemmas about finite sets of numbers for the proofs about components:    *)
(* sorted sequences, ranks and sums.  They are proved from the least       *)
(* counterexample, since no induction theorem can be instantiated.         *)
(***************************************************************************)
EXTENDS OrderedSets, FiniteSetTheorems, SequenceTheorems, WellFoundedInduction, TLAPS

\* A non-empty set of naturals has a smallest element.
LEMMA LeastExists ==
    ASSUME NEW S, S \subseteq Nat, S # {}
    PROVE  \E x \in S : \A y \in S : x <= y
<1>1. PICK x \in S : \A y \in S : ~ (<<y, x>> \in OpToRel(<, Nat))
  BY WFMin, NatLessThanWellFounded
<1>2. \A y \in S : x <= y
  <2> SUFFICES ASSUME NEW y \in S PROVE x <= y
    OBVIOUS
  <2>1. <<y, x>> \in Nat \X Nat /\ <<y, x>>[1] = y /\ <<y, x>>[2] = x
    OBVIOUS
  <2>2. ~(y < x)
    BY <1>1, <2>1 DEF OpToRel
  <2>. QED  BY <2>1, <2>2
<1>. QED  BY <1>1, <1>2

Least(S) == CHOOSE x \in S : \A y \in S : x <= y

LEMMA LeastIsLeast ==
    ASSUME NEW S, S \subseteq Nat, S # {}
    PROVE  Least(S) \in S /\ \A y \in S : Least(S) <= y
BY LeastExists DEF Least

-----------------------------------------------------------------------------
(* Sequences without repetition, sorted sequences. *)

Distinct(s) == \A i, j \in DOMAIN s : i # j => s[i] # s[j]

\* A sequence without repetition is as long as it has elements.
LEMMA DistinctLength ==
    ASSUME NEW S, NEW s \in Seq(S), Distinct(s)
    PROVE  IsFiniteSet(Range(s)) /\ Cardinality(Range(s)) = Len(s)
<1>1. Len(s) \in Nat /\ DOMAIN s = 1..Len(s)
  BY LenProperties
<1>2. s \in [1..Len(s) -> Range(s)]
  BY <1>1 DEF Range
<1>3. s \in Bijection(1..Len(s), Range(s))
  <2>1. s \in Injection(1..Len(s), Range(s))
    BY <1>1, <1>2 DEF Injection, IsInjective, Distinct
  <2>2. s \in Surjection(1..Len(s), Range(s))
    BY <1>1, <1>2 DEF Surjection, Range
  <2>. QED  BY <2>1, <2>2 DEF Bijection
<1>4. ExistsBijection(1..Len(s), Range(s))
  BY <1>3 DEF ExistsBijection
<1>5. IsFiniteSet(1..Len(s)) /\ Cardinality(1..Len(s)) = Len(s)
  BY <1>1, FS_Interval
<1>. QED  BY <1>4, <1>5, FS_Bijection

Increasing(s, n) == \A i, j \in 1..n : i < j => s[i] < s[j]

\* A finite set of numbers can be sorted.
LEMMA SortedExists ==
    ASSUME NEW A, A \subseteq Nat, IsFiniteSet(A)
    PROVE  \E s \in [1..Cardinality(A) -> A] : Increasing(s, Cardinality(A))
<1> DEFINE Sortable(S) == \E s \in [1..Cardinality(S) -> S] : Increasing(s, Cardinality(S))
           Bad == {n \in Nat : \E S \in SUBSET Nat :
                      IsFiniteSet(S) /\ Cardinality(S) = n /\ ~Sortable(S)}
<1>1. Bad = {}
  <2> SUFFICES ASSUME Bad # {} PROVE FALSE
    OBVIOUS
  <2> DEFINE n == Least(Bad)
  <2>1. n \in Bad /\ \A m \in Bad : n <= m
    BY LeastIsLeast
  <2>. HIDE DEF n
  <2>2. PICK S \in SUBSET Nat : IsFiniteSet(S) /\ Cardinality(S) = n /\ ~Sortable(S)
    BY <2>1
  <2>3. S # {}
    <3> SUFFICES ASSUME S = {} PROVE Sortable(S)
      BY <2>2
    <3>1. Cardinality(S) = 0 /\ 1..0 = {}
      BY FS_EmptySet
    <3>2. [i \in {} |-> i] \in [1..Cardinality(S) -> S]
      BY <3>1
    <3>. QED  BY <3>1, <3>2 DEF Increasing
  <2> DEFINE x == Least(S)
             T == S \ {x}
  <2>4. x \in S /\ \A y \in S : x <= y
    BY <2>3, LeastIsLeast
  <2>5. IsFiniteSet(T) /\ Cardinality(T) = n - 1 /\ T \in SUBSET Nat /\ n \in Nat /\ n # 0
    BY <2>1, <2>2, <2>3, <2>4, FS_RemoveElement, FS_EmptySet
  <2>. HIDE DEF x
  <2>6. Sortable(T)
    <3>1. n - 1 \in Nat /\ ~(n <= n - 1)
      BY <2>5
    <3>2. n - 1 \notin Bad
      BY <2>1, <3>1
    <3>. QED  BY <2>5, <3>1, <3>2
  <2>7. PICK s \in [1..(n - 1) -> T] : Increasing(s, n - 1)
    BY <2>5, <2>6
  <2> DEFINE f == [i \in 1..n |-> IF i = 1 THEN x ELSE s[i - 1]]
  <2>8. f \in [1..n -> S]
    <3>1. \A i \in 1..n : i # 1 => i - 1 \in 1..(n - 1)
      BY <2>5
    <3>. QED  BY <2>4, <2>7, <3>1
  <2>9. Increasing(f, n)
    <3> SUFFICES ASSUME NEW i \in 1..n, NEW j \in 1..n, i < j PROVE f[i] < f[j]
      BY DEF Increasing
    <3>1. j - 1 \in 1..(n - 1) /\ f[j] = s[j - 1] /\ s[j - 1] \in T
      BY <2>5, <2>7
    <3>2. CASE i = 1
      <4>1. x \in Nat /\ s[j - 1] \in Nat /\ x <= s[j - 1] /\ x # s[j - 1]
        BY <2>4, <3>1
      <4>. QED  BY <3>1, <3>2, <4>1
    <3>3. CASE i # 1
      <4>1. i - 1 \in 1..(n - 1) /\ i - 1 < j - 1 /\ f[i] = s[i - 1]
        BY <2>5, <3>3
      <4>. QED  BY <2>7, <3>1, <4>1 DEF Increasing
    <3>. QED  BY <3>2, <3>3
  <2>. HIDE DEF f
  <2>. QED  BY <2>2, <2>8, <2>9
<1>2. Cardinality(A) \in Nat
  BY FS_CardinalityType
<1>. QED  BY <1>1, <1>2

\* Sorting a set puts each member once into the sequence.
LEMMA AscendingIsSorted ==
    ASSUME NEW S, S \subseteq Nat, IsFiniteSet(S)
    PROVE  /\ Ascending(S) \in Seq(S) /\ Len(Ascending(S)) = Cardinality(S)
           /\ Distinct(Ascending(S)) /\ Range(Ascending(S)) = S
<1> DEFINE n == Cardinality(S)
           s == Ascending(S)
<1>1. n \in Nat
  BY FS_CardinalityType
<1>2. s \in [1..n -> S] /\ Increasing(s, n)
  BY SortedExists DEF Ascending, Increasing
<1>. HIDE DEF s, n
<1>3. s \in Seq(S) /\ Len(s) = n /\ DOMAIN s = 1..n
  BY <1>1, <1>2
<1>4. Distinct(s)
  <2> SUFFICES ASSUME NEW i \in 1..n, NEW j \in 1..n, i # j PROVE s[i] # s[j]
    BY <1>3 DEF Distinct
  <2>1. i < j \/ j < i
    BY <1>1
  <2>2. s[i] \in Nat /\ s[j] \in Nat
    BY <1>2
  <2>. QED  BY <1>2, <2>1, <2>2 DEF Increasing
<1>5. Range(s) \in SUBSET S
  BY <1>2 DEF Range
<1>6. Cardinality(Range(s)) = n
  BY <1>3, <1>4, DistinctLength
<1>7. Range(s) = S
  BY <1>5, <1>6, FS_Subset DEF n
<1>. QED  BY <1>3, <1>4, <1>7 DEF s, n
-----------------------------------------------------------------------------
(* Ranks. *)

\* The members of a finite set have the ranks from 0 up, each a rank of its own.
LEMMA Ranks ==
    ASSUME NEW S, S \subseteq Nat, IsFiniteSet(S)
    PROVE  /\ Cardinality(S) \in Nat
           /\ \A x \in S : Rank(S, x) \in 0..(Cardinality(S) - 1)
           /\ \A x, y \in S : x < y => Rank(S, x) < Rank(S, y)
           /\ \A x, y \in S : Rank(S, x) = Rank(S, y) => x = y
           /\ \A r \in 0..(Cardinality(S) - 1) : \E x \in S : Rank(S, x) = r
<1> DEFINE n == Cardinality(S)
           Below(x) == {y \in S : y < x}
<1>1. n \in Nat
  BY FS_CardinalityType
<1>2. \A x \in S : Rank(S, x) \in 0..(n - 1)
  <2> SUFFICES ASSUME NEW x \in S PROVE Rank(S, x) \in 0..(n - 1)
    OBVIOUS
  <2>1. Below(x) \in SUBSET S /\ Below(x) # S
    OBVIOUS
  <2>2. IsFiniteSet(Below(x)) /\ Cardinality(Below(x)) <= n /\ Cardinality(Below(x)) # n
    BY <2>1, FS_Subset
  <2>3. Cardinality(Below(x)) \in Nat
    BY <2>2, FS_CardinalityType
  <2>. QED  BY <1>1, <2>2, <2>3 DEF Rank
<1>3. \A x, y \in S : x < y => Rank(S, x) < Rank(S, y)
  <2> SUFFICES ASSUME NEW x \in S, NEW y \in S, x < y PROVE Rank(S, x) < Rank(S, y)
    OBVIOUS
  <2>0. x \in Nat /\ y \in Nat /\ ~(x < x) /\ \A z \in S : z < x => z < y
    OBVIOUS
  <2>1. Below(y) \in SUBSET S /\ Below(x) \in SUBSET Below(y) /\ x \in Below(y) /\ x \notin Below(x)
    BY <2>0
  <2>2. IsFiniteSet(Below(y))
    BY <2>1, FS_Subset
  <2>3. /\ IsFiniteSet(Below(x)) /\ Cardinality(Below(x)) <= Cardinality(Below(y))
        /\ Cardinality(Below(x)) # Cardinality(Below(y))
    BY <2>1, <2>2, FS_Subset
  <2>4. Cardinality(Below(x)) \in Nat /\ Cardinality(Below(y)) \in Nat
    BY <2>2, <2>3, FS_CardinalityType
  <2>. QED  BY <2>3, <2>4 DEF Rank
<1>. HIDE DEF n
<1>4. \A x, y \in S : Rank(S, x) = Rank(S, y) => x = y
  <2> SUFFICES ASSUME NEW x \in S, NEW y \in S, Rank(S, x) = Rank(S, y), x # y PROVE FALSE
    OBVIOUS
  <2>1. x < y \/ y < x
    OBVIOUS
  <2>2. Rank(S, x) \in Nat
    BY <1>1, <1>2
  <2>. QED  BY <1>3, <2>1, <2>2
<1> DEFINE f == [x \in S |-> Rank(S, x)]
           R == 0..(n - 1)
<1>5. IsFiniteSet(R) /\ Cardinality(R) = n
  <2>1. 0 \in Int /\ n - 1 \in Int
    BY <1>1
  <2>2. Cardinality(R) = IF 0 > n - 1 THEN 0 ELSE (n - 1) - 0 + 1
    BY <2>1, FS_Interval
  <2>3. IsFiniteSet(R)
    BY <2>1, FS_Interval
  <2>. QED  BY <1>1, <2>2, <2>3
<1>6. f \in Injection(S, R)
  BY <1>2, <1>4 DEF Injection, IsInjective
<1>. HIDE DEF R
<1>7. f \in Surjection(S, R)
  BY <1>5, <1>6, FS_Injection DEF n
<1>8. \A r \in R : \E x \in S : Rank(S, x) = r
  BY <1>7 DEF Surjection
<1>. QED  BY <1>1, <1>2, <1>3, <1>4, <1>8 DEF n, R

\* In a larger set a member comes no earlier.
LEMMA RanksGrow ==
    ASSUME NEW S, NEW T, T \subseteq Nat, IsFiniteSet(T), S \subseteq T, NEW x
    PROVE  Rank(S, x) \in Nat /\ Rank(T, x) \in Nat /\ Rank(S, x) <= Rank(T, x)
<1>1. {y \in T : y < x} \in SUBSET T /\ {y \in S : y < x} \in SUBSET {y \in T : y < x}
  OBVIOUS
<1>2. IsFiniteSet({y \in T : y < x})
  BY <1>1, FS_Subset
<1>3. IsFiniteSet({y \in S : y < x}) /\ Cardinality({y \in S : y < x}) <= Cardinality({y \in T : y < x})
  BY <1>1, <1>2, FS_Subset
<1>. QED  BY <1>2, <1>3, FS_CardinalityType DEF Rank

\* The members of the ranks from a on, at most n of them: as many as there are
\* ranks, or all there are.
LEMMA Window ==
    ASSUME NEW S, S \subseteq Nat, IsFiniteSet(S), NEW a \in Nat, NEW n \in Nat \ {0}
    PROVE  LET W == {x \in S : Rank(S, x) \in a..(a + n - 1)}
           IN  /\ Cardinality(W) \in 0..n
               /\ Cardinality(W) < n => \A x \in S : Rank(S, x) >= a => x \in W
<1> DEFINE W == {x \in S : Rank(S, x) \in a..(a + n - 1)}
           R == a..(a + n - 1)
           f == [x \in W |-> Rank(S, x)]
<1>1. IsFiniteSet(R) /\ Cardinality(R) = n
  <2>1. a \in Int /\ a + n - 1 \in Int
    OBVIOUS
  <2>2. Cardinality(R) = IF a > a + n - 1 THEN 0 ELSE (a + n - 1) - a + 1
    BY <2>1, FS_Interval
  <2>3. IsFiniteSet(R)
    BY <2>1, FS_Interval
  <2>. QED  BY <2>2, <2>3
<1>2. f \in Injection(W, R)
  BY Ranks DEF Injection, IsInjective
<1>3. IsFiniteSet(W) /\ Cardinality(W) <= n /\ Cardinality(W) \in Nat
  <2>. HIDE DEF W, R, f
  <2>. QED  BY <1>1, <1>2, FS_Injection, FS_CardinalityType
<1>4. ASSUME Cardinality(W) < n, NEW x \in S, Rank(S, x) >= a
      PROVE  x \in W
  <2> SUFFICES ASSUME x \notin W PROVE FALSE
    OBVIOUS
  <2>1. /\ Cardinality(S) \in Nat /\ Rank(S, x) \in 0..(Cardinality(S) - 1)
        /\ \A r \in 0..(Cardinality(S) - 1) : \E y \in S : Rank(S, y) = r
    BY Ranks
  <2>2. Rank(S, x) > a + n - 1
    BY <1>4, <2>1
  <2>3. \A r \in R : r \in 0..(Cardinality(S) - 1)
    BY <2>1, <2>2
  <2>4. \A r \in R : \E y \in W : Rank(S, y) = r
    BY <2>1, <2>3
  <2>5. f \in Surjection(W, R)
    BY <1>2, <2>4 DEF Surjection, Injection
  <2>. HIDE DEF W, R, f
  <2>6. Cardinality(W) = Cardinality(R)
    BY <1>1, <1>2, <2>5, FS_Injection
  <2>. QED  BY <1>1, <1>3, <1>4, <2>6
<1>. QED  BY <1>3, <1>4
-----------------------------------------------------------------------------
(* Sums. *)

Pick(s) == CHOOSE x \in s : TRUE

\* What MapThenSumSet computes of the weights w of a set, for each subset on the
\* way.
IsSums(iter, w, Subsets) ==
    iter = [s \in Subsets |-> IF s = {} THEN 0 ELSE w[Pick(s)] + iter[s \ {Pick(s)}]]

\* There is such a function: it can be defined for ever larger subsets.
LEMMA SumsExist ==
    ASSUME NEW S, IsFiniteSet(S), NEW w
    PROVE  \E iter : IsSums(iter, w, SUBSET S)
<1> DEFINE UpTo(n) == {s \in SUBSET S : Cardinality(s) <= n}
           Bad == {n \in Nat : ~ \E iter : IsSums(iter, w, UpTo(n))}
<1>f. \A s \in SUBSET S : IsFiniteSet(s) /\ Cardinality(s) \in Nat
  BY FS_Subset, FS_CardinalityType
<1>p. \A s \in SUBSET S : s # {} =>
         /\ Pick(s) \in s /\ s \ {Pick(s)} \in SUBSET S
         /\ Cardinality(s \ {Pick(s)}) = Cardinality(s) - 1
  BY <1>f, FS_RemoveElement DEF Pick
<1>1. Bad = {}
  <2> SUFFICES ASSUME Bad # {} PROVE FALSE
    OBVIOUS
  <2> DEFINE n == Least(Bad)
  <2>1. n \in Bad /\ \A m \in Bad : n <= m
    BY LeastIsLeast
  <2>. HIDE DEF n
  <2>2. n # 0
    <3> SUFFICES ASSUME n = 0 PROVE FALSE
      OBVIOUS
    <3>1. \A s \in UpTo(0) : s = {}
      BY <1>f, FS_EmptySet
    <3>2. IsSums([s \in UpTo(0) |-> 0], w, UpTo(0))
      BY <3>1 DEF IsSums
    <3>. QED  BY <2>1, <3>2
  <2>3. n \in Nat /\ n - 1 \in Nat /\ ~(n <= n - 1)
    BY <2>1, <2>2
  <2>4. PICK iter : IsSums(iter, w, UpTo(n - 1))
    BY <2>1, <2>3
  <2> DEFINE g == [s \in UpTo(n) |->
                      IF Cardinality(s) <= n - 1 THEN iter[s]
                      ELSE w[Pick(s)] + iter[s \ {Pick(s)}]]
  <2>5. \A s \in UpTo(n - 1) : s \in UpTo(n) /\ g[s] = iter[s]
    BY <1>f, <2>3
  <2>6. ASSUME NEW s \in UpTo(n)
        PROVE  g[s] = IF s = {} THEN 0 ELSE w[Pick(s)] + g[s \ {Pick(s)}]
    <3>1. Cardinality(s) \in Nat /\ s \in SUBSET S
      BY <1>f
    <3>2. CASE s = {}
      <4>1. s \in UpTo(n - 1)
        BY <2>3, <3>2, FS_EmptySet
      <4>2. iter[s] = 0
        BY <2>4, <3>2, <4>1 DEF IsSums
      <4>. QED  BY <2>5, <3>2, <4>1, <4>2
    <3>3. CASE s # {}
      <4>1. s \ {Pick(s)} \in UpTo(n - 1)
        BY <1>p, <2>3, <3>1, <3>3
      <4>2. g[s \ {Pick(s)}] = iter[s \ {Pick(s)}]
        BY <2>5, <4>1
      <4>3. CASE Cardinality(s) <= n - 1
        <5>1. s \in UpTo(n - 1)
          BY <3>1, <4>3
        <5>2. iter[s] = w[Pick(s)] + iter[s \ {Pick(s)}]
          BY <2>4, <3>3, <5>1 DEF IsSums
        <5>. QED  BY <2>5, <3>3, <4>2, <5>1, <5>2
      <4>4. CASE ~(Cardinality(s) <= n - 1)
        BY <3>3, <4>2, <4>4
      <4>. QED  BY <4>3, <4>4
    <3>. QED  BY <3>2, <3>3
  <2>7. IsSums(g, w, UpTo(n))
    <3>1. g = [s \in UpTo(n) |-> g[s]]
      OBVIOUS
    <3>. HIDE DEF g, UpTo
    <3>. QED  BY <2>6, <3>1 DEF IsSums
  <2>. QED  BY <2>1, <2>7
<1>2. UpTo(Cardinality(S)) = SUBSET S /\ Cardinality(S) \in Nat
  BY FS_Subset, FS_CardinalityType
<1>. HIDE DEF UpTo
<1>3. \E iter : IsSums(iter, w, SUBSET S)
  <2>1. Cardinality(S) \notin Bad
    BY <1>1
  <2>2. \E iter : IsSums(iter, w, UpTo(Cardinality(S)))
    BY <1>2, <2>1
  <2>. QED  BY <1>2, <2>2
<1>. QED  BY <1>3

\* A sum of naturals is one, and no weight is more than the sum.
LEMMA SumsBound ==
    ASSUME NEW S, IsFiniteSet(S), NEW w, \A x \in S : w[x] \in Nat,
           NEW iter, IsSums(iter, w, SUBSET S)
    PROVE  iter[S] \in Nat /\ \A x \in S : w[x] <= iter[S]
<1> DEFINE Bounds(s) == iter[s] \in Nat /\ \A x \in s : w[x] <= iter[s]
           Bad == {n \in Nat : \E s \in SUBSET S : Cardinality(s) = n /\ ~Bounds(s)}
<1>1. Bad = {}
  <2> SUFFICES ASSUME Bad # {} PROVE FALSE
    OBVIOUS
  <2> DEFINE n == Least(Bad)
  <2>1. n \in Bad /\ \A m \in Bad : n <= m
    BY LeastIsLeast
  <2>. HIDE DEF n
  <2>2. PICK s \in SUBSET S : Cardinality(s) = n /\ ~Bounds(s)
    BY <2>1
  <2>3. s # {}
    BY <2>2 DEF IsSums
  <2> DEFINE p == Pick(s)
  <2>4. /\ p \in s /\ iter[s] = w[p] + iter[s \ {p}]
        /\ IsFiniteSet(s) /\ n \in Nat
    BY <2>2, <2>3, FS_Subset, FS_CardinalityType DEF IsSums, Pick
  <2>. HIDE DEF p
  <2>5. Cardinality(s \ {p}) = n - 1 /\ n - 1 \in Nat
    <3>1. IsFiniteSet(s \ {p}) /\ Cardinality(s \ {p}) = n - 1
      BY <2>2, <2>4, FS_RemoveElement
    <3>. QED  BY <3>1, FS_CardinalityType
  <2>6. Bounds(s \ {p})
    <3>1. n - 1 \notin Bad
      BY <2>1, <2>5
    <3>. QED  BY <2>5, <3>1
  <2>7. w[p] \in Nat /\ iter[s \ {p}] \in Nat
    BY <2>4, <2>6
  <2>8. \A x \in s : w[x] \in Nat /\ (x = p \/ w[x] <= iter[s \ {p}])
    BY <2>6
  <2>9. iter[s] \in Nat
    BY <2>4, <2>7
  <2>10. \A x \in s : w[x] <= iter[s]
    <3> SUFFICES ASSUME NEW x \in s PROVE w[x] <= w[p] + iter[s \ {p}]
      BY <2>4
    <3>1. CASE x = p
      BY <2>7, <3>1
    <3>2. CASE x # p
      <4> DEFINE rest == iter[s \ {p}]
      <4>1. w[x] \in Nat /\ w[x] <= rest /\ w[p] \in Nat /\ rest \in Nat
        BY <2>7, <2>8, <3>2
      <4>. HIDE DEF rest
      <4>2. w[x] <= w[p] + rest
        BY <4>1
      <4>. QED  BY <4>2 DEF rest
    <3>. QED  BY <3>1, <3>2
  <2>. QED  BY <2>2, <2>9, <2>10
<1>. QED  BY <1>1, FS_CardinalityType
=============================================================================
