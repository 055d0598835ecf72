-------------------------- MODULE TableOrderProofs --------------------------
(***************************************************************************)
(* Proofs about TableOrder, for every set of tables, every schema over     *)
(* them and every selection.                                               *)
(*                                                                         *)
(* The inductive invariant IInv says what the three collections of the     *)
(* sort hold at any time: the tables emitted, the frontier and the counted *)
(* tables partition the selection, a count is the number of parents not    *)
(* yet emitted, and it is never zero.                                      *)
(***************************************************************************)
EXTENDS TableOrder, OrderedSetsProofs

Emitted == Range(ordered)

\* The tables of the selection are emitted, ready or counted, and only one.
Partition ==
    /\ nodes = Emitted \cup ready \cup DOMAIN remaining
    /\ Emitted \cap ready = {}
    /\ Emitted \cap DOMAIN remaining = {}
    /\ ready \cap DOMAIN remaining = {}

\* A counted table misses as many parents as its count says, at least one.
CountsAreExact ==
    \A t \in DOMAIN remaining :
        /\ remaining[t] = Cardinality(ParentsOf(t) \ Emitted)
        /\ remaining[t] # 0

\* A table on the frontier misses no parent.
ReadyIsReady == \A t \in ready : ParentsOf(t) \subseteq Emitted

\* The sort ends with an empty frontier, and what is left is stuck.
StuckIsRest ==
    /\ pc = "sort" => stuck = {}
    /\ pc # "sort" => ready = {} /\ stuck = DOMAIN remaining

IInv == TypeOK /\ Partition /\ CountsAreExact /\ ReadyIsReady /\ StuckIsRest

-----------------------------------------------------------------------------
\* A non-empty set of table ids has a smallest element, the one BTreeSet's
\* iterator yields first.
LEMMA SmallestIsLeast ==
    ASSUME NEW S, S \subseteq Nat, S # {}
    PROVE  Smallest(S) \in S /\ \A y \in S : Smallest(S) <= y
BY LeastExists DEF Smallest

\* The parents of a table are finitely many.
LEMMA ParentsFinite ==
    ASSUME TypeOK, NEW t
    PROVE  IsFiniteSet(ParentsOf(t)) /\ ParentsOf(t) \subseteq nodes
<1>1. ParentsOf(t) \in SUBSET Tables
  BY DEF ParentsOf, TypeOK
<1>. QED  BY <1>1, TablesAssumption, FS_Subset DEF ParentsOf

\* Emitting a table adds it, and nothing else, to the set of emitted tables.
LEMMA EmittedAppend ==
    ASSUME ordered \in Seq(nodes), NEW x \in nodes,
           ordered' = Append(ordered, x), nodes' = nodes
    PROVE  Emitted' = Emitted \cup {x}
BY DEF Emitted, Range

-----------------------------------------------------------------------------
LEMMA InitIInv == Init => IInv
<1> SUFFICES ASSUME Init PROVE IInv
  OBVIOUS
<1>1. \A t : IsFiniteSet(ParentsOf(t))
  <2> SUFFICES ASSUME NEW t PROVE IsFiniteSet(ParentsOf(t))
    OBVIOUS
  <2>1. ParentsOf(t) \in SUBSET Tables
    BY InputsAssumption DEF Init, ParentsOf
  <2>. QED  BY <2>1, TablesAssumption, FS_Subset
<1>2. \A t : MissingParents(t) \in Nat /\ (MissingParents(t) = 0 <=> ParentsOf(t) = {})
  BY <1>1, FS_CardinalityType, FS_EmptySet DEF MissingParents
<1>3. Emitted = {}
  BY DEF Init, Emitted, Range
<1>4. TypeOK
  BY <1>2, InputsAssumption DEF Init, TypeOK
<1>5. Partition
  BY <1>3 DEF Init, Partition
<1>6. CountsAreExact
  <2>1. \A t : ParentsOf(t) \ Emitted = ParentsOf(t)
    BY <1>3
  <2>. QED  BY <1>2, <2>1 DEF Init, CountsAreExact, MissingParents
<1>7. ReadyIsReady
  BY <1>2 DEF Init, ReadyIsReady
<1>. QED  BY <1>4, <1>5, <1>6, <1>7 DEF Init, IInv, StuckIsRest

-----------------------------------------------------------------------------
\* What one iteration of the sort does to the counts: the missing parents of a
\* child of the emitted table are one fewer, those of other tables the same.
LEMMA MissingAfterEmit ==
    ASSUME TypeOK, NEW x \in nodes, x \notin Emitted, NEW t \in nodes
    PROVE  Cardinality(ParentsOf(t) \ (Emitted \cup {x})) =
              IF t \in ChildrenOf(x) THEN Cardinality(ParentsOf(t) \ Emitted) - 1
                                     ELSE Cardinality(ParentsOf(t) \ Emitted)
<1> DEFINE M == ParentsOf(t) \ Emitted
<1>1. IsFiniteSet(M)
  BY ParentsFinite, FS_Subset
<1>2. ParentsOf(t) \ (Emitted \cup {x}) = M \ {x}
  OBVIOUS
<1>3. x \in M <=> t \in ChildrenOf(x)
  BY DEF ChildrenOf
<1>. QED  BY <1>1, <1>2, <1>3, FS_RemoveElement

LEMMA EmitIInv == IInv /\ Emit => IInv'
<1> SUFFICES ASSUME IInv, Emit PROVE IInv'
  OBVIOUS
<1> DEFINE x == Smallest(ready)
<1>a. TypeOK /\ Partition /\ CountsAreExact /\ ReadyIsReady /\ StuckIsRest
  BY DEF IInv
<1>b. x \in ready /\ x \in nodes /\ x \notin Emitted /\ x \notin DOMAIN remaining
  BY <1>a, SmallestIsLeast, TablesAssumption DEF Emit, TypeOK, Partition
<1>c. /\ ordered' = Append(ordered, x)
      /\ ready' = (ready \ {x}) \cup Freed(x)
      /\ remaining' = [c \in DOMAIN remaining \ Freed(x) |->
                          IF c \in ChildrenOf(x) THEN remaining[c] - 1 ELSE remaining[c]]
      /\ UNCHANGED <<fks, nodes, pc, stuck, starts, visited, path, cursor, cycles, order>>
  BY DEF Emit, inputs, walking
<1>d. Emitted' = Emitted \cup {x}
  BY <1>a, <1>b, <1>c, EmittedAppend DEF TypeOK
<1>e. Freed(x) \subseteq DOMAIN remaining /\ DOMAIN remaining' = DOMAIN remaining \ Freed(x)
  BY <1>c DEF Freed
<1>f. \A t : ParentsOf(t)' = ParentsOf(t)
  BY <1>c DEF ParentsOf
<1>g. \A t \in DOMAIN remaining : remaining[t] \in Nat \ {0}
  BY <1>a DEF CountsAreExact, TypeOK
<1>h. \A t \in DOMAIN remaining :
         Cardinality(ParentsOf(t) \ Emitted') =
            IF t \in ChildrenOf(x) THEN remaining[t] - 1 ELSE remaining[t]
  BY <1>a, <1>b, <1>d, MissingAfterEmit DEF CountsAreExact, Partition
<1>1. TypeOK'
  <2>1. remaining' \in [DOMAIN remaining' -> Nat]
    BY <1>c, <1>e, <1>g
  <2>2. ordered' \in Seq(nodes)'
    BY <1>a, <1>b, <1>c DEF TypeOK
  <2>3. DOMAIN remaining' \subseteq nodes' /\ ready' \subseteq nodes'
    BY <1>a, <1>c, <1>e DEF TypeOK
  <2>. QED  BY <1>a, <1>c, <2>1, <2>2, <2>3 DEF TypeOK
<1>2. Partition'
  BY <1>a, <1>b, <1>c, <1>d, <1>e DEF Partition
<1>3. CountsAreExact'
  <2> SUFFICES ASSUME NEW t \in DOMAIN remaining'
               PROVE  /\ remaining'[t] = Cardinality(ParentsOf(t) \ Emitted')
                      /\ remaining'[t] # 0
    BY <1>f DEF CountsAreExact
  <2>1. t \in DOMAIN remaining /\ t \notin Freed(x)
    BY <1>e
  <2>2. remaining'[t] = IF t \in ChildrenOf(x) THEN remaining[t] - 1 ELSE remaining[t]
    BY <1>c, <1>e
  <2>3. t \in ChildrenOf(x) => remaining[t] # 1
    BY <2>1 DEF Freed
  <2>. QED  BY <1>g, <1>h, <2>1, <2>2, <2>3
<1>4. ReadyIsReady'
  <2> SUFFICES ASSUME NEW t \in ready' PROVE ParentsOf(t) \subseteq Emitted'
    BY <1>f DEF ReadyIsReady
  <2>1. CASE t \in ready
    BY <1>a, <1>d, <2>1 DEF ReadyIsReady
  <2>2. CASE t \in Freed(x)
    <3>1. t \in DOMAIN remaining /\ t \in ChildrenOf(x) /\ remaining[t] = 1
      BY <2>2 DEF Freed
    <3>2. Cardinality(ParentsOf(t) \ Emitted') = 0
      BY <1>h, <3>1
    <3>3. IsFiniteSet(ParentsOf(t) \ Emitted')
      BY <1>a, ParentsFinite, FS_Subset
    <3>. QED  BY <3>2, <3>3, FS_EmptySet
  <2>. QED  BY <1>c, <2>1, <2>2
<1>5. StuckIsRest'
  BY <1>a, <1>c DEF Emit, StuckIsRest
<1>. QED  BY <1>1, <1>2, <1>3, <1>4, <1>5 DEF IInv

-----------------------------------------------------------------------------
\* The sort's collections only change in Emit, and the inputs never do; a step
\* that keeps them keeps the part of the invariant that speaks of them.
LEMMA SortKept ==
    ASSUME IInv, UNCHANGED <<inputs, sorting>>
    PROVE  Partition' /\ CountsAreExact' /\ ReadyIsReady'
<1>1. \A t : ParentsOf(t)' = ParentsOf(t)
  BY DEF ParentsOf, inputs
<1>2. Emitted' = Emitted
  BY DEF Emitted, sorting
<1>. QED
  BY <1>1, <1>2 DEF IInv, Partition, CountsAreExact, ReadyIsReady, inputs, sorting

LEMMA WalkSteps ==
    ASSUME TypeOK
    PROVE  /\ NextStart => TypeOK'
           /\ CloseCycle => TypeOK'
           /\ WalkToParent => TypeOK'
<1>a. stuck \subseteq Nat /\ starts \subseteq Nat
  BY TablesAssumption DEF TypeOK
<1>1. NextStart => TypeOK'
  <2> SUFFICES ASSUME NextStart PROVE TypeOK'
    OBVIOUS
  <2>1. Smallest(starts) \in stuck
    BY <1>a, SmallestIsLeast DEF NextStart, TypeOK
  <2>. QED  BY <2>1 DEF NextStart, TypeOK, inputs, sorting
<1>2. CloseCycle => TypeOK'
  <2> SUFFICES ASSUME CloseCycle PROVE TypeOK'
    OBVIOUS
  <2> DEFINE at == CHOOSE i \in DOMAIN path : path[i] = cursor
  <2>1. path \in Seq(stuck) /\ at \in 1..Len(path)
    BY DEF TypeOK, CloseCycle, Range
  <2>2. Closing \in Seq(stuck) /\ Len(Closing) \in Nat \ {0}
    <3>1. Closing = SubSeq(path, at, Len(path))
      BY DEF Closing
    <3> HIDE DEF at
    <3>2. /\ \A i \in at..Len(path) : path[i] \in stuck
          /\ Len(path) \in Nat
          /\ at \in Int /\ at <= Len(path)
          /\ Len(path) - at + 1 \in Nat \ {0}
      BY <2>1
    <3>3. SubSeq(path, at, Len(path)) \in Seq(stuck)
      BY <2>1, <3>2, SubSeqProperties
    <3>4. Len(SubSeq(path, at, Len(path))) = Len(path) - at + 1
      BY <2>1, <3>2, SubSeqProperties
    <3>. QED  BY <3>1, <3>2, <3>3, <3>4
  <2> DEFINE s == Closing
             least == CHOOSE i \in DOMAIN s : s[i] = Smallest(Range(s))
  <2>3. s[1] \in Range(s) /\ Range(s) \subseteq stuck
    BY <2>2 DEF Range
  <2>4. Smallest(Range(s)) \in Range(s)
    BY <1>a, <2>3, SmallestIsLeast
  <2>5. least \in 1..Len(s)
    <3>1. \E i \in DOMAIN s : s[i] = Smallest(Range(s))
      BY <2>4 DEF Range
    <3>2. least \in DOMAIN s
      BY <3>1
    <3>. QED  BY <2>2, <3>2
  <2> HIDE DEF s, least
  <2>6. /\ SubSeq(s, least, Len(s)) \in Seq(stuck)
        /\ SubSeq(s, 1, least - 1) \in Seq(stuck)
    <3>1. s \in Seq(stuck) /\ Len(s) \in Nat
      BY <2>2 DEF s
    <3>. QED  BY <2>5, <3>1
  <2>7. RotateToSmallest(Closing) \in Seq(stuck)
    BY <2>6 DEF RotateToSmallest, s, least
  <2>8. Range(RotateToSmallest(Closing)) \subseteq stuck
    BY <2>7 DEF Range
  <2>. QED  BY <2>8 DEF CloseCycle, TypeOK, inputs, sorting
<1>3. WalkToParent => TypeOK'
  <2> SUFFICES ASSUME WalkToParent PROVE TypeOK'
    OBVIOUS
  <2>1. path' \in Seq(stuck') /\ Range(path') \subseteq stuck'
    <3>1. cursor \in stuck
      BY DEF WalkToParent, TypeOK
    <3>2. path' \in Seq(stuck)
      BY <3>1 DEF WalkToParent, TypeOK
    <3>. QED  BY <3>2 DEF WalkToParent, TypeOK, Range
  <2>2. StuckParents(cursor) # {} => Smallest(StuckParents(cursor)) \in stuck
    BY <1>a, SmallestIsLeast DEF StuckParents
  <2>. QED  BY <2>1, <2>2 DEF WalkToParent, TypeOK, inputs, sorting
<1>. QED  BY <1>1, <1>2, <1>3

LEMMA NextIInv == IInv /\ [Next]_vars => IInv'
<1> SUFFICES ASSUME IInv, [Next]_vars PROVE IInv'
  OBVIOUS
<1>a. TypeOK /\ StuckIsRest
  BY DEF IInv
<1>1. CASE Emit
  BY <1>1, EmitIInv
<1>2. CASE Sorted
  <2>1. Partition' /\ CountsAreExact' /\ ReadyIsReady'
    BY <1>2, SortKept DEF Sorted
  <2>2. TypeOK'
    BY <1>2, <1>a DEF Sorted, TypeOK, inputs, sorting, walking
  <2>3. stuck = {}
    BY <1>2, <1>a DEF Sorted, StuckIsRest
  <2>. QED
    BY <1>2, <2>1, <2>2, <2>3 DEF IInv, StuckIsRest, Sorted, sorting
<1>3. CASE GetStuck
  <2>1. Partition' /\ CountsAreExact' /\ ReadyIsReady'
    BY <1>3, SortKept DEF GetStuck
  <2>. QED
    BY <1>3, <1>a, <2>1 DEF GetStuck, TypeOK, IInv, StuckIsRest, inputs, sorting
<1>4. CASE NextStart \/ CloseCycle \/ WalkToParent
  <2>1. TypeOK'
    BY <1>4, <1>a, WalkSteps
  <2>2. UNCHANGED <<inputs, sorting, stuck>> /\ pc # "sort" /\ pc' # "sort"
    BY <1>4 DEF NextStart, CloseCycle, WalkToParent
  <2>3. Partition' /\ CountsAreExact' /\ ReadyIsReady'
    BY <2>2, SortKept
  <2>. QED
    BY <1>a, <2>1, <2>2, <2>3 DEF IInv, StuckIsRest, sorting
<1>5. CASE MeetVisited \/ Scanned
  <2>1. UNCHANGED <<inputs, sorting, stuck, walking>> /\ pc # "sort" /\ pc' \in {"scan", "done"}
    BY <1>5 DEF MeetVisited, Scanned
  <2>2. Partition' /\ CountsAreExact' /\ ReadyIsReady'
    BY <2>1, SortKept
  <2>. QED
    BY <1>a, <2>1, <2>2 DEF IInv, TypeOK, StuckIsRest, inputs, sorting, walking
<1>6. CASE UNCHANGED vars
  <2>1. Partition' /\ CountsAreExact' /\ ReadyIsReady'
    BY <1>6, SortKept DEF vars, inputs, sorting
  <2>. QED
    BY <1>6, <1>a, <2>1 DEF IInv, TypeOK, StuckIsRest, vars
<1>. QED
  BY <1>1, <1>2, <1>3, <1>4, <1>5, <1>6 DEF Next, Terminated

\* IInv is an invariant of the algorithm.
THEOREM IInvHolds == Spec => []IInv
BY InitIInv, NextIInv, PTL DEF Spec

\* Every variable of the ordering keeps its type, whatever the schema: the
\* walk of find_cycles never leaves the stuck tables.
THEOREM TypeCorrect == Spec => []TypeOK
<1>1. IInv => TypeOK
  BY DEF IInv
<1>. QED  BY <1>1, IInvHolds, PTL

-----------------------------------------------------------------------------
\* The declared references of a selected table are its entries in the map.
LEMMA ParentsAreReferences ==
    \A t : ParentsOf(t) = {p \in nodes : References(t, p)}
BY DEF ParentsOf, References

\* A counted table has a parent that is not emitted yet.
LEMMA CountedMissesParent ==
    ASSUME IInv, NEW t \in DOMAIN remaining
    PROVE  \E p \in nodes : References(t, p) /\ p \notin Emitted
<1>1. IsFiniteSet(ParentsOf(t) \ Emitted)
  BY ParentsFinite, FS_Subset DEF IInv
<1>2. ParentsOf(t) \ Emitted # {}
  BY <1>1, FS_EmptySet DEF IInv, CountsAreExact
<1>. QED  BY <1>2, ParentsAreReferences

\* The frontier is exactly the set of tables that could be emitted next.
LEMMA FrontierIsRipe ==
    ASSUME IInv
    PROVE  ready = {t \in nodes \ Emitted :
                       \A p \in nodes : References(t, p) => p \in Emitted}
<1>1. \A t \in ready : \A p \in nodes : References(t, p) => p \in Emitted
  BY ParentsAreReferences DEF IInv, ReadyIsReady
<1>2. \A t \in DOMAIN remaining : \E p \in nodes : References(t, p) /\ p \notin Emitted
  BY CountedMissesParent
<1>3. \A t \in nodes : t \notin Emitted <=> t \in ready \/ t \in DOMAIN remaining
  BY DEF IInv, Partition
<1>4. ready \subseteq nodes
  BY DEF IInv, Partition
<1>. QED  BY <1>1, <1>2, <1>3, <1>4

-----------------------------------------------------------------------------
\* What the sort promises of the tables emitted so far.
EmittedWell == ParentsFirst /\ SmallestReadyFirst

LEMMA EmitEmittedWell == IInv /\ EmittedWell /\ Emit => EmittedWell'
<1> SUFFICES ASSUME IInv, EmittedWell, Emit PROVE EmittedWell'
  OBVIOUS
<1> DEFINE x == Smallest(ready)
           n == Len(ordered)
<1>1. /\ ordered \in Seq(nodes) /\ n \in Nat
      /\ x \in ready /\ x \in nodes /\ \A y \in ready : x <= y
  <2>1. ordered \in Seq(nodes) /\ ready \subseteq nodes /\ nodes \subseteq Nat /\ ready # {}
    BY TablesAssumption DEF Emit, IInv, TypeOK
  <2>2. x \in ready /\ \A y \in ready : x <= y
    BY <2>1, SmallestIsLeast
  <2>3. n \in Nat
    BY <2>1, LenProperties
  <2>4. x \in nodes
    BY <2>1, <2>2
  <2>. HIDE DEF x, n
  <2>. QED  BY <2>1, <2>2, <2>3, <2>4
<1>2. ordered' = Append(ordered, x) /\ nodes' = nodes /\ fks' = fks
  BY DEF Emit, inputs
<1>3. /\ DOMAIN ordered' = 1..(n + 1) /\ DOMAIN ordered = 1..n
      /\ ordered'[n + 1] = x /\ \A i \in 1..n : ordered'[i] = ordered[i]
  BY <1>1, <1>2
<1>4. Emitted = {ordered[j] : j \in 1..n}
  BY <1>3 DEF Emitted, Range
<1>5. \A c, p : References(c, p)' = References(c, p)
  BY <1>2 DEF References
<1>6. ParentsFirst'
  <2> SUFFICES ASSUME NEW i \in 1..(n + 1), NEW p \in nodes,
                      References(ordered'[i], p)
               PROVE  \E j \in 1..(i - 1) : ordered'[j] = p
    BY <1>2, <1>3, <1>5 DEF ParentsFirst
  <2>1. CASE i = n + 1
    <3>1. p \in Emitted
      BY <1>1, <1>3, <2>1, FrontierIsRipe
    <3>2. PICK j \in 1..n : ordered[j] = p
      BY <1>4, <3>1
    <3>. QED  BY <1>1, <1>3, <2>1, <3>2
  <2>2. CASE i \in 1..n
    <3>1. PICK j \in 1..(i - 1) : ordered[j] = p
      BY <1>3, <2>2 DEF EmittedWell, ParentsFirst
    <3>2. j \in 1..n
      BY <1>1, <2>2
    <3>. QED  BY <1>3, <3>1, <3>2
  <2>. QED  BY <1>1, <2>1, <2>2
<1>7. SmallestReadyFirst'
  <2> DEFINE Before(s, i) == {s[j] : j \in 1..(i - 1)}
             Ripe(E) == {t \in nodes \ E : \A p \in nodes : References(t, p) => p \in E}
  <2> SUFFICES ASSUME NEW i \in 1..(n + 1)
               PROVE  /\ ordered'[i] \in Ripe(Before(ordered', i))
                      /\ \A t \in Ripe(Before(ordered', i)) : ordered'[i] <= t
    BY <1>2, <1>3, <1>5 DEF SmallestReadyFirst
  <2>1. Before(ordered', i) = Before(ordered, i)
    <3>1. \A j \in 1..(i - 1) : j \in 1..n
      BY <1>1
    <3>. QED  BY <1>3, <3>1
  <2>2. CASE i = n + 1
    <3>1. Before(ordered, i) = Emitted
      BY <1>1, <1>4, <2>2
    <3>2. Ripe(Emitted) = ready
      BY FrontierIsRipe
    <3>. QED  BY <1>1, <1>3, <2>1, <2>2, <3>1, <3>2
  <2>3. CASE i \in 1..n
    <3>1. /\ ordered[i] \in Ripe(Before(ordered, i))
          /\ \A t \in Ripe(Before(ordered, i)) : ordered[i] <= t
      BY <1>3, <2>3 DEF EmittedWell, SmallestReadyFirst
    <3>. QED  BY <1>3, <2>1, <2>3, <3>1
  <2>. QED  BY <1>1, <2>2, <2>3
<1>. QED  BY <1>6, <1>7 DEF EmittedWell

LEMMA EmittedWellHolds == Spec => []EmittedWell
<1>1. Init => EmittedWell
  BY DEF Init, EmittedWell, ParentsFirst, SmallestReadyFirst
<1>2. IInv /\ EmittedWell /\ [Next]_vars => EmittedWell'
  <2> SUFFICES ASSUME IInv, EmittedWell, [Next]_vars PROVE EmittedWell'
    OBVIOUS
  <2>1. CASE Emit
    BY <2>1, EmitEmittedWell
  <2>2. CASE UNCHANGED <<fks, nodes, ordered>>
    BY <2>2 DEF EmittedWell, ParentsFirst, SmallestReadyFirst, References
  <2>. QED
    BY <2>1, <2>2 DEF Next, Sorted, GetStuck, NextStart, CloseCycle, MeetVisited,
       WalkToParent, Scanned, Terminated, vars, inputs, sorting
<1>. QED  BY <1>1, <1>2, IInvHolds, PTL DEF Spec

\* Whatever the schema, a table leaves the sort only after every table it
\* references: loading in this order never inserts a row before its parent.
THEOREM ParentsComeFirst == Spec => []ParentsFirst
<1>1. EmittedWell => ParentsFirst
  BY DEF EmittedWell
<1>. QED  BY <1>1, EmittedWellHolds, PTL

\* The order is a function of schema and selection: at each place stands the
\* smallest table that could.
THEOREM OrderIsDeterministic == Spec => []SmallestReadyFirst
<1>1. EmittedWell => SmallestReadyFirst
  BY DEF EmittedWell
<1>. QED  BY <1>1, EmittedWellHolds, PTL

-----------------------------------------------------------------------------
\* No tangled set contains an emitted table: the first of its tables to be
\* emitted would have had a parent in the set emitted even earlier.
LEMMA TangleNotEmitted ==
    ASSUME IInv, ParentsFirst, NEW S \in SUBSET nodes, Tangled(S)
    PROVE  S \cap Emitted = {}
<1> DEFINE I == {i \in DOMAIN ordered : ordered[i] \in S}
<1> SUFFICES ASSUME S \cap Emitted # {} PROVE FALSE
  OBVIOUS
<1>1. I \subseteq Nat /\ I # {} /\ DOMAIN ordered = 1..Len(ordered)
  BY DEF IInv, TypeOK, Emitted, Range
<1>2. Smallest(I) \in I /\ \A j \in I : Smallest(I) <= j
  BY <1>1, SmallestIsLeast
<1> DEFINE i == Smallest(I)
<1>3. PICK p \in S : References(ordered[i], p)
  BY <1>2 DEF Tangled
<1>4. PICK j \in 1..(i - 1) : ordered[j] = p
  BY <1>2, <1>3 DEF ParentsFirst
<1>5. i \in Nat /\ j \in Nat /\ j < i
  BY <1>1, <1>2, <1>4
<1>6. j \in I
  BY <1>1, <1>2, <1>3, <1>4, <1>5
<1>7. i <= j
  BY <1>2, <1>6
<1>. HIDE DEF i
<1>. QED  BY <1>5, <1>7

\* The stuck tables are the largest set in which every table references
\* another: those in or downstream of a cycle, and none in an acyclic schema.
THEOREM StuckTablesAreTheTangle == Spec => []StuckIsTangle
<1>1. IInv /\ ParentsFirst => StuckIsTangle
  <2> SUFFICES ASSUME IInv, ParentsFirst, pc # "sort"
               PROVE  Tangled(stuck) /\ \A S \in SUBSET nodes : Tangled(S) => S \subseteq stuck
    BY DEF StuckIsTangle
  <2>1. ready = {} /\ stuck = DOMAIN remaining /\ nodes = Emitted \cup stuck
    BY DEF IInv, StuckIsRest, Partition
  <2>2. Tangled(stuck)
    BY <2>1, CountedMissesParent DEF Tangled
  <2>3. \A S \in SUBSET nodes : Tangled(S) => S \subseteq stuck
    BY <2>1, TangleNotEmitted
  <2>. QED  BY <2>2, <2>3
<1>. QED  BY <1>1, IInvHolds, ParentsComeFirst, PTL

\* The walk of find_cycles always has a next step: the arm that gives up for
\* want of a stuck parent (order.rs:182) is never taken.
NoDeadEnd == pc = "walk" => StuckParents(cursor) # {}

THEOREM WalkHasNoDeadEnd == Spec => []NoDeadEnd
<1>1. TypeOK /\ StuckIsTangle => NoDeadEnd
  <2> SUFFICES ASSUME TypeOK, StuckIsTangle, pc = "walk"
               PROVE  StuckParents(cursor) # {}
    BY DEF NoDeadEnd
  <2>1. PICK p \in stuck : References(cursor, p)
    BY DEF TypeOK, StuckIsTangle, Tangled
  <2>. QED  BY <2>1, ParentsAreReferences DEF StuckParents, TypeOK
<1>. QED  BY <1>1, TypeCorrect, StuckTablesAreTheTangle, PTL

-----------------------------------------------------------------------------
(* The result. *)

\* No table is emitted twice, and at the end all are in the order.
Complete ==
    /\ Distinct(ordered)
    /\ EveryTableOnce

LEMMA EmitDistinct == IInv /\ Distinct(ordered) /\ Emit => Distinct(ordered)'
<1> SUFFICES ASSUME IInv, Distinct(ordered), Emit PROVE Distinct(ordered)'
  OBVIOUS
<1> DEFINE x == Smallest(ready)
<1>1. /\ ordered \in Seq(nodes) /\ x \in nodes /\ x \notin Range(ordered)
      /\ ordered' = Append(ordered, x)
  <2>1. ready \subseteq Nat /\ ready # {}
    BY TablesAssumption DEF Emit, IInv, TypeOK
  <2>2. x \in ready
    BY <2>1, SmallestIsLeast
  <2>. QED  BY <2>2 DEF Emit, IInv, TypeOK, Partition, Emitted
<1>. HIDE DEF x
<1>2. /\ Len(ordered) \in Nat /\ DOMAIN ordered = 1..Len(ordered)
      /\ DOMAIN ordered' = 1..(Len(ordered) + 1)
      /\ ordered'[Len(ordered) + 1] = x
      /\ \A i \in 1..Len(ordered) : ordered'[i] = ordered[i] /\ ordered[i] # x
  BY <1>1 DEF Range
<1>3. \A i \in 1..(Len(ordered) + 1) : i = Len(ordered) + 1 \/ i \in 1..Len(ordered)
  BY <1>2
<1>. QED  BY <1>2, <1>3 DEF Distinct

LEMMA OrderIsComplete ==
    ASSUME IInv, Distinct(ordered), pc # "done", pc' = "done", ready = {}, nodes' = nodes,
           \/ DOMAIN remaining = {} /\ order' = ordered
           \/ stuck = DOMAIN remaining /\ order' = ordered \o Ascending(stuck)
    PROVE  EveryTableOnce'
<1>1. /\ ordered \in Seq(nodes) /\ nodes \subseteq Nat /\ IsFiniteSet(nodes)
      /\ nodes = Range(ordered) \cup DOMAIN remaining
      /\ Range(ordered) \cap DOMAIN remaining = {}
  BY TablesAssumption, FS_Subset DEF IInv, TypeOK, Partition, Emitted
<1>2. IsFiniteSet(Range(ordered)) /\ Cardinality(Range(ordered)) = Len(ordered)
  BY <1>1, DistinctLength
<1>3. CASE DOMAIN remaining = {} /\ order' = ordered
  BY <1>1, <1>2, <1>3 DEF EveryTableOnce
<1>4. CASE stuck = DOMAIN remaining /\ order' = ordered \o Ascending(stuck)
  <2>1. stuck \in SUBSET nodes /\ IsFiniteSet(stuck) /\ stuck \subseteq Nat
    BY <1>1, <1>4, FS_Subset
  <2>2. /\ Ascending(stuck) \in Seq(stuck) /\ Len(Ascending(stuck)) = Cardinality(stuck)
        /\ Range(Ascending(stuck)) = stuck
    BY <2>1, AscendingIsSorted
  <2> DEFINE a == Ascending(stuck)
  <2>. HIDE DEF a
  <2>3. a \in Seq(nodes) /\ ordered \o a \in Seq(nodes) /\ Len(ordered \o a) = Len(ordered) + Len(a)
    <3>1. a \in Seq(nodes)
      BY <2>1, <2>2, SeqMonotonic DEF a
    <3>. QED  BY <1>1, <3>1, ConcatProperties
  <2>4. Range(ordered \o a) = Range(ordered) \cup Range(a)
    BY <1>1, <2>3, RangeConcatenation
  <2>5. Cardinality(nodes) = Len(ordered) + Len(a)
    <3>0. Range(ordered) \cap stuck = {} /\ nodes = Range(ordered) \cup stuck
      BY <1>1, <1>4
    <3>1. Cardinality(nodes) = Cardinality(Range(ordered)) + Cardinality(stuck) - Cardinality({})
      BY <1>2, <2>1, <3>0, FS_Union
    <3>2. Cardinality(stuck) \in Nat /\ Len(ordered) \in Nat /\ Cardinality({}) = 0
      BY <1>1, <2>1, FS_CardinalityType, FS_EmptySet, LenProperties
    <3>. QED  BY <1>2, <2>2, <3>1, <3>2 DEF a
  <2>. QED  BY <1>1, <1>4, <2>2, <2>3, <2>4, <2>5 DEF EveryTableOnce, a
<1>. QED  BY <1>3, <1>4

LEMMA CompleteHolds == Spec => []Complete
<1>1. Init => Complete
  BY DEF Init, Complete, Distinct, EveryTableOnce
<1>2. IInv /\ Complete /\ [Next]_vars => Complete'
  <2> SUFFICES ASSUME IInv, Complete, [Next]_vars PROVE Complete'
    OBVIOUS
  <2>1. CASE Emit
    BY <2>1, EmitDistinct DEF Complete, EveryTableOnce, Emit
  <2>2. CASE Sorted
    <3>1. EveryTableOnce'
      BY <2>2, OrderIsComplete DEF Complete, Sorted, inputs
    <3>. QED  BY <2>2, <3>1 DEF Complete, Distinct, Sorted, sorting
  <2>3. CASE Scanned
    <3>1. EveryTableOnce'
      BY <2>3, OrderIsComplete DEF Complete, Scanned, inputs, IInv, StuckIsRest
    <3>. QED  BY <2>3, <3>1 DEF Complete, Distinct, Scanned, sorting
  <2>4. CASE GetStuck \/ NextStart \/ CloseCycle \/ MeetVisited \/ WalkToParent
    <3>1. ordered' = ordered /\ pc' # "done"
      BY <2>4 DEF GetStuck, NextStart, CloseCycle, MeetVisited, WalkToParent, sorting
    <3>. QED  BY <3>1 DEF Complete, Distinct, EveryTableOnce
  <2>5. CASE UNCHANGED vars
    BY <2>5 DEF vars, Complete, Distinct, EveryTableOnce
  <2>. QED  BY <2>1, <2>2, <2>3, <2>4, <2>5 DEF Next, Terminated
<1>. QED  BY <1>1, <1>2, IInvHolds, PTL DEF Spec

\* Whatever cycles the schema has, the insert order names every selected table,
\* and none twice: no table is left out of a load or loaded again.
THEOREM EveryTableIsOrdered == Spec => []EveryTableOnce
<1>1. Complete => EveryTableOnce
  BY DEF Complete
<1>. QED  BY <1>1, CompleteHolds, PTL

-----------------------------------------------------------------------------
(* The cycles reported. *)

\* The place after i in a ring of n.
After(i, n) == (i % n) + 1

LEMMA RingPlaces ==
    ASSUME NEW n \in Nat \ {0}, NEW i \in 1..n
    PROVE  /\ i < n => After(i, n) = i + 1
           /\ i = n => After(i, n) = 1
           /\ After(i, n) \in 1..n
<1>1. i < n => i % n = i
  OBVIOUS
<1>2. n % n = 0
  OBVIOUS
<1>. QED  BY <1>1, <1>2 DEF After

\* Each table of s references the next and the last the first.
Ring(s) == \A i \in DOMAIN s : References(s[i], s[After(i, Len(s))])

\* A walk that comes back to one of its tables has gone round a ring.
LEMMA ClosingIsRing ==
    ASSUME NEW S, NEW p \in Seq(S), Distinct(p), NEW at \in DOMAIN p,
           \A i \in 1..(Len(p) - 1) : References(p[i], p[i + 1]),
           References(p[Len(p)], p[at])
    PROVE  LET s == SubSeq(p, at, Len(p))
           IN  s \in Seq(S) /\ s # <<>> /\ Distinct(s) /\ Ring(s) /\ s[1] = p[at]
<1> DEFINE s == SubSeq(p, at, Len(p))
           n == Len(p) - at + 1
<1>1. Len(p) \in Nat /\ at \in 1..Len(p) /\ DOMAIN p = 1..Len(p)
  BY LenProperties
<1>2. /\ n \in Nat \ {0} /\ s \in Seq(S) /\ Len(s) = n
      /\ \A i \in 1..n : s[i] = p[at + i - 1]
  <2>1. \A i \in at..Len(p) : p[i] \in S
    BY <1>1, ElementOfSeq
  <2>2. at \in Int /\ Len(p) \in Int /\ at <= Len(p)
    BY <1>1
  <2>. QED  BY <1>1, <2>1, <2>2, SubSeqProperties
<1>3. n = Len(p) - at + 1 /\ \A i \in 1..n : at + i - 1 \in 1..Len(p)
  BY <1>1
<1>. HIDE DEF s, n
<1>4. DOMAIN s = 1..n
  BY <1>2
<1>5. Distinct(s)
  <2> SUFFICES ASSUME NEW i \in 1..n, NEW j \in 1..n, i # j PROVE s[i] # s[j]
    BY <1>4 DEF Distinct
  <2>1. at + i - 1 # at + j - 1
    BY <1>1
  <2>. QED  BY <1>1, <1>2, <1>3, <2>1 DEF Distinct
<1>6. Ring(s)
  <2> SUFFICES ASSUME NEW i \in 1..n PROVE References(s[i], s[After(i, n)])
    BY <1>2, <1>4 DEF Ring
  <2>1. CASE i < n
    <3>1. /\ After(i, n) = i + 1 /\ i + 1 \in 1..n
      BY <1>2, <2>1, RingPlaces
    <3>2. at + i - 1 \in 1..(Len(p) - 1) /\ at + (i + 1) - 1 = (at + i - 1) + 1
      BY <1>1, <1>3, <2>1
    <3>. QED  BY <1>2, <3>1, <3>2
  <2>2. CASE i = n
    <3>1. After(i, n) = 1
      BY <1>2, <2>2, RingPlaces
    <3>2. 1 \in 1..n /\ n \in 1..n /\ at + n - 1 = Len(p) /\ at + 1 - 1 = at
      BY <1>1, <1>2, <1>3
    <3>. QED  BY <1>2, <2>2, <3>1, <3>2
  <2>. QED  BY <1>2, <2>1, <2>2
<1>7. s[1] = p[at] /\ s # <<>>
  <2>1. 1 \in 1..n /\ at + 1 - 1 = at
    BY <1>1, <1>2
  <2>. QED  BY <1>2, <2>1
<1>. QED  BY <1>2, <1>5, <1>6, <1>7 DEF s

\* A ring stays one if it is told from another of its tables.
LEMMA RotatedRing ==
    ASSUME NEW S, NEW s \in Seq(S), Distinct(s), Ring(s), NEW at \in DOMAIN s
    PROVE  LET r == SubSeq(s, at, Len(s)) \o SubSeq(s, 1, at - 1)
           IN  r \in Seq(S) /\ Distinct(r) /\ Ring(r) /\ r[1] = s[at] /\ Range(r) = Range(s)
<1> DEFINE n == Len(s)
           a == SubSeq(s, at, n)
           b == SubSeq(s, 1, at - 1)
           r == a \o b
           m == n - at + 1
           Old(i) == IF i <= m THEN at + i - 1 ELSE i - m
<1>1. n \in Nat \ {0} /\ at \in 1..n /\ DOMAIN s = 1..n
  BY LenProperties
<1>2. \A i \in 1..n : s[i] \in S
  BY ElementOfSeq
<1>3. a \in Seq(S) /\ Len(a) = m /\ \A i \in 1..m : a[i] = s[at + i - 1]
  <2>1. (\A i \in at..n : s[i] \in S) /\ at \in Int /\ n \in Int /\ at <= n
    BY <1>1, <1>2
  <2>. QED  BY <1>1, <2>1, SubSeqProperties
<1>4. b \in Seq(S) /\ Len(b) = at - 1 /\ \A i \in 1..(at - 1) : b[i] = s[i]
  <2>1. (\A i \in 1..(at - 1) : s[i] \in S) /\ 1 \in Int /\ at - 1 \in Int
    BY <1>1, <1>2
  <2>2. /\ b \in Seq(S) /\ Len(b) = IF 1 <= at - 1 THEN at - 1 - 1 + 1 ELSE 0
        /\ \A i \in 1..(at - 1 - 1 + 1) : b[i] = s[1 + i - 1]
    BY <2>1, SubSeqProperties
  <2>3. at - 1 - 1 + 1 = at - 1 /\ (~(1 <= at - 1) => at - 1 = 0)
    BY <1>1
  <2>4. \A i \in 1..(at - 1) : 1 + i - 1 = i
    OBVIOUS
  <2>. HIDE DEF b
  <2>. QED  BY <2>2, <2>3, <2>4
<1>5. m \in Nat \ {0} /\ m = n - at + 1 /\ at - 1 \in Nat /\ m + (at - 1) = n
  BY <1>1
<1>6. /\ r \in Seq(S) /\ Len(r) = n
      /\ \A i \in 1..n : r[i] = IF i <= m THEN a[i] ELSE b[i - m]
  <2>. HIDE DEF a, b, m, n
  <2>1. /\ a \o b \in Seq(S) /\ Len(a \o b) = Len(a) + Len(b)
        /\ \A i \in 1..(Len(a) + Len(b)) :
              (a \o b)[i] = IF i <= Len(a) THEN a[i] ELSE b[i - Len(a)]
    BY <1>3, <1>4, ConcatProperties
  <2>2. Len(a) = m /\ Len(a) + Len(b) = n
    BY <1>3, <1>4, <1>5
  <2>. QED  BY <2>1, <2>2
<1>7. \A i \in 1..n : Old(i) \in 1..n /\ (i <= m => Old(i) = at + i - 1) /\ (~(i <= m) => Old(i) = i - m)
  BY <1>1
<1>8. \A i \in 1..n : r[i] = s[Old(i)]
  <2>1. \A i \in 1..n : (i <= m => i \in 1..m) /\ (~(i <= m) => i - m \in 1..(at - 1))
    BY <1>1, <1>5
  <2>. HIDE DEF a, b, r, m, n
  <2>. QED  BY <1>3, <1>4, <1>6, <2>1
<1>9. \A i, j \in 1..n : i # j => Old(i) # Old(j)
  BY <1>1
<1>10. \A k \in 1..n : \E i \in 1..n : Old(i) = k
  <2> SUFFICES ASSUME NEW k \in 1..n PROVE \E i \in 1..n : Old(i) = k
    OBVIOUS
  <2>1. CASE k >= at
    <3>1. k - at + 1 \in 1..n /\ Old(k - at + 1) = k
      BY <1>1, <2>1
    <3>. QED  BY <3>1
  <2>2. CASE ~(k >= at)
    <3>1. k + m \in 1..n /\ Old(k + m) = k
      BY <1>1, <2>2
    <3>. QED  BY <3>1
  <2>. QED  BY <2>1, <2>2
<1>11. \A i \in 1..n : Old(After(i, n)) = After(Old(i), n)
  <2> SUFFICES ASSUME NEW i \in 1..n PROVE Old(After(i, n)) = After(Old(i), n)
    OBVIOUS
  <2>1. /\ i < n => After(i, n) = i + 1
        /\ i = n => After(i, n) = 1
        /\ Old(i) < n => After(Old(i), n) = Old(i) + 1
        /\ Old(i) = n => After(Old(i), n) = 1
    BY <1>1, <1>7, RingPlaces
  <2>2. CASE i < n /\ Old(i) < n
    <3>1. Old(i + 1) = Old(i) + 1
      BY <1>1, <2>2
    <3>. QED  BY <2>1, <2>2, <3>1
  <2>3. CASE i < n /\ Old(i) = n
    <3>1. Old(i + 1) = 1
      BY <1>1, <2>3
    <3>. QED  BY <2>1, <2>3, <3>1
  <2>4. CASE i = n /\ Old(i) < n
    <3>1. Old(1) = Old(i) + 1
      BY <1>1, <2>4
    <3>. QED  BY <2>1, <2>4, <3>1
  <2>5. CASE i = n /\ Old(i) = n
    <3>1. Old(1) = 1
      BY <1>1, <2>5
    <3>. QED  BY <2>1, <2>5, <3>1
  <2>6. (i < n \/ i = n) /\ (Old(i) < n \/ Old(i) = n)
    <3>1. n \in Nat /\ Old(i) \in 1..n
      BY <1>1, <1>7
    <3>. HIDE DEF Old, n, m
    <3>2. \A k \in 1..n : k < n \/ k = n
      BY <3>1
    <3>. QED  BY <3>1, <3>2
  <2>. HIDE DEF Old, n
  <2>. QED  BY <2>2, <2>3, <2>4, <2>5, <2>6
<1>12. \A i \in 1..n : After(i, n) \in 1..n
  BY <1>1, RingPlaces
<1>13. s \in Seq(S) /\ Len(s) = n /\ Old(1) = at
  BY <1>1
<1>14. \A i \in 1..n : References(s[i], s[After(i, n)])
  BY <1>1 DEF Ring
<1>. HIDE DEF r, n, Old
<1>15. DOMAIN r = 1..n /\ DOMAIN s = 1..n /\ 1 \in 1..n
  BY <1>1, <1>6
<1>16. Distinct(r)
  BY <1>7, <1>8, <1>9, <1>15 DEF Distinct
<1>17. Ring(r)
  BY <1>6, <1>7, <1>8, <1>11, <1>12, <1>14, <1>15 DEF Ring
<1>18. Range(r) = Range(s)
  <2>1. \A i \in 1..n : r[i] \in Range(s)
    BY <1>7, <1>8, <1>15 DEF Range
  <2>2. \A k \in 1..n : s[k] \in Range(r)
    BY <1>8, <1>10, <1>15 DEF Range
  <2>. QED  BY <1>15, <2>1, <2>2 DEF Range
<1>19. r[1] = s[at]
  BY <1>8, <1>13, <1>15
<1>. QED  BY <1>6, <1>16, <1>17, <1>18, <1>19 DEF r, n

\* Depending is going from reference to reference.
LEMMA DependsOnTransitive ==
    /\ \A c, d : d \in nodes /\ References(c, d) => DependsOn(c, d)
    /\ \A c, d, p : d \in nodes /\ DependsOn(c, d) /\ DependsOn(d, p) => DependsOn(c, p)
BY DEF DependsOn

\* The walk follows references and has not met a table twice.
WalkIsPath ==
    pc = "walk" =>
        /\ Distinct(path)
        /\ \A i \in 1..(Len(path) - 1) : References(path[i], path[i + 1])
        /\ path # <<>> => References(path[Len(path)], cursor)
        /\ \A i \in DOMAIN path : DependsOn(path[i], cursor)

RealCycle(c) ==
    /\ c.tables \in Seq(nodes) /\ Distinct(c.tables) /\ Ring(c.tables)
    /\ \A t \in Range(c.tables) : c.tables[1] <= t
    /\ c.all_deferrable <=> AllDeferrable(c.tables)

\* A reported cycle is t's or one it depends on.
Explained(t) == \E c \in cycles : \E m \in Range(c.tables) : t = m \/ DependsOn(t, m)

\* Visited tables are explained, and of those the outer loop has reached all but
\* the walk under way.
ReachedAreExplained ==
    /\ \A t \in visited : Explained(t)
    /\ \A t \in stuck \ starts : Explained(t) \/ (pc = "walk" /\ t \in {cursor} \cup Range(path))
    /\ pc = "done" => starts = {}

CyclesInv == WalkIsPath /\ (\A c \in cycles : RealCycle(c)) /\ ReachedAreExplained

LEMMA SameReferences ==
    ASSUME fks' = fks, nodes' = nodes
    PROVE  /\ \A c, p : References(c, p)' <=> References(c, p)
           /\ \A c, p : DependsOn(c, p)' <=> DependsOn(c, p)
           /\ \A c : RealCycle(c)' <=> RealCycle(c)
           /\ cycles \subseteq cycles' => \A t : Explained(t) => Explained(t)'
BY DEF References, DependsOn, RealCycle, Ring, Distinct, AllDeferrable, PairDeferrable, Explained

\* Steps that neither walk nor report.
LEMMA RestCyclesInv ==
    ASSUME CyclesInv, fks' = fks, nodes' = nodes, pc' # "walk", cycles' = cycles,
           visited' = visited, pc # "walk",
           (stuck' = stuck /\ starts' = starts) \/ stuck' = starts',
           pc' = "done" => starts' = {}
    PROVE  CyclesInv'
<1>1. /\ \A c : RealCycle(c)' <=> RealCycle(c)
      /\ \A t : Explained(t) => Explained(t)'
  BY SameReferences
<1>. QED  BY <1>1 DEF CyclesInv, WalkIsPath, ReachedAreExplained

LEMMA NextStartCyclesInv == ASSUME IInv, CyclesInv, NextStart PROVE CyclesInv'
<1> DEFINE start == Smallest(starts)
<1>1. /\ cycles' = cycles /\ fks' = fks /\ nodes' = nodes /\ visited' = visited /\ stuck' = stuck
      /\ starts' = starts \ {start} /\ cursor' = start /\ path' = <<>> /\ pc = "scan"
      /\ pc' = IF start \in visited THEN "scan" ELSE "walk"
  BY DEF NextStart, inputs
<1>. HIDE DEF start
<1>2. /\ \A c : RealCycle(c)' <=> RealCycle(c)
      /\ \A t : Explained(t) => Explained(t)'
  BY <1>1, SameReferences
<1>3. WalkIsPath'
  BY <1>1 DEF WalkIsPath, Distinct
<1>4. ReachedAreExplained'
  BY <1>1, <1>2 DEF CyclesInv, ReachedAreExplained
<1>. QED  BY <1>1, <1>2, <1>3, <1>4 DEF CyclesInv

LEMMA WalkCyclesInv ==
    ASSUME IInv, NoDeadEnd, CyclesInv, WalkToParent
    PROVE  CyclesInv'
<1> DEFINE n == Len(path)
           x == Smallest(StuckParents(cursor))
<1>1. /\ StuckParents(cursor) # {} /\ pc = "walk" /\ cursor \notin Range(path)
      /\ cycles' = cycles /\ fks' = fks /\ nodes' = nodes /\ visited' = visited /\ stuck' = stuck
      /\ starts' = starts /\ cursor' = x /\ path' = Append(path, cursor) /\ pc' = pc
  BY DEF WalkToParent, inputs, NoDeadEnd
<1>2. /\ \A c, p : References(c, p)' <=> References(c, p)
      /\ \A c, p : DependsOn(c, p)' <=> DependsOn(c, p)
      /\ \A c : RealCycle(c)' <=> RealCycle(c)
      /\ \A t : Explained(t) => Explained(t)'
  BY <1>1, SameReferences
<1>3. References(cursor, x) /\ x \in nodes /\ x \in stuck
  <2>1. StuckParents(cursor) \subseteq Nat
    BY TablesAssumption DEF StuckParents, ParentsOf, IInv, TypeOK
  <2>2. x \in StuckParents(cursor)
    BY <1>1, <2>1, SmallestIsLeast
  <2>. QED  BY <2>2, ParentsAreReferences DEF StuckParents
<1>4. /\ path \in Seq(stuck) /\ cursor \in stuck /\ cursor \in nodes /\ n \in Nat /\ DOMAIN path = 1..n
  BY <1>1, LenProperties DEF IInv, TypeOK
<1>5. /\ path' \in Seq(stuck) /\ Len(path') = n + 1 /\ DOMAIN path' = 1..(n + 1)
      /\ path'[n + 1] = cursor /\ \A i \in 1..n : path'[i] = path[i]
  BY <1>1, <1>4, AppendProperties, LenProperties
<1>6. \A i \in 1..(n + 1) : i = n + 1 \/ i \in 1..n
  BY <1>4
<1>7. \A i \in 1..n : path[i] # cursor
  BY <1>1, <1>4 DEF Range
<1>w. /\ Distinct(path)
      /\ \A i \in 1..(n - 1) : References(path[i], path[i + 1])
      /\ path # <<>> => References(path[n], cursor)
      /\ \A i \in 1..n : DependsOn(path[i], cursor)
  BY <1>1, <1>4 DEF CyclesInv, WalkIsPath
<1>8. Distinct(path')
  BY <1>4, <1>5, <1>6, <1>7, <1>w DEF Distinct
<1>9. \A i \in 1..n : References(path'[i], path'[i + 1])
  <2> SUFFICES ASSUME NEW i \in 1..n PROVE References(path'[i], path'[i + 1])
    OBVIOUS
  <2>1. CASE i = n
    <3>1. path # <<>>
      BY <1>4
    <3>. QED  BY <1>5, <1>w, <2>1, <3>1
  <2>2. CASE i # n
    <3>1. n \in Nat
      BY <1>4
    <3>. HIDE DEF n, x
    <3>2. i \in 1..(n - 1) /\ i + 1 \in 1..n
      BY <2>2, <3>1
    <3>. QED  BY <1>5, <1>w, <3>2
  <2>. QED  BY <2>1, <2>2
<1>10. \A i \in 1..(n + 1) : DependsOn(path'[i], x)
  <2>1. \A i \in 1..n : DependsOn(path[i], x)
    BY <1>3, <1>4, <1>w, DependsOnTransitive
  <2>2. DependsOn(cursor, x)
    BY <1>3, DependsOnTransitive
  <2>. QED  BY <1>5, <1>6, <2>1, <2>2
<1>11. WalkIsPath'
  <2>0. n \in Nat
    BY <1>4
  <2>. HIDE DEF x, n
  <2>1. Len(path') - 1 = n
    BY <1>5, <2>0
  <2>2. \A i \in 1..(Len(path') - 1) : References(path'[i], path'[i + 1])
    <3>. HIDE DEF References
    <3>. QED  BY <1>9, <2>1
  <2>3. References(path'[Len(path')], x)
    BY <1>3, <1>5
  <2>. QED  BY <1>1, <1>2, <1>5, <1>8, <1>10, <2>2, <2>3 DEF WalkIsPath, Distinct
<1>12. ReachedAreExplained'
  <2>1. \A t \in {cursor} \cup Range(path) : t \in Range(path')
    <3>1. n + 1 \in 1..(n + 1) /\ \A i \in 1..n : i \in 1..(n + 1)
      BY <1>4
    <3>. QED  BY <1>4, <1>5, <3>1 DEF Range
  <2>. QED  BY <1>1, <1>2, <2>1 DEF CyclesInv, ReachedAreExplained
<1>. QED  BY <1>1, <1>2, <1>11, <1>12 DEF CyclesInv

LEMMA CloseCyclesInv ==
    ASSUME IInv, CyclesInv, CloseCycle
    PROVE  CyclesInv'
<1> DEFINE at == CHOOSE i \in DOMAIN path : path[i] = cursor
           s == Closing
           least == CHOOSE i \in DOMAIN s : s[i] = Smallest(Range(s))
           r == RotateToSmallest(s)
           new == [tables |-> r, all_deferrable |-> AllDeferrable(r)]
<1>1. /\ pc = "walk" /\ pc' = "scan" /\ cursor \in Range(path)
      /\ cycles' = cycles \cup {new} /\ visited' = visited \cup Range(r)
      /\ fks' = fks /\ nodes' = nodes /\ stuck' = stuck /\ starts' = starts
  BY DEF CloseCycle, inputs
<1>2. /\ \A c, p : DependsOn(c, p)' <=> DependsOn(c, p)
      /\ \A c : RealCycle(c)' <=> RealCycle(c)
      /\ \A t : Explained(t) => Explained(t)'
  BY <1>1, SameReferences
<1>3. /\ path \in Seq(nodes) /\ nodes \subseteq Nat /\ at \in DOMAIN path /\ path[at] = cursor
      /\ path # <<>>
  <2>1. path \in Seq(stuck) /\ stuck \subseteq nodes /\ nodes \subseteq Nat
    BY TablesAssumption DEF IInv, TypeOK
  <2>2. at \in DOMAIN path /\ path[at] = cursor
    BY <1>1 DEF Range
  <2>. HIDE DEF at
  <2>3. path \in Seq(nodes)
    BY <2>1, SeqMonotonic
  <2>4. path # <<>>
    BY <2>2
  <2>. QED  BY <2>1, <2>2, <2>3, <2>4
<1>w. /\ Distinct(path)
      /\ \A i \in 1..(Len(path) - 1) : References(path[i], path[i + 1])
      /\ References(path[Len(path)], cursor)
      /\ \A i \in DOMAIN path : DependsOn(path[i], cursor)
  BY <1>1, <1>3 DEF CyclesInv, WalkIsPath
<1>4. s \in Seq(nodes) /\ s # <<>> /\ Distinct(s) /\ Ring(s) /\ s[1] = cursor
  <2>1. s = SubSeq(path, at, Len(path))
    BY DEF Closing
  <2>. HIDE DEF at, s
  <2>. QED  BY <1>3, <1>w, <2>1, ClosingIsRing
<1>. HIDE DEF s
<1>5. least \in DOMAIN s /\ s[least] \in Range(s) /\ \A t \in Range(s) : s[least] <= t
  <2>1. Len(s) \in Nat \ {0} /\ DOMAIN s = 1..Len(s) /\ Range(s) \subseteq nodes
    BY <1>4, EmptySeq, LenProperties, RangeOfSeq
  <2>2. s[1] \in Range(s)
    BY <2>1 DEF Range
  <2>3. Smallest(Range(s)) \in Range(s) /\ \A t \in Range(s) : Smallest(Range(s)) <= t
    BY <1>3, <2>1, <2>2, SmallestIsLeast
  <2>4. \E i \in DOMAIN s : s[i] = Smallest(Range(s))
    BY <2>3 DEF Range
  <2>. QED  BY <2>3, <2>4
<1>6. r = SubSeq(s, least, Len(s)) \o SubSeq(s, 1, least - 1)
  BY DEF RotateToSmallest
<1>. HIDE DEF least, r
<1>7. r \in Seq(nodes) /\ Distinct(r) /\ Ring(r) /\ r[1] = s[least] /\ Range(r) = Range(s)
  BY <1>4, <1>5, <1>6, RotatedRing
<1>8. RealCycle(new)
  BY <1>5, <1>7 DEF RealCycle
<1>9. cursor \in Range(r)
  <2>1. Len(s) \in Nat \ {0} /\ DOMAIN s = 1..Len(s)
    BY <1>4, EmptySeq, LenProperties
  <2>2. s[1] \in Range(s)
    BY <2>1 DEF Range
  <2>. QED  BY <1>4, <1>7, <2>2
<1>n. new \in cycles' /\ new.tables = r
  BY <1>1
<1>. HIDE DEF new
<1>10. \A t \in Range(r) : Explained(t)'
  <2> SUFFICES ASSUME NEW t \in Range(r) PROVE Explained(t)'
    OBVIOUS
  <2>1. \E m \in Range(new.tables) : t = m \/ DependsOn(t, m)'
    BY <1>n
  <2>. QED  BY <1>n, <2>1 DEF Explained
<1>11. \A t \in Range(path) : Explained(t)'
  <2> SUFFICES ASSUME NEW t \in Range(path) PROVE Explained(t)'
    OBVIOUS
  <2>1. PICK i \in DOMAIN path : t = path[i]
    BY DEF Range
  <2>2. PICK m \in Range(r) : m = cursor
    BY <1>9
  <2>3. DependsOn(t, m)
    BY <1>w, <2>1, <2>2
  <2>4. DependsOn(t, m)'
    BY <1>2, <2>3
  <2>. QED  BY <1>n, <2>2, <2>4 DEF Explained
<1>12. ReachedAreExplained'
  BY <1>1, <1>2, <1>9, <1>10, <1>11 DEF CyclesInv, ReachedAreExplained
<1>. QED  BY <1>1, <1>2, <1>8, <1>12 DEF CyclesInv, WalkIsPath

LEMMA CyclesInvHolds == Spec => []CyclesInv
<1>1. Init => CyclesInv
  BY DEF Init, CyclesInv, WalkIsPath, ReachedAreExplained
<1>2. IInv /\ NoDeadEnd /\ CyclesInv /\ [Next]_vars => CyclesInv'
  <2> SUFFICES ASSUME IInv, NoDeadEnd, CyclesInv, [Next]_vars PROVE CyclesInv'
    OBVIOUS
  <2>1. CASE Emit \/ Sorted \/ GetStuck \/ Scanned
    <3>1. /\ fks' = fks /\ nodes' = nodes /\ pc' # "walk" /\ cycles' = cycles
          /\ visited' = visited /\ pc # "walk"
          /\ (stuck' = stuck /\ starts' = starts) \/ stuck' = starts'
          /\ pc' = "done" => starts' = {}
      BY <2>1 DEF Emit, Sorted, GetStuck, Scanned, inputs, walking, IInv, TypeOK, StuckIsRest
    <3>. QED  BY <3>1, RestCyclesInv
  <2>2. CASE NextStart
    BY <2>2, NextStartCyclesInv
  <2>3. CASE CloseCycle
    BY <2>3, CloseCyclesInv
  <2>4. CASE WalkToParent
    BY <2>4, WalkCyclesInv
  <2>5. CASE MeetVisited
    <3>1. /\ pc = "walk" /\ pc' = "scan" /\ cursor \in visited
          /\ UNCHANGED <<fks, nodes, stuck, starts, visited, path, cursor, cycles>>
      BY <2>5 DEF MeetVisited, inputs, walking
    <3>2. /\ \A c : RealCycle(c)' <=> RealCycle(c)
          /\ \A t : Explained(t) => Explained(t)'
      BY <3>1, SameReferences
    <3>3. \A t \in {cursor} \cup Range(path) : Explained(t)
      <4>1. Explained(cursor) /\ cursor \in nodes
        BY <3>1 DEF CyclesInv, ReachedAreExplained, IInv, TypeOK
      <4>2. \A t \in Range(path) : DependsOn(t, cursor)
        BY <3>1 DEF CyclesInv, WalkIsPath, Range
      <4>. QED  BY <4>1, <4>2, DependsOnTransitive DEF Explained
    <3>. QED  BY <3>1, <3>2, <3>3 DEF CyclesInv, WalkIsPath, ReachedAreExplained
  <2>6. CASE UNCHANGED vars
    BY <2>6, SameReferences DEF vars, CyclesInv, WalkIsPath, ReachedAreExplained, Distinct,
       References, DependsOn
  <2>. QED  BY <2>1, <2>2, <2>3, <2>4, <2>5, <2>6 DEF Next, Terminated
<1>. QED  BY <1>1, <1>2, IInvHolds, WalkHasNoDeadEnd, PTL DEF Spec

\* Every cycle reported is one of the schema's, told once round from its smallest
\* table, and called deferrable exactly if every key along it is.
THEOREM CyclesAreReal == Spec => []ReportedCyclesAreReal
<1>1. CyclesInv => ReportedCyclesAreReal
  <2> SUFFICES ASSUME CyclesInv, NEW c \in cycles
               PROVE  LET s == c.tables
                          Nxt(i) == s[(i % Len(s)) + 1]
                      IN  /\ Len(s) = Cardinality(Range(s))
                          /\ \A i \in DOMAIN s : References(s[i], Nxt(i)) /\ s[1] <= s[i]
                          /\ c.all_deferrable <=>
                               \A i \in DOMAIN s : \A k \in fks :
                                  k.child = s[i] /\ k.parent = Nxt(i) => k.deferrable
    BY DEF ReportedCyclesAreReal
  <2>1. RealCycle(c)
    BY DEF CyclesInv
  <2>2. Len(c.tables) = Cardinality(Range(c.tables))
    BY <2>1, DistinctLength DEF RealCycle
  <2>3. \A i \in DOMAIN c.tables : c.tables[1] <= c.tables[i]
    BY <2>1 DEF RealCycle, Range
  <2>. QED
    BY <2>1, <2>2, <2>3 DEF RealCycle, Ring, After, AllDeferrable, PairDeferrable
<1>. QED  BY <1>1, CyclesInvHolds, PTL

\* No table is stuck without a reason that is reported: it is in a reported cycle
\* or downstream of one.  So cmd_load, which defers constraints only if there is
\* a cycle, always learns of one when the order cannot put parents first.
THEOREM StuckTablesHaveACycle == Spec => []StuckTablesAreExplained
<1>1. CyclesInv => StuckTablesAreExplained
  BY DEF CyclesInv, ReachedAreExplained, StuckTablesAreExplained, Explained
<1>. QED  BY <1>1, CyclesInvHolds, PTL
=============================================================================
