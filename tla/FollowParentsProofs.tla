------------------------ MODULE FollowParentsProofs -------------------------
(***************************************************************************)
(* Proofs about FollowParents for any tables, keys, exports and number of  *)
(* rounds: only needed rows are pulled in, when the walk ends well and     *)
(* nobody wrote meanwhile, every parent that is there is selected, and it  *)
(* is given up only if the chain of references is too long.                *)
(***************************************************************************)
EXTENDS FollowParents, TLAPS

\* A key was read off a row that was selected in some state of the database,
\* with the rows that are pulled in now.
KeysWereThere ==
    \A t \in Tables : \A r \in keys[t] : \E d \in past : r \in Selected(t, d, pulled)

\* What is pulled in is in every set that holds the parents of what it holds.
PulledAreNeeded ==
    \A S \in SUBSET (Tables \X Keys) :
        (\A d \in past : HoldsParents(S, d)) =>
            \A t \in Tables : \A key \in pulled[t] : <<t, key>> \in S

\* While the database stays the same the keys read are those of the rows that
\* are selected, and at the end nothing is missing that was not looked for.
KeysAreCurrent ==
    past = {db} => \A t \in ToIndex \ todo : keys[t] = Selected(t, db, pulled)

NothingNew ==
    exit = "ok" => /\ todo = {}
                   /\ \A p \in Tables : Missing[p] \subseteq pulled[p]

IInv ==
    /\ TypeOK
    /\ KeysWereThere
    /\ PulledAreNeeded
    /\ KeysAreCurrent
    /\ NothingNew

-----------------------------------------------------------------------------
(* The operators. *)

\* The keys of a job are what its type says.
LEMMA JobFacts ==
    ASSUME job \in JobType
    PROVE  /\ job.fks \subseteq ForeignKey
           /\ job.configured \subseteq Tables
           /\ job.db \in Database
           /\ job.later \subseteq Database
           /\ \A k \in Followed :
                 k \in ForeignKey /\ k.child \in job.configured /\ k.child \in Tables
                   /\ k.parent \in Tables /\ k.column \in Columns
  BY DEF JobType, Followed, ForeignKey

\* Rows selected are rows of the table.
LEMMA SelectedRows ==
    ASSUME NEW t, NEW d, NEW extra
    PROVE  Selected(t, d, extra) \subseteq d[t]
  BY DEF Selected, Base

\* References and the missing values are keys.
LEMMA MissingFacts ==
    ASSUME TypeOK
    PROVE  Missing \in [Tables -> SUBSET Keys]
  <1>1. ASSUME NEW k \in Followed
        PROVE  References(k, keys[k.child]) \subseteq Keys
    BY <1>1, JobFacts DEF TypeOK, References, Row
  <1>2. ASSUME NEW p \in Tables
        PROVE  UNION {References(k, keys[k.child]) \ Targets(k, keys[p]) :
                         k \in {f \in Followed : f.parent = p}} \subseteq Keys
    BY <1>1
  <1> QED
    BY <1>2 DEF Missing

\* A value that is missing is referred to by a key that was read.
LEMMA MissingIsReferred ==
    ASSUME NEW p \in Tables, NEW v \in Missing[p]
    PROVE  \E k \in Followed : k.parent = p /\ \E r \in keys[k.child] :
               r.ref[k.column] = v /\ v # None
  BY DEF Missing, References

-----------------------------------------------------------------------------
(* Types. *)

\* The variables keep their types for every export: no table outside the
\* configuration is read, and no more rounds are counted than there are.
THEOREM TypeCorrect == Spec => []TypeOK
  <1>1. Init => TypeOK
    <2> SUFFICES ASSUME Init PROVE TypeOK
      OBVIOUS
    <2>1. job \in JobType
      BY JobsAssumption DEF Init
    <2>2. ToIndex \subseteq Tables
      BY <2>1, JobFacts DEF ToIndex
    <2> QED
      BY <2>1, <2>2, JobFacts, NamesAssumption DEF Init, TypeOK, NoRows
  <1>2. TypeOK /\ [Next]_vars => TypeOK'
    <2> SUFFICES ASSUME TypeOK, [Next]_vars PROVE TypeOK'
      OBVIOUS
    <2>1. ASSUME NEW t \in Tables, ReadKeys(t) PROVE TypeOK'
      <3>1. Selected(t, db, pulled) \subseteq Row
        BY SelectedRows DEF TypeOK, Database
      <3>2. ToIndex' = ToIndex
        BY <2>1 DEF ReadKeys, ToIndex
      <3> QED
        BY <2>1, <3>1, <3>2 DEF ReadKeys, TypeOK
    <2>2. CASE Settle
      BY <2>2 DEF Settle, TypeOK, ToIndex
    <2>3. CASE GiveUp
      BY <2>3 DEF GiveUp, TypeOK, ToIndex
    <2>4. CASE Pull
      <3>1. round' \in 0..MaxDepth
        BY <2>4, NamesAssumption DEF Pull, TypeOK
      <3>2. pulled' \in [Tables -> SUBSET Keys]
        BY <2>4, MissingFacts DEF Pull, TypeOK
      <3>3. todo' = ToIndex' /\ keys' \in [Tables -> SUBSET Row]
        BY <2>4 DEF Pull, ToIndex, NoRows
      <3> QED
        BY <2>4, <3>1, <3>2, <3>3 DEF Pull, TypeOK
    <2>5. CASE Change
      <3>1. db' \in Database
        BY <2>5, JobFacts DEF Change, TypeOK
      <3> QED
        BY <2>5, <3>1 DEF Change, TypeOK, ToIndex
    <2>6. CASE UNCHANGED vars
      BY <2>6 DEF vars, TypeOK, ToIndex
    <2> QED
      BY <2>1, <2>2, <2>3, <2>4, <2>5, <2>6 DEF Next, Terminated
  <1> QED
    BY <1>1, <1>2, PTL DEF Spec

-----------------------------------------------------------------------------
(* The invariant, action by action. *)

LEMMA InitIInv == Init => IInv
  <1> SUFFICES ASSUME Init PROVE IInv
    OBVIOUS
  <1>1. job \in JobType
    BY JobsAssumption DEF Init
  <1>2. TypeOK
    <2>1. ToIndex \subseteq Tables
      BY <1>1, JobFacts DEF ToIndex
    <2> QED
      BY <1>1, <2>1, JobFacts, NamesAssumption DEF Init, TypeOK, NoRows
  <1>3. KeysWereThere /\ PulledAreNeeded
    BY DEF Init, KeysWereThere, PulledAreNeeded, NoRows
  <1>4. KeysAreCurrent /\ NothingNew
    BY DEF Init, KeysAreCurrent, NothingNew
  <1> QED
    BY <1>2, <1>3, <1>4 DEF IInv

\* The definitions that only depend on the job keep their values.
LEMMA SameJob ==
    ASSUME job' = job
    PROVE  /\ Followed' = Followed /\ ToIndex' = ToIndex
           /\ \A t, d : Base(t, d)' = Base(t, d)
           /\ \A t, d, extra : Selected(t, d, extra)' = Selected(t, d, extra)
           /\ \A S, d : HoldsParents(S, d)' = HoldsParents(S, d)
  BY DEF Followed, ToIndex, Base, Selected, HoldsParents

\* Reading keys changes nothing that was known of the other tables.
LEMMA ReadKeysIInv ==
    ASSUME IInv, NEW t \in Tables, ReadKeys(t)
    PROVE  KeysWereThere' /\ PulledAreNeeded' /\ KeysAreCurrent' /\ NothingNew'
  <1>1. /\ job' = job /\ db' = db /\ pulled' = pulled /\ past' = past /\ exit' = "none"
        /\ keys' = [keys EXCEPT ![t] = Selected(t, db, pulled)]
        /\ todo' = todo \ {t}
    BY DEF ReadKeys
  <1>2. KeysWereThere'
    <2> SUFFICES ASSUME NEW u \in Tables, NEW r \in keys'[u]
                 PROVE  \E d \in past : r \in Selected(u, d, pulled)
      BY <1>1, SameJob DEF KeysWereThere
    <2>1. CASE u = t
      BY <1>1, <2>1 DEF IInv, TypeOK
    <2>2. CASE u # t
      BY <1>1, <2>2 DEF IInv, TypeOK, KeysWereThere
    <2> QED
      BY <2>1, <2>2
  <1>3. PulledAreNeeded'
    BY <1>1, SameJob DEF IInv, PulledAreNeeded
  <1>4. KeysAreCurrent'
    <2> SUFFICES ASSUME past = {db}, NEW u \in ToIndex \ todo'
                 PROVE  keys'[u] = Selected(u, db, pulled)
      BY <1>1, SameJob DEF KeysAreCurrent
    <2>1. u \in Tables
      BY JobFacts DEF IInv, TypeOK, ToIndex
    <2>2. CASE u = t
      BY <1>1, <2>2 DEF IInv, TypeOK
    <2>3. CASE u # t
      BY <1>1, <2>1, <2>3 DEF IInv, TypeOK, KeysAreCurrent
    <2> QED
      BY <2>2, <2>3
  <1>5. NothingNew'
    BY <1>1 DEF NothingNew
  <1> QED
    BY <1>2, <1>3, <1>4, <1>5

\* Whatever a set holds that is closed under references, it holds what is missing.
LEMMA MissingIsNeeded ==
    ASSUME TypeOK, KeysWereThere, PulledAreNeeded,
           NEW S \in SUBSET (Tables \X Keys), \A d \in past : HoldsParents(S, d),
           NEW p \in Tables, NEW v \in Missing[p]
    PROVE  <<p, v>> \in S
  <1>1. PICK k \in Followed : k.parent = p /\ \E r \in keys[k.child] : r.ref[k.column] = v /\ v # None
    BY MissingIsReferred
  <1>2. PICK r \in keys[k.child] : r.ref[k.column] = v /\ v # None
    BY <1>1
  <1>3. k.child \in Tables
    BY JobFacts DEF TypeOK
  <1>4. PICK d \in past : r \in Selected(k.child, d, pulled)
    BY <1>2, <1>3 DEF KeysWereThere
  <1>5. r \in d[k.child]
    BY <1>4, SelectedRows
  <1>6. r \in Base(k.child, d) \/ <<k.child, r.id>> \in S
    <2>1. r \in Base(k.child, d) \/ r.id \in pulled[k.child]
      BY <1>4 DEF Selected
    <2> QED
      BY <2>1, <1>3 DEF PulledAreNeeded
  <1> QED
    BY <1>1, <1>2, <1>4, <1>5, <1>6 DEF HoldsParents

\* What is pulled in was missing.
LEMMA PullIInv ==
    ASSUME IInv, Pull
    PROVE  KeysWereThere' /\ PulledAreNeeded' /\ KeysAreCurrent' /\ NothingNew'
  <1>1. /\ job' = job /\ db' = db /\ past' = past /\ exit' = "none"
        /\ pulled' = [p \in Tables |-> pulled[p] \cup Missing[p]]
        /\ keys' = NoRows /\ todo' = ToIndex
    BY DEF Pull, RoundEnds
  <1>2. KeysWereThere'
    BY <1>1 DEF KeysWereThere, NoRows
  <1>3. PulledAreNeeded'
    <2> SUFFICES ASSUME NEW S \in SUBSET (Tables \X Keys), \A d \in past : HoldsParents(S, d),
                        NEW p \in Tables, NEW v \in pulled'[p]
                 PROVE  <<p, v>> \in S
      BY <1>1, SameJob DEF PulledAreNeeded
    <2>1. CASE v \in pulled[p]
      BY <2>1 DEF IInv, PulledAreNeeded
    <2>2. CASE v \in Missing[p]
      BY <2>2, MissingIsNeeded DEF IInv
    <2> QED
      BY <1>1, <2>1, <2>2
  <1>4. KeysAreCurrent'
    BY <1>1, SameJob DEF KeysAreCurrent
  <1>5. NothingNew'
    BY <1>1 DEF NothingNew
  <1> QED
    BY <1>2, <1>3, <1>4, <1>5

\* What the database was it has been.
LEMMA ChangeIInv ==
    ASSUME IInv, Change
    PROVE  KeysWereThere' /\ PulledAreNeeded' /\ KeysAreCurrent' /\ NothingNew'
  <1>1. /\ job' = job /\ past' = past \cup {db'} /\ exit' = "none"
        /\ keys' = keys /\ pulled' = pulled /\ todo' = todo
    BY DEF Change
  <1>2. KeysWereThere'
    <2> SUFFICES ASSUME NEW u \in Tables, NEW r \in keys[u]
                 PROVE  \E d \in past' : r \in Selected(u, d, pulled)
      BY <1>1, SameJob DEF KeysWereThere
    <2> QED
      BY <1>1 DEF IInv, KeysWereThere
  <1>3. PulledAreNeeded'
    <2> SUFFICES ASSUME NEW S \in SUBSET (Tables \X Keys), \A d \in past' : HoldsParents(S, d),
                        NEW p \in Tables, NEW v \in pulled[p]
                 PROVE  <<p, v>> \in S
      BY <1>1, SameJob DEF PulledAreNeeded
    <2> QED
      BY <1>1 DEF IInv, PulledAreNeeded
  <1>4. KeysAreCurrent'
    <2> SUFFICES ASSUME past' = {db'}, NEW u \in ToIndex \ todo
                 PROVE  keys[u] = Selected(u, db', pulled)
      BY <1>1, SameJob DEF KeysAreCurrent
    <2>1. past = {db'} /\ db = db'
      BY <1>1 DEF IInv, TypeOK
    <2> QED
      BY <2>1 DEF IInv, KeysAreCurrent
  <1>5. NothingNew'
    BY <1>1 DEF NothingNew
  <1> QED
    BY <1>2, <1>3, <1>4, <1>5

\* The walk ends well with nothing missing, or nothing new.
LEMMA SettleIInv ==
    ASSUME IInv, Settle
    PROVE  KeysWereThere' /\ PulledAreNeeded' /\ KeysAreCurrent' /\ NothingNew'
  <1>1. UNCHANGED <<job, db, round, todo, keys, pulled, past>> /\ todo = {}
    BY DEF Settle, RoundEnds
  <1>2. KeysWereThere' /\ PulledAreNeeded' /\ KeysAreCurrent'
    BY <1>1, SameJob DEF IInv, KeysWereThere, PulledAreNeeded, KeysAreCurrent
  <1>3. Missing' = Missing
    BY <1>1 DEF Missing, References, Targets, Followed
  <1>4. \A p \in Tables : Missing[p] \subseteq pulled[p]
    <2>1. CASE Missing = NoRows
      BY <2>1 DEF NoRows
    <2>2. CASE ~Grows
      BY <2>2 DEF Grows
    <2> QED
      BY <2>1, <2>2 DEF Settle
  <1>5. NothingNew'
    BY <1>1, <1>3, <1>4 DEF NothingNew
  <1> QED
    BY <1>2, <1>5

\* Nothing that the parts other than NothingNew speak of changes.
LEMMA StillIInv ==
    ASSUME IInv, GiveUp \/ UNCHANGED vars
    PROVE  KeysWereThere' /\ PulledAreNeeded' /\ KeysAreCurrent' /\ NothingNew'
  <1>1. UNCHANGED <<job, db, round, todo, keys, pulled, past>>
    BY DEF GiveUp, vars
  <1>2. KeysWereThere' /\ PulledAreNeeded' /\ KeysAreCurrent'
    BY <1>1, SameJob DEF IInv, KeysWereThere, PulledAreNeeded, KeysAreCurrent
  <1>3. Missing' = Missing
    BY <1>1 DEF Missing, References, Targets, Followed
  <1>4. NothingNew'
    BY <1>1, <1>3 DEF NothingNew, GiveUp, vars, IInv
  <1> QED
    BY <1>2, <1>4

\* The invariant holds throughout.
THEOREM Invariance == Spec => []IInv
  <1>1. Spec => [](KeysWereThere /\ PulledAreNeeded /\ KeysAreCurrent /\ NothingNew)
    <2>1. TypeOK /\ (KeysWereThere /\ PulledAreNeeded /\ KeysAreCurrent /\ NothingNew)
            /\ [Next]_vars
          => (KeysWereThere /\ PulledAreNeeded /\ KeysAreCurrent /\ NothingNew)'
      <3> SUFFICES ASSUME IInv, [Next]_vars
                   PROVE  KeysWereThere' /\ PulledAreNeeded' /\ KeysAreCurrent' /\ NothingNew'
        BY DEF IInv
      <3>1. ASSUME NEW t \in Tables, ReadKeys(t)
            PROVE  KeysWereThere' /\ PulledAreNeeded' /\ KeysAreCurrent' /\ NothingNew'
        BY <3>1, ReadKeysIInv
      <3> QED
        BY <3>1, SettleIInv, PullIInv, ChangeIInv, StillIInv DEF Next, Terminated
    <2> QED
      BY <2>1, InitIInv, TypeCorrect, PTL DEF Spec, IInv
  <1> QED
    BY <1>1, TypeCorrect, PTL DEF IInv

-----------------------------------------------------------------------------
(* What follows. *)

\* Whatever the application writes between the rounds, only rows on a path of
\* references from a selected row are pulled in.
THEOREM OnlyTheNeededIsPulled == Spec => []NothingNeedless
  <1>1. IInv => NothingNeedless
    BY DEF IInv, PulledAreNeeded, NothingNeedless
  <1> QED
    BY <1>1, Invariance, PTL

\* When the walk ends well and nobody wrote meanwhile, what the selected rows
\* refer to by primary key is selected if it is there, whatever the filters,
\* limits, cycles and self-references.
THEOREM WellEndedWalksAreClosed == Spec => []FollowedIsClosed
  <1>1. IInv => FollowedIsClosed
    <2> SUFFICES ASSUME IInv, exit = "ok", past = {db}, NEW k \in Followed, k.on = "id",
                        NEW v \in References(k, Selected(k.child, db, pulled)),
                        k.parent \in job.configured, v \in Targets(k, db[k.parent]),
                        v \notin Targets(k, Selected(k.parent, db, pulled))
                 PROVE  FALSE
      BY DEF FollowedIsClosed, Repaired
    <2>1. k.child \in ToIndex /\ k.parent \in ToIndex /\ k.parent \in Tables
      BY JobFacts DEF Followed, ToIndex, IInv, TypeOK
    <2>2. /\ keys[k.child] = Selected(k.child, db, pulled)
          /\ keys[k.parent] = Selected(k.parent, db, pulled)
      BY <2>1 DEF IInv, KeysAreCurrent, NothingNew
    <2>3. v \in Missing[k.parent]
      <3>1. v \in References(k, keys[k.child]) \ Targets(k, keys[k.parent])
        BY <2>2
      <3> QED
        BY <2>1, <3>1 DEF Missing
    <2>4. v \in pulled[k.parent]
      BY <2>1, <2>3 DEF IInv, NothingNew
    <2>5. PICK r \in db[k.parent] : r.id = v
      BY DEF Targets
    <2>6. r \in Selected(k.parent, db, pulled)
      BY <2>4, <2>5 DEF Selected
    <2> QED
      BY <2>5, <2>6 DEF Targets
  <1> QED
    BY <1>1, Invariance, PTL

-----------------------------------------------------------------------------
(* When the walk is given up. *)

\* Reach up to the round n: the function that the definition chooses has these
\* values if there is one, which the rounds of the walk show one by one.
ReachUpTo(F, n) == F = [m \in 0..n |-> IF m = 0 THEN SelectedKeys ELSE AndParents(F[m - 1])]

\* What was selected or pulled in is what can be reached in as many steps as there
\* were rounds, and each round reached something new.
RoundsReach ==
    past = {db} /\ ByPrimaryKey =>
        /\ \E F : ReachUpTo(F, round)
        /\ \A F : ReachUpTo(F, round) =>
              /\ F[round] = [t \in Tables |-> SelectedKeys[t] \cup pulled[t]]
              /\ round > 0 => F[round] # F[round - 1]

DepthInv ==
    /\ RoundsReach
    /\ \A t \in Tables \ job.configured : keys[t] = {}
    /\ exit = "unsettled" => round = MaxDepth

\* Whether a row is selected depends on its key alone, so the rows selected are
\* those whose keys are.
LEMMA SelectedByKey ==
    ASSUME TypeOK, NEW t \in job.configured
    PROVE  Selected(t, db, pulled) = {r \in db[t] : r.id \in SelectedKeys[t] \cup pulled[t]}
<1>1. t \in Tables /\ db[t] \subseteq Row
  BY JobFacts DEF TypeOK, Database
<1>2. ASSUME NEW r \in db[t] PROVE r.id \in SelectedKeys[t] <=> r \in Base(t, db)
  <2>1. r.id \in Keys
    BY <1>1 DEF Row
  <2>2. ASSUME NEW s \in Base(t, db), s.id = r.id PROVE r \in Base(t, db)
    BY <2>2 DEF Base
  <2>. QED  BY <1>1, <2>1, <2>2 DEF SelectedKeys
<1>. QED  BY <1>2, SelectedRows DEF Selected, Base

\* At the end of a round, what is reached with one step more is what was reached
\* before and what is missing; and what was not looked for yet is new.
LEMMA RoundAddsMissing ==
    ASSUME IInv, DepthInv, RoundEnds, past = {db}, ByPrimaryKey
    PROVE  LET reached == [t \in Tables |-> SelectedKeys[t] \cup pulled[t]]
           IN  /\ AndParents(reached) = [p \in Tables |-> reached[p] \cup Missing[p]]
               /\ \A p \in Tables : Missing[p] \cap SelectedKeys[p] = {}
<1> DEFINE reached == [t \in Tables |-> SelectedKeys[t] \cup pulled[t]]
           Referred(k) == References(k, {r \in db[k.child] : r.id \in reached[k.child]})
<1>1. ASSUME NEW t \in ToIndex
      PROVE  t \in Tables /\ keys[t] = {r \in db[t] : r.id \in reached[t]}
  <2>1. t \in job.configured /\ t \in Tables
    BY JobFacts DEF ToIndex, IInv, TypeOK
  <2>2. keys[t] = Selected(t, db, pulled)
    BY DEF RoundEnds, IInv, KeysAreCurrent
  <2>. QED  BY <2>1, <2>2, SelectedByKey DEF IInv
<1>2. ASSUME NEW k \in Followed
      PROVE  /\ References(k, keys[k.child]) = Referred(k)
             /\ k.parent \in Tables
             /\ Targets(k, keys[k.parent]) \subseteq reached[k.parent]
             /\ SelectedKeys[k.parent] \subseteq Targets(k, keys[k.parent])
  <2>1. /\ k.child \in ToIndex /\ k.parent \in Tables /\ k.on = "id"
        /\ k.parent \in job.configured => k.parent \in ToIndex
    BY JobFacts DEF Followed, ToIndex, IInv, TypeOK, ByPrimaryKey
  <2>2. References(k, keys[k.child]) = Referred(k)
    BY <1>1, <2>1
  <2>3. CASE k.parent \in job.configured
    <3>1. keys[k.parent] = {r \in db[k.parent] : r.id \in reached[k.parent]}
      BY <1>1, <2>1, <2>3
    <3>2. ASSUME NEW v \in SelectedKeys[k.parent] PROVE v \in Targets(k, keys[k.parent])
      <4>1. PICK r \in Base(k.parent, db) : r.id = v
        BY <2>1 DEF SelectedKeys
      <4>2. r \in keys[k.parent]
        BY <2>1, <3>1, <4>1 DEF Base
      <4>. QED  BY <2>1, <4>1, <4>2 DEF Targets
    <3>3. Targets(k, keys[k.parent]) \subseteq reached[k.parent]
      BY <2>1, <3>1 DEF Targets
    <3>. QED  BY <2>1, <2>2, <3>2, <3>3
  <2>4. CASE k.parent \notin job.configured
    <3>1. keys[k.parent] = {} /\ SelectedKeys[k.parent] = {}
      BY <2>1, <2>4 DEF DepthInv, SelectedKeys
    <3>. QED  BY <2>1, <2>2, <3>1 DEF Targets
  <2>. QED  BY <2>3, <2>4
<1>. HIDE DEF Referred
<1>3. ASSUME NEW p \in Tables
      PROVE  AndParents(reached)[p] = reached[p] \cup Missing[p]
  <2>1. AndParents(reached)[p] =
          reached[p] \cup UNION {Referred(k) : k \in {f \in Followed : f.parent = p}}
    BY DEF AndParents, Referred
  <2>. HIDE DEF reached
  <2>2. Missing[p] = UNION {Referred(k) \ Targets(k, keys[p]) : k \in {f \in Followed : f.parent = p}}
    BY <1>2 DEF Missing
  <2>. QED  BY <1>2, <2>1, <2>2
<1>4. \A p \in Tables : Missing[p] \cap SelectedKeys[p] = {}
  <2>. HIDE DEF reached
  <2>. QED  BY <1>2 DEF Missing
<1>5. AndParents(reached) = [p \in Tables |-> reached[p] \cup Missing[p]]
  <2>1. AndParents(reached) = [p \in Tables |-> AndParents(reached)[p]]
    BY DEF AndParents
  <2>. HIDE DEF reached
  <2>. QED  BY <1>3, <2>1
<1>. QED  BY <1>4, <1>5
LEMMA SameReach ==
    ASSUME job' = job, db' = db
    PROVE  /\ SelectedKeys' = SelectedKeys
           /\ \A reached : AndParents(reached)' = AndParents(reached)
           /\ \A F, n : ReachUpTo(F, n)' <=> ReachUpTo(F, n)
<1>1. Followed' = Followed /\ \A t, d : Base(t, d)' = Base(t, d)
  BY SameJob
<1>. QED  BY <1>1 DEF SelectedKeys, AndParents, ReachUpTo, References

\* One more round of Reach.
LEMMA ReachGoesOn ==
    ASSUME NEW n \in Nat, NEW F, ReachUpTo(F, n)
    PROVE  \E G : ReachUpTo(G, n + 1)
<1> DEFINE G == [m \in 0..(n + 1) |-> IF m = n + 1 THEN AndParents(F[n]) ELSE F[m]]
<1>1. G[n] = F[n] /\ G[n + 1] = AndParents(F[n])
  OBVIOUS
<1>2. ReachUpTo(G, n + 1)
  <2> SUFFICES ASSUME NEW m \in 0..(n + 1)
               PROVE  G[m] = IF m = 0 THEN SelectedKeys ELSE AndParents(G[m - 1])
    BY DEF ReachUpTo
  <2>1. CASE m = n + 1
    BY <1>1, <2>1
  <2>2. CASE m # n + 1
    <3>1. m \in 0..n /\ m - 1 # n + 1 /\ (m # 0 => m - 1 \in 0..(n + 1))
      BY <2>2
    <3>2. F[m] = IF m = 0 THEN SelectedKeys ELSE AndParents(F[m - 1])
      BY <3>1 DEF ReachUpTo
    <3>. QED  BY <2>2, <3>1, <3>2
  <2>. QED  BY <2>1, <2>2
<1>. QED  BY <1>2

\* What Reach says of the rounds before.
LEMMA ReachBefore ==
    ASSUME NEW n \in Nat, NEW G, ReachUpTo(G, n + 1)
    PROVE  /\ G[n + 1] = AndParents(G[n])
           /\ \E F : ReachUpTo(F, n) /\ F[n] = G[n]
<1> DEFINE F == [m \in 0..n |-> G[m]]
<1>1. G[n + 1] = AndParents(G[n])
  BY DEF ReachUpTo
<1>2. ReachUpTo(F, n)
  <2> SUFFICES ASSUME NEW m \in 0..n
               PROVE  F[m] = IF m = 0 THEN SelectedKeys ELSE AndParents(F[m - 1])
    BY DEF ReachUpTo
  <2>1. m \in 0..(n + 1) /\ (m # 0 => m - 1 \in 0..n)
    OBVIOUS
  <2>2. G[m] = IF m = 0 THEN SelectedKeys ELSE AndParents(G[m - 1])
    BY <2>1 DEF ReachUpTo
  <2>. QED  BY <2>1, <2>2
<1>3. F[n] = G[n]
  OBVIOUS
<1>. QED  BY <1>1, <1>2, <1>3

\* A round that pulls rows in reaches something new.
LEMMA PullDepth == ASSUME IInv, DepthInv, Pull PROVE DepthInv'
<1>1. /\ UNCHANGED <<job, db, exit, past>> /\ RoundEnds /\ Grows /\ exit = "none"
      /\ pulled' = [p \in Tables |-> pulled[p] \cup Missing[p]]
      /\ keys' = NoRows /\ round' = round + 1 /\ round \in Nat
  BY DEF Pull, RoundEnds, IInv, TypeOK
<1>2. RoundsReach'
  <2> SUFFICES ASSUME past = {db}, ByPrimaryKey
               PROVE  /\ \E G : ReachUpTo(G, round + 1)
                      /\ \A G : ReachUpTo(G, round + 1) =>
                            /\ G[round + 1] = [t \in Tables |-> SelectedKeys[t] \cup pulled'[t]]
                            /\ G[round + 1] # G[round]
    <3>1. (past = {db})' <=> past = {db}
      BY <1>1
    <3>2. ByPrimaryKey' <=> ByPrimaryKey
      BY <1>1 DEF ByPrimaryKey
    <3>3. round' - 1 = round
      BY <1>1
    <3>. QED  BY <1>1, <3>1, <3>2, <3>3, SameReach DEF RoundsReach
  <2> DEFINE reached == [t \in Tables |-> SelectedKeys[t] \cup pulled[t]]
             further == [p \in Tables |-> reached[p] \cup Missing[p]]
  <2>1. /\ \E F : ReachUpTo(F, round)
        /\ \A F : ReachUpTo(F, round) => F[round] = reached
    BY DEF DepthInv, RoundsReach
  <2>2. AndParents(reached) = further /\ \A p \in Tables : Missing[p] \cap SelectedKeys[p] = {}
    BY <1>1, RoundAddsMissing
  <2>3. further = [t \in Tables |-> SelectedKeys[t] \cup pulled'[t]]
    BY <1>1
  <2>4. further # reached
    <3>1. PICK p \in Tables : ~(Missing[p] \subseteq pulled[p])
      BY <1>1 DEF Grows
    <3>2. PICK v \in Missing[p] : v \notin pulled[p]
      BY <3>1
    <3>. QED  BY <2>2, <3>2
  <2>. HIDE DEF reached, further
  <2>5. \E G : ReachUpTo(G, round + 1)
    BY <1>1, <2>1, ReachGoesOn
  <2>6. ASSUME NEW G, ReachUpTo(G, round + 1)
        PROVE  G[round + 1] = further /\ G[round] = reached
    BY <1>1, <2>1, <2>2, <2>6, ReachBefore
  <2>. QED  BY <2>3, <2>4, <2>5, <2>6
<1>. QED  BY <1>1, <1>2 DEF DepthInv, NoRows

LEMMA DepthStep == IInv /\ DepthInv /\ [Next]_vars => DepthInv'
<1> SUFFICES ASSUME IInv, DepthInv, [Next]_vars PROVE DepthInv'
  OBVIOUS
<1>1. ASSUME job' = job, db' = db, past' = past, round' = round, pulled' = pulled
      PROVE  RoundsReach'
  BY <1>1, SameReach DEF DepthInv, RoundsReach, ByPrimaryKey
<1>2. ASSUME NEW t \in Tables, ReadKeys(t) PROVE DepthInv'
  <2>1. /\ t \in job.configured
        /\ UNCHANGED <<job, db, round, pulled, exit, past>>
        /\ \A u \in Tables : u # t => keys'[u] = keys[u]
    BY <1>2 DEF ReadKeys, IInv, TypeOK, ToIndex
  <2>. QED  BY <1>1, <2>1 DEF DepthInv
<1>3. CASE Settle \/ GiveUp \/ UNCHANGED vars
  <2>1. /\ UNCHANGED <<job, db, round, todo, keys, pulled, past>>
        /\ exit' = "unsettled" => exit = "unsettled" \/ round = MaxDepth
    BY <1>3 DEF Settle, GiveUp, vars
  <2>. QED  BY <1>1, <2>1 DEF DepthInv
<1>4. CASE Change
  <2>1. /\ UNCHANGED <<job, round, todo, keys, pulled, exit>> /\ exit = "none"
        /\ past' = past \cup {db'} /\ db \in past
    BY <1>4 DEF Change, IInv, TypeOK
  <2>2. RoundsReach'
    <3>1. CASE past' = {db'}
      <4>1. db' = db /\ past' = past
        BY <2>1, <3>1
      <4>. QED  BY <1>1, <2>1, <4>1
    <3>2. CASE past' # {db'}
      BY <3>2 DEF RoundsReach
    <3>. QED  BY <3>1, <3>2
  <2>. QED  BY <2>1, <2>2 DEF DepthInv
<1>. QED  BY <1>2, <1>3, <1>4, PullDepth DEF Next, Terminated

LEMMA InitDepth == Init => DepthInv
<1> SUFFICES ASSUME Init PROVE DepthInv
  OBVIOUS
<1>1. round = 0 /\ exit = "none" /\ keys = NoRows /\ pulled = NoRows
  BY DEF Init
<1> DEFINE F == [m \in 0..0 |-> SelectedKeys]
<1>2. ReachUpTo(F, 0)
  BY DEF ReachUpTo
<1>3. SelectedKeys = [t \in Tables |-> SelectedKeys[t] \cup pulled[t]]
  BY <1>1 DEF SelectedKeys, NoRows
<1>. HIDE DEF F
<1>4. RoundsReach
  <2>1. ASSUME NEW G, ReachUpTo(G, 0) PROVE G[0] = SelectedKeys
    BY <2>1 DEF ReachUpTo
  <2>. QED  BY <1>1, <1>2, <1>3, <2>1 DEF RoundsReach
<1>. QED  BY <1>1, <1>4 DEF DepthInv, NoRows

\* If nobody writes meanwhile the walk is given up only where some row is as many
\* references away from the selected ones as there are rounds, however the tables
\* refer to each other and whatever filters and limits select.
THEOREM OnlyDeepWalksAreGivenUp == Spec => []GivesUpOnlyWhenDeep
<1>1. IInv /\ DepthInv => GivesUpOnlyWhenDeep
  <2> SUFFICES ASSUME IInv, DepthInv, exit = "unsettled", past = {db}, ByPrimaryKey, MaxDepth > 0
               PROVE  Reach[MaxDepth] # Reach[MaxDepth - 1]
    BY DEF GivesUpOnlyWhenDeep
  <2>1. /\ \E F : ReachUpTo(F, MaxDepth)
        /\ \A F : ReachUpTo(F, MaxDepth) => F[MaxDepth] # F[MaxDepth - 1]
    BY DEF DepthInv, RoundsReach
  <2>2. Reach = CHOOSE G : ReachUpTo(G, MaxDepth)
    BY DEF Reach, ReachUpTo
  <2>3. ReachUpTo(Reach, MaxDepth)
    BY <2>1, <2>2
  <2>. QED  BY <2>1, <2>3
<1>2. Spec => []DepthInv
  BY InitDepth, DepthStep, Invariance, PTL DEF Spec
<1>. QED  BY <1>1, <1>2, Invariance, PTL
=============================================================================
