----------------------------- MODULE TableOrder -----------------------------
(***************************************************************************)
(* order.rs: the order in which the selected tables are loaded, and the    *)
(* foreign-key cycles among them.                                          *)
(*                                                                         *)
(* `topological` first runs Kahn's algorithm over a frontier that always   *)
(* yields the smallest table id, then, if some tables never became ready,  *)
(* `find_cycles` walks parent edges among those stuck tables to name the   *)
(* cycles, and the stuck tables are appended in sorted order.  Each loop   *)
(* iteration of the code is one step here.                                 *)
(*                                                                         *)
(* A table id is a natural number, so that the order of the numbers is the *)
(* order of a BTreeSet<TableId>.  Ids are already canonical: resolving an  *)
(* unqualified name is left out.                                           *)
(***************************************************************************)
EXTENDS OrderedSets

CONSTANTS
    Tables,       \* the tables of the schema
    Schemas,      \* the sets of foreign keys a schema may declare
    Selections    \* the sets of tables a config may select

ForeignKey == [child : Tables, parent : Tables, deferrable : BOOLEAN]

ASSUME TablesAssumption == Tables \in SUBSET Nat /\ IsFiniteSet(Tables)
ASSUME InputsAssumption == /\ Schemas \subseteq SUBSET ForeignKey
                           /\ Selections \subseteq SUBSET Tables

VARIABLES
    fks,        \* the foreign keys of the schema (input)
    nodes,      \* the selected tables (input)
    pc,         \* "sort", then "scan" and "walk" in find_cycles, then "done"
    remaining,  \* parents still missing, for each table not yet ready
    ready,      \* the frontier: every parent is ordered, not yet ordered itself
    ordered,    \* the tables Kahn's algorithm has emitted
    stuck,      \* the tables left when the frontier ran empty
    starts,     \* find_cycles: stuck tables the outer loop has not reached
    visited,    \* find_cycles: tables known to lead to a reported cycle
    path,       \* find_cycles: the walk from the current start
    cursor,     \* find_cycles: the table the walk stands on
    cycles,     \* the cycles reported
    order       \* the result: the insert order

vars == <<fks, nodes, pc, remaining, ready, ordered, stuck, starts, visited,
          path, cursor, cycles, order>>

inputs  == <<fks, nodes>>
sorting == <<remaining, ready, ordered>>
walking == <<starts, visited, path, cursor, cycles>>

-----------------------------------------------------------------------------
(* The dependency maps. *)

\* Self-references and keys to unselected tables constrain nothing.
ParentsOf(t) == {p \in nodes : p # t /\ \E k \in fks : k.child = t /\ k.parent = p}

ChildrenOf(t) == {c \in nodes : t \in ParentsOf(c)}

\* Mutated form: the last key seen decides, so one deferrable key is enough.
PairDeferrable_Any(p, c) == \E k \in fks : k.child = c /\ k.parent = p /\ k.deferrable

\* Several keys between one pair: the pair is deferrable only if all are.
PairDeferrable(p, c) == \A k \in fks : k.child = c /\ k.parent = p => k.deferrable

\* Mutated form: the frontier popped from the wrong end.
Smallest_Largest(S) == CHOOSE x \in S : \A y \in S : x >= y

Smallest(S) == CHOOSE x \in S : \A y \in S : x <= y

-----------------------------------------------------------------------------
(* Kahn's algorithm. *)

\* Mutated form: one entry per foreign key instead of one per parent.
MissingParents_PerKey(t) ==
    Cardinality({k \in fks : k.child = t /\ k.parent \in ParentsOf(t)})

MissingParents(t) == Cardinality(ParentsOf(t))

Init ==
    /\ fks \in Schemas
    /\ nodes \in Selections
    /\ pc = "sort"
    /\ ready = {t \in nodes : MissingParents(t) = 0}
    /\ remaining = [t \in nodes \ ready |-> MissingParents(t)]
    /\ ordered = <<>>
    /\ stuck = {} /\ starts = {} /\ visited = {}
    /\ path = <<>> /\ cursor = 0 /\ cycles = {} /\ order = <<>>

\* Mutated form: a child is freed while one more parent is missing.
Freed_TooEarly(t) == {c \in ChildrenOf(t) \cap DOMAIN remaining : remaining[c] <= 2}

\* The children whose last missing parent is t.
Freed(t) == {c \in ChildrenOf(t) \cap DOMAIN remaining : remaining[c] = 1}

Emit ==
    /\ pc = "sort"
    /\ ready # {}
    /\ LET next == Smallest(ready) IN
         /\ ordered' = Append(ordered, next)
         /\ ready' = (ready \ {next}) \cup Freed(next)
         /\ remaining' =
              [c \in DOMAIN remaining \ Freed(next) |->
                  IF c \in ChildrenOf(next) THEN remaining[c] - 1 ELSE remaining[c]]
    /\ UNCHANGED <<inputs, pc, stuck, walking, order>>

\* Nothing is stuck: the order is complete.
Sorted ==
    /\ pc = "sort"
    /\ ready = {}
    /\ DOMAIN remaining = {}
    /\ pc' = "done"
    /\ order' = ordered
    /\ UNCHANGED <<inputs, sorting, stuck, walking>>

\* The frontier ran empty with tables left, so find_cycles is called.
GetStuck ==
    /\ pc = "sort"
    /\ ready = {}
    /\ DOMAIN remaining # {}
    /\ pc' = "scan"
    /\ stuck' = DOMAIN remaining
    /\ starts' = stuck'
    /\ UNCHANGED <<inputs, sorting, visited, path, cursor, cycles, order>>

-----------------------------------------------------------------------------
(* find_cycles. *)

StuckParents(t) == ParentsOf(t) \cap stuck

\* The next start of the outer loop; one already visited is skipped.
NextStart ==
    /\ pc = "scan"
    /\ starts # {}
    /\ LET start == Smallest(starts) IN
         /\ starts' = starts \ {start}
         /\ cursor' = start
         /\ path' = <<>>
         /\ pc' = IF start \in visited THEN "scan" ELSE "walk"
    /\ UNCHANGED <<inputs, sorting, stuck, visited, cycles, order>>

\* The part of the walk from the table it came back to.
Closing == SubSeq(path, CHOOSE i \in DOMAIN path : path[i] = cursor, Len(path))

RotateToSmallest(s) ==
    LET at == CHOOSE i \in DOMAIN s : s[i] = Smallest(Range(s))
    IN  SubSeq(s, at, Len(s)) \o SubSeq(s, 1, at - 1)

\* s[i]'s parent is s[i + 1], and the last one's is s[1].
AllDeferrable(s) ==
    \A i \in DOMAIN s : PairDeferrable(s[(i % Len(s)) + 1], s[i])

CloseCycle ==
    /\ pc = "walk"
    /\ cursor \in Range(path)
    /\ LET members == RotateToSmallest(Closing) IN
         /\ cycles' = cycles \cup
              {[tables |-> members, all_deferrable |-> AllDeferrable(members)]}
         /\ visited' = visited \cup Range(members)
    /\ pc' = "scan"
    /\ UNCHANGED <<inputs, sorting, stuck, starts, path, cursor, order>>

\* The walk runs into tables reported before; it ends without marking its path.
MeetVisited ==
    /\ pc = "walk"
    /\ cursor \notin Range(path)
    /\ cursor \in visited
    /\ pc' = "scan"
    /\ UNCHANGED <<inputs, sorting, stuck, walking, order>>

\* Mutated form: the walk forgets where it has been.
WalkToParent_NoPath ==
    /\ pc = "walk"
    /\ cursor \notin Range(path) \cup visited
    /\ cursor' = Smallest(StuckParents(cursor))
    /\ UNCHANGED <<inputs, sorting, pc, path, visited, stuck, starts, cycles, order>>

\* The walk moves to the smallest stuck parent, or gives up where there is none.
WalkToParent ==
    /\ pc = "walk"
    /\ cursor \notin Range(path) \cup visited
    /\ path' = Append(path, cursor)
    /\ IF StuckParents(cursor) # {}
         THEN cursor' = Smallest(StuckParents(cursor)) /\ UNCHANGED <<pc, visited>>
         ELSE visited' = visited \cup Range(path') /\ pc' = "scan" /\ UNCHANGED cursor
    /\ UNCHANGED <<inputs, sorting, stuck, starts, cycles, order>>

\* Mutated form: find_cycles stops after the first start.
Scanned_FirstStartOnly ==
    /\ pc = "scan"
    /\ starts # stuck
    /\ pc' = "done"
    /\ order' = ordered \o Ascending(stuck)
    /\ UNCHANGED <<inputs, sorting, stuck, walking>>

\* Mutated form: the tables of a cycle are left out of the order.
Scanned_DropsStuck ==
    /\ pc = "scan"
    /\ starts = {}
    /\ pc' = "done"
    /\ order' = ordered
    /\ UNCHANGED <<inputs, sorting, stuck, walking>>

\* The stuck tables are appended in sorted order.
Scanned ==
    /\ pc = "scan"
    /\ starts = {}
    /\ pc' = "done"
    /\ order' = ordered \o Ascending(stuck)
    /\ UNCHANGED <<inputs, sorting, stuck, walking>>

-----------------------------------------------------------------------------
Terminated == pc = "done" /\ UNCHANGED vars

Next == \/ Emit \/ Sorted \/ GetStuck
        \/ NextStart \/ CloseCycle \/ MeetVisited \/ WalkToParent \/ Scanned
        \/ Terminated

Spec == Init /\ [][Next]_vars

\* topological is a synchronous function: it runs until it returns.
FairSpec == Spec /\ WF_vars(Next)

-----------------------------------------------------------------------------
(* Properties.  They speak of the declared keys, not of the maps above. *)

TypeOK ==
    /\ fks \in SUBSET ForeignKey
    /\ nodes \in SUBSET Tables
    /\ pc \in {"sort", "scan", "walk", "done"}
    /\ DOMAIN remaining \subseteq nodes
    /\ remaining \in [DOMAIN remaining -> Nat]
    /\ ready \subseteq nodes
    /\ ordered \in Seq(nodes)
    /\ stuck \subseteq nodes
    /\ starts \subseteq stuck
    /\ visited \subseteq stuck
    /\ path \in Seq(stuck)
    /\ cursor \in stuck \cup {0}
    /\ pc = "walk" => cursor \in stuck

\* c has a foreign key to another selected table p.
References(c, p) == p # c /\ \E k \in fks : k.child = c /\ k.parent = p

\* A set of tables none of which can be loaded before all the others: each one
\* references a table of the set.
Tangled(S) == \A c \in S : \E p \in S : References(c, p)

\* There is a path of foreign keys from c to p: p is in every set that holds
\* what c references and is closed under references.
DependsOn(c, p) ==
    \A S \in SUBSET nodes :
        /\ \A q \in nodes : References(c, q) => q \in S
        /\ \A d \in S, q \in nodes : References(d, q) => q \in S
        => p \in S

\* The tables emitted by the sort have every parent emitted before them, so a
\* foreign key of theirs never points at rows not yet loaded.
ParentsFirst ==
    \A i \in DOMAIN ordered : \A p \in nodes :
        References(ordered[i], p) => \E j \in 1..(i - 1) : ordered[j] = p

\* Exactly the tables in or downstream of a cycle are stuck: they are the
\* largest tangled set.  In particular nothing is stuck in an acyclic schema.
StuckIsTangle ==
    pc # "sort" =>
        /\ Tangled(stuck)
        /\ \A S \in SUBSET nodes : Tangled(S) => S \subseteq stuck

\* The order depends on nothing but schema and selection: each place goes to
\* the smallest table whose parents are all placed.
SmallestReadyFirst ==
    \A i \in DOMAIN ordered :
        LET earlier == {ordered[j] : j \in 1..(i - 1)}
            ripe == {t \in nodes \ earlier :
                        \A p \in nodes : References(t, p) => p \in earlier}
        IN  ordered[i] \in ripe /\ \A t \in ripe : ordered[i] <= t

\* Every selected table is in the result, once.
EveryTableOnce ==
    pc = "done" => Range(order) = nodes /\ Len(order) = Cardinality(nodes)

\* A reported cycle is one: each table references the next and the last the
\* first, no table occurs twice, it starts at its smallest table, and it is
\* flagged deferrable exactly if every key along it is.
ReportedCyclesAreReal ==
    \A c \in cycles :
        LET s == c.tables
            After(i) == s[(i % Len(s)) + 1]
        IN  /\ Len(s) = Cardinality(Range(s))
            /\ \A i \in DOMAIN s : References(s[i], After(i)) /\ s[1] <= s[i]
            /\ c.all_deferrable <=>
                 \A i \in DOMAIN s : \A k \in fks :
                    k.child = s[i] /\ k.parent = After(i) => k.deferrable

\* cmd_load defers constraints only if some cycle is reported: whenever tables
\* are stuck one is, and each stuck table is in or downstream of a reported one.
StuckTablesAreExplained ==
    pc = "done" =>
        \A t \in stuck : \E c \in cycles : \E m \in Range(c.tables) :
            t = m \/ DependsOn(t, m)

\* topological returns: no walk of find_cycles goes round for ever.
Terminates == <>(pc = "done")

=============================================================================
