--------------------------- MODULE FollowParents ----------------------------
(***************************************************************************)
(* closure.rs: before an export with --follow-parents writes any file, it  *)
(* looks for the parents that the selected rows refer to but the filters   *)
(* leave out.  Round by round it reads the keys of every exported table,   *)
(* with the rows pulled in so far, and pulls in what is missing, until     *)
(* nothing is, nothing new is, or the rounds are used up.                  *)
(*                                                                         *)
(* A key is one value, also if it has several columns.  Tables of which    *)
(* some key column is not exported, which the code reads as empty, and     *)
(* tables without a primary key, which gain no rows, are left out.         *)
(***************************************************************************)
EXTENDS Integers, FiniteSets

CONSTANTS
    Tables,    \* the tables, numbered in load order
    Columns,   \* the columns that foreign keys are on
    Keys,
    MaxDepth,  \* DEFAULT_MAX_DEPTH, the number of rounds that may pull rows in
    Jobs       \* the exports to consider

None == 0

\* A row has a primary key, another unique column and references.
Row == [id : Keys, alt : Keys, ref : [Columns -> Keys \cup {None}]]
Database == [Tables -> SUBSET Row]

\* Key columns of the child refer to a unique column of the parent.
ForeignKey == [child : Tables, column : Columns, parent : Tables, on : {"id", "alt"}]

\* What is exported of which tables, from which database, and what others may
\* make of that in the meantime.
JobType ==
    [fks : SUBSET ForeignKey, configured : SUBSET Tables,
     filter : [Tables -> SUBSET Keys], limit : [Tables -> Nat],
     db : Database, later : SUBSET Database]

ASSUME NamesAssumption ==
    /\ Tables \subseteq Nat /\ Keys \subseteq Nat \ {0}
    /\ MaxDepth \in Nat

ASSUME JobsAssumption == Jobs \subseteq JobType

VARIABLES
    job,     \* the export (input)
    db,      \* the live database
    round,
    todo,    \* the tables whose keys are still to read in this round
    keys,    \* the rows whose keys were read in this round
    pulled,  \* the keys of the rows pulled in
    exit,    \* "none", then "ok" or "unsettled"
    past     \* (history) what the database has been

vars == <<job, db, round, todo, keys, pulled, exit, past>>

-----------------------------------------------------------------------------
(* Reading the keys of a table. *)

\* The rows that the filter selects, up to the limit, in their order.
Base(t, d) ==
    LET matching == {r \in d[t] : r.id \in job.filter[t]}
    IN  {r \in matching : Cardinality({s \in matching : s.id < r.id}) < job.limit[t]}

\* Mutated form: the limit cuts through the rows pulled in as well.
Selected_Cut(t, d, extra) ==
    LET all == Base(t, d) \cup {r \in d[t] : r.id \in extra[t]}
    IN  {r \in all : Cardinality({s \in all : s.id < r.id}) < job.limit[t]}

\* With the rows pulled in, to which the limit does not apply.
Selected(t, d, extra) == Base(t, d) \cup {r \in d[t] : r.id \in extra[t]}

\* columns_to_index: the tables that have a foreign key or are the target of one.
ToIndex ==
    {t \in job.configured : \E k \in job.fks :
        k.child \in job.configured /\ t \in {k.child, k.parent}}

NoRows == [t \in Tables |-> {}]

Init ==
    /\ job \in Jobs
    /\ db = job.db
    /\ round = 0 /\ todo = ToIndex
    /\ keys = NoRows /\ pulled = NoRows
    /\ exit = "none"
    /\ past = {job.db}

\* read_keys
ReadKeys(t) ==
    /\ exit = "none"
    /\ t \in todo /\ \A u \in todo : t <= u
    /\ keys' = [keys EXCEPT ![t] = Selected(t, db, pulled)]
    /\ todo' = todo \ {t}
    /\ UNCHANGED <<job, db, round, pulled, exit, past>>

-----------------------------------------------------------------------------
(* The end of a round. *)

References(k, rows) == {r.ref[k.column] : r \in rows} \ {None}
Targets(k, rows) == IF k.on = "id" THEN {r.id : r \in rows} ELSE {r.alt : r \in rows}

Followed == {k \in job.fks : k.child \in job.configured}

\* Mutated form: what is missing is noted under the table that refers to it.
Missing_OfChild ==
    [t \in Tables |->
        UNION {References(k, keys[k.child]) \ Targets(k, keys[k.parent]) :
                   k \in {f \in Followed : f.child = t}}]

\* dangling_values: for each parent the keys that are referred to and not there.
Missing ==
    [p \in Tables |->
        UNION {References(k, keys[k.child]) \ Targets(k, keys[p]) :
                   k \in {f \in Followed : f.parent = p}}]

RoundEnds == exit = "none" /\ todo = {}

Grows == \E p \in Tables : ~(Missing[p] \subseteq pulled[p])

\* Nothing is missing, or nothing that was not looked for before.
Settle ==
    /\ RoundEnds
    /\ Missing = NoRows \/ (round # MaxDepth /\ ~Grows)
    /\ exit' = "ok"
    /\ UNCHANGED <<job, db, round, todo, keys, pulled, past>>

\* Mutated form: the last round is not looked at.
GiveUp_Early ==
    /\ RoundEnds
    /\ Missing # NoRows /\ round + 1 >= MaxDepth
    /\ exit' = "unsettled"
    /\ UNCHANGED <<job, db, round, todo, keys, pulled, past>>

GiveUp ==
    /\ RoundEnds
    /\ Missing # NoRows /\ round = MaxDepth
    /\ exit' = "unsettled"
    /\ UNCHANGED <<job, db, round, todo, keys, pulled, past>>

Pull ==
    /\ RoundEnds
    /\ Missing # NoRows /\ round # MaxDepth /\ Grows
    /\ pulled' = [p \in Tables |-> pulled[p] \cup Missing[p]]
    /\ round' = round + 1
    /\ todo' = ToIndex /\ keys' = NoRows
    /\ UNCHANGED <<job, db, exit, past>>

\* The application writes to the database (external).
Change ==
    /\ exit = "none"
    /\ db' \in job.later
    /\ past' = past \cup {db'}
    /\ UNCHANGED <<job, round, todo, keys, pulled, exit>>

Terminated == exit # "none" /\ UNCHANGED vars

Next ==
    \/ \E t \in Tables : ReadKeys(t)
    \/ Settle \/ GiveUp \/ Pull \/ Change \/ Terminated

Spec == Init /\ [][Next]_vars

-----------------------------------------------------------------------------
(* Properties. *)

TypeOK ==
    /\ job \in JobType
    /\ db \in past /\ past \subseteq Database
    /\ round \in 0..MaxDepth
    /\ todo \subseteq ToIndex
    /\ keys \in [Tables -> SUBSET Row]
    /\ pulled \in [Tables -> SUBSET Keys]
    /\ exit \in {"none", "ok", "unsettled"}

ByPrimaryKey == \A k \in job.fks : k.on = "id"

\* S holds whatever a row selected in d, or a row of d in S, refers to.
HoldsParents(S, d) ==
    \A k \in Followed : \A r \in d[k.child] :
        /\ r \in Base(k.child, d) \/ <<k.child, r.id>> \in S
        /\ r.ref[k.column] # None
        => <<k.parent, r.ref[k.column]>> \in S

\* Only rows that are needed are pulled in: each is reached by a path of
\* references from a row that its filter and limit select, whatever happens to
\* the database between the rounds.
NothingNeedless ==
    ByPrimaryKey =>
        \A S \in SUBSET (Tables \X Keys) :
            (\A d \in past : HoldsParents(S, d)) =>
                \A t \in Tables : \A key \in pulled[t] : <<t, key>> \in S

\* What the rows selected at the end refer to is selected, if it is there.
Repaired(k) ==
    \A v \in References(k, Selected(k.child, db, pulled)) :
        k.parent \in job.configured /\ v \in Targets(k, db[k.parent]) =>
            v \in Targets(k, Selected(k.parent, db, pulled))

\* If nobody writes meanwhile, following references to primary keys leaves none
\* that an exported table could satisfy: neither filters nor limits cut a row
\* out again, through cycles and self-references.
FollowedIsClosed ==
    exit = "ok" /\ past = {db} => \A k \in Followed : k.on = "id" => Repaired(k)

\* The keys of the rows that filters and limits select of the exported tables.
SelectedKeys ==
    [t \in Tables |-> {key \in Keys : t \in job.configured /\ \E r \in Base(t, db) : r.id = key}]

\* These keys of each table and what their rows refer to.
AndParents(reached) ==
    [t \in Tables |->
        reached[t] \cup
          UNION {References(k, {r \in db[k.child] : r.id \in reached[k.child]}) :
                    k \in {f \in Followed : f.parent = t}}]

\* The keys of the rows at most n references away from those selected.
Reach[n \in 0..MaxDepth] == IF n = 0 THEN SelectedKeys ELSE AndParents(Reach[n - 1])

\* The walk is given up only if some row is as many references away as there
\* are rounds.
GivesUpOnlyWhenDeep ==
    exit = "unsettled" /\ past = {db} /\ ByPrimaryKey /\ MaxDepth > 0 =>
        Reach[MaxDepth] # Reach[MaxDepth - 1]

=============================================================================
