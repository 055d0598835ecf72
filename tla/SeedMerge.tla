----------------------------- MODULE SeedMerge ------------------------------
(***************************************************************************)
(* What a load job asks for, and what the database holds when it is done.  *)
(*                                                                         *)
(* A table is a set of rows with distinct keys.  Beside its key a row has  *)
(* a version, which stands for its other columns, and the set of rows its  *)
(* foreign keys point at.  A table id is a positive number, a key as well. *)
(***************************************************************************)
EXTENDS Naturals, Sequences, Functions

CONSTANTS
    Tables,   \* the configured tables
    Keys,     \* primary keys
    Versions, \* contents of the other columns
    Jobs      \* the loads to consider: see JobType

Row   == [id : Keys, ver : Versions, refs : SUBSET (Tables \X Keys)]
Store == [Tables -> SUBSET Row]

Engines == {"postgres", "mysql", "sqlite"}
Modes   == {"upsert", "insert", "skip_existing", "truncate_first"}

JobType ==
    [engine   : Engines,
     before   : Store,               \* the rows the database holds
     seed     : [Tables -> Seq(Row)],\* the rows of the seed files
     mode     : [Tables -> Modes],
     planned  : SUBSET Tables,       \* --tables
     place    : [Tables -> Nat],     \* where the load order puts a table
     cycle    : {"none", "deferrable", "plain"},  \* cycles among all tables
     batch    : Nat \ {0},           \* load.batch
     bindRows : Nat,                 \* rows of a table the bind limit allows
     readOnly : BOOLEAN, local : BOOLEAN, yes : BOOLEAN,
     dryRun   : BOOLEAN, noTransaction : BOOLEAN, fixSequences : BOOLEAN,
     buckets  : BOOLEAN]

RefersTo(S, p) == \E r \in S, k \in Keys : <<p, k>> \in r.refs

ASSUME SortsAssumption ==
    /\ Tables \subseteq Nat \ {0}
    /\ Keys \subseteq Nat \ {0}
    /\ \E max \in Keys \cup {0} : \A k \in Keys : k <= max
ASSUME JobsAssumption == Jobs \subseteq JobType
\* What TableOrder proves of the order: without a cycle, parents come first.
ASSUME OrderAssumption ==
    \A j \in Jobs :
        /\ IsInjective(j.place)
        /\ j.cycle = "none" =>
             \A t, p \in Tables :
                t # p /\ RefersTo(j.before[t] \cup Range(j.seed[t]), p)
                    => j.place[p] < j.place[t]

-----------------------------------------------------------------------------
KeysOf(S) == {r.id : r \in S}

\* Two rows of one seed file share their key: validate_rows refuses the file.
HasDuplicates(s) == \E i, k \in DOMAIN s : i # k /\ s[i].id = s[k].id

\* Writing the rows R over the rows S of a table.
Merge(mode, S, R) ==
    IF mode = "skip_existing"
    THEN S \cup {r \in R : r.id \notin KeysOf(S)}
    ELSE {r \in S : r.id \notin KeysOf(R)} \cup R

\* insert and truncate_first have no conflict clause.
Clashes(mode, S, R) ==
    mode \in {"insert", "truncate_first"} /\ KeysOf(S) \cap KeysOf(R) # {}

\* Mutated form: without regard to --tables.
Truncated_Unplanned(j) == {t \in Tables : j.mode[t] = "truncate_first"}

Truncated(j) == {t \in j.planned : j.mode[t] = "truncate_first"}

\* The content the load is to leave behind.
Loaded(j) ==
    [t \in Tables |->
        IF t \notin j.planned THEN j.before[t]
        ELSE Merge(j.mode[t], IF t \in Truncated(j) THEN {} ELSE j.before[t],
                   Range(j.seed[t]))]

\* x is a table and a key.
Present(db, x) == \E r \in db[x[1]] : r.id = x[2]
HasParents(db, r) == \A x \in r.refs : Present(db, x)
Closed(db) == \A t \in Tables : \A r \in db[t] : HasParents(db, r)
=============================================================================
