----------------------------- MODULE DriftGate ------------------------------
(***************************************************************************)
(* gate_on_drift_with_buckets of commands.rs, in front of a load: the lock *)
(* is compared with the live schema, breaking drift ends the command, each *)
(* loss of data is asked about, a standing answer is written back into the *)
(* lock, and then the seed files, written under the locked schema, are     *)
(* read, validated and loaded under the live one.                          *)
(*                                                                         *)
(* The user takes any time to answer, so another process may relock while  *)
(* a question is open.  A finished command may be run again, after the     *)
(* live schema moved on.  How rows are written is LoadTxn's subject: here  *)
(* a load is one step.  Buckets, which are only ever compared, are left    *)
(* out.                                                                    *)
(***************************************************************************)
EXTENDS SchemaDrift

CONSTANTS
    Jobs,     \* the commands to consider: see JobsAssumption
    MaxRuns   \* bound: how often the command is run

-----------------------------------------------------------------------------
(* Values (external).  The text of a value has len characters, a number     *)
(* needs that many binary digits (bits) and decimal ones before and after   *)
(* the point (int, frac), and an array is described by its worst element.   *)

ScalarValue ==
    {v \in [form : STRING, len : Nat, bits : Nat, int : Nat, frac : Nat, label : Labels] :
        v.form # "array" /\ (v.form = "uuid" => v.len = 36)}

Value == ScalarValue \cup [form : {"array"}, len : Nat, element : ScalarValue]

SeedNull == [form |-> "null"]

\* The class stores v unchanged.
HoldsScalar(class, labels, v) ==
    \/ class.kind = "text" /\ (class.max_len = None \/ v.len <= class.max_len)
    \/ class.kind = "int" /\ v.form = "number" /\ v.frac = 0 /\ v.bits <= class.bits
    \/ /\ class.kind = "float" /\ v.form = "number"
       /\ v.bits <= (IF class.bits >= 64 THEN 53 ELSE 24)
    \/ /\ class.kind = "decimal" /\ v.form = "number"
       /\ \/ class.precision = None
          \/ v.int <= class.precision - class.scale /\ v.frac <= class.scale
    \/ class.kind = "enum" /\ v.form = "label" /\ v.label \in labels
    \/ class.kind = "timestamp" /\ v.form \in {"date", "timestamp"}
    \/ /\ class.kind \in {"bool", "bytes", "uuid", "json", "date", "time", "interval", "other"}
       /\ v.form = class.kind

Holds(class, labels, v) ==
    IF class.kind = "array"
    THEN v.form = "array" /\ HoldsScalar(class.of, labels, v.element)
    ELSE HoldsScalar(class, labels, v)

LabelsOf(schema, class) ==
    LET s == IF class.kind = "array" THEN class.of ELSE class
    IN  IF s.kind = "enum" THEN schema.enums[s.name] ELSE {}

Writable(table) == {c \in DOMAIN table.columns : ~table.columns[c].generated}

-----------------------------------------------------------------------------
Column == [class : TypeClass, nullable : BOOLEAN, has_default : BOOLEAN, generated : BOOLEAN]

\* What is used of a schema: its columns, and that their enums are declared.
WellFormed(schema) ==
    /\ DOMAIN schema.tables \subseteq Tables
    /\ \A t \in DOMAIN schema.tables :
         /\ DOMAIN schema.tables[t].columns \subseteq Columns
         /\ \A c \in DOMAIN schema.tables[t].columns :
              /\ schema.tables[t].columns[c] \in Column
              /\ \A e \in TypeNames :
                   UsesEnum(schema.tables[t].columns[c].class, e) => e \in DOMAIN schema.enums

\* The files hold values for the columns that could be exported, and such
\* values as these columns held.
Exported(schema, seed) ==
    /\ DOMAIN seed = DOMAIN schema.tables
    /\ \A t \in DOMAIN seed :
         LET table == schema.tables[t]
         IN  /\ DOMAIN seed[t] = Writable(table)
             /\ \A c \in Writable(table) :
                  \A v \in seed[t][c] :
                     \/ v = SeedNull /\ table.columns[c].nullable
                     \/ /\ v \in Value
                        /\ Holds(table.columns[c].class,
                                 LabelsOf(schema, table.columns[c].class), v)

ASSUME NamesAssumption == Tables \subseteq Nat \ {0} /\ Columns \subseteq Nat \ {0}
ASSUME JobsAssumption ==
    \A j \in Jobs :
        /\ WellFormed(j.locked) /\ WellFormed(j.live) /\ WellFormed(j.later)
        /\ Exported(j.locked, j.seed)
        /\ j.policy \in [Tables -> {"abort", "confirm", "ignore"}]
        /\ j.accepted \subseteq Tables
        /\ {j.force, j.yes, j.terminal, j.creatable} \subseteq BOOLEAN

VARIABLES
    job,      \* the schemas, on_drift policies, flags and seed values (input)
    live,     \* the live schema
    lockFile, \* graine.lock: its schema, and the tables with a standing acceptance
    pc,       \* where the command is
    lock,     \* the lock as this command read it
    report,   \* the drifts that the policies leave
    answered, \* the drifts agreed to in this run
    remember, \* the tables to be remembered
    reread,   \* the lock as persist_accepted read it
    exit,     \* how the command ended
    runs,     \* commands run so far
    rebuilt,  \* the lock another process has built and is about to write
    relocked, \* that process relocked: "no", "reading" (it has read the lock and not
              \* yet written it), "yes", or "late" if it wrote in the middle of
              \* persist_accepted
    standing  \* the tables the user was told will not be asked about again, but for
              \* those told while a relock that has read the lock was to write it

vars == <<job, live, lockFile, pc, lock, report, answered, remember, reread, exit,
          runs, rebuilt, relocked, standing>>

world == <<job, live, runs>>
gate  == <<lock, report, answered, remember, reread>>
told  == <<rebuilt, relocked, standing>>

-----------------------------------------------------------------------------
(* The gate. *)

Init ==
    /\ job \in Jobs
    /\ live = job.live
    /\ lockFile = [schema |-> job.locked, accepted |-> job.accepted]
    /\ lock = lockFile /\ reread = lockFile /\ rebuilt = lockFile
    /\ pc = "read" /\ exit = "none" /\ runs = 1
    /\ report = {} /\ answered = {} /\ remember = {}
    /\ relocked = "no" /\ standing = job.accepted

End(how) == pc' = "done" /\ exit' = how

Configured == DOMAIN job.seed

\* introspect: a table neither the database nor the lock knows is a typo.
Unknown ==
    /\ pc = "read"
    /\ ~(Configured \subseteq DOMAIN live.tables \cup DOMAIN lockFile.schema.tables)
    /\ End("unknown")
    /\ UNCHANGED <<world, lockFile, gate, told>>

ReadLock ==
    /\ pc = "read"
    /\ Configured \subseteq DOMAIN live.tables \cup DOMAIN lockFile.schema.tables
    /\ lock' = lockFile
    /\ pc' = "gate"
    /\ UNCHANGED <<world, lockFile, report, answered, remember, reread, exit, told>>

Policy(t) == IF t = Whole THEN "confirm" ELSE job.policy[t]

Drifts == {d \in Classify(lock.schema, live, job.creatable) : Policy(d.table) # "ignore"}

\* Mutated form: a policy of abort is not looked at.
Hard_NoAbort(ds) == \E d \in ds : d.severity = "breaking"

Hard(ds) ==
    \E d \in ds : \/ d.severity = "breaking"
                  \/ d.severity = "confirm" /\ Policy(d.table) = "abort"

Abort ==
    /\ pc = "gate"
    /\ Hard(Drifts) /\ ~job.force
    /\ End("aborted")
    /\ UNCHANGED <<world, lockFile, gate, told>>

\* Past hard drift --force asks nothing.
ForcePast ==
    /\ pc = "gate"
    /\ Hard(Drifts) /\ job.force
    /\ report' = Drifts
    /\ pc' = "load"
    /\ UNCHANGED <<world, lockFile, lock, answered, remember, reread, exit, told>>

Warn ==
    /\ pc = "gate"
    /\ ~Hard(Drifts)
    /\ report' = Drifts
    /\ pc' = "ask"
    /\ UNCHANGED <<world, lockFile, lock, answered, remember, reread, exit, told>>

\* The losses neither agreed to nor accepted in the lock.
Questions ==
    {d \in report : d.severity = "confirm" /\ d.table \notin lock.accepted} \ answered

\* Target::Table comes before Target::Column, whatever the table; then by name.
Before(d, e) ==
    IF d.column = Whole /\ e.column = Whole THEN d.table <= e.table
    ELSE \/ d.column = Whole
         \/ /\ e.column # Whole
            /\ d.table < e.table \/ (d.table = e.table /\ d.column <= e.column)

\* The question whose turn it is.
Asked(d) == d \in Questions /\ \A e \in Questions : Before(d, e)

\* --yes agrees without remembering.
AgreeOnce ==
    /\ pc = "ask"
    /\ job.yes \/ job.terminal
    /\ \E d \in Questions : Asked(d) /\ answered' = answered \cup {d}
    /\ UNCHANGED <<world, lockFile, pc, lock, report, remember, reread, exit, told>>

\* Mutated form: remembered at once.
AgreeAlways_AtOnce ==
    /\ pc = "ask"
    /\ job.terminal /\ ~job.yes
    /\ \E d \in Questions :
         /\ Asked(d)
         /\ answered' = answered \cup {d}
         /\ lockFile' = [lockFile EXCEPT !.accepted = @ \cup {d.table}]
    /\ UNCHANGED <<world, pc, lock, report, remember, reread, exit, told>>

AgreeAlways ==
    /\ pc = "ask"
    /\ job.terminal /\ ~job.yes
    /\ \E d \in Questions :
         /\ Asked(d)
         /\ answered' = answered \cup {d}
         /\ remember' = remember \cup {d.table}
    /\ UNCHANGED <<world, lockFile, pc, lock, report, reread, exit, told>>

\* The user says no, or there is no terminal to ask on.
Decline ==
    /\ pc = "ask"
    /\ ~job.yes
    /\ Questions # {}
    /\ End("declined")
    /\ UNCHANGED <<world, lockFile, gate, told>>

\* Mutated form: the lock is not read again.
PersistRead_Stale ==
    /\ pc = "ask"
    /\ Questions = {} /\ remember # {}
    /\ reread' = lock
    /\ pc' = "persist"
    /\ UNCHANGED <<world, lockFile, lock, report, answered, remember, exit, told>>

\* persist_accepted reads the lock again,
PersistRead ==
    /\ pc = "ask"
    /\ Questions = {} /\ remember # {}
    /\ reread' = lockFile
    /\ pc' = "persist"
    /\ UNCHANGED <<world, lockFile, lock, report, answered, remember, exit, told>>

\* and writes it with the tables to be remembered.
PersistWrite ==
    /\ pc = "persist"
    /\ lockFile' = [reread EXCEPT !.accepted = @ \cup remember]
    /\ standing' = standing \cup (IF relocked = "reading" THEN {} ELSE remember)
    /\ pc' = "load"
    /\ UNCHANGED <<world, gate, exit, rebuilt, relocked>>

NothingToRemember ==
    /\ pc = "ask"
    /\ Questions = {} /\ remember = {}
    /\ pc' = "load"
    /\ UNCHANGED <<world, lockFile, gate, exit, told>>

-----------------------------------------------------------------------------
(* The load. *)

\* A table the target has not got is described by the lock.
Description(t) == IF t \in DOMAIN live.tables THEN live ELSE lock.schema
Target(t) == Description(t).tables[t]

\* The load skips a table the target has not got, unless writing creates it.
Loads(t) == t \in DOMAIN live.tables \/ job.creatable

\* What the file has for column c: a column it lacks decodes as null.
SeedValues(t, c) == IF c \in DOMAIN job.seed[t] THEN job.seed[t][c] ELSE {SeedNull}

\* validate_rows finds fault with v.
Invalid(column, v) ==
    IF v = SeedNull THEN ~column.nullable /\ ~column.has_default
    ELSE column.class.kind = "text" /\ column.class.max_len # None
           /\ v.len > column.class.max_len

\* The file is refused for a column the table lacks, or an invalid value.
Refused(t) ==
    \/ ~(DOMAIN job.seed[t] \subseteq Writable(Target(t)))
    \/ \E c \in Writable(Target(t)) : \E v \in SeedValues(t, c) :
          Invalid(Target(t).columns[c], v)

\* The database (external) does not store v in column c of t.
Rejects(t, c, v) ==
    LET column == Target(t).columns[c]
    IN  IF v = SeedNull THEN ~column.nullable
        ELSE ~Holds(column.class, LabelsOf(Description(t), column.class), v)

Rejected(t) ==
    Loads(t) /\ \E c \in Writable(Target(t)) : \E v \in SeedValues(t, c) : Rejects(t, c, v)

Refuse ==
    /\ pc = "load"
    /\ \E t \in Configured : Refused(t)
    /\ End("refused")
    /\ UNCHANGED <<world, lockFile, gate, told>>

Reject ==
    /\ pc = "load"
    /\ \A t \in Configured : ~Refused(t)
    /\ \E t \in Configured : Rejected(t)
    /\ End("rejected")
    /\ UNCHANGED <<world, lockFile, gate, told>>

Load ==
    /\ pc = "load"
    /\ \A t \in Configured : ~Refused(t) /\ ~Rejected(t)
    /\ End("loaded")
    /\ UNCHANGED <<world, lockFile, gate, told>>

-----------------------------------------------------------------------------
(* The environment. *)

\* Mutated form: `graine lock` forgets the standing acceptances.
RelockRead_Forgets ==
    /\ relocked = "no"
    /\ \E seen \in {job.live, live} : rebuilt' = [schema |-> seen, accepted |-> {}]
    /\ relocked' = "reading"
    /\ UNCHANGED <<world, lockFile, pc, gate, exit, standing>>

\* `graine lock` by another process: from the schema it has introspected by now and
\* the lock it reads, whose acceptances of its tables it keeps, it builds a lock,
RelockRead ==
    /\ relocked = "no"
    /\ \E seen \in {job.live, live} :
         rebuilt' = [schema |-> seen, accepted |-> lockFile.accepted \cap DOMAIN seen.tables]
    /\ relocked' = "reading"
    /\ UNCHANGED <<world, lockFile, pc, gate, exit, standing>>

\* and writes it, whatever the lock is by then: no file lock is held.
RelockWrite ==
    /\ relocked = "reading"
    /\ lockFile' = rebuilt
    /\ relocked' = IF pc = "persist" THEN "late" ELSE "yes"
    /\ UNCHANGED <<world, pc, gate, exit, rebuilt, standing>>

RunAgain ==
    /\ pc = "done"
    /\ runs < MaxRuns
    /\ runs' = runs + 1
    /\ live' \in {live, job.later}
    /\ pc' = "read" /\ exit' = "none"
    /\ report' = {} /\ answered' = {} /\ remember' = {}
    /\ UNCHANGED <<job, lockFile, lock, reread, told>>

Terminated == pc = "done" /\ runs = MaxRuns /\ UNCHANGED vars

Next ==
    \/ Unknown \/ ReadLock \/ Abort \/ ForcePast \/ Warn
    \/ AgreeOnce \/ AgreeAlways \/ Decline
    \/ PersistRead \/ PersistWrite \/ NothingToRemember
    \/ Refuse \/ Reject \/ Load
    \/ RelockRead \/ RelockWrite \/ RunAgain \/ Terminated

Spec == Init /\ [][Next]_vars

-----------------------------------------------------------------------------
(* Properties. *)

TypeOK ==
    /\ live \in {job.live, job.later}
    /\ lockFile.schema \in {job.locked, job.live, job.later}
    /\ lock.schema \in {job.locked, job.live, job.later}
    /\ rebuilt.schema \in {job.locked, job.live, job.later}
    /\ rebuilt.accepted \subseteq Tables
    /\ relocked \in {"no", "reading", "yes", "late"}
    /\ lockFile.accepted \cup lock.accepted \cup standing \subseteq Tables
    /\ pc \in {"read", "gate", "ask", "persist", "load", "done"}
    /\ exit \in {"none", "unknown", "aborted", "declined", "refused", "rejected", "loaded"}
    /\ answered \subseteq report
    /\ remember \subseteq {d.table : d \in answered}

\* The rejections the gate does not foresee: the null of a column that is NOT
\* NULL with a default, a whole number too large for a decimal, a label removed
\* from an enum whose drift is reported for another table, which ignores it.
Unforeseen(t, c, v) ==
    LET was == lock.schema.tables[t].columns[c].class
        is == Target(t).columns[c].class
    IN  \/ v = SeedNull /\ Target(t).columns[c].has_default
        \/ was.kind = "int" /\ is.kind = "decimal"
        \/ was.kind = "array" /\ is.kind = "array"
             /\ was.of.kind = "int" /\ is.of.kind = "decimal"
        \/ \E e \in TypeNames :
             UsesEnum(was, e) /\ Policy(EnumOwner(lock.schema, e)) = "ignore"

\* Drift that would reject seed data is stopped: if the gate was passed without
\* --force and the files were found valid, the database rejects no value, but
\* for tables whose drift is ignored and the cases above.
GateForeseesRejections ==
    exit = "rejected" /\ ~job.force /\ lock.schema = job.locked =>
        \A t \in Configured :
            Loads(t) /\ Policy(t) # "ignore" =>
                \A c \in Writable(Target(t)) : \A v \in SeedValues(t, c) :
                    Rejects(t, c, v) => Unforeseen(t, c, v)

\* No table's rows are left out of a load that succeeds unless that very loss
\* was agreed to in this run, or the table has a standing acceptance, its drift
\* is ignored or --force was given; on_drift: abort only leaves --force.
LossIsAgreed ==
    exit = "loaded" =>
        \A t \in Configured :
            \/ Loads(t) \/ job.force \/ Policy(t) = "ignore"
            \/ /\ Policy(t) # "abort"
               /\ \/ t \in lock.accepted
                  \/ Drift("confirm", t, Whole, "table dropped") \in answered

\* A standing acceptance is only written when every question of the run was
\* agreed to, for tables that were asked about, and never under --yes.
RememberedAfterAll ==
    [][~(lockFile'.accepted \subseteq lockFile.accepted) =>
        /\ Questions = {} /\ ~job.yes
        /\ lockFile'.accepted \subseteq
             reread.accepted \cup {d.table : d \in answered}]_vars

\* "Will not be asked about again": not in a later run, whatever relocks and
\* migrations come in between, as long as the lock knows the table.  The gap that
\* no file lock closes is left out: an answer written between a relock's reading
\* of the lock and its writing is overwritten, so it does not count as standing.
NotAskedAgain ==
    [][\A d \in answered' \ answered : d.table \notin standing]_vars

\* An answer written back does not undo another process's relock, unless that
\* fell right between reading the lock and writing it.
RelockSurvives ==
    relocked = "yes" => lockFile.schema \in {job.live, job.later}

=============================================================================
