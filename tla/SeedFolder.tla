----------------------------- MODULE SeedFolder -----------------------------
(***************************************************************************)
(* The seed folder and its lock: cmd_export, cmd_lock and cmd_verify of    *)
(* commands.rs, with AtomicFile and prune_stale of io.rs, the writers of   *)
(* format/, check_referential_closure of export.rs and export_buckets.     *)
(*                                                                         *)
(* An export queries table by table, without a transaction, replaces the   *)
(* files one by one, checks the references of what it wrote, prunes and    *)
(* writes the lock last.  Meanwhile the application writes to the          *)
(* database, other processes, one at a time, accept drift and relock, in a *)
(* step that reads the lock and one that writes it, and the process may    *)
(* fail or die between any two steps; then it is run again.                *)
(*                                                                         *)
(* A bucket is one more collection, whose rows are its objects.  A content *)
(* stands for its hash.  Something that may be missing, a file or an entry *)
(* of the lock, is a set of at most one element.  Exports with --out or    *)
(* --format are left out, and the gate, which is DriftGate's subject, is   *)
(* one of the ways to fail.                                                *)
(***************************************************************************)
EXTENDS Integers, FiniteSets

CONSTANTS
    Tables,        \* the tables, numbered in load order
    Keys,
    Versions,
    Parent,        \* the table that a table's rows refer to, or None
    PerRow,        \* the tables with a file for each row
    LooksLikeSeed, \* the objects whose names end as those of seed files do
    Databases,     \* the contents the database and the bucket may have
    Requests,      \* the exports to consider
    MaxRuns,       \* bound: exports run
    MaxChanges     \* bound: what happens beside them

None == 0
Bucket == 0
Collections == Tables \cup {Bucket}

Row == [id : Keys, ver : Versions, ref : Keys \cup {None}]

\* Which of the configured tables exist, which to export through which filter,
\* and the flags.
RequestType ==
    [live : SUBSET Tables, selected : SUBSET Tables, filter : [Tables -> SUBSET Keys],
     noFkCheck : BOOLEAN, followParents : BOOLEAN, buckets : BOOLEAN]

ASSUME NamesAssumption ==
    /\ Tables \subseteq Nat \ {0} /\ Keys \subseteq Nat \ {0}
    /\ PerRow \subseteq Tables
    /\ LooksLikeSeed \subseteq Keys
    /\ Parent \in [Tables -> Tables \cup {None}]

ASSUME InputsAssumption ==
    /\ Databases \subseteq [Collections -> SUBSET Row]
    /\ Requests \subseteq RequestType
    /\ MaxRuns \in Nat \ {0} /\ MaxChanges \in Nat

\* The one file of a table, and the manifest of the bucket.
Whole == 0
Manifest == <<Bucket, Whole>>
Objects == {Bucket} \X Keys
Paths == Collections \X (Keys \cup {Whole})

LockType == [schema : SUBSET Tables, files : [Tables -> SUBSET SUBSET Row],
             objects : SUBSET SUBSET Row, accepted : SUBSET Tables]

EmptyLock == [schema |-> {}, files |-> [t \in Tables |-> {}], objects |-> {}, accepted |-> {}]

VARIABLES
    db,       \* the rows of the live database, and the objects of the bucket
    folder,   \* the content of the file at each path, if any
    tmp,      \* the paths whose temporary file is on disk
    lock,     \* graine.lock
    request,  \* the export (input)
    pc,       \* where it is
    exit,     \* how it ended
    pulled,   \* the keys pulled in by --follow-parents
    current,  \* the collection being written, if any
    result,   \* what its query returned
    left,     \* its files still to write
    open,     \* the file being written, if any
    exports,  \* the rows exported of each collection, if it was
    carried,  \* the acceptances read back from the old lock
    runs,     \* exports started
    changes,  \* what happened beside them
    other,    \* the lock that another process, if any, is about to write
    results,  \* (history) the complete results of all queries
    late,     \* (history) tables whose acceptance was written while another process
              \* that did not read it was to write the lock
    stale     \* (history) whether an export wrote the lock since the other process
              \* read it: "no", "pending", or "written" if that process wrote it back

vars == <<db, folder, tmp, lock, request, pc, exit, pulled, current, result, left, open,
          exports, carried, runs, changes, other, results, late, stale>>

disk    == <<folder, tmp>>
writing == <<current, result, left, open>>
aside   == <<runs, changes, other>>
history == <<results, late, stale>>

-----------------------------------------------------------------------------
Exported == request.selected \cap request.live

Nothing == [c \in Collections |-> {}]

Init ==
    /\ db \in Databases
    /\ folder = [p \in Paths |-> {}] /\ tmp = {} /\ lock = EmptyLock
    /\ request \in Requests
    /\ pc = "start" /\ exit = "none"
    /\ pulled = [t \in Tables |-> {}]
    /\ current = {} /\ result = {} /\ left = {} /\ open = {}
    /\ exports = Nothing /\ carried = {}
    /\ runs = 1 /\ changes = 0
    /\ other = {} /\ results = {} /\ late = {} /\ stale = "no"

\* closure::resolve.  What it finds depends on the database when it looks, which
\* goes on changing: any keys of parents.
Resolve ==
    /\ pc = "start"
    /\ pulled' \in
         IF request.followParents
         THEN {f \in [Tables -> SUBSET Keys] :
                 \A t \in Tables : f[t] # {} => \E u \in Exported : Parent[u] = t}
         ELSE {pulled}
    /\ pc' = "tables"
    /\ UNCHANGED <<db, disk, lock, request, exit, writing, exports, carried, aside, history>>

-----------------------------------------------------------------------------
(* Writing the files of one collection. *)

\* The files that hold the rows of c: one, or one for each row.
FilesOf(c, rows) ==
    IF c \in PerRow THEN {<<c, r.id>> : r \in rows}
    ELSE IF c = Bucket THEN {<<c, r.id>> : r \in rows} \cup {Manifest}
    ELSE {<<c, Whole>>}

Content(p) == IF p[2] = Whole THEN result ELSE {r \in result : r.id = p[2]}

Selected(t) == {r \in db[t] : r.id \in request.filter[t] \cup pulled[t]}

\* A query sees the rows of one moment.  (The code opens the one file of a table
\* before it: a failure in between leaves what one right after it leaves.)
Query(t) ==
    /\ pc = "tables" /\ current = {}
    /\ t \in Exported /\ exports[t] = {}
    /\ \A u \in Exported : exports[u] = {} => t <= u
    /\ current' = {t}
    /\ result' = Selected(t)
    /\ left' = FilesOf(t, result')
    /\ results' = results \cup {result'}
    /\ UNCHANGED <<db, disk, lock, request, pc, exit, pulled, open, exports, carried, aside,
                   late, stale>>

\* The manifest is written after the objects.
Before(p, q) == q = Manifest \/ (p # Manifest /\ p[2] <= q[2])

\* Mutated form: the file itself is opened, which truncates it.
OpenFile_InPlace(p) ==
    /\ pc # "done"
    /\ p \in left /\ \A q \in left : Before(p, q)
    /\ open = {} /\ open' = {p}
    /\ folder' = [folder EXCEPT ![p] = {{}}]
    /\ UNCHANGED <<db, tmp, lock, request, pc, exit, pulled, current, result, left, exports,
                   carried, aside, history>>

\* AtomicFile::create
OpenFile(p) ==
    /\ pc # "done"
    /\ p \in left /\ \A q \in left : Before(p, q)
    /\ open = {} /\ open' = {p}
    /\ tmp' = tmp \cup {p}
    /\ UNCHANGED <<db, folder, lock, request, pc, exit, pulled, current, result, left, exports,
                   carried, aside, history>>

\* AtomicFile::commit
CommitFile(p) ==
    /\ pc # "done"
    /\ p \in open /\ open' = {}
    /\ folder' = [folder EXCEPT ![p] = {Content(p)}]
    /\ tmp' = tmp \ {p}
    /\ left' = left \ {p}
    /\ UNCHANGED <<db, lock, request, pc, exit, pulled, current, result, exports, carried,
                   aside, history>>

Written(c) ==
    /\ pc # "done"
    /\ c \in current /\ left = {}
    /\ exports' = [exports EXCEPT ![c] = {result}]
    /\ current' = {} /\ result' = {}
    /\ UNCHANGED <<db, disk, lock, request, pc, exit, pulled, left, open, carried, aside,
                   history>>

-----------------------------------------------------------------------------
(* What follows the tables. *)

\* Mutated form: only the tables exported are looked at, and a reference to a
\* table that is not counts as satisfied.
Dangling_Lenient ==
    {t \in Exported : \E rows \in exports[t] : \E r \in rows :
        /\ r.ref # None
        /\ Parent[t] \in Exported
        /\ \A s \in UNION exports[Parent[t]] : s.id # r.ref}

\* check_referential_closure, of the rows exported.
Dangling ==
    {t \in Exported : \E rows \in exports[t] : \E r \in rows :
        /\ r.ref # None
        /\ \A s \in UNION exports[Parent[t]] : s.id # r.ref}

End(how) == pc' = "done" /\ exit' = how

Check ==
    /\ pc = "tables" /\ current = {}
    /\ \A t \in Exported : exports[t] # {}
    /\ IF ~request.noFkCheck /\ Dangling # {} THEN End("dangling")
       ELSE pc' = "bucket" /\ UNCHANGED exit
    /\ UNCHANGED <<db, disk, lock, request, pulled, writing, exports, carried, aside, history>>

\* export_bucket, after which the directory of the objects is removed.
QueryBucket ==
    /\ pc = "bucket" /\ current = {}
    /\ request.buckets /\ exports[Bucket] = {}
    /\ current' = {Bucket}
    /\ result' = db[Bucket]
    /\ left' = FilesOf(Bucket, result')
    /\ folder' = [p \in Paths |-> IF p \in Objects THEN {} ELSE folder[p]]
    /\ tmp' = tmp \ Objects
    /\ results' = results \cup {result'}
    /\ UNCHANGED <<db, lock, request, pc, exit, pulled, open, exports, carried, aside,
                   late, stale>>

BucketDone ==
    /\ pc = "bucket" /\ current = {}
    /\ request.buckets => exports[Bucket] # {}
    /\ pc' = "prune"
    /\ UNCHANGED <<db, disk, lock, request, exit, pulled, writing, exports, carried, aside,
                   history>>

\* Mutated form: the files that the old lock records are kept too.
Keep_Recorded ==
    UNION {UNION {FilesOf(t, rows) : rows \in exports[t] \cup lock.files[t]} : t \in Tables}

\* The files prune keeps are those of the tables.
Keep == UNION {UNION {FilesOf(t, rows) : rows \in exports[t]} : t \in Exported}

\* prune_stale goes by the name of a file, and removes every temporary one.
IsOurs(p) == p \in Objects => p[2] \in LooksLikeSeed

Stale == {p \in Paths \ Keep : folder[p] # {} /\ IsOurs(p)}

PruneFile(p) ==
    /\ pc = "prune"
    /\ p \in Stale
    /\ folder' = [folder EXCEPT ![p] = {}]
    /\ UNCHANGED <<db, tmp, lock, request, pc, exit, pulled, writing, exports, carried,
                   aside, history>>

PruneTemporary(p) ==
    /\ pc = "prune"
    /\ p \in tmp
    /\ tmp' = tmp \ {p}
    /\ UNCHANGED <<db, folder, lock, request, pc, exit, pulled, writing, exports, carried,
                   aside, history>>

\* Mutated form: the old lock is not read again.
Pruned_Unread ==
    /\ pc = "prune"
    /\ Stale = {} /\ tmp = {}
    /\ pc' = "lock"
    /\ UNCHANGED <<db, disk, lock, request, exit, pulled, writing, exports, carried, aside,
                   history>>

\* The lock is read again for its standing acceptances,
Pruned ==
    /\ pc = "prune"
    /\ Stale = {} /\ tmp = {}
    /\ carried' = lock.accepted
    /\ pc' = "lock"
    /\ UNCHANGED <<db, disk, lock, request, exit, pulled, writing, exports, aside, history>>

\* What l accepts and the other process did not read.
Unread(l) == UNION {l.accepted \ o.accepted : o \in other}

\* and written.
WriteLock ==
    /\ pc = "lock"
    /\ lock' = [schema |-> request.live, files |-> [t \in Tables |-> exports[t]],
                objects |-> exports[Bucket], accepted |-> carried \cap request.live]
    /\ End("ok")
    /\ late' = late \cup Unread(lock')
    /\ stale' = IF other = {} THEN "no" ELSE "pending"
    /\ UNCHANGED <<db, disk, request, pulled, writing, exports, carried, aside, results>>

-----------------------------------------------------------------------------
(* What else happens. *)

\* The gate refuses, a query or a write fails: an open file is dropped.
Fail ==
    /\ pc # "done"
    /\ tmp' = tmp \ open
    /\ End("error")
    /\ UNCHANGED <<db, folder, lock, request, pulled, writing, exports, carried, aside, history>>

\* The process dies.
Crash ==
    /\ pc # "done"
    /\ End("crashed")
    /\ UNCHANGED <<db, disk, lock, request, pulled, writing, exports, carried, aside, history>>

ExportAgain ==
    /\ pc = "done"
    /\ runs < MaxRuns /\ runs' = runs + 1
    /\ request' \in Requests
    /\ pc' = "start" /\ exit' = "none"
    /\ pulled' = [t \in Tables |-> {}]
    /\ current' = {} /\ result' = {} /\ left' = {} /\ open' = {}
    /\ exports' = Nothing /\ carried' = {}
    /\ UNCHANGED <<db, disk, lock, changes, other, history>>

Other == changes < MaxChanges /\ changes' = changes + 1

\* The application writes to the database or to the bucket (external).
Change ==
    /\ Other
    /\ db' \in Databases
    /\ UNCHANGED <<disk, lock, request, pc, exit, pulled, writing, exports, carried, runs,
                   other, history>>

\* Another process, one at a time, reads the lock: to add an acceptance
\* (persist_accepted),
AcceptRead(t) ==
    /\ Other /\ other = {}
    /\ t \in lock.schema
    /\ other' = {[lock EXCEPT !.accepted = @ \cup {t}]}
    /\ UNCHANGED <<db, disk, lock, request, pc, exit, pulled, writing, exports, carried, runs,
                   history>>

\* or to relock (cmd_lock): the hashes of the files stay, those of the bucket go.
RelockRead ==
    /\ Other /\ other = {}
    /\ other' = {[schema |-> request.live,
                  files |-> [t \in Tables |-> IF t \in request.live THEN lock.files[t] ELSE {}],
                  objects |-> {},
                  accepted |-> lock.accepted \cap request.live]}
    /\ UNCHANGED <<db, disk, lock, request, pc, exit, pulled, writing, exports, carried, runs,
                   history>>

\* It writes back all of what it made of it, whatever the lock is by then.
WriteBack ==
    /\ other # {} /\ other' = {}
    /\ lock' \in other
    /\ late' = IF pc = "lock" THEN late \cup (lock'.accepted \ carried) ELSE late
    /\ stale' = IF stale = "pending" THEN "written" ELSE stale
    /\ UNCHANGED <<db, disk, request, pc, exit, pulled, writing, exports, carried, runs,
                   changes, results>>

Terminated == pc = "done" /\ UNCHANGED vars

Next ==
    \/ Resolve \/ \E t \in Tables : Query(t)
    \/ \E p \in Paths : OpenFile(p) \/ CommitFile(p) \/ PruneFile(p) \/ PruneTemporary(p)
    \/ \E c \in Collections : Written(c)
    \/ Check \/ QueryBucket \/ BucketDone \/ Pruned \/ WriteLock
    \/ Fail \/ Crash \/ ExportAgain \/ Change \/ Terminated
    \/ RelockRead \/ WriteBack \/ \E t \in Tables : AcceptRead(t)

Spec == Init /\ [][Next]_vars

-----------------------------------------------------------------------------
(* What the folder is to those who read it. *)

\* format::read: the one file of t, or whatever is in its directory.
RowsOf(t) ==
    IF t \in PerRow THEN UNION {UNION folder[<<t, k>>] : k \in Keys}
    ELSE UNION folder[<<t, Whole>>]

Readable(t) == t \in PerRow \/ folder[<<t, Whole>>] # {}

\* cmd_verify passes: it counts the rows of the tables, and hashes objects.
TableVerifies(t) ==
    \E rows \in lock.files[t] : Readable(t) /\ Cardinality(RowsOf(t)) = Cardinality(rows)

BucketVerifies ==
    \A rows \in lock.objects :
        /\ folder[Manifest] = {rows}
        /\ \A o \in rows : folder[<<Bucket, o.id>>] = {{o}}

Verifies(configured) == (\A t \in configured : TableVerifies(t)) /\ BucketVerifies

-----------------------------------------------------------------------------
(* Properties. *)

TypeOK ==
    /\ db \in Databases
    /\ folder \in [Paths -> SUBSET SUBSET Row]
    /\ \A p \in Paths : folder[p] = {} \/ \E rows \in SUBSET Row : folder[p] = {rows}
    /\ tmp \subseteq Paths
    /\ {lock} \cup other \subseteq LockType
    /\ \A o, p \in other : o = p
    /\ stale \in {"no", "pending", "written"}
    /\ request \in Requests
    /\ pc \in {"start", "tables", "bucket", "prune", "lock", "done"}
    /\ exit \in {"none", "ok", "dangling", "error", "crashed"}
    /\ pulled \in [Tables -> SUBSET Keys]
    /\ current \in {{}} \cup {{c} : c \in Collections}
    /\ result \subseteq Row
    /\ open \subseteq left /\ left \subseteq Paths
    /\ exports \in [Collections -> SUBSET SUBSET Row]
    /\ carried \cup late \subseteq Tables
    /\ runs \in 1..MaxRuns /\ changes \in 0..MaxChanges
    /\ results \subseteq SUBSET Row

\* "An interrupted export never leaves a half-written seed file": whatever fails
\* or dies, and however often, each file of a table is the complete result of
\* some query, or one row of it.
NothingHalfWritten ==
    \A t \in Tables : \A k \in Keys \cup {Whole} : \A rows \in folder[<<t, k>>] :
        \E whole \in results :
            rows = IF k = Whole THEN whole ELSE {r \in whole : r.id = k}

\* After an export that ended well the folder is what the lock says: the rows
\* read back from each table recorded are the rows recorded, no file of another
\* table or of an earlier, perhaps interrupted, export is left for a load to
\* find, nor an object that an exported bucket did not hold, nor a temporary file.
\* The gap that no file lock closes is left out: a process that read the lock before
\* this export wrote it, and writes after it, brings the old records back.
FolderMatchesLock ==
    exit = "ok" =>
        /\ stale # "written" => \A t \in Tables :
              /\ \A rows \in lock.files[t] : Readable(t) /\ RowsOf(t) = rows
              /\ lock.files[t] = {} => \A k \in Keys \cup {Whole} : folder[<<t, k>>] = {}
        /\ request.buckets =>
              \A p \in Objects : UNION folder[p] \subseteq UNION exports[Bucket]
        /\ tmp = {}

\* After an export that ended well without --no-fk-check, every reference of the
\* rows in the folder is satisfied by rows in the folder, though the tables were
\* read at different times.
ExportIsClosed ==
    exit = "ok" /\ ~request.noFkCheck =>
        \A t \in Tables : \A r \in RowsOf(t) :
            r.ref # None => \E s \in RowsOf(Parent[t]) : s.id = r.ref

\* A standing acceptance is lost only with its table, which the new lock does not
\* know, or if it was written right between another process's reading of the old
\* lock and its writing of the new one.
AcceptancesSurvive ==
    [][lock.accepted \ lock'.accepted \subseteq (Tables \ lock'.schema) \cup late]_vars

-----------------------------------------------------------------------------
(* What tests say beyond that. *)

\* tests/buckets.rs, after an export: "verify is offline and must pass".
ExportVerifies == exit = "ok" => Verifies(Exported)
=============================================================================
