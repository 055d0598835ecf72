------------------------------ MODULE LoadTxn -------------------------------
(***************************************************************************)
(* `graine load` into an SQL database: cmd_load of commands.rs, with       *)
(* delete_pass, load_table and insert_one of load.rs and the hooks of the  *)
(* three dialects.  Every statement sent on the pinned connection is one   *)
(* step, which the engine accepts, refuses for a violated constraint or    *)
(* fails; the process may die between any two.                             *)
(*                                                                         *)
(* The engines are external.  What is modelled of them is what the code    *)
(* relies on: which statements a transaction covers, when foreign keys are *)
(* checked, what a failed statement does to the transaction, what a        *)
(* savepoint is outside one, and who sees a sequence move.                 *)
(***************************************************************************)
EXTENDS SeedMerge

CONSTANT MaxFaults   \* bound: statements that fail for no fault of the data

ASSUME MaxFaultsAssumption == MaxFaults \in Nat

VARIABLES
    job,       \* the load (input)
    pc,        \* where cmd_load is
    accepted,  \* the confirmation reasons accepted so far
    disk,      \* the rows every other session sees
    work,      \* the rows this session sees
    mark,      \* the rows as of SAVEPOINT graine_batch
    txn,       \* "none", "open", "aborted", or "savepoint" if that opened it
    deferred,  \* foreign-key checks are put off
    seq,       \* the next generated key of each table, as others see it
    mySeq,     \* the same, as this session sees it
    todo,      \* tables the current loop has still to treat
    next,      \* the next row of the current table
    committed, \* COMMIT has taken effect
    uploaded,  \* the bucket objects are uploaded
    exit,      \* how the command ended
    faults     \* statements failed so far

vars == <<job, pc, accepted, disk, work, mark, txn, deferred, seq, mySeq, todo,
          next, committed, uploaded, exit, faults>>

store    == <<disk, work, mark, txn, deferred>>
counters == <<seq, mySeq>>
loop     == <<todo, next>>
ending   == <<committed, uploaded, exit>>

-----------------------------------------------------------------------------
(* The engine (external). *)

\* A deferral lasts for a transaction, except that MySQL's is the session's.
Checked == ~(deferred /\ (job.engine = "mysql" \/ txn = "open"))

\* Row k of s may point at x: at a row that is there or comes with the same
\* statement, which for MySQL means with an earlier row of it.
ParentOf(t, s, k, x) ==
    \/ Present(work, x)
    \/ x[1] = t /\ \E i \in DOMAIN s : s[i].id = x[2] /\ (job.engine = "mysql" => i <= k)

\* INSERT IGNORE also ignores a row whose parent is missing.
Ignored(t, s) ==
    CHOOSE I \in SUBSET DOMAIN s :
        \A k \in DOMAIN s :
            k \in I <=> \E x \in s[k].refs \ {<<t, s[k].id>>} :
                /\ ~Present(work, x)
                /\ \A i \in 1..(k - 1) : i \in I \/ <<t, s[i].id>> # x

Swallows(t) == job.engine = "mysql" /\ job.mode[t] = "skip_existing" /\ Checked

RowsTaken(t, s) ==
    {s[k] : k \in DOMAIN s \ (IF Swallows(t) THEN Ignored(t, s) ELSE {})}

\* The statement that inserts the rows s into t is accepted.
Accepts(t, s) ==
    /\ ~Clashes(job.mode[t], work[t], Range(s))
    /\ Checked /\ ~Swallows(t) =>
         \A k \in DOMAIN s :
            \/ job.mode[t] = "skip_existing" /\ s[k].id \in KeysOf(work[t])
            \/ \A x \in s[k].refs : ParentOf(t, s, k, x)

Inserted(t, s) == [work EXCEPT ![t] = Merge(job.mode[t], @, RowsTaken(t, s))]

\* DELETE FROM t is accepted: nothing refers to it any more.  MySQL deletes by
\* key and minds references among the rows of t as well.
AcceptsDelete(t) ==
    Checked =>
        \A u \in Tables : \A r \in work[u] : \A x \in r.refs :
            x[1] = t /\ Present(work, x) =>
                u = t /\ (job.engine = "mysql" => r.id <= x[2])

\* A statement outside a transaction takes effect at once.
Write(rows) ==
    /\ work' = rows
    /\ disk' = IF txn = "none" THEN rows ELSE disk

NextKey(S) ==
    CHOOSE n \in {1} \cup {r.id + 1 : r \in S} : \A r \in S : r.id < n

\* MySQL and SQLite move a sequence past the keys inserted, Postgres does not;
\* MySQL's and Postgres's sequences do not take part in transactions.
Raise(t, n) ==
    /\ mySeq' = [mySeq EXCEPT ![t] = n]
    /\ seq' = IF job.engine = "sqlite" /\ txn # "none" THEN seq
              ELSE [seq EXCEPT ![t] = n]

Generate(t, S) ==
    IF job.engine = "postgres" \/ NextKey(S) <= mySeq[t]
    THEN UNCHANGED counters
    ELSE Raise(t, NextKey(S))

-----------------------------------------------------------------------------
(* How cmd_load ends.  Whatever is open is rolled back: by ROLLBACK where    *)
(* the code sends it, by the server when the connection goes away.           *)

Abort(how) ==
    /\ pc' = "done" /\ exit' = how
    /\ work' = disk /\ mySeq' = seq /\ txn' = "none"
    /\ UNCHANGED <<job, accepted, disk, mark, deferred, seq, loop, committed, uploaded>>

Sound == UNCHANGED faults

-----------------------------------------------------------------------------
(* Before anything is written. *)

Init ==
    /\ job \in Jobs
    /\ pc = "check" /\ accepted = {} /\ exit = "none"
    /\ disk = job.before /\ work = job.before /\ mark = job.before
    /\ txn = "none" /\ deferred = FALSE
    /\ seq = [t \in Tables |-> NextKey(job.before[t])] /\ mySeq = seq
    /\ todo = {} /\ next = 1
    /\ committed = FALSE /\ uploaded = FALSE /\ faults = 0

\* check_writable, then validate_rows on every planned table.
Refuse ==
    /\ pc = "check"
    /\ job.readOnly \/ \E t \in job.planned : HasDuplicates(job.seed[t])
    /\ Abort("refused")
    /\ Sound

NothingToLoad ==
    /\ pc = "check"
    /\ ~job.readOnly
    /\ job.planned = {}
    /\ Abort("nothing")
    /\ Sound

Plan ==
    /\ pc = "check"
    /\ ~job.readOnly
    /\ job.planned # {}
    /\ \A t \in job.planned : ~HasDuplicates(job.seed[t])
    /\ pc' = "confirm"
    /\ UNCHANGED <<job, accepted, store, counters, loop, ending, faults>>

\* Table ids are positive: 0 stands for the target that is not local.
NotLocal == 0

\* Mutated form: one reason for all tables to be emptied.
Reasons_SourceOnly == IF job.local THEN {} ELSE {NotLocal}

Reasons == Truncated(job) \cup (IF job.local THEN {} ELSE {NotLocal})

Accept(reason) ==
    /\ pc = "confirm"
    /\ ~job.dryRun
    /\ reason \in Reasons \ accepted
    /\ accepted' = accepted \cup {reason}
    /\ UNCHANGED <<job, pc, store, counters, loop, ending, faults>>

\* The user says no, or there is no terminal to ask on.
Decline ==
    /\ pc = "confirm"
    /\ ~job.dryRun
    /\ ~job.yes
    /\ Reasons \ accepted # {}
    /\ Abort("declined")
    /\ Sound

Begin ==
    /\ pc = "confirm"
    /\ job.dryRun \/ Reasons \subseteq accepted
    /\ txn' = IF job.noTransaction THEN "none" ELSE "open"
    /\ pc' = "defer"
    /\ UNCHANGED <<job, accepted, disk, work, mark, deferred, counters, loop,
                   ending, faults>>

\* defer_constraints: Postgres can only if every key of the cycle allows it.
CanDefer == job.engine = "postgres" => job.cycle = "deferrable"

\* Mutated form: constraints are deferred for every load.
Defer_Always ==
    /\ pc = "defer"
    /\ job.cycle # "none" => CanDefer
    /\ deferred' = TRUE
    /\ todo' = Truncated(job)
    /\ pc' = "delete"
    /\ UNCHANGED <<job, accepted, disk, work, mark, txn, counters, next, ending, faults>>

Defer ==
    /\ pc = "defer"
    /\ job.cycle # "none" => CanDefer
    /\ deferred' = (job.cycle # "none")
    /\ todo' = Truncated(job)
    /\ pc' = "delete"
    /\ UNCHANGED <<job, accepted, disk, work, mark, txn, counters, next, ending, faults>>

RefuseCycle ==
    /\ pc = "defer"
    /\ job.cycle # "none"
    /\ ~CanDefer
    /\ Abort("cycle")
    /\ Sound

-----------------------------------------------------------------------------
(* delete_pass: children before parents. *)

First(t) == t \in todo /\ \A u \in todo : job.place[t] <= job.place[u]
Last(t)  == t \in todo /\ \A u \in todo : job.place[u] <= job.place[t]

Delete(t) ==
    /\ pc = "delete"
    /\ Last(t)
    /\ IF AcceptsDelete(t)
         THEN /\ Write([work EXCEPT ![t] = {}])
              /\ todo' = todo \ {t}
              /\ UNCHANGED <<job, pc, accepted, mark, txn, deferred, counters, next,
                             ending, faults>>
         ELSE Abort("error") /\ Sound

AllDeleted ==
    /\ pc = "delete"
    /\ todo = {}
    /\ pc' = "load"
    /\ todo' = job.planned
    /\ UNCHANGED <<job, accepted, store, counters, next, ending, faults>>

-----------------------------------------------------------------------------
(* load_table, for each planned table in load order. *)

\* copy_in_statement: only Postgres, only the modes without conflict clause.
Bulk(t) == job.engine = "postgres" /\ job.mode[t] \in {"insert", "truncate_first"}

\* rows_per_batch.
PerBatch ==
    IF job.bindRows = 0 THEN 1
    ELSE IF job.batch < job.bindRows THEN job.batch ELSE job.bindRows

\* The last row of the chunk that row n is in.
ChunkEnd(t, n) ==
    LET full == ((n - 1) \div PerBatch + 1) * PerBatch
    IN  IF full < Len(job.seed[t]) THEN full ELSE Len(job.seed[t])

Chunk(t) == SubSeq(job.seed[t], next, ChunkEnd(t, next))
OneRow(t) == <<job.seed[t][next]>>

\* The statement that inserts s into t, and what follows if it went through.
Insert(t, s) ==
    /\ Write(Inserted(t, s))
    /\ Generate(t, Inserted(t, s)[t])

CopyIn(t) ==
    /\ pc = "load"
    /\ First(t)
    /\ Bulk(t)
    /\ IF Accepts(t, job.seed[t])
         THEN /\ Insert(t, job.seed[t])
              /\ todo' = todo \ {t}
              /\ UNCHANGED <<job, pc, accepted, mark, txn, deferred, next, ending, faults>>
         ELSE Abort("error") /\ Sound

\* A chunk of one row needs no savepoint.
InsertSingle(t) ==
    /\ pc = "load"
    /\ First(t)
    /\ ~Bulk(t)
    /\ next <= Len(job.seed[t])
    /\ next = ChunkEnd(t, next)
    /\ IF Accepts(t, OneRow(t))
         THEN /\ Insert(t, OneRow(t))
              /\ next' = next + 1
              /\ UNCHANGED <<job, pc, accepted, mark, txn, deferred, todo, ending, faults>>
         ELSE Abort("error") /\ Sound

\* Outside a transaction Postgres refuses a savepoint, MySQL forgets it and
\* SQLite opens a transaction with it.
Savepoint(t) ==
    /\ pc = "load"
    /\ First(t)
    /\ ~Bulk(t)
    /\ next < ChunkEnd(t, next)
    /\ IF job.engine = "postgres" /\ txn = "none"
         THEN Abort("error") /\ Sound
         ELSE /\ mark' = work
              /\ txn' = IF job.engine = "sqlite" /\ txn = "none" THEN "savepoint" ELSE txn
              /\ pc' = "batch"
              /\ UNCHANGED <<job, accepted, disk, work, deferred, counters, loop,
                             ending, faults>>

InsertBatch(t) ==
    /\ pc = "batch"
    /\ First(t)
    /\ Accepts(t, Chunk(t))
    /\ Insert(t, Chunk(t))
    /\ next' = ChunkEnd(t, next) + 1
    /\ pc' = "release"
    /\ UNCHANGED <<job, accepted, mark, txn, deferred, todo, ending, faults>>

\* A failed statement leaves nothing behind and, on Postgres, poisons the
\* transaction.
BatchFails(t) ==
    /\ pc = "batch"
    /\ First(t)
    /\ \/ ~Accepts(t, Chunk(t)) /\ UNCHANGED faults
       \/ faults < MaxFaults /\ faults' = faults + 1
    /\ txn' = IF job.engine = "postgres" THEN "aborted" ELSE txn
    /\ pc' = "undo"
    /\ UNCHANGED <<job, accepted, disk, work, mark, deferred, counters, loop, ending>>

\* Mutated form: the retry starts without rolling back to the savepoint.
RollbackTo_Skipped ==
    /\ pc = "undo"
    /\ IF job.engine = "postgres"
         THEN Abort("error") /\ Sound
         ELSE /\ pc' = "retry"
              /\ UNCHANGED <<job, accepted, store, counters, loop, ending, faults>>

RollbackTo ==
    /\ pc = "undo"
    /\ IF job.engine = "mysql" /\ txn = "none"
         THEN Abort("error") /\ Sound
         ELSE /\ work' = mark
              /\ txn' = IF txn = "aborted" THEN "open" ELSE txn
              /\ pc' = "retry"
              /\ UNCHANGED <<job, accepted, disk, mark, deferred, counters, loop,
                             ending, faults>>

\* Mutated form: the retry leaves out the last row of the chunk.
RetryRow_ShortByOne(t) ==
    /\ pc = "retry"
    /\ First(t)
    /\ IF Accepts(t, OneRow(t))
         THEN /\ Insert(t, OneRow(t))
              /\ next' = IF next + 1 = ChunkEnd(t, next) THEN next + 2 ELSE next + 1
              /\ pc' = IF next + 1 >= ChunkEnd(t, next) THEN "release" ELSE "retry"
              /\ UNCHANGED <<job, accepted, mark, txn, deferred, todo, ending, faults>>
         ELSE Abort("error") /\ Sound

RetryRow(t) ==
    /\ pc = "retry"
    /\ First(t)
    /\ IF Accepts(t, OneRow(t))
         THEN /\ Insert(t, OneRow(t))
              /\ next' = next + 1
              /\ pc' = IF next = ChunkEnd(t, next) THEN "release" ELSE "retry"
              /\ UNCHANGED <<job, accepted, mark, txn, deferred, todo, ending, faults>>
         ELSE Abort("error") /\ Sound

\* Releasing the savepoint that opened the transaction commits it.
Release ==
    /\ pc = "release"
    /\ IF job.engine = "mysql" /\ txn = "none"
         THEN Abort("error") /\ Sound
         ELSE /\ IF txn = "savepoint"
                   THEN txn' = "none" /\ disk' = work /\ seq' = mySeq
                   ELSE UNCHANGED <<txn, disk, seq>>
              /\ pc' = "load"
              /\ UNCHANGED <<job, accepted, work, mark, deferred, mySeq, loop, ending, faults>>

\* Mutated form: the loop does not go on to the next table.
TableDone_Again(t) ==
    /\ pc = "load"
    /\ First(t)
    /\ ~Bulk(t)
    /\ next > Len(job.seed[t])
    /\ next' = 1
    /\ UNCHANGED <<job, pc, accepted, store, counters, todo, ending, faults>>

TableDone(t) ==
    /\ pc = "load"
    /\ First(t)
    /\ ~Bulk(t)
    /\ next > Len(job.seed[t])
    /\ todo' = todo \ {t}
    /\ next' = 1
    /\ UNCHANGED <<job, pc, accepted, store, counters, ending, faults>>

\* restore_constraints, which only MySQL has.
AllLoaded ==
    /\ pc = "load"
    /\ todo = {}
    /\ deferred' = (deferred /\ job.engine # "mysql")
    /\ pc' = "fixup"
    /\ todo' = job.planned
    /\ UNCHANGED <<job, accepted, disk, work, mark, txn, counters, next, ending, faults>>

-----------------------------------------------------------------------------
(* Sequences, the end of the transaction, and what comes after it. *)

FixupAfterCommit == job.engine = "mysql"

Fixup(t) ==
    /\ pc = "fixup"
    /\ job.fixSequences /\ ~FixupAfterCommit
    /\ First(t)
    /\ Raise(t, NextKey(work[t]))
    /\ todo' = todo \ {t}
    /\ UNCHANGED <<job, pc, accepted, store, next, ending, faults>>

\* Mutated form: the fixup is left out.
AllFixed_Never ==
    /\ pc = "fixup"
    /\ pc' = "commit"
    /\ UNCHANGED <<job, accepted, store, counters, loop, ending, faults>>

AllFixed ==
    /\ pc = "fixup"
    /\ job.fixSequences /\ ~FixupAfterCommit => todo = {}
    /\ pc' = "commit"
    /\ UNCHANGED <<job, accepted, store, counters, loop, ending, faults>>

TakeEffect ==
    /\ disk' = work /\ seq' = mySeq /\ txn' = "none" /\ committed' = TRUE

\* COMMIT is where Postgres and SQLite check what was deferred.
Commit ==
    /\ pc = "commit"
    /\ ~job.noTransaction /\ ~job.dryRun
    /\ IF deferred /\ ~Closed(work)
         THEN Abort("error") /\ Sound
         ELSE /\ TakeEffect
              /\ pc' = "buckets"
              /\ UNCHANGED <<job, accepted, work, mark, deferred, mySeq, loop, uploaded,
                             exit, faults>>

\* The commit takes effect, but the reply is lost.
LoseCommitReply ==
    /\ pc = "commit"
    /\ ~job.noTransaction /\ ~job.dryRun
    /\ deferred => Closed(work)
    /\ faults < MaxFaults /\ faults' = faults + 1
    /\ TakeEffect
    /\ pc' = "done" /\ exit' = "error"
    /\ UNCHANGED <<job, accepted, work, mark, deferred, mySeq, loop, uploaded>>

RollbackDryRun ==
    /\ pc = "commit"
    /\ ~job.noTransaction /\ job.dryRun
    /\ work' = disk /\ mySeq' = seq /\ txn' = "none"
    /\ pc' = "buckets"
    /\ UNCHANGED <<job, accepted, disk, mark, deferred, seq, loop, ending, faults>>

NothingToCommit ==
    /\ pc = "commit"
    /\ job.noTransaction
    /\ pc' = "buckets"
    /\ UNCHANGED <<job, accepted, store, counters, loop, ending, faults>>

\* Mutated form: the objects are sent before the commit as well.
Upload_Early ==
    /\ pc \in {"commit", "buckets"}
    /\ uploaded' = (job.buckets /\ ~job.dryRun)
    /\ pc' = IF pc = "commit" THEN pc ELSE "alter"
    /\ todo' = job.planned
    /\ UNCHANGED <<job, accepted, store, counters, next, committed, exit, faults>>

\* load_buckets: nothing is sent in a dry run.
Upload ==
    /\ pc = "buckets"
    /\ uploaded' = (job.buckets /\ ~job.dryRun)
    /\ pc' = "alter"
    /\ todo' = job.planned
    /\ UNCHANGED <<job, accepted, store, counters, next, committed, exit, faults>>

\* fix_mysql_auto_increment.
Alter(t) ==
    /\ pc = "alter"
    /\ job.fixSequences /\ FixupAfterCommit /\ ~job.dryRun
    /\ First(t)
    /\ Raise(t, NextKey(work[t]))
    /\ todo' = todo \ {t}
    /\ UNCHANGED <<job, pc, accepted, store, next, ending, faults>>

Finish ==
    /\ pc = "alter"
    /\ job.fixSequences /\ FixupAfterCommit /\ ~job.dryRun => todo = {}
    /\ pc' = "done" /\ exit' = "ok"
    /\ UNCHANGED <<job, accepted, store, counters, loop, committed, uploaded, faults>>

-----------------------------------------------------------------------------
(* The environment. *)

\* A statement other than a batch fails: no disk, no lock, no connection.
StatementFails ==
    /\ pc \notin {"check", "confirm", "batch", "done"}
    /\ faults < MaxFaults /\ faults' = faults + 1
    /\ Abort("error")

Crash ==
    /\ pc # "done"
    /\ Abort("crashed")
    /\ Sound

Terminated == pc = "done" /\ UNCHANGED vars

Step ==
    \/ Refuse \/ NothingToLoad \/ Plan
    \/ \E reason \in Tables \cup {NotLocal} : Accept(reason)
    \/ Decline \/ Begin \/ Defer \/ RefuseCycle
    \/ \E t \in Tables : Delete(t)
    \/ AllDeleted
    \/ \E t \in Tables : \/ CopyIn(t) \/ InsertSingle(t) \/ Savepoint(t)
                         \/ InsertBatch(t) \/ BatchFails(t) \/ RetryRow(t)
                         \/ TableDone(t)
    \/ RollbackTo \/ Release \/ AllLoaded
    \/ \E t \in Tables : Fixup(t)
    \/ AllFixed \/ Commit \/ RollbackDryRun \/ NothingToCommit \/ Upload
    \/ \E t \in Tables : Alter(t)
    \/ Finish

Next == Step \/ LoseCommitReply \/ StatementFails \/ Crash \/ Terminated

Spec == Init /\ [][Next]_vars

\* The command is sequential and every statement returns: while it lives it
\* goes on.  Nothing is assumed of faults and crashes.
FairSpec == Spec /\ WF_vars(Step)
-----------------------------------------------------------------------------
(* Properties. *)

TypeOK ==
    /\ job \in JobType
    /\ pc \in {"check", "confirm", "defer", "delete", "load", "batch", "release",
               "undo", "retry", "fixup", "commit", "buckets", "alter", "done"}
    /\ accepted \subseteq Tables \cup {NotLocal}
    /\ disk \in Store /\ work \in Store /\ mark \in Store
    /\ txn \in {"none", "open", "aborted", "savepoint"}
    /\ deferred \in BOOLEAN
    /\ seq \in [Tables -> Nat] /\ mySeq \in [Tables -> Nat]
    /\ todo \subseteq job.planned
    /\ next \in Nat \ {0}
    /\ committed \in BOOLEAN /\ uploaded \in BOOLEAN
    /\ exit \in {"none", "refused", "nothing", "declined", "cycle", "error", "crashed", "ok"}
    /\ faults \in 0..MaxFaults

\* The load implements AtomicLoad: other sessions see the rows change once, to
\* all that the seed files ask for, however the rows were batched and retried
\* and wherever a statement failed or the process died.
Atomic == INSTANCE AtomicLoad WITH
    rows <- disk,
    fate <- IF committed THEN "committed" ELSE IF pc = "done" THEN "discarded" ELSE "pending"

LoadsAtomically == Atomic!Spec

\* Rows are only written where every reason to ask was accepted: the target is
\* writable, and the user agreed to a target that is not local and, one by one,
\* to each table that is emptied.  A dry run writes nothing, unless it is told to
\* do without a transaction.
WritesByConsent ==
    [][disk' # disk /\ ~(job.dryRun /\ job.noTransaction) =>
        /\ ~job.readOnly /\ ~job.dryRun
        /\ Reasons \subseteq accepted
        /\ \A t \in Tables :
              KeysOf(disk[t]) \subseteq KeysOf(disk'[t]) \/ t \in accepted]_vars

\* Foreign keys hold in what other sessions see, at all times, if they held
\* before: neither the order of the statements nor a deferral lets a row in
\* without its parent.  MySQL's way to defer, which checks nothing, is excepted.
NothingDangles ==
    Closed(job.before) /\ ~(job.engine = "mysql" /\ job.cycle # "none") => Closed(disk)

\* The constraints leave the load a chance: what it is to leave behind satisfies
\* the foreign keys, what it empties is not referred to from a table that stays,
\* and what it inserts is new.
Permitted ==
    /\ job.cycle = "none"
    /\ Closed(job.before) /\ Closed(Loaded(job))
    /\ \A t \in job.planned :
        /\ ~HasDuplicates(job.seed[t])
        /\ job.mode[t] = "truncate_first" =>
             \A u \in Tables : RefersTo(job.before[u], t) => u \in Truncated(job)
        /\ job.mode[t] = "insert" =>
             KeysOf(job.before[t]) \cap KeysOf(Range(job.seed[t])) = {}

\* A row that refers to its own table comes after the row it refers to, where the
\* database does not keep that one: rows are loaded in file order, and a child may
\* come in an earlier statement than a parent further down.  MySQL empties a
\* table in the order of the keys, and minds that no row goes before one that
\* refers to it.
OwnParentsFirst ==
    \A t \in job.planned :
        /\ \A i \in DOMAIN job.seed[t] : \A x \in job.seed[t][i].refs :
             x[1] = t =>
               \/ \E k \in 1..i : job.seed[t][k].id = x[2]
               \/ t \notin Truncated(job) /\ Present(job.before, x)
        /\ job.engine = "mysql" /\ t \in Truncated(job) =>
             \A r \in job.before[t] : \A x \in r.refs : x[1] = t => r.id <= x[2]

\* The load can succeed; for batches without a transaction see
\* LoadsWithoutTransaction below.
Loadable ==
    /\ Permitted
    /\ OwnParentsFirst
    /\ job.noTransaction => PerBatch = 1 \/ job.engine = "sqlite"

\* Such a load never runs into a constraint: emptying children first and
\* filling parents first suffices, for every engine, mode and batch size, and a
\* batch that fails is made good row by row: it takes a failing single statement
\* to end the load with an error.
LoadableLoadsSucceed ==
    [][Loadable /\ exit # "error" /\ exit' = "error" => faults' > faults]_vars

\* The next generated key of t has to be new: after a load with fix_sequences; at
\* every moment of any load into MySQL and SQLite; and on Postgres as long as
\* nothing is committed, also after a dry run, a failure or a crash.  There setval
\* takes no part in the transaction, so that a table to be emptied, which may get
\* a smaller number that no rollback undoes, is left out.
MustBeAhead(t) ==
    \/ exit = "ok" /\ ~job.dryRun /\ job.fixSequences /\ t \in job.planned
    \/ job.engine # "postgres"
    \/ /\ ~job.noTransaction /\ ~committed
       /\ job.fixSequences => t \notin Truncated(job)

\* The application that inserts while or after a load runs does not collide.
SequencesAhead ==
    \A t \in Tables : MustBeAhead(t) => \A r \in disk[t] : r.id < seq[t]

\* Objects are only uploaded once all the rows that go with them are there.
ObjectsHaveRows == uploaded => disk = Loaded(job)

\* A load that failed part-way can be run again: whatever it left behind, the
\* second load makes of it what the first was to make.  Plain inserts are
\* excepted.
RerunConverges ==
    pc = "done" /\ (\A t \in job.planned : job.mode[t] # "insert") =>
        Loaded([job EXCEPT !.before = disk]) = Loaded(job)

\* The command ends.
Terminates == <>(pc = "done")

-----------------------------------------------------------------------------
(* What a help text says beyond that. *)

\* cli.rs: "Run without a wrapping transaction": such a load works as others do.
LoadsWithoutTransaction ==
    job.noTransaction /\ Permitted /\ OwnParentsFirst /\ faults = 0 => exit # "error"
=============================================================================
