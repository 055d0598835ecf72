------------------------------ MODULE Exchange ------------------------------
(***************************************************************************)
(* The way of a table's rows from one database through a seed file into    *)
(* another: `graine export`, `graine diff --data`, `graine load`, and an   *)
(* export of the loaded table.  The steps are those of export.rs,          *)
(* format/mod.rs, diff.rs and load.rs for one table; what happens to the   *)
(* other tables and when a load fails half way is in LoadTxn.              *)
(*                                                                         *)
(* A database holds a set of rows, each the sequence of what is stored for *)
(* the columns of the table.                                               *)
(***************************************************************************)
EXTENDS DataDiff

CONSTANT Jobs    \* the tables, rows and settings to consider: see IsJob

Sql  == INSTANCE SqlText
Csv  == INSTANCE CsvText
Json == INSTANCE JsonText

Formats == {"sql", "csv", "lines", "per_row"}

\* A job has two engines, the table, its settings (as in Selection), the rows of
\* the source, the values that each of them is meant to be, and the rows of the
\* target before the load.  In the target the columns `required` take no null,
\* the columns `defaulted` neither, but have a default, and the texts `short` hold
\* one character.
IsJob(j) ==
    /\ j.required \cup j.defaulted \cup j.short \subseteq NamesOf(j.table.columns)
    /\ j.from \in Engines /\ j.to \in Engines
    /\ j.format \in Formats /\ j.mode \in Modes /\ j.json \in Json!JsonModes
    /\ j.batch \in Nat \ {0} /\ j.chunk \in Nat \ {0} /\ j.limit \in Nat
    /\ DOMAIN j.meant = j.source
    /\ \A row \in j.source \cup j.before : Len(row) = Len(j.table.columns)

ASSUME JobsAssumption == \A j \in Jobs : IsJob(j)

VARIABLES
    job,
    at,      \* the last step: "start", "exported", "compared", "loaded", "again", "failed"
    values,  \* the rows of the export
    file,    \* the seed file
    rows,    \* the rows read from it
    diff,    \* what `diff --data` says
    db,      \* the rows of the target
    second   \* the file of the export after the load

vars == <<job, at, values, file, rows, diff, db, second>>

-----------------------------------------------------------------------------
Columns(j) == SelectedColumns(j.table, j)

\* The cells of a row in the selected columns.
Selected(j, row) ==
    LET p == Positions(j.table.columns, [k \in DOMAIN Columns(j) |-> Columns(j)[k].name])
    IN  [k \in DOMAIN p |-> row[p[k]]]

\* The rows an export can read, each a sequence of values.
Exports(e, j, stored) ==
    {[i \in DOMAIN s |-> ReadStored(e, Columns(j), Selected(j, s[i]))] :
        s \in QueryResults(j.table, Columns(j), j, stored)}

\* SqlWriter takes the configured key as it is.
FileKey(j) == IF j.key = <<>> THEN TableKey(j.table) ELSE j.key

\* writer and the writers
Write(e, j, rs) ==
    CASE j.format = "sql"   -> Sql!WriteSql(e, j.mode, Columns(j), FileKey(j), j.batch, rs)
      [] j.format = "csv"   -> Csv!WriteCsv(Columns(j), rs)
      [] j.format = "lines" -> Json!WriteLines(j.json, Columns(j), rs)
      [] OTHER              -> Json!WritePerRow(j.json, Columns(j), j.table.primaryKey, rs)

\* format::read, with the engine of the lock file for the escapes of a .sql file.
Read(j, f) ==
    CASE j.format = "sql"   -> Sql!ReadSql(j.from, j.to, Columns(j), f)
      [] j.format = "csv"   -> Csv!ReadCsv(j.to, Columns(j), f)
      [] j.format = "lines" -> Json!ReadLines(j.to, Columns(j), f)
      [] OTHER              -> Json!ReadPerRow(j.to, Columns(j), f)

-----------------------------------------------------------------------------
(* validate_rows *)

\* A null where the target takes none.
HasForbiddenNull(j, row) ==
    \E k \in DOMAIN row : row[k] = Null /\ Columns(j)[k].name \in j.required \ j.defaulted

TooLong(j, row) ==
    \E k \in DOMAIN row : row[k] # Null /\ Columns(j)[k].name \in j.short /\ Len(ToText(row[k])) > 1

\* Mutated form: a key is compared by its first column.
SharedKeys_FirstOnly(j, rs) ==
    LET p == Positions(Columns(j), UpsertKey(j.table, j))
    IN  /\ p # <<>> /\ ~Contains(p, 0)
        /\ \E i, k \in DOMAIN rs : i # k /\ ToText(rs[i][p[1]]) = ToText(rs[k][p[1]])

\* Two rows of the file with the same key, where a null is the text NULL.  The
\* rows of a partial index are not compared.
SharedKeys(j, rs) ==
    LET key    == UpsertKey(j.table, j)
        p      == Positions(Columns(j), key)
        target == ConflictTarget(j.table, key)
        Shown(v) == IF v = Null THEN <<"NULL">> ELSE ToText(v)
        Key(i) == [k \in DOMAIN p |-> Shown(rs[i][p[k]])]
    IN  /\ key # <<>> /\ ~Contains(p, 0) /\ ~(target # <<>> /\ target[1].partial)
        /\ \E i, k \in DOMAIN rs : i # k /\ Key(i) = Key(k)

IsValid(j, rs) ==
    /\ \A i \in DOMAIN rs : ~HasForbiddenNull(j, rs[i]) /\ ~TooLong(j, rs[i])
    /\ ~SharedKeys(j, rs)

-----------------------------------------------------------------------------
(* load_table *)

\* Modes without a conflict clause go through COPY, as lines of CSV.
IsBulk(j) == j.to = "postgres" /\ j.mode \in {"insert", "truncate_first"}

\* What COPY takes a field of a line for (external).
Copied(field) ==
    IF field = <<>> THEN Null
    ELSE IF field[1] = Csv!Quote THEN Csv!DecodeQuoted(field) ELSE field

\* What is stored of a value of the given column.
Bound(j, col, v) ==
    LET text == IF IsBulk(j) THEN Copied(Csv!EncodeField(v)) ELSE BindText(j.to, v)
    IN  IF text = Error THEN Error
        ELSE IF text # Null /\ col.name \in j.short /\ Len(text) > 1 /\ j.to # "sqlite" THEN Error
        ELSE IF text = Null /\ col.name \in j.required \cup j.defaulted THEN Error
        ELSE Stored(j.to, ClassOf(j.to, col), text)

\* What an engine puts into a column that is not inserted (external).
Default(j, col) ==
    IF col.generated \/ col.name \in j.defaulted THEN <<"Text", <<"g">>>> ELSE Null

\* The row s of the database with the values of a seed row.
Put(j, s, row) ==
    [k \in DOMAIN s |->
        LET i == Position(Columns(j), j.table.columns[k].name)
        IN  IF i = 0 THEN s[k] ELSE Bound(j, Columns(j)[i], row[i])]

NewRow(j, row) == Put(j, [k \in DOMAIN j.table.columns |-> Default(j, j.table.columns[k])], row)

\* Two rows that a unique index on the columns K does not allow.
Collide(j, K, r, s) ==
    \A p \in ToSet(Positions(j.table.columns, K)) : r[p] = s[p] /\ r[p] # Null

\* The unique indexes (bound: the condition of a partial one holds for every row).
Uniques(j) ==
    {K \in {j.table.primaryKey} \cup {u.columns : u \in ToSet(j.table.unique)} : K # <<>>}

\* Mutated form: the row is replaced as a whole.
Updated_Replaces(j, old, row) == NewRow(j, row)

\* The row of an upsert that is there already: the columns that are not of the
\* key are set.
Updated(j, old, row) ==
    LET key == ToSet(Positions(j.table.columns, UpsertKey(j.table, j)))
        put == Put(j, old, row)
    IN  [k \in DOMAIN old |-> IF k \in key THEN old[k] ELSE put[k]]

\* A row among others, if no unique index forbids it.
With(j, rest, r) ==
    IF \E K \in Uniques(j), s \in rest : Collide(j, K, r, s) THEN Error ELSE rest \cup {r}

\* A statement with one row, which is `new` if it is put beside the rows S, by
\* the engine.  MySQL takes any unique index for the conflict.
Placed(j, S, row, new) ==
    LET Hits(K)  == {s \in S : Collide(j, K, new, s)}
        blocking == UNION {Hits(K) : K \in Uniques(j)}
        target   == IF j.to = "mysql" THEN blocking ELSE Hits(UpsertKey(j.table, j))
        old      == CHOOSE s \in target : TRUE
    IN  IF Contains(new, Error) THEN Error
        ELSE IF j.mode = "upsert" /\ target # {} THEN With(j, S \ {old}, Updated(j, old, row))
        ELSE IF j.mode = "skip_existing" /\ blocking # {} THEN S
        ELSE With(j, S, new)

Insert(j, S, row) == Placed(j, S, row, NewRow(j, row))

\* Mutated form: truncate_first deletes nothing.
Emptied_Never(j, S) == S

\* delete_pass
Emptied(j, S) == IF j.mode = "truncate_first" THEN {} ELSE S

\* The rows S of the table after the load, or Error: then nothing is changed.
Merged(j, S, rs) ==
    FoldLeft(LAMBDA T, row : IF T = Error THEN Error ELSE Insert(j, T, row), Emptied(j, S), rs)

-----------------------------------------------------------------------------
Init ==
    /\ job \in Jobs
    /\ at = "start"
    /\ values = <<>> /\ file = <<>> /\ rows = <<>> /\ second = <<>>
    /\ diff = Unkeyed
    /\ db = job.before

Fail == at' = "failed" /\ UNCHANGED <<job, db>>

\* export_table, up to the error of the first value or statement that is wrong.
Export ==
    /\ at = "start"
    /\ UNCHANGED <<rows, diff, second>>
    /\ \/ /\ Columns(job) = Error \/ ~OrderIsKnown(job.table, job)
          /\ Fail
          /\ UNCHANGED <<values, file>>
       \/ /\ Columns(job) # Error /\ OrderIsKnown(job.table, job)
          /\ values' \in Exports(job.from, job, job.source)
          /\ LET written == Write(job.from, job, values')
             IN  IF (\E i \in DOMAIN values' : Contains(values'[i], Error)) \/ written = Error
                 THEN Fail /\ UNCHANGED file
                 ELSE at' = "exported" /\ file' = written /\ UNCHANGED <<job, db>>

\* data_diff: reads the files and the database, and changes nothing.  It may end
\* with an error; the load does not depend on it.
Compare ==
    /\ at = "exported"
    /\ rows' = Read(job, file)
    /\ LET live == {Selected(job, r) : r \in db}
           key  == UpsertKey(job.table, job)
       IN  diff' = IF rows' = Error \/ key = Error THEN Error
                   ELSE TableDiff(job.to, Columns(job), key, job.mode, job.chunk, rows', live)
    /\ at' = "compared"
    /\ UNCHANGED <<job, values, file, db, second>>

\* The load reads the file again and checks the rows (build_plans).  When a value
\* cannot be bound, or a statement fails, the transaction is rolled back.
Load ==
    /\ at = "compared"
    /\ \E rs \in {Read(job, file)}, key \in {UpsertKey(job.table, job)} :
           IF \/ rs = Error \/ key = Error
              \/ ~IsValid(job, rs) \/ (job.mode = "upsert" /\ key = <<>>)
           THEN Fail
           ELSE \E merged \in {Merged(job, db, rs)} :
                   IF merged = Error THEN Fail
                   ELSE at' = "loaded" /\ db' = merged /\ UNCHANGED job
    /\ UNCHANGED <<values, file, rows, diff, second>>

ExportAgain ==
    /\ at = "loaded"
    /\ \E rs \in Exports(job.to, job, db) : second' = Write(job.to, job, rs)
    /\ at' = "again"
    /\ UNCHANGED <<job, values, file, rows, diff, db>>

Next == Export \/ Compare \/ Load \/ ExportAgain

Spec == Init /\ [][Next]_vars

-----------------------------------------------------------------------------
(* What the exchange promises. *)

WasRead == at \in {"compared", "loaded", "again"} \/ (at = "failed" /\ rows # <<>>)

\* A line of a CSV file that is blank: the only field of the row is.
IsBlank(v) == job.format = "csv" /\ Len(v) = 1 /\ Trim(Csv!EncodeField(v[1])) = <<>>

\* The texts of each statement of a .sql file, one behind the other.
StatementTexts ==
    LET n == job.batch
        Texts(v) == FlattenSeq([k \in DOMAIN v |-> ToText(v[k])])
    IN  {FlattenSeq([i \in DOMAIN b |-> Texts(b[i])]) :
            b \in {SubSeq(values, n * (i - 1) + 1, Min({n * i, Len(values)})) :
                      i \in 1 .. (Len(values) + n - 1) \div n}}

\* An odd number of apostrophes is among the first n characters of s.
OddAt(s, n) == Len(SelectSeq(SubSeq(s, 1, n), LAMBDA c : c = "'")) % 2 = 1

\* The .sql files that are refused, though they were written.  MySQL's \' turns
\* the counting of quotes around: behind an odd number of apostrophes a text seems
\* to be outside its literal, and is cut off where it has a word that may end the
\* tuples, and a conflict clause seems to be inside one.  And a column named after
\* the word VALUES seems to be it.
Refused ==
    /\ job.format = "sql"
    /\ \/ \E col \in ToSet(Columns(job)) : Sql!Upper(col.name) = "VALUES"
       \/ /\ job.from = "mysql"
          /\ \E s \in StatementTexts :
               \/ job.mode = "upsert" /\ OddAt(s, Len(s))
               \/ \E i \in DOMAIN s : Sql!Upper(s[i]) \in Sql!ClauseWords /\ OddAt(s, i)

\* The documents of a row, with their keys in order.
SortedRow(row) == [k \in DOMAIN row |->
    IF row[k][1] = "Json" THEN <<"Json", SortedDoc(row[k][2])>> ELSE row[k]]


\* What is exported is what the rows are meant to be, in the selected columns:
\* whatever the engine, the spelling and the offset, a timestamp is the same
\* instant.  A limit takes as many rows as there are.
ExportedAsMeant ==
    LET meant == {Selected(job, job.meant[r]) : r \in job.source}
        all   == Cardinality(job.source)
    IN  at \notin {"start", "failed"} =>
          /\ ToSet(values) \subseteq meant
          /\ Len(values) = IF job.limit = 0 THEN all ELSE Min({all, job.limit})
          /\ job.limit = 0 => ToSet(values) = meant

\* A value that an engine has no place for.
Unfit(e, v) ==
    \/ v[1] = "Float" /\ ~IsFinite(v) /\ e # "postgres"
    \/ v = <<"Decimal", <<"NaN">>>> /\ e = "mysql"

Zeros(v) == IF v[1] = "Decimal" THEN <<"Decimal", Affinity(v[2])>> ELSE v

\* A row of the target as values, up to zeros behind a decimal point and the
\* order of keys in a document.
Content(r) ==
    LET v == ReadStored(job.to, job.table.columns, r)
    IN  [k \in DOMAIN v |-> CanonicalText(Zeros(v[k]))]

Blocks(K, i) == \E b \in job.before : Collide(job, K, NewRow(job, rows[i]), b)

\* An upsert into MySQL updates a row that has another key, if the seed row is
\* stopped by another unique index.
Diverted ==
    /\ job.to = "mysql" /\ job.mode = "upsert"
    /\ \E i \in DOMAIN rows, K \in Uniques(job) \ {UpsertKey(job.table, job)} : Blocks(K, i)

\* A load fails only when it has a reason to: no key, a value the target has no
\* place for, a unique index in the way, or two rows whose keys are alike only in
\* that both have a null.  Then nothing has changed.  When it
\* ends well, the rows that were read are in the table, and of the rows that were
\* there before, those that the mode lets stand: with every column that is not
\* selected as it was, and without a row of their key.  (But for upserts into
\* MySQL that another unique index diverts.)
ValuesArrive ==
    LET row(i)    == [k \in DOMAIN rows[i] |-> CanonicalText(Zeros(rows[i][k]))]
        now       == {Content(r) : r \in db}
        seeded    == {row(i) : i \in DOMAIN rows}
        key       == UpsertKey(job.table, job)
        Others(c) == [k \in {k \in DOMAIN c : Position(Columns(job), job.table.columns[k].name) = 0} |-> c[k]]
    IN  /\ at \in {"loaded", "again"} /\ ~Diverted =>
             /\ job.mode # "skip_existing" => \A s \in seeded : \E c \in now : Selected(job, c) = s
             /\ \A b \in job.before :
                   \/ Content(b) \in now
                   \/ job.mode = "truncate_first"
                   \/ /\ job.mode = "upsert"
                      /\ \E c \in now : Selected(job, c) \in seeded /\ Others(c) = Others(Content(b))
        /\ at = "failed" /\ rows \notin {<<>>, Error} =>
             \/ key = Error \/ (job.mode = "upsert" /\ key = <<>>)
             \/ SharedKeys(job, rows) /\ \E i \in DOMAIN rows, p \in ToSet(Positions(Columns(job), key)) : rows[i][p] = Null
             \/ \E i \in DOMAIN rows, k \in DOMAIN Columns(job) :
                   \/ rows[i][k] = Null /\ Columns(job)[k].name \in job.required \cup job.defaulted
                   \/ Columns(job)[k].name \in job.short /\ rows[i][k] # Null /\ Len(ToText(rows[i][k])) > 1
             \/ \E i \in DOMAIN rows, K \in Uniques(job) :
                   Blocks(K, i) /\ (job.mode = "insert" \/ (job.mode = "upsert" /\ K # key))
             \/ \E i \in DOMAIN rows : \E k \in DOMAIN rows[i] : Unfit(job.to, rows[i][k])

\* The keys the engine prints as the seed files do.
PrintsCanonically(r) ==
    LET p == Positions(job.table.columns, UpsertKey(job.table, job))
    IN  PrintedKey(job.to, r, p) = KeyOf(ReadStored(job.to, job.table.columns, r), p)

\* The report of `diff --data` is what the load then does: it names the keys that
\* are added, updated and removed, and nothing when nothing changes.  (For the
\* modes that replace rows; a key that the engine prints in another form is not
\* found.)
DiffForetells ==
    LET p == Positions(job.table.columns, UpsertKey(job.table, job))
        Key(r)   == KeyOf(ReadStored(job.to, job.table.columns, r), p)
        Keys(S)  == {Key(r) : r \in S}
        Texts(S, k) == {Selected(job, Content(r)) : r \in {x \in S : Key(x) = k}}
        kept     == Keys(job.before) \cap Keys(db)
    IN  /\ at = "loaded" /\ job.mode \in {"upsert", "truncate_first"}
        /\ IF diff = Error THEN FALSE ELSE ~diff.unkeyed
        /\ ~Diverted
        /\ \A r \in job.before : PrintsCanonically(r)
        => /\ AddedKeys(diff) = Keys(db) \ Keys(job.before)
           /\ diff.removed = Keys(job.before) \ Keys(db)
           /\ UpdatedKeys(diff) = {k \in kept : Texts(job.before, k) # Texts(db, k)}
           /\ IsNoop(diff) <=> \A k \in Keys(job.before) \cup Keys(db) : Texts(db, k) = Texts(job.before, k)

\* A table that is loaded from a seed file gives the same file again: on the
\* engine that wrote it, and, except for .sql files, on another where the columns
\* are of the same classes.  (ORDER BY leaves rows without a key open that differ
\* only in a document.)
SecondExportIsTheSame ==
    LET alike == \A k \in DOMAIN Columns(job) :
                    ClassOf(job.from, Columns(job)[k]) = ClassOf(job.to, Columns(job)[k])
        zeros == \A i \in DOMAIN rows, k \in DOMAIN Columns(job) : Zeros(rows[i][k]) = rows[i][k]
        documents == {c.name : c \in {c \in ToSet(Columns(job)) : c.type \in {"json", "jsonb"}}}
    IN  /\ at = "again"
        /\ job.from = job.to \/ (alike /\ job.format # "sql")
        /\ job.mode = "truncate_first" \/ job.before = {}
        /\ job.to = "sqlite" => zeros
        /\ \A i \in DOMAIN values : ~IsBlank(values[i])
        /\ documents = {} \/ (job.table.primaryKey # <<>> /\ ToSet(job.table.primaryKey) \subseteq NamesOf(Columns(job)))
        => second = file
=============================================================================
