------------------------------ MODULE MongoLoad ------------------------------
(***************************************************************************)
(* `graine export` and `graine load` of a document database (db/mongo).    *)
(* A collection is described by its validator or, without one, by what the *)
(* first documents of it held; documents go through JSON Lines as rows of  *)
(* these columns; the load writes them one by one, without a transaction.  *)
(*                                                                         *)
(* A BSON value is a pair of its type and its contents, a document a       *)
(* function from fields to values with the field "_id", a collection a set *)
(* of documents.  Collections are numbered in alphabetical order, which is *)
(* the order of a load.  The drift gate is taken to be passed (--force),   *)
(* and the seed files to be written with `json: unroll`, the default.      *)
(***************************************************************************)
EXTENDS OrderedSets, SequencesExt

CONSTANTS
    Jobs,     \* what to export and load: see IsJob
    Ids,      \* the values of _id, in the order in which the server sorts them,
              \* and what becomes of these on the way
    Sample,   \* how many documents a profile is taken from (SAMPLE)
    MaxRuns,  \* how often the load is started
    MaxCuts,  \* how often one is cut short: the process dies, the server is gone
    Words,    \* the strings in documents
    Quoted(_),  \* the JSON text of one
    SortKeys(_),  \* the contents of an object or an array with the keys in order
    Error

ASSUME BoundsAssumption == Sample \in Nat \ {0} /\ MaxRuns \in Nat \ {0} /\ MaxCuts \in Nat

Modes == {"upsert", "insert", "skip_existing", "truncate_first"}

\* Binary data: generic, of the subtype of UUIDs, and of another one, say that of
\* old UUIDs.  Its bytes are named by the text that Value::Bytes has; some are 16
\* bytes, which have the text of a UUID too.
Binaries == {"binData", "uuid", "oldBinary"}
UuidText == [bytes \in {"\\x16", "\\x17"} |-> IF bytes = "\\x16" THEN "uuid-16" ELSE "uuid-17"]
Octets   == DOMAIN UuidText \cup {"\\x01"}

\* A validator ($jsonSchema) names the types of a field and the labels of its
\* `enum` (or {}), and the fields a document must have.  The target has some of
\* the collections, and validators for some of these.
IsJob(j) ==
    /\ j.modes \in Seq(Modes)
    /\ DOMAIN j.source = DOMAIN j.modes
    /\ DOMAIN j.target \subseteq DOMAIN j.source
    /\ DOMAIN j.sourceRules \subseteq DOMAIN j.source
    /\ DOMAIN j.targetRules \subseteq DOMAIN j.target
    /\ j.replicaSet \in BOOLEAN /\ j.noTransaction \in BOOLEAN
    /\ \A docs \in Range(j.source) \cup Range(j.target) : \A d, e \in docs :
          /\ "_id" \in DOMAIN d /\ d["_id"] \in ToSet(Ids)
          /\ d["_id"] = e["_id"] => d = e
    /\ \A docs \in Range(j.source) : \A d \in docs : \A v \in Range(d) :
          /\ v = <<v[1], v[2]>>
          /\ v[1] = "string" => v[2] \in Words
          /\ v[1] = "bool" => v[2] \in {"true", "false"}
          /\ v[1] \in Binaries => v[2] \in Octets
    /\ \A rules \in {j.sourceRules, j.targetRules} : \A c \in DOMAIN rules :
          \A f \in DOMAIN rules[c].types : rules[c].types[f] \cap Binaries \subseteq {"binData"}

ASSUME JobsAssumption == \A j \in Jobs : IsJob(j)

-----------------------------------------------------------------------------
(* Collections as tables. *)

Nulls == {"null", "undefined"}

\* Left out are an _id that is null, which one document of a collection may have,
\* and those that the server takes for equal though their types differ.
ASSUME IdsAssumption ==
    /\ Ids \in Seq(ToSet(Ids))
    /\ \A id \in ToSet(Ids) : id[1] \notin Nulls \cup {"int", "long", "double", "decimal", "symbol"}

\* classify
Classify(type) ==
    CASE type = "bool"    -> "Bool"
      [] type = "int"     -> "Int32"
      [] type = "long"    -> "Int64"
      [] type = "double"  -> "Float"
      [] type = "decimal" -> "Decimal"
      [] type \in {"string", "javascript", "symbol"} -> "Text"
      [] type = "binData" -> "Bytes"
      [] type = "uuid"    -> "Uuid"
      [] type = "date"    -> "Timestamp"
      [] type \in {"object", "array"} \cup Nulls -> "Json"
      [] OTHER            -> type   \* Other: objectId, timestamp, regex, minKey ...

\* class_for
ClassFor(types) ==
    IF Cardinality(types \ Nulls) = 1 THEN Classify(CHOOSE t \in types \ Nulls : TRUE) ELSE "Json"

\* A column has a class, and may refuse rows without a value (not nullable and
\* without a default).
WithId(columns) ==
    [f \in DOMAIN columns \cup {"_id"} |->
        IF f \in DOMAIN columns THEN columns[f] ELSE [class |-> "objectId", required |-> FALSE]]

\* from_validator; introspect makes the primary key NOT NULL.
FromValidator(rule) ==
    WithId([f \in DOMAIN rule.types |->
        [class    |-> IF rule.labels[f] # {} THEN "Enum" ELSE ClassFor(rule.types[f]),
         required |-> f \in rule.required \cup {"_id"}]])

\* find_sorted
FindSorted(docs) ==
    LET Place(d) == SelectInSeq(Ids, LAMBDA id : id = d["_id"])
        places   == Ascending({Place(d) : d \in docs})
    IN  [i \in DOMAIN places |-> CHOOSE d \in docs : Place(d) = places[i]]

Sampled(docs) ==
    LET s == FindSorted(docs) IN ToSet(SubSeq(s, 1, Min({Sample, Len(s)})))

\* type_name
TypeName(v) == IF v[1] = "oldBinary" THEN "binData" ELSE v[1]

\* profile_of: every type that a field was seen with.
ProfileOf(docs) ==
    [f \in UNION {DOMAIN d : d \in docs} |-> {TypeName(d[f]) : d \in {d \in docs : f \in DOMAIN d}}]

\* from_profile
FromProfile(profile) ==
    WithId([f \in DOMAIN profile |-> [class |-> ClassFor(profile[f]), required |-> FALSE]])

\* Mutated form: a collection with a validator is sampled too.
Introspect_Sampled(rules, c, docs) == FromProfile(ProfileOf(Sampled(docs)))

\* introspect_with_profiles, for one collection
Introspect(rules, c, docs) ==
    IF c \in DOMAIN rules THEN FromValidator(rules[c]) ELSE FromProfile(ProfileOf(Sampled(docs)))

-----------------------------------------------------------------------------
(* BSON values, values and JSON. *)

\* The types that a class turns into a value of its own.
Predicted(class) ==
    CASE class = "Bool"             -> {"bool"}
      [] class \in {"Int32", "Int64"} -> {"int", "long"}
      [] class = "Float"            -> {"double"}
      [] class = "Decimal"          -> {"decimal"}
      [] class \in {"Text", "Enum"} -> {"string"}
      [] class \in {"Bytes", "Uuid"} -> Binaries
      [] class = "Timestamp"        -> {"date"}
      [] class \in {"objectId", "timestamp", "regex"} -> {class}
      [] OTHER                      -> {}

\* The variant of Value that a class is read into.
Kind(class) ==
    CASE class \in {"Int32", "Int64"} -> "Int"
      [] class \in {"Bool", "Float", "Decimal", "Text", "Bytes", "Uuid", "Timestamp", "Json"} -> class
      [] OTHER -> "Raw"

\* The texts of the model that Value::parse takes for a class.
Whole   == {"0", "1", "5", "5000000000"}
Numbers == Whole \cup {"1.5"}
Hex     == {"a1", "a2", "a3"}
Digits  == Hex \cup {"5000000000"}   \* hexadecimal, and an even number of them
Fits(class, text) ==
    CASE class = "Bool"               -> text \in {"true", "false", "0", "1"}
      [] class \in {"Int32", "Int64"} -> text \in Whole
      [] class \in {"Float", "Decimal"} -> text \in Numbers
      [] class = "Timestamp"          -> text = "noon"
      [] class = "Bytes"              -> text \in Octets \cup Digits
      [] class = "Uuid"               -> text \in Range(UuidText)
      [] OTHER                        -> TRUE

\* What Value::parse makes of one.
Parsed(class, text) ==
    IF class = "Uuid" THEN CHOOSE bytes \in DOMAIN UuidText : UuidText[bytes] = text
    ELSE IF class = "Bytes" /\ text \in Digits THEN "\\x" \o text
    ELSE text

\* to_text
ToText(value) == IF value[1] = "Uuid" THEN UuidText[value[2]] ELSE value[2]

Null == <<"Null", "">>

\* bson_to_value: what the class does not predict keeps its Extended JSON, which
\* tells the type and the contents: here the BSON value itself.
ToValue(class, v) ==
    IF v[1] \in Nulls THEN Null
    ELSE IF class = "Uuid" /\ v[1] \in Binaries /\ v[2] \notin DOMAIN UuidText THEN Error
    ELSE IF v[1] \in Predicted(class) THEN <<Kind(class), v[2]>>
    ELSE IF class = "objectId" THEN Error
    ELSE <<"Json", v>>

\* The type that a kind of value is written with, unless the class says more:
\* bytes are generic whatever they were.
BsonType(kind) ==
    CASE kind = "Bool"      -> "bool"
      [] kind = "Float"     -> "double"
      [] kind = "Decimal"   -> "decimal"
      [] kind = "Bytes"     -> "binData"
      [] kind = "Uuid"      -> "uuid"
      [] kind = "Timestamp" -> "date"
      [] OTHER              -> "string"

\* What a text must be to be taken for one of these types.
Verbatim(class, text) ==
    /\ class = "objectId" => text \in Hex
    /\ class = "timestamp" => text = "1:5"

\* value_to_bson: the kind of the value decides; the class only tells apart the
\* widths of integers and the verbatim types.
FromValue(class, value) ==
    LET text == value[2]
        type == BsonType(value[1])
        verbatim == class \in {"objectId", "timestamp", "regex"}
    IN  IF value[1] = "Json" THEN text
        ELSE IF value[1] = "Int" THEN
            IF class # "Int32" THEN <<"long", text>>
            ELSE IF text = "5000000000" THEN Error ELSE <<"int", text>>
        ELSE IF value[1] # "Raw" \/ ~verbatim THEN <<type, text>>
        ELSE IF Verbatim(class, text) THEN <<class, text>> ELSE Error

\* document_to_row
DocumentToRow(doc, columns) ==
    [f \in DOMAIN columns |->
        IF f \in DOMAIN doc THEN ToValue(columns[f].class, doc[f]) ELSE Null]

\* Mutated form: nulls become fields.
RowToDocument_KeepsNulls(row, columns) ==
    [f \in DOMAIN row |->
        IF row[f] = Null THEN <<"null", "">> ELSE FromValue(columns[f].class, row[f])]

\* row_to_document
RowToDocument(row, columns) ==
    [f \in {f \in DOMAIN row : row[f] # Null} |-> FromValue(columns[f].class, row[f])]

ASSUME QuotingAssumption == \A v, w \in Words :
    /\ Quoted(v) \notin {"true", "false"} \cup Numbers
    /\ Quoted(v) = Quoted(w) => v = w

\* What the JSON text of a scalar is read as: a number, a boolean, or what was quoted.
JsonOf(text) ==
    CASE text \in {"true", "false"} -> <<"bool", text>>
      [] text = "5000000000"        -> <<"long", text>>
      [] text \in Whole \ {"5000000000"} -> <<"int", text>>
      [] text \in Numbers \ Whole   -> <<"double", text>>
      [] OTHER -> <<"string", IF \E w \in Words : text = Quoted(w)
                             THEN CHOOSE w \in Words : text = Quoted(w) ELSE text>>

\* write_json, with the keys of documents in order: an object, those in an array
\* and the scope of a piece of code.
Canonical(v) ==
    IF v[1] \in {"object", "array", "javascript"} THEN <<v[1], SortKeys(v[2])>> ELSE v

\* unroll: what is nested is written out, a scalar stays a quoted string.
Unrolled(v) ==
    CASE v[1] = "bool"   -> <<"string", v[2]>>
      [] v[1] = "string" -> <<"string", Quoted(v[2])>>
      [] OTHER           -> <<"nested", Canonical(v)>>

\* encode_value
Encode(value) ==
    CASE value[1] = "Null" -> Null
      [] value[1] = "Bool" -> <<"bool", value[2]>>
      [] value[1] \in {"Int", "Float", "Decimal"} -> <<"number", value[2]>>
      [] value[1] = "Json" -> Unrolled(value[2])
      [] OTHER -> <<"string", ToText(value)>>

\* decode_value: a boolean is 0 or 1 to a number, and the other way round.
Decode(class, cell) ==
    LET text == CASE cell[1] = "bool" /\ class \in {"Int32", "Int64", "Float", "Decimal"} ->
                        IF cell[2] = "true" THEN "1" ELSE "0"
                  [] cell \in {<<"number", "0">>, <<"number", "1">>} /\ class = "Bool" ->
                        IF cell[2] = "1" THEN "true" ELSE "false"
                  [] OTHER -> cell[2]
    IN  IF cell = Null THEN Null
        ELSE IF class = "Json"
        THEN <<"Json", IF cell[1] = "nested" THEN cell[2] ELSE JsonOf(cell[2])>>
        ELSE IF cell[1] # "nested" /\ Fits(class, text) THEN <<Kind(class), Parsed(class, text)>>
        ELSE Error

\* decode_row: a column that is not in the file is null, one that is only in the
\* file is refused.
DecodeRow(columns, line) ==
    IF \/ ~DOMAIN line \subseteq DOMAIN columns
       \/ \E f \in DOMAIN line : Decode(columns[f].class, line[f]) = Error
    THEN Error
    ELSE [f \in DOMAIN columns |->
            IF f \in DOMAIN line THEN Decode(columns[f].class, line[f]) ELSE Null]

\* read, then validate_rows: no null where none may be, and no key twice.
ReadRows(columns, file) ==
    LET rows == [i \in DOMAIN file |-> DecodeRow(columns, file[i])]
    IN  IF \/ Contains(rows, Error)
           \/ \E i \in DOMAIN rows : \E f \in DOMAIN columns :
                 columns[f].required /\ rows[i][f] = Null
           \/ \E i, k \in DOMAIN rows : i < k /\ rows[i]["_id"][2] = rows[k]["_id"][2]
        THEN Error ELSE rows

-----------------------------------------------------------------------------
VARIABLES
    job,
    at,      \* "start", "exported", "open", "write", "loaded",
             \* "failed", "refused" or "unexported"
    lock,    \* the columns of every exported collection
    files,   \* its lines
    plan,    \* the columns and the rows of the load
    before,  \* the target when the load began
    db,      \* the target: a collection may be there or not
    now,     \* the collection that is being loaded
    left,    \* the documents it has still to get
    runs, cuts,
    alike    \* (history) the collections that every load planned as the export did

vars == <<job, at, lock, files, plan, before, db, now, left, runs, cuts, alike>>

Collections == DOMAIN job.source

Init ==
    /\ job \in Jobs
    /\ at = "start"
    /\ lock = <<>> /\ files = <<>> /\ plan = <<>> /\ left = <<>>
    /\ db = job.target /\ before = job.target
    /\ now = 1 /\ runs = 0 /\ cuts = 0
    /\ alike = Collections

-----------------------------------------------------------------------------
(* Export. *)

Columns(c) == Introspect(job.sourceRules, c, job.source[c])

Rows(c) ==
    LET docs == FindSorted(job.source[c])
    IN  [i \in DOMAIN docs |-> DocumentToRow(docs[i], Columns(c))]

Exportable == \A c \in Collections : \A i \in DOMAIN Rows(c) : Error \notin Range(Rows(c)[i])

\* cmd_export and export_collection; the lock file is written last.
Export ==
    /\ at = "start"
    /\ Exportable
    /\ lock' = [c \in Collections |-> Columns(c)]
    /\ files' = [c \in Collections |-> [i \in DOMAIN Rows(c) |->
                    [f \in DOMAIN Columns(c) |-> Encode(Rows(c)[i][f])]]]
    /\ at' = "exported"
    /\ UNCHANGED <<job, plan, before, db, now, left, runs, cuts, alike>>

\* A value that is no ObjectId where the sample had only these, or binary data that
\* has not the length of a UUID.
FailExport ==
    /\ at = "start"
    /\ ~Exportable
    /\ at' = "unexported"
    /\ UNCHANGED <<job, lock, files, plan, before, db, now, left, runs, cuts, alike>>

\* The class keeps a value of this type, binary data up to its subtype.
Keeps(class, v) ==
    \/ class = "Json"
    \/ v[1] \in Predicted(class) /\ class \in {Classify(v[1]), "Enum", "Bytes", "Uuid"}

\* What a kept value is on the other side.  Binary data gets the subtype of the
\* class, the keys of documents that are nested are sorted; all else is as it was.
Stored(class, v) ==
    IF class = "Json" THEN Canonical(v)
    ELSE IF class = "Bytes" THEN <<"binData", v[2]>>
    ELSE IF class = "Uuid" THEN <<"uuid", v[2]>>
    ELSE v

\* The fields of a document that the lock file knows and that are not null.
Meant(c, doc) ==
    [f \in {f \in DOMAIN doc \cap DOMAIN lock[c] : doc[f][1] \notin Nulls} |->
        Stored(lock[c][f].class, doc[f])]

\* The lock file describes the source's documents, and the plan of this load
\* describes the fields as the lock file does.
Alike(c) ==
    /\ \A doc \in job.source[c] : \A f \in DOMAIN Meant(c, doc) :
          Keeps(lock[c][f].class, doc[f])
    /\ \A f \in DOMAIN lock[c] : plan[c].columns[f].class = lock[c][f].class

-----------------------------------------------------------------------------
(* Load. *)

\* A collection that the target has is described by what it holds now, another
\* by the lock file.
TargetColumns(c) == IF c \in DOMAIN db THEN Introspect(job.targetRules, c, db[c]) ELSE lock[c]

Readable(c) == ReadRows(TargetColumns(c), files[c]) # Error

\* supports_transactions: the server is asked, though no transaction is opened.
Permitted == job.noTransaction \/ job.replicaSet

\* cmd_load up to load_documents: build_plans reads and checks every file first.
Begin ==
    /\ at = "exported"
    /\ Permitted /\ \A c \in Collections : Readable(c)
    /\ plan' = [c \in Collections |-> [columns |-> TargetColumns(c),
                                       rows    |-> ReadRows(TargetColumns(c), files[c])]]
    /\ before' = db
    /\ now' = 1 /\ left' = <<>> /\ runs' = runs + 1
    /\ at' = "open"
    /\ UNCHANGED <<job, lock, files, db, cuts>>
    /\ alike' = {c \in alike : Alike(c)'}

Refuse ==
    /\ at = "exported"
    /\ ~(Permitted /\ \A c \in Collections : Readable(c))
    /\ at' = "refused"
    /\ before' = db
    /\ UNCHANGED <<job, lock, files, plan, db, now, left, runs, cuts, alike>>

DocsAt(c) == IF c \in DOMAIN db THEN db[c] ELSE {}

Documents(c) ==
    [i \in DOMAIN plan[c].rows |-> RowToDocument(plan[c].rows[i], plan[c].columns)]

\* Mutated form: all collections are emptied before the first is written.
ToEmpty_AllFirst ==
    {c \in Collections : now = 1 /\ job.modes[c] = "truncate_first"}

\* delete_all, for the current collection
ToEmpty == {c \in {now} : job.modes[c] = "truncate_first"}

\* The server deletes one document after the other, in no order to rely on.
Delete ==
    /\ at = "open"
    /\ now \in Collections
    /\ \E c \in ToEmpty : \E doc \in DocsAt(c) : db' = [db EXCEPT ![c] = @ \ {doc}]
    /\ UNCHANGED <<job, at, lock, files, plan, before, now, left, runs, cuts, alike>>

\* load_collection: the rows are converted when the documents are deleted, which
\* may fail.
Open ==
    /\ at = "open"
    /\ now \in Collections
    /\ \A c \in ToEmpty : DocsAt(c) = {}
    /\ IF \A i \in DOMAIN Documents(now) : Error \notin Range(Documents(now)[i])
       THEN at' = "write" /\ left' = Documents(now)
       ELSE at' = "failed" /\ left' = <<>>
    /\ UNCHANGED <<job, lock, files, plan, before, db, now, runs, cuts, alike>>

\* Mutated form: a document that is there already gets the new fields.
Placed_Merges(mode, docs, doc) ==
    LET old == {d \in docs : d["_id"] = doc["_id"]}
    IN  IF mode = "upsert" /\ old # {} THEN (docs \ old) \cup {doc @@ d : d \in old}
        ELSE IF mode = "skip_existing" /\ old # {} THEN docs
        ELSE docs \cup {doc}

\* replaceOne and updateOne with $setOnInsert, both with upsert, and insertOne
Placed(mode, docs, doc) ==
    LET old == {d \in docs : d["_id"] = doc["_id"]}
    IN  IF mode = "upsert" THEN (docs \ old) \cup {doc}
        ELSE IF mode = "skip_existing" /\ old # {} THEN docs
        ELSE docs \cup {doc}

\* What a server with a validator accepts, and no _id twice.
Accepts(c, doc) ==
    /\ c \in DOMAIN job.targetRules =>
          LET rule == job.targetRules[c]
          IN  /\ rule.required \subseteq DOMAIN doc
              /\ \A f \in DOMAIN doc \cap DOMAIN rule.types :
                    /\ (IF doc[f][1] \in Binaries THEN "binData" ELSE doc[f][1]) \in rule.types[f]
                    /\ rule.labels[f] = {} \/ doc[f][2] \in rule.labels[f]
    /\ job.modes[c] \in {"insert", "truncate_first"} =>
          \A d \in DocsAt(c) : d["_id"] # doc["_id"]

Skipped(c, doc) ==
    job.modes[c] = "skip_existing" /\ \E d \in DocsAt(c) : d["_id"] = doc["_id"]

\* write, one document
WriteDoc ==
    /\ at = "write"
    /\ left # <<>>
    /\ LET doc == Head(left)
       IN  IF Skipped(now, doc) \/ Accepts(now, doc)
           THEN /\ db' = [c \in DOMAIN db \cup {now} |->
                           IF c = now THEN Placed(job.modes[now], DocsAt(now), doc) ELSE db[c]]
                /\ left' = Tail(left)
                /\ at' = "write"
           ELSE at' = "failed" /\ UNCHANGED <<db, left>>
    /\ UNCHANGED <<job, lock, files, plan, before, now, runs, cuts, alike>>

\* The next collection, or the end.
Close ==
    /\ at = "write"
    /\ left = <<>>
    /\ now' = now + 1
    /\ at' = IF now + 1 \in Collections THEN "open" ELSE "loaded"
    /\ UNCHANGED <<job, lock, files, plan, before, db, left, runs, cuts, alike>>

\* The process or the connection ends: what was written stays.
Interrupt ==
    /\ at \in {"open", "write"}
    /\ cuts < MaxCuts
    /\ at' = "failed"
    /\ cuts' = cuts + 1
    /\ UNCHANGED <<job, lock, files, plan, before, db, now, left, runs, alike>>

Rerun ==
    /\ at \in {"failed", "loaded"}
    /\ runs < MaxRuns
    /\ at' = "exported"
    /\ UNCHANGED <<job, lock, files, plan, before, db, now, left, runs, cuts, alike>>

Next ==
    \/ Export \/ FailExport
    \/ Begin \/ Refuse
    \/ Delete \/ Open \/ WriteDoc \/ Close
    \/ Interrupt \/ Rerun

Spec == Init /\ [][Next]_vars

-----------------------------------------------------------------------------
(* What a load promises. *)

IdsOf(docs) == {d["_id"] : d \in docs}

\* The documents of a collection after it got these in some mode.
After(mode, docs, new) ==
    CASE mode = "truncate_first" -> new
      [] mode = "skip_existing"  -> docs \cup {d \in new : d["_id"] \notin IdsOf(docs)}
      [] OTHER -> {d \in docs : d["_id"] \notin IdsOf(new)} \cup new

HadBefore(c) == IF c \in DOMAIN before THEN before[c] ELSE {}
HadAtFirst(c) == IF c \in DOMAIN job.target THEN job.target[c] ELSE {}

\* A load that ended well has put the documents of the source into the target,
\* each with its fields and their types, and touched no other document
\* (data.rs:71-113, value.rs:13-151).  Not as they were are binary data, which has
\* the subtype that its column stands for, generic or UUID, and documents in a
\* field, whose keys are in alphabetical order: with such an _id a document is
\* not the one that the source has, and one with that _id stays beside it.
DocumentsArrive ==
    at = "loaded" => \A c \in Collections : Alike(c) =>
        DocsAt(c) = After(job.modes[c], HadBefore(c), {Meant(c, doc) : doc \in job.source[c]})

\* Without a transaction a load that is cut short leaves a prefix of itself: the
\* collections in order, and in one of them the first documents of its file or,
\* where it is emptied first, some of the documents it had.  What comes later in
\* the order has not lost a document yet (commands.rs:646-647).
PrefixLoaded ==
    at \in {"open", "write", "failed", "loaded"} => \A c \in Collections :
        LET first(n) == {Documents(c)[i] : i \in 1 .. n}
            all      == Len(Documents(c))
        IN  CASE c < now -> DocsAt(c) = After(job.modes[c], HadBefore(c), first(all))
              [] c > now -> DocsAt(c) = HadBefore(c)
              [] OTHER   -> \/ job.modes[c] = "truncate_first" /\ DocsAt(c) \subseteq HadBefore(c)
                            \/ \E n \in 0 .. all :
                                  DocsAt(c) = After(job.modes[c], HadBefore(c), first(n))

\* Running a load again after it was cut short, or after it ended, gives what one
\* load would have given, as long as each was planned as the export had it: where
\* a profile read an id as another type, the document with that id stays beside
\* the one that a later load brings.  Inserting is not repeatable.
RerunConverges ==
    at = "loaded" => \A c \in alike : job.modes[c] # "insert" =>
        DocsAt(c) = After(job.modes[c], HadAtFirst(c), {Meant(c, doc) : doc \in job.source[c]})

\* What one load could read another refuses only because of a collection that has no
\* validator: one that holds other documents than at first, or that was not there
\* at first (the target is described anew, commands.rs:976-982).
RefusedForProfiles ==
    at = "refused" /\ runs > 0 => \E c \in DOMAIN db \ DOMAIN job.targetRules :
        ~Readable(c) /\ (c \in DOMAIN job.target => db[c] # job.target[c])

\* "A collection without one is described by an inferred profile [...], which is
\* recorded but can never fail a load" (README.md:245-249, introspect.rs:3-5): a
\* load that may run is refused only because of a collection with a validator.
ProfilesNeverFailLoads ==
    at = "refused" /\ Permitted =>
        \A c \in Collections : ~Readable(c) => c \in DOMAIN job.targetRules
=============================================================================
