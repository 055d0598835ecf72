----------------------------- MODULE MCExchange -----------------------------
(* The jobs of the run exchange: small families, each for one difficulty. *)
EXTENDS Exchange

Column(name, type) == [name |-> name, type |-> type, generated |-> FALSE]
Id     == Column("id", "integer")
Num(d) == <<"Int", <<d>>>>
Text(s) == <<"Text", s>>

\* SQLite keeps the text it is given.
CellOf(e, v) ==
    IF v = Null \/ e # "sqlite" \/ v[1] = "Bytes" THEN v
    ELSE <<"Raw", IF v[1] = "Bool" THEN (IF v[2] THEN <<"1">> ELSE <<"0">>) ELSE ToText(v)>>

\* A job for the given rows of values, with all columns and no limit.
Job(from, to, columns, primaryKey, mode, format, json, source, before) ==
    LET Cells(e, row) == [k \in DOMAIN row |-> CellOf(e, row[k])]
        stored == {Cells(from, r) : r \in source}
    IN  [from |-> from, to |-> to, mode |-> mode, format |-> format, json |-> json,
         table |-> [columns |-> columns, primaryKey |-> primaryKey, unique |-> <<>>],
         columns |-> {}, excluded |-> {}, orderBy |-> <<>>, limit |-> 0, key |-> <<>>,
         required |-> {}, defaulted |-> {}, short |-> {},
         batch |-> 2, chunk |-> 1, source |-> stored,
         meant |-> [s \in stored |-> CHOOSE r \in source : Cells(from, r) = s],
         before |-> {Cells(to, r) : r \in before}]

Files == {"sql", "csv", "lines", "per_row"}

-----------------------------------------------------------------------------
\* Every type: a few values of it, between any two engines.

Samples ==
    [boolean |-> {<<"Bool", TRUE>>, <<"Bool", FALSE>>, Null},
     numeric |-> {<<"Decimal", <<"1", ".", "0">>>>, <<"Decimal", <<"-", "0", ".", "7">>>>,
                  <<"Decimal", <<"NaN">>>>},
     double  |-> {<<"Float", "1.0">>, <<"Float", "0.5">>, <<"Float", "NaN">>},
     bytes   |-> {<<"Bytes", <<>>>>, <<"Bytes", <<0, 10, 255>>>>, Null},
     uuid    |-> {<<"Uuid", "uuid">>},
     json    |-> {<<"Json", d>> : d \in Documents},
     jsonb   |-> {<<"Json", d>> : d \in Documents \ {"{b,a}"}},
     date    |-> {<<"Date", 7>>},
     time    |-> {<<"Time", 90>>},
     timestamp   |-> {<<"Timestamp", 1440 * 2>>, <<"Timestamp", 1440 * 2 + 1410>>},
     timestamptz |-> {<<"Timestamptz", 1440 * 2 + 30>>}]

\* What a row of an engine can hold and is read as.
Holds(e, type, v) ==
    LET class == ClassOf(e, Column("v", type))
    IN  /\ v = Null \/ Parse(class, Printed(e, CellOf(e, v))) = v
        /\ v \in {<<"Float", "NaN">>, <<"Decimal", <<"NaN">>>>} => e = "postgres"
        /\ v # Null /\ e = "sqlite" => ~(v[1] = "Decimal" /\ Affinity(v[2]) # v[2])
        /\ v # Null /\ e = "mysql" /\ v[1] = "Json" => SortedDoc(v[2]) = v[2]

\* The samples of a type that an engine can hold.
Held(e, type) == {v \in Samples[type] : Holds(e, type, v)}

TypeJobs ==
    LET Trip(from, to, type, format, json) ==
            {Job(from, to, <<Id, Column("v", type)>>, <<"id">>, "upsert", format, json,
                 {<<Num("1"), v>>}, {}) : v \in Held(from, type)}
    IN  UNION {Trip(from, to, type, format, "unroll") :
                  from \in Engines, to \in Engines, type \in DOMAIN Samples, format \in Files}
          \cup UNION {Trip(from, to, type, "lines", "string") :
                  from \in Engines, to \in Engines, type \in {"json", "jsonb"}}

-----------------------------------------------------------------------------
\* Texts with everything that a file format cares about, two rows at a time, by
\* themselves and beside a key.

Awkward == {"'", "\\", "\"", ",", "\n", "\r", " ", "\t", ";", "(", ")", "n", "NULL", ":",
            "returning"}
Texts   == {<<>>} \cup {<<c>> : c \in Awkward} \cup {<<c, d>> : c, d \in Awkward}

TextJobs ==
    {Job(e, e, <<Id, Column("v", "text")>>, <<"id">>, mode, format, "unroll",
         {<<Num("1"), Text(s)>>, <<Num("7"), Text(<<"a">>)>>}, {}) :
        e \in Engines, mode \in {"upsert", "insert"}, format \in Files, s \in Texts}

\* A word that the reader looks for behind apostrophes of another row, and in a
\* statement of its own.
WordJobs ==
    {[Job(e, e, <<Id, Column("v", "text")>>, <<"id">>, mode, "sql", "unroll",
          {<<Num("1"), Text(s)>>, <<Num("7"), Text(<<"a", word, "'">>)>>}, {})
        EXCEPT !.batch = batch] :
        e \in Engines, mode \in Modes, s \in {<<>>, <<"'">>, <<"'", "'">>, <<"\\">>},
        word \in {"returning", "values"}, batch \in {1, 2}}

\* A column named after such a word.
WordColumnJobs ==
    {Job(e, e, <<Id, Column(name, "text")>>, <<"id">>, mode, format, "unroll",
         {<<Num("1"), Text(<<"a">>)>>}, {}) :
        e \in Engines, mode \in Modes, format \in Files, name \in {"values", "returning"}}

AloneJobs ==
    {Job(e, e, <<Column("v", "text")>>, <<"v">>, "insert", format, "unroll", {<<v>>}, {}) :
        e \in Engines, format \in Files,
        v \in {Null} \cup {Text(s) : s \in {t \in Texts : Len(t) < 2}}}

-----------------------------------------------------------------------------
\* What an application has written into SQLite: its own spelling of a timestamp,
\* with an offset.

SpelledJobs ==
    LET Shift(off) == CASE off = <<"Z">> -> 0
                          [] off = <<"+", "05", ":", "30">> -> 330
                          [] off = <<"-", "03", ":", "30">> -> -210
                          [] off = <<"-", "01">> -> -60
        Spelled(n, sep, off) == <<<<"Raw", <<"1">>>>,
              <<"Raw", DateText(DateOf(n)) \o <<sep>> \o TimeText(TimeOf(n)) \o off>>>>
    IN  {[Job("sqlite", to, <<Id, Column("v", "timestamp")>>, <<"id">>, "upsert", "csv",
              "unroll", {}, {})
            EXCEPT !.source = {Spelled(n, sep, off)},
                   !.meant  = Spelled(n, sep, off) :>
                                 <<Num("1"), <<"Timestamp", n - Shift(off)>>>>] :
           to \in Engines, n \in {1440 * 2, 1440 * 2 + 1410}, sep \in {" ", "T"},
           off \in {<<"Z">>, <<"+", "05", ":", "30">>, <<"-", "03", ":", "30">>, <<"-", "01">>}}

-----------------------------------------------------------------------------
\* Rows that are there before the load.

Tables(ids) == UNION {{{<<Num(d), Text(<<f[d]>>)>> : d \in D} : f \in [D -> {"a", "b"}]} :
                        D \in SUBSET ids}

DiffJobs ==
    {Job(e, e, <<Id, Column("v", "text")>>, <<"id">>, mode, "lines", "unroll", source, before) :
        e \in Engines, mode \in Modes, source \in Tables({"0", "1"}), before \in Tables({"0", "1", "7"})}

\* A key of each type, on a row that is there already.
KeyJobs ==
    UNION {{Job(e, e, <<Column("v", type), Id>>, <<"v">>, mode, "lines", "unroll",
                {<<v, Num("1")>>}, {<<v, Num(d)>>}) :
               mode \in {"upsert", "truncate_first"}, v \in Held(e, type) \ {Null}, d \in {"0", "1"}} :
             e \in Engines, type \in DOMAIN Samples \ {"json", "jsonb"}}

-----------------------------------------------------------------------------
\* Keys whose file names are close to one another.

Names == {<<>>, <<"a">>, <<"A">>, <<"a", " ">>, <<"a", "-", "2">>, <<" ", "-">>, <<"a", "b">>}

SlugJobs ==
    {Job("postgres", "postgres", <<Column("v", "text"), Id>>, <<"v">>, "upsert", "per_row",
         "unroll", {<<Text(s), Num("1")>> : s \in S}, {}) :
        S \in {S \in SUBSET Names : Cardinality(S) \in 1 .. 3}}

-----------------------------------------------------------------------------
\* Columns that are left out or generated, an order and a limit.

Note == Column("note", "text")
Made == [Column("made", "text") EXCEPT !.generated = TRUE]
g == Text(<<"g">>)

SomeRows == {<<Num("0"), Text(<<"b">>), Text(<<"x">>), g>>, <<Num("1"), Text(<<"a">>), Null, g>>,
             <<Num("7"), Text(<<"a">>), Text(<<"y">>), g>>}
HereRows == {<<Num("1"), Text(<<"b">>), Text(<<"z">>), g>>}

PartJobs ==
    {[Job(e, e, <<Id, Column("v", "text"), Note, Made>>, <<"id">>, mode, "csv", "unroll",
          SomeRows, before)
        EXCEPT !.columns = columns, !.excluded = excluded, !.orderBy = orderBy, !.limit = limit] :
        e \in Engines, mode \in Modes, before \in {{}, HereRows},
        columns \in {{}, {"id", "v"}, {"v", "made"}}, excluded \in {{}, {"note"}, {"id"}, {"nowhere"}},
        orderBy \in {<<>>, <<"v">>, <<"nowhere">>}, limit \in {0, 2}}

-----------------------------------------------------------------------------
\* A table without a primary key, or with another key: rows that are alike in
\* some columns, and an index over two of them.

Alike == {<<Text(<<"a">>), Text(<<"x">>)>>, <<Text(<<"a">>), Text(<<"y">>)>>,
          <<Text(<<"b">>), Text(<<"x">>)>>, <<Null, Text(<<"x">>)>>}

UniqueJobs ==
    {j \in {[Job(e, e, <<Column("v", "text"), Note>>, primaryKey, mode, format, "unroll", source, before)
        EXCEPT !.table.unique = unique, !.key = key] :
        e \in Engines, primaryKey \in {<<>>, <<"note">>}, mode \in Modes, format \in {"lines", "sql"},
        unique \in {<<>>, <<[columns |-> <<"v">>, partial |-> FALSE]>>,
                     <<[columns |-> <<"note">>, partial |-> TRUE], [columns |-> <<"v">>, partial |-> FALSE]>>},
        key \in {<<>>, <<"v">>},
        source \in {{<<Text(<<"a">>), Text(<<"x">>)>>},
                    {<<Text(<<"a">>), Text(<<"x">>)>>, <<Text(<<"b">>), Text(<<"y">>)>>}},
        before \in {{}, {<<Text(<<"a">>), Text(<<"y">>)>>}, {<<Text(<<"b">>), Text(<<"x">>)>>},
                    {<<Text(<<"a">>), Text(<<"y">>)>>, <<Text(<<"b">>), Text(<<"x">>)>>}}} :
        \* MySQL has no partial indexes
        j.to = "mysql" => \A u \in ToSet(j.table.unique) : ~u.partial}

AlikeJobs ==
    {Job(e, e, <<Column("v", "text"), Note>>, <<>>, "truncate_first", format, "unroll", source, {}) :
        e \in Engines, format \in Files, source \in SUBSET Alike \ {{}, Alike}}

\* A target that has become stricter: a null, two nulls and a long text in a
\* column that takes fewer values than in the source.
StrictJobs ==
    {[Job("postgres", to, <<Id, Column("v", "text")>>, <<"id">>, mode, "csv", "unroll", source, {})
        EXCEPT !.required = required, !.defaulted = defaulted, !.short = short] :
        to \in Engines, mode \in Modes, required \in {{}, {"v"}}, defaulted \in {{}, {"v"}},
        short \in {{}, {"v"}},
        source \in SUBSET {<<Num("0"), Null>>, <<Num("1"), Text(<<"a", "b">>)>>, <<Num("7"), Text(<<"a">>)>>}}

\* A unique column that is null in some rows, or holds the text NULL.
NullKeyJobs ==
    {[Job(e, e, <<Column("v", "text"), Note>>, <<>>, mode, "lines", "unroll", source, {})
        EXCEPT !.table.unique = <<[columns |-> <<"v">>, partial |-> partial]>>] :
        e \in {"postgres", "sqlite"}, mode \in Modes, partial \in BOOLEAN,
        source \in SUBSET {<<Null, Text(<<"x">>)>>, <<Null, Text(<<"y">>)>>, <<Text(<<"NULL">>), Null>>}}

\* A key of two columns, of rows that are alike in one of them.
PairJobs ==
    {Job(e, e, <<Id, Column("v", "text"), Note>>, <<"id", "v">>, mode, "lines", "unroll", source, before) :
        e \in Engines, mode \in Modes,
        source \in SUBSET {<<Num("0"), Text(<<"a">>), Null>>, <<Num("0"), Text(<<"b">>), Null>>,
                           <<Num("1"), Text(<<"a">>), Null>>},
        before \in {{}, {<<Num("0"), Text(<<"b">>), Text(<<"x">>)>>}}}

MCJobs == StrictJobs \cup NullKeyJobs \cup PairJobs \cup PartJobs \cup UniqueJobs \cup AlikeJobs \cup TypeJobs \cup TextJobs \cup WordJobs \cup WordColumnJobs \cup AloneJobs \cup SpelledJobs \cup DiffJobs \cup KeyJobs \cup SlugJobs
=============================================================================
