---------------------------- MODULE MCDriftGate -----------------------------
(***************************************************************************)
(* Instances of DriftGate: every change of a column's class, and every     *)
(* pair of changes to the structure of two tables that share an enum.      *)
(***************************************************************************)
EXTENDS DriftGate, TLC

-----------------------------------------------------------------------------
(* Values and classes. *)

V(form, len, bits, int, frac, label) ==
    [form |-> form, len |-> len, bits |-> bits, int |-> int, frac |-> frac, label |-> label]
Num(bits, int, frac) == V("number", int + frac, bits, int, frac, "a")
Plain(form) == V(form, 9, 0, 0, 0, "a")
ArrayOf(v) == [form |-> "array", len |-> v.len + 2, element |-> v]

Numbers == {Num(1, 1, 0), Num(16, 5, 0), Num(32, 10, 0), Num(64, 19, 0), Num(9, 1, 2)}

Samples ==
    Numbers \cup {V("text", 2, 0, 0, 0, "a"), V("text", 40, 0, 0, 0, "a"),
                  V("uuid", 36, 0, 0, 0, "a"), V("label", 1, 0, 0, 0, "a"),
                  V("label", 1, 0, 0, 0, "b"), Plain("json"), Plain("date"), Plain("time"),
                  Plain("timestamp"), Plain("bool"), Plain("bytes")}
      \cup {ArrayOf(n) : n \in Numbers}

IntOf(n) == [kind |-> "int", bits |-> n]
Text(n) == [kind |-> "text", max_len |-> n]
Decimal(p, s) == [kind |-> "decimal", precision |-> p, scale |-> s]
Array(c) == [kind |-> "array", of |-> c]
Enum(e) == [kind |-> "enum", name |-> e]

Classes ==
    {IntOf(16), IntOf(32), IntOf(64), [kind |-> "float", bits |-> 32], [kind |-> "float", bits |-> 64],
     Decimal(None, None), Decimal(4, 2), Decimal(12, 2), Decimal(12, 0),
     Text(None), Text(2), Text(36), Text(40), [kind |-> "uuid"], [kind |-> "bool"],
     [kind |-> "json", flag |-> TRUE], [kind |-> "json", flag |-> FALSE], [kind |-> "bytes"],
     [kind |-> "date"], [kind |-> "time", flag |-> FALSE], [kind |-> "timestamp", flag |-> FALSE], [kind |-> "timestamp", flag |-> TRUE],
     Enum("mood"), Enum("tone"), Array(IntOf(16)), Array(IntOf(64)), Array(Decimal(4, 2))}

-----------------------------------------------------------------------------
(* Schemas. *)

Col(class, nullable, has_default, generated) ==
    [class |-> class, nullable |-> nullable, has_default |-> has_default, generated |-> generated]

Tab(columns, foreign_keys) ==
    [columns |-> columns, primary_key |-> {1}, unique |-> {}, foreign_keys |-> foreign_keys]

Id == Col(IntOf(32), FALSE, TRUE, FALSE)
Moods == "mood" :> {"a", "b"} @@ "tone" :> {"a"}

\* One table whose second column has the class.
OfClass(class, nullable) ==
    [tables |-> 1 :> Tab(1 :> Id @@ 2 :> Col(class, nullable, FALSE, FALSE), <<>>),
     enums |-> Moods]

Base ==
    [tables |-> 1 :> Tab(1 :> Id @@ 2 :> Col(Text(40), TRUE, FALSE, FALSE)
                           @@ 3 :> Col(Enum("mood"), FALSE, FALSE, FALSE), <<>>)
             @@ 2 :> Tab(1 :> Id @@ 2 :> Col(Text(None), FALSE, FALSE, FALSE)
                           @@ 3 :> Col(Enum("mood"), FALSE, FALSE, FALSE), 1 :> 1),
     enums |-> Moods]

\* A function without, or with another value for, one of its arguments.
Without(f, x) == [y \in DOMAIN f \ {x} |-> f[y]]
With(f, x, v) == x :> v @@ f

\* The changes of one table: none, the table dropped, a column dropped, added,
\* tightened, relaxed, narrowed, generated, and the keys.
Changes(S, t) ==
    LET tab == S.tables[t]
        Put(new) == [S EXCEPT !.tables[t] = new]
        Columned(columns) == Put([tab EXCEPT !.columns = columns])
    IN  {S, [S EXCEPT !.tables = Without(@, t)]}
        \cup {Columned(Without(tab.columns, c)) : c \in {2, 3}}
        \cup {Columned(With(tab.columns, 4, Col(Text(None), n, d, g))) :
                n \in BOOLEAN, d \in BOOLEAN, g \in BOOLEAN}
        \cup {Columned(With(tab.columns, 2, Col(cl, n, d, FALSE))) :
                cl \in {Text(None), Text(2)}, n \in BOOLEAN, d \in BOOLEAN}
        \cup {Columned([tab.columns EXCEPT ![3].generated = TRUE]),
              Put([tab EXCEPT !.primary_key = {1, 2}]),
              Put([tab EXCEPT !.unique = {{2}}]),
              Put([tab EXCEPT !.foreign_keys = <<>>])}

EnumChanges(S) ==
    {S, [S EXCEPT !.enums["mood"] = {"a"}],
     [tables |-> [t \in DOMAIN S.tables |->
                    [S.tables[t] EXCEPT !.columns =
                        [c \in DOMAIN @ |-> IF @[c].class = Enum("mood")
                                            THEN [@[c] EXCEPT !.class = Enum("tone")] ELSE @[c]]]],
      enums |-> "tone" :> {"a", "b"}]}

-----------------------------------------------------------------------------
(* Jobs. *)

\* Every value of Samples that the columns of S hold.
FullSeed(S) ==
    [t \in DOMAIN S.tables |->
        [c \in Writable(S.tables[t]) |->
            LET column == S.tables[t].columns[c]
            IN  {v \in Samples : Holds(column.class, LabelsOf(S, column.class), v)}
                  \cup (IF column.nullable THEN {SeedNull} ELSE {})]]

Policies(p, q) == 1 :> p @@ 2 :> q
Policy3 == {"abort", "confirm", "ignore"}

Job(locked, new, later, policy, flags) ==
    [locked |-> locked, live |-> new, later |-> later, seed |-> FullSeed(locked),
     policy |-> policy, accepted |-> {}, creatable |-> flags.creatable,
     force |-> flags.force, yes |-> flags.yes, terminal |-> ~flags.yes]

Quietly == [creatable |-> FALSE, force |-> FALSE, yes |-> TRUE]
Asking  == [creatable |-> FALSE, force |-> FALSE, yes |-> FALSE]
Forced  == [creatable |-> FALSE, force |-> TRUE, yes |-> TRUE]
Creating == [creatable |-> TRUE, force |-> FALSE, yes |-> TRUE]

ClassJobs ==
    {Job(OfClass(a, m), OfClass(b, n), OfClass(b, n), Policies("confirm", "confirm"), Quietly) :
        a \in Classes, b \in Classes, m \in BOOLEAN, n \in BOOLEAN}

StructureJobs ==
    {Job(Base, T, T, Policies("confirm", "confirm"), Quietly) :
        T \in UNION {EnumChanges(U) : U \in UNION {Changes(T, 2) : T \in Changes(Base, 1)}}}

\* Fewer changes, but any flags and policies.
Losses ==
    {Base, [Base EXCEPT !.tables = Without(@, 2)],
     [Base EXCEPT !.tables[1].columns = Without(@, 2)],
     [Base EXCEPT !.tables[1].columns = Without(Without(@, 2), 3)],
     [Base EXCEPT !.tables[1].columns[2].class = Text(2), !.tables = Without(@, 2)],
     [Base EXCEPT !.tables[1].columns = With(@, 4, Col(Text(None), FALSE, FALSE, FALSE))],
     [Base EXCEPT !.enums["mood"] = {"a"}]}

FlagJobs ==
    {Job(Base, T, T, Policies(p, q), f) :
        T \in Losses, p \in Policy3, q \in Policy3, f \in {Quietly, Asking, Forced, Creating}}

\* The schema moves on between the runs.
LaterJobs ==
    {Job(Base, T, U, Policies("confirm", "confirm"), Asking) : T \in Losses, U \in Losses}

AllJobs == ClassJobs \cup StructureJobs \cup FlagJobs \cup LaterJobs
=============================================================================
