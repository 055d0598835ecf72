---------------------------- MODULE SchemaDrift -----------------------------
(***************************************************************************)
(* lock/drift.rs and TypeClass::widens_to of schema.rs: what differs       *)
(* between the locked schema and the live one, and how severe it is.       *)
(*                                                                         *)
(* A schema has tables, each with columns, a primary key, unique keys and  *)
(* foreign keys, and enum types.  Names of tables and columns are positive *)
(* numbers.  A key is the set of its columns, a foreign key is on one      *)
(* column.  0 stands for a missing precision or maximal length.  Arrays    *)
(* are not nested.                                                         *)
(***************************************************************************)
EXTENDS Integers

CONSTANTS Tables, Columns, TypeNames, Labels

None == 0

ScalarClass ==
    [kind : {"int", "float"}, bits : Nat]
      \cup [kind : {"decimal"}, precision : Nat, scale : Nat]
      \cup [kind : {"text"}, max_len : Nat]
      \cup [kind : {"json", "time", "timestamp"}, flag : BOOLEAN]  \* binary, tz, tz
      \cup [kind : {"enum", "other"}, name : TypeNames]
      \cup [kind : {"bool", "bytes", "uuid", "date", "interval"}]

TypeClass == ScalarClass \cup [kind : {"array"}, of : ScalarClass]

-----------------------------------------------------------------------------
(* widens_to *)

WidensNumber(a, b) ==
    \/ a.kind = "int" /\ b.kind = "int" /\ a.bits <= b.bits
    \/ a.kind = "float" /\ b.kind = "float" /\ a.bits <= b.bits
    \/ a.kind = "int" /\ b.kind = "decimal"
    \/ /\ a.kind = "int" /\ b.kind = "float"
       /\ \/ a.bits <= 24 /\ b.bits >= 32
          \/ a.bits <= 53 /\ b.bits >= 64
    \/ /\ a.kind = "decimal" /\ b.kind = "decimal"
       /\ \/ b.precision = None
          \/ /\ a.precision # None
             /\ b.precision >= a.precision
             /\ b.scale >= a.scale
             /\ b.precision - b.scale >= a.precision - a.scale

WidensText(a, b) ==
    /\ b.kind = "text"
    /\ \/ b.max_len = None
       \/ a.kind = "text" /\ a.max_len # None /\ a.max_len <= b.max_len
       \/ a.kind = "uuid" /\ b.max_len >= 36

WidensScalar(a, b) ==
    \/ a = b
    \/ WidensNumber(a, b)
    \/ WidensText(a, b)
    \/ a.kind = "json" /\ b.kind = "json"
    \/ a.kind = "date" /\ b.kind = "timestamp"
    \/ a.kind = "timestamp" /\ b.kind = "timestamp" /\ ~a.flag /\ b.flag

Widens(a, b) ==
    IF a.kind = "array" /\ b.kind = "array" THEN WidensScalar(a.of, b.of)
    ELSE WidensScalar(a, b)

-----------------------------------------------------------------------------
(* The comparison.  A drift is about a table or one column of it (0: none). *)

Drift(severity, t, c, what) ==
    [severity |-> severity, table |-> t, column |-> c, what |-> what]

Whole == 0

BothHave(locked, live) == DOMAIN locked.tables \cap DOMAIN live.tables

TableDrifts(locked, live, creatable) ==
    {Drift(IF creatable THEN "benign" ELSE "confirm", t, Whole, "table dropped") :
        t \in DOMAIN locked.tables \ DOMAIN live.tables}
    \cup {Drift("benign", t, Whole, "table added") :
        t \in DOMAIN live.tables \ DOMAIN locked.tables}

ColumnsDropped(t, l, v) ==
    {Drift("confirm", t, c, "column dropped") : c \in DOMAIN l.columns \ DOMAIN v.columns}

CanOmit(column) == column.nullable \/ column.has_default \/ column.generated

ColumnsAdded(t, l, v) ==
    {Drift(IF CanOmit(v.columns[c]) THEN "benign" ELSE "breaking", t, c, "column added") :
        c \in DOMAIN v.columns \ DOMAIN l.columns}

\* Two enums with the same labels are the same type.
SameEnum(locked, live, a, b) ==
    /\ a.kind = "enum" /\ b.kind = "enum"
    /\ a.name \in DOMAIN locked.enums /\ b.name \in DOMAIN live.enums
    /\ locked.enums[a.name] = live.enums[b.name]

\* Mutated form: a narrowing is never worse than a question.
ClassSeverity_Confirm(a, b) == IF Widens(a, b) THEN "benign" ELSE "confirm"

\* Text that may be too long is checked value by value before the load.
ClassSeverity(a, b) ==
    IF Widens(a, b) THEN "benign"
    ELSE IF a.kind = "text" /\ b.kind = "text" THEN "confirm" ELSE "breaking"

ClassChanged(locked, live, t) ==
    {Drift(ClassSeverity(locked.tables[t].columns[c].class, live.tables[t].columns[c].class),
           t, c, "type") :
        c \in {d \in DOMAIN locked.tables[t].columns \cap DOMAIN live.tables[t].columns :
                  LET a == locked.tables[t].columns[d].class
                      b == live.tables[t].columns[d].class
                  IN  a # b /\ ~SameEnum(locked, live, a, b)}}

NullabilityChanged(t, l, v) ==
    LET both == DOMAIN l.columns \cap DOMAIN v.columns
    IN  {Drift(IF v.columns[c].has_default THEN "benign" ELSE "breaking", t, c, "tightened") :
            c \in {d \in both : l.columns[d].nullable /\ ~v.columns[d].nullable}}
        \cup {Drift("benign", t, c, "relaxed") :
            c \in {d \in both : ~l.columns[d].nullable /\ v.columns[d].nullable}}

BecameGenerated(t, l, v) ==
    {Drift("breaking", t, c, "generated") :
        c \in {d \in DOMAIN l.columns \cap DOMAIN v.columns :
                  ~l.columns[d].generated /\ v.columns[d].generated}}

KeysChanged(t, l, v) ==
    (IF l.primary_key # v.primary_key
       THEN {Drift("breaking", t, Whole, "primary key")} ELSE {})
    \cup (IF l.unique \subseteq v.unique
            THEN {} ELSE {Drift("breaking", t, Whole, "unique dropped")})
    \cup (IF v.unique \subseteq l.unique
            THEN {} ELSE {Drift("benign", t, Whole, "unique added")})

\* Foreign keys are matched by their column.
ForeignKeysChanged(t, l, v) ==
    IF l.foreign_keys = v.foreign_keys THEN {}
    ELSE {Drift("breaking", t, Whole, "foreign keys")}

UsesEnum(class, e) ==
    \/ class.kind = "enum" /\ class.name = e
    \/ class.kind = "array" /\ class.of.kind = "enum" /\ class.of.name = e

EnumUsers(schema, e) ==
    {t \in DOMAIN schema.tables :
        \E c \in DOMAIN schema.tables[t].columns : UsesEnum(schema.tables[t].columns[c].class, e)}

\* The drift line of an enum hangs on the first table that uses it.
EnumOwner(schema, e) ==
    IF EnumUsers(schema, e) = {} THEN Whole
    ELSE CHOOSE t \in EnumUsers(schema, e) : \A u \in EnumUsers(schema, e) : t <= u

\* The live labels of e: by name, or any enum with just the labels it had.
LiveLabels(locked, live, e) ==
    IF e \in DOMAIN live.enums THEN {live.enums[e]}
    ELSE {live.enums[f] : f \in {g \in DOMAIN live.enums : live.enums[g] = locked.enums[e]}}

\* Mutated form: labels are compared the other way round.
EnumsChanged_Swapped(locked, live, creatable) ==
    {Drift("benign", EnumOwner(locked, e), Whole, "label removed") :
        e \in {f \in DOMAIN locked.enums :
                  \E s \in LiveLabels(locked, live, f) : ~(locked.enums[f] \subseteq s)}}

EnumsChanged(locked, live, creatable) ==
    {Drift("breaking", EnumOwner(locked, e), Whole, "enum dropped") :
        e \in {f \in DOMAIN locked.enums :
                  /\ LiveLabels(locked, live, f) = {}
                  /\ EnumUsers(locked, f) # {} /\ ~creatable}}
    \cup {Drift("breaking", EnumOwner(locked, e), Whole, "label removed") :
        e \in {f \in DOMAIN locked.enums :
                  \E s \in LiveLabels(locked, live, f) : ~(locked.enums[f] \subseteq s)}}
    \cup {Drift("benign", EnumOwner(locked, e), Whole, "label added") :
        e \in {f \in DOMAIN locked.enums :
                  \E s \in LiveLabels(locked, live, f) : ~(s \subseteq locked.enums[f])}}

\* classify_with
Classify(locked, live, creatable) ==
    TableDrifts(locked, live, creatable)
    \cup EnumsChanged(locked, live, creatable)
    \cup UNION {ClassChanged(locked, live, t)
                  \cup LET l == locked.tables[t]
                           v == live.tables[t]
                       IN  ColumnsDropped(t, l, v) \cup ColumnsAdded(t, l, v)
                             \cup NullabilityChanged(t, l, v) \cup BecameGenerated(t, l, v)
                             \cup KeysChanged(t, l, v) \cup ForeignKeysChanged(t, l, v) :
                t \in BothHave(locked, live)}
=============================================================================
