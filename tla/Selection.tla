------------------------------ MODULE Selection ------------------------------
(***************************************************************************)
(* Which columns and rows of a table an export takes, in which order, and  *)
(* which key a load goes by (export.rs, schema.rs, load.rs).               *)
(*                                                                         *)
(* A table is a record of its columns, its primary key and its unique      *)
(* indexes; a column has a name, a type and whether it is generated.  The  *)
(* settings of a table are a record too: `columns` (or {}) and             *)
(* `exclude_columns`, `order_by`, `limit` (or 0), `key` (or <<>>), `load`. *)
(***************************************************************************)
EXTENDS Dialects

NamesOf(columns) == {col.name : col \in ToSet(columns)}

Position(columns, name) == SelectInSeq(columns, LAMBDA c : c.name = name)

\* Where the named columns are among the others; 0 for one that is not there.
Positions(columns, names) == [i \in DOMAIN names |-> Position(columns, names[i])]

\* writable_columns
Writable(table) == SelectSeq(table.columns, LAMBDA c : ~c.generated)

\* selected_columns
SelectedColumns(table, cfg) ==
    LET picked == SelectSeq(Writable(table), LAMBDA c :
                     IF cfg.columns # {} THEN c.name \in cfg.columns ELSE c.name \notin cfg.excluded)
    IN  IF \/ ~cfg.columns \subseteq NamesOf(Writable(table))
           \/ ~cfg.excluded \subseteq NamesOf(table.columns)
           \/ picked = <<>>
           \/ ~ToSet(table.primaryKey) \subseteq NamesOf(picked) /\ cfg.mode = "upsert"
        THEN Error ELSE picked

Deduped(names) ==
    LET first == {i \in DOMAIN names : \A k \in 1 .. i - 1 : names[k] # names[i]}
        order == SetToSortSeq(first, <)
    IN  [i \in DOMAIN order |-> names[order[i]]]

\* Mutated form: the key is taken to be enough.
TotalOrder_KeyOnly(table, columns, cfg) ==
    Deduped(cfg.orderBy \o SelectSeq(table.primaryKey, LAMBDA n : n \in NamesOf(columns)))

\* total_order: the configured columns, the key, and every other column that can
\* be ordered by.
TotalOrder(table, columns, cfg) ==
    LET sortable == SelectSeq(columns, LAMBDA c : c.type \notin {"json", "jsonb", "interval"})
    IN  Deduped(cfg.orderBy
                \o SelectSeq(table.primaryKey, LAMBDA n : n \in NamesOf(columns))
                \o [i \in DOMAIN sortable |-> sortable[i].name])

OrderIsKnown(table, cfg) == ToSet(cfg.orderBy) \subseteq NamesOf(table.columns)

\* build_query and the engine: the rows in every order that ORDER BY leaves open,
\* cut off at the limit.  Which of two different values is first is the same
\* everywhere (order_expr pins the collation) and is left open otherwise.
QueryResults(table, columns, cfg, rows) ==
    LET at      == Positions(table.columns, TotalOrder(table, columns, cfg))
        Sort(r) == [i \in DOMAIN at |-> r[at[i]]]
        sorts   == SetToSeq({Sort(r) : r \in rows})
        Place(r) == SelectInSeq(sorts, LAMBDA s : s = Sort(r))
        Cut(s)  == IF cfg.limit = 0 THEN s ELSE SubSeq(s, 1, Min({cfg.limit, Len(s)}))
    IN  {Cut(s) : s \in {s \in SetToSeqs(rows) :
                            \A i \in 1 .. Len(s) - 1 : Place(s[i]) <= Place(s[i + 1])}}

-----------------------------------------------------------------------------
(* Keys. *)

\* Table::conflict_target: of the unique indexes on these columns, one that
\* covers every row is preferred.
ConflictTarget(table, names) ==
    LET matching == SelectSeq(table.unique, LAMBDA u : u.columns = names)
        total    == SelectSeq(matching, LAMBDA u : ~u.partial)
    IN  IF total # <<>> THEN <<total[1]>> ELSE IF matching # <<>> THEN <<matching[1]>> ELSE <<>>

\* Table::upsert_key, or <<>>
TableKey(table) ==
    LET total == SelectSeq(table.unique, LAMBDA u : ~u.partial)
    IN  IF table.primaryKey # <<>> THEN table.primaryKey
        ELSE IF total # <<>> THEN total[1].columns
        ELSE IF table.unique # <<>> THEN table.unique[1].columns
        ELSE <<>>

\* load::upsert_key: the configured key must be one the table has.
UpsertKey(table, cfg) ==
    IF cfg.key = <<>> THEN TableKey(table)
    ELSE IF \/ Contains(Positions(table.columns, cfg.key), 0)
            \/ cfg.key # table.primaryKey /\ ConflictTarget(table, cfg.key) = <<>>
    THEN Error ELSE cfg.key
=============================================================================
