------------------------------ MODULE Dialects ------------------------------
(***************************************************************************)
(* How the three SQL engines spell things (dialect.rs, and the type maps   *)
(* of postgres.rs, mysql.rs and sqlite.rs): the class of a column, the     *)
(* text bound to a parameter, the literal of a .sql file, quoting, and the *)
(* conflict clause.  A column is a record of its name and its type, where  *)
(* a type goes by one name on all engines: "boolean" is tinyint(1) on one  *)
(* of them.  What an engine stores and prints is external.                 *)
(***************************************************************************)
EXTENDS Values

Engines == {"postgres", "mysql", "sqlite"}
Modes   == {"upsert", "insert", "skip_existing", "truncate_first"}

-----------------------------------------------------------------------------
(* classify *)

PostgresClass ==
    [boolean |-> "Bool", integer |-> "Int", numeric |-> "Decimal", double |-> "Float",
     text |-> "Text", bytes |-> "Bytes", uuid |-> "Uuid", json |-> "Json", jsonb |-> "Jsonb",
     date |-> "Date", time |-> "Time", timetz |-> "Timetz", timestamp |-> "Timestamp",
     timestamptz |-> "Timestamptz", interval |-> "Interval"]

\* No uuid (char(36)), one kind of JSON, and no interval.
MysqlClass ==
    [uuid |-> "Text", json |-> "Jsonb", timetz |-> "Time", interval |-> "Text"] @@ PostgresClass

\* By the parts of the declared name, INT first: an INTERVAL is one as well.
SqliteClass ==
    [jsonb |-> "Json", timetz |-> "Time", timestamptz |-> "Timestamp", interval |-> "Int"]
       @@ PostgresClass

ClassOf(e, col) ==
    CASE e = "postgres" -> PostgresClass[col.type]
      [] e = "mysql"    -> MysqlClass[col.type]
      [] e = "sqlite"   -> SqliteClass[col.type]

-----------------------------------------------------------------------------
(* Quoting and literals. *)

\* A literal of the escaped characters.
Quoted(escaped) == <<"'">> \o FlattenSeq(escaped) \o <<"'">>

\* sql_literal, quote_literal
SqlLiteral(s) ==
    LET Escape(c) == IF c = "'" THEN <<"'", "'">> ELSE <<c>>
    IN  Quoted([i \in DOMAIN s |-> Escape(s[i])])

\* mysql_quote: "n" is the letter behind the backslash.
MysqlQuote(s) ==
    LET Escape(c) == CASE c = "'"  -> <<"\\", "'">>
                       [] c = "\\" -> <<"\\", "\\">>
                       [] c = "\n" -> <<"\\", "n">>
                       [] c = "\r" -> <<"\\", "r">>
                       [] OTHER    -> <<c>>
    IN  Quoted([i \in DOMAIN s |-> Escape(s[i])])

\* The quote of an identifier is a character of its own on each engine.
QuoteIdent(e, name) ==
    IF e = "mysql" THEN <<"backquote", name, "backquote">> ELSE <<"\"", name, "\"">>

\* is_bare_numeric_literal
IsBareNumeric(s) ==
    LET body == Strip({"-", "+"}, s)
    IN  ToSet(body) \cap Digits # {} /\ ToSet(body) \subseteq Digits \cup {".", "e", "-", "+"}

IsFinite(v) == v[2] \in Finite

(* bind_text *)

PostgresBind(v) == ToText(v)

SqliteBind(v) ==
    CASE v[1] = "Bool"  -> IF v[2] THEN <<"1">> ELSE <<"0">>
      [] v[1] = "Bytes" -> Hex(HexUpper, v[2])
      [] v[1] = "Float" /\ ~IsFinite(v) -> Error
      [] OTHER -> ToText(v)

\* Mutated form: the marker of ISO timestamps is left to the engine.
MysqlBind_KeepsMarker(v) == SqliteBind(v)

MysqlBind(v) ==
    IF v[1] \in {"Timestamp", "Timestamptz"}
    THEN LET plain == SelectSeq(ToText(v), LAMBDA c : c # "Z")
         IN  [i \in DOMAIN plain |-> IF plain[i] = "T" THEN " " ELSE plain[i]]
    ELSE SqliteBind(v)

\* for_engine
BindText(e, v) ==
    CASE e = "postgres" -> PostgresBind(v)
      [] e = "mysql"    -> MysqlBind(v)
      [] e = "sqlite"   -> SqliteBind(v)

-----------------------------------------------------------------------------
(* literal, for the .sql format *)

\* A type that is written with parentheses and a comma, for a cast.
Cast(col) == <<":", ":">> \o (IF col.type = "numeric" THEN <<"numeric", "(", "7", ",", "1", ")">>
                              ELSE <<col.type>>)

PostgresLiteral(col, v) ==
    CASE v[1] = "Bool" -> IF v[2] THEN <<"TRUE">> ELSE <<"FALSE">>
      [] v[1] = "Int" \/ (v[1] = "Decimal" /\ IsBareNumeric(v[2])) -> ToText(v)
      [] v[1] = "Float" /\ IsFinite(v) -> ToText(v)
      [] OTHER -> SqlLiteral(ToText(v)) \o Cast(col)

MysqlLiteral(v) ==
    CASE v[1] = "Decimal" /\ ~IsBareNumeric(v[2]) -> Error
      [] v[1] = "Float" /\ ~IsFinite(v) -> Error
      [] v[1] \in {"Bool", "Int", "Decimal", "Float"} -> MysqlBind(v)
      [] v[1] = "Bytes" -> (IF v[2] = <<>> THEN <<>> ELSE <<"X">>)
                              \o SqlLiteral(MysqlBind(v))
      [] OTHER -> MysqlQuote(MysqlBind(v))

SqliteLiteral(v) ==
    CASE v[1] = "Float" /\ ~IsFinite(v) -> Error
      [] \/ v[1] \in {"Bool", "Int", "Float"}
         \/ (v[1] = "Decimal" /\ IsBareNumeric(v[2])) -> SqliteBind(v)
      [] v[1] = "Bytes" -> <<"x">> \o SqlLiteral(SqliteBind(v))
      [] OTHER -> SqlLiteral(ToText(v))

Literal(e, col, v) ==
    IF IsNull(v) THEN <<"NULL">>
    ELSE CASE e = "postgres" -> PostgresLiteral(col, v)
           [] e = "mysql"    -> MysqlLiteral(v)
           [] e = "sqlite"   -> SqliteLiteral(v)

-----------------------------------------------------------------------------
(* Statements. *)

PostgresVerb(mode) == "INSERT INTO"
MysqlVerb(mode)    == IF mode = "skip_existing" THEN "INSERT IGNORE INTO" ELSE "INSERT INTO"
SqliteVerb(mode)   == IF mode = "skip_existing" THEN "INSERT OR IGNORE INTO" ELSE "INSERT INTO"

InsertVerb(e, mode) ==
    CASE e = "postgres" -> PostgresVerb(mode)
      [] e = "mysql"    -> MysqlVerb(mode)
      [] e = "sqlite"   -> SqliteVerb(mode)

Joined(s, separator) ==
    FlattenSeq([i \in DOMAIN s |-> (IF i = 1 THEN <<>> ELSE separator) \o s[i]])

Commas(s) == Joined(s, <<",", " ">>)

\* The columns of a statement that an upsert sets.
Updates(columns, key) == SelectSeq(columns, LAMBDA c : ~Contains(key, c))

\* conflict_target, without the condition of a partial index.  A keyword is one
\* character, and so is a name.
Target(e, key) == <<"(">> \o Commas([i \in DOMAIN key |-> QuoteIdent(e, key[i])]) \o <<")">>

OnConflict(e, columns, key) ==
    LET q(c)   == QuoteIdent(e, c)
        Set(c) == q(c) \o <<" = ", "EXCLUDED", ".">> \o q(c)
        u      == Updates(columns, key)
    IN  <<" ", "ON CONFLICT", " ">> \o Target(e, key) \o <<" ">>
          \o IF u = <<>> THEN <<"DO NOTHING">>
             ELSE <<"DO UPDATE SET", " ">> \o Commas([i \in DOMAIN u |-> Set(u[i])])

PostgresClause(mode, columns, key) ==
    CASE mode \in {"insert", "truncate_first"} -> <<>>
      [] mode = "skip_existing" -> <<" ", "ON CONFLICT", "DO NOTHING">>
      [] mode = "upsert" -> IF key = <<>> THEN Error ELSE OnConflict("postgres", columns, key)

MysqlClause(mode, columns, key) ==
    LET q(c)   == QuoteIdent("mysql", c)
        Set(c) == q(c) \o <<" = ", "VALUES", "(">> \o q(c) \o <<")">>
        u      == Updates(columns, key)
    IN  CASE mode # "upsert" -> <<>>
          [] key = <<>>      -> Error
          [] OTHER -> <<" ", "ON DUPLICATE KEY UPDATE", " ">>
                        \o IF u = <<>> THEN q(key[1]) \o <<" = ">> \o q(key[1])
                           ELSE Commas([i \in DOMAIN u |-> Set(u[i])])

SqliteClause(mode, columns, key) ==
    CASE mode # "upsert" -> <<>>
      [] key = <<>>      -> Error
      [] OTHER           -> OnConflict("sqlite", columns, key)

ConflictClause(e, mode, columns, key) ==
    CASE e = "postgres" -> PostgresClause(mode, columns, key)
      [] e = "mysql"    -> MysqlClause(mode, columns, key)
      [] e = "sqlite"   -> SqliteClause(mode, columns, key)

\* tuple_predicate: is a row with these key texts, as the engine prints them,
\* among those asked for?  An SQL null equals nothing.
Selects(asked, printed) == ~Contains(printed, Null) /\ printed \in asked

-----------------------------------------------------------------------------
(* write_expr and the engines: what is stored of a text that is bound to a *)
(* column.                                                                 *)

\* NUMERIC affinity: zeros behind the point are not kept.
Affinity(s) ==
    LET kept == {i \in DOMAIN s : s[i] \notin {"0", "."} \/ ~Contains(SubSeq(s, 1, i), ".")}
    IN  IF Contains(s, ".") /\ ~Contains(s, "e") /\ kept # {} THEN SubSeq(s, 1, Max(kept)) ELSE s

PostgresStored(class, s) ==
    CASE class = "Bytes" /\ ~(s # <<>> /\ s[1] = "\\x") -> Error
      [] class = "Timetz" -> <<"Raw", s \o (IF StripOffset(s)[2] = <<>> THEN <<"+", "00">> ELSE <<>>)>>
      [] class = "Jsonb"  -> IF IsDocument(s) THEN <<"Json", SortedDoc(s[1])>> ELSE Error
      [] OTHER -> Parse(class, s)

\* UNHEX takes no marker; in strict mode nothing else is coerced.
MysqlStored(class, s) ==
    CASE class = "Bytes" /\ s # <<>> /\ s[1] = "\\x"     -> Error
      [] class = "Bool" /\ s \notin {<<"0">>, <<"1">>}   -> Error
      [] class = "Decimal" /\ s = <<"NaN">>              -> Error
      [] class \in {"Timestamp", "Timestamptz"} /\ (Contains(s, "T") \/ Contains(s, "Z")) -> Error
      [] class = "Jsonb" -> IF IsDocument(s) THEN <<"Json", SortedDoc(s[1])>> ELSE Error
      [] OTHER -> Parse(class, s)

\* SQLite keeps the text, but for unhex.
SqliteStored(class, s) ==
    CASE class = "Bytes" /\ s # <<>> /\ s[1] = "\\x" -> Error
      [] class = "Bytes"   -> ParseBytes(s)
      [] class = "Decimal" -> <<"Raw", Affinity(s)>>
      [] OTHER             -> <<"Raw", s>>

Stored(e, class, s) ==
    CASE s = Null        -> Null
      [] e = "postgres"  -> PostgresStored(class, s)
      [] e = "mysql"     -> MysqlStored(class, s)
      [] e = "sqlite"    -> SqliteStored(class, s)

-----------------------------------------------------------------------------
(* session_setup and read_expr: the text that a pinned session prints.     *)

PostgresPrinted(v) ==
    CASE v[1] = "Timestamp" -> DateText(DateOf(v[2])) \o <<" ">> \o TimeText(TimeOf(v[2]))
      [] v[1] = "Timestamptz" ->
            DateText(DateOf(v[2])) \o <<" ">> \o TimeText(TimeOf(v[2])) \o <<"+", "00">>
      [] OTHER -> ToText(v)

MysqlPrinted(v) ==
    CASE v[1] = "Bool"  -> IF v[2] THEN <<"1">> ELSE <<"0">>
      [] v[1] = "Bytes" -> Hex(HexUpper, v[2])
      [] v[1] \in {"Timestamp", "Timestamptz"} ->
            DateText(DateOf(v[2])) \o <<" ">> \o TimeText(TimeOf(v[2]))
      [] OTHER -> ToText(v)

SqlitePrinted(v) == IF v[1] = "Bytes" THEN Hex(HexUpper, v[2]) ELSE ToText(v)

Printed(e, v) ==
    CASE e = "postgres" -> PostgresPrinted(v)
      [] e = "mysql"    -> MysqlPrinted(v)
      [] e = "sqlite"   -> SqlitePrinted(v)
=============================================================================
