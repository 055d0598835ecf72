------------------------------ MODULE SqlText -------------------------------
(***************************************************************************)
(* Seed files of INSERT statements (format/sql.rs): SqlWriter writes them  *)
(* in batches, read_sql takes them apart again.  Two ways of telling what  *)
(* is inside a literal meet here: take_literal knows the escaping rules of *)
(* the engine, find_keyword counts quotes.                                 *)
(***************************************************************************)
EXTENDS Dialects

\* Where a text is split, at the positions At, and the pieces between them.
Pieces(s, At) ==
    LET cuts == SetToSortSeq(At \cup {0, Len(s) + 1}, <)
    IN  [i \in 1 .. Len(cuts) - 1 |-> SubSeq(s, cuts[i] + 1, cuts[i + 1] - 1)]

-----------------------------------------------------------------------------
(* SqlWriter *)

Names(columns) == [i \in DOMAIN columns |-> columns[i].name]

Header(e, mode, columns) ==
    <<InsertVerb(e, mode), " ", "t", " ", "(">>
       \o Commas([i \in DOMAIN columns |-> QuoteIdent(e, columns[i].name)])
       \o <<")", " ", "VALUES", "\n">>

\* One statement: the tuples of a batch and the conflict clause behind the last.
Statement(e, mode, columns, key, tuples) ==
    Header(e, mode, columns) \o <<" ">> \o Joined(tuples, <<",", "\n", " ">>)
       \o ConflictClause(e, mode, Names(columns), key) \o <<";", "\n">>

Tuple(literals) == <<"(">> \o Commas(literals) \o <<")">>

\* The file of the given rows of values, n of them to a statement.
WriteSql(e, mode, columns, key, n, rows) ==
    LET literals == [i \in DOMAIN rows |-> [k \in DOMAIN columns |-> Literal(e, columns[k], rows[i][k])]]
        tuples   == [i \in DOMAIN rows |-> Tuple(literals[i])]
        batches  == [b \in 1 .. (Len(rows) + n - 1) \div n |->
                        SubSeq(tuples, n * (b - 1) + 1, Min({n * b, Len(rows)}))]
    IN  IF \/ ConflictClause(e, mode, Names(columns), key) = Error
           \/ \E i \in DOMAIN rows, k \in DOMAIN columns : literals[i][k] = Error
        THEN Error
        ELSE FlattenSeq([b \in DOMAIN batches |-> Statement(e, mode, columns, key, batches[b])])

-----------------------------------------------------------------------------
(* read_sql *)

Backslashes(e) == e = "mysql"

\* Mutated form: a doubled quote ends one literal and starts another.
Scan_NoDoubling(e, s) ==
    LET state[i \in 1 .. Len(s) + 1] ==
          IF i = 1 THEN "outside"
          ELSE LET before == state[i - 1]
                   c == s[i - 1]
               IN  CASE before = "escaped" -> "literal"
                     [] before = "literal" /\ c = "\\" /\ Backslashes(e) -> "escaped"
                     [] before = "literal" /\ c = "'" -> "outside"
                     [] before = "literal" -> "literal"
                     [] c = "'" -> "literal"
                     [] OTHER -> "outside"
    IN  state

\* take_literal and the loops around it: where a text is before each of its
\* characters and at its end.  Behind a quote inside a literal, another quote
\* goes on with it.
Scan(e, s) ==
    LET state[i \in 1 .. Len(s) + 1] ==
          IF i = 1 THEN "outside"
          ELSE LET before == state[i - 1]
                   c == s[i - 1]
               IN  CASE before = "escaped" -> "literal"
                     [] before = "literal" /\ c = "\\" /\ Backslashes(e) -> "escaped"
                     [] before = "literal" /\ c = "'" -> "quote"
                     [] before = "literal" -> "literal"
                     [] c = "'" -> "literal"
                     [] OTHER -> "outside"
    IN  state

IsOpen(at) == at \in {"literal", "escaped"}

\* The positions of the characters of C that are in no literal.
Outside(e, s, C) ==
    LET state == Scan(e, s) IN {i \in DOMAIN s : s[i] \in C /\ ~IsOpen(state[i])}

Closed(e, s) == ~IsOpen(Scan(e, s)[Len(s) + 1])

\* split_statements: at semicolons; what is blank is no statement.  (The writer
\* writes no comments.)
SplitStatements(e, s) ==
    LET pieces == Pieces(s, Outside(e, s, {";"}))
        trimmed == [i \in DOMAIN pieces |-> Trim(pieces[i])]
    IN  SelectSeq(trimmed, LAMBDA p : p # <<>>)

\* to_ascii_uppercase, of the words that find_keyword looks for.
Upper(c) == CASE c = "values" -> "VALUES" [] c = "returning" -> "RETURNING" [] OTHER -> c

\* find_keyword: the first of the words of W, in any case, behind an even number of
\* quotes, or 0.
FindKeyword(s, W) ==
    LET quotes[i \in 0 .. Len(s)] ==
            IF i = 0 THEN 0 ELSE quotes[i - 1] + (IF s[i] = "'" THEN 1 ELSE 0)
        found == {i \in DOMAIN s : Upper(s[i]) \in W /\ quotes[i] % 2 = 0}
    IN  IF found = {} THEN 0 ELSE Min(found)

ClauseWords == {"ON CONFLICT", "ON DUPLICATE KEY UPDATE", "RETURNING"}

\* The statement begins as those that are written do, and there is a list of
\* columns in front of the first VALUES.
IsWritten(s) ==
    LET at   == FindKeyword(s, {"VALUES"})
        open == {i \in 1 .. at - 1 : s[i] = "("}
    IN  /\ s[1] \in {"INSERT INTO", "INSERT IGNORE INTO", "INSERT OR IGNORE INTO"}
        /\ open # {}
        /\ \E i \in Max(open) .. at - 1 : s[i] = ")"

\* split_insert and parse_column_list: the columns, and the text of the tuples.
SplitInsert(s) ==
    LET at    == FindKeyword(s, {"VALUES"})
        head  == SubSeq(s, 1, at - 1)
        tail  == SubSeq(s, at + 1, Len(s))
        open  == Max({i \in DOMAIN head : head[i] = "("})
        list  == SubSeq(head, open + 1, Min({i \in open .. Len(head) : head[i] = ")"}) - 1)
        names == Pieces(list, {i \in DOMAIN list : list[i] = ","})
        clause == FindKeyword(tail, ClauseWords)
    IN  [columns |-> [i \in DOMAIN names |-> Trim(names[i])[2]],
         values  |-> IF clause = 0 THEN tail ELSE SubSeq(tail, 1, clause - 1)]

\* The nesting of parentheses behind each character.
Depth(e, s) ==
    LET opened == Outside(e, s, {"("})
        closed == Outside(e, s, {")"})
        depth[i \in 0 .. Len(s)] ==
            IF i = 0 THEN 0
            ELSE depth[i - 1] + (IF i \in opened THEN 1 ELSE IF i \in closed THEN -1 ELSE 0)
    IN  depth

\* split_tuples: what is in parentheses, or Error.
SplitTuples(e, s) ==
    LET depth  == Depth(e, s)
        starts == {i \in Outside(e, s, {"("}) : depth[i] = 1}
        ends   == {i \in Outside(e, s, {")"}) : depth[i] = 0}
        End(i) == Min({k \in ends : k > i})
        order  == SetToSortSeq(starts, <)
    IN  IF \/ ~Closed(e, s)
           \/ \E i \in DOMAIN s : depth[i] < 0
           \/ depth[Len(s)] # 0
        THEN Error
        ELSE [k \in DOMAIN order |-> SubSeq(s, order[k] + 1, End(order[k]) - 1)]

\* split_literals: at commas that are in no parentheses.
SplitLiterals(e, s) ==
    LET depth  == Depth(e, s)
        pieces == Pieces(s, {i \in Outside(e, s, {","}) : depth[i] = 0})
    IN  [i \in DOMAIN pieces |-> Trim(pieces[i])]

\* unescape: a doubled quote is one, a backslash stands for the next character.
Unescape(e, body) ==
    LET state == Scan(e, <<"'">> \o body)
        \* the character at i is taken over, and as what
        Put(i) == CASE state[i + 1] = "quote"   -> <<"'">>
                    [] state[i + 1] = "escaped" ->
                          (CASE body[i] = "n" -> <<"\n">> [] body[i] = "r" -> <<"\r">>
                             [] OTHER -> <<body[i]>>)
                    [] body[i] = "'" \/ (body[i] = "\\" /\ Backslashes(e)) -> <<>>
                    [] OTHER -> <<body[i]>>
    IN  FlattenSeq([i \in DOMAIN body |-> Put(i)])

\* parse_literal: a literal may have a prefix X and a cast behind it.
ParseLiteral(e, class, s) ==
    LET state == Scan(e, s)
        last  == Max({i \in DOMAIN s : IsOpen(state[i])})
        cast  == {i \in DOMAIN s : i < Len(s) /\ s[i] = ":" /\ s[i + 1] = ":"}
        text  == CASE s # <<>> /\ s[1] \in {"X", "x"} -> SubSeq(s, 3, Len(s) - 1)
                   [] s # <<>> /\ s[1] = "'" ->
                         IF Closed(e, s) THEN Unescape(e, SubSeq(s, 2, last - 1)) ELSE Error
                   [] OTHER -> Trim(IF cast = {} THEN s ELSE SubSeq(s, 1, Min(cast) - 1))
    IN  CASE s = <<"NULL">>  -> Null
          [] s = <<"TRUE">>  -> <<"Bool", TRUE>>
          [] s = <<"FALSE">> -> <<"Bool", FALSE>>
          [] OTHER -> IF text = Error THEN Error ELSE Parse(class, text)

\* The rows of one statement, with a null for a column it does not have.  One that
\* names a column which the table does not have is refused.
ReadInsert(e, target, columns, s) ==
    LET insert == SplitInsert(s)
        tuples == SplitTuples(e, insert.values)
        Row(tuple) ==
            LET literals == SplitLiterals(e, tuple)
                Cell(col) == LET i == SelectInSeq(insert.columns, LAMBDA n : n = col.name)
                             IN  IF i = 0 THEN Null ELSE ParseLiteral(e, ClassOf(target, col), literals[i])
            IN  IF Len(literals) # Len(insert.columns) THEN Error
                ELSE [k \in DOMAIN columns |-> Cell(columns[k])]
    IN  IF ~IsWritten(s) THEN <<Error>>
        ELSE IF ~ToSet(insert.columns) \subseteq ToSet(Names(columns)) THEN <<Error>>
        ELSE IF tuples = Error THEN <<Error>>
        ELSE [i \in DOMAIN tuples |-> Row(tuples[i])]

\* read_sql: literals are escaped as on the engine e that the lock records,
\* values are of the classes the columns have on the target.
ReadSql(e, target, columns, s) ==
    LET statements == SplitStatements(e, s)
        parts == [i \in DOMAIN statements |-> ReadInsert(e, target, columns, statements[i])]
    IN  AllRead(FlattenSeq(parts))
=============================================================================
