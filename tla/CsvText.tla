------------------------------ MODULE CsvText -------------------------------
(***************************************************************************)
(* CSV seed files (format/csv.rs).  An unquoted empty field is an SQL      *)
(* null, a quoted one the empty string; the quotes of a text are doubled.  *)
(***************************************************************************)
EXTENDS Dialects

Quote == "\""

-----------------------------------------------------------------------------
(* CsvWriter *)

\* Mutated form: an empty text is left as it is.
NeedsQuoting_NotEmpty(s) ==
    \/ ToSet(s) \cap {",", Quote, "\n", "\r"} # {}
    \/ s # <<>> /\ " " \in {s[1], Last(s)}

NeedsQuoting(s) ==
    \/ s = <<>>
    \/ ToSet(s) \cap {",", Quote, "\n", "\r"} # {}
    \/ " " \in {s[1], Last(s)}

EncodeField(v) ==
    LET s == ToText(v)
        Double(c) == IF c = Quote THEN <<Quote, Quote>> ELSE <<c>>
    IN  CASE IsNull(v)       -> <<>>
          [] NeedsQuoting(s) -> <<Quote>> \o FlattenSeq([i \in DOMAIN s |-> Double(s[i])]) \o <<Quote>>
          [] OTHER           -> s

\* encode_record and push_line
Line(fields) ==
    FlattenSeq([i \in DOMAIN fields |-> (IF i = 1 THEN <<>> ELSE <<",">>) \o fields[i]]) \o <<"\n">>

WriteCsv(columns, rows) ==
    Line([k \in DOMAIN columns |-> EncodeField(<<"Text", <<columns[k].name>>>>)])
       \o FlattenSeq([i \in DOMAIN rows |->
             Line([k \in DOMAIN columns |-> EncodeField(rows[i][k])])])

-----------------------------------------------------------------------------
(* read_csv *)

\* The positions of the characters of C that an even number of quotes precedes.
Unquoted(s, C) ==
    LET quotes[i \in 0 .. Len(s)] ==
            IF i = 0 THEN 0 ELSE quotes[i - 1] + (IF s[i] = Quote THEN 1 ELSE 0)
    IN  {i \in DOMAIN s : s[i] \in C /\ quotes[i] % 2 = 0}

\* The pieces of s between the positions At.
Between(s, At) ==
    LET cuts == SetToSortSeq(At \cup {0, Len(s) + 1}, <)
    IN  [i \in 1 .. Len(cuts) - 1 |-> SubSeq(s, cuts[i] + 1, cuts[i + 1] - 1)]

\* split_records: at the ends of lines; a CR LF ends one line.  What is behind
\* the last end of line is a record unless it is empty.
SplitRecords(s) ==
    LET ends    == {i \in Unquoted(s, {"\n", "\r"}) : ~(s[i] = "\n" /\ i > 1 /\ s[i - 1] = "\r")}
        lines   == Between(s, ends)
        records == [i \in DOMAIN lines |->
                       IF i > 1 /\ lines[i] # <<>> /\ lines[i][1] = "\n" THEN Tail(lines[i]) ELSE lines[i]]
    IN  IF Cardinality({i \in DOMAIN s : s[i] = Quote}) % 2 = 1 THEN Error
        ELSE IF Last(records) = <<>> THEN Front(records) ELSE records

\* A quoted field without its quotes, or Error where a quote does not belong.
DecodeQuoted(s) ==
    LET body == SubSeq(s, 2, Len(s) - 1)
        closing(i) == Cardinality({k \in 1 .. i : body[k] = Quote}) % 2 = 0
        paired == \A i \in DOMAIN body :
                     body[i] = Quote /\ ~closing(i) => i < Len(body) /\ body[i + 1] = Quote
        kept == SetToSortSeq({i \in DOMAIN body : body[i] # Quote \/ closing(i)}, <)
    IN  IF Len(s) < 2 \/ Last(s) # Quote \/ ~paired THEN Error
        ELSE [i \in DOMAIN kept |-> body[kept[i]]]

\* parse_line and decode_field, for a column of the given class.
DecodeField(class, s) ==
    LET text == IF s[1] = Quote THEN DecodeQuoted(s)
                ELSE IF Contains(s, Quote) THEN Error ELSE s
    IN  IF s = <<>> THEN Null ELSE IF text = Error THEN Error ELSE Parse(class, text)

ReadRecord(target, columns, header, record) ==
    LET fields == Between(record, Unquoted(record, {","}))
        Cell(col) == LET i == SelectInSeq(header, LAMBDA h : h = <<col.name>>)
                     IN  IF i = 0 THEN Null ELSE DecodeField(ClassOf(target, col), fields[i])
    IN  IF Len(fields) # Len(header) THEN Error
        ELSE [k \in DOMAIN columns |-> Cell(columns[k])]

\* read_csv: records that are blank are passed over, a header with a column that
\* the table does not have is refused.
ReadCsv(target, columns, s) ==
    LET records == SplitRecords(s)
        header  == Between(records[1], Unquoted(records[1], {","}))
        known   == {<<c.name>> : c \in ToSet(columns)}
        filled  == SelectSeq(Tail(records), LAMBDA r : Trim(r) # <<>>)
    IN  IF s = <<>> THEN <<>>
        ELSE IF records = Error \/ ~ToSet(header) \subseteq known THEN Error
        ELSE AllRead([i \in DOMAIN filled |-> ReadRecord(target, columns, header, filled[i])])
=============================================================================
