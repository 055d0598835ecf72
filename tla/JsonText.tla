------------------------------ MODULE JsonText ------------------------------
(***************************************************************************)
(* JSON seed files (format/json.rs): one row per line, or one file per row *)
(* named after the key.  A row is a sequence of members, each the name of  *)
(* a column and a JSON value: <<"null">>, <<"bool", b>>, <<"number", n>>,  *)
(* <<"string", s>> with the escaped text s, or <<"nested", d>> with a      *)
(* document d written out.  Commas, braces and indentation are left out.   *)
(***************************************************************************)
EXTENDS Dialects

Layouts   == {"lines", "per_row"}
JsonModes == {"unroll", "string"}

-----------------------------------------------------------------------------
(* Writing. *)

\* write_json: nested documents are written with their keys in order (sort).
WriteJson(d, sort) == IF sort THEN SortedDoc(d) ELSE d

\* is_lossless_json_number
IsLossless(s) == IsPlain(Strip({"-"}, s))

\* encode_string
EncodeString(s) ==
    LET Escape(c) == CASE c = "\"" -> <<"\\", "\"">>
                       [] c = "\\" -> <<"\\", "\\">>
                       [] c = "\n" -> <<"\\", "n">>
                       [] c = "\r" -> <<"\\", "r">>
                       [] c = "\t" -> <<"\\", "t">>
                       [] OTHER    -> <<c>>
    IN  <<"string", FlattenSeq([i \in DOMAIN s |-> Escape(s[i])])>>

\* Mutated form: any document is nested, a string or null at the root as well.
EncodeValue_NestsAll(mode, v) ==
    CASE IsNull(v) -> <<"null">>
      [] v[1] = "Bool" -> <<"bool", v[2]>>
      [] \/ v[1] = "Int"
         \/ (v[1] = "Decimal" /\ IsLossless(v[2]))
         \/ (v[1] = "Float" /\ v[2] \in Finite) -> <<"number", ToText(v)>>
      [] v[1] = "Json" /\ mode = "unroll" ->
            IF v[2] = "null" THEN <<"null">> ELSE <<"nested", WriteJson(v[2], TRUE)>>
      [] OTHER -> EncodeString(ToText(v))

\* encode_value
EncodeValue(mode, v) ==
    CASE IsNull(v) -> <<"null">>
      [] v[1] = "Bool" -> <<"bool", v[2]>>
      [] \/ v[1] = "Int"
         \/ (v[1] = "Decimal" /\ IsLossless(v[2]))
         \/ (v[1] = "Float" /\ v[2] \in Finite) -> <<"number", ToText(v)>>
      [] v[1] = "Json" /\ mode = "unroll" /\ v[2] \in Composite -> <<"nested", WriteJson(v[2], TRUE)>>
      [] OTHER -> EncodeString(ToText(v))

EncodeRow(mode, columns, row) ==
    [k \in DOMAIN columns |-> <<columns[k].name, EncodeValue(mode, row[k])>>]

\* JsonlWriter
WriteLines(mode, columns, rows) ==
    [i \in DOMAIN rows |-> EncodeRow(mode, columns, rows[i])]


\* slug_for: a name that is taken is given with the next free number behind it.
NextSlug(used, base) ==
    LET Numbered(n) == base \o <<"-", ToString(n)>>
    IN  IF base \notin used THEN base
        ELSE Numbered(Min({n \in 2 .. Cardinality(used) + 2 : Numbered(n) \notin used}))

\* PerRowWriter: the file names and what is in them, in the order of the rows.
\* Without its key among the columns a row is named after its number.
WritePerRow(mode, columns, key, rows) ==
    LET positions == [i \in DOMAIN key |-> SelectInSeq(columns, LAMBDA c : c.name = key[i])]
        Slug(i) ==
            IF key = <<>> \/ Contains(positions, 0) THEN <<Two(i - 1)>>
            ELSE FlattenSeq([k \in DOMAIN key |->
                    (IF k = 1 THEN <<>> ELSE <<"-">>) \o ToSlug(rows[i][positions[k]])])
        slugs[i \in 0 .. Len(rows)] ==
            IF i = 0 THEN <<>>
            ELSE Append(slugs[i - 1], NextSlug(ToSet(slugs[i - 1]), Slug(i)))
        \* a file that is written again holds the later row
        Holds(name) == SelectLastInSeq(slugs[Len(rows)], LAMBDA s : s = name)
    IN  [name \in ToSet(slugs[Len(rows)]) |-> EncodeRow(mode, columns, rows[Holds(name)])]

-----------------------------------------------------------------------------
(* Reading. *)

\* What JSON takes for a number (external): no zero in front, digits on both
\* sides of a point.
IsJsonNumber(s) ==
    LET body == Strip({"-"}, s)
    IN  \/ s \in {<<f>> : f \in Finite}
        \/ /\ IsPlain(body)
           /\ body[1] \in Digits /\ Last(body) \in Digits
           /\ body[1] = "0" => Len(body) = 1 \/ body[2] = "."

\* The text of an escaped string (external).
Unescaped(s) ==
    LET escaped[i \in 0 .. Len(s)] == IF i = 0 THEN FALSE ELSE s[i] = "\\" /\ ~escaped[i - 1]
        Meant(i) == CASE escaped[i]          -> <<>>
                      [] ~escaped[i - 1]     -> <<s[i]>>
                      [] s[i] = "n"          -> <<"\n">>
                      [] s[i] = "r"          -> <<"\r">>
                      [] s[i] = "t"          -> <<"\t">>
                      [] OTHER               -> <<s[i]>>
    IN  FlattenSeq([i \in DOMAIN s |-> Meant(i)])

\* serde_json accepts the value.
IsValid(j) == CASE j[1] = "number" -> IsJsonNumber(j[2])
                [] j[1] = "string" -> ToSet(j[2]) \cap {"\n", "\r", "\t"} = {}
                [] OTHER -> TRUE

\* decode_value: a string in a JSON column is the document it spells; numbers
\* and booleans stand for each other.
DecodeValue(class, j) ==
    LET s == CASE j[1] = "string" -> Unescaped(j[2])
               [] j[1] = "bool" -> IF class \in {"Int", "Decimal", "Float"}
                                   THEN (IF j[2] THEN <<"1">> ELSE <<"0">>)
                                   ELSE (IF j[2] THEN <<"true">> ELSE <<"false">>)
               [] OTHER -> j[2]
    IN  CASE j[1] = "null" -> Null
          [] class \in {"Json", "Jsonb"} ->
                CASE j[1] = "nested" -> <<"Json", WriteJson(j[2], class = "Jsonb")>>
                  [] IsDocument(s)   -> <<"Json", s[1]>>
                  [] OTHER           -> Error  \* a text that spells no document: bound
          [] j[1] = "nested" -> Error
          [] OTHER -> Parse(class, s)

\* decode_row: a column that is not there is null, one too many an error.
DecodeRow(target, columns, members) ==
    LET Cell(col) == LET i == SelectInSeq(members, LAMBDA m : m[1] = col.name)
                     IN  IF i = 0 THEN Null ELSE DecodeValue(ClassOf(target, col), members[i][2])
    IN  IF \E i \in DOMAIN members :
              \/ ~IsValid(members[i][2])
              \/ \A k \in DOMAIN columns : columns[k].name # members[i][1]
        THEN Error ELSE [k \in DOMAIN columns |-> Cell(columns[k])]

DecodeRows(target, columns, lines) ==
    AllRead([i \in DOMAIN lines |-> DecodeRow(target, columns, lines[i])])

\* read_jsonl
ReadLines(target, columns, lines) == DecodeRows(target, columns, lines)

\* read_per_row: by file name; which of two names is first is left open here.
ReadPerRow(target, columns, files) ==
    LET names == SetToSeq(DOMAIN files)
    IN  DecodeRows(target, columns, [i \in DOMAIN names |-> files[names[i]]])
=============================================================================
