------------------------------- MODULE Values -------------------------------
(***************************************************************************)
(* The canonical values between a database and a seed file (value.rs):     *)
(* `parse` reads the text an engine or a file holds as a value of the      *)
(* column's class, `to_text` writes the value down again.                  *)
(*                                                                         *)
(* A text is a sequence of characters.  A character is a string, and may   *)
(* stand for a piece that no rule looks into: "2024-01", a JSON document,  *)
(* the digits of a number between a sign and a point.  A value is a pair   *)
(* of its kind and its content; a timestamp is a number of minutes (bound: *)
(* whole half hours of one month, without fractions of a second).          *)
(***************************************************************************)
EXTENDS Integers, SequencesExt, FiniteSetsExt, TLC

CONSTANT Error   \* what an operator is that returns an error (bail): no value

Null == <<"Null">>

IsNull(v) == v = Null

\* The rows that were read, or Error as soon as one of them, or a value, is wrong.
AllRead(rows) ==
    IF \E i \in DOMAIN rows : rows[i] = Error \/ Contains(rows[i], Error) THEN Error ELSE rows

Blanks == {" ", "\t", "\n", "\r"}
Digits == {"0", "1", "7"}

\* str::trim
Trim(s) ==
    LET kept == {i \in DOMAIN s : s[i] \notin Blanks}
    IN  IF kept = {} THEN <<>> ELSE SubSeq(s, Min(kept), Max(kept))

\* The first character is dropped if it is one of P (strip_prefix).
Strip(P, s) == IF s # <<>> /\ Head(s) \in P THEN Tail(s) ELSE s

-----------------------------------------------------------------------------
(* Booleans, numbers, bytes. *)

ParseBool(t) ==
    CASE t \in {<<"t">>, <<"true">>, <<"TRUE">>, <<"1">>}   -> <<"Bool", TRUE>>
      [] t \in {<<"f">>, <<"false">>, <<"FALSE">>, <<"0">>} -> <<"Bool", FALSE>>
      [] OTHER -> Error

\* A whole number keeps its digits, without leading zeros.
Leading(digits) ==
    LET first == {i \in DOMAIN digits : digits[i] # "0" \/ i = Len(digits)}
    IN  SubSeq(digits, Min(first), Len(digits))

ParseInt(t) ==
    LET digits == Strip({"-", "+"}, t)
    IN  IF digits = <<>> \/ ~ToSet(digits) \subseteq Digits THEN Error
        ELSE <<"Int", (IF Head(t) = "-" THEN <<"-">> ELSE <<>>) \o Leading(digits)>>

\* Digits around at most one point.
IsPlain(s) ==
    /\ ToSet(s) \subseteq Digits \cup {"."}
    /\ ToSet(s) \cap Digits # {}
    /\ Cardinality({i \in DOMAIN s : s[i] = "."}) <= 1

IsExponent(s) ==
    LET digits == Strip({"-", "+"}, s)
    IN  digits # <<>> /\ ToSet(digits) \subseteq Digits

\* validate_decimal
IsDecimal(s) ==
    LET body == Strip({"-", "+"}, s)
    IN  \/ s = <<"NaN">>
        \/ IsPlain(body)
        \/ \E e \in DOMAIN body :
              /\ body[e] = "e"
              /\ IsPlain(SubSeq(body, 1, e - 1))
              /\ IsExponent(SubSeq(body, e + 1, Len(body)))

ParseDecimal(t) == IF IsDecimal(t) THEN <<"Decimal", t>> ELSE Error

\* Floats: the shortest text that reads back (ryu), with ".0" if it is whole.
Finite == {"1.0", "0.5"}

FormatFloat(f) == IF f = "1.0" THEN <<"1">> ELSE <<f>>

ParseFloat(t) ==
    CASE t \in {<<"NaN">>, <<"nan">>} -> <<"Float", "NaN">>
      [] t \in {<<"Infinity">>, <<"inf">>, <<"Inf">>} -> <<"Float", "Infinity">>
      [] t \in {<<"-Infinity">>, <<"-inf">>, <<"-Inf">>} -> <<"Float", "-Infinity">>
      [] \E f \in Finite : t \in {<<f>>, FormatFloat(f)} ->
            <<"Float", CHOOSE f \in Finite : t \in {<<f>>, FormatFloat(f)}>>
      [] OTHER -> Error

\* Bytes, each written as two hexadecimal digits.
Bytes    == {0, 10, 255}
HexLower == (0 :> "00") @@ (10 :> "0a") @@ (255 :> "ff")
HexUpper == (0 :> "00") @@ (10 :> "0A") @@ (255 :> "FF")

Hex(form, b) == [i \in DOMAIN b |-> form[b[i]]]

ParseBytes(t) ==
    LET hex == Strip({"\\x", "0x"}, t)
        Byte(c) == {b \in Bytes : c \in {HexLower[b], HexUpper[b]}}
    IN  IF \E i \in DOMAIN hex : Byte(hex[i]) = {} THEN Error
        ELSE <<"Bytes", [i \in DOMAIN hex |-> CHOOSE b \in Bytes : b \in Byte(hex[i])]>>

ParseUuid(t) == IF t \in {<<"uuid">>, <<"UUID">>} THEN <<"Uuid", "uuid">> ELSE Error

-----------------------------------------------------------------------------
(* JSON documents, each a single character: with its keys in and out of    *)
(* order, an empty array, a string, and null.                              *)

Composite == {"{a,b}", "{b,a}", "[]"}
Documents == Composite \cup {"'s'", "null"}

\* Documents that differ only in the order of their keys.
SortedDoc(d) == IF d = "{b,a}" THEN "{a,b}" ELSE d

IsDocument(s) == Len(s) = 1 /\ s[1] \in Documents

ParseJson(s) == IF IsDocument(s) THEN <<"Json", s[1]>> ELSE Error

-----------------------------------------------------------------------------
(* Dates and times. *)

Days  == 1 .. 28
Clock == {30 * i : i \in 0 .. 47}
Two(n) == IF n < 10 THEN "0" \o ToString(n) ELSE ToString(n)

Number == [c \in {Two(n) : n \in 0 .. 59} |-> CHOOSE n \in 0 .. 59 : Two(n) = c]
IsNumber(c) == c \in DOMAIN Number

DateText(d) == <<"2024-01", "-", Two(d)>>
TimeText(m) == <<Two(m \div 60), ":", Two(m % 60)>>
DateOf(n)   == n \div 1440
TimeOf(n)   == n % 1440

\* The days and the minutes a text can mean: at most one.
DaysOf(t)    == {d \in Days : t = DateText(d)}
MinutesOf(t) == {m \in Clock : t = TimeText(m)}

\* A text with its last sign at the given place, and what is left of it and from
\* it on.  A minus is the sign of an offset only behind a time of day.
SplitAt(s, at) ==
    CASE s[at] = "Z" /\ at = Len(s) -> <<SubSeq(s, 1, at - 1), <<"+", "00">>>>
      [] s[at] = "+" \/ (s[at] = "-" /\ Contains(SubSeq(s, 1, at - 1), ":")) ->
            <<SubSeq(s, 1, at - 1), SubSeq(s, at, Len(s))>>
      [] OTHER -> <<s, <<>>>>

\* strip_offset: the sign is the last character that is no digit and no colon.
StripOffset(s) ==
    LET signs == {i \in DOMAIN s : ~IsNumber(s[i]) /\ s[i] # ":"}
    IN  IF signs = {} THEN <<s, <<>>>> ELSE SplitAt(s, Max(signs))

\* Mutated form: the sign is only taken for the hours.
ParseOffset_HoursOnly(off) ==
    (IF off[1] = "-" THEN -1 ELSE 1) * 60 * Number[off[2]]
       + (IF Len(off) = 4 THEN Number[off[4]] ELSE 0)

\* parse_offset_seconds, in minutes
ParseOffset(off) ==
    (IF off[1] = "-" THEN -1 ELSE 1)
       * (60 * Number[off[2]] + (IF Len(off) = 4 THEN Number[off[4]] ELSE 0))

Minutes(off) == IF off = <<>> THEN 0 ELSE ParseOffset(off)

\* naive_dt_exact: a date with a time behind a blank or a T, or a date alone.
NaiveExact(t) ==
    IF Len(t) = 3 THEN {1440 * d : d \in DaysOf(t)}
    ELSE IF Len(t) = 7 /\ t[4] \in {" ", "T"}
    THEN {1440 * d + m : d \in DaysOf(SubSeq(t, 1, 3)), m \in MinutesOf(SubSeq(t, 5, 7))}
    ELSE {}

\* parse_naive_dt: an offset is folded into UTC.
ParseNaive(t) ==
    LET Shifted(split) == {n - Minutes(split[2]) : n \in NaiveExact(split[1])}
    IN  IF NaiveExact(t) # {} THEN NaiveExact(t) ELSE Shifted(StripOffset(t))

\* parse_dt_tz: without an offset the text is UTC, as the session is.
ParseZoned(t) ==
    LET Shifted(split) == {n - Minutes(split[2]) : n \in ParseNaive(Trim(split[1]))}
    IN  Shifted(StripOffset(t))

One(kind, S) == IF S = {} THEN Error ELSE <<kind, CHOOSE n \in S : TRUE>>

-----------------------------------------------------------------------------
\* Value::parse.  The text of an SQL null is Null.
Parse(class, s) ==
    IF s = Null THEN Null
    ELSE CASE class = "Bool"    -> ParseBool(Trim(s))
           [] class = "Int"     -> ParseInt(Trim(s))
           [] class = "Float"   -> ParseFloat(Trim(s))
           [] class = "Decimal" -> ParseDecimal(Trim(s))
           [] class = "Text"    -> <<"Text", s>>
           [] class = "Bytes"   -> ParseBytes(Trim(s))
           [] class = "Uuid"    -> ParseUuid(Trim(s))
           [] class \in {"Json", "Jsonb"}   -> ParseJson(s)
           [] class = "Date"    -> One("Date", DaysOf(Trim(s)))
           [] class \in {"Time", "Timetz"}  -> One("Time", MinutesOf(StripOffset(Trim(s))[1]))
           [] class = "Timestamp"   -> One("Timestamp", ParseNaive(Trim(s)))
           [] class = "Timestamptz" -> One("Timestamptz", ParseZoned(Trim(s)))
           [] OTHER -> <<"Raw", s>>

\* Value::to_text
ToText(v) ==
    CASE v[1] = "Null"  -> Null
      [] v[1] = "Bool"  -> IF v[2] THEN <<"true">> ELSE <<"false">>
      [] v[1] = "Float" -> FormatFloat(v[2])
      [] v[1] = "Bytes" -> <<"\\x">> \o Hex(HexLower, v[2])
      [] v[1] \in {"Uuid", "Json"} -> <<v[2]>>
      [] v[1] = "Date"  -> DateText(v[2])
      [] v[1] = "Time"  -> TimeText(v[2])
      [] v[1] = "Timestamp"   -> DateText(DateOf(v[2])) \o <<"T">> \o TimeText(TimeOf(v[2]))
      [] v[1] = "Timestamptz" ->
            DateText(DateOf(v[2])) \o <<"T">> \o TimeText(TimeOf(v[2])) \o <<"Z">>
      [] OTHER -> v[2]

-----------------------------------------------------------------------------
Lower == [c \in {"A", "B"} |-> IF c = "A" THEN "a" ELSE "b"]
Kept  == {"a", "b", "0", "1", "2", "3", "7", "-", "_"} \cup DOMAIN Number

\* Value::to_slug: lower case, a dash for anything that is not plain, no dashes
\* in a row or at an end.  (The short hash behind a long slug is left out.)
ToSlug(v) ==
    LET Plain(c) == IF c \in DOMAIN Lower THEN Lower[c] ELSE IF c \in Kept THEN c ELSE "-"
        Push(out, c) ==
            IF Plain(c) = "-" /\ (out = <<>> \/ Last(out) = "-") THEN out
            ELSE Append(out, Plain(c))
        Ended(slug) ==
            IF slug = <<>> THEN <<"empty">>
            ELSE IF Last(slug) = "-" THEN Front(slug) ELSE slug
    IN  IF v = Null THEN <<"null">> ELSE Ended(FoldLeft(Push, <<>>, ToText(v)))
=============================================================================
