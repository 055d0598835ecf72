------------------------------ MODULE DataDiff ------------------------------
(***************************************************************************)
(* What a load would change, row by row (diff.rs).  The seed rows are      *)
(* looked up by their keys, a chunk of keys to a query, and compared       *)
(* column by column in canonical form.                                     *)
(*                                                                         *)
(* A table holds a set of rows, each the sequence of what the engine has   *)
(* stored for the columns.                                                 *)
(***************************************************************************)
EXTENDS Selection

CanonicalText(v) == IF v[1] = "Json" THEN <<SortedDoc(v[2])>> ELSE ToText(v)

KeyOf(row, at) == [i \in DOMAIN at |-> CanonicalText(row[at[i]])]

\* The texts the engine prints for the key of a stored row.
PrintedKey(e, stored, at) == [i \in DOMAIN at |-> Printed(e, stored[at[i]])]

\* A stored row as values, as an export reads it too.
ReadStored(e, columns, stored) ==
    [k \in DOMAIN columns |-> Parse(ClassOf(e, columns[k]), Printed(e, stored[k]))]

\* Mutated form: the first chunk of keys only.
FetchLive_FirstChunk(e, columns, at, n, keys, db) ==
    LET asked == {keys[i] : i \in 1 .. Min({n, Len(keys)})}
    IN  {ReadStored(e, columns, stored) : stored \in {r \in db : Selects(asked, PrintedKey(e, r, at))}}

\* fetch_live: the live rows that have one of the keys, n keys to a query.
FetchLive(e, columns, at, n, keys, db) ==
    LET Chunk(c) == {keys[i] : i \in n * c + 1 .. Min({n * (c + 1), Len(keys)})}
        Query(c) == {r \in db : Selects(Chunk(c), PrintedKey(e, r, at))}
    IN  {ReadStored(e, columns, stored) :
            stored \in UNION {Query(c) : c \in 0 .. (Len(keys) - 1) \div n}}

Moved(columns, want, have) ==
    {columns[k].name : k \in {k \in DOMAIN columns :
                                 CanonicalText(want[k]) # CanonicalText(have[k])}}

Unkeyed == [rows |-> <<>>, removed |-> {}, unkeyed |-> TRUE]

\* table_diff.  A change is "Added", or the set of the columns that moved.
TableDiff(e, columns, key, mode, n, rows, db) ==
    LET at    == Positions(columns, key)
        keys  == [i \in DOMAIN rows |-> KeyOf(rows[i], at)]
        live  == FetchLive(e, columns, at, n, keys, db)
        Same(k)   == {r \in live : KeyOf(r, at) = k}
        Change(i) == IF Same(keys[i]) = {} THEN <<"Added">>
                     ELSE <<"Moved", Moved(columns, rows[i], CHOOSE r \in Same(keys[i]) : TRUE)>>
    IN  IF key = <<>> \/ Contains(at, 0) THEN Unkeyed
        ELSE IF \E r \in live : Contains(r, Error) THEN Error
        ELSE [rows    |-> [i \in DOMAIN rows |-> [key |-> keys[i], change |-> Change(i)]],
              \* live_keys: compared as the engine prints them
              removed |-> IF mode # "truncate_first" THEN {}
                          ELSE {PrintedKey(e, r, at) : r \in db} \ ToSet(keys),
              unkeyed |-> FALSE]

AddedKeys(diff)   == {r.key : r \in {x \in ToSet(diff.rows) : x.change = <<"Added">>}}
UpdatedKeys(diff) == {r.key : r \in {x \in ToSet(diff.rows) :
                                        x.change # <<"Added">> /\ x.change[2] # {}}}

IsNoop(diff) == AddedKeys(diff) = {} /\ UpdatedKeys(diff) = {} /\ diff.removed = {}
=============================================================================
