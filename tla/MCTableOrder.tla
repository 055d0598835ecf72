---------------------------- MODULE MCTableOrder ----------------------------
(***************************************************************************)
(* Instances of TableOrder.  Each constant names a family of schemas, one  *)
(* of which is chosen initially, so that one run covers them all.          *)
(***************************************************************************)
EXTENDS TableOrder

Keys(pairs, flag) == {[child |-> e[1], parent |-> e[2], deferrable |-> flag] : e \in pairs}

\* Every graph of keys between distinct tables, none of them deferrable.
AllGraphs ==
    {Keys(E, FALSE) : E \in SUBSET {e \in Tables \X Tables : e[1] # e[2]}}

\* Every way to give each pair of the first three tables no key, a deferrable
\* one, a plain one or both, where table 1 may also reference itself.
AllKeySets ==
    LET pairs == {e \in (1..3) \X (1..3) : e[1] # e[2]}
    IN  {Keys(D, TRUE) \cup Keys(N, FALSE) : D \in SUBSET pairs, N \in SUBSET (pairs \cup {<<1, 1>>})}

AllSchemas == AllGraphs \cup AllKeySets

WholeSchema == {Tables}
AllOrSome == {Tables, Tables \ {1}, {1, 3}}
=============================================================================
