---------------------------- MODULE OrderedSets -----------------------------
(***************************************************************************)
(* Sets of numbered things in their order: tables by name, objects and     *)
(* folders as a service lists them, documents by their ids.                *)
(***************************************************************************)
EXTENDS Integers, Sequences, FiniteSets, Functions

\* The members of a set, the smallest first.
Ascending(S) ==
    CHOOSE s \in [1..Cardinality(S) -> S] :
        \A i, j \in 1..Cardinality(S) : i < j => s[i] < s[j]

\* How many members come before x.
Rank(S, x) == Cardinality({y \in S : y < x})
=============================================================================
