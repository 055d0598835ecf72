---------------------------- MODULE MCSeedFolder ----------------------------
(***************************************************************************)
(* Instances of SeedFolder: two tables, the rows of the second, which has  *)
(* a file for each row, referring to the first; and a bucket.              *)
(***************************************************************************)
EXTENDS SeedFolder, TLC

R(k, v, ref) == [id |-> k, ver |-> v, ref |-> ref]
Store(parents, children, blobs) == Bucket :> blobs @@ 1 :> parents @@ 2 :> children

Parents == 1 :> None @@ 2 :> 1

\* A parent with a child; others in their place, as many; more parents, with the
\* child moved to the new one.
SomeDatabases ==
    {Store({R(1, "a", None)}, {R(1, "a", 1)}, {R(1, "a", None)}),
     Store({R(2, "b", None)}, {R(2, "b", 2)}, {R(2, "b", None)}),
     Store({R(1, "b", None), R(2, "a", None)}, {R(1, "b", 2), R(2, "a", None)},
           {R(1, "b", None), R(2, "a", None)})}

Ask(live, selected, filter, noFkCheck, followParents, buckets) ==
    [live |-> live, selected |-> selected, filter |-> filter, noFkCheck |-> noFkCheck,
     followParents |-> followParents, buckets |-> buckets]

Every == 1 :> Keys @@ 2 :> Keys
FirstParent == 1 :> {1} @@ 2 :> Keys

\* Everything; through a filter, checked, pulled in and unchecked; one table;
\* a table that is gone.
SomeRequests ==
    {Ask(Tables, Tables, Every, FALSE, FALSE, TRUE),
     Ask(Tables, Tables, FirstParent, FALSE, FALSE, FALSE),
     Ask(Tables, Tables, FirstParent, FALSE, TRUE, FALSE),
     Ask(Tables, Tables, FirstParent, TRUE, FALSE, FALSE),
     Ask(Tables, {2}, Every, FALSE, FALSE, FALSE),
     Ask({1}, Tables, Every, FALSE, FALSE, TRUE)}

OnlyEverything == {Ask(Tables, Tables, Every, FALSE, FALSE, b) : b \in BOOLEAN}
=============================================================================
