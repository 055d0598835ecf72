-------------------------- MODULE MCFollowParents ---------------------------
(***************************************************************************)
(* Instances of FollowParents: two tables with every way to refer to each  *)
(* other and to themselves that the keys of a job allow.                   *)
(***************************************************************************)
EXTENDS FollowParents, TLC

R(k, other, v) == [id |-> k, alt |-> other, ref |-> 1 :> v]
Key(c, p, on) == [child |-> c, column |-> 1, parent |-> p, on |-> on]
Two(a, b) == 1 :> a @@ 2 :> b

\* The contents of a table with these keys, where a row refers to one row at most.
Contents(K) == {{R(k, k, f[k]) : k \in K} : f \in [K -> Keys \cup {None}]}

Parents == Contents({1, 2, 3}) \cup Contents({1, 2})
Children == {{R(1, 1, v), R(2, 2, w)} : v \in {1, 3}, w \in {None, 2, 3}}

\* Child and parent; the same with a self-reference; a cycle; both keys on one
\* column.
SomeForeignKeys ==
    {{Key(2, 1, "id")}, {Key(2, 1, "id"), Key(1, 1, "id")},
     {Key(2, 1, "id"), Key(1, 2, "id")}, {Key(2, 1, "id"), Key(2, 2, "id"), Key(1, 1, "id")}}

\* The first table contributes nothing by itself, the second some of its rows.
Job(fks, configured, limit, d, later) ==
    [fks |-> fks, configured |-> configured, filter |-> Two({}, {1, 2}),
     limit |-> Two(Cardinality(Keys), limit), db |-> d, later |-> later]

Databases == {Two(p, c) : p \in Parents, c \in Children}

Alone ==
    {Job(f, {1, 2}, n, d, {}) : f \in SomeForeignKeys, n \in {1, 2}, d \in Databases}
  \cup {Job(f, {2}, 2, Two({}, c), {}) : f \in SomeForeignKeys, c \in Children}

\* The parents move while they are looked for.
Chain == Two({R(1, 1, 2), R(2, 2, 3), R(3, 3, None)}, {R(1, 1, 1), R(2, 2, 3)})
Turned == Two({R(1, 1, None), R(2, 2, 1), R(3, 3, 2)}, {R(1, 1, 3)})
Emptied == Two({R(3, 3, 1)}, {R(1, 1, 1), R(2, 2, 2)})

Disturbed ==
    {Job(f, {1, 2}, n, d, {Chain, Turned, Emptied} \ {d}) :
        f \in SomeForeignKeys, n \in {1, 2}, d \in {Chain, Turned, Emptied}}

\* A parent that is referred to by another unique column than its primary key.
ByUnique ==
    {Job({Key(2, 1, "alt")}, {1, 2}, 2, Two({R(1, 2, None), R(2, 1, None)}, {R(1, 1, v)}), {}) :
        v \in Keys}
  \cup {Job({Key(2, 1, "alt")}, {1, 2}, 2, Two({R(1, o, None)}, b), {}) :
        o \in {2, 3}, b \in Contents({1, 2})}

AllJobs == Alone \cup Disturbed \cup ByUnique
=============================================================================
