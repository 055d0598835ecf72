----------------------------- MODULE MCLoadTxn ------------------------------
(***************************************************************************)
(* Instances of LoadTxn: families of loads into two tables, where the rows *)
(* of table 2 refer to rows of table 1.                                    *)
(***************************************************************************)
EXTENDS LoadTxn, TLC

R(k, v, refs) == [id |-> k, ver |-> v, refs |-> refs]
Old(k) == R(k, "old", {})
New(k) == R(k, "new", {})
OldChild(k, p) == R(k, "old", {<<1, p>>})
NewChild(k, p) == R(k, "new", {<<1, p>>})

Two(a, b) == (1 :> a) @@ (2 :> b)

ParentsFirst == Two(1, 2)

\* Nothing; parents only; a child; a child whose parent the seed files lack.
Befores == {Two({}, {}),
            Two({Old(1), Old(2)}, {}),
            Two({Old(1), Old(3)}, {OldChild(1, 1)}),
            Two({Old(3)}, {OldChild(2, 3)})}

\* One chunk, a chunk and a remainder of one, a full chunk twice; rows that
\* refer across chunks, to a parent only the database has, and to none at all.
Seeds == {Two(<<New(1), New(2)>>, <<NewChild(1, 2)>>),
          Two(<<New(2), New(1)>>, <<NewChild(3, 1), NewChild(1, 2), NewChild(2, 2)>>),
          Two(<<New(1)>>, <<NewChild(1, 1), NewChild(2, 3)>>),
          Two(<<New(1), New(2), New(3)>>, <<>>)}

AllModes == {Two(m, n) : m \in Modes, n \in Modes}

\* The loads of one choice of everything but the flags.
Flagged(e, b, s, m, p, n, dry, notx) ==
    [engine |-> e, before |-> b, seed |-> s, mode |-> m, planned |-> p,
     place |-> ParentsFirst, cycle |-> "none", batch |-> n, bindRows |-> 5,
     readOnly |-> FALSE, local |-> TRUE, yes |-> TRUE, dryRun |-> dry,
     noTransaction |-> notx, fixSequences |-> TRUE, buckets |-> TRUE]

\* Loads in a transaction, without INSERT IGNORE of rows that lack a parent.
InTransaction ==
    {j \in {Flagged(e, b, s, m, p, n, FALSE, FALSE) :
               e \in Engines, b \in Befores, s \in Seeds, m \in AllModes,
               p \in {{1, 2}, {2}}, n \in {1, 2}} :
        j.engine = "mysql" /\ j.mode[2] = "skip_existing" => Closed(Loaded(j))}

\* Loads outside a transaction.
Autocommitted ==
    {j \in {Flagged(e, b, s, m, p, n, FALSE, TRUE) :
               e \in Engines, b \in Befores, s \in Seeds, m \in AllModes,
               p \in {{1, 2}, {2}}, n \in {1, 2}} :
        j.engine = "mysql" /\ j.mode[2] = "skip_existing" => Closed(Loaded(j))}

\* Every combination of flags, with a target that has rows to lose and a seed
\* file that may hold a key twice.
AnyFlags ==
    {[Flagged(e, Two({Old(1), Old(3)}, {OldChild(1, 1)}), s, m, p, 2, dry, notx)
        EXCEPT !.readOnly = ro, !.local = here, !.yes = yes, !.fixSequences = fix,
               !.buckets = fix] :
        e \in Engines,
        s \in {Two(<<New(1), New(2)>>, <<NewChild(1, 2)>>),
               Two(<<New(1)>>, <<NewChild(2, 1), NewChild(2, 1)>>)},
        m \in AllModes, p \in {{1, 2}, {2}, {}}, dry \in BOOLEAN, notx \in BOOLEAN,
        ro \in BOOLEAN, here \in BOOLEAN, yes \in BOOLEAN, fix \in BOOLEAN}

\* Two tables whose rows refer to each other.
ToOther(t, k, v, p) == R(k, v, {<<3 - t, p>>})

Cyclic ==
    {[Flagged(e, b, s, m, p, n, FALSE, FALSE) EXCEPT !.cycle = c] :
        e \in Engines, c \in {"deferrable", "plain"}, n \in {1, 2},
        b \in {Two({}, {}), Two({ToOther(1, 1, "old", 1)}, {ToOther(2, 1, "old", 1)})},
        s \in {Two(<<ToOther(1, 1, "new", 1)>>, <<ToOther(2, 1, "new", 1)>>),
               Two(<<ToOther(1, 1, "new", 2), ToOther(1, 2, "new", 2)>>,
                   <<ToOther(2, 2, "new", 1)>>),
               Two(<<ToOther(1, 1, "new", 3), New(2)>>, <<ToOther(2, 2, "new", 1)>>)},
        m \in {mm \in AllModes : mm[1] = mm[2]}, p \in {{1, 2}, {1}}}

\* Rows of table 1 that refer to rows of table 1: to earlier ones of the file, to
\* later ones or to themselves; without INSERT IGNORE of a row before its parent.
OldOf(k, p) == R(k, "old", {<<1, p>>})
NewOf(k, p) == R(k, "new", {<<1, p>>})

SelfReferring ==
    {j \in {Flagged(e, b, s, m, {1, 2}, n, FALSE, FALSE) :
               e \in Engines, m \in {mm \in AllModes : mm[1] = mm[2]}, n \in {1, 2, 3},
               b \in {Two({}, {}), Two({OldOf(2, 3), Old(3)}, {}), Two({Old(1), OldOf(2, 1)}, {}),
                      Two({OldOf(3, 3), OldOf(1, 3)}, {OldChild(1, 1)})},
               s \in {Two(<<New(1), NewOf(2, 1), NewOf(3, 2)>>, <<NewChild(1, 3)>>),
                      Two(<<New(3), NewOf(2, 3), NewOf(1, 3)>>, <<>>),
                      Two(<<NewOf(1, 1), NewOf(2, 1)>>, <<NewChild(1, 2)>>),
                      Two(<<NewOf(2, 3), NewOf(1, 2), New(3)>>, <<NewChild(1, 2)>>)}} :
        j.engine = "mysql" /\ j.mode[1] = "skip_existing" =>
            /\ Closed(Loaded(j))
            /\ \A i \in DOMAIN j.seed[1] : \A x \in j.seed[1][i].refs :
                 \E k \in 1..i : j.seed[1][k].id = x[2]}

InTransactionOrCyclic == InTransaction \cup Cyclic \cup SelfReferring

\* Loads outside a transaction, and loads under every combination of flags.
AutocommittedOrFlagged == Autocommitted \cup AnyFlags
=============================================================================
