---------------------------- MODULE MCBucketSync ----------------------------
(***************************************************************************)
(* Instances of BucketSync: a bucket with two objects and a placeholder,   *)
(* one object in a folder, listed in pages of two, and another bucket.     *)
(***************************************************************************)
EXTENDS BucketSync, TLC

FolderOfKeys == 1 :> Root @@ 2 :> Root @@ 4 :> 3
Sizes == 1 :> 1 @@ 2 :> 1 @@ 3 :> 2

Holds(a, b, c) == 1 :> a @@ 2 :> b @@ 4 :> c
Live(n, o) == [exists |-> TRUE, limit |-> n, objects |-> o]
Two(a, b) == 1 :> a @@ 2 :> b

NoDirectory == [objects |-> Empty, manifest |-> {}]
Recorded(m) == [objects |-> m, manifest |-> {m}]
Locked(n, m) == {[limit |-> n, bytes |-> Bytes(m)]}

\* To export, over what was exported before: objects of several sizes.
ToExport ==
    {[project |-> Two(Live(9, Holds(a, 1, c)), Live(2, Holds(1, None, None))),
      dirs |-> Two(Recorded(Holds(2, None, 2)), NoDirectory),
      lock |-> NoEntries] : a \in {1, 3}, c \in {None, 1}}

\* To load: from a folder as it was checked out, under its lock or another, into
\* a bucket that takes the largest object or does not.
ToLoad ==
    {[project |-> Two(Live(n, Holds(1, 1, None)), Live(2, Empty)),
      dirs |-> Two(Recorded(Holds(2, None, 3)), Recorded(Holds(None, None, 1))),
      lock |-> Two(l, Locked(2, Holds(None, None, 1)))] :
        n \in {1, 9}, l \in {{}, Locked(9, Holds(1, None, 1)), Locked(9, Holds(2, None, 3))}}

ToExportOrLoad == ToExport \cup ToLoad

Ask(command, selected, prefix, dry, force) ==
    [command |-> command, selected |-> selected, prefix |-> prefix,
     dryRun |-> dry, force |-> force]

Asked ==
    {Ask("export", {1, 2}, Root, FALSE, FALSE), Ask("export", {1}, 3, FALSE, TRUE),
     Ask("load", {1}, Root, TRUE, TRUE), Ask("load", {1, 2}, Root, FALSE, FALSE),
     Ask("load", {1}, Root, FALSE, TRUE), Ask("load", {}, Root, FALSE, FALSE)}
=============================================================================
