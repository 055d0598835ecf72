----------------------------- MODULE AtomicLoad -----------------------------
(***************************************************************************)
(* What README promises of `graine load`: it "runs inside a single         *)
(* transaction by default, so a failure part-way through leaves the        *)
(* database exactly as it was".  Seen from outside, the rows change once,  *)
(* from what they were to everything the seed files ask for, or never.     *)
(***************************************************************************)
EXTENDS SeedMerge

VARIABLES
    job,    \* the load (input)
    rows,   \* the rows every other session sees
    fate    \* "pending", then "committed" or "discarded"

vars == <<job, rows, fate>>

Init ==
    /\ job \in JobType
    /\ rows = job.before
    /\ fate = "pending"

Commit ==
    /\ fate = "pending"
    /\ ~job.dryRun
    /\ rows' = Loaded(job)
    /\ fate' = "committed"
    /\ UNCHANGED job

Discard ==
    /\ fate = "pending"
    /\ fate' = "discarded"
    /\ UNCHANGED <<job, rows>>

Next == Commit \/ Discard

Spec == Init /\ [][Next]_vars
=============================================================================
