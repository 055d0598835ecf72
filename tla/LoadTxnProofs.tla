--------------------------- MODULE LoadTxnProofs ----------------------------
(***************************************************************************)
(* Proofs about LoadTxn, for any tables, keys, jobs and sizes of a batch.  *)
(*                                                                         *)
(* The first part shows that a load in a transaction is atomic: it either  *)
(* leaves the target as it was or has loaded every planned table.  The     *)
(* second is about what a load leaves behind, in a transaction or without  *)
(* one: foreign keys, the keys generated next, what a second load makes of *)
(* it, who agreed to it, and which loads cannot fail.                      *)
(***************************************************************************)
EXTENDS LoadTxn, SequenceTheorems, WellFoundedInduction, TLAPS

-----------------------------------------------------------------------------
(* Facts about the data. *)

LEMMA FieldTypes ==
    ASSUME NEW j \in Jobs
    PROVE  /\ j \in JobType
           /\ j.before \in Store
           /\ j.seed \in [Tables -> Seq(Row)]
           /\ j.mode \in [Tables -> Modes]
           /\ j.planned \subseteq Tables
           /\ j.place \in [Tables -> Nat] /\ IsInjective(j.place)
           /\ j.batch \in Nat \ {0} /\ j.bindRows \in Nat
BY JobsAssumption, OrderAssumption DEF JobType

LEMMA MergeTyped ==
    ASSUME NEW m, NEW S \in SUBSET Row, NEW T \in SUBSET Row
    PROVE  Merge(m, S, T) \in SUBSET Row
BY DEF Merge

\* A non-empty set of numbers has a smallest element.
LEMMA LeastNumber ==
    ASSUME NEW S, S \subseteq Nat, S # {}
    PROVE  \E n \in S : \A m \in S : n <= m
<1>1. PICK n \in S : \A m \in S : ~ (<<m, n>> \in OpToRel(<, Nat))
  BY WFMin, NatLessThanWellFounded
<1>2. \A m \in S : n <= m
  <2> SUFFICES ASSUME NEW m \in S PROVE n <= m
    OBVIOUS
  <2>1. <<m, n>> \in Nat \X Nat /\ <<m, n>>[1] = m /\ <<m, n>>[2] = n
    OBVIOUS
  <2>2. ~(m < n)
    BY <1>1, <2>1 DEF OpToRel
  <2>. QED  BY <2>1, <2>2
<1>. QED  BY <1>2

\* The key generated next is above the keys of the rows.
LEMMA NextKeyAhead ==
    ASSUME NEW S \in SUBSET Row
    PROVE  NextKey(S) \in Nat \ {0} /\ \A r \in S : r.id < NextKey(S)
<1> DEFINE Above == {n \in Nat \ {0} : \A r \in S : r.id < n}
<1>1. \A r \in S : r.id \in Keys /\ r.id \in Nat \ {0}
  BY SortsAssumption DEF Row
<1>2. Above # {}
  <2>1. PICK max \in Keys \cup {0} : \A k \in Keys : k <= max
    BY SortsAssumption
  <2>2. max \in Nat
    BY <2>1, SortsAssumption
  <2>3. max + 1 \in Above
    BY <1>1, <2>1, <2>2
  <2>. QED  BY <2>3
<1>3. PICK n \in Above : \A m \in Above : n <= m
  BY <1>2, LeastNumber
<1>4. n \in {1} \cup {r.id + 1 : r \in S}
  <2> SUFFICES ASSUME n # 1 PROVE \E r \in S : n = r.id + 1
    OBVIOUS
  <2>1. n - 1 \in Nat \ {0} /\ ~(n <= n - 1) /\ n \in Nat
    OBVIOUS
  <2>2. n - 1 \notin Above
    BY <1>3, <2>1
  <2>3. PICK r \in S : ~(r.id < n - 1)
    BY <2>1, <2>2
  <2>4. r.id < n
    OBVIOUS
  <2>. QED  BY <1>1, <2>1, <2>3, <2>4
<1>5. \A m \in {1} \cup {r.id + 1 : r \in S} : m \in Nat \ {0}
  BY <1>1
<1>. QED  BY <1>4, <1>5 DEF NextKey

-----------------------------------------------------------------------------
(* Facts about chunks. *)

LEMMA Division ==
    ASSUME NEW n \in Nat, NEW p \in Nat \ {0}
    PROVE  (n \div p) \in Nat /\ ((n \div p) + 1) * p \in Nat /\ n < ((n \div p) + 1) * p
OBVIOUS

LEMMA ChunkBounds ==
    ASSUME job \in Jobs, NEW t \in Tables, NEW n \in 1..Len(job.seed[t])
    PROVE  ChunkEnd(t, n) \in n..Len(job.seed[t])
<1>1. Len(job.seed[t]) \in Nat /\ n \in Nat \ {0}
  BY FieldTypes, LenProperties
<1>2. PerBatch \in Nat \ {0}
  BY FieldTypes DEF PerBatch
<1> DEFINE q == (n - 1) \div PerBatch
<1>3. q \in Nat /\ (q + 1) * PerBatch \in Nat /\ n - 1 < (q + 1) * PerBatch
  <2>. HIDE DEF PerBatch
  <2>1. n - 1 \in Nat
    BY <1>1
  <2>. QED  BY <1>2, <2>1, Division
<1>. HIDE DEF q
<1>. QED  BY <1>1, <1>3 DEF ChunkEnd, q

-----------------------------------------------------------------------------
(* Types. *)

\* While a chunk is being retried the row next is one of the table's.
RowsLeft ==
    pc \in {"batch", "undo", "retry"} =>
        \A t \in Tables : First(t) => next <= Len(job.seed[t])

TypeInv == TypeOK /\ job \in Jobs /\ RowsLeft

\* The load order puts no two tables in one place, so one table is first.
LEMMA OneFirst ==
    ASSUME job \in Jobs, todo \subseteq Tables, NEW t, NEW u, First(t), First(u)
    PROVE  t = u
<1>1. job.place[t] \in Nat /\ job.place[u] \in Nat /\ t \in Tables /\ u \in Tables
  BY FieldTypes DEF First
<1>2. job.place[t] = job.place[u]
  BY <1>1 DEF First
<1>. QED  BY <1>1, <1>2, FieldTypes DEF IsInjective

LEMMA RaiseTyped ==
    ASSUME TypeOK, NEW t \in Tables, NEW n \in Nat, Raise(t, n)
    PROVE  seq' \in [Tables -> Nat] /\ mySeq' \in [Tables -> Nat]
BY DEF Raise, TypeOK

LEMMA InsertTyped ==
    ASSUME TypeInv, NEW t \in Tables, NEW s \in Seq(Row), Insert(t, s)
    PROVE  /\ work' \in Store /\ disk' \in Store
           /\ seq' \in [Tables -> Nat] /\ mySeq' \in [Tables -> Nat]
<1>1. RowsTaken(t, s) \in SUBSET Row
  <2>. HIDE DEF Ignored, Swallows
  <2>. QED  BY LenProperties DEF RowsTaken
<1>2. work[t] \in SUBSET Row
  BY DEF TypeInv, TypeOK, Store
<1>3. Merge(job.mode[t], work[t], RowsTaken(t, s)) \in SUBSET Row
  BY <1>1, <1>2, MergeTyped
<1>4. Inserted(t, s) \in Store
  <2>. HIDE DEF Merge, RowsTaken
  <2>. QED  BY <1>3 DEF Inserted, Store, TypeInv, TypeOK
<1>5. work' \in Store /\ disk' \in Store
  BY <1>4 DEF Insert, Write, TypeInv, TypeOK
<1>6. NextKey(Inserted(t, s)[t]) \in Nat
  BY <1>4, NextKeyAhead DEF Store
<1>7. seq' \in [Tables -> Nat] /\ mySeq' \in [Tables -> Nat]
  BY <1>6, RaiseTyped DEF Insert, Generate, counters, TypeInv, TypeOK
<1>. QED  BY <1>5, <1>7

Exits == {"none", "refused", "nothing", "declined", "cycle", "error", "crashed", "ok"}

LEMMA AbortTyped ==
    ASSUME TypeInv, NEW how \in Exits, Abort(how), faults' \in 0..MaxFaults
    PROVE  TypeInv'
BY DEF TypeInv, TypeOK, Abort, Exits, loop, RowsLeft

LEMMA RowTyped ==
    ASSUME TypeInv, NEW t \in Tables, next <= Len(job.seed[t])
    PROVE  OneRow(t) \in Seq(Row)
<1>1. job.seed[t] \in Seq(Row) /\ next \in 1..Len(job.seed[t])
  BY FieldTypes, LenProperties DEF TypeInv, TypeOK
<1>2. job.seed[t][next] \in Row
  BY <1>1, ElementOfSeq
<1>. QED  BY <1>2 DEF OneRow

LEMMA ChunkTyped ==
    ASSUME TypeInv, NEW t \in Tables, next <= Len(job.seed[t])
    PROVE  Chunk(t) \in Seq(Row) /\ ChunkEnd(t, next) + 1 \in Nat \ {0}
<1>1. /\ job.seed[t] \in Seq(Row) /\ Len(job.seed[t]) \in Nat
      /\ next \in 1..Len(job.seed[t])
  BY FieldTypes, LenProperties DEF TypeInv, TypeOK
<1>2. ChunkEnd(t, next) \in next..Len(job.seed[t])
  BY <1>1, ChunkBounds DEF TypeInv
<1>3. \A i \in next..ChunkEnd(t, next) : job.seed[t][i] \in Row
  <2>. HIDE DEF ChunkEnd
  <2>1. \A i \in next..ChunkEnd(t, next) : i \in 1..Len(job.seed[t])
    BY <1>1, <1>2
  <2>. QED  BY <1>1, <2>1, ElementOfSeq
<1>4. next \in Int /\ ChunkEnd(t, next) \in Int /\ ChunkEnd(t, next) + 1 \in Nat \ {0}
  BY <1>1, <1>2
<1>. QED  BY <1>3, <1>4, SubSeqProperties DEF Chunk

LEMMA InitTypeInv == Init => TypeInv
<1> SUFFICES ASSUME Init PROVE TypeInv
  OBVIOUS
<1>1. job \in Jobs /\ job \in JobType /\ job.before \in Store
  BY FieldTypes DEF Init
<1>2. \A t \in Tables : NextKey(job.before[t]) \in Nat
  BY <1>1, NextKeyAhead DEF Store
<1>3. seq \in [Tables -> Nat] /\ mySeq \in [Tables -> Nat]
  BY <1>2 DEF Init
<1>4. /\ pc = "check" /\ accepted = {} /\ exit = "none" /\ txn = "none"
      /\ deferred = FALSE /\ todo = {} /\ next = 1
      /\ committed = FALSE /\ uploaded = FALSE /\ faults = 0
      /\ disk \in Store /\ work \in Store /\ mark \in Store
  BY <1>1 DEF Init
<1>5. TypeOK
  <2>1. faults \in 0..MaxFaults /\ next \in Nat \ {0}
    BY <1>4, MaxFaultsAssumption
  <2>2. accepted \subseteq Tables \cup {NotLocal} /\ todo \subseteq job.planned
    BY <1>4
  <2>3. pc \in {"check"} /\ exit \in {"none"} /\ txn \in {"none"}
    BY <1>4
  <2>. QED  BY <1>1, <1>3, <1>4, <2>1, <2>2, <2>3 DEF TypeOK
<1>. QED
  BY <1>1, <1>4, <1>5 DEF TypeInv, RowsLeft

LEMMA NextTypeInv == TypeInv /\ [Next]_vars => TypeInv'
<1> SUFFICES ASSUME TypeInv, [Next]_vars PROVE TypeInv'
  OBVIOUS
<1>t. /\ job \in JobType /\ job.before \in Store /\ job.planned \subseteq Tables
      /\ todo \subseteq Tables /\ Truncated(job) \subseteq job.planned
  BY FieldTypes DEF TypeInv, TypeOK, Truncated
<1>f. faults \in 0..MaxFaults /\ MaxFaults \in Nat
  BY MaxFaultsAssumption DEF TypeInv, TypeOK
<1>1. ASSUME Refuse \/ NothingToLoad \/ Decline \/ RefuseCycle \/ Crash PROVE TypeInv'
  BY <1>1, <1>f, AbortTyped DEF Refuse, NothingToLoad, Decline, RefuseCycle, Crash, Sound,
     Exits
<1>2. CASE Plan
  BY <1>2 DEF Plan, TypeInv, TypeOK, RowsLeft, store, counters, loop, ending
<1>3. ASSUME NEW r \in Tables \cup {NotLocal}, Accept(r) PROVE TypeInv'
  BY <1>3 DEF Accept, TypeInv, TypeOK, RowsLeft, First, store, counters, loop, ending
<1>4. CASE Begin
  BY <1>4 DEF Begin, TypeInv, TypeOK, RowsLeft, store, counters, loop, ending
<1>5. CASE Defer
  BY <1>5, <1>t DEF Defer, TypeInv, TypeOK, RowsLeft, store, counters, loop, ending
<1>6. ASSUME NEW t \in Tables, Delete(t) PROVE TypeInv'
  <2>1. CASE AcceptsDelete(t)
    <3>1. [work EXCEPT ![t] = {}] \in Store
      BY DEF TypeInv, TypeOK, Store
    <3>2. work' \in Store /\ disk' \in Store
      BY <1>6, <2>1, <3>1 DEF Delete, Write, TypeInv, TypeOK
    <3>. QED
      BY <1>6, <2>1, <3>2 DEF Delete, TypeInv, TypeOK, RowsLeft, counters, ending
  <2>2. CASE ~AcceptsDelete(t)
    BY <1>6, <2>2, <1>f, AbortTyped DEF Delete, Sound, Exits
  <2>. QED  BY <2>1, <2>2
<1>7. CASE AllDeleted
  BY <1>7, <1>t DEF AllDeleted, TypeInv, TypeOK, RowsLeft, store, counters, ending
<1>8. ASSUME NEW t \in Tables, CopyIn(t) PROVE TypeInv'
  <2>1. CASE Accepts(t, job.seed[t])
    <3>1. /\ work' \in Store /\ disk' \in Store
          /\ seq' \in [Tables -> Nat] /\ mySeq' \in [Tables -> Nat]
      BY <1>8, <2>1, FieldTypes, InsertTyped DEF CopyIn, TypeInv
    <3>. QED
      BY <1>8, <2>1, <3>1 DEF CopyIn, TypeInv, TypeOK, RowsLeft, ending
  <2>2. CASE ~Accepts(t, job.seed[t])
    BY <1>8, <2>2, <1>f, AbortTyped DEF CopyIn, Sound, Exits
  <2>. QED  BY <2>1, <2>2
<1>9. ASSUME NEW t \in Tables, InsertSingle(t) PROVE TypeInv'
  <2>1. CASE Accepts(t, OneRow(t))
    <3>1. /\ work' \in Store /\ disk' \in Store
          /\ seq' \in [Tables -> Nat] /\ mySeq' \in [Tables -> Nat]
      BY <1>9, <2>1, RowTyped, InsertTyped DEF InsertSingle
    <3>. QED
      BY <1>9, <2>1, <3>1 DEF InsertSingle, TypeInv, TypeOK, RowsLeft, ending
  <2>2. CASE ~Accepts(t, OneRow(t))
    BY <1>9, <2>2, <1>f, AbortTyped DEF InsertSingle, Sound, Exits
  <2>. QED  BY <2>1, <2>2
<1>10. ASSUME NEW t \in Tables, Savepoint(t) PROVE TypeInv'
  <2>1. CASE job.engine = "postgres" /\ txn = "none"
    BY <1>10, <2>1, <1>f, AbortTyped DEF Savepoint, Sound, Exits
  <2>2. CASE ~(job.engine = "postgres" /\ txn = "none")
    <3>1. next <= Len(job.seed[t])
      <4>1. Len(job.seed[t]) \in Nat /\ next \in Nat
        BY FieldTypes, LenProperties DEF TypeInv, TypeOK
      <4>2. PerBatch \in Nat \ {0} /\ ((next - 1) \div PerBatch + 1) * PerBatch \in Nat
        <5>1. PerBatch \in Nat \ {0}
          BY FieldTypes DEF PerBatch, TypeInv
        <5>2. next - 1 \in Nat
          BY DEF TypeInv, TypeOK
        <5>. HIDE DEF PerBatch
        <5>. QED  BY <5>1, <5>2, Division
      <4>3. next < ChunkEnd(t, next)
        BY <1>10 DEF Savepoint
      <4>. HIDE DEF PerBatch
      <4>. QED  BY <4>1, <4>2, <4>3 DEF ChunkEnd
    <3>2. \A u \in Tables : First(u) => u = t
      BY <1>10, <1>t, OneFirst DEF Savepoint, TypeInv
    <3>3. RowsLeft'
      BY <1>10, <2>2, <3>1, <3>2 DEF Savepoint, RowsLeft, First, loop
    <3>. QED
      BY <1>10, <2>2, <3>3 DEF Savepoint, TypeInv, TypeOK, loop, counters, ending
  <2>. QED  BY <2>1, <2>2
<1>11. ASSUME NEW t \in Tables, InsertBatch(t) PROVE TypeInv'
  <2>1. next <= Len(job.seed[t])
    BY <1>11 DEF InsertBatch, TypeInv, RowsLeft
  <2>2. Chunk(t) \in Seq(Row) /\ ChunkEnd(t, next) + 1 \in Nat \ {0}
    BY <2>1, ChunkTyped
  <2>3. /\ work' \in Store /\ disk' \in Store
        /\ seq' \in [Tables -> Nat] /\ mySeq' \in [Tables -> Nat]
    BY <1>11, <2>2, InsertTyped DEF InsertBatch
  <2>. QED
    BY <1>11, <2>2, <2>3 DEF InsertBatch, TypeInv, TypeOK, RowsLeft, ending
<1>12. ASSUME NEW t \in Tables, BatchFails(t) PROVE TypeInv'
  <2>1. faults' \in 0..MaxFaults
    BY <1>12, <1>f DEF BatchFails
  <2>2. RowsLeft'
    BY <1>12 DEF BatchFails, TypeInv, RowsLeft, First, loop
  <2>. QED
    BY <1>12, <2>1, <2>2 DEF BatchFails, TypeInv, TypeOK, loop, counters, ending
<1>13. CASE RollbackTo
  <2>1. CASE job.engine = "mysql" /\ txn = "none"
    BY <1>13, <2>1, <1>f, AbortTyped DEF RollbackTo, Sound, Exits
  <2>2. CASE ~(job.engine = "mysql" /\ txn = "none")
    BY <1>13, <2>2 DEF RollbackTo, TypeInv, TypeOK, RowsLeft, First, loop, counters, ending
  <2>. QED  BY <2>1, <2>2
<1>14. ASSUME NEW t \in Tables, RetryRow(t) PROVE TypeInv'
  <2>1. next <= Len(job.seed[t])
    BY <1>14 DEF RetryRow, TypeInv, RowsLeft
  <2>2. CASE Accepts(t, OneRow(t))
    <3>1. /\ work' \in Store /\ disk' \in Store
          /\ seq' \in [Tables -> Nat] /\ mySeq' \in [Tables -> Nat]
      BY <1>14, <2>1, <2>2, RowTyped, InsertTyped DEF RetryRow
    <3>2. /\ next' = next + 1 /\ todo' = todo /\ job' = job
          /\ pc' = IF next = ChunkEnd(t, next) THEN "release" ELSE "retry"
      BY <1>14, <2>2 DEF RetryRow
    <3>3. next \in Nat /\ Len(job.seed[t]) \in Nat
      BY FieldTypes, LenProperties DEF TypeInv, TypeOK
    <3>4. ChunkEnd(t, next) \in next..Len(job.seed[t])
      BY <2>1, <3>3, ChunkBounds DEF TypeInv, TypeOK
    <3>5. \A u \in Tables : First(u) => u = t
      BY <1>14, <1>t, OneFirst DEF RetryRow, TypeInv
    <3>6. pc' = "retry" => next + 1 <= Len(job.seed[t])
      BY <3>2, <3>3, <3>4
    <3>7. RowsLeft'
      BY <3>2, <3>5, <3>6 DEF RowsLeft, First
    <3>. QED
      BY <1>14, <2>2, <3>1, <3>2, <3>7 DEF RetryRow, TypeInv, TypeOK, ending
  <2>3. CASE ~Accepts(t, OneRow(t))
    BY <1>14, <2>3, <1>f, AbortTyped DEF RetryRow, Sound, Exits
  <2>. QED  BY <2>2, <2>3
<1>15. CASE Release
  <2>1. CASE job.engine = "mysql" /\ txn = "none"
    BY <1>15, <2>1, <1>f, AbortTyped DEF Release, Sound, Exits
  <2>2. CASE ~(job.engine = "mysql" /\ txn = "none")
    BY <1>15, <2>2 DEF Release, TypeInv, TypeOK, RowsLeft, loop, ending
  <2>. QED  BY <2>1, <2>2
<1>16. ASSUME NEW t \in Tables, TableDone(t) PROVE TypeInv'
  BY <1>16 DEF TableDone, TypeInv, TypeOK, RowsLeft, store, counters, ending
<1>17. CASE AllLoaded
  BY <1>17 DEF AllLoaded, TypeInv, TypeOK, RowsLeft, counters, ending
<1>18. ASSUME NEW t \in Tables, Fixup(t) \/ Alter(t) PROVE TypeInv'
  <2>1. Raise(t, NextKey(work[t])) /\ NextKey(work[t]) \in Nat
    BY <1>18, NextKeyAhead DEF Fixup, Alter, TypeInv, TypeOK, Store
  <2>2. seq' \in [Tables -> Nat] /\ mySeq' \in [Tables -> Nat]
    BY <2>1, RaiseTyped DEF TypeInv
  <2>. QED
    BY <1>18, <2>2 DEF Fixup, Alter, TypeInv, TypeOK, RowsLeft, store, ending
<1>19. CASE AllFixed
  BY <1>19 DEF AllFixed, TypeInv, TypeOK, RowsLeft, store, counters, loop, ending
<1>20. CASE Commit
  <2>1. CASE deferred /\ ~Closed(work)
    BY <1>20, <2>1, <1>f, AbortTyped DEF Commit, Sound, Exits
  <2>2. CASE ~(deferred /\ ~Closed(work))
    BY <1>20, <2>2 DEF Commit, TakeEffect, TypeInv, TypeOK, RowsLeft, loop
  <2>. QED  BY <2>1, <2>2
<1>21. CASE LoseCommitReply
  BY <1>21, <1>f DEF LoseCommitReply, TakeEffect, TypeInv, TypeOK, RowsLeft, loop
<1>22. CASE RollbackDryRun
  BY <1>22 DEF RollbackDryRun, TypeInv, TypeOK, RowsLeft, loop, ending
<1>23. CASE NothingToCommit
  BY <1>23 DEF NothingToCommit, TypeInv, TypeOK, RowsLeft, store, counters, loop, ending
<1>24. CASE Upload
  BY <1>24 DEF Upload, TypeInv, TypeOK, RowsLeft, store, counters
<1>25. CASE Finish
  BY <1>25 DEF Finish, TypeInv, TypeOK, RowsLeft, store, counters, loop
<1>26. CASE StatementFails
  BY <1>26, <1>f, AbortTyped DEF StatementFails, Exits
<1>27. CASE UNCHANGED vars
  BY <1>27 DEF vars, TypeInv, TypeOK, RowsLeft, First
<1>. QED
  BY <1>1, <1>2, <1>3, <1>4, <1>5, <1>6, <1>7, <1>8, <1>9, <1>10, <1>11, <1>12, <1>13,
     <1>14, <1>15, <1>16, <1>17, <1>18, <1>19, <1>20, <1>21, <1>22, <1>23, <1>24, <1>25,
     <1>26, <1>27 DEF Next, Step, Terminated

LEMMA TypeInvHolds == Spec => []TypeInv
BY InitTypeInv, NextTypeInv, PTL DEF Spec

\* Every variable of the load keeps its type, for every job: no chunk runs past
\* the rows of its table and no table outside the plan is ever worked on.
THEOREM TypeCorrect == Spec => []TypeOK
<1>1. TypeInv => TypeOK
  BY DEF TypeInv
<1>. QED  BY <1>1, TypeInvHolds, PTL

-----------------------------------------------------------------------------
(* INSERT IGNORE. *)

\* Row k of s has a parent that is neither there nor inserted before it.
IsOrphan(t, s, I, k) ==
    \E x \in s[k].refs \ {<<t, s[k].id>>} :
        ~Present(work, x) /\ \A i \in 1..(k - 1) : i \in I \/ <<t, s[i].id>> # x

\* INSERT IGNORE decides row by row, and so always decides.
LEMMA SomeAreIgnored ==
    ASSUME NEW t, NEW s \in Seq(Row)
    PROVE  \E I \in SUBSET DOMAIN s : \A k \in DOMAIN s : k \in I <=> IsOrphan(t, s, I, k)
<1> DEFINE Decided(n) == \E I \in SUBSET (1..n) : \A k \in 1..n : k \in I <=> IsOrphan(t, s, I, k)
           Open == {n \in Nat : ~Decided(n)}
<1>1. Open = {}
  <2> SUFFICES ASSUME Open # {} PROVE FALSE
    OBVIOUS
  <2>1. PICK n \in Open : \A m \in Open : n <= m
    BY LeastNumber
  <2>2. Decided(0)
    <3>1. 1..0 = {}
      OBVIOUS
    <3>. QED  BY <3>1
  <2>3. n # 0 /\ n - 1 \in Nat /\ Decided(n - 1)
    <3>1. n # 0
      BY <2>2
    <3>2. n - 1 \in Nat /\ ~(n <= n - 1)
      BY <3>1
    <3>3. n - 1 \notin Open
      BY <2>1, <3>2
    <3>. QED  BY <3>1, <3>2, <3>3
  <2>4. PICK I \in SUBSET (1..(n - 1)) : \A k \in 1..(n - 1) : k \in I <=> IsOrphan(t, s, I, k)
    BY <2>3
  <2> DEFINE J == IF IsOrphan(t, s, I, n) THEN I \cup {n} ELSE I
  <2>5. \A i \in 1..(n - 1) : i \in J <=> i \in I
    OBVIOUS
  <2>6. \A k \in 1..n : IsOrphan(t, s, J, k) <=> IsOrphan(t, s, I, k)
    <3>1. \A k \in 1..n : \A i \in 1..(k - 1) : i \in J <=> i \in I
      <4>1. \A k \in 1..n : \A i \in 1..(k - 1) : i \in 1..(n - 1)
        OBVIOUS
      <4>. QED  BY <2>5, <4>1
    <3>. HIDE DEF J
    <3>. QED  BY <3>1 DEF IsOrphan
  <2>7. \A k \in 1..n : k = n \/ k \in 1..(n - 1)
    OBVIOUS
  <2>8. n \notin I /\ n \in 1..n /\ 1..(n - 1) \subseteq 1..n
    BY <2>3
  <2>9. \A k \in 1..n : k \in J <=> IsOrphan(t, s, J, k)
    <3>. HIDE DEF IsOrphan
    <3>. QED  BY <2>4, <2>5, <2>6, <2>7, <2>8
  <2>10. J \in SUBSET (1..n)
    BY <2>8
  <2>. QED  BY <2>9, <2>10
<1>2. DOMAIN s = 1..Len(s) /\ Len(s) \in Nat
  BY LenProperties
<1>3. Decided(Len(s))
  <2>. HIDE DEF Decided
  <2>. QED  BY <1>1, <1>2
<1>. QED  BY <1>2, <1>3

LEMMA IgnoredFacts ==
    ASSUME NEW t, NEW s \in Seq(Row)
    PROVE  \A k \in DOMAIN s : k \in Ignored(t, s) <=> IsOrphan(t, s, Ignored(t, s), k)
<1> DEFINE Decides(I) == \A k \in DOMAIN s : k \in I <=> IsOrphan(t, s, I, k)
<1>1. Ignored(t, s) = CHOOSE I \in SUBSET DOMAIN s : Decides(I)
  BY DEF Ignored, IsOrphan
<1>2. \E I \in SUBSET DOMAIN s : Decides(I)
  BY SomeAreIgnored
<1>3. Decides(Ignored(t, s))
  <2>. HIDE DEF Decides
  <2>. QED  BY <1>1, <1>2
<1>. QED  BY <1>3

-----------------------------------------------------------------------------
(* The content of the tables, statement by statement. *)

\* Rows written in two statements are as if written in one.
LEMMA MergeTwice ==
    ASSUME NEW m, NEW B, NEW R, NEW T, KeysOf(R) \cap KeysOf(T) = {}
    PROVE  Merge(m, Merge(m, B, R), T) = Merge(m, B, R \cup T)
BY DEF Merge, KeysOf

LEMMA MergeNothing == \A m, B : Merge(m, B, {}) = B
BY DEF Merge, KeysOf

Base(t) == IF t \in Truncated(job) THEN {} ELSE job.before[t]
Rows(t, i, k) == {job.seed[t][x] : x \in i..k}

\* What the table holds once its first k rows are written.
Part(t, k) == Merge(job.mode[t], Base(t), Rows(t, 1, k))

\* How many rows of the table are written.
Written(t) == IF t \notin todo THEN Len(job.seed[t]) ELSE IF First(t) THEN next - 1 ELSE 0

\* The rows of two statements have different keys.
LEMMA RowsApart ==
    ASSUME job \in Jobs, NEW t \in Tables, ~HasDuplicates(job.seed[t]),
           NEW k \in Nat, NEW l \in k..Len(job.seed[t])
    PROVE  KeysOf(Rows(t, 1, k)) \cap KeysOf(Rows(t, k + 1, l)) = {}
<1>1. job.seed[t] \in Seq(Row) /\ Len(job.seed[t]) \in Nat
      /\ DOMAIN job.seed[t] = 1..Len(job.seed[t])
  BY FieldTypes, LenProperties
<1>2. \A i \in 1..k, x \in (k + 1)..l : job.seed[t][i].id # job.seed[t][x].id
  <2> SUFFICES ASSUME NEW i \in 1..k, NEW x \in (k + 1)..l
               PROVE  job.seed[t][i].id # job.seed[t][x].id
    OBVIOUS
  <2>1. i \in 1..Len(job.seed[t]) /\ x \in 1..Len(job.seed[t]) /\ i # x
    BY <1>1
  <2>. QED  BY <1>1, <2>1 DEF HasDuplicates
<1>. QED  BY <1>2 DEF KeysOf, Rows

LEMMA PartGrows ==
    ASSUME job \in Jobs, NEW t \in Tables, ~HasDuplicates(job.seed[t]),
           NEW k \in Nat, NEW l \in k..Len(job.seed[t])
    PROVE  Merge(job.mode[t], Part(t, k), Rows(t, k + 1, l)) = Part(t, l)
<1>1. Len(job.seed[t]) \in Nat
  BY FieldTypes, LenProperties
<1>2. Rows(t, 1, k) \cup Rows(t, k + 1, l) = Rows(t, 1, l)
  <2>1. \A x : x \in 1..l <=> x \in 1..k \/ x \in (k + 1)..l
    BY <1>1
  <2>. QED  BY <2>1 DEF Rows
<1>. QED  BY <1>2, RowsApart, MergeTwice DEF Part

LEMMA PartOfNone == ASSUME NEW t PROVE Part(t, 0) = Base(t)
<1>1. Rows(t, 1, 0) = {}
  BY DEF Rows
<1>. QED  BY <1>1, MergeNothing DEF Part

LEMMA PartOfAll ==
    ASSUME job \in Jobs, NEW t \in job.planned
    PROVE  /\ Rows(t, 1, Len(job.seed[t])) = Range(job.seed[t])
           /\ Part(t, Len(job.seed[t])) = Loaded(job)[t]
<1>1. t \in Tables /\ job.seed[t] \in Seq(Row)
  BY FieldTypes
<1>2. Rows(t, 1, Len(job.seed[t])) = Range(job.seed[t])
  BY <1>1, LenProperties DEF Rows, Range
<1>. QED  BY <1>1, <1>2 DEF Part, Base, Loaded

-----------------------------------------------------------------------------
(* What the load has written so far. *)

\* No INSERT IGNORE, or one that finds the parents of all rows, if need be in the
\* same file further up.
Regular ==
    \/ job.engine = "mysql" => \A t \in job.planned : job.mode[t] # "skip_existing"
    \/ Permitted /\ OwnParentsFirst

Batching == {"batch", "undo", "retry", "release"}
Loading  == Batching \cup {"load"}
InTxn    == Loading \cup {"defer", "delete", "fixup", "commit"}

\* From BEGIN to COMMIT the transaction is there, and only COMMIT commits.
TxnIsOpen ==
    /\ pc \in InTxn /\ ~job.noTransaction => txn \in {"open", "aborted"}
    /\ committed => pc \in {"buckets", "alter", "done"}

PlanIsSound ==
    /\ pc \in InTxn \cup {"confirm"} => \A t \in job.planned : ~HasDuplicates(job.seed[t])
    /\ pc = "delete" => todo \subseteq Truncated(job)

\* Where the loop over the rows stands.
CursorIsSound ==
    /\ pc \in {"check", "confirm", "defer", "delete"} => next = 1
    /\ pc \in Loading =>
         \A t \in Tables : First(t) =>
            next <= Len(job.seed[t]) + 1 /\ (Bulk(t) => next = 1)
    /\ pc \in Batching => \A t \in Tables : First(t) => ~Bulk(t)

\* What this session sees is what it has written so far.
WorkIsSound ==
    /\ pc \in {"check", "confirm", "defer"} => work = job.before
    /\ pc = "delete" =>
         \A t \in Tables :
            work[t] = IF t \in Truncated(job) \ todo THEN {} ELSE job.before[t]
    /\ pc \in Loading =>
         \A t \in Tables :
            work[t] = IF t \in job.planned THEN Part(t, Written(t)) ELSE job.before[t]
    /\ pc \in {"fixup", "commit"} => work = Loaded(job)
    /\ pc \in {"batch", "undo"} => mark = work

IInv == /\ TypeInv
        /\ TxnIsOpen /\ PlanIsSound /\ CursorIsSound /\ WorkIsSound

\* A statement in the transaction leaves what others see alone.
LEMMA WriteKeepsDisk ==
    ASSUME IInv, pc \in InTxn, NEW rows, Write(rows)
    PROVE  (~job.noTransaction => disk' = disk) /\ work' = rows
BY DEF IInv, TxnIsOpen, Write

\* What WorkIsSound says while rows are being written.
WorkSoFar ==
    \A u \in Tables :
        work[u] = IF u \in job.planned THEN Part(u, Written(u)) ELSE job.before[u]

\* s holds the rows from next to l of the file of t, in their order.
IsPortion(t, s, l) ==
    /\ s \in Seq(Row) /\ Len(s) = l - next + 1
    /\ \A i \in 1..(l - next + 1) : s[i] = job.seed[t][next + i - 1]

LEMMA PortionRows ==
    ASSUME TypeInv, NEW t \in Tables, NEW l \in (next - 1)..Len(job.seed[t]),
           NEW s, IsPortion(t, s, l)
    PROVE  /\ DOMAIN s = 1..(l - next + 1)
           /\ Range(s) = Rows(t, next, l)
           /\ Range(s) \subseteq Range(job.seed[t])
<1>1. /\ job \in Jobs /\ job.seed[t] \in Seq(Row) /\ Len(job.seed[t]) \in Nat
      /\ next \in Nat \ {0} /\ l \in Nat
  BY FieldTypes, LenProperties DEF TypeInv, TypeOK
<1>2. DOMAIN s = 1..(l - next + 1)
  BY LenProperties DEF IsPortion
<1>3. Range(s) = {s[i] : i \in 1..(l - next + 1)}
  BY <1>2 DEF Range
<1>4. \A i \in 1..(l - next + 1) : next + i - 1 \in next..l
  BY <1>1
<1>5. \A x \in next..l : x - next + 1 \in 1..(l - next + 1) /\ next + (x - next + 1) - 1 = x
  BY <1>1
<1>6. Range(s) = Rows(t, next, l)
  <2>1. \A i \in 1..(l - next + 1) : s[i] \in Rows(t, next, l)
    BY <1>4 DEF IsPortion, Rows
  <2>2. \A x \in next..l : job.seed[t][x] = s[x - next + 1]
    BY <1>5 DEF IsPortion
  <2>3. \A x \in next..l : job.seed[t][x] \in Range(s)
    BY <1>3, <1>5, <2>2
  <2>. QED  BY <1>3, <2>1, <2>3 DEF Rows
<1>7. \A i \in next..l : i \in DOMAIN job.seed[t]
  BY <1>1, LenProperties
<1>. QED  BY <1>2, <1>6, <1>7 DEF Rows, Range

\* The parents of a row that is new are there when its turn comes, or come with
\* the same statement, not behind it.
LEMMA ParentsAreThere ==
    ASSUME TypeInv, Permitted, OwnParentsFirst, WorkSoFar,
           NEW t \in Tables, First(t), NEW l \in (next - 1)..Len(job.seed[t]),
           NEW s, IsPortion(t, s, l), NEW k \in DOMAIN s,
           ~(job.mode[t] = "skip_existing" /\ s[k].id \in KeysOf(job.before[t])),
           NEW x \in s[k].refs, ~Present(work, x)
    PROVE  x[1] = t /\ x = <<x[1], x[2]>> /\ \E i \in 1..k : s[i].id = x[2]
<1> DEFINE r == s[k]
<1>1. /\ job \in Jobs /\ t \in job.planned /\ job.seed[t] \in Seq(Row)
      /\ todo \subseteq job.planned /\ job.planned \subseteq Tables
      /\ next \in Nat \ {0} /\ Len(job.seed[t]) \in Nat /\ l \in Nat
      /\ job.seed \in [Tables -> Seq(Row)] /\ t \in todo
  BY FieldTypes, LenProperties DEF First, TypeInv, TypeOK
<1>2. /\ k \in 1..(l - next + 1) /\ r \in Range(job.seed[t]) /\ r \in Row
      /\ r = job.seed[t][next + k - 1]
  <2>1. k \in 1..(l - next + 1) /\ Range(s) \subseteq Range(job.seed[t])
    BY PortionRows
  <2>2. r \in Row
    BY <2>1, ElementOfSeq DEF IsPortion
  <2>. QED  BY <2>1, <2>2 DEF IsPortion, Range
<1>3. x \in Tables \X Keys /\ x = <<x[1], x[2]>>
  BY <1>2 DEF Row
<1> DEFINE p == x[1]
<1>4. p \in Tables /\ RefersTo(job.before[t] \cup Range(job.seed[t]), p)
  BY <1>2, <1>3 DEF RefersTo
<1>5. CASE p # t
  <2>1. job.place[p] < job.place[t] /\ job.place[p] \in Nat /\ job.place[t] \in Nat
    BY <1>1, <1>4, <1>5, OrderAssumption, FieldTypes DEF Permitted
  <2>2. p \notin todo
    BY <2>1 DEF First
  <2>3. work[p] = Loaded(job)[p]
    <3>1. CASE p \in job.planned
      BY <1>1, <1>4, <2>2, <3>1, PartOfAll DEF WorkSoFar, Written
    <3>2. CASE p \notin job.planned
      BY <1>4, <3>2 DEF WorkSoFar, Loaded
    <3>. QED  BY <3>1, <3>2
  <2>4. r \in Loaded(job)[t]
    BY <1>1, <1>2 DEF Loaded, Merge, Truncated
  <2>5. Present(Loaded(job), x)
    BY <2>4 DEF Permitted, Closed, HasParents
  <2>. QED  BY <2>3, <2>5 DEF Present
<1>6. CASE p = t
  <2>1. work[t] = Merge(job.mode[t], Base(t), Rows(t, 1, next - 1))
    BY <1>1 DEF WorkSoFar, Written, Part
  <2>2. KeysOf(Base(t)) \subseteq KeysOf(work[t]) /\ KeysOf(Rows(t, 1, next - 1)) \subseteq KeysOf(work[t])
    BY <2>1 DEF Merge, KeysOf
  <2>3. x[2] \notin KeysOf(work[t])
    BY <1>6 DEF Present, KeysOf
  <2>4. PICK j \in 1..(next + k - 1) : job.seed[t][j].id = x[2]
    <3>1. next + k - 1 \in DOMAIN job.seed[t]
      BY <1>1, <1>2, LenProperties
    <3>2. ~(t \notin Truncated(job) /\ Present(job.before, x))
      BY <1>6, <2>2, <2>3 DEF Base, Present, KeysOf
    <3>. QED  BY <1>1, <1>2, <1>6, <3>1, <3>2 DEF OwnParentsFirst
  <2>5. ~(j \in 1..(next - 1))
    BY <2>2, <2>3, <2>4 DEF Rows, KeysOf
  <2>6. j - next + 1 \in 1..k /\ j - next + 1 \in 1..(l - next + 1) /\ next + (j - next + 1) - 1 = j
    BY <1>1, <1>2, <2>4, <2>5
  <2>7. s[j - next + 1] = job.seed[t][j]
    BY <2>6 DEF IsPortion
  <2>. QED  BY <1>3, <1>6, <2>4, <2>6, <2>7
<1>. QED  BY <1>5, <1>6

\* Rows that INSERT IGNORE drops for a missing parent are there already: the first
\* one that was not would lack a parent that neither is there nor was inserted.
LEMMA TakesAll ==
    ASSUME TypeInv, Regular, WorkSoFar, NEW t \in Tables, First(t),
           NEW l \in (next - 1)..Len(job.seed[t]), NEW s, IsPortion(t, s, l)
    PROVE  Merge(job.mode[t], work[t], RowsTaken(t, s)) = Merge(job.mode[t], work[t], Range(s))
<1>1. t \in job.planned
  BY DEF First, TypeInv, TypeOK
<1>2. CASE ~Swallows(t)
  <2>1. RowsTaken(t, s) = {s[k] : k \in DOMAIN s}
    BY <1>2 DEF RowsTaken
  <2>. QED  BY <2>1 DEF Range
<1>3. CASE Swallows(t)
  <2>1. job.mode[t] = "skip_existing" /\ Permitted /\ OwnParentsFirst
    BY <1>1, <1>3 DEF Swallows, Regular
  <2>2. job.before[t] \subseteq work[t]
    BY <1>1, <2>1 DEF WorkSoFar, Part, Base, Merge, Truncated
  <2>3. KeysOf(job.before[t]) \subseteq KeysOf(work[t])
    BY <2>2 DEF KeysOf
  <2> DEFINE Lost == {k \in Ignored(t, s) \cap DOMAIN s : s[k].id \notin KeysOf(job.before[t])}
  <2>4. Lost = {}
    <3> SUFFICES ASSUME Lost # {} PROVE FALSE
      OBVIOUS
    <3>1. DOMAIN s \subseteq Nat /\ DOMAIN s = 1..Len(s) /\ Len(s) \in Nat /\ s \in Seq(Row)
      BY LenProperties DEF IsPortion
    <3>2. PICK k \in Lost : \A m \in Lost : k <= m
      <4>1. Lost \subseteq Nat
        BY <3>1
      <4>. QED  BY <4>1, LeastNumber
    <3>3. PICK x \in s[k].refs : /\ x # <<t, s[k].id>> /\ ~Present(work, x)
                                 /\ \A i \in 1..(k - 1) : i \in Ignored(t, s) \/ <<t, s[i].id>> # x
      BY <3>1, <3>2, IgnoredFacts DEF IsOrphan
    <3>4. /\ x[1] = t /\ x = <<x[1], x[2]>>
          /\ \E i \in 1..k : s[i].id = x[2]
      BY <2>1, <3>2, <3>3, ParentsAreThere
    <3>5. PICK i \in 1..k : s[i].id = x[2]
      BY <3>4
    <3>6. x = <<t, s[i].id>>
      BY <3>4, <3>5
    <3>7. i # k /\ k \in Nat /\ k \in DOMAIN s
      BY <3>1, <3>2, <3>3, <3>6
    <3>8. i \in 1..(k - 1) /\ i \in DOMAIN s /\ ~(k <= i)
      BY <3>1, <3>7
    <3>9. i \in Ignored(t, s) /\ i \notin Lost
      BY <3>2, <3>3, <3>6, <3>8
    <3>10. s[i].id \in KeysOf(work[t])
      BY <2>3, <3>8, <3>9
    <3>. QED  BY <3>3, <3>4, <3>5, <3>10 DEF Present, KeysOf
  <2>5. RowsTaken(t, s) = {s[k] : k \in DOMAIN s \ Ignored(t, s)}
    BY <1>3 DEF RowsTaken
  <2>6. \A r \in Range(s) : r \in RowsTaken(t, s) \/ r.id \in KeysOf(work[t])
    <3>. HIDE DEF Ignored
    <3>. QED  BY <2>3, <2>4, <2>5 DEF Range
  <2>7. RowsTaken(t, s) \subseteq Range(s)
    BY <2>5 DEF Range
  <2>. QED  BY <2>1, <2>6, <2>7 DEF Merge
<1>. QED  BY <1>2, <1>3

\* The statement for the rows from next to l brings table t to its first l rows.
LEMMA InsertProgress ==
    ASSUME IInv, Regular, pc \in Loading, NEW t \in Tables, First(t), next \in Nat \ {0},
           NEW l \in (next - 1)..Len(job.seed[t]), NEW s, IsPortion(t, s, l), Insert(t, s)
    PROVE  /\ ~job.noTransaction => disk' = disk
           /\ work' = [work EXCEPT ![t] = Part(t, l)]
<1>1. t \in todo /\ t \in job.planned /\ job \in Jobs
  BY DEF First, IInv, TypeInv, TypeOK
<1>2. job.seed[t] \in Seq(Row) /\ Len(job.seed[t]) \in Nat /\ l \in Nat
  BY <1>1, FieldTypes, LenProperties
<1>3. WorkSoFar /\ work[t] = Part(t, next - 1)
  BY <1>1 DEF IInv, WorkIsSound, WorkSoFar, Written
<1>4. Merge(job.mode[t], Part(t, next - 1), Rows(t, next, l)) = Part(t, l)
  <2>1. ~HasDuplicates(job.seed[t])
    BY <1>1 DEF IInv, PlanIsSound, InTxn
  <2>2. next - 1 \in Nat /\ (next - 1) + 1 = next
    OBVIOUS
  <2>3. Merge(job.mode[t], Part(t, next - 1), Rows(t, (next - 1) + 1, l)) = Part(t, l)
    BY <1>1, <2>1, <2>2, PartGrows
  <2>. QED  BY <2>2, <2>3
<1>5. Range(s) = Rows(t, next, l)
  BY PortionRows DEF IInv
<1>6. Merge(job.mode[t], work[t], RowsTaken(t, s)) = Part(t, l)
  <2>1. Merge(job.mode[t], work[t], RowsTaken(t, s)) = Merge(job.mode[t], work[t], Range(s))
    BY <1>3, TakesAll DEF IInv
  <2>. QED  BY <1>3, <1>4, <1>5, <2>1
<1>7. Inserted(t, s) = [work EXCEPT ![t] = Part(t, l)]
  BY <1>6 DEF Inserted
<1>. QED  BY <1>7, WriteKeepsDisk DEF Insert, InTxn

LEMMA AbortIInv ==
    ASSUME IInv, NEW how, Abort(how), TypeInv'
    PROVE  IInv' /\ disk' = disk /\ committed' = committed /\ job' = job
BY DEF IInv, Abort, loop, TxnIsOpen, PlanIsSound, CursorIsSound,
   WorkIsSound, InTxn, Loading, Batching

\* What a step does for the rest of the world, if there is a transaction: nothing,
\* or the commit.
Kept ==
    /\ ~job.noTransaction => disk' = disk
    /\ committed' = committed /\ job' = job
TookEffect ==
    /\ disk' = Loaded(job) /\ job' = job /\ ~job.noTransaction
    /\ ~job.dryRun /\ ~committed /\ pc # "done" /\ committed' = TRUE

LEMMA InitIInv == Init => IInv
<1> SUFFICES ASSUME Init PROVE IInv
  OBVIOUS
<1>. QED
  BY InitTypeInv DEF IInv, Init, TxnIsOpen, PlanIsSound, CursorIsSound, WorkIsSound,
     InTxn, Loading, Batching

\* A chunk, and a single row, are the rows between its ends.
LEMMA ChunkRows ==
    ASSUME TypeInv, NEW t \in Tables, next <= Len(job.seed[t])
    PROVE  /\ ChunkEnd(t, next) \in next..Len(job.seed[t])
           /\ Range(Chunk(t)) = Rows(t, next, ChunkEnd(t, next))
           /\ Range(OneRow(t)) = Rows(t, next, next)
           /\ IsPortion(t, Chunk(t), ChunkEnd(t, next)) /\ IsPortion(t, OneRow(t), next)
<1>1. /\ job \in Jobs /\ job.seed[t] \in Seq(Row) /\ Len(job.seed[t]) \in Nat
      /\ next \in 1..Len(job.seed[t])
  BY FieldTypes, LenProperties DEF TypeInv, TypeOK
<1>2. ChunkEnd(t, next) \in next..Len(job.seed[t])
  BY <1>1, ChunkBounds
<1>3. IsPortion(t, Chunk(t), ChunkEnd(t, next))
  <2> DEFINE e == ChunkEnd(t, next)
  <2>0. next \in Nat /\ e \in Nat /\ next <= e /\ next \in Int /\ e \in Int /\ next <= e + 1
    BY <1>1, <1>2
  <2>1. \A i \in next..e : job.seed[t][i] \in Row
    <3>1. \A i \in next..e : i \in 1..Len(job.seed[t])
      BY <1>1, <1>2, <2>0
    <3>. QED  BY <1>1, <3>1, ElementOfSeq
  <2>. HIDE DEF e
  <2>2. /\ SubSeq(job.seed[t], next, e) \in Seq(Row)
        /\ Len(SubSeq(job.seed[t], next, e)) = e - next + 1
        /\ \A i \in 1..(e - next + 1) :
              SubSeq(job.seed[t], next, e)[i] = job.seed[t][next + i - 1]
    BY <2>0, <2>1, SubSeqProperties
  <2>. QED  BY <2>2 DEF IsPortion, Chunk, e
<1>4. IsPortion(t, OneRow(t), next)
  <2>1. next - next + 1 = 1 /\ 1..1 = {1} /\ next + 1 - 1 = next
    BY <1>1
  <2>2. job.seed[t][next] \in Row
    BY <1>1, ElementOfSeq
  <2>3. OneRow(t) \in Seq(Row) /\ Len(OneRow(t)) = 1 /\ OneRow(t)[1] = job.seed[t][next]
    BY <2>2 DEF OneRow
  <2>. QED  BY <2>1, <2>3 DEF IsPortion
<1>5. ChunkEnd(t, next) \in (next - 1)..Len(job.seed[t]) /\ next \in (next - 1)..Len(job.seed[t])
  BY <1>1, <1>2
<1>6. Range(Chunk(t)) = Rows(t, next, ChunkEnd(t, next)) /\ Range(OneRow(t)) = Rows(t, next, next)
  BY <1>3, <1>4, <1>5, PortionRows
<1>. QED  BY <1>2, <1>3, <1>4, <1>6

\* So is the whole file, from its first row.
LEMMA FileRows ==
    ASSUME TypeInv, NEW t \in Tables, next = 1
    PROVE  IsPortion(t, job.seed[t], Len(job.seed[t]))
<1>1. job.seed[t] \in Seq(Row) /\ Len(job.seed[t]) \in Nat
  BY FieldTypes, LenProperties DEF TypeInv
<1>2. Len(job.seed[t]) - 1 + 1 = Len(job.seed[t]) /\ \A i \in Nat : 1 + i - 1 = i
  BY <1>1
<1>. QED  BY <1>1, <1>2 DEF IsPortion

\* Confirming, opening the transaction and emptying tables.
LEMMA PreparationSteps ==
    ASSUME IInv, TypeInv',
           \/ Plan \/ Begin \/ Defer \/ AllDeleted
           \/ \E r \in Tables \cup {NotLocal} : Accept(r)
           \/ \E t \in Tables : Delete(t)
    PROVE  IInv' /\ Kept
<1> USE DEF IInv, TxnIsOpen, PlanIsSound, CursorIsSound, WorkIsSound,
        InTxn, Loading, Batching, Kept
<1>1. CASE Plan
  BY <1>1 DEF Plan, store, counters, loop, ending
<1>2. ASSUME NEW r \in Tables \cup {NotLocal}, Accept(r) PROVE IInv' /\ Kept
  BY <1>2 DEF Accept, store, counters, loop, ending
<1>3. CASE Begin
  BY <1>3 DEF Begin, counters, loop, ending
<1>4. CASE Defer
  BY <1>4 DEF Defer, counters, ending
<1>5. ASSUME NEW t \in Tables, Delete(t) PROVE IInv' /\ Kept
  <2>1. CASE AcceptsDelete(t)
    <3>1. /\ pc = "delete" /\ pc' = pc /\ t \in todo /\ todo' = todo \ {t}
          /\ Write([work EXCEPT ![t] = {}]) /\ next' = next /\ job' = job
          /\ committed' = committed /\ txn' = txn
      BY <1>5, <2>1 DEF Delete, Last, counters, ending
    <3>2. /\ ~job.noTransaction => disk' = disk
          /\ work' = [work EXCEPT ![t] = {}]
      BY <3>1, WriteKeepsDisk
    <3>3. /\ DOMAIN work = Tables /\ todo \subseteq Truncated(job)
      BY <3>1 DEF TypeInv, TypeOK, Store
    <3>4. \A u \in Tables :
             work'[u] = IF u \in Truncated(job) \ todo' THEN {} ELSE job.before[u]
      BY <3>1, <3>2, <3>3
    <3>. QED  BY <3>1, <3>2, <3>4
  <2>2. CASE ~AcceptsDelete(t)
    BY <1>5, <2>2, AbortIInv DEF Delete
  <2>. QED  BY <2>1, <2>2
<1>6. CASE AllDeleted
  <2>1. /\ pc = "delete" /\ todo = {} /\ pc' = "load" /\ todo' = job.planned
        /\ next = 1 /\ next' = 1 /\ job' = job /\ disk' = disk /\ work' = work
        /\ committed' = committed /\ txn' = txn
    BY <1>6 DEF AllDeleted, store, counters, ending
  <2>2. \A t \in job.planned : t \in Tables /\ Len(job.seed[t]) \in Nat
    BY FieldTypes, LenProperties DEF TypeInv
  <2>3. \A t \in Tables : t \in job.planned => Written(t)' = 0
    BY <2>1 DEF Written
  <2>4. \A t \in Tables : Part(t, 0)' = Base(t) /\ (t \notin job.planned => t \notin Truncated(job))
    BY <2>1, PartOfNone DEF Part, Base, Rows, Truncated
  <2>5. \A t \in Tables :
           work'[t] = IF t \in job'.planned THEN Part(t, Written(t))' ELSE job'.before[t]
    BY <2>1, <2>3, <2>4 DEF Base
  <2>6. \A t \in Tables : First(t)' => next' <= Len(job'.seed[t]) + 1
    BY <2>1, <2>2 DEF First
  <2>. QED  BY <2>1, <2>5, <2>6
<1>. QED  BY <1>1, <1>2, <1>3, <1>4, <1>5, <1>6

LEMMA SamePart ==
    ASSUME job' = job, NEW u, NEW k
    PROVE  Rows(u, 1, k)' = Rows(u, 1, k) /\ Part(u, k)' = Part(u, k)
BY DEF Rows, Part, Base

\* The cursor moves on within the first table.
LEMMA CursorMoves ==
    ASSUME IInv, WorkSoFar, NEW t \in Tables, First(t), job' = job, todo' = todo,
           next' \in Nat, work' = [work EXCEPT ![t] = Part(t, next' - 1)]
    PROVE  WorkSoFar'
<1>1. /\ job \in Jobs /\ todo \subseteq Tables /\ DOMAIN work = Tables
      /\ t \in todo /\ t \in job.planned
  BY FieldTypes DEF IInv, TypeInv, TypeOK, Store, First
<1>2. \A u : First(u)' <=> First(u)
  BY DEF First
<1>3. \A u \in Tables : First(u) => u = t
  BY <1>1, OneFirst
<1>4. Written(t)' = next' - 1
  BY <1>1, <1>2 DEF Written
<1>5. \A u \in Tables : u # t => Written(u)' = Written(u)
  BY <1>2, <1>3 DEF Written
<1>6. \A u \in Tables : u # t => Part(u, Written(u))' = Part(u, Written(u))
  BY <1>5 DEF Part, Base, Rows
<1>7. Part(t, Written(t))' = Part(t, next' - 1)
  BY <1>4 DEF Part, Base, Rows
<1>. QED  BY <1>1, <1>6, <1>7 DEF WorkSoFar

\* The first table is finished.
LEMMA TableFinished ==
    ASSUME IInv, WorkSoFar, NEW t \in Tables, First(t), job' = job, todo' = todo \ {t},
           next' = 1, work' = [work EXCEPT ![t] = Part(t, Len(job.seed[t]))]
    PROVE  WorkSoFar' /\ \A u \in Tables : First(u)' => next' <= Len(job'.seed[u]) + 1
<1>1. /\ job \in Jobs /\ todo \subseteq Tables /\ DOMAIN work = Tables
      /\ t \in todo /\ t \in job.planned
  BY FieldTypes DEF IInv, TypeInv, TypeOK, Store, First
<1>2. \A u \in Tables : First(u) => u = t
  BY <1>1, OneFirst
<1>3. \A u \in Tables : Len(job.seed[u]) \in Nat
  BY <1>1, FieldTypes, LenProperties
<1>4. \A u \in Tables : u # t => Written(u)' = Written(u)
  <2> SUFFICES ASSUME NEW u \in Tables, u # t PROVE Written(u)' = Written(u)
    OBVIOUS
  <2>1. CASE u \in todo
    BY <1>2, <2>1 DEF Written
  <2>2. CASE u \notin todo
    BY <2>2 DEF Written
  <2>. QED  BY <2>1, <2>2
<1>5. \A u \in Tables : u # t => Part(u, Written(u))' = Part(u, Written(u))
  BY <1>4 DEF Part, Base, Rows
<1>6. Written(t)' = Len(job.seed[t])
  BY DEF Written
<1>7. Part(t, Written(t))' = Part(t, Len(job.seed[t]))
  BY <1>6 DEF Part, Base, Rows
<1>8. WorkSoFar'
  BY <1>1, <1>5, <1>7 DEF WorkSoFar
<1>. QED  BY <1>3, <1>8

\* IInv while rows are being written, in the parts a loading step establishes.
LEMMA LoadingIInv ==
    ASSUME IInv, pc \in Loading, TypeInv', pc' \in Loading, Kept,
           ~job.noTransaction => txn' \in {"open", "aborted"}, WorkSoFar',
           \A t \in Tables : First(t)' =>
              next' <= Len(job'.seed[t]) + 1 /\ (Bulk(t)' => next' = 1),
           pc' \in Batching => \A t \in Tables : First(t)' => ~Bulk(t)',
           pc' \in {"batch", "undo"} => mark' = work'
    PROVE  IInv' /\ Kept
<1>1. ~committed /\ ~committed'
  BY DEF IInv, TxnIsOpen, TypeInv, TypeOK, Kept, Loading, Batching
<1>2. TxnIsOpen' /\ PlanIsSound'
  BY <1>1 DEF IInv, TxnIsOpen, PlanIsSound, Kept, InTxn, Loading, Batching
<1>3. CursorIsSound'
  BY DEF CursorIsSound, Loading, Batching
<1>4. WorkIsSound'
  <2>1. pc' \notin {"check", "confirm", "defer", "delete", "fixup", "commit"}
    BY DEF Loading, Batching
  <2>. QED  BY <2>1 DEF WorkIsSound, WorkSoFar
<1>. QED  BY <1>2, <1>3, <1>4 DEF IInv

\* Inserting, with all the detours.
LEMMA InsertSteps ==
    ASSUME IInv, Regular, TypeInv', NEW t \in Tables,
           CopyIn(t) \/ InsertSingle(t) \/ InsertBatch(t) \/ RetryRow(t)
    PROVE  IInv' /\ Kept
<1>1. /\ First(t) /\ pc \in Loading /\ job \in Jobs
      /\ ~job.noTransaction => txn \in {"open", "aborted"}
      /\ TypeInv /\ job.seed[t] \in Seq(Row)
      /\ Len(job.seed[t]) \in Nat /\ next \in Nat \ {0} /\ todo \subseteq Tables
  BY FieldTypes, LenProperties
     DEF CopyIn, InsertSingle, InsertBatch, RetryRow, Loading, Batching, InTxn, IInv,
         TxnIsOpen, TypeInv, TypeOK
<1>2. WorkSoFar
  BY <1>1 DEF IInv, WorkIsSound, WorkSoFar
<1>3. \A u \in Tables : First(u) => u = t
  BY <1>1, OneFirst
<1>4. \A u : (todo' = todo /\ job' = job) => ((First(u)' <=> First(u)) /\ (Bulk(u)' <=> Bulk(u)))
  BY DEF First, Bulk
<1>5. CASE CopyIn(t) /\ Accepts(t, job.seed[t])
  <2>1. next = 1 /\ pc = "load"
    BY <1>1, <1>5 DEF CopyIn, IInv, CursorIsSound
  <2>2. IsPortion(t, job.seed[t], Len(job.seed[t]))
    BY <1>1, <2>1, FileRows
  <2>3. Len(job.seed[t]) \in (next - 1)..Len(job.seed[t])
    BY <1>1, <2>1
  <2>4. /\ ~job.noTransaction => disk' = disk
        /\ work' = [work EXCEPT ![t] = Part(t, Len(job.seed[t]))]
    BY <1>1, <1>5, <2>2, <2>3, InsertProgress DEF CopyIn
  <2>5. /\ job' = job /\ todo' = todo \ {t} /\ next' = 1 /\ pc' = "load"
        /\ txn' = txn /\ Kept
    BY <1>5, <2>1, <2>4 DEF CopyIn, ending, Kept
  <2>6. WorkSoFar' /\ \A u \in Tables : First(u)' => next' <= Len(job'.seed[u]) + 1
    BY <1>1, <1>2, <2>4, <2>5, TableFinished
  <2>. QED  BY <1>1, <2>5, <2>6, LoadingIInv DEF Loading, Batching
<1>6. CASE InsertSingle(t) /\ Accepts(t, OneRow(t))
  <2>1. /\ next <= Len(job.seed[t]) /\ ~Bulk(t) /\ Insert(t, OneRow(t)) /\ next' = next + 1
        /\ job' = job /\ todo' = todo /\ pc' = "load" /\ txn' = txn /\ committed' = committed
    BY <1>6 DEF InsertSingle, ending
  <2>2. /\ IsPortion(t, OneRow(t), next) /\ next \in (next - 1)..Len(job.seed[t])
    BY <1>1, <2>1, ChunkRows
  <2>3. /\ ~job.noTransaction => disk' = disk
        /\ work' = [work EXCEPT ![t] = Part(t, next)]
    BY <1>1, <2>1, <2>2, InsertProgress
  <2>4. next' \in Nat /\ next' - 1 = next /\ next' <= Len(job.seed[t]) + 1
    BY <1>1, <2>1
  <2>5. WorkSoFar'
    BY <1>1, <1>2, <2>1, <2>3, <2>4, CursorMoves
  <2>. QED  BY <1>1, <1>3, <1>4, <2>1, <2>3, <2>4, <2>5, LoadingIInv DEF Loading, Batching, Kept
<1>7. CASE InsertBatch(t)
  <2>1. /\ next <= Len(job.seed[t]) /\ ~Bulk(t)
    BY <1>1, <1>7 DEF InsertBatch, IInv, TypeInv, RowsLeft, CursorIsSound, Batching
  <2>2. /\ Insert(t, Chunk(t)) /\ next' = ChunkEnd(t, next) + 1
        /\ job' = job /\ todo' = todo /\ pc' = "release" /\ txn' = txn
        /\ committed' = committed
    BY <1>7 DEF InsertBatch, ending
  <2>3. /\ ChunkEnd(t, next) \in next..Len(job.seed[t])
        /\ ChunkEnd(t, next) \in (next - 1)..Len(job.seed[t])
        /\ IsPortion(t, Chunk(t), ChunkEnd(t, next))
    BY <1>1, <2>1, ChunkRows
  <2>4. /\ ~job.noTransaction => disk' = disk
        /\ work' = [work EXCEPT ![t] = Part(t, ChunkEnd(t, next))]
    BY <1>1, <2>2, <2>3, InsertProgress
  <2>5. next' \in Nat /\ next' - 1 = ChunkEnd(t, next) /\ next' <= Len(job.seed[t]) + 1
    BY <1>1, <2>2, <2>3
  <2>6. WorkSoFar'
    BY <1>1, <1>2, <2>2, <2>4, <2>5, CursorMoves
  <2>. QED  BY <1>1, <1>3, <1>4, <2>1, <2>2, <2>4, <2>5, <2>6, LoadingIInv DEF Loading, Batching, Kept
<1>8. CASE RetryRow(t) /\ Accepts(t, OneRow(t))
  <2>1. /\ next <= Len(job.seed[t]) /\ ~Bulk(t)
    BY <1>1, <1>8 DEF RetryRow, IInv, TypeInv, RowsLeft, CursorIsSound, Batching
  <2>2. /\ Insert(t, OneRow(t)) /\ next' = next + 1
        /\ job' = job /\ todo' = todo /\ pc' \in {"release", "retry"} /\ txn' = txn
        /\ committed' = committed
    BY <1>8 DEF RetryRow, ending
  <2>3. /\ IsPortion(t, OneRow(t), next) /\ next \in (next - 1)..Len(job.seed[t])
    BY <1>1, <2>1, ChunkRows
  <2>4. /\ ~job.noTransaction => disk' = disk
        /\ work' = [work EXCEPT ![t] = Part(t, next)]
    BY <1>1, <2>2, <2>3, InsertProgress
  <2>5. next' \in Nat /\ next' - 1 = next /\ next' <= Len(job.seed[t]) + 1
    BY <1>1, <2>1, <2>2
  <2>6. WorkSoFar'
    BY <1>1, <1>2, <2>2, <2>4, <2>5, CursorMoves
  <2>. QED  BY <1>1, <1>3, <1>4, <2>1, <2>2, <2>4, <2>5, <2>6, LoadingIInv DEF Loading, Batching, Kept
<1>9. ASSUME Abort("error") PROVE IInv' /\ Kept
  BY <1>9, AbortIInv DEF Kept
<1>. QED
  BY <1>5, <1>6, <1>7, <1>8, <1>9 DEF CopyIn, InsertSingle, RetryRow

\* Savepoints and the ends of chunks, tables and loop.
LEMMA LoopSteps ==
    ASSUME IInv, TypeInv',
           \/ \E t \in Tables : Savepoint(t) \/ BatchFails(t) \/ TableDone(t)
           \/ RollbackTo \/ Release \/ AllLoaded
    PROVE  IInv' /\ Kept
<1>1. /\ pc \in Loading /\ job \in Jobs /\ todo \subseteq Tables
      /\ ~job.noTransaction => txn \in {"open", "aborted"}
      /\ next \in Nat \ {0} /\ DOMAIN work = Tables
  BY FieldTypes
     DEF Savepoint, BatchFails, TableDone, RollbackTo, Release, AllLoaded, Loading, Batching,
         InTxn, IInv, TxnIsOpen, TypeInv, TypeOK, Store
<1>2. WorkSoFar
  BY <1>1 DEF IInv, WorkIsSound, WorkSoFar
<1>3. \A u : (todo' = todo /\ job' = job) => ((First(u)' <=> First(u)) /\ (Bulk(u)' <=> Bulk(u)))
  BY DEF First, Bulk
<1>4. todo' = todo /\ next' = next /\ job' = job /\ work' = work => WorkSoFar'
  BY <1>2, <1>3 DEF WorkSoFar, Written, Part, Base, Rows
<1>5. \A t \in Tables : First(t) => next <= Len(job.seed[t]) + 1 /\ (Bulk(t) => next = 1)
  BY <1>1 DEF IInv, CursorIsSound
<1>6. pc \in Batching => \A t \in Tables : First(t) => ~Bulk(t)
  BY DEF IInv, CursorIsSound
<1>7. ASSUME Abort("error") PROVE IInv' /\ Kept
  BY <1>7, AbortIInv DEF Kept
<1>8. ASSUME NEW t \in Tables, Savepoint(t), ~(job.engine = "postgres" /\ txn = "none")
      PROVE  IInv' /\ Kept
  <2>1. /\ todo' = todo /\ next' = next /\ job' = job /\ work' = work  /\ mark' = work
        /\ ~job.noTransaction => txn' = txn
        /\ pc' = "batch" /\ Kept /\ First(t) /\ ~Bulk(t)
    BY <1>1, <1>8 DEF Savepoint, loop, ending, Kept
  <2>2. \A u \in Tables : First(u) => ~Bulk(u)
    BY <1>1, <2>1, OneFirst
  <2>. QED  BY <1>1, <1>3, <1>4, <1>5, <2>1, <2>2, LoadingIInv DEF Loading, Batching
<1>9. ASSUME NEW t \in Tables, BatchFails(t) PROVE IInv' /\ Kept
  <2>1. /\ todo' = todo /\ next' = next /\ job' = job /\ work' = work  /\ mark' = work
        /\ ~job.noTransaction => txn' \in {"open", "aborted"}
        /\ pc' = "undo" /\ Kept /\ pc \in Batching
    BY <1>1, <1>9 DEF BatchFails, loop, ending, Kept, IInv, WorkIsSound, Batching
  <2>. QED  BY <1>1, <1>3, <1>4, <1>5, <1>6, <2>1, LoadingIInv DEF Loading, Batching
<1>10. ASSUME NEW t \in Tables, TableDone(t) PROVE IInv' /\ Kept
  <2>1. /\ First(t) /\ next > Len(job.seed[t]) /\ todo' = todo \ {t} /\ next' = 1
        /\ job' = job /\ work' = work /\ txn' = txn /\ pc' = "load" /\ Kept
    BY <1>10 DEF TableDone, store, ending, Kept
  <2>2. Len(job.seed[t]) \in Nat
    BY <1>1, FieldTypes, LenProperties
  <2>3. next - 1 = Len(job.seed[t])
    BY <1>1, <1>5, <2>1, <2>2
  <2>4. work[t] = Part(t, Len(job.seed[t]))
    BY <1>2, <2>1, <2>3 DEF WorkSoFar, Written, First, IInv, TypeInv, TypeOK
  <2>5. work' = [work EXCEPT ![t] = Part(t, Len(job.seed[t]))]
    BY <2>1, <2>4 DEF IInv, TypeInv, TypeOK, Store
  <2>6. WorkSoFar' /\ \A u \in Tables : First(u)' => next' <= Len(job'.seed[u]) + 1
    BY <1>2, <2>1, <2>5, TableFinished
  <2>. QED  BY <1>1, <2>1, <2>6, LoadingIInv DEF Loading, Batching
<1>11. CASE RollbackTo /\ ~(job.engine = "mysql" /\ txn = "none")
  <2>1. /\ todo' = todo /\ next' = next /\ job' = job /\ work' = work /\ pc \in Batching
        /\ ~job.noTransaction => txn' \in {"open", "aborted"}
        /\ pc' = "retry" /\ Kept
    BY <1>1, <1>11 DEF RollbackTo, loop, ending, Kept, IInv, WorkIsSound, Batching
  <2>. QED  BY <1>1, <1>3, <1>4, <1>5, <1>6, <2>1, LoadingIInv DEF Loading, Batching
<1>12. CASE Release /\ ~(job.engine = "mysql" /\ txn = "none")
  <2>1. /\ todo' = todo /\ next' = next /\ job' = job /\ work' = work
        /\ ~job.noTransaction => txn' = txn
        /\ pc' = "load" /\ Kept
    BY <1>1, <1>12 DEF Release, loop, ending, Kept
  <2>. QED  BY <1>1, <1>3, <1>4, <1>5, <2>1, LoadingIInv DEF Loading, Batching
<1>13. CASE AllLoaded
  <2>1. /\ todo = {} /\ pc' = "fixup" /\ job' = job /\ work' = work /\ txn' = txn /\ Kept
    BY <1>13 DEF AllLoaded, ending, Kept
  <2>2. \A u \in Tables : work[u] = Loaded(job)[u]
    <3>1. \A u \in job.planned : Written(u) = Len(job.seed[u])
      BY <2>1 DEF Written
    <3>2. \A u \in job.planned : Part(u, Written(u)) = Loaded(job)[u]
      BY <1>1, <3>1, PartOfAll
    <3>. QED  BY <1>2, <3>2 DEF WorkSoFar, Loaded
  <2>3. work = Loaded(job)
    BY <1>1, <2>2 DEF Loaded, IInv, TypeInv, TypeOK, Store
  <2>4. WorkIsSound' /\ CursorIsSound'
    BY <2>1, <2>3 DEF WorkIsSound, CursorIsSound, Loading, Batching
  <2>5. TxnIsOpen' /\ PlanIsSound'
    BY <1>1, <2>1 DEF IInv, TxnIsOpen, PlanIsSound, Kept, InTxn,
       Loading, Batching, TypeInv, TypeOK
  <2>. QED  BY <2>1, <2>4, <2>5 DEF IInv
<1>. QED
  BY <1>7, <1>8, <1>9, <1>10, <1>11, <1>12, <1>13 DEF Savepoint, RollbackTo, Release

\* From the sequences to the end.
LEMMA EndingSteps ==
    ASSUME IInv, TypeInv',
           \/ AllFixed \/ RollbackDryRun \/ NothingToCommit \/ Upload \/ Finish
           \/ \E t \in Tables : Fixup(t) \/ Alter(t)
           \/ UNCHANGED vars
    PROVE  IInv' /\ Kept
<1> USE DEF IInv, TxnIsOpen, PlanIsSound, CursorIsSound, WorkIsSound,
        InTxn, Loading, Batching, Kept
<1>1. CASE AllFixed
  BY <1>1 DEF AllFixed, store, counters, loop, ending
<1>2. CASE RollbackDryRun
  BY <1>2 DEF RollbackDryRun, loop, ending
<1>3. CASE NothingToCommit
  BY <1>3 DEF NothingToCommit, store, counters, loop, ending
<1>4. CASE Upload
  BY <1>4 DEF Upload, store, counters
<1>5. CASE Finish
  BY <1>5 DEF Finish, store, counters, loop
<1>6. ASSUME NEW t \in Tables, Fixup(t) \/ Alter(t) PROVE IInv' /\ Kept
  BY <1>6 DEF Fixup, Alter, store, ending
<1>7. CASE UNCHANGED vars
  <2>1. \A u : Written(u)' = Written(u) /\ (First(u)' <=> First(u)) /\ (Bulk(u)' <=> Bulk(u))
    BY <1>7 DEF vars, Written, First, Bulk
  <2>2. \A u, k : Part(u, k)' = Part(u, k)
    BY <1>7 DEF vars, Part, Base, Rows
  <2>. QED  BY <1>7, <2>1, <2>2 DEF vars
<1>. QED  BY <1>1, <1>2, <1>3, <1>4, <1>5, <1>6, <1>7

LEMMA CommitSteps ==
    ASSUME IInv, TypeInv', Commit \/ LoseCommitReply
    PROVE  IInv' /\ (Kept \/ TookEffect)
<1>1. CASE Commit /\ deferred /\ ~Closed(work)
  BY <1>1, AbortIInv DEF Commit, Kept
<1>2. CASE LoseCommitReply \/ (Commit /\ ~(deferred /\ ~Closed(work)))
  <2>1. /\ pc = "commit" /\ ~job.dryRun /\ ~job.noTransaction /\ TakeEffect /\ job' = job /\ work' = work
        /\ pc' \in {"buckets", "done"}
    BY <1>2 DEF Commit, LoseCommitReply
  <2>2. TookEffect
    BY <2>1 DEF TakeEffect, TookEffect, IInv, WorkIsSound, TxnIsOpen, TypeInv, TypeOK
  <2>3. IInv'
    BY <2>1 DEF TakeEffect, IInv, TxnIsOpen, PlanIsSound, CursorIsSound,
       WorkIsSound, InTxn, Loading, Batching
  <2>. QED  BY <2>2, <2>3
<1>. QED  BY <1>1, <1>2

LEMMA NextIInv ==
    ASSUME IInv, Regular, [Next]_vars
    PROVE  IInv' /\ (Kept \/ TookEffect)
<1>1. TypeInv'
  BY NextTypeInv DEF IInv
<1>2. ASSUME Refuse \/ NothingToLoad \/ Decline \/ RefuseCycle \/ StatementFails \/ Crash
      PROVE  IInv' /\ Kept
  BY <1>1, <1>2, AbortIInv
     DEF Refuse, NothingToLoad, Decline, RefuseCycle, StatementFails, Crash, Kept
<1>3. ASSUME NEW t \in Tables, CopyIn(t) \/ InsertSingle(t) \/ InsertBatch(t) \/ RetryRow(t)
      PROVE  IInv' /\ Kept
  BY <1>1, <1>3, InsertSteps
<1>4. ASSUME NEW t \in Tables, Savepoint(t) \/ BatchFails(t) \/ TableDone(t)
      PROVE  IInv' /\ Kept
  BY <1>1, <1>4, LoopSteps
<1>5. ASSUME RollbackTo \/ Release \/ AllLoaded PROVE IInv' /\ Kept
  BY <1>1, <1>5, LoopSteps
<1>6. ASSUME NEW t \in Tables, Delete(t) PROVE IInv' /\ Kept
  BY <1>1, <1>6, PreparationSteps
<1>7. ASSUME NEW r \in Tables \cup {NotLocal}, Accept(r) PROVE IInv' /\ Kept
  BY <1>1, <1>7, PreparationSteps
<1>8. ASSUME Plan \/ Begin \/ Defer \/ AllDeleted PROVE IInv' /\ Kept
  BY <1>1, <1>8, PreparationSteps
<1>9. ASSUME NEW t \in Tables, Fixup(t) \/ Alter(t) PROVE IInv' /\ Kept
  BY <1>1, <1>9, EndingSteps
<1>10. ASSUME AllFixed \/ RollbackDryRun \/ NothingToCommit \/ Upload \/ Finish \/ UNCHANGED vars
       PROVE  IInv' /\ Kept
  BY <1>1, <1>10, EndingSteps
<1>11. ASSUME Commit \/ LoseCommitReply PROVE IInv' /\ (Kept \/ TookEffect)
  BY <1>1, <1>11, CommitSteps
<1>. QED
  BY <1>2, <1>3, <1>4, <1>5, <1>6, <1>7, <1>8, <1>9, <1>10, <1>11 DEF Next, Step, Terminated

LEMMA DoneIsDone == pc = "done" /\ [Next]_vars => UNCHANGED vars /\ pc' = "done"
<1> SUFFICES ASSUME pc = "done", [Next]_vars PROVE UNCHANGED vars /\ pc' = "done"
  OBVIOUS
<1>1. ASSUME Step PROVE FALSE
  <2>1. ~ \E t \in Tables : \/ CopyIn(t) \/ InsertSingle(t) \/ Savepoint(t)
                           \/ InsertBatch(t) \/ BatchFails(t) \/ RetryRow(t)
                           \/ TableDone(t)
    BY DEF CopyIn, InsertSingle, Savepoint, InsertBatch, BatchFails, RetryRow, TableDone
  <2>2. ~ \E t \in Tables : Delete(t) \/ Fixup(t) \/ Alter(t)
    BY DEF Delete, Fixup, Alter
  <2>3. ~ \E r \in Tables \cup {NotLocal} : Accept(r)
    BY DEF Accept
  <2>4. ~(Refuse \/ NothingToLoad \/ Plan \/ Decline \/ Begin \/ Defer \/ RefuseCycle
          \/ AllDeleted)
    BY DEF Refuse, NothingToLoad, Plan, Decline, Begin, Defer, RefuseCycle, AllDeleted
  <2>5. ~(RollbackTo \/ Release \/ AllLoaded \/ AllFixed \/ Commit \/ RollbackDryRun
          \/ NothingToCommit \/ Upload \/ Finish)
    BY DEF RollbackTo, Release, AllLoaded, AllFixed, Commit, RollbackDryRun,
       NothingToCommit, Upload, Finish
  <2>. QED  BY <1>1, <2>1, <2>2, <2>3, <2>4, <2>5 DEF Step
<1>2. ~LoseCommitReply /\ ~StatementFails /\ ~Crash
  BY DEF LoseCommitReply, StatementFails, Crash
<1>. QED  BY <1>1, <1>2 DEF Next, Terminated, vars

\* The abstract load speaks of the same jobs.
LEMMA SameJobs == Atomic!JobType = JobType /\ \A j : Atomic!Loaded(j) = Loaded(j)
<1>1. Atomic!JobType = JobType
  BY DEF Atomic!JobType, JobType, Atomic!Store, Store, Atomic!Row, Row, Atomic!Engines,
     Engines, Atomic!Modes, Modes
<1>2. \A j : Atomic!Truncated(j) = Truncated(j)
  BY DEF Atomic!Truncated, Truncated
<1>3. \A m, S, R : Atomic!Merge(m, S, R) = Merge(m, S, R)
  BY DEF Atomic!Merge, Merge, Atomic!KeysOf, KeysOf
<1>4. \A f : Atomic!Range(f) = Range(f)
  BY DEF Atomic!Range, Range
<1>. QED  BY <1>1, <1>2, <1>3, <1>4 DEF Atomic!Loaded, Loaded

LEMMA SameRegular == ASSUME job' = job, Regular PROVE Regular'
BY DEF Regular, Permitted, OwnParentsFirst

\* In a transaction, and not by an INSERT IGNORE that may drop rows.
TransactionalLoad == ~job.noTransaction /\ Regular

\* A load in a transaction is atomic, whatever the tables, rows, modes and batch
\* size, and whichever statements fail: what other sessions see goes from the
\* old rows to all that the seed files ask for in the one step that commits.
THEOREM LoadIsAtomic == Spec /\ TransactionalLoad => LoadsAtomically
<1>1. Init => Atomic!Init
  BY FieldTypes, InitTypeInv, SameJobs DEF Init, Atomic!Init, TypeInv
<1>2. IInv /\ TransactionalLoad /\ [Next]_vars => [Atomic!Next]_(Atomic!vars)
  <2> SUFFICES ASSUME IInv, TransactionalLoad, [Next]_vars PROVE [Atomic!Next]_(Atomic!vars)
    OBVIOUS
  <2> USE DEF Atomic!vars, Atomic!Next, Atomic!Commit, Atomic!Discard
  <2>0. Regular /\ ~job.noTransaction
    BY DEF TransactionalLoad
  <2>1. committed \in BOOLEAN /\ committed' \in BOOLEAN
    BY <2>0, NextIInv DEF IInv, TypeInv, TypeOK
  <2>2. CASE TookEffect
    BY <2>1, <2>2, SameJobs DEF TookEffect
  <2>3. CASE Kept
    <3>1. pc = "done" => pc' = "done"
      BY DoneIsDone
    <3>. QED  BY <2>0, <2>1, <2>3, <3>1 DEF Kept
  <2>. QED  BY <2>0, <2>2, <2>3, NextIInv
<1>3. IInv /\ TransactionalLoad /\ [Next]_vars => IInv' /\ TransactionalLoad'
  BY NextIInv, SameRegular DEF TransactionalLoad, Kept, TookEffect
<1>. QED
  BY <1>1, <1>2, <1>3, InitIInv, PTL DEF Spec, LoadsAtomically, Atomic!Spec

-----------------------------------------------------------------------------
(* The job of a load. *)

\* The job is an input: it stays as it is.
LEMMA SameJob == [Next]_vars => job' = job
<1>1. ASSUME NEW t \in Tables, \/ Delete(t) \/ CopyIn(t) \/ InsertSingle(t) \/ Savepoint(t)
                                \/ InsertBatch(t) \/ BatchFails(t) \/ RetryRow(t)
                                \/ TableDone(t) \/ Fixup(t) \/ Alter(t)
      PROVE  job' = job
  BY <1>1 DEF Delete, CopyIn, InsertSingle, Savepoint, InsertBatch, BatchFails, RetryRow,
     TableDone, Fixup, Alter, Abort
<1>2. ASSUME Refuse \/ NothingToLoad \/ Plan \/ (\E r \in Tables \cup {NotLocal} : Accept(r))
             \/ Decline \/ Begin \/ Defer \/ RefuseCycle \/ AllDeleted \/ AllLoaded
             \/ AllFixed \/ Commit \/ LoseCommitReply \/ RollbackDryRun \/ NothingToCommit
             \/ Upload \/ Finish \/ StatementFails \/ Crash \/ RollbackTo \/ Release
             \/ UNCHANGED vars
      PROVE  job' = job
  BY <1>2 DEF Refuse, NothingToLoad, Plan, Accept, Decline, Begin, Defer, RefuseCycle,
     AllDeleted, AllLoaded, AllFixed, Commit, LoseCommitReply, RollbackDryRun,
     NothingToCommit, Upload, Finish, StatementFails, Crash, RollbackTo, Release, Abort, vars
<1>. QED  BY <1>1, <1>2 DEF Next, Step, Terminated

-----------------------------------------------------------------------------
(* Foreign keys. *)

LEMMA MergeKeys ==
    ASSUME NEW m, NEW S, NEW R
    PROVE  /\ KeysOf(S) \subseteq KeysOf(Merge(m, S, R))
           /\ KeysOf(R) \subseteq KeysOf(Merge(m, S, R))
           /\ Merge(m, S, R) \subseteq S \cup R
BY DEF Merge, KeysOf

LEMMA InsertedTable ==
    ASSUME TypeInv, NEW t \in Tables, NEW s
    PROVE  \A u \in Tables : Inserted(t, s)[u] =
              IF u = t THEN Merge(job.mode[t], work[t], RowsTaken(t, s)) ELSE work[u]
BY DEF Inserted, TypeInv, TypeOK, Store

\* A statement that is checked lets no row in without its parents.
LEMMA InsertKeepsKeys ==
    ASSUME TypeInv, NEW t \in Tables, NEW s \in Seq(Row),
           Closed(work), Checked, Accepts(t, s)
    PROVE  Closed(Inserted(t, s))
<1> DEFINE W == Inserted(t, s)
           R == RowsTaken(t, s)
<1>1. \A u \in Tables : W[u] = IF u = t THEN Merge(job.mode[t], work[t], R) ELSE work[u]
  BY InsertedTable
<1>2. \A x \in Tables \X Keys : Present(work, x) => Present(W, x)
  <2>1. KeysOf(work[t]) \subseteq KeysOf(Merge(job.mode[t], work[t], R))
    BY MergeKeys
  <2>2. \A u \in Tables : KeysOf(work[u]) \subseteq KeysOf(W[u])
    BY <1>1, <2>1
  <2>. HIDE DEF W, R
  <2>. QED  BY <2>2 DEF Present, KeysOf
<1>3. \A r \in R : \E q \in W[t] : q.id = r.id
  <2>1. KeysOf(R) \subseteq KeysOf(W[t])
    BY <1>1, MergeKeys
  <2>. HIDE DEF W, R
  <2>. QED  BY <2>1 DEF KeysOf
<1>4. W \in Store /\ work \in Store
  <2>1. R \in SUBSET Row
    <3>. HIDE DEF Ignored, Swallows
    <3>. QED  BY LenProperties DEF RowsTaken
  <2>2. work \in Store /\ Merge(job.mode[t], work[t], R) \in SUBSET Row
    <3>. HIDE DEF R
    <3>. QED  BY <2>1, MergeTyped DEF TypeInv, TypeOK, Store
  <2>. HIDE DEF R
  <2>. QED  BY <2>2 DEF Inserted, Store, R
<1>5. \A r \in R : r \notin work[t] /\ r \in W[t] => HasParents(W, r)
  <2> SUFFICES ASSUME NEW r \in R, r \notin work[t], r \in W[t], NEW x \in r.refs
               PROVE  Present(W, x)
    BY DEF HasParents
  <2>1. PICK k \in DOMAIN s : r = s[k] /\ (Swallows(t) => k \notin Ignored(t, s))
    BY DEF RowsTaken
  <2>2. x \in Tables \X Keys /\ x = <<x[1], x[2]>>
    <3>1. r \in Row
      BY <1>4 DEF Store
    <3>. QED  BY <3>1 DEF Row
  <2>3. \A q \in R : x[1] = t /\ x[2] = q.id => Present(W, x)
    <3>. HIDE DEF W, R
    <3>. QED  BY <1>3 DEF Present
  <2>4. CASE Swallows(t)
    <3>1. ~IsOrphan(t, s, Ignored(t, s), k)
      BY <2>1, <2>4, IgnoredFacts
    <3>2. CASE x = <<t, s[k].id>>
      BY <2>1, <2>3, <3>2
    <3>3. CASE x # <<t, s[k].id>> /\ ~Present(work, x)
      <4>1. PICK i \in 1..(k - 1) : i \notin Ignored(t, s) /\ <<t, s[i].id>> = x
        <5>. HIDE DEF W, R
        <5>. QED  BY <2>1, <3>1, <3>3 DEF IsOrphan
      <4>2. i \in DOMAIN s
        BY LenProperties
      <4>3. s[i] \in R
        BY <4>1, <4>2 DEF RowsTaken
      <4>. QED  BY <2>3, <4>1, <4>3
    <3>4. CASE Present(work, x)
      BY <1>2, <2>2, <3>4
    <3>. QED  BY <3>2, <3>3, <3>4
  <2>5. CASE ~Swallows(t)
    <3>1. R = {s[i] : i \in DOMAIN s}
      BY <2>5 DEF RowsTaken
    <3>2. ~(job.mode[t] = "skip_existing" /\ s[k].id \in KeysOf(work[t]))
      <4>1. job.mode[t] = "skip_existing" => r \notin work[t] /\ r \in Merge("skip_existing", work[t], R)
        BY <1>1
      <4>. HIDE DEF W, R
      <4>. QED  BY <2>1, <4>1 DEF Merge
    <3>3. ParentOf(t, s, k, x)
      <4>. HIDE DEF ParentOf, W, R
      <4>. QED  BY <2>1, <2>5, <3>2 DEF Accepts
    <3>4. CASE Present(work, x)
      BY <1>2, <2>2, <3>4
    <3>5. CASE ~Present(work, x)
      <4>1. PICK i \in DOMAIN s : x[1] = t /\ s[i].id = x[2]
        BY <3>3, <3>5 DEF ParentOf
      <4>. QED  BY <2>3, <3>1, <4>1
    <3>. QED  BY <3>4, <3>5
  <2>. QED  BY <2>4, <2>5
<1>6. \A u \in Tables : \A r \in work[u] : HasParents(W, r)
  <2> SUFFICES ASSUME NEW u \in Tables, NEW r \in work[u], NEW x \in r.refs PROVE Present(W, x)
    BY DEF HasParents
  <2>1. Present(work, x)
    BY DEF Closed, HasParents
  <2>2. x \in Tables \X Keys
    BY <1>4 DEF Store, Row
  <2>. QED  BY <1>2, <2>1, <2>2
<1>7. \A u \in Tables : \A r \in W[u] : r \in work[u] \/ (u = t /\ r \in R)
  BY <1>1, MergeKeys
<1>. HIDE DEF W, R
<1>8. Closed(W)
  BY <1>5, <1>6, <1>7 DEF Closed
<1>. QED  BY <1>8 DEF W

\* Nor does emptying a table, once no other refers to it.
LEMMA DeleteKeepsKeys ==
    ASSUME TypeInv, NEW t \in Tables, Closed(work), Checked, AcceptsDelete(t)
    PROVE  Closed([work EXCEPT ![t] = {}])
<1> DEFINE W == [work EXCEPT ![t] = {}]
<1>1. \A u \in Tables : W[u] = IF u = t THEN {} ELSE work[u]
  BY DEF TypeInv, TypeOK, Store
<1> SUFFICES ASSUME NEW u \in Tables, NEW r \in W[u], NEW x \in r.refs PROVE Present(W, x)
  BY DEF Closed, HasParents
<1>2. u # t /\ r \in work[u] /\ Present(work, x)
  BY <1>1 DEF Closed, HasParents
<1>3. x[1] \in Tables
  BY <1>2 DEF TypeInv, TypeOK, Store, Row
<1>4. x[1] # t
  BY <1>2 DEF AcceptsDelete
<1>. HIDE DEF W
<1>. QED  BY <1>1, <1>2, <1>3, <1>4 DEF Present

\* Foreign keys are put off to the end of the transaction.
PutOff == deferred /\ txn \in {"open", "aborted"}

\* The rows were linked before, and constraints are never switched off.
Linked == Closed(job.before) /\ ~(job.engine = "mysql" /\ job.cycle # "none")

\* Foreign keys hold in what others see and, unless they are put off, in what
\* this session sees and may return to.
KeysHold ==
    /\ pc \in {"check", "confirm"} => txn = "none"
    /\ deferred => job.cycle # "none"
    /\ Linked => Closed(disk)
    /\ Linked /\ ~PutOff => Closed(work)
    /\ Linked /\ ~PutOff /\ pc \in {"batch", "undo"} => Closed(mark)

LEMMA AbortKeysHold ==
    ASSUME KeysHold, NEW how, Abort(how)
    PROVE  KeysHold'
BY DEF KeysHold, Linked, PutOff, Abort

\* A statement is checked unless it is put off, and takes effect at once outside
\* a transaction.
LEMMA WriteKeysHold ==
    ASSUME KeysHold, NEW rows, Write(rows), Linked /\ Checked /\ Closed(work) => Closed(rows),
           UNCHANGED <<job, deferred, txn, mark>>, pc' \notin {"batch", "undo", "check", "confirm"}
    PROVE  KeysHold'
<1>1. Linked /\ ~PutOff => Checked
  BY DEF Linked, PutOff, Checked, KeysHold
<1>. QED  BY <1>1 DEF KeysHold, Linked, PutOff, Write

LEMMA InsertKeysHold ==
    ASSUME KeysHold, TypeInv, NEW t \in Tables, NEW s \in Seq(Row), Accepts(t, s), Insert(t, s),
           UNCHANGED <<job, deferred, txn, mark>>, pc' \notin {"batch", "undo", "check", "confirm"}
    PROVE  KeysHold'
<1>1. Checked /\ Closed(work) => Closed(Inserted(t, s))
  BY InsertKeepsKeys
<1>. QED  BY <1>1, WriteKeysHold DEF Insert

\* Leaves the rows, and what is put off, alone.
LEMMA StillKeysHold ==
    ASSUME KeysHold, UNCHANGED <<job, disk, work, mark, deferred, txn>>,
           pc' \in {"batch", "undo"} => pc \in {"batch", "undo"},
           pc' \in {"check", "confirm"} => pc \in {"check", "confirm"}
    PROVE  KeysHold'
BY DEF KeysHold, Linked, PutOff

LEMMA StepKeysHold ==
    ASSUME KeysHold, TypeInv, [Next]_vars
    PROVE  KeysHold'
<1>1. ASSUME Refuse \/ NothingToLoad \/ Decline \/ RefuseCycle \/ StatementFails \/ Crash
      PROVE  KeysHold'
  BY <1>1, AbortKeysHold
     DEF Refuse, NothingToLoad, Decline, RefuseCycle, StatementFails, Crash
<1>2. ASSUME Plan \/ (\E r \in Tables \cup {NotLocal} : Accept(r)) \/ AllDeleted
             \/ (\E t \in Tables : TableDone(t) \/ Fixup(t) \/ Alter(t))
             \/ AllFixed \/ NothingToCommit \/ Upload \/ Finish
      PROVE  KeysHold'
  <2>1. /\ UNCHANGED <<job, disk, work, mark, deferred, txn>>
        /\ pc' \notin {"batch", "undo"}
        /\ pc' \in {"check", "confirm"} => pc \in {"check", "confirm"}
    BY <1>2 DEF Plan, Accept, AllDeleted, TableDone, Fixup, Alter, AllFixed, NothingToCommit,
       Upload, Finish, store
  <2>. QED  BY <2>1, StillKeysHold
<1>3. CASE Begin
  BY <1>3 DEF Begin, KeysHold, Linked, PutOff
<1>4. CASE Defer
  <2>1. /\ UNCHANGED <<job, disk, work, txn>> /\ pc' = "delete"
        /\ deferred' <=> job.cycle # "none"
    BY <1>4 DEF Defer
  <2>2. ~PutOff' => ~PutOff
    BY <2>1 DEF KeysHold, PutOff
  <2>. QED  BY <2>1, <2>2 DEF KeysHold, Linked
<1>5. ASSUME NEW t \in Tables, Delete(t) PROVE KeysHold'
  <2>1. CASE AcceptsDelete(t)
    <3>1. Checked /\ Closed(work) => Closed([work EXCEPT ![t] = {}])
      BY <2>1, DeleteKeepsKeys
    <3>. QED  BY <1>5, <2>1, <3>1, WriteKeysHold DEF Delete
  <2>2. CASE ~AcceptsDelete(t)
    BY <1>5, <2>2, AbortKeysHold DEF Delete
  <2>. QED  BY <2>1, <2>2
<1>6. ASSUME NEW t \in Tables, CopyIn(t) PROVE KeysHold'
  <2>1. CASE Accepts(t, job.seed[t])
    <3>1. job.seed[t] \in Seq(Row)
      BY FieldTypes DEF TypeInv
    <3>. QED  BY <1>6, <2>1, <3>1, InsertKeysHold DEF CopyIn
  <2>2. CASE ~Accepts(t, job.seed[t])
    BY <1>6, <2>2, AbortKeysHold DEF CopyIn
  <2>. QED  BY <2>1, <2>2
<1>7. ASSUME NEW t \in Tables, InsertSingle(t) \/ RetryRow(t) PROVE KeysHold'
  <2>1. CASE Accepts(t, OneRow(t))
    <3>1. next <= Len(job.seed[t])
      BY <1>7 DEF InsertSingle, RetryRow, TypeInv, RowsLeft
    <3>2. OneRow(t) \in Seq(Row)
      BY <3>1, RowTyped
    <3>3. Insert(t, OneRow(t)) /\ UNCHANGED <<job, deferred, txn, mark>>
          /\ pc' \notin {"batch", "undo", "check", "confirm"}
      BY <1>7, <2>1 DEF InsertSingle, RetryRow
    <3>. QED  BY <2>1, <3>2, <3>3, InsertKeysHold
  <2>2. CASE ~Accepts(t, OneRow(t))
    BY <1>7, <2>2, AbortKeysHold DEF InsertSingle, RetryRow
  <2>. QED  BY <2>1, <2>2
<1>8. ASSUME NEW t \in Tables, InsertBatch(t) PROVE KeysHold'
  <2>1. next <= Len(job.seed[t])
    BY <1>8 DEF InsertBatch, TypeInv, RowsLeft
  <2>2. Chunk(t) \in Seq(Row)
    BY <2>1, ChunkTyped
  <2>. QED  BY <1>8, <2>2, InsertKeysHold DEF InsertBatch
<1>9. ASSUME NEW t \in Tables, Savepoint(t) PROVE KeysHold'
  <2>1. CASE job.engine = "postgres" /\ txn = "none"
    BY <1>9, <2>1, AbortKeysHold DEF Savepoint
  <2>2. CASE ~(job.engine = "postgres" /\ txn = "none")
    BY <1>9, <2>2 DEF Savepoint, KeysHold, Linked, PutOff
  <2>. QED  BY <2>1, <2>2
<1>10. ASSUME NEW t \in Tables, BatchFails(t) PROVE KeysHold'
  BY <1>10 DEF BatchFails, KeysHold, Linked, PutOff
<1>11. CASE RollbackTo
  <2>1. CASE job.engine = "mysql" /\ txn = "none"
    BY <1>11, <2>1, AbortKeysHold DEF RollbackTo
  <2>2. CASE ~(job.engine = "mysql" /\ txn = "none")
    BY <1>11, <2>2 DEF RollbackTo, KeysHold, Linked, PutOff
  <2>. QED  BY <2>1, <2>2
<1>12. CASE Release
  <2>1. CASE job.engine = "mysql" /\ txn = "none"
    BY <1>12, <2>1, AbortKeysHold DEF Release
  <2>2. CASE ~(job.engine = "mysql" /\ txn = "none")
    BY <1>12, <2>2 DEF Release, KeysHold, Linked, PutOff
  <2>. QED  BY <2>1, <2>2
<1>13. CASE AllLoaded
  BY <1>13 DEF AllLoaded, KeysHold, Linked, PutOff
<1>14. ASSUME Commit \/ LoseCommitReply PROVE KeysHold'
  <2>1. CASE Commit /\ deferred /\ ~Closed(work)
    BY <2>1, AbortKeysHold DEF Commit
  <2>2. CASE ~(Commit /\ deferred /\ ~Closed(work))
    BY <1>14, <2>2 DEF Commit, LoseCommitReply, TakeEffect, KeysHold, Linked, PutOff
  <2>. QED  BY <2>1, <2>2
<1>15. CASE RollbackDryRun
  BY <1>15 DEF RollbackDryRun, KeysHold, Linked, PutOff
<1>16. CASE UNCHANGED vars
  BY <1>16, StillKeysHold DEF vars
<1>. QED
  BY <1>1, <1>2, <1>3, <1>4, <1>5, <1>6, <1>7, <1>8, <1>9, <1>10, <1>11, <1>12, <1>13,
     <1>14, <1>15, <1>16 DEF Next, Step, Terminated

\* Foreign keys hold in what other sessions see at every moment of every load:
\* in a transaction or not, deferred or not, through batches that fail, retries,
\* INSERT IGNORE, crashes and lost replies.  Only MySQL's way to load a cycle,
\* which checks nothing, is excepted.
THEOREM NothingEverDangles == Spec => []NothingDangles
<1>1. Init => KeysHold
  BY DEF Init, KeysHold, Linked, PutOff
<1>2. TypeInv /\ KeysHold /\ [Next]_vars => KeysHold'
  BY StepKeysHold
<1>3. KeysHold => NothingDangles
  BY DEF KeysHold, Linked, NothingDangles
<1>. QED  BY <1>1, <1>2, <1>3, TypeInvHolds, PTL DEF Spec

-----------------------------------------------------------------------------
(* Transactions. *)

\* What is open where: a savepoint only opens a transaction on SQLite, without
\* one only MySQL gets into a batch, and only Postgres has a batch abort it.
TxnControl ==
    /\ pc \in {"check", "confirm", "buckets", "alter", "done"} => txn = "none"
    /\ pc \in {"defer", "delete", "load", "fixup", "commit"} =>
          txn = IF job.noTransaction THEN "none" ELSE "open"
    /\ pc \in Batching /\ job.noTransaction =>
          \/ job.engine = "mysql" /\ txn = "none"
          \/ job.engine = "sqlite" /\ txn = "savepoint"
    /\ pc \in Batching /\ ~job.noTransaction =>
          txn = "open" \/ (txn = "aborted" /\ pc = "undo" /\ job.engine = "postgres")

\* Outside a transaction this session sees what the others see.
NothingPending == txn = "none" => work = disk /\ mySeq = seq

LEMMA InitTxnControl == Init => TxnControl /\ NothingPending
BY DEF Init, TxnControl, NothingPending, Batching

LEMMA StepTxnControl ==
    ASSUME TxnControl, TypeInv, [Next]_vars
    PROVE  TxnControl'
<1> USE DEF TxnControl, Batching
<1>e. job.engine \in Engines /\ job.noTransaction \in BOOLEAN
  BY DEF TypeInv, TypeOK, JobType
<1>1. ASSUME NEW how, Abort(how) PROVE TxnControl'
  BY <1>1 DEF Abort
<1>2. ASSUME Refuse \/ NothingToLoad \/ Decline \/ RefuseCycle \/ StatementFails \/ Crash
      PROVE  TxnControl'
  BY <1>1, <1>2 DEF Refuse, NothingToLoad, Decline, RefuseCycle, StatementFails, Crash
<1>3. ASSUME Plan \/ (\E r \in Tables \cup {NotLocal} : Accept(r)) \/ Begin \/ Defer
      PROVE  TxnControl'
  BY <1>3 DEF Plan, Accept, Begin, Defer, store
<1>4. ASSUME AllDeleted \/ AllLoaded \/ AllFixed \/ NothingToCommit \/ Upload \/ Finish
             \/ (\E t \in Tables : TableDone(t) \/ Fixup(t) \/ Alter(t))
      PROVE  TxnControl'
  BY <1>4 DEF AllDeleted, AllLoaded, AllFixed, NothingToCommit, Upload, Finish, TableDone,
     Fixup, Alter, store
<1>5. ASSUME NEW t \in Tables, Delete(t) \/ CopyIn(t) \/ InsertSingle(t) PROVE TxnControl'
  <2>1. CASE \E how : Abort(how)
    BY <1>1, <2>1
  <2>2. CASE ~ \E how : Abort(how)
    BY <1>5, <2>2 DEF Delete, CopyIn, InsertSingle
  <2>. QED  BY <2>1, <2>2
<1>6. ASSUME NEW t \in Tables, Savepoint(t) PROVE TxnControl'
  BY <1>1, <1>6, <1>e DEF Savepoint, Engines
<1>7. ASSUME NEW t \in Tables, InsertBatch(t) \/ RetryRow(t) PROVE TxnControl'
  <2>1. CASE \E how : Abort(how)
    BY <1>1, <2>1
  <2>2. CASE ~ \E how : Abort(how)
    BY <1>7, <2>2 DEF InsertBatch, RetryRow
  <2>. QED  BY <2>1, <2>2
<1>8. ASSUME NEW t \in Tables, BatchFails(t) PROVE TxnControl'
  BY <1>8, <1>e DEF BatchFails, Engines
<1>9. ASSUME RollbackTo \/ Release PROVE TxnControl'
  BY <1>1, <1>9, <1>e DEF RollbackTo, Release
<1>10. ASSUME Commit \/ LoseCommitReply \/ RollbackDryRun PROVE TxnControl'
  BY <1>1, <1>10 DEF Commit, LoseCommitReply, RollbackDryRun, TakeEffect
<1>11. CASE UNCHANGED vars
  BY <1>11 DEF vars
<1>. QED
  BY <1>2, <1>3, <1>4, <1>5, <1>6, <1>7, <1>8, <1>9, <1>10, <1>11 DEF Next, Step, Terminated

LEMMA StepNothingPending ==
    ASSUME TxnControl, NothingPending, TypeInv, [Next]_vars
    PROVE  NothingPending'
<1> USE DEF NothingPending
<1>1. ASSUME NEW how, Abort(how) PROVE NothingPending'
  BY <1>1 DEF Abort
<1>2. ASSUME NEW t, NEW n, Raise(t, n), UNCHANGED <<work, disk, txn>> PROVE NothingPending'
  BY <1>2 DEF Raise
<1>3. ASSUME NEW t, NEW s, Insert(t, s), UNCHANGED txn PROVE NothingPending'
  BY <1>3 DEF Insert, Write, Generate, Raise, counters
<1>4. ASSUME Refuse \/ NothingToLoad \/ Decline \/ RefuseCycle \/ StatementFails \/ Crash
      PROVE  NothingPending'
  BY <1>1, <1>4 DEF Refuse, NothingToLoad, Decline, RefuseCycle, StatementFails, Crash
<1>5. ASSUME Plan \/ (\E r \in Tables \cup {NotLocal} : Accept(r)) \/ Begin \/ Defer
             \/ AllDeleted \/ AllLoaded \/ AllFixed \/ NothingToCommit \/ Upload \/ Finish
             \/ (\E t \in Tables : TableDone(t))
      PROVE  NothingPending'
  BY <1>5 DEF Plan, Accept, Begin, Defer, AllDeleted, AllLoaded, AllFixed, NothingToCommit,
     Upload, Finish, TableDone, store, counters, TxnControl
<1>6. ASSUME NEW t \in Tables, Delete(t) PROVE NothingPending'
  BY <1>1, <1>6 DEF Delete, Write, counters
<1>7. ASSUME NEW t \in Tables, CopyIn(t) \/ InsertSingle(t) \/ InsertBatch(t) \/ RetryRow(t)
      PROVE  NothingPending'
  <2>1. CASE \E how : Abort(how)
    BY <1>1, <2>1
  <2>2. CASE ~ \E how : Abort(how)
    BY <1>3, <1>7, <2>2 DEF CopyIn, InsertSingle, InsertBatch, RetryRow
  <2>. QED  BY <2>1, <2>2
<1>8. ASSUME NEW t \in Tables, Savepoint(t) \/ BatchFails(t) PROVE NothingPending'
  BY <1>1, <1>8 DEF Savepoint, BatchFails, counters
<1>9. ASSUME NEW t \in Tables, Fixup(t) \/ Alter(t) PROVE NothingPending'
  BY <1>2, <1>9 DEF Fixup, Alter, store
<1>10. CASE RollbackTo
  BY <1>1, <1>10 DEF RollbackTo, TxnControl, Batching, counters
<1>11. CASE Release
  BY <1>1, <1>11 DEF Release
<1>12. ASSUME Commit \/ LoseCommitReply \/ RollbackDryRun PROVE NothingPending'
  BY <1>1, <1>12 DEF Commit, LoseCommitReply, RollbackDryRun, TakeEffect
<1>13. CASE UNCHANGED vars
  BY <1>13 DEF vars
<1>. QED
  BY <1>4, <1>5, <1>6, <1>7, <1>8, <1>9, <1>10, <1>11, <1>12, <1>13 DEF Next, Step, Terminated

TxnInv == TypeInv /\ TxnControl /\ NothingPending

LEMMA TxnInvHolds == Spec => []TxnInv
<1>1. Init => TxnInv
  BY InitTypeInv, InitTxnControl DEF TxnInv
<1>2. TxnInv /\ [Next]_vars => TxnInv'
  BY NextTypeInv, StepTxnControl, StepNothingPending DEF TxnInv
<1>. QED  BY <1>1, <1>2, PTL DEF Spec

-----------------------------------------------------------------------------
(* Sequences. *)

\* The key generated next for t is new among these rows.
Fresh(rows, numbers, t) == \A r \in rows[t] : r.id < numbers[t]

\* The fixup is part of the transaction, but on MySQL, which would commit by it.
FixedEarly == job.fixSequences /\ ~FixupAfterCommit
FixedLate  == job.fixSequences /\ FixupAfterCommit /\ ~job.dryRun

FixedAhead ==
    exit = "ok" /\ ~job.dryRun /\ job.fixSequences =>
        \A t \in job.planned : Fresh(disk, seq, t)

\* The sequences of the tables the fixup is through with, before or after the
\* commit, are ahead.
SequencesFixed ==
    /\ exit = "ok" => pc = "done"
    /\ FixedEarly =>
         /\ pc = "fixup" => \A t \in job.planned \ todo : Fresh(work, mySeq, t)
         /\ pc = "commit" => \A t \in job.planned : Fresh(work, mySeq, t)
         /\ pc \in {"buckets", "alter"} /\ ~job.dryRun =>
              \A t \in job.planned : Fresh(disk, seq, t)
    /\ FixedLate /\ pc = "alter" => \A t \in job.planned \ todo : Fresh(disk, seq, t)
    /\ FixedAhead

LEMMA RaiseIsFresh ==
    ASSUME TypeInv, NEW t \in Tables, Raise(t, NextKey(work[t])), UNCHANGED <<work, job>>
    PROVE  /\ Fresh(work, mySeq, t)'
           /\ \A u \in Tables : u # t => mySeq'[u] = mySeq[u]
<1>1. \A r \in work[t] : r.id < NextKey(work[t])
  BY NextKeyAhead DEF TypeInv, TypeOK, Store
<1>2. mySeq' = [mySeq EXCEPT ![t] = NextKey(work[t])] /\ mySeq \in [Tables -> Nat]
  BY DEF Raise, TypeInv, TypeOK
<1>. QED  BY <1>1, <1>2 DEF Fresh

\* Before the fixup there is nothing to show.
LEMMA EarlySequencesFixed ==
    ASSUME pc' \notin {"fixup", "commit", "buckets", "alter", "done"}, exit' # "ok"
    PROVE  SequencesFixed'
BY DEF SequencesFixed, FixedAhead

LEMMA StepSequencesFixed ==
    ASSUME SequencesFixed, TxnInv, [Next]_vars
    PROVE  SequencesFixed'
<1>a. job.planned \subseteq Tables
  BY FieldTypes DEF TxnInv, TypeInv
<1>b. TxnInv'
  BY NextTypeInv, StepTxnControl, StepNothingPending DEF TxnInv
<1>0. CASE pc = "done"
  BY <1>0, DoneIsDone DEF vars, SequencesFixed, FixedAhead, Fresh, FixedEarly, FixedLate,
     FixupAfterCommit
<1>e. pc # "done" => exit # "ok"
  BY DEF SequencesFixed
<1>1. ASSUME NEW how, Abort(how), how # "ok" PROVE SequencesFixed'
  BY <1>1 DEF Abort, SequencesFixed, FixedAhead
<1>2. ASSUME Refuse \/ NothingToLoad \/ Decline \/ RefuseCycle \/ StatementFails \/ Crash
      PROVE  SequencesFixed'
  BY <1>1, <1>2 DEF Refuse, NothingToLoad, Decline, RefuseCycle, StatementFails, Crash
<1>3. ASSUME Plan \/ (\E r \in Tables \cup {NotLocal} : Accept(r)) \/ Begin \/ Defer
             \/ AllDeleted \/ (\E t \in Tables : TableDone(t))
      PROVE  SequencesFixed'
  <2>1. pc' \notin {"fixup", "commit", "buckets", "alter", "done"} /\ exit' = exit /\ pc # "done"
    BY <1>3 DEF Plan, Accept, Begin, Defer, AllDeleted, TableDone, ending
  <2>. QED  BY <1>e, <2>1, EarlySequencesFixed
<1>4. ASSUME NEW t \in Tables, Delete(t) \/ CopyIn(t) \/ InsertSingle(t) \/ InsertBatch(t)
                               \/ RetryRow(t) \/ Savepoint(t) \/ BatchFails(t)
      PROVE  SequencesFixed'
  <2>1. CASE Abort("error")
    BY <1>1, <2>1
  <2>2. CASE ~Abort("error")
    <3>1. /\ pc' \notin {"fixup", "commit", "buckets", "alter", "done"}
          /\ exit' = exit /\ pc # "done"
      BY <1>4, <2>2 DEF Delete, CopyIn, InsertSingle, InsertBatch, RetryRow, Savepoint,
         BatchFails, ending
    <3>. QED  BY <1>e, <3>1, EarlySequencesFixed
  <2>. QED  BY <2>1, <2>2
<1>5. ASSUME RollbackTo \/ Release PROVE SequencesFixed'
  <2>1. CASE Abort("error")
    BY <1>1, <2>1
  <2>2. CASE ~Abort("error")
    <3>1. /\ pc' \notin {"fixup", "commit", "buckets", "alter", "done"}
          /\ exit' = exit /\ pc # "done"
      BY <1>5, <2>2 DEF RollbackTo, Release, ending
    <3>. QED  BY <1>e, <3>1, EarlySequencesFixed
  <2>. QED  BY <2>1, <2>2
<1>6. CASE AllLoaded
  BY <1>e, <1>6 DEF AllLoaded, SequencesFixed, FixedAhead, ending
<1>7. ASSUME NEW t \in Tables, Fixup(t) PROVE SequencesFixed'
  <2>1. /\ pc = "fixup" /\ pc' = "fixup" /\ todo' = todo \ {t} /\ exit' = exit
        /\ work' = work /\ job' = job
    BY <1>7 DEF Fixup, store, ending
  <2>2. Fresh(work, mySeq, t)' /\ \A u \in Tables : u # t => mySeq'[u] = mySeq[u]
    BY <1>7, <2>1, RaiseIsFresh DEF Fixup, TxnInv
  <2>3. FixedEarly => \A u \in job.planned \ todo : Fresh(work, mySeq, u)
    BY <2>1 DEF SequencesFixed
  <2>4. FixedEarly' => \A u \in job'.planned \ todo' : Fresh(work, mySeq, u)'
    BY <1>a, <2>1, <2>2, <2>3 DEF Fresh, FixedEarly, FixupAfterCommit
  <2>. QED  BY <1>e, <2>1, <2>4 DEF SequencesFixed, FixedAhead
<1>8. CASE AllFixed
  <2>1. /\ pc = "fixup" /\ pc' = "commit" /\ UNCHANGED <<job, work, mySeq, exit, todo>>
        /\ FixedEarly => todo = {}
    BY <1>8 DEF AllFixed, store, counters, loop, ending, FixedEarly
  <2>. QED
    BY <1>e, <2>1 DEF SequencesFixed, FixedAhead, Fresh, FixedEarly, FixupAfterCommit
<1>9. CASE Commit
  <2>1. CASE Abort("error")
    BY <1>1, <2>1
  <2>2. CASE ~Abort("error")
    <3>1. /\ pc = "commit" /\ pc' = "buckets" /\ disk' = work /\ seq' = mySeq
          /\ UNCHANGED <<job, exit>>
      BY <1>9, <2>2 DEF Commit, TakeEffect
    <3>. QED
      BY <1>e, <3>1 DEF SequencesFixed, FixedAhead, Fresh, FixedEarly, FixupAfterCommit
  <2>. QED  BY <2>1, <2>2
<1>10. CASE LoseCommitReply
  BY <1>10 DEF LoseCommitReply, SequencesFixed, FixedAhead
<1>11. CASE RollbackDryRun
  BY <1>e, <1>11 DEF RollbackDryRun, SequencesFixed, FixedAhead, ending
<1>12. CASE NothingToCommit
  <2>1. /\ pc = "commit" /\ pc' = "buckets" /\ UNCHANGED <<job, exit, disk, seq, work, mySeq>>
        /\ txn = "none"
    BY <1>12 DEF NothingToCommit, store, counters, ending, TxnInv, TxnControl
  <2>2. disk = work /\ seq = mySeq
    BY <2>1 DEF TxnInv, NothingPending
  <2>. QED
    BY <1>e, <2>1, <2>2 DEF SequencesFixed, FixedAhead, Fresh, FixedEarly, FixupAfterCommit
<1>13. CASE Upload
  <2>1. /\ pc = "buckets" /\ pc' = "alter" /\ UNCHANGED <<job, exit, disk, seq>>
        /\ todo' = job.planned
    BY <1>13 DEF Upload, store, counters
  <2>. QED
    BY <1>e, <2>1 DEF SequencesFixed, FixedAhead, Fresh, FixedEarly, FixupAfterCommit
<1>14. ASSUME NEW t \in Tables, Alter(t) PROVE SequencesFixed'
  <2>1. /\ pc = "alter" /\ pc' = "alter" /\ todo' = todo \ {t} /\ exit' = exit
        /\ work' = work /\ disk' = disk /\ job' = job /\ ~FixedEarly
    BY <1>14 DEF Alter, store, ending, FixedEarly
  <2>2. Fresh(work, mySeq, t)' /\ \A u \in Tables : u # t => mySeq'[u] = mySeq[u]
    BY <1>14, <2>1, RaiseIsFresh DEF Alter, TxnInv
  <2>3. disk = work /\ seq = mySeq /\ disk' = work' /\ seq' = mySeq'
    BY <1>b, <2>1 DEF TxnInv, TxnControl, NothingPending
  <2>4. \A u \in job'.planned \ todo' : FixedLate' => Fresh(disk, seq, u)'
    BY <1>a, <2>1, <2>2, <2>3 DEF SequencesFixed, Fresh, FixedLate, FixupAfterCommit
  <2>. QED
    BY <1>e, <2>1, <2>4 DEF SequencesFixed, FixedAhead, FixedEarly, FixupAfterCommit
<1>15. CASE Finish
  <2>1. /\ pc = "alter" /\ pc' = "done" /\ UNCHANGED <<job, disk, seq>>
        /\ FixedLate => todo = {}
    BY <1>15 DEF Finish, store, counters, FixedLate
  <2>2. job.fixSequences /\ ~job.dryRun => \A t \in job.planned : Fresh(disk, seq, t)
    BY <2>1 DEF SequencesFixed, FixedEarly, FixedLate
  <2>. QED  BY <2>1, <2>2 DEF SequencesFixed, FixedAhead, Fresh
<1>16. CASE UNCHANGED vars
  BY <1>16 DEF vars, SequencesFixed, FixedAhead, Fresh, FixedEarly, FixedLate,
     FixupAfterCommit
<1>. QED
  BY <1>0, <1>2, <1>3, <1>4, <1>5, <1>6, <1>7, <1>8, <1>9, <1>10, <1>11, <1>12, <1>13,
     <1>14, <1>15, <1>16 DEF Next, Step, Terminated

LEMMA SequencesFixedHolds == Spec => []SequencesFixed
<1>1. Init => SequencesFixed
  BY DEF Init, SequencesFixed, FixedAhead
<1>2. TxnInv /\ SequencesFixed /\ [Next]_vars => SequencesFixed'
  BY StepSequencesFixed
<1>. QED  BY <1>1, <1>2, TxnInvHolds, PTL DEF Spec

-----------------------------------------------------------------------------
(* What a load that ends well has done. *)

\* The rows are all there before the first object is sent, and stay.
RowsDelivered ==
    /\ uploaded => pc \in {"alter", "done"} /\ ~job.dryRun
    /\ exit = "ok" => pc = "done"
    /\ ~job.dryRun /\ (pc \in {"buckets", "alter"} \/ uploaded \/ exit = "ok") =>
          disk = Loaded(job)

OutcomeInv == TxnInv /\ IInv /\ Regular

LEMMA OutcomeInvHolds == Spec /\ Regular => []OutcomeInv
<1>1. Init /\ Regular => OutcomeInv
  BY InitTypeInv, InitTxnControl, InitIInv DEF OutcomeInv, TxnInv
<1>2. OutcomeInv /\ [Next]_vars => OutcomeInv'
  BY NextTypeInv, StepTxnControl, StepNothingPending, NextIInv, SameRegular
     DEF OutcomeInv, TxnInv, Kept, TookEffect
<1>. QED  BY <1>1, <1>2, PTL DEF Spec

LEMMA StepRowsDelivered ==
    ASSUME RowsDelivered, OutcomeInv, [Next]_vars
    PROVE  RowsDelivered'
<1>0. CASE pc = "done"
  BY <1>0, DoneIsDone DEF vars, RowsDelivered
<1>e. pc # "done" => exit # "ok"
  BY DEF RowsDelivered
<1>1. ASSUME NEW how, Abort(how), how # "ok", pc # "done" PROVE RowsDelivered'
  BY <1>1 DEF Abort, RowsDelivered
<1>2. ASSUME Refuse \/ NothingToLoad \/ Decline \/ RefuseCycle \/ StatementFails \/ Crash
      PROVE  RowsDelivered'
  BY <1>1, <1>2 DEF Refuse, NothingToLoad, Decline, RefuseCycle, StatementFails, Crash
<1>3. ASSUME pc \notin {"buckets", "alter", "done"}, pc' \notin {"buckets", "alter", "done"},
             UNCHANGED <<exit, uploaded, job>>
      PROVE  RowsDelivered'
  BY <1>3 DEF RowsDelivered
<1>4. ASSUME Plan \/ (\E r \in Tables \cup {NotLocal} : Accept(r)) \/ Begin \/ Defer
             \/ AllDeleted \/ AllLoaded \/ AllFixed
             \/ (\E t \in Tables : TableDone(t) \/ Fixup(t))
      PROVE  RowsDelivered'
  BY <1>3, <1>4 DEF Plan, Accept, Begin, Defer, AllDeleted, AllLoaded, AllFixed, TableDone,
     Fixup, ending
<1>5. ASSUME NEW t \in Tables, Delete(t) \/ CopyIn(t) \/ InsertSingle(t) \/ InsertBatch(t)
                               \/ RetryRow(t) \/ Savepoint(t) \/ BatchFails(t)
      PROVE  RowsDelivered'
  <2>1. pc \notin {"buckets", "alter", "done"}
    BY <1>5 DEF Delete, CopyIn, InsertSingle, InsertBatch, RetryRow, Savepoint, BatchFails
  <2>2. CASE Abort("error")
    BY <1>1, <2>1, <2>2
  <2>3. CASE ~Abort("error")
    <3>1. pc' \notin {"buckets", "alter", "done"} /\ UNCHANGED <<exit, uploaded, job>>
      BY <1>5, <2>3 DEF Delete, CopyIn, InsertSingle, InsertBatch, RetryRow, Savepoint,
         BatchFails, ending
    <3>. QED  BY <1>3, <2>1, <3>1
  <2>. QED  BY <2>2, <2>3
<1>6. ASSUME RollbackTo \/ Release PROVE RowsDelivered'
  <2>1. CASE Abort("error")
    BY <1>1, <1>6, <2>1 DEF RollbackTo, Release
  <2>2. CASE ~Abort("error")
    BY <1>3, <1>6, <2>2 DEF RollbackTo, Release, ending
  <2>. QED  BY <2>1, <2>2
<1>7. ASSUME Commit \/ LoseCommitReply PROVE RowsDelivered'
  <2>1. pc = "commit" /\ work = Loaded(job)
    BY <1>7 DEF Commit, LoseCommitReply, OutcomeInv, IInv, WorkIsSound
  <2>2. CASE Abort("error")
    BY <1>1, <2>1, <2>2
  <2>3. CASE ~Abort("error")
    <3>1. /\ disk' = work /\ job' = job /\ uploaded' = uploaded /\ exit' # "ok"
      BY <1>e, <1>7, <2>1, <2>3 DEF Commit, LoseCommitReply, TakeEffect
    <3>. QED  BY <2>1, <3>1 DEF RowsDelivered
  <2>. QED  BY <2>2, <2>3
<1>8. CASE RollbackDryRun
  BY <1>8 DEF RollbackDryRun, RowsDelivered, ending
<1>9. CASE NothingToCommit
  <2>1. /\ pc = "commit" /\ work = Loaded(job) /\ txn = "none"
        /\ UNCHANGED <<job, disk, exit, uploaded>>
    BY <1>9 DEF NothingToCommit, OutcomeInv, IInv, WorkIsSound, TxnInv, TxnControl, store,
       ending
  <2>2. disk = work
    BY <2>1 DEF OutcomeInv, TxnInv, NothingPending
  <2>. QED  BY <1>e, <2>1, <2>2 DEF RowsDelivered
<1>10. ASSUME Upload \/ Finish \/ \E t \in Tables : Alter(t) PROVE RowsDelivered'
  <2>1. /\ pc \in {"buckets", "alter"} /\ pc' \in {"alter", "done"}
        /\ job' = job /\ disk' = disk
        /\ uploaded' => uploaded \/ ~job.dryRun
        /\ exit' # exit => pc' = "done"
    <3>1. CASE Upload
      <4>1. job.dryRun \in BOOLEAN /\ job.buckets \in BOOLEAN
        BY DEF OutcomeInv, TxnInv, TypeInv, TypeOK, JobType
      <4>. QED  BY <3>1, <4>1 DEF Upload, store
    <3>2. CASE Finish
      BY <3>2 DEF Finish, store
    <3>3. ASSUME NEW t \in Tables, Alter(t)
          PROVE  /\ pc = "alter" /\ pc' = "alter" /\ job' = job /\ disk' = disk
                 /\ uploaded' = uploaded /\ exit' = exit
      BY <3>3 DEF Alter, store, ending
    <3>. QED  BY <1>10, <3>1, <3>2, <3>3
  <2>. QED  BY <1>e, <2>1 DEF RowsDelivered
<1>11. CASE UNCHANGED vars
  BY <1>11 DEF vars, RowsDelivered
<1>. QED
  BY <1>0, <1>2, <1>4, <1>5, <1>6, <1>7, <1>8, <1>9, <1>10, <1>11 DEF Next, Step, Terminated

LEMMA RowsDeliveredHolds == Spec /\ Regular => []RowsDelivered
<1>1. Init => RowsDelivered
  BY DEF Init, RowsDelivered
<1>2. OutcomeInv /\ RowsDelivered /\ [Next]_vars => RowsDelivered'
  BY StepRowsDelivered
<1>. QED  BY <1>1, <1>2, OutcomeInvHolds, PTL DEF Spec

\* No object is sent before all the rows that go with it are there for everyone,
\* in a transaction or not, unless an INSERT IGNORE may have dropped rows.
THEOREM ObjectsFollowRows == Spec /\ Regular => []ObjectsHaveRows
<1>1. RowsDelivered => ObjectsHaveRows
  BY DEF RowsDelivered, ObjectsHaveRows
<1>. QED  BY <1>1, RowsDeliveredHolds, PTL

\* A load that reports success has left exactly what the seed files ask for.
THEOREM SuccessMeansLoaded ==
    Spec /\ Regular => [](exit = "ok" /\ ~job.dryRun => disk = Loaded(job))
<1>1. RowsDelivered => (exit = "ok" /\ ~job.dryRun => disk = Loaded(job))
  BY DEF RowsDelivered
<1>. QED  BY <1>1, RowsDeliveredHolds, PTL

-----------------------------------------------------------------------------
(* Loads that cannot fail. *)

\* A statement for the next rows of the table whose turn it is violates nothing.
LEMMA NextRowsAccepted ==
    ASSUME IInv, Permitted, OwnParentsFirst, pc \in Loading, NEW t \in Tables, First(t),
           NEW l \in (next - 1)..Len(job.seed[t]), NEW s, IsPortion(t, s, l)
    PROVE  Accepts(t, s)
<1>1. /\ t \in todo /\ t \in job.planned /\ job \in Jobs /\ TypeInv /\ WorkSoFar
      /\ next \in Nat \ {0}
  BY DEF First, IInv, TypeInv, TypeOK, WorkIsSound, WorkSoFar
<1>2. job.seed[t] \in Seq(Row) /\ Len(job.seed[t]) \in Nat /\ l \in Nat
  BY <1>1, FieldTypes, LenProperties
<1>3. work[t] = Merge(job.mode[t], Base(t), Rows(t, 1, next - 1))
  BY <1>1 DEF WorkSoFar, Written, Part
<1>4. /\ Range(s) \subseteq Range(job.seed[t]) /\ Range(s) = Rows(t, next, l)
      /\ DOMAIN s = 1..(l - next + 1)
  BY <1>1, PortionRows
<1>5. ~Clashes(job.mode[t], work[t], Range(s))
  <2> SUFFICES ASSUME job.mode[t] \in {"insert", "truncate_first"}
               PROVE  KeysOf(work[t]) \cap KeysOf(Range(s)) = {}
    BY DEF Clashes
  <2>1. KeysOf(work[t]) \subseteq KeysOf(Base(t)) \cup KeysOf(Rows(t, 1, next - 1))
    BY <1>3 DEF Merge, KeysOf
  <2>2. KeysOf(Rows(t, 1, next - 1)) \cap KeysOf(Range(s)) = {}
    <3>1. ~HasDuplicates(job.seed[t])
      BY <1>1 DEF Permitted
    <3>2. next - 1 \in Nat /\ (next - 1) + 1 = next
      BY <1>1
    <3>3. KeysOf(Rows(t, 1, next - 1)) \cap KeysOf(Rows(t, (next - 1) + 1, l)) = {}
      BY <1>1, <3>1, <3>2, RowsApart
    <3>. QED  BY <1>4, <3>2, <3>3
  <2>3. KeysOf(Base(t)) \cap KeysOf(Range(s)) = {}
    <3>1. CASE job.mode[t] = "truncate_first"
      BY <1>1, <3>1 DEF Base, Truncated, KeysOf
    <3>2. CASE job.mode[t] = "insert"
      <4>1. KeysOf(job.before[t]) \cap KeysOf(Range(job.seed[t])) = {}
        BY <1>1, <3>2 DEF Permitted
      <4>. QED  BY <1>4, <4>1 DEF Base, KeysOf
    <3>. QED  BY <3>1, <3>2
  <2>. QED  BY <2>1, <2>2, <2>3
<1>6. ASSUME NEW k \in DOMAIN s,
             ~(job.mode[t] = "skip_existing" /\ s[k].id \in KeysOf(work[t])),
             NEW x \in s[k].refs
      PROVE  ParentOf(t, s, k, x)
  <2>1. job.mode[t] = "skip_existing" => KeysOf(job.before[t]) \subseteq KeysOf(work[t])
    BY <1>3 DEF Merge, Base, Truncated, KeysOf
  <2>2. ~(job.mode[t] = "skip_existing" /\ s[k].id \in KeysOf(job.before[t]))
    BY <1>6, <2>1
  <2>3. Present(work, x) \/ (x[1] = t /\ \E i \in 1..k : s[i].id = x[2])
    BY <1>1, <2>2, ParentsAreThere
  <2>4. \A i \in 1..k : i \in DOMAIN s /\ i <= k
    BY <1>1, <1>2, <1>4
  <2>. QED  BY <2>3, <2>4 DEF ParentOf
<1>. QED
  <2>. HIDE DEF Checked, Swallows, ParentOf
  <2>. QED  BY <1>5, <1>6 DEF Accepts

\* Nothing but its own rows refers to the table that is emptied next any more.
LEMMA NextDeleteAccepted ==
    ASSUME IInv, Permitted, OwnParentsFirst, NEW t \in Tables, pc = "delete", Last(t)
    PROVE  AcceptsDelete(t)
<1>1. /\ job \in Jobs /\ t \in todo /\ t \in job.planned /\ job.mode[t] = "truncate_first"
      /\ \A u \in Tables :
            work[u] = IF u \in Truncated(job) \ todo THEN {} ELSE job.before[u]
  BY DEF IInv, TypeInv, PlanIsSound, WorkIsSound, Last, Truncated
<1> SUFFICES ASSUME NEW u \in Tables, NEW r \in work[u], NEW x \in r.refs, x[1] = t
             PROVE  u = t /\ (job.engine = "mysql" => r.id <= x[2])
  BY DEF AcceptsDelete
<1>2. r \in job.before[u] /\ (u \in Truncated(job) => u \in todo)
  BY <1>1
<1>3. x \in Tables \X Keys /\ x = <<x[1], x[2]>>
  BY <1>1, <1>2, FieldTypes DEF Store, Row
<1>4. RefersTo(job.before[u], t) /\ RefersTo(job.before[u] \cup Range(job.seed[u]), t)
  BY <1>2, <1>3 DEF RefersTo
<1>5. u \in todo
  BY <1>1, <1>2, <1>4 DEF Permitted
<1>6. u = t
  <2> SUFFICES ASSUME u # t PROVE FALSE
    OBVIOUS
  <2>1. job.place[t] < job.place[u]
    BY <1>1, <1>4, OrderAssumption DEF Permitted
  <2>2. job.place[t] \in Nat /\ job.place[u] \in Nat
    BY <1>1, FieldTypes
  <2>. QED  BY <1>5, <2>1, <2>2 DEF Last
<1>. QED  BY <1>1, <1>2, <1>6 DEF OwnParentsFirst, Truncated

\* A chunk of one row is never batched.
LEMMA SingleChunks ==
    ASSUME job \in Jobs, NEW t \in Tables, NEW n \in Nat \ {0}, PerBatch = 1
    PROVE  ~(n < ChunkEnd(t, n))
<1>1. Len(job.seed[t]) \in Nat
  BY FieldTypes, LenProperties
<1>2. ((n - 1) \div 1 + 1) * 1 = n
  OBVIOUS
<1>. QED  BY <1>1, <1>2 DEF ChunkEnd

BatchesAreLarge == pc \in Batching => PerBatch # 1

LEMMA StepBatchesAreLarge ==
    ASSUME BatchesAreLarge, TypeInv, [Next]_vars
    PROVE  BatchesAreLarge'
<1>1. job' = job => PerBatch' = PerBatch
  BY DEF PerBatch
<1>2. ASSUME NEW t \in Tables, Savepoint(t) PROVE BatchesAreLarge'
  <2>1. PerBatch # 1
    BY <1>2, SingleChunks DEF Savepoint, TypeInv, TypeOK
  <2>2. job' = job
    BY <1>2 DEF Savepoint, Abort
  <2>. QED  BY <1>1, <2>1, <2>2 DEF BatchesAreLarge
<1>3. ASSUME job' = job, pc' \in Batching => pc \in Batching PROVE BatchesAreLarge'
  BY <1>1, <1>3 DEF BatchesAreLarge
<1>4. ASSUME Refuse \/ NothingToLoad \/ Plan \/ (\E r \in Tables \cup {NotLocal} : Accept(r))
             \/ Decline \/ Begin \/ Defer \/ RefuseCycle \/ AllDeleted \/ AllLoaded
             \/ AllFixed \/ Commit \/ LoseCommitReply \/ RollbackDryRun \/ NothingToCommit
             \/ Upload \/ Finish \/ StatementFails \/ Crash
      PROVE  job' = job /\ pc' \notin Batching
  BY <1>4 DEF Refuse, NothingToLoad, Plan, Accept, Decline, Begin, Defer, RefuseCycle,
     AllDeleted, AllLoaded, AllFixed, Commit, LoseCommitReply, RollbackDryRun,
     NothingToCommit, Upload, Finish, StatementFails, Crash, Abort, Batching
<1>5. ASSUME NEW t \in Tables, Delete(t) \/ CopyIn(t) \/ InsertSingle(t) \/ TableDone(t)
                               \/ Fixup(t) \/ Alter(t)
      PROVE  job' = job /\ pc' \notin Batching
  BY <1>5 DEF Delete, CopyIn, InsertSingle, TableDone, Fixup, Alter, Abort, Batching
<1>6. ASSUME NEW t \in Tables, InsertBatch(t) \/ BatchFails(t) \/ RetryRow(t)
      PROVE  job' = job /\ pc \in Batching
  BY <1>6 DEF InsertBatch, BatchFails, RetryRow, Abort, Batching
<1>7. ASSUME RollbackTo \/ Release PROVE job' = job /\ pc \in Batching
  BY <1>7 DEF RollbackTo, Release, Abort, Batching
<1>8. CASE UNCHANGED vars
  BY <1>3, <1>8 DEF vars
<1>. QED
  BY <1>2, <1>3, <1>4, <1>5, <1>6, <1>7, <1>8 DEF Next, Step, Terminated

\* Where a load that can succeed stands.
LoadableInv == OutcomeInv /\ KeysHold /\ BatchesAreLarge /\ Loadable

LEMMA LoadableInvHolds == Spec /\ Loadable => []LoadableInv
<1>1. Loadable => Regular
  BY DEF Loadable, Regular
<1>2. Init /\ Loadable => LoadableInv
  <2>1. Init => KeysHold /\ BatchesAreLarge
    BY DEF Init, KeysHold, Linked, PutOff, BatchesAreLarge, Batching
  <2>2. Init => TypeInv /\ TxnControl /\ NothingPending /\ IInv
    BY InitTypeInv, InitTxnControl, InitIInv
  <2>. QED  BY <1>1, <2>1, <2>2 DEF LoadableInv, OutcomeInv, TxnInv
<1>3. LoadableInv /\ [Next]_vars => LoadableInv'
  <2> SUFFICES ASSUME LoadableInv, [Next]_vars PROVE LoadableInv'
    OBVIOUS
  <2>1. TypeInv /\ TxnControl /\ NothingPending /\ IInv /\ Regular
    BY DEF LoadableInv, OutcomeInv, TxnInv
  <2>2. TypeInv' /\ TxnControl' /\ NothingPending' /\ IInv' /\ job' = job
    BY <2>1, NextTypeInv, StepTxnControl, StepNothingPending, NextIInv DEF Kept, TookEffect
  <2>3. KeysHold' /\ BatchesAreLarge'
    BY <2>1, StepKeysHold, StepBatchesAreLarge DEF LoadableInv
  <2>4. Loadable'
    BY <2>2 DEF LoadableInv, Loadable, Permitted, OwnParentsFirst, PerBatch
  <2>5. Regular'
    BY <2>1, <2>2, SameRegular
  <2>. QED  BY <2>2, <2>3, <2>4, <2>5 DEF LoadableInv, OutcomeInv, TxnInv
<1>. QED  BY <1>2, <1>3, PTL DEF Spec

LEMMA LoadableStep ==
    ASSUME LoadableInv, [Next]_vars, exit # "error", exit' = "error"
    PROVE  faults' > faults
<1> SUFFICES ASSUME ~(faults' > faults) PROVE FALSE
  OBVIOUS
<1>1. /\ TypeInv /\ TxnControl /\ IInv /\ KeysHold /\ BatchesAreLarge
      /\ Permitted /\ OwnParentsFirst /\ job \in Jobs /\ todo \subseteq Tables
      /\ next \in Nat \ {0} /\ faults \in Nat
      /\ job.noTransaction => PerBatch = 1 \/ job.engine = "sqlite"
      /\ job.noTransaction \in BOOLEAN
  BY FieldTypes, MaxFaultsAssumption
     DEF LoadableInv, OutcomeInv, TxnInv, Loadable, TypeInv, TypeOK, JobType
<1>2. ~(StatementFails \/ LoseCommitReply)
  BY <1>1 DEF StatementFails, LoseCommitReply
<1>3. ~(Refuse \/ NothingToLoad \/ Decline \/ RefuseCycle \/ Crash)
  BY DEF Refuse, NothingToLoad, Decline, RefuseCycle, Crash, Abort
<1>4. ~(Plan \/ (\E r \in Tables \cup {NotLocal} : Accept(r)) \/ Begin \/ Defer
        \/ AllDeleted \/ AllLoaded \/ AllFixed \/ RollbackDryRun \/ NothingToCommit
        \/ Upload \/ Finish \/ UNCHANGED vars)
  BY DEF Plan, Accept, Begin, Defer, AllDeleted, AllLoaded, AllFixed, RollbackDryRun,
     NothingToCommit, Upload, Finish, ending, vars
<1>5. ASSUME NEW t \in Tables PROVE ~(TableDone(t) \/ Fixup(t) \/ Alter(t) \/ BatchFails(t)
                                      \/ InsertBatch(t))
  BY DEF TableDone, Fixup, Alter, BatchFails, InsertBatch, ending
<1>6. ASSUME NEW t \in Tables, Delete(t) PROVE FALSE
  <2>1. AcceptsDelete(t)
    BY <1>1, <1>6, NextDeleteAccepted DEF Delete
  <2>. QED  BY <1>6, <2>1 DEF Delete, ending
<1>7. ASSUME NEW t \in Tables, First(t), pc \in Loading, next <= Len(job.seed[t])
      PROVE  Accepts(t, OneRow(t))
  <2>1. IsPortion(t, OneRow(t), next)
    BY <1>1, <1>7, ChunkRows
  <2>2. next \in (next - 1)..Len(job.seed[t])
    BY <1>1, <1>7, FieldTypes, LenProperties
  <2>. QED  BY <1>1, <1>7, <2>1, <2>2, NextRowsAccepted
<1>8. ASSUME NEW t \in Tables, InsertSingle(t) \/ RetryRow(t) PROVE FALSE
  <2>1. First(t) /\ pc \in Loading /\ next <= Len(job.seed[t])
    BY <1>1, <1>8 DEF InsertSingle, RetryRow, Loading, Batching, TypeInv, RowsLeft
  <2>2. Accepts(t, OneRow(t))
    BY <1>7, <2>1
  <2>. QED  BY <1>8, <2>2 DEF InsertSingle, RetryRow, ending
<1>9. ASSUME NEW t \in Tables, CopyIn(t) PROVE FALSE
  <2>1. First(t) /\ pc \in Loading /\ next = 1 /\ t \in job.planned
    BY <1>1, <1>9 DEF CopyIn, First, Loading, IInv, CursorIsSound, TypeInv, TypeOK
  <2>2. job.seed[t] \in Seq(Row) /\ Len(job.seed[t]) \in (next - 1)..Len(job.seed[t])
    BY <1>1, <2>1, FieldTypes, LenProperties
  <2>3. IsPortion(t, job.seed[t], Len(job.seed[t]))
    BY <1>1, <2>1, FileRows
  <2>4. Accepts(t, job.seed[t])
    BY <1>1, <2>1, <2>2, <2>3, NextRowsAccepted
  <2>. QED  BY <1>9, <2>4 DEF CopyIn, ending
<1>10. ASSUME NEW t \in Tables, Savepoint(t) PROVE FALSE
  <2>1. job.engine = "postgres" /\ txn = "none"
    BY <1>10 DEF Savepoint, ending
  <2>2. PerBatch = 1
    BY <1>1, <1>10, <2>1 DEF Savepoint, TxnControl
  <2>. QED  BY <1>1, <1>10, <2>2, SingleChunks DEF Savepoint
<1>11. ASSUME RollbackTo \/ Release PROVE FALSE
  <2>1. job.engine = "mysql" /\ txn = "none" /\ pc \in Batching
    BY <1>11 DEF RollbackTo, Release, ending, Batching
  <2>. QED  BY <1>1, <2>1 DEF TxnControl, BatchesAreLarge
<1>12. ASSUME Commit PROVE FALSE
  <2>1. ~deferred
    BY <1>1 DEF KeysHold, Permitted
  <2>. QED  BY <1>12, <2>1 DEF Commit
<1>. QED
  BY <1>2, <1>3, <1>4, <1>5, <1>6, <1>8, <1>9, <1>10, <1>11, <1>12 DEF Next, Step, Terminated

\* A load that the constraints permit never runs into one: emptying the children
\* first and filling the parents first suffices on every engine, in every mode,
\* with every batch size and after every failed batch.  Only a single statement
\* that fails for another reason ends it with an error.
THEOREM PermittedLoadsSucceed == Spec => LoadableLoadsSucceed
<1>1. LoadableInv /\ [Next]_vars =>
         [Loadable /\ exit # "error" /\ exit' = "error" => faults' > faults]_vars
  BY LoadableStep
<1>2. ~Loadable /\ [Next]_vars => [Loadable /\ exit # "error" /\ exit' = "error" => faults' > faults]_vars
  OBVIOUS
<1>3. TypeInv /\ ~Loadable /\ [Next]_vars => ~Loadable'
  <2>1. [Next]_vars => job' = job
    BY SameJob
  <2>. QED  BY <2>1 DEF Loadable, Permitted, OwnParentsFirst, PerBatch
<1>. QED  BY <1>1, <1>2, <1>3, LoadableInvHolds, TypeInvHolds, PTL DEF Spec, LoadableLoadsSucceed

-----------------------------------------------------------------------------
(* Loading again. *)

Clean == \A t \in job.planned : ~HasDuplicates(job.seed[t])

\* The plan, without regard to the rows written.
PlanFollowed ==
    /\ pc \notin {"check", "done"} \/ disk # job.before => Clean
    /\ pc = "delete" => todo \subseteq Truncated(job)

LEMMA StepPlanFollowed ==
    ASSUME PlanFollowed, TypeInv, [Next]_vars
    PROVE  PlanFollowed'
<1>1. job' = job /\ (Clean' <=> Clean)
  BY SameJob DEF Clean
<1>2. pc' \notin {"check", "done"} \/ disk' # job'.before => Clean'
  <2>1. CASE pc \notin {"check", "done"}
    BY <1>1, <2>1 DEF PlanFollowed
  <2>2. CASE pc = "done"
    <3>1. disk' = disk /\ pc' = pc
      BY <2>2, DoneIsDone DEF vars
    <3>. QED  BY <1>1, <3>1 DEF PlanFollowed
  <2>3. CASE pc = "check"
    <3>1. Refuse \/ NothingToLoad \/ Plan \/ Crash \/ UNCHANGED vars
      <4>1. ~ \E t \in Tables : \/ Delete(t) \/ CopyIn(t) \/ InsertSingle(t) \/ Savepoint(t)
                                \/ InsertBatch(t) \/ BatchFails(t) \/ RetryRow(t)
                                \/ TableDone(t) \/ Fixup(t) \/ Alter(t)
        BY <2>3 DEF Delete, CopyIn, InsertSingle, Savepoint, InsertBatch, BatchFails,
           RetryRow, TableDone, Fixup, Alter
      <4>2. ~(\/ (\E r \in Tables \cup {NotLocal} : Accept(r)) \/ Decline \/ Begin \/ Defer
              \/ RefuseCycle \/ AllDeleted \/ AllLoaded \/ AllFixed \/ Commit
              \/ LoseCommitReply \/ RollbackDryRun \/ NothingToCommit \/ Upload \/ Finish
              \/ StatementFails \/ RollbackTo \/ Release)
        BY <2>3 DEF Accept, Decline, Begin, Defer, RefuseCycle, AllDeleted, AllLoaded,
           AllFixed, Commit, LoseCommitReply, RollbackDryRun, NothingToCommit, Upload,
           Finish, StatementFails, RollbackTo, Release
      <4>. QED  BY <4>1, <4>2 DEF Next, Step, Terminated
    <3>2. CASE Plan
      BY <1>1, <3>2 DEF Plan, Clean
    <3>3. ASSUME ~Plan PROVE disk' = disk /\ pc' \in {"check", "done"}
      BY <2>3, <3>1, <3>3 DEF Refuse, NothingToLoad, Crash, Abort, vars
    <3>. QED  BY <1>1, <3>2, <3>3 DEF PlanFollowed
  <2>. QED  BY <2>1, <2>2, <2>3
<1>3. pc' = "delete" => todo' \subseteq Truncated(job')
  <2> SUFFICES ASSUME pc' = "delete" PROVE todo' \subseteq Truncated(job)
    BY <1>1
  <2>1. CASE Defer
    BY <2>1 DEF Defer
  <2>2. ASSUME NEW t \in Tables, Delete(t) PROVE todo' \subseteq Truncated(job)
    BY <2>2 DEF Delete, Abort, PlanFollowed
  <2>3. CASE UNCHANGED vars
    BY <2>3 DEF vars, PlanFollowed
  <2>4. ~ \E t \in Tables : \/ CopyIn(t) \/ InsertSingle(t) \/ Savepoint(t)
                            \/ InsertBatch(t) \/ BatchFails(t) \/ RetryRow(t)
                            \/ TableDone(t) \/ Fixup(t) \/ Alter(t)
    BY DEF CopyIn, InsertSingle, Savepoint, InsertBatch, BatchFails,
       RetryRow, TableDone, Fixup, Alter, Abort
  <2>5. ~(\/ (\E r \in Tables \cup {NotLocal} : Accept(r)) \/ Decline \/ Begin
          \/ RefuseCycle \/ AllDeleted \/ AllLoaded \/ AllFixed \/ Commit
          \/ LoseCommitReply \/ RollbackDryRun \/ NothingToCommit \/ Upload \/ Finish
          \/ StatementFails \/ RollbackTo \/ Release \/ Refuse \/ NothingToLoad \/ Plan \/ Crash)
    BY DEF Accept, Decline, Begin, RefuseCycle, AllDeleted, AllLoaded,
       AllFixed, Commit, LoseCommitReply, RollbackDryRun, NothingToCommit, Upload,
       Finish, StatementFails, RollbackTo, Release, Refuse, NothingToLoad, Plan, Crash, Abort
  <2>. QED  BY <2>1, <2>2, <2>3, <2>4, <2>5 DEF Next, Step, Terminated
<1>. QED  BY <1>2, <1>3 DEF PlanFollowed

\* From the rows db of table t a load makes what it makes of the rows before.
Resumable(db, t) ==
    /\ t \notin job.planned => db[t] = job.before[t]
    /\ t \in job.planned /\ job.mode[t] = "skip_existing" =>
         /\ job.before[t] \subseteq db[t]
         /\ \A r \in db[t] : \/ r \in job.before[t]
                             \/ r \in Range(job.seed[t]) /\ r.id \notin KeysOf(job.before[t])
    /\ t \in job.planned /\ job.mode[t] = "upsert" =>
         \A r : r.id \notin KeysOf(Range(job.seed[t])) => (r \in db[t] <=> r \in job.before[t])

\* Rows that only a TRUNCATE takes away.
KeysKept(db, t) == t \in Truncated(job) \/ KeysOf(disk[t]) \subseteq KeysOf(db[t])

ReloadInv ==
    \A t \in Tables :
        /\ Resumable(disk, t) /\ Resumable(work, t) /\ KeysKept(work, t)
        /\ pc \in {"batch", "undo"} => Resumable(mark, t) /\ KeysKept(mark, t)

\* The rows of a statement come from the seed file of its table.
LEMMA StatementRows ==
    ASSUME TypeInv, NEW t \in Tables
    PROVE  /\ RowsTaken(t, job.seed[t]) \subseteq Range(job.seed[t])
           /\ next <= Len(job.seed[t]) =>
                /\ RowsTaken(t, Chunk(t)) \subseteq Range(job.seed[t])
                /\ RowsTaken(t, OneRow(t)) \subseteq Range(job.seed[t])
<1>1. \A s : RowsTaken(t, s) \subseteq Range(s)
  <2>. HIDE DEF Ignored, Swallows
  <2>. QED  BY DEF RowsTaken, Range
<1>2. ASSUME next <= Len(job.seed[t])
      PROVE  Range(Chunk(t)) \subseteq Range(job.seed[t]) /\ Range(OneRow(t)) \subseteq Range(job.seed[t])
  <2>1. /\ ChunkEnd(t, next) \in next..Len(job.seed[t]) /\ next \in Nat \ {0}
        /\ Range(Chunk(t)) = Rows(t, next, ChunkEnd(t, next))
        /\ Range(OneRow(t)) = Rows(t, next, next)
    BY <1>2, ChunkRows DEF TypeInv, TypeOK
  <2>2. job.seed[t] \in Seq(Row) /\ Len(job.seed[t]) \in Nat /\ DOMAIN job.seed[t] = 1..Len(job.seed[t])
    BY FieldTypes, LenProperties DEF TypeInv
  <2>3. \A i \in next..ChunkEnd(t, next) : i \in DOMAIN job.seed[t]
    <3>. HIDE DEF ChunkEnd
    <3>. QED  BY <2>1, <2>2
  <2>4. \A i \in next..next : i \in DOMAIN job.seed[t]
    BY <1>2, <2>1, <2>2
  <2>. HIDE DEF ChunkEnd
  <2>. QED  BY <2>1, <2>3, <2>4 DEF Rows, Range
<1>. QED  BY <1>1, <1>2

LEMMA WriteReloadInv ==
    ASSUME ReloadInv, NEW rows, Write(rows), job' = job, pc' \notin {"batch", "undo"},
           \A t \in Tables : Resumable(rows, t) /\ KeysKept(rows, t)
    PROVE  ReloadInv'
BY DEF ReloadInv, Write, Resumable, KeysKept, Truncated

LEMMA InsertReloadInv ==
    ASSUME ReloadInv, TypeInv, NEW t \in job.planned, NEW s,
           RowsTaken(t, s) \subseteq Range(job.seed[t]),
           Insert(t, s), job' = job, pc' \notin {"batch", "undo"}
    PROVE  ReloadInv'
<1> DEFINE W == Inserted(t, s)
           R == RowsTaken(t, s)
<1>0. t \in Tables
  BY FieldTypes DEF TypeInv
<1>1. \A u \in Tables : W[u] = IF u = t THEN Merge(job.mode[t], work[t], R) ELSE work[u]
  BY <1>0, InsertedTable
<1>2. \A u \in Tables : KeysKept(W, u)
  <2>1. KeysOf(work[t]) \subseteq KeysOf(Merge(job.mode[t], work[t], R))
    BY MergeKeys
  <2>. HIDE DEF W, R
  <2>. QED  BY <1>1, <2>1 DEF ReloadInv, KeysKept
<1>3. Resumable(W, t)
  <2>1. Resumable(work, t)
    BY <1>0 DEF ReloadInv
  <2>2. W[t] = Merge(job.mode[t], work[t], R)
    BY <1>0, <1>1
  <2>3. CASE job.mode[t] = "skip_existing"
    <3>1. KeysOf(job.before[t]) \subseteq KeysOf(work[t])
      BY <2>1, <2>3 DEF Resumable, KeysOf
    <3>2. W[t] = work[t] \cup {r \in R : r.id \notin KeysOf(work[t])}
      BY <2>2, <2>3 DEF Merge
    <3>. HIDE DEF W, R
    <3>. QED  BY <2>1, <2>3, <3>1, <3>2 DEF Resumable, R
  <2>4. CASE job.mode[t] = "upsert"
    <3>1. W[t] = {r \in work[t] : r.id \notin KeysOf(R)} \cup R
      BY <2>2, <2>4 DEF Merge
    <3>2. R \subseteq Range(job.seed[t]) /\ KeysOf(R) \subseteq KeysOf(Range(job.seed[t]))
      BY DEF KeysOf
    <3>3. \A r \in R : r.id \in KeysOf(Range(job.seed[t]))
      BY <3>2 DEF KeysOf
    <3>. HIDE DEF W, R
    <3>. QED  BY <2>1, <2>4, <3>1, <3>2, <3>3 DEF Resumable
  <2>5. CASE job.mode[t] \notin {"skip_existing", "upsert"}
    BY <2>5 DEF Resumable
  <2>. QED  BY <2>3, <2>4, <2>5
<1>4. \A u \in Tables : Resumable(W, u)
  <2> SUFFICES ASSUME NEW u \in Tables, u # t PROVE Resumable(W, u)
    BY <1>3
  <2>1. W[u] = work[u] /\ Resumable(work, u)
    BY <1>1 DEF ReloadInv
  <2>. HIDE DEF W
  <2>. QED  BY <2>1 DEF Resumable
<1>. QED  BY <1>2, <1>4, WriteReloadInv DEF Insert

LEMMA DeleteReloadInv ==
    ASSUME ReloadInv, TypeInv, NEW t \in Truncated(job), Write([work EXCEPT ![t] = {}]),
           job' = job, pc' \notin {"batch", "undo"}
    PROVE  ReloadInv'
<1> DEFINE W == [work EXCEPT ![t] = {}]
<1>1. \A u \in Tables : W[u] = IF u = t THEN {} ELSE work[u]
  BY DEF TypeInv, TypeOK, Store
<1>2. t \in job.planned /\ job.mode[t] = "truncate_first"
  BY DEF Truncated
<1>3. \A u \in Tables : Resumable(W, u) /\ KeysKept(W, u)
  <2> SUFFICES ASSUME NEW u \in Tables PROVE Resumable(W, u) /\ KeysKept(W, u)
    OBVIOUS
  <2>. HIDE DEF W
  <2>1. CASE u = t
    BY <1>2, <2>1 DEF Resumable, KeysKept
  <2>2. CASE u # t
    BY <1>1, <2>2 DEF ReloadInv, Resumable, KeysKept
  <2>. QED  BY <2>1, <2>2
<1>. QED  BY <1>3, WriteReloadInv

\* Steps that only move rows between what this session sees, what the others see
\* and what it may return to.
LEMMA MoveReloadInv ==
    ASSUME ReloadInv, job' = job,
           \/ disk' = disk /\ (work' \in {work, disk} \/ (pc = "undo" /\ work' = mark))
           \/ disk' = work /\ work' = work,
           pc' \in {"batch", "undo"} =>
             disk' = disk /\ (mark' = work \/ (pc \in {"batch", "undo"} /\ mark' = mark))
    PROVE  ReloadInv'
BY DEF ReloadInv, Resumable, KeysKept, Truncated

LEMMA StepReloadInv ==
    ASSUME ReloadInv, PlanFollowed, TypeInv, [Next]_vars
    PROVE  ReloadInv'
<1>0. job' = job
  BY SameJob
<1>1. ASSUME NEW how, Abort(how) PROVE ReloadInv'
  BY <1>0, <1>1, MoveReloadInv DEF Abort
<1>2. ASSUME Refuse \/ NothingToLoad \/ Decline \/ RefuseCycle \/ StatementFails \/ Crash
      PROVE  ReloadInv'
  BY <1>1, <1>2 DEF Refuse, NothingToLoad, Decline, RefuseCycle, StatementFails, Crash
<1>3. ASSUME Plan \/ (\E r \in Tables \cup {NotLocal} : Accept(r)) \/ Begin \/ Defer
             \/ AllDeleted \/ AllLoaded \/ AllFixed \/ NothingToCommit \/ Upload \/ Finish
             \/ (\E t \in Tables : TableDone(t) \/ Fixup(t) \/ Alter(t))
      PROVE  ReloadInv'
  <2>1. disk' = disk /\ work' = work /\ pc' \notin {"batch", "undo"}
    BY <1>3 DEF Plan, Accept, Begin, Defer, AllDeleted, AllLoaded, AllFixed, NothingToCommit,
       Upload, Finish, TableDone, Fixup, Alter, store
  <2>. QED  BY <1>0, <2>1, MoveReloadInv
<1>4. ASSUME NEW t \in Tables, Delete(t) PROVE ReloadInv'
  <2>1. CASE AcceptsDelete(t)
    BY <1>0, <1>4, <2>1, DeleteReloadInv DEF Delete, Last, PlanFollowed
  <2>2. CASE ~AcceptsDelete(t)
    BY <1>1, <1>4, <2>2 DEF Delete
  <2>. QED  BY <2>1, <2>2
<1>5. ASSUME NEW t \in Tables, CopyIn(t) \/ InsertSingle(t) \/ InsertBatch(t) \/ RetryRow(t)
      PROVE  ReloadInv'
  <2>1. CASE Abort("error")
    BY <1>1, <2>1
  <2>2. CASE ~Abort("error")
    <3>1. t \in job.planned
      BY <1>5 DEF CopyIn, InsertSingle, InsertBatch, RetryRow, First, TypeInv, TypeOK
    <3>2. PICK s \in {job.seed[t], Chunk(t), OneRow(t)} :
             /\ Insert(t, s) /\ pc' \notin {"batch", "undo"}
             /\ s = job.seed[t] \/ next <= Len(job.seed[t])
      BY <1>5, <2>2 DEF CopyIn, InsertSingle, InsertBatch, RetryRow, TypeInv, RowsLeft
    <3>3. RowsTaken(t, s) \subseteq Range(job.seed[t])
      BY <3>2, StatementRows
    <3>. QED  BY <1>0, <3>1, <3>2, <3>3, InsertReloadInv
  <2>. QED  BY <2>1, <2>2
<1>6. ASSUME NEW t \in Tables, Savepoint(t) \/ BatchFails(t) PROVE ReloadInv'
  <2>1. CASE Abort("error")
    BY <1>1, <2>1
  <2>2. CASE ~Abort("error")
    BY <1>0, <1>6, <2>2, MoveReloadInv DEF Savepoint, BatchFails
  <2>. QED  BY <2>1, <2>2
<1>7. ASSUME RollbackTo \/ Release PROVE ReloadInv'
  <2>1. CASE Abort("error")
    BY <1>1, <2>1
  <2>2. CASE ~Abort("error")
    BY <1>0, <1>7, <2>2, MoveReloadInv DEF RollbackTo, Release
  <2>. QED  BY <2>1, <2>2
<1>8. ASSUME Commit \/ LoseCommitReply \/ RollbackDryRun PROVE ReloadInv'
  <2>1. CASE Abort("error")
    BY <1>1, <2>1
  <2>2. CASE ~Abort("error")
    BY <1>0, <1>8, <2>2, MoveReloadInv DEF Commit, LoseCommitReply, RollbackDryRun, TakeEffect
  <2>. QED  BY <2>1, <2>2
<1>9. CASE UNCHANGED vars
  BY <1>0, <1>9, MoveReloadInv DEF vars
<1>. QED
  BY <1>2, <1>3, <1>4, <1>5, <1>6, <1>7, <1>8, <1>9 DEF Next, Step, Terminated

LEMMA ReloadInvHolds == Spec => [](TypeInv /\ PlanFollowed /\ ReloadInv)
<1>1. Init => PlanFollowed /\ ReloadInv
  BY DEF Init, PlanFollowed, ReloadInv, Resumable, KeysKept
<1>2. TypeInv /\ PlanFollowed /\ ReloadInv /\ [Next]_vars => PlanFollowed' /\ ReloadInv'
  BY StepPlanFollowed, StepReloadInv
<1>. QED  BY <1>1, <1>2, TypeInvHolds, PTL DEF Spec

\* From whatever a load left behind, a second load makes what the first was to
\* make, also where the first was never to touch a table or died between any two
\* statements outside a transaction.  Only plain inserts cannot be repeated.
THEOREM SecondLoadConverges == Spec => []RerunConverges
<1>1. TypeInv /\ PlanFollowed /\ ReloadInv => RerunConverges
  <2> SUFFICES ASSUME TypeInv, PlanFollowed, ReloadInv, pc = "done",
                      \A t \in job.planned : job.mode[t] # "insert"
               PROVE  Loaded([job EXCEPT !.before = disk]) = Loaded(job)
    BY DEF RerunConverges
  <2> DEFINE again == [job EXCEPT !.before = disk]
  <2>1. /\ again.before = disk /\ again.planned = job.planned /\ again.mode = job.mode
        /\ again.seed = job.seed
    BY DEF TypeInv, TypeOK, JobType
  <2>2. Truncated(again) = Truncated(job)
    BY <2>1 DEF Truncated
  <2>. HIDE DEF again
  <2>3. ASSUME NEW t \in job.planned, t \notin Truncated(job)
        PROVE  Merge(job.mode[t], disk[t], Range(job.seed[t]))
                  = Merge(job.mode[t], job.before[t], Range(job.seed[t]))
    <3>1. t \in Tables /\ job.mode[t] \in {"upsert", "skip_existing"}
      BY <2>3, FieldTypes DEF TypeInv, Truncated, Modes
    <3>2. Resumable(disk, t)
      BY <3>1 DEF ReloadInv
    <3>3. CASE job.mode[t] = "upsert"
      BY <3>2, <3>3 DEF Merge, Resumable
    <3>4. CASE job.mode[t] = "skip_existing" /\ disk = job.before
      BY <3>4
    <3>5. CASE job.mode[t] = "skip_existing" /\ disk # job.before
      <4>1. ~HasDuplicates(job.seed[t])
        BY <3>5 DEF PlanFollowed, Clean
      <4>2. \A q, r \in Range(job.seed[t]) : q.id = r.id => q = r
        BY <4>1 DEF HasDuplicates, Range
      <4> DEFINE S == disk[t]
                 B == job.before[t]
                 R == Range(job.seed[t])
      <4>3. /\ B \subseteq S
            /\ \A r \in S : r \in B \/ (r \in R /\ r.id \notin KeysOf(B))
        BY <3>2, <3>5 DEF Resumable
      <4>. HIDE DEF S, B, R
      <4>4. \A q, r \in R : q.id = r.id => q = r
        BY <4>2 DEF R
      <4>5. \A r \in R : r.id \notin KeysOf(B) /\ r.id \in KeysOf(S) => r \in S
        <5> SUFFICES ASSUME NEW r \in R, r.id \notin KeysOf(B), NEW q \in S, q.id = r.id
                     PROVE  r \in S
          BY DEF KeysOf
        <5>1. q \notin B
          BY DEF KeysOf
        <5>. QED  BY <4>3, <4>4, <5>1
      <4>6. KeysOf(B) \subseteq KeysOf(S)
        BY <4>3 DEF KeysOf
      <4>7. S \cup {r \in R : r.id \notin KeysOf(S)} = B \cup {r \in R : r.id \notin KeysOf(B)}
        BY <4>3, <4>5, <4>6
      <4>. QED  BY <3>5, <4>7 DEF Merge, S, B, R
    <3>. QED  BY <3>1, <3>3, <3>4, <3>5
  <2>4. \A t \in Tables \ job.planned : disk[t] = job.before[t]
    BY DEF ReloadInv, Resumable
  <2>5. Loaded(again) = Loaded(job)
    BY <2>1, <2>2, <2>3, <2>4 DEF Loaded
  <2>. QED  BY <2>5 DEF again
<1>. QED  BY <1>1, ReloadInvHolds, PTL

-----------------------------------------------------------------------------
(* Sequences, before and without a fixup. *)

\* The tables whose number is ahead whatever a fixup does.
StaysAhead(t) ==
    \/ job.engine # "postgres"
    \/ /\ ~job.noTransaction /\ ~committed
       /\ job.fixSequences => t \notin Truncated(job)

\* Only SQLite has a number of its own inside the transaction.  MySQL and SQLite
\* keep theirs above the rows of this session as well, which is where a commit
\* takes the rows from; and a batch is undone to the rows it started from.
NumbersAhead ==
    /\ job.engine # "sqlite" => seq = mySeq
    /\ pc \in {"batch", "undo"} => mark = work
    /\ \A t \in Tables : StaysAhead(t) => Fresh(disk, seq, t)
    /\ job.engine # "postgres" => \A t \in Tables : Fresh(work, mySeq, t)

LEMMA InitNumbersAhead == Init => NumbersAhead
<1> SUFFICES ASSUME Init PROVE NumbersAhead
  OBVIOUS
<1>1. job.before \in Store /\ disk = job.before /\ work = job.before /\ mySeq = seq
  BY FieldTypes DEF Init
<1>2. \A t \in Tables : seq[t] = NextKey(job.before[t])
  BY DEF Init
<1>3. \A t \in Tables : Fresh(disk, seq, t)
  BY <1>1, <1>2, NextKeyAhead DEF Fresh, Store
<1>. QED  BY <1>1, <1>3 DEF NumbersAhead, Fresh, Init

\* Steps that leave what the others see alone, and this session with what it sees
\* or with what the others see.
LEMMA QuietNumbersAhead ==
    ASSUME NumbersAhead, job' = job, UNCHANGED <<disk, seq>>,
           \/ UNCHANGED <<work, mySeq>>
           \/ work' = disk /\ mySeq' = seq,
           committed' = committed,
           pc' \in {"batch", "undo"} =>
             work' = work /\ (mark' = work \/ (pc \in {"batch", "undo"} /\ mark' = mark))
    PROVE  NumbersAhead'
BY DEF NumbersAhead, StaysAhead, Fresh, Truncated

\* What this session sees takes effect.  Postgres is past what is claimed then.
LEMMA EffectNumbersAhead ==
    ASSUME NumbersAhead, job' = job, disk' = work, seq' = mySeq, UNCHANGED <<work, mySeq>>,
           job.engine # "postgres" \/ committed', pc' \notin {"batch", "undo"}
    PROVE  NumbersAhead'
BY DEF NumbersAhead, StaysAhead, Fresh, Truncated

\* The rows of t are replaced, and its number raised if they are above it.
LEMMA WriteNumbersAhead ==
    ASSUME NumbersAhead, TxnInv, NEW t \in Tables, NEW R, R \in Store,
           \A u \in Tables : u # t => R[u] = work[u],
           Write(R), Generate(t, R[t]) \/ (R[t] = {} /\ UNCHANGED counters),
           job' = job, committed' = committed, pc' \notin {"batch", "undo"},
           job.noTransaction \/ txn # "none"
    PROVE  NumbersAhead'
<1>a. /\ seq \in [Tables -> Nat] /\ mySeq \in [Tables -> Nat]
      /\ disk \in Store /\ work \in Store
  BY DEF TxnInv, TypeInv, TypeOK
<1>b. \A u \in Tables : \A r \in R[u] \cup disk[u] : r.id \in Nat
  <2>1. \A u \in Tables : R[u] \subseteq Row /\ disk[u] \subseteq Row
    BY <1>a DEF Store
  <2>2. \A r \in Row : r.id \in Nat
    BY SortsAssumption DEF Row
  <2>. QED  BY <2>1, <2>2
<1>c. work' = R /\ disk' = IF txn = "none" THEN R ELSE disk
  BY DEF Write
<1>d. txn = "none" => work = disk /\ mySeq = seq
  BY DEF TxnInv, NothingPending
<1>1. CASE job.engine = "postgres"
  <2>1. UNCHANGED <<seq, mySeq>>
    BY <1>1 DEF Generate, counters
  <2>2. \A u : StaysAhead(u)' => StaysAhead(u) /\ txn # "none"
    BY <1>1 DEF StaysAhead, Truncated
  <2>3. \A u \in Tables : StaysAhead(u)' => Fresh(disk, seq, u)'
    BY <1>c, <2>1, <2>2 DEF NumbersAhead, Fresh
  <2>. QED  BY <1>1, <2>1, <2>3 DEF NumbersAhead
<1>2. CASE job.engine # "postgres"
  <2>0. /\ \A u \in Tables : Fresh(disk, seq, u) /\ Fresh(work, mySeq, u)
        /\ job.engine # "sqlite" => seq = mySeq
    BY <1>2 DEF NumbersAhead, StaysAhead
  <2>1. CASE UNCHANGED counters
    <3>1. seq' = seq /\ mySeq' = mySeq
      BY <2>1 DEF counters
    <3>2. \A r \in R[t] : r.id < mySeq[t]
      <4>1. CASE R[t] = {}
        BY <4>1
      <4>2. CASE Generate(t, R[t]) /\ NextKey(R[t]) <= mySeq[t]
        <5>1. NextKey(R[t]) \in Nat /\ \A r \in R[t] : r.id < NextKey(R[t])
          BY NextKeyAhead DEF Store
        <5>. QED  BY <1>a, <1>b, <4>2, <5>1
      <4>3. CASE Generate(t, R[t]) /\ ~(NextKey(R[t]) <= mySeq[t])
        <5>1. NextKey(R[t]) \in Nat
          BY NextKeyAhead DEF Store
        <5>2. mySeq'[t] = NextKey(R[t])
          BY <1>2, <1>a, <4>3 DEF Generate, Raise
        <5>. QED  BY <1>a, <3>1, <4>3, <5>1, <5>2
      <4>. QED  BY <4>1, <4>2, <4>3
    <3>3. \A u \in Tables : Fresh(work, mySeq, u)'
      BY <1>c, <2>0, <3>1, <3>2 DEF Fresh
    <3>4. \A u \in Tables : Fresh(disk, seq, u)'
      BY <1>c, <1>d, <2>0, <3>1, <3>3 DEF Fresh
    <3>. QED  BY <2>0, <3>1, <3>3, <3>4 DEF NumbersAhead
  <2>2. CASE ~ UNCHANGED counters
    <3> DEFINE n == NextKey(R[t])
    <3>1. n \in Nat /\ \A r \in R[t] : r.id < n
      BY NextKeyAhead DEF Store
    <3>2. Raise(t, n) /\ ~(n <= mySeq[t])
      BY <2>2 DEF Generate
    <3>. HIDE DEF n
    <3>3. /\ mySeq' = [mySeq EXCEPT ![t] = n]
          /\ seq' = IF job.engine = "sqlite" /\ txn # "none" THEN seq
                    ELSE [seq EXCEPT ![t] = n]
      BY <3>2 DEF Raise
    <3>4. \A u \in Tables : Fresh(work, mySeq, u)'
      BY <1>a, <1>c, <2>0, <3>1, <3>3 DEF Fresh
    <3>5. CASE job.engine = "sqlite" /\ txn # "none"
      <4>1. \A u \in Tables : Fresh(disk, seq, u)'
        BY <1>c, <2>0, <3>3, <3>5 DEF Fresh
      <4>. QED  BY <3>4, <3>5, <4>1 DEF NumbersAhead
    <3>6. CASE ~(job.engine = "sqlite" /\ txn # "none")
      <4>1. seq = mySeq
        BY <1>d, <2>0, <3>6
      <4>2. seq' = mySeq' /\ seq[t] < n
        BY <1>a, <3>1, <3>2, <3>3, <3>6, <4>1
      <4>3. \A r \in disk[t] : r.id < n
        BY <1>a, <1>b, <2>0, <3>1, <4>2 DEF Fresh
      <4>4. \A u \in Tables : Fresh(disk, seq, u)'
        BY <1>a, <1>c, <2>0, <3>3, <3>4, <4>2, <4>3 DEF Fresh
      <4>. QED  BY <3>4, <4>2, <4>4 DEF NumbersAhead
    <3>. QED  BY <3>5, <3>6
  <2>. QED  BY <2>1, <2>2
<1>. QED  BY <1>1, <1>2

\* The fixup sets the number to the first above the rows this session sees: these
\* have the keys the others see, or the table is to be emptied.
LEMMA FixupNumbersAhead ==
    ASSUME NumbersAhead, TxnInv, ReloadInv, NEW t \in Tables,
           Raise(t, NextKey(work[t])), UNCHANGED store, job' = job, committed' = committed,
           job.fixSequences, job.engine = "mysql" => txn = "none",
           pc' \notin {"batch", "undo"}
    PROVE  NumbersAhead'
<1> DEFINE n == NextKey(work[t])
<1>a. /\ seq \in [Tables -> Nat] /\ mySeq \in [Tables -> Nat]
      /\ disk' = disk /\ work' = work /\ work[t] \in SUBSET Row
  BY DEF TxnInv, TypeInv, TypeOK, store, Store
<1>b. txn = "none" => work = disk
  BY DEF TxnInv, NothingPending
<1>1. n \in Nat /\ \A r \in work[t] : r.id < n
  BY <1>a, NextKeyAhead
<1>2. KeysOf(disk[t]) \subseteq KeysOf(work[t]) => \A r \in disk[t] : r.id < n
  <2>. HIDE DEF n
  <2>. QED  BY <1>1 DEF KeysOf
<1>3. /\ mySeq' = [mySeq EXCEPT ![t] = n]
      /\ seq' = IF job.engine = "sqlite" /\ txn # "none" THEN seq ELSE [seq EXCEPT ![t] = n]
  BY DEF Raise
<1>. HIDE DEF n
<1>4. job.engine # "postgres" => \A u \in Tables : Fresh(work, mySeq, u)'
  BY <1>a, <1>1, <1>3 DEF NumbersAhead, Fresh
<1>5. ASSUME StaysAhead(t), ~(job.engine = "sqlite" /\ txn # "none")
      PROVE  \A r \in disk[t] : r.id < n
  <2>1. CASE job.engine = "postgres"
    <3>1. t \notin Truncated(job)
      BY <1>5, <2>1 DEF StaysAhead
    <3>. QED  BY <1>2, <3>1 DEF ReloadInv, KeysKept
  <2>2. CASE txn = "none"
    BY <1>1, <1>b, <2>2
  <2>3. job.engine \in Engines
    BY DEF TxnInv, TypeInv, TypeOK, JobType
  <2>. QED  BY <1>5, <2>1, <2>2, <2>3 DEF Engines
<1>6. \A u \in Tables : StaysAhead(u)' => StaysAhead(u)
  BY DEF StaysAhead, Truncated
<1>7. \A u \in Tables : StaysAhead(u)' => Fresh(disk, seq, u)'
  BY <1>a, <1>3, <1>5, <1>6 DEF NumbersAhead, Fresh
<1>8. job.engine # "sqlite" => seq' = mySeq'
  BY <1>3 DEF NumbersAhead
<1>. QED  BY <1>4, <1>7, <1>8 DEF NumbersAhead

LEMMA StepNumbersAhead ==
    ASSUME NumbersAhead, TxnInv, ReloadInv, [Next]_vars
    PROVE  NumbersAhead'
<1>0. job' = job
  BY SameJob
<1>1. ASSUME NEW how, Abort(how) PROVE NumbersAhead'
  BY <1>0, <1>1, QuietNumbersAhead DEF Abort
<1>2. ASSUME Refuse \/ NothingToLoad \/ Decline \/ RefuseCycle \/ StatementFails \/ Crash
      PROVE  NumbersAhead'
  BY <1>1, <1>2 DEF Refuse, NothingToLoad, Decline, RefuseCycle, StatementFails, Crash
<1>3. ASSUME Plan \/ (\E r \in Tables \cup {NotLocal} : Accept(r)) \/ Begin \/ Defer
             \/ AllDeleted \/ AllLoaded \/ AllFixed \/ NothingToCommit \/ Upload \/ Finish
             \/ (\E t \in Tables : TableDone(t))
      PROVE  NumbersAhead'
  <2>1. /\ UNCHANGED <<disk, seq, work, mySeq, committed>>
        /\ pc' \notin {"batch", "undo"}
    BY <1>3 DEF Plan, Accept, Begin, Defer, AllDeleted, AllLoaded, AllFixed, NothingToCommit,
       Upload, Finish, TableDone, store, counters, ending
  <2>. QED  BY <1>0, <2>1, QuietNumbersAhead
<1>4. ASSUME NEW t \in Tables, Delete(t) PROVE NumbersAhead'
  <2>1. CASE AcceptsDelete(t)
    <3> DEFINE R == [work EXCEPT ![t] = {}]
    <3>1. /\ Write(R) /\ UNCHANGED counters /\ committed' = committed /\ pc' = "delete"
          /\ pc = "delete"
      BY <1>4, <2>1 DEF Delete, ending
    <3>2. R \in Store /\ R[t] = {} /\ \A u \in Tables : u # t => R[u] = work[u]
      BY DEF TxnInv, TypeInv, TypeOK, Store
    <3>3. job.noTransaction \/ txn # "none"
      BY <3>1 DEF TxnInv, TxnControl
    <3>. HIDE DEF R
    <3>. QED  BY <1>0, <3>1, <3>2, <3>3, WriteNumbersAhead
  <2>2. CASE ~AcceptsDelete(t)
    BY <1>1, <1>4, <2>2 DEF Delete
  <2>. QED  BY <2>1, <2>2
<1>5. ASSUME NEW t \in Tables, CopyIn(t) \/ InsertSingle(t) \/ InsertBatch(t) \/ RetryRow(t)
      PROVE  NumbersAhead'
  <2>1. CASE Abort("error")
    BY <1>1, <2>1
  <2>2. CASE ~Abort("error")
    <3>1. PICK s \in {job.seed[t], Chunk(t), OneRow(t)} :
             /\ Insert(t, s) /\ pc' \notin {"batch", "undo"} /\ committed' = committed
             /\ s = job.seed[t] \/ next <= Len(job.seed[t])
      BY <1>5, <2>2 DEF CopyIn, InsertSingle, InsertBatch, RetryRow, TxnInv, TypeInv, RowsLeft,
         ending
    <3>2. s \in Seq(Row)
      BY <3>1, FieldTypes, ChunkTyped, RowTyped DEF TxnInv, TypeInv
    <3>3. pc \in {"load", "batch", "retry"}
      BY <1>5 DEF CopyIn, InsertSingle, InsertBatch, RetryRow
    <3>4. job.noTransaction \/ txn # "none"
      BY <3>3 DEF TxnInv, TxnControl, Batching
    <3> DEFINE R == Inserted(t, s)
    <3>5. R \in Store
      BY <3>1, <3>2, InsertTyped DEF Insert, Write, TxnInv
    <3>6. \A u \in Tables : u # t => R[u] = work[u]
      BY InsertedTable DEF TxnInv
    <3>7. Write(R) /\ Generate(t, R[t])
      BY <3>1 DEF Insert
    <3>. HIDE DEF R
    <3>. QED  BY <1>0, <3>1, <3>4, <3>5, <3>6, <3>7, WriteNumbersAhead
  <2>. QED  BY <2>1, <2>2
<1>6. ASSUME NEW t \in Tables, Savepoint(t) \/ BatchFails(t) PROVE NumbersAhead'
  <2>1. CASE Abort("error")
    BY <1>1, <2>1
  <2>2. CASE ~Abort("error")
    BY <1>0, <1>6, <2>2, QuietNumbersAhead DEF Savepoint, BatchFails, counters, ending
  <2>. QED  BY <2>1, <2>2
<1>7. CASE RollbackTo
  <2>1. CASE Abort("error")
    BY <1>1, <2>1
  <2>2. CASE ~Abort("error")
    <3>1. /\ work' = work /\ pc' = "retry" /\ committed' = committed
          /\ UNCHANGED <<disk, seq, mySeq>>
      BY <1>7, <2>2 DEF RollbackTo, NumbersAhead, counters, ending
    <3>. QED  BY <1>0, <3>1, QuietNumbersAhead
  <2>. QED  BY <2>1, <2>2
<1>8. CASE Release
  <2>1. CASE Abort("error")
    BY <1>1, <2>1
  <2>2. CASE ~Abort("error") /\ txn # "savepoint"
    BY <1>0, <1>8, <2>2, QuietNumbersAhead DEF Release, ending
  <2>3. CASE ~Abort("error") /\ txn = "savepoint"
    <3>1. job.engine = "sqlite" /\ pc' = "load"
      BY <1>8, <2>3 DEF Release, TxnInv, TxnControl, Batching
    <3>. QED  BY <1>0, <1>8, <2>3, <3>1, EffectNumbersAhead DEF Release
  <2>. QED  BY <2>1, <2>2, <2>3
<1>9. ASSUME NEW t \in Tables, Fixup(t) \/ Alter(t) PROVE NumbersAhead'
  <2>1. /\ Raise(t, NextKey(work[t])) /\ UNCHANGED store /\ committed' = committed
        /\ job.fixSequences /\ pc' \notin {"batch", "undo"}
    BY <1>9 DEF Fixup, Alter, ending
  <2>2. job.engine = "mysql" => txn = "none"
    BY <1>9 DEF Fixup, Alter, FixupAfterCommit, TxnInv, TxnControl
  <2>. QED  BY <1>0, <2>1, <2>2, FixupNumbersAhead
<1>10. CASE Commit \/ LoseCommitReply
  <2>1. CASE Abort("error")
    BY <1>1, <2>1
  <2>2. CASE ~Abort("error")
    BY <1>0, <1>10, <2>2, EffectNumbersAhead DEF Commit, LoseCommitReply, TakeEffect
  <2>. QED  BY <2>1, <2>2
<1>11. CASE RollbackDryRun
  BY <1>0, <1>11, QuietNumbersAhead DEF RollbackDryRun, ending
<1>12. CASE UNCHANGED vars
  BY <1>0, <1>12, QuietNumbersAhead DEF vars
<1>. QED
  BY <1>2, <1>3, <1>4, <1>5, <1>6, <1>7, <1>8, <1>9, <1>10, <1>11, <1>12
     DEF Next, Step, Terminated

\* The key generated next is new: on every engine after a load with fix_sequences,
\* with or without a transaction; at every moment of any load into MySQL and
\* SQLite; and on Postgres, where setval cannot be rolled back, up to the commit,
\* however the load ends, in every table but one that was to be emptied.
THEOREM GeneratedKeysAreNew == Spec => []SequencesAhead
<1>1. TxnInv /\ ReloadInv /\ NumbersAhead /\ [Next]_vars => NumbersAhead'
  BY StepNumbersAhead
<1>2. SequencesFixed /\ NumbersAhead => SequencesAhead
  BY DEF SequencesFixed, FixedAhead, NumbersAhead, StaysAhead, Fresh, SequencesAhead,
     MustBeAhead
<1>. QED
  BY <1>1, <1>2, InitNumbersAhead, TxnInvHolds, ReloadInvHolds, SequencesFixedHolds, PTL
     DEF Spec

-----------------------------------------------------------------------------
(* Consent. *)

\* Behind the confirmation everything was agreed to.
Agreed ==
    /\ pc \notin {"check", "done"} => ~job.readOnly
    /\ pc \notin {"check", "confirm", "done"} => job.dryRun \/ Reasons \subseteq accepted

LEMMA StepAgreed ==
    ASSUME Agreed, [Next]_vars
    PROVE  Agreed'
<1>0. job' = job /\ Reasons' = Reasons
  BY SameJob DEF Reasons, Truncated
<1>1. ASSUME pc' = "done" PROVE Agreed'
  BY <1>1 DEF Agreed
<1>2. ASSUME pc \notin {"check", "confirm", "done"}, accepted' = accepted PROVE Agreed'
  BY <1>0, <1>2 DEF Agreed
<1>3. CASE Refuse \/ NothingToLoad \/ Decline \/ RefuseCycle \/ StatementFails \/ Crash
           \/ Finish \/ LoseCommitReply
  BY <1>1, <1>3 DEF Refuse, NothingToLoad, Decline, RefuseCycle, StatementFails, Crash, Abort,
     Finish, LoseCommitReply
<1>4. CASE Plan \/ Begin \/ \E r \in Tables \cup {NotLocal} : Accept(r)
  BY <1>0, <1>4 DEF Plan, Begin, Accept, Agreed
<1>5. CASE Defer \/ AllDeleted \/ AllLoaded \/ AllFixed \/ Commit \/ RollbackDryRun
           \/ NothingToCommit \/ Upload \/ RollbackTo \/ Release
  BY <1>2, <1>5 DEF Defer, AllDeleted, AllLoaded, AllFixed, Commit, RollbackDryRun,
     NothingToCommit, Upload, RollbackTo, Release, Abort
<1>6. ASSUME NEW t \in Tables, \/ Delete(t) \/ CopyIn(t) \/ InsertSingle(t) \/ Savepoint(t)
                               \/ InsertBatch(t) \/ BatchFails(t) \/ RetryRow(t)
                               \/ TableDone(t) \/ Fixup(t) \/ Alter(t)
      PROVE  Agreed'
  BY <1>2, <1>6 DEF Delete, CopyIn, InsertSingle, Savepoint, InsertBatch, BatchFails, RetryRow,
     TableDone, Fixup, Alter, Abort
<1>7. CASE UNCHANGED vars
  BY <1>0, <1>7 DEF vars, Agreed
<1>. QED
  BY <1>3, <1>4, <1>5, <1>6, <1>7 DEF Next, Step, Terminated

KeysGrow == \A t \in Tables \ Truncated(job) : KeysOf(work[t]) \subseteq KeysOf(work'[t])

\* A step that changes the rows others see makes them what this session sees.  It
\* is a statement outside a transaction or one that commits, and no dry run.
LEMMA ChangesAreWork ==
    ASSUME TypeInv, TxnControl, PlanFollowed, [Next]_vars, disk' # disk
    PROVE  /\ disk' = work' /\ KeysGrow
           /\ pc \notin {"check", "confirm", "done"}
           /\ job.dryRun => job.noTransaction
<1>0. job.noTransaction \in BOOLEAN /\ job.dryRun \in BOOLEAN
  BY DEF TypeInv, TypeOK, JobType
<1>1. ~ \E how : Abort(how)
  BY DEF Abort
<1>2. ~(Refuse \/ NothingToLoad \/ Decline \/ RefuseCycle \/ StatementFails \/ Crash)
  BY <1>1 DEF Refuse, NothingToLoad, Decline, RefuseCycle, StatementFails, Crash
<1>3. ~(Plan \/ (\E r \in Tables \cup {NotLocal} : Accept(r)) \/ Begin \/ Defer
        \/ AllDeleted \/ AllLoaded \/ AllFixed \/ NothingToCommit \/ Upload \/ Finish
        \/ RollbackTo \/ RollbackDryRun \/ UNCHANGED vars)
  BY <1>1 DEF Plan, Accept, Begin, Defer, AllDeleted, AllLoaded, AllFixed, NothingToCommit,
     Upload, Finish, RollbackTo, RollbackDryRun, store, vars
<1>4. ~ \E t \in Tables : Savepoint(t) \/ BatchFails(t) \/ TableDone(t) \/ Fixup(t) \/ Alter(t)
  BY <1>1 DEF Savepoint, BatchFails, TableDone, Fixup, Alter, store
<1>5. ASSUME Release \/ Commit \/ LoseCommitReply
      PROVE  /\ disk' = work' /\ KeysGrow /\ pc \notin {"check", "confirm", "done"}
             /\ job.dryRun => job.noTransaction
  BY <1>0, <1>1, <1>5 DEF Release, Commit, LoseCommitReply, TakeEffect, TxnControl, Batching,
     KeysGrow
<1>6. ASSUME NEW t \in Tables, Delete(t) \/ CopyIn(t) \/ InsertSingle(t) \/ InsertBatch(t)
                               \/ RetryRow(t)
      PROVE  /\ disk' = work' /\ KeysGrow /\ pc \notin {"check", "confirm", "done"}
             /\ job.dryRun => job.noTransaction
  <2>1. \/ t \in Truncated(job) /\ Write([work EXCEPT ![t] = {}])
        \/ \E s : Write(Inserted(t, s))
    BY <1>1, <1>6 DEF Delete, CopyIn, InsertSingle, InsertBatch, RetryRow, Insert, Last,
       PlanFollowed
  <2>2. disk' = work' /\ txn = "none"
    BY <2>1 DEF Write
  <2>3. pc \in {"delete", "load", "batch", "retry"}
    BY <1>6 DEF Delete, CopyIn, InsertSingle, InsertBatch, RetryRow
  <2>4. job.noTransaction
    BY <1>0, <2>2, <2>3 DEF TxnControl, Batching
  <2>5. CASE t \in Truncated(job) /\ Write([work EXCEPT ![t] = {}])
    <3>1. work' = [work EXCEPT ![t] = {}]
      BY <2>5 DEF Write
    <3>. QED  BY <2>2, <2>3, <2>4, <2>5, <3>1 DEF KeysGrow, TypeInv, TypeOK, Store
  <2>6. ASSUME NEW s, Write(Inserted(t, s)) PROVE KeysGrow
    <3>1. \A u \in Tables : work'[u] =
             IF u = t THEN Merge(job.mode[t], work[t], RowsTaken(t, s)) ELSE work[u]
      BY <2>6, InsertedTable DEF Write
    <3>2. KeysOf(work[t]) \subseteq KeysOf(Merge(job.mode[t], work[t], RowsTaken(t, s)))
      BY MergeKeys
    <3>. QED  BY <3>1, <3>2 DEF KeysGrow
  <2>. QED  BY <2>1, <2>2, <2>3, <2>4, <2>5, <2>6
<1>. QED
  BY <1>2, <1>3, <1>4, <1>5, <1>6 DEF Next, Step, Terminated

\* Rows change for others only where the target is writable and every reason to
\* ask was accepted, and a table only loses keys if its emptying was agreed to;
\* a dry run changes nothing, unless it does without a transaction.
THEOREM ConsentIsAsked == Spec => WritesByConsent
<1> DEFINE Consent ==
        disk' # disk /\ ~(job.dryRun /\ job.noTransaction) =>
            /\ ~job.readOnly /\ ~job.dryRun
            /\ Reasons \subseteq accepted
            /\ \A t \in Tables :
                  KeysOf(disk[t]) \subseteq KeysOf(disk'[t]) \/ t \in accepted
<1>1. Init => Agreed
  BY DEF Init, Agreed
<1>2. Agreed /\ [Next]_vars => Agreed'
  BY StepAgreed
<1>3. /\ TxnInv /\ Agreed /\ TypeInv /\ PlanFollowed /\ ReloadInv /\ [Next]_vars
      /\ TypeInv' /\ PlanFollowed' /\ ReloadInv'
      => [Consent]_vars
  <2> SUFFICES ASSUME TxnInv, Agreed, TypeInv, PlanFollowed, ReloadInv, [Next]_vars,
                      disk' # disk, ~(job.dryRun /\ job.noTransaction)
               PROVE  /\ ~job.readOnly /\ ~job.dryRun
                      /\ Reasons \subseteq accepted
                      /\ \A t \in Tables :
                            KeysOf(disk[t]) \subseteq KeysOf(disk'[t]) \/ t \in accepted
    OBVIOUS
  <2>1. /\ disk' = work' /\ KeysGrow /\ pc \notin {"check", "confirm", "done"}
        /\ job.dryRun => job.noTransaction
    BY ChangesAreWork DEF TxnInv
  <2>2. ~job.readOnly /\ ~job.dryRun /\ Reasons \subseteq accepted
    BY <2>1 DEF Agreed
  <2>3. ASSUME NEW t \in Tables, t \notin Truncated(job)
        PROVE  KeysOf(disk[t]) \subseteq KeysOf(work'[t])
    BY <2>1, <2>3 DEF KeysGrow, ReloadInv, KeysKept
  <2>. QED  BY <2>1, <2>2, <2>3 DEF Reasons
<1>4. [][Consent]_vars => WritesByConsent
  BY DEF WritesByConsent
<1>. QED  BY <1>1, <1>2, <1>3, TxnInvHolds, ReloadInvHolds, PTL DEF Spec, WritesByConsent
=============================================================================
