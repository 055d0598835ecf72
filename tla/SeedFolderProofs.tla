-------------------------- MODULE SeedFolderProofs --------------------------
(***************************************************************************)
(* Proofs about SeedFolder for any tables, keys, databases and requests:   *)
(* no file is ever half written, and an export that ends well leaves a     *)
(* folder that is what its lock says and closed under references.          *)
(*                                                                         *)
(* The argument follows the rows of a table: from the result of its query  *)
(* into its files one by one (Progress), from there into the record of     *)
(* what was exported (Agreement), which later steps do not touch, through  *)
(* the check (Closed), the pruning (Pruning) and into the lock (Locking).  *)
(***************************************************************************)
EXTENDS SeedFolder, TLAPS

\* The part of rows that is in the file of this name.
Piece(rows, k) == IF k = Whole THEN rows ELSE {r \in rows : r.id = k}

Names == Keys \cup {Whole}

\* The export runs, or has ended well.
Ongoing == pc # "done" \/ exit = "ok"

\* It is past the check of references.
Checked == pc \in {"bucket", "prune", "lock"} \/ exit = "ok"

\* The collection being written fits where the export is.
Control ==
    /\ current = {} => left = {}
    /\ pc \in {"start", "prune", "lock"} \/ exit = "ok" => current = {}
    /\ pc = "tables" => current \subseteq Exported
    /\ pc = "bucket" => current \subseteq {Bucket}
    /\ pc # "done" => exit = "none"
    /\ pc = "start" => exports = Nothing
    /\ pc = "tables" => exports[Bucket] = {}
    /\ \A c \in current : exports[c] = {} /\ left \subseteq FilesOf(c, result)
    /\ current # {} => result \in results

\* What is not left to write of the collection being written is in its files.
Progress ==
    pc # "done" => \A t \in current \cap Tables : \A k \in Names :
        <<t, k>> \in FilesOf(t, result) \ left => folder[<<t, k>>] = {Piece(result, k)}

\* The rows exported of a table are in its files.
Agreement ==
    Ongoing => \A t \in Tables : \A rows \in exports[t] :
        /\ t \in Exported
        /\ exports[t] = {rows}
        /\ \A k \in Names : <<t, k>> \in FilesOf(t, rows) =>
              folder[<<t, k>>] = {Piece(rows, k)}

\* Only objects of the bucket are in its directory.
ObjectsAgree ==
    Ongoing /\ request.buckets =>
        /\ Bucket \in current => \A p \in Objects : UNION folder[p] \subseteq result
        /\ exports[Bucket] # {} =>
              \A p \in Objects : UNION folder[p] \subseteq UNION exports[Bucket]
        /\ pc \in {"prune", "lock"} \/ exit = "ok" => exports[Bucket] # {}

Closed ==
    Checked /\ ~request.noFkCheck =>
        \A t \in Tables : \A rows \in exports[t] : \A r \in rows :
            r.ref # None =>
                Parent[t] \in Tables /\ \E s \in UNION exports[Parent[t]] : s.id = r.ref

Pruning ==
    pc = "lock" \/ exit = "ok" =>
        /\ tmp = {}
        /\ \A t \in Tables : \A k \in Names :
              folder[<<t, k>>] # {} => \E rows \in exports[t] : <<t, k>> \in FilesOf(t, rows)

\* So are, unless they were read before, the records that another process is about
\* to write back; and what it did not read is known to be in the gap.
Locking ==
    /\ exit = "ok" /\ stale # "written" => \A t \in Tables : lock.files[t] = exports[t]
    /\ exit = "ok" /\ stale = "no" =>
          \A o \in other : \A t \in Tables : o.files[t] = exports[t]
    /\ pc = "lock" => lock.accepted \subseteq carried \cup late
    /\ \A o \in other : lock.accepted \subseteq o.accepted \cup late \cup (Tables \ o.schema)

IInv ==
    /\ TypeOK /\ Control /\ NothingHalfWritten /\ Progress /\ Agreement /\ ObjectsAgree
    /\ Closed /\ Pruning /\ Locking

-----------------------------------------------------------------------------
(* Names and paths. *)

LEMMA DistinctNames ==
    /\ Bucket \notin Tables /\ Whole \notin Keys /\ Bucket = None
    /\ Collections = Tables \cup {Bucket}
    /\ \A t \in Tables, k \in Names : <<t, k>> \in Paths /\ <<t, k>> \notin Objects
    /\ \A p \in Objects : p \in Paths /\ p[1] = Bucket /\ p[2] \in Keys
    /\ Manifest \in Paths /\ Manifest \notin Objects
    /\ \A p \in Paths : p[1] \in Collections /\ p[2] \in Names /\ p = <<p[1], p[2]>>
BY NamesAssumption
DEF Bucket, Whole, None, Collections, Names, Paths, Objects, Manifest

LEMMA FileNames ==
    ASSUME NEW c \in Collections, NEW rows \in SUBSET Row
    PROVE  /\ FilesOf(c, rows) \subseteq Paths
           /\ \A p \in FilesOf(c, rows) : p[1] = c
           /\ c \in PerRow =>
                \A k \in Names : <<c, k>> \in FilesOf(c, rows) <=> \E r \in rows : r.id = k
           /\ c \in Tables \ PerRow => FilesOf(c, rows) = {<<c, Whole>>}
<1>. \A r \in rows : r.id \in Keys
  BY DEF Row
<1>1. CASE c \in PerRow
  BY <1>1, DistinctNames DEF FilesOf, Paths, Names
<1>2. CASE c \notin PerRow /\ c = Bucket
  BY <1>2, DistinctNames, NamesAssumption DEF FilesOf, Paths, Names, Manifest, Whole
<1>3. CASE c \notin PerRow /\ c # Bucket
  BY <1>3, DistinctNames DEF FilesOf, Paths, Names
<1>. QED BY <1>1, <1>2, <1>3

LEMMA PieceType ==
    ASSUME NEW rows \in SUBSET Row, NEW k
    PROVE  Piece(rows, k) \in SUBSET Row
BY DEF Piece

LEMMA RequestFields ==
    TypeOK => /\ request \in RequestType
              /\ request.live \subseteq Tables /\ Exported \subseteq Tables
              /\ Exported \subseteq request.live
BY InputsAssumption DEF TypeOK, RequestType, Exported

-----------------------------------------------------------------------------
(* Types. *)

LEMMA ContentType ==
    ASSUME TypeOK, NEW p
    PROVE  Content(p) \in SUBSET Row
BY DEF TypeOK, Content

LEMMA DatabaseRows ==
    ASSUME TypeOK, NEW c \in Collections
    PROVE  db[c] \in SUBSET Row
BY InputsAssumption DEF TypeOK

LEMMA InitTypes == Init => TypeOK
<1>. SUFFICES ASSUME Init PROVE TypeOK
  OBVIOUS
<1>1. lock \in LockType
  BY DEF Init, EmptyLock, LockType
<1>2. exports \in [Collections -> SUBSET SUBSET Row]
  BY DEF Init, Nothing
<1>3. runs \in 1..MaxRuns /\ changes \in 0..MaxChanges
  BY InputsAssumption DEF Init
<1>. QED BY <1>1, <1>2, <1>3 DEF Init, TypeOK

LEMMA StepTypes ==
    ASSUME TypeOK, Control, Next
    PROVE  TypeOK'
<1>1. CASE Resolve
  BY <1>1 DEF Resolve, TypeOK, disk, writing, aside, history
<1>2. ASSUME NEW t \in Tables, Query(t) PROVE TypeOK'
  <2>1. t \in Collections
    BY DistinctNames
  <2>2. db[t] \in SUBSET Row
    BY <2>1, DatabaseRows
  <2>3. result' \in SUBSET Row
    BY <1>2, <2>2 DEF Query, Selected
  <2>4. left' \subseteq Paths
    BY <1>2, <2>1, <2>3, FileNames DEF Query
  <2>5. open' = {}
    BY <1>2 DEF Query, TypeOK, Control
  <2>6. results' \subseteq SUBSET Row
    BY <1>2, <2>3 DEF Query, TypeOK
  <2>. QED BY <1>2, <2>1, <2>3, <2>4, <2>5, <2>6 DEF Query, TypeOK, disk, aside
<1>3. ASSUME NEW p \in Paths, OpenFile(p) PROVE TypeOK'
  BY <1>3 DEF OpenFile, TypeOK, aside, history
<1>4. ASSUME NEW p \in Paths, CommitFile(p) PROVE TypeOK'
  <2>1. Content(p) \in SUBSET Row
    BY ContentType
  <2>2. /\ folder' \in [Paths -> SUBSET SUBSET Row]
        /\ \A q \in Paths : folder'[q] = {} \/ \E rows \in SUBSET Row : folder'[q] = {rows}
    BY <1>4, <2>1 DEF CommitFile, TypeOK
  <2>. QED BY <1>4, <2>2 DEF CommitFile, TypeOK, aside, history
<1>5. ASSUME NEW p \in Paths, PruneFile(p) PROVE TypeOK'
  <2>1. /\ folder' \in [Paths -> SUBSET SUBSET Row]
        /\ \A q \in Paths : folder'[q] = {} \/ \E rows \in SUBSET Row : folder'[q] = {rows}
    BY <1>5 DEF PruneFile, TypeOK
  <2>. QED BY <1>5, <2>1 DEF PruneFile, TypeOK, writing, aside, history
<1>6. ASSUME NEW p \in Paths, PruneTemporary(p) PROVE TypeOK'
  BY <1>6 DEF PruneTemporary, TypeOK, writing, aside, history
<1>7. ASSUME NEW c \in Collections, Written(c) PROVE TypeOK'
  BY <1>7 DEF Written, TypeOK, disk, aside, history
<1>8. CASE Check
  BY <1>8 DEF Check, End, TypeOK, disk, writing, aside, history
<1>9. CASE QueryBucket
  <2>1. db[Bucket] \in SUBSET Row /\ Bucket \in Collections
    BY DatabaseRows DEF Collections
  <2>2. left' \subseteq Paths
    BY <1>9, <2>1, FileNames DEF QueryBucket
  <2>3. open' = {}
    BY <1>9 DEF QueryBucket, TypeOK, Control
  <2>4. /\ folder' \in [Paths -> SUBSET SUBSET Row]
        /\ \A q \in Paths : folder'[q] = {} \/ \E rows \in SUBSET Row : folder'[q] = {rows}
    BY <1>9 DEF QueryBucket, TypeOK
  <2>. QED BY <1>9, <2>1, <2>2, <2>3, <2>4 DEF QueryBucket, TypeOK, aside
<1>10. CASE BucketDone
  BY <1>10 DEF BucketDone, TypeOK, disk, writing, aside, history
<1>11. CASE Pruned
  BY <1>11 DEF Pruned, TypeOK, LockType, disk, writing, aside, history
<1>12. CASE WriteLock
  <2>1. lock' \in LockType
    BY <1>12, RequestFields DEF WriteLock, TypeOK, Collections, LockType
  <2>2. late' \subseteq Tables
    BY <1>12, <2>1 DEF WriteLock, Unread, TypeOK, LockType
  <2>. QED BY <1>12, <2>1, <2>2 DEF WriteLock, End, TypeOK, disk, writing, aside
<1>13. CASE Fail
  BY <1>13 DEF Fail, End, TypeOK, writing, aside, history
<1>14. CASE Crash
  BY <1>14 DEF Crash, End, TypeOK, disk, writing, aside, history
<1>15. CASE ExportAgain
  <2>1. exports' \in [Collections -> SUBSET SUBSET Row]
    BY <1>15 DEF ExportAgain, Nothing
  <2>2. runs' \in 1..MaxRuns
    BY <1>15, InputsAssumption DEF ExportAgain, TypeOK
  <2>. QED BY <1>15, <2>1, <2>2 DEF ExportAgain, TypeOK, disk, history
<1>16. CASE Change
  <2>1. changes' \in 0..MaxChanges
    BY <1>16, InputsAssumption DEF Change, Other, TypeOK
  <2>. QED BY <1>16, <2>1 DEF Change, TypeOK, disk, writing, history
<1>17. CASE RelockRead
  <2>1. changes' \in 0..MaxChanges
    BY <1>17, InputsAssumption DEF RelockRead, Other, TypeOK
  <2>2. other' \subseteq LockType /\ \A o, p \in other' : o = p
    BY <1>17, RequestFields DEF RelockRead, TypeOK, LockType
  <2>. QED BY <1>17, <2>1, <2>2 DEF RelockRead, TypeOK, disk, writing, history
<1>18. ASSUME NEW t \in Tables, AcceptRead(t) PROVE TypeOK'
  <2>1. changes' \in 0..MaxChanges
    BY <1>18, InputsAssumption DEF AcceptRead, Other, TypeOK
  <2>2. other' \subseteq LockType /\ \A o, p \in other' : o = p
    BY <1>18 DEF AcceptRead, TypeOK, LockType
  <2>. QED BY <1>18, <2>1, <2>2 DEF AcceptRead, TypeOK, disk, writing, history
<1>20. CASE WriteBack
  <2>1. lock' \in LockType /\ other' = {}
    BY <1>20 DEF WriteBack, TypeOK
  <2>2. late' \subseteq Tables
    BY <1>20, <2>1 DEF WriteBack, TypeOK, LockType
  <2>. QED BY <1>20, <2>1, <2>2 DEF WriteBack, TypeOK, disk, writing
<1>19. CASE Terminated
  BY <1>19 DEF Terminated, vars, TypeOK
<1>. QED
  BY <1>1, <1>2, <1>3, <1>4, <1>5, <1>6, <1>7, <1>8, <1>9, <1>10, <1>11, <1>12, <1>13, <1>14,
     <1>15, <1>16, <1>17, <1>18, <1>19, <1>20 DEF Next

-----------------------------------------------------------------------------
(* Where the export is. *)

LEMMA StepControl ==
    ASSUME TypeOK, Control, Next
    PROVE  Control'
<1>. USE DEF Control
<1>1. CASE Resolve
  BY <1>1, DistinctNames DEF Resolve, writing, history, Exported, Nothing
<1>2. ASSUME NEW t \in Tables, Query(t) PROVE Control'
  BY <1>2, DistinctNames DEF Query, Exported
<1>3. ASSUME NEW p \in Paths, OpenFile(p) PROVE Control'
  BY <1>3 DEF OpenFile, history, Exported
<1>4. ASSUME NEW p \in Paths, CommitFile(p) PROVE Control'
  BY <1>4 DEF CommitFile, history, Exported
<1>5. ASSUME NEW p \in Paths, PruneFile(p) PROVE Control'
  BY <1>5 DEF PruneFile, writing, history, Exported
<1>6. ASSUME NEW p \in Paths, PruneTemporary(p) PROVE Control'
  BY <1>6 DEF PruneTemporary, writing, history, Exported
<1>7. ASSUME NEW c \in Collections, Written(c) PROVE Control'
  <2>1. pc = "tables" => c # Bucket
    BY <1>7, RequestFields, DistinctNames DEF Written
  <2>. QED BY <1>7, <2>1 DEF Written, history, Exported, TypeOK
<1>8. CASE Check
  BY <1>8 DEF Check, End, writing, history, Exported
<1>9. CASE QueryBucket
  BY <1>9 DEF QueryBucket, Exported
<1>10. CASE BucketDone
  BY <1>10 DEF BucketDone, writing, history, Exported
<1>11. CASE Pruned
  BY <1>11 DEF Pruned, writing, history, Exported
<1>12. CASE WriteLock
  BY <1>12 DEF WriteLock, End, writing, history, Exported
<1>13. CASE Fail
  BY <1>13 DEF Fail, End, writing, history, Exported
<1>14. CASE Crash
  BY <1>14 DEF Crash, End, writing, history, Exported
<1>15. CASE ExportAgain
  BY <1>15 DEF ExportAgain
<1>16. CASE Change
  BY <1>16 DEF Change, writing, history, Exported
<1>17. CASE RelockRead \/ WriteBack
  BY <1>17 DEF RelockRead, WriteBack, writing, history, Exported
<1>18. ASSUME NEW t \in Tables, AcceptRead(t) PROVE Control'
  BY <1>18 DEF AcceptRead, writing, history, Exported
<1>19. CASE Terminated
  BY <1>19 DEF Terminated, vars, Exported
<1>. QED
  BY <1>1, <1>2, <1>3, <1>4, <1>5, <1>6, <1>7, <1>8, <1>9, <1>10, <1>11, <1>12, <1>13, <1>14,
     <1>15, <1>16, <1>17, <1>18, <1>19 DEF Next

-----------------------------------------------------------------------------
(* The files. *)

\* Only these steps change a file.
LEMMA FolderSteps ==
    ASSUME TypeOK, Next
    PROVE  \/ folder' = folder
           \/ \E p \in Paths : CommitFile(p) \/ PruneFile(p)
           \/ QueryBucket
BY DEF Next, Resolve, Query, OpenFile, PruneTemporary, Written, Check, BucketDone, Pruned,
       WriteLock, Fail, Crash, ExportAgain, Change, RelockRead, AcceptRead, WriteBack, Terminated, vars,
       disk

\* What a query returned is remembered.
LEMMA ResultsGrow ==
    ASSUME Next
    PROVE  results \subseteq results'
BY DEF Next, Resolve, Query, OpenFile, CommitFile, PruneFile, PruneTemporary, Written, Check,
       QueryBucket, BucketDone, Pruned, WriteLock, Fail, Crash, ExportAgain, Change, RelockRead,
       AcceptRead, WriteBack, Terminated, vars, history

LEMMA CommittedContent ==
    ASSUME TypeOK, NEW p \in Paths, CommitFile(p)
    PROVE  /\ folder'[p] = {Piece(result, p[2])}
           /\ \A q \in Paths \ {p} : folder'[q] = folder[q]
           /\ p \in left
BY DEF TypeOK, CommitFile, Content, Piece

LEMMA StepHalfWritten ==
    ASSUME TypeOK, Control, NothingHalfWritten, Next
    PROVE  NothingHalfWritten'
<1>. DEFINE Whence(k, rows, from) == \E whole \in from : rows = Piece(whole, k)
<1>1. NothingHalfWritten <=>
        \A t \in Tables : \A k \in Names : \A rows \in folder[<<t, k>>] : Whence(k, rows, results)
  BY DEF NothingHalfWritten, Piece, Names
<1>2. NothingHalfWritten' <=>
        \A t \in Tables : \A k \in Names :
            \A rows \in folder'[<<t, k>>] : Whence(k, rows, results')
  BY DEF NothingHalfWritten, Piece, Names
<1>3. SUFFICES ASSUME NEW t \in Tables, NEW k \in Names, NEW rows \in folder'[<<t, k>>]
               PROVE  Whence(k, rows, results')
  BY <1>2
<1>4. <<t, k>> \in Paths /\ <<t, k>> \notin Objects
  BY DistinctNames
<1>5. rows \in folder[<<t, k>>] => Whence(k, rows, results')
  BY <1>1, ResultsGrow
<1>6. CASE folder' = folder
  BY <1>5, <1>6
<1>7. ASSUME NEW p \in Paths, CommitFile(p) PROVE Whence(k, rows, results')
  <2>1. CASE p = <<t, k>>
    <3>1. rows = Piece(result, k)
      BY <1>7, <2>1, <1>4, CommittedContent
    <3>2. result \in results
      BY <1>7, CommittedContent DEF Control
    <3>. QED BY <3>1, <3>2, ResultsGrow
  <2>2. CASE p # <<t, k>>
    BY <1>4, <1>5, <1>7, <2>2, CommittedContent
  <2>. QED BY <2>1, <2>2
<1>8. ASSUME NEW p \in Paths, PruneFile(p) PROVE Whence(k, rows, results')
  BY <1>4, <1>5, <1>8 DEF PruneFile, TypeOK
<1>9. CASE QueryBucket
  BY <1>4, <1>5, <1>9 DEF QueryBucket
<1>. QED BY <1>6, <1>7, <1>8, <1>9, FolderSteps

LEMMA StepProgress ==
    ASSUME TypeOK, Control, Progress, Next
    PROVE  Progress'
<1>1. SUFFICES ASSUME pc' # "done", NEW t \in current' \cap Tables
               PROVE  \A k \in Names : <<t, k>> \in FilesOf(t, result') \ left' =>
                         folder'[<<t, k>>] = {Piece(result', k)}
  BY DEF Progress
<1>. DEFINE Goal == \A k \in Names : <<t, k>> \in FilesOf(t, result') \ left' =>
                       folder'[<<t, k>>] = {Piece(result', k)}
<1>2. CASE UNCHANGED <<current, result, left, folder>> /\ pc # "done"
  BY <1>1, <1>2 DEF Progress
<1>3. ASSUME NEW u \in Tables, Query(u) PROVE Goal
  BY <1>1, <1>3 DEF Query
<1>4. ASSUME NEW p \in Paths, CommitFile(p) PROVE Goal
  <2>1. /\ UNCHANGED <<current, result>> /\ left' = left \ {p} /\ pc # "done"
        /\ t \in current \cap Tables
    BY <1>1, <1>4 DEF CommitFile
  <2>2. \A k \in Names : <<t, k>> \in Paths
    BY DistinctNames
  <2>3. ASSUME NEW k \in Names, <<t, k>> \in FilesOf(t, result) \ left', p # <<t, k>>
        PROVE  folder'[<<t, k>>] = {Piece(result, k)}
    BY <1>4, <2>1, <2>2, <2>3, CommittedContent DEF Progress
  <2>4. ASSUME NEW k \in Names, p = <<t, k>>
        PROVE  folder'[<<t, k>>] = {Piece(result, k)}
    BY <1>4, <2>4, CommittedContent
  <2>. QED BY <2>1, <2>3, <2>4 DEF Progress
<1>5. ASSUME NEW p \in Paths, PruneFile(p) PROVE FALSE
  BY <1>1, <1>5 DEF PruneFile, writing, Control
<1>6. CASE QueryBucket
  BY <1>1, <1>6, DistinctNames DEF QueryBucket
<1>7. ASSUME NEW c \in Collections, Written(c) PROVE FALSE
  BY <1>1, <1>7 DEF Written
<1>8. CASE ExportAgain
  BY <1>1, <1>8 DEF ExportAgain
<1>9. CASE Resolve \/ Check \/ BucketDone \/ Pruned \/ WriteLock \/ Fail \/ Crash
  BY <1>1, <1>2, <1>9 DEF Resolve, Check, BucketDone, Pruned, WriteLock, Fail, Crash, End, disk,
                          writing
<1>10. CASE \/ Change \/ RelockRead \/ WriteBack \/ Terminated
          \/ \E u \in Tables : AcceptRead(u)
  BY <1>1, <1>2, <1>10 DEF Change, RelockRead, WriteBack, Terminated, AcceptRead,
                                 disk, writing, vars
<1>11. ASSUME NEW p \in Paths, OpenFile(p) \/ PruneTemporary(p) PROVE Goal
  BY <1>1, <1>2, <1>11 DEF OpenFile, PruneTemporary, writing
<1>. QED
  BY <1>3, <1>4, <1>5, <1>6, <1>7, <1>8, <1>9, <1>10, <1>11 DEF Next

\* The file being written belongs to the collection being written.
LEMMA WrittenPath ==
    ASSUME TypeOK, Control, NEW p \in left
    PROVE  p[1] \in current
<1>1. PICK c \in current : p \in FilesOf(c, result)
  BY DEF Control
<1>2. c \in Collections /\ result \in SUBSET Row
  BY DEF TypeOK
<1>. QED BY <1>1, <1>2, FileNames

LEMMA StepAgreement ==
    ASSUME TypeOK, Control, Progress, Agreement, Next
    PROVE  Agreement'
<1>1. SUFFICES ASSUME Ongoing', NEW t \in Tables, NEW rows \in exports'[t]
               PROVE  /\ t \in Exported'
                      /\ exports'[t] = {rows}
                      /\ \A k \in Names : <<t, k>> \in FilesOf(t, rows) =>
                            folder'[<<t, k>>] = {Piece(rows, k)}
  BY DEF Agreement
<1>. DEFINE Goal == /\ t \in Exported'
                    /\ exports'[t] = {rows}
                    /\ \A k \in Names : <<t, k>> \in FilesOf(t, rows) =>
                          folder'[<<t, k>>] = {Piece(rows, k)}
<1>2. CASE UNCHANGED <<exports, request, folder>> /\ Ongoing
  BY <1>1, <1>2 DEF Agreement, Exported
<1>3. \A k \in Names : <<t, k>> \in Paths /\ <<t, k>> \notin Objects
  BY DistinctNames
<1>4. t \in Collections
  BY DistinctNames
<1>5. ASSUME NEW p \in Paths, CommitFile(p) PROVE Goal
  <2>1. UNCHANGED <<exports, request>> /\ Ongoing /\ p \in left
    BY <1>5, CommittedContent DEF CommitFile, Ongoing
  <2>2. p[1] # t
    BY <1>1, <2>1, WrittenPath DEF Control
  <2>3. \A k \in Names : folder'[<<t, k>>] = folder[<<t, k>>]
    BY <1>3, <1>5, <2>2, CommittedContent
  <2>. QED BY <1>1, <2>1, <2>3 DEF Agreement, Exported
<1>6. ASSUME NEW p \in Paths, PruneFile(p) PROVE Goal
  <2>1. UNCHANGED <<exports, request>> /\ Ongoing
    BY <1>6 DEF PruneFile, Ongoing
  <2>2. rows \in exports[t] /\ t \in Exported
    BY <1>1, <2>1 DEF Agreement
  <2>3. \A k \in Names : <<t, k>> \in FilesOf(t, rows) => <<t, k>> \in Keep
    BY <2>2 DEF Keep
  <2>4. \A q \in Keep : folder'[q] = folder[q]
    BY <1>6 DEF PruneFile, Stale, TypeOK
  <2>. QED BY <1>1, <2>1, <2>3, <2>4 DEF Agreement, Exported
<1>7. CASE QueryBucket
  <2>1. UNCHANGED <<exports, request>> /\ Ongoing
    BY <1>7 DEF QueryBucket, Ongoing
  <2>2. \A k \in Names : folder'[<<t, k>>] = folder[<<t, k>>]
    BY <1>3, <1>7 DEF QueryBucket
  <2>. QED BY <1>1, <2>1, <2>2 DEF Agreement, Exported
<1>8. ASSUME NEW c \in Collections, Written(c) PROVE Goal
  <2>1. UNCHANGED <<folder, request>> /\ Ongoing /\ c \in current /\ left = {} /\ pc # "done"
    BY <1>8 DEF Written, Ongoing, disk
  <2>2. CASE c # t
    BY <1>1, <1>4, <1>8, <2>1, <2>2 DEF Written, Agreement, Exported, TypeOK
  <2>3. CASE c = t
    <3>1. exports'[t] = {result} /\ rows = result
      BY <1>1, <1>4, <1>8, <2>3 DEF Written, TypeOK
    <3>2. t \in Exported
      BY <2>1, <2>3, DistinctNames DEF Control, TypeOK
    <3>3. \A k \in Names : <<t, k>> \in FilesOf(t, rows) =>
             folder[<<t, k>>] = {Piece(rows, k)}
      BY <2>1, <2>3, <3>1 DEF Progress
    <3>. QED BY <2>1, <3>1, <3>2, <3>3 DEF Exported
  <2>. QED BY <2>2, <2>3
<1>9. CASE ExportAgain
  BY <1>1, <1>4, <1>9 DEF ExportAgain, Nothing
<1>10. CASE Fail \/ Crash
  BY <1>1, <1>10 DEF Fail, Crash, End, Ongoing
<1>11. CASE Resolve \/ Check \/ BucketDone \/ Pruned \/ WriteLock
  BY <1>1, <1>2, <1>11 DEF Resolve, Check, BucketDone, Pruned, WriteLock, End, disk, Ongoing
<1>12. CASE \/ Change \/ RelockRead \/ WriteBack \/ Terminated
          \/ \E u \in Tables : AcceptRead(u)
  BY <1>1, <1>2, <1>12 DEF Change, RelockRead, WriteBack, Terminated, AcceptRead,
                                 disk, vars, Ongoing
<1>13. ASSUME NEW p \in Paths, OpenFile(p) \/ PruneTemporary(p) PROVE Goal
  BY <1>1, <1>2, <1>13 DEF OpenFile, PruneTemporary, Ongoing
<1>14. ASSUME NEW u \in Tables, Query(u) PROVE Goal
  BY <1>1, <1>2, <1>14 DEF Query, Ongoing, disk
<1>. QED
  BY <1>5, <1>6, <1>7, <1>8, <1>9, <1>10, <1>11, <1>12, <1>13, <1>14 DEF Next

LEMMA StepObjects ==
    ASSUME TypeOK, Control, ObjectsAgree, Next
    PROVE  ObjectsAgree'
<1>1. SUFFICES ASSUME Ongoing', request'.buckets
               PROVE  /\ Bucket \in current' =>
                            \A p \in Objects : UNION folder'[p] \subseteq result'
                      /\ exports'[Bucket] # {} =>
                            \A p \in Objects : UNION folder'[p] \subseteq UNION exports'[Bucket]
                      /\ pc' \in {"prune", "lock"} \/ exit' = "ok" => exports'[Bucket] # {}
  BY DEF ObjectsAgree
<1>. DEFINE Goal == /\ Bucket \in current' =>
                          \A p \in Objects : UNION folder'[p] \subseteq result'
                    /\ exports'[Bucket] # {} =>
                          \A p \in Objects : UNION folder'[p] \subseteq UNION exports'[Bucket]
                    /\ pc' \in {"prune", "lock"} \/ exit' = "ok" => exports'[Bucket] # {}
<1>2. Bucket \in Collections /\ Objects \subseteq Paths
  BY DistinctNames
<1>3. CASE UNCHANGED <<exports, request, folder, current, result, pc, exit>>
  BY <1>1, <1>3 DEF ObjectsAgree, Ongoing
<1>4. CASE Resolve
  BY <1>1, <1>4 DEF Resolve, ObjectsAgree, Ongoing, disk, writing, Control
<1>5. ASSUME NEW t \in Tables, Query(t) PROVE Goal
  BY <1>1, <1>5, DistinctNames DEF Query, ObjectsAgree, Ongoing, disk, Control
<1>6. ASSUME NEW p \in Paths, OpenFile(p) PROVE Goal
  BY <1>3, <1>6 DEF OpenFile
<1>7. ASSUME NEW p \in Paths, CommitFile(p) PROVE Goal
  <2>1. UNCHANGED <<exports, request, current, result, pc, exit>> /\ Ongoing
    BY <1>7 DEF CommitFile, Ongoing
  <2>2. ASSUME NEW q \in Objects, Bucket \in current
        PROVE  UNION folder'[q] \subseteq result
    <3>1. CASE q = p
      <4>1. q[2] # Whole
        BY DistinctNames
      <4>. QED BY <1>7, <1>2, <3>1, <4>1, CommittedContent DEF Piece
    <3>2. CASE q # p
      BY <1>1, <1>2, <1>7, <2>1, <2>2, <3>2, CommittedContent DEF ObjectsAgree
    <3>. QED BY <3>1, <3>2
  <2>3. ASSUME NEW q \in Objects, exports[Bucket] # {}
        PROVE  UNION folder'[q] \subseteq UNION exports[Bucket]
    <3>1. q # p
      <4>1. p[1] \in current
        BY <1>7, CommittedContent, WrittenPath
      <4>. QED BY <2>3, <4>1, DistinctNames DEF Control
    <3>. QED BY <1>1, <1>2, <1>7, <2>1, <2>3, <3>1, CommittedContent DEF ObjectsAgree
  <2>. QED BY <1>1, <2>1, <2>2, <2>3 DEF ObjectsAgree
<1>8. ASSUME NEW p \in Paths, PruneFile(p) PROVE Goal
  <2>1. UNCHANGED <<exports, request, current, result, pc, exit>> /\ Ongoing
    BY <1>8 DEF PruneFile, writing, Ongoing
  <2>2. \A q \in Paths : UNION folder'[q] \subseteq UNION folder[q]
    BY <1>8 DEF PruneFile, TypeOK
  <2>. QED BY <1>1, <1>2, <2>1, <2>2 DEF ObjectsAgree
<1>9. ASSUME NEW p \in Paths, PruneTemporary(p) PROVE Goal
  BY <1>3, <1>9 DEF PruneTemporary, writing
<1>10. ASSUME NEW c \in Collections, Written(c) PROVE Goal
  <2>1. /\ UNCHANGED <<folder, request, pc, exit>> /\ current' = {} /\ c \in current
        /\ exports' = [exports EXCEPT ![c] = {result}] /\ Ongoing
    BY <1>10 DEF Written, Ongoing, disk
  <2>2. CASE c = Bucket
    BY <1>1, <1>2, <2>1, <2>2 DEF ObjectsAgree, TypeOK
  <2>3. CASE c # Bucket
    BY <1>1, <1>2, <2>1, <2>3 DEF ObjectsAgree, TypeOK
  <2>. QED BY <2>2, <2>3
<1>11. CASE Check
  BY <1>1, <1>11 DEF Check, End, ObjectsAgree, Ongoing, disk, writing, Control
<1>12. CASE QueryBucket
  <2>1. \A p \in Objects : folder'[p] = {}
    BY <1>2, <1>12 DEF QueryBucket
  <2>. QED BY <1>1, <1>12, <2>1 DEF QueryBucket, Control
<1>13. CASE BucketDone
  BY <1>1, <1>13 DEF BucketDone, ObjectsAgree, Ongoing, disk, writing, Control
<1>14. CASE Pruned
  BY <1>1, <1>14 DEF Pruned, ObjectsAgree, Ongoing, disk, writing, Control
<1>15. CASE WriteLock
  BY <1>1, <1>15 DEF WriteLock, End, ObjectsAgree, Ongoing, disk, writing, Control
<1>16. CASE Fail \/ Crash
  BY <1>1, <1>16 DEF Fail, Crash, End, Ongoing
<1>17. CASE ExportAgain
  BY <1>1, <1>2, <1>17 DEF ExportAgain, Nothing
<1>18. CASE \/ Change \/ RelockRead \/ WriteBack \/ Terminated
          \/ \E u \in Tables : AcceptRead(u)
  BY <1>3, <1>18 DEF Change, RelockRead, WriteBack, Terminated, AcceptRead,
                                 disk, writing, vars
<1>. QED
  BY <1>4, <1>5, <1>6, <1>7, <1>8, <1>9, <1>10, <1>11, <1>12, <1>13, <1>14, <1>15, <1>16, <1>17,
     <1>18 DEF Next

-----------------------------------------------------------------------------
(* The check, the pruning and the lock. *)

LEMMA StepClosed ==
    ASSUME TypeOK, Control, Agreement, Closed, Next
    PROVE  Closed'
<1>1. SUFFICES ASSUME Checked', ~request'.noFkCheck,
                      NEW t \in Tables, NEW rows \in exports'[t], NEW r \in rows, r.ref # None
               PROVE  /\ Parent[t] \in Tables
                      /\ \E s \in UNION exports'[Parent[t]] : s.id = r.ref
  BY DEF Closed
<1>. DEFINE Goal == /\ Parent[t] \in Tables
                    /\ \E s \in UNION exports'[Parent[t]] : s.id = r.ref
<1>2. CASE UNCHANGED <<exports, request>> /\ Checked
  BY <1>1, <1>2 DEF Closed
<1>3. CASE Check
  <2>1. UNCHANGED <<exports, request>> /\ pc = "tables" /\ Dangling = {}
    BY <1>1, <1>3 DEF Check, End, Checked, Control
  <2>2. t \in Exported
    BY <1>1, <2>1 DEF Agreement, Ongoing
  <2>3. \E s \in UNION exports[Parent[t]] : s.id = r.ref
    BY <1>1, <2>1, <2>2 DEF Dangling
  <2>4. Parent[t] # None
    BY <2>1, <2>3, DistinctNames DEF Control
  <2>. QED BY <2>1, <2>3, <2>4, NamesAssumption
<1>4. ASSUME NEW c \in Collections, Written(c) PROVE Goal
  <2>1. pc = "bucket" /\ c = Bucket /\ Checked /\ UNCHANGED request
    BY <1>1, <1>4 DEF Written, Checked, Control
  <2>2. \A u \in Tables : exports'[u] = exports[u]
    BY <1>4, <2>1, DistinctNames DEF Written, TypeOK
  <2>. QED BY <1>1, <2>1, <2>2 DEF Closed
<1>5. CASE Resolve \/ ExportAgain \/ Fail \/ Crash
  BY <1>1, <1>5 DEF Resolve, ExportAgain, Fail, Crash, End, Checked, Control
<1>6. ASSUME NEW u \in Tables, Query(u) PROVE Goal
  BY <1>1, <1>6 DEF Query, Checked, Control
<1>7. ASSUME NEW p \in Paths, OpenFile(p) \/ CommitFile(p) \/ PruneFile(p) \/ PruneTemporary(p)
      PROVE  Goal
  BY <1>1, <1>2, <1>7 DEF OpenFile, CommitFile, PruneFile, PruneTemporary, Checked
<1>8. CASE QueryBucket \/ BucketDone \/ Pruned \/ WriteLock
  BY <1>1, <1>2, <1>8 DEF QueryBucket, BucketDone, Pruned, WriteLock, Checked
<1>9. CASE \/ Change \/ RelockRead \/ WriteBack \/ Terminated
          \/ \E u \in Tables : AcceptRead(u)
  BY <1>1, <1>2, <1>9 DEF Change, RelockRead, WriteBack, Terminated, AcceptRead,
                                 vars, Checked
<1>. QED BY <1>3, <1>4, <1>5, <1>6, <1>7, <1>8, <1>9 DEF Next

LEMMA StepPruning ==
    ASSUME TypeOK, Control, Pruning, Next
    PROVE  Pruning'
<1>1. SUFFICES ASSUME pc' = "lock" \/ exit' = "ok" PROVE Pruning'
  BY DEF Pruning
<1>2. CASE UNCHANGED <<tmp, folder, exports, pc, exit>>
  BY <1>2 DEF Pruning
<1>3. CASE Pruned
  <2>1. UNCHANGED <<tmp, folder, exports>> /\ tmp = {} /\ Stale = {}
    BY <1>3 DEF Pruned, disk
  <2>2. ASSUME NEW t \in Tables, NEW k \in Names, folder[<<t, k>>] # {}
        PROVE  \E rows \in exports[t] : <<t, k>> \in FilesOf(t, rows)
    <3>1. <<t, k>> \in Keep
      BY <2>1, <2>2, DistinctNames DEF Stale, IsOurs
    <3>2. PICK u \in Exported : \E rows \in exports[u] : <<t, k>> \in FilesOf(u, rows)
      BY <3>1 DEF Keep
    <3>3. PICK rows \in exports[u] : <<t, k>> \in FilesOf(u, rows)
      BY <3>2
    <3>4. u \in Collections /\ rows \in SUBSET Row
      BY RequestFields, DistinctNames DEF TypeOK
    <3>5. <<t, k>>[1] = u
      BY <3>3, <3>4, FileNames
    <3>. QED BY <3>3, <3>5
  <2>. QED BY <2>1, <2>2 DEF Pruning
<1>4. CASE WriteLock
  BY <1>4 DEF WriteLock, Pruning, disk
<1>5. ASSUME NEW c \in Collections, Written(c) PROVE FALSE
  BY <1>1, <1>5 DEF Written, Control
<1>6. ASSUME NEW p \in Paths, OpenFile(p) \/ CommitFile(p) PROVE FALSE
  <2>1. p \in left /\ UNCHANGED <<pc, exit>> /\ pc # "done"
    BY <1>6 DEF OpenFile, CommitFile, TypeOK
  <2>. QED BY <1>1, <2>1 DEF Control
<1>7. ASSUME NEW p \in Paths, PruneFile(p) \/ PruneTemporary(p) PROVE FALSE
  BY <1>1, <1>7 DEF PruneFile, PruneTemporary, Control
<1>8. CASE Resolve \/ QueryBucket \/ BucketDone \/ ExportAgain \/ Fail \/ Crash \/ Check
  BY <1>1, <1>8 DEF Resolve, QueryBucket, BucketDone, ExportAgain, Fail, Crash, Check, End,
                    Control
<1>9. ASSUME NEW u \in Tables, Query(u) PROVE FALSE
  BY <1>1, <1>9 DEF Query, Control
<1>10. CASE \/ Change \/ RelockRead \/ WriteBack \/ Terminated
          \/ \E u \in Tables : AcceptRead(u)
  BY <1>2, <1>10 DEF Change, RelockRead, WriteBack, Terminated, AcceptRead,
                                 vars, disk
<1>. QED BY <1>3, <1>4, <1>5, <1>6, <1>7, <1>8, <1>9, <1>10 DEF Next

LEMMA StepLocking ==
    ASSUME TypeOK, Control, Agreement, Locking, Next
    PROVE  Locking'
<1>1. CASE UNCHANGED <<lock, exports, carried, late, stale, other, pc, exit>>
  BY <1>1 DEF Locking
<1>2. CASE Pruned
  BY <1>2 DEF Pruned, Locking, Control, history, aside
<1>3. CASE WriteLock
  <2>1. /\ \A t \in Tables : lock'.files[t] = exports'[t]
        /\ pc' = "done" /\ UNCHANGED other
        /\ stale' = IF other = {} THEN "no" ELSE "pending"
        /\ late' = late \cup Unread(lock')
    BY <1>3 DEF WriteLock, End, aside
  <2>2. \A o \in other : lock'.accepted \subseteq o.accepted \cup late'
    BY <2>1 DEF Unread
  <2>. QED BY <2>1, <2>2 DEF Locking
<1>4. CASE RelockRead
  <2>1. /\ UNCHANGED <<lock, exports, carried, late, stale, pc, exit, request>>
        /\ other = {}
    BY <1>4 DEF RelockRead, history
  <2>2. ASSUME exit = "ok", NEW t \in Tables, t \notin request.live PROVE exports[t] = {}
    BY <2>2, RequestFields DEF Agreement, Ongoing
  <2>3. ASSUME NEW o \in other'
        PROVE  /\ lock.accepted \subseteq o.accepted \cup (Tables \ o.schema)
               /\ exit = "ok" /\ stale = "no" => \A t \in Tables : o.files[t] = exports[t]
    <3>1. /\ o.schema = request.live /\ o.accepted = lock.accepted \cap request.live
          /\ \A t \in Tables :
                o.files[t] = IF t \in request.live THEN lock.files[t] ELSE {}
      BY <1>4, <2>3 DEF RelockRead
    <3>2. lock.accepted \subseteq Tables
      BY DEF TypeOK, LockType
    <3>. QED BY <2>2, <3>1, <3>2 DEF Locking
  <2>. QED BY <2>1, <2>3 DEF Locking
<1>5. ASSUME NEW t \in Tables, AcceptRead(t) PROVE Locking'
  <2>1. UNCHANGED <<lock, exports, carried, late, stale, pc, exit>>
    BY <1>5 DEF AcceptRead, history
  <2>2. ASSUME NEW o \in other'
        PROVE  lock.accepted \subseteq o.accepted /\ o.files = lock.files
    BY <1>5, <2>2 DEF AcceptRead, TypeOK, LockType
  <2>. QED BY <2>1, <2>2 DEF Locking
<1>12. CASE WriteBack
  <2>1. /\ UNCHANGED <<exports, carried, pc, exit>>
        /\ lock' \in other /\ other' = {}
        /\ stale' = IF stale = "pending" THEN "written" ELSE stale
        /\ pc = "lock" => lock'.accepted \subseteq carried \cup late'
    BY <1>12 DEF WriteBack
  <2>2. stale' = "no" => stale = "no"
    BY <2>1
  <2>3. stale' # "written" => stale = "no"
    BY <2>1 DEF TypeOK
  <2>. QED BY <2>1, <2>2, <2>3 DEF Locking
<1>6. ASSUME NEW c \in Collections, Written(c) PROVE Locking'
  BY <1>6 DEF Written, Locking, Control, history, aside
<1>7. ASSUME NEW p \in Paths, OpenFile(p) \/ CommitFile(p) \/ PruneFile(p) \/ PruneTemporary(p)
      PROVE  Locking'
  BY <1>1, <1>7 DEF OpenFile, CommitFile, PruneFile, PruneTemporary, history, aside
<1>8. ASSUME NEW u \in Tables, Query(u) PROVE Locking'
  BY <1>1, <1>8 DEF Query, aside
<1>9. CASE Resolve \/ Check \/ QueryBucket \/ BucketDone
  BY <1>9 DEF Resolve, Check, End, QueryBucket, BucketDone, Locking, Control, history, aside
<1>10. CASE ExportAgain \/ Fail \/ Crash
  BY <1>10 DEF ExportAgain, Fail, Crash, End, Locking, history, aside
<1>11. CASE Change \/ Terminated
  BY <1>1, <1>11 DEF Change, Terminated, vars, history
<1>. QED
  BY <1>2, <1>3, <1>4, <1>5, <1>6, <1>7, <1>8, <1>9, <1>10, <1>11, <1>12 DEF Next

-----------------------------------------------------------------------------
(* The theorems. *)

LEMMA InitIInv == Init => IInv
<1>. SUFFICES ASSUME Init PROVE IInv
  OBVIOUS
<1>1. TypeOK
  BY InitTypes
<1>2. Control
  BY DistinctNames DEF Init, Control, Nothing
<1>3. NothingHalfWritten
  BY DistinctNames DEF Init, NothingHalfWritten, Names
<1>4. Progress /\ Closed /\ Pruning /\ Locking
  BY DEF Init, Progress, Closed, Checked, Pruning, Locking
<1>5. Agreement /\ ObjectsAgree
  BY DistinctNames DEF Init, Agreement, ObjectsAgree, Nothing
<1>. QED BY <1>1, <1>2, <1>3, <1>4, <1>5 DEF IInv

LEMMA StepIInv == IInv /\ [Next]_vars => IInv'
<1>1. ASSUME IInv, Next PROVE IInv'
  BY <1>1, StepTypes, StepControl, StepHalfWritten, StepProgress, StepAgreement, StepObjects,
     StepClosed, StepPruning, StepLocking
  DEF IInv
<1>2. ASSUME IInv, UNCHANGED vars PROVE IInv'
  BY <1>2 DEF IInv, vars, TypeOK, Control, NothingHalfWritten, Progress, Agreement,
              ObjectsAgree, Closed, Pruning, Locking, Ongoing, Checked, Exported
<1>. QED BY <1>1, <1>2

\* The invariant that the theorems below share.
THEOREM Invariance == Spec => []IInv
<1>. QED BY InitIInv, StepIInv, PTL DEF Spec

\* Every variable keeps its type: what is open is still to be written, and every
\* path on disk holds one file or none.
THEOREM TypeCorrect == Spec => []TypeOK
<1>1. IInv => TypeOK
  BY DEF IInv
<1>. QED BY <1>1, Invariance, PTL

\* No seed file is ever half written, wherever exports fail or die.
THEOREM FilesAreWhole == Spec => []NothingHalfWritten
<1>1. IInv => NothingHalfWritten
  BY DEF IInv
<1>. QED BY <1>1, Invariance, PTL

\* What is read back after an export that ended well.
LEMMA ReadBack ==
    ASSUME IInv, exit = "ok", NEW t \in Tables
    PROVE  /\ \A rows \in exports[t] : Readable(t) /\ RowsOf(t) = rows
           /\ exports[t] = {} =>
                RowsOf(t) = {} /\ \A k \in Names : folder[<<t, k>>] = {}
<1>. USE DEF IInv
<1>1. t \in Collections /\ exports[t] \subseteq SUBSET Row
  BY DistinctNames DEF TypeOK
<1>2. ASSUME NEW rows \in exports[t] PROVE Readable(t) /\ RowsOf(t) = rows
  <2>1. /\ exports[t] = {rows}
        /\ \A k \in Names : <<t, k>> \in FilesOf(t, rows) => folder[<<t, k>>] = {Piece(rows, k)}
    BY DEF Agreement, Ongoing
  <2>2. \A k \in Names : <<t, k>> \notin FilesOf(t, rows) => folder[<<t, k>>] = {}
    BY <2>1 DEF Pruning
  <2>3. CASE t \in PerRow
    <3>1. \A k \in Keys : UNION folder[<<t, k>>] = {r \in rows : r.id = k}
      <4>1. ASSUME NEW k \in Keys PROVE UNION folder[<<t, k>>] = {r \in rows : r.id = k}
        <5>1. <<t, k>> \in FilesOf(t, rows) <=> \E r \in rows : r.id = k
          BY <1>1, <2>3, FileNames DEF Names
        <5>2. k \in Names /\ k # Whole
          BY DistinctNames DEF Names
        <5>3. CASE \E r \in rows : r.id = k
          <6>1. folder[<<t, k>>] = {{r \in rows : r.id = k}}
            BY <2>1, <5>1, <5>2, <5>3 DEF Piece
          <6>. QED BY <6>1
        <5>4. CASE ~\E r \in rows : r.id = k
          <6>1. folder[<<t, k>>] = {} /\ {r \in rows : r.id = k} = {}
            BY <2>2, <5>1, <5>2, <5>4
          <6>. QED BY <6>1
        <5>. QED BY <5>3, <5>4
      <4>. QED BY <4>1
    <3>2. \A r \in rows : r.id \in Keys
      BY <1>1 DEF Row
    <3>3. \A r : r \in RowsOf(t) <=> \E k \in Keys : r \in UNION folder[<<t, k>>]
      BY <2>3 DEF RowsOf
    <3>4. ASSUME NEW r PROVE r \in RowsOf(t) <=> r \in rows
      <4>1. ASSUME NEW k \in Keys
            PROVE  r \in UNION folder[<<t, k>>] <=> r \in rows /\ r.id = k
        <5>1. UNION folder[<<t, k>>] = {s \in rows : s.id = k}
          BY <3>1
        <5>2. r \in {s \in rows : s.id = k} <=> r \in rows /\ r.id = k
          OBVIOUS
        <5>. QED BY <5>1, <5>2, Zenon
      <4>2. r \in RowsOf(t) <=> \E k \in Keys : r \in UNION folder[<<t, k>>]
        BY <3>3
      <4>3. r \in RowsOf(t) <=> \E k \in Keys : r \in rows /\ r.id = k
        BY <4>1, <4>2, Zenon
      <4>. QED BY <3>2, <4>3
    <3>5. RowsOf(t) = rows
      BY <3>4, Zenon
    <3>. QED BY <2>3, <3>5 DEF Readable
  <2>4. CASE t \notin PerRow
    <3>1. <<t, Whole>> \in FilesOf(t, rows) /\ Whole \in Names
      BY <1>1, <2>4, FileNames DEF Names
    <3>2. folder[<<t, Whole>>] = {rows}
      BY <2>1, <3>1 DEF Piece
    <3>. QED BY <2>4, <3>2 DEF Readable, RowsOf
  <2>. QED BY <2>3, <2>4
<1>3. ASSUME exports[t] = {} PROVE RowsOf(t) = {} /\ \A k \in Names : folder[<<t, k>>] = {}
  <2>1. \A k \in Names : folder[<<t, k>>] = {}
    BY <1>3 DEF Pruning
  <2>. QED BY <2>1 DEF RowsOf, Names
<1>. QED BY <1>2, <1>3

\* After an export that ended well the folder is what the lock says, unless a
\* process that had read the lock before wrote it back.
THEOREM FolderIsLocked == Spec => []FolderMatchesLock
<1>1. ASSUME IInv, exit = "ok" PROVE FolderMatchesLock
  <2>1. stale # "written" => \A t \in Tables : lock.files[t] = exports[t]
    BY <1>1 DEF IInv, Locking
  <2>2. stale # "written" => \A t \in Tables :
          /\ \A rows \in lock.files[t] : Readable(t) /\ RowsOf(t) = rows
          /\ lock.files[t] = {} => \A k \in Keys \cup {Whole} : folder[<<t, k>>] = {}
    BY <1>1, <2>1, ReadBack DEF Names
  <2>3. request.buckets => \A p \in Objects : UNION folder[p] \subseteq UNION exports[Bucket]
    BY <1>1 DEF IInv, ObjectsAgree, Ongoing
  <2>4. tmp = {}
    BY <1>1 DEF IInv, Pruning
  <2>. QED BY <2>2, <2>3, <2>4 DEF FolderMatchesLock
<1>2. IInv => FolderMatchesLock
  BY <1>1 DEF FolderMatchesLock
<1>. QED BY <1>2, Invariance, PTL

\* An export that ended well leaves a folder closed under references.
THEOREM ReferencesAreSatisfied == Spec => []ExportIsClosed
<1>1. ASSUME IInv, exit = "ok", ~request.noFkCheck,
             NEW t \in Tables, NEW r \in RowsOf(t), r.ref # None
      PROVE  \E s \in RowsOf(Parent[t]) : s.id = r.ref
  <2>1. PICK rows \in exports[t] : r \in rows
    BY <1>1, ReadBack
  <2>2. Parent[t] \in Tables /\ \E s \in UNION exports[Parent[t]] : s.id = r.ref
    BY <1>1, <2>1 DEF IInv, Closed, Checked
  <2>3. PICK parents \in exports[Parent[t]] : \E s \in parents : s.id = r.ref
    BY <2>2
  <2>4. RowsOf(Parent[t]) = parents
    BY <1>1, <2>2, ReadBack
  <2>. QED BY <2>3, <2>4
<1>2. IInv => ExportIsClosed
  BY <1>1 DEF ExportIsClosed
<1>. QED BY <1>2, Invariance, PTL

\* A standing acceptance is lost only with its table, or if it was written right
\* between another process's reading of the old lock and writing of the new one.
THEOREM AcceptancesStand == Spec => AcceptancesSurvive
<1>. DEFINE Kept == lock.accepted \ lock'.accepted \subseteq (Tables \ lock'.schema) \cup late
<1>1. ASSUME IInv, [Next]_vars PROVE Kept \/ UNCHANGED vars
  <2>1. CASE lock' = lock
    BY <2>1
  <2>2. CASE WriteLock
    <3>1. /\ lock'.accepted = carried \cap request.live /\ lock'.schema = request.live
          /\ pc = "lock"
      BY <2>2 DEF WriteLock
    <3>2. lock.accepted \subseteq carried \cup late /\ lock.accepted \subseteq Tables
      BY <1>1, <3>1 DEF IInv, Locking, TypeOK, LockType
    <3>. QED BY <3>1, <3>2
  <2>3. CASE WriteBack
    BY <1>1, <2>3 DEF WriteBack, IInv, Locking
  <2>5. CASE UNCHANGED vars
    BY <2>5
  <2>6. lock' = lock \/ WriteLock \/ WriteBack \/ UNCHANGED vars
    BY <1>1 DEF Next, Resolve, Query, OpenFile, CommitFile, PruneFile, PruneTemporary, Written,
                Check, QueryBucket, BucketDone, Pruned, Fail, Crash, ExportAgain, Change,
                RelockRead, AcceptRead, Terminated
  <2>. QED BY <2>1, <2>2, <2>3, <2>5, <2>6
<1>2. IInv /\ [Next]_vars => [Kept]_vars
  BY <1>1
<1>. QED BY <1>2, Invariance, PTL DEF Spec, AcceptancesSurvive
-----------------------------------------------------------------------------
(* What `verify` says right after an export.                                 *)

\* Every table exported has a record, and the manifest, whose name is nobody's
\* file, is gone once the folder was pruned.
Covered ==
    /\ Checked => \A t \in Exported : exports[t] # {}
    /\ pc = "lock" \/ exit = "ok" => folder[Manifest] = {}

LEMMA StepCovered ==
    ASSUME IInv, Covered, [Next]_vars
    PROVE  Covered'
<1>1. TypeOK /\ Control
  BY DEF IInv
<1>2. CASE Check
  BY <1>1, <1>2 DEF Check, End, Covered, Checked, Exported, Control
<1>3. CASE Pruned
  <2>1. Manifest \in Paths /\ Manifest \notin Objects
    BY DistinctNames
  <2>2. Manifest \notin Keep
    <3>1. ASSUME NEW t \in Exported, NEW rows \in exports[t]
          PROVE  Manifest \notin FilesOf(t, rows)
      <4>1. t \in Collections /\ t # Bucket /\ rows \in SUBSET Row
        BY <1>1, <3>1, RequestFields, DistinctNames DEF TypeOK
      <4>2. \A p \in FilesOf(t, rows) : p[1] = t
        BY <4>1, FileNames
      <4>. QED BY <4>1, <4>2 DEF Manifest
    <3>. QED BY <3>1 DEF Keep
  <2>3. folder[Manifest] = {}
    BY <1>3, <2>1, <2>2 DEF Pruned, Stale, IsOurs
  <2>. QED BY <1>1, <1>3, <2>3 DEF Pruned, Covered, Checked, Exported, Control, disk
<1>4. CASE WriteLock
  BY <1>4 DEF WriteLock, End, Covered, Checked, Exported, disk
<1>5. ASSUME NEW c \in Collections, Written(c) PROVE Covered'
  <2>1. \A d : exports[d] # {} => exports'[d] # {}
    BY <1>1, <1>5 DEF Written, TypeOK
  <2>. QED BY <1>5, <2>1 DEF Written, Covered, Checked, Exported, disk
<1>6. ASSUME NEW p \in Paths, CommitFile(p) PROVE Covered'
  <2>1. pc # "lock" /\ exit # "ok"
    BY <1>1, <1>6 DEF CommitFile, Control, TypeOK
  <2>. QED BY <1>6, <2>1 DEF CommitFile, Covered, Checked, Exported
<1>7. ASSUME NEW p \in Paths, PruneFile(p) PROVE Covered'
  <2>1. pc # "lock" /\ exit # "ok" /\ UNCHANGED <<exports, request, pc, exit>>
    BY <1>1, <1>7 DEF PruneFile, Control
  <2>. QED BY <2>1 DEF Covered, Checked, Exported
<1>8. CASE QueryBucket
  <2>1. pc # "lock" /\ exit # "ok" /\ UNCHANGED <<exports, request, pc, exit>>
    BY <1>1, <1>8 DEF QueryBucket, Control
  <2>. QED BY <2>1 DEF Covered, Checked, Exported
<1>9. CASE Resolve \/ BucketDone \/ Fail \/ Crash \/ ExportAgain
  BY <1>1, <1>9 DEF Resolve, BucketDone, Fail, Crash, ExportAgain, End, Covered, Checked,
                    Exported, Control, disk
<1>10. CASE UNCHANGED <<folder, exports, request, pc, exit>>
  BY <1>10 DEF Covered, Checked, Exported
<1>11. CASE Change \/ RelockRead \/ WriteBack \/ Terminated \/ UNCHANGED vars
  BY <1>10, <1>11 DEF Change, RelockRead, WriteBack, Terminated, vars, disk
<1>12. ASSUME NEW t \in Tables, Query(t) \/ AcceptRead(t) PROVE Covered'
  BY <1>10, <1>12 DEF Query, AcceptRead, disk
<1>13. ASSUME NEW p \in Paths, OpenFile(p) \/ PruneTemporary(p) PROVE Covered'
  BY <1>10, <1>13 DEF OpenFile, PruneTemporary
<1>. QED BY <1>2, <1>3, <1>4, <1>5, <1>6, <1>7, <1>8, <1>9, <1>11, <1>12, <1>13 DEF Next

\* An export that ended well, whatever was in the folder before it, passes
\* `verify` as long as the lock has no hashes of a bucket, and never otherwise: only
\* a relock by another process, which drops them, then makes the two agree.  A lock
\* read before the export wrote it and written back after it is left out.
THEOREM OnlyBucketsFailVerify ==
    Spec => [](exit = "ok" /\ stale # "written" =>
                  (Verifies(Exported) <=> lock.objects = {}))
<1>1. ASSUME IInv, Covered, exit = "ok", stale # "written" PROVE Verifies(Exported) <=> lock.objects = {}
  <2>1. ASSUME NEW t \in Exported PROVE TableVerifies(t)
    <3>1. t \in Tables /\ lock.files[t] = exports[t] /\ exports[t] # {}
      BY <1>1, <2>1, RequestFields DEF IInv, Locking, Covered, Checked
    <3>2. PICK rows \in exports[t] : Readable(t) /\ RowsOf(t) = rows
      BY <1>1, <3>1, ReadBack
    <3>. QED BY <3>1, <3>2 DEF TableVerifies
  <2>2. BucketVerifies <=> lock.objects = {}
    <3>1. \A rows \in lock.objects : folder[Manifest] # {rows}
      BY <1>1 DEF Covered
    <3>. QED BY <3>1 DEF BucketVerifies
  <2>. QED BY <2>1, <2>2 DEF Verifies
<1>2. Init => Covered
  BY DEF Init, Covered, Checked
<1>3. IInv /\ Covered /\ [Next]_vars => Covered'
  BY StepCovered
<1>4. IInv /\ Covered => (exit = "ok" /\ stale # "written" => (Verifies(Exported) <=> lock.objects = {}))
  BY <1>1
<1>. QED BY <1>2, <1>3, <1>4, Invariance, PTL DEF Spec
=============================================================================
