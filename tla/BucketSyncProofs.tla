-------------------------- MODULE BucketSyncProofs --------------------------
(***************************************************************************)
(* Proofs about BucketSync for any buckets, keys, contents and requests,   *)
(* any size of a page, and any number of commands and of changes by        *)
(* others: nothing but recorded contents is uploaded, a load that ends     *)
(* well has delivered what the manifests say, the gate foresees sizes, and *)
(* paging through a bucket that only grows leaves no gap.                  *)
(***************************************************************************)
EXTENDS BucketSync, OrderedSetsProofs

Exporting == {"settings", "list", "download", "clear", "write"}
Loading == {"read", "verify", "upload"}
Places == Exporting \cup Loading \cup {"gate", "next", "prune", "done"}

Types ==
    /\ request \in Request
    /\ project \in [Buckets -> Bucket] /\ dirs \in [Buckets -> Directory]
    /\ pc \in Places /\ exit \in {"none", "ok", "drift", "error"}
    /\ todo \subseteq request.selected
    /\ found \in Objects /\ left \subseteq Keys /\ blobs \in Objects
    /\ past \in [Buckets -> [Keys -> SUBSET (Contents \cup {None})]]
    /\ quiet \in BOOLEAN

\* A bucket is done while the command is in the loop, and is not to be done again.
AtWork ==
    /\ pc \in Exporting \cup Loading => bucket \in request.selected \ todo
    /\ pc \in Exporting \cup {"prune"} => request.command = "export"
    /\ pc \in Loading => request.command = "load"
    /\ pc = "upload" => ~request.dryRun
    /\ pc # "done" => exit = "none"

\* What the folder records, and what a command holds in memory, was in the bucket.
RecordsAreGenuine ==
    \A b \in Buckets : \A m \in dirs[b].manifest : \A k \in Keys :
        m[k] \in past[b][k] \cup {None}

Holding == {"download", "clear", "write", "verify", "upload"}

BlobsAreGenuine ==
    pc \in Holding =>
        \A k \in Keys : blobs[k] \in past[bucket][k] \cup {None}

Delivered(b) ==
    \E m \in dirs[b].manifest : \A k \in Present(m) : project[b].objects[k] = m[k]

\* Where a load stands: which buckets are delivered, and how much of this one.
DeliveredSoFar ==
    request.command = "load" /\ ~request.dryRun /\ quiet =>
        /\ pc \in Loading \cup {"next"} =>
              \A b \in request.selected \ todo :
                  pc = "next" \/ b # bucket => Delivered(b)
        /\ pc = "verify" => blobs \in dirs[bucket].manifest
        /\ pc = "upload" =>
              /\ blobs \in dirs[bucket].manifest
              /\ \A k \in Present(blobs) \ left : project[bucket].objects[k] = blobs[k]

IInv ==
    /\ Types /\ AtWork
    /\ RecordsAreGenuine /\ BlobsAreGenuine /\ UploadsAreGenuine
    /\ DeliveredSoFar /\ LoadDelivers

-----------------------------------------------------------------------------
(* The operators. *)

\* The least of a set of numbers is in it.
LEMMA MinIsIn ==
    ASSUME NEW S, S \subseteq Nat, S # {}
    PROVE  Min(S) \in S
  BY LeastExists DEF Min

\* The names of a request and of the keys are numbers.
LEMMA NameFacts ==
    ASSUME Types
    PROVE  /\ request.selected \subseteq Buckets /\ todo \subseteq Nat
           /\ left \subseteq Nat /\ Keys \subseteq Nat /\ None = 0
           /\ Present(blobs) \subseteq Keys
           /\ request.command \in {"export", "load"} /\ request.dryRun \in BOOLEAN
  BY NamesAssumption DEF Types, Request, None, Present

\* A directory's and a bucket's parts.
LEMMA StoreFacts ==
    ASSUME Types, NEW b \in Buckets
    PROVE  /\ project[b].objects \in Objects /\ project[b].exists \in BOOLEAN
           /\ dirs[b].objects \in Objects /\ dirs[b].manifest \subseteq Objects
  BY DEF Types, Bucket, Directory

\* A migration keeps the objects or drops them all.
LEMMA MigrationFacts ==
    ASSUME Types, NEW b \in Buckets, NEW live \in Migrations(b)
    PROVE  /\ live \in Bucket
           /\ live.objects \in {Empty, project[b].objects}
  <1>1. project[b] \in Bucket /\ Empty \in Objects
    BY DEF Types, Empty, Objects
  <1>2. CASE live = [exists |-> FALSE, limit |-> 0, objects |-> Empty]
    BY <1>1, <1>2 DEF Bucket
  <1>3. CASE \E n \in {Size[c] : c \in Contents} \cup {0} : live = [project[b] EXCEPT !.limit = n]
    <2>1. PICK n \in Nat : live = [project[b] EXCEPT !.limit = n]
      BY <1>3, NamesAssumption
    <2> QED
      BY <1>1, <2>1 DEF Bucket
  <1> QED
    BY <1>2, <1>3 DEF Migrations

-----------------------------------------------------------------------------
(* Types. *)

LEMMA InitTypes ==
    Init => Types /\ AtWork
  <1> SUFFICES ASSUME Init PROVE Types /\ AtWork
    OBVIOUS
  <1>1. PICK s \in Situations :
           /\ project = s.project /\ dirs = s.dirs
           /\ past = [b \in Buckets |-> [k \in Keys |->
                 {s.project[b].objects[k]} \cup {m[k] : m \in s.dirs[b].manifest}]]
    BY DEF Init
  <1>2. /\ project \in [Buckets -> Bucket] /\ dirs \in [Buckets -> Directory]
        /\ request \in Request
    BY <1>1, InputsAssumption DEF Init, Situation
  <1>3. past \in [Buckets -> [Keys -> SUBSET (Contents \cup {None})]]
    <2>1. ASSUME NEW b \in Buckets, NEW k \in Keys
          PROVE  /\ project[b].objects[k] \in Contents \cup {None}
                 /\ \A m \in dirs[b].manifest : m[k] \in Contents \cup {None}
      BY <1>2 DEF Bucket, Directory, Objects
    <2> QED
      BY <1>1, <2>1
  <1>4. Empty \in Objects
    BY DEF Empty, Objects
  <1> QED
    BY <1>2, <1>3, <1>4 DEF Init, Types, AtWork, Places, Exporting, Loading

\* The parts that only an action's own assignments decide.
LEMMA TypesStep ==
    ASSUME Types, AtWork, [Next]_vars
    PROVE  Types' /\ AtWork'
  <1> USE NameFacts
  <1> USE DEF Goto, End
  <1>e. Empty \in Objects
    BY DEF Empty, Objects
  <1>1. CASE Gate
    BY <1>1 DEF Gate, Selected, Types, AtWork, Places, Exporting, Loading, list, bounds, history
  <1>2. CASE NextBucket
    <2>1. bucket' \in todo
      BY <1>2, MinIsIn DEF NextBucket
    <2> QED
      BY <1>2, <2>1 DEF NextBucket, Types, AtWork, Places, Exporting, Loading, list, bounds, history
  <1>3. CASE NoBucketLeft
    BY <1>3 DEF NoBucketLeft, Types, AtWork, Places, Exporting, Loading, list, bounds, history
  <1>4. CASE GetSettings
    BY <1>4, <1>e DEF GetSettings, Types, AtWork, Places, Exporting, Loading, bounds
  <1>5. CASE ListPage
    <2>1. Stored \in Objects
      BY <1>5, StoreFacts DEF ListPage, AtWork, Exporting, Stored
    <2>2. found' \in Objects
      BY <1>5, <2>1 DEF ListPage, Types, Objects
    <2>3. left' \subseteq Keys
      BY <1>5 DEF ListPage, Types, Present
    <2>4. pc' \in {"list", "download"} /\ exit' = exit
      BY <1>5 DEF ListPage
    <2> QED
      BY <1>5, <1>e, <2>2, <2>3, <2>4
      DEF ListPage, Types, AtWork, Places, Exporting, Loading, bounds, history
  <1>6. CASE Download
    <2>1. Stored \in Objects
      BY <1>6, StoreFacts DEF Download, AtWork, Exporting, Stored
    <2>2. blobs' \in Objects
      BY <1>6, <2>1 DEF Download, Types, Objects
    <2>3. left' \subseteq Keys
      BY <1>6 DEF Download, Types
    <2>4. \/ pc' = "download" /\ exit' = exit
          \/ pc' = "done" /\ exit' = "error"
      BY <1>6 DEF Download
    <2> QED
      BY <1>6, <2>2, <2>3, <2>4
      DEF Download, Types, AtWork, Places, Exporting, Loading, list, bounds, history
  <1>7. CASE Downloaded
    BY <1>7 DEF Downloaded, Types, AtWork, Places, Exporting, Loading, list, bounds, history
  <1>8. CASE Cleared
    BY <1>8 DEF Cleared, Types, AtWork, Places, Exporting, Loading, list, bounds, history
  <1>9. CASE ClearObject \/ WriteObject \/ WriteManifest \/ Prune
    <2>1. /\ UNCHANGED <<request, project, found, blobs, past, quiet, exit, todo, bucket>>
          /\ left' \subseteq left
          /\ pc' \in {pc, "next"}
      BY <1>9 DEF ClearObject, WriteObject, WriteManifest, Prune, list, history
    <2>2. dirs' \in [Buckets -> Directory]
      <3>1. CASE ClearObject \/ WriteObject \/ WriteManifest
        <4>1. bucket \in Buckets
          BY <3>1 DEF ClearObject, WriteObject, WriteManifest, AtWork, Exporting
        <4>2. dirs[bucket] \in Directory
          BY <4>1 DEF Types
        <4>3. \E d \in Directory : dirs' = [dirs EXCEPT ![bucket] = d]
          <5>1. CASE ClearObject
            <6>1. PICK k \in Keys : dirs' = [dirs EXCEPT ![bucket].objects[k] = None]
              BY <5>1 DEF ClearObject, Present
            <6>2. [dirs[bucket] EXCEPT !.objects[k] = None] \in Directory
              BY <4>2 DEF Directory, Objects
            <6> QED
              BY <6>1, <6>2
          <5>2. CASE WriteObject
            <6> DEFINE d == [dirs[bucket] EXCEPT !.objects[Min(left)] = blobs[Min(left)]]
            <6>1. Min(left) \in Keys
              BY <5>2, MinIsIn DEF WriteObject, Types
            <6>2. d \in Directory
              BY <4>2, <6>1 DEF Directory, Objects, Types
            <6> QED
              BY <5>2, <6>2 DEF WriteObject
          <5>3. CASE WriteManifest
            <6> DEFINE d == [dirs[bucket] EXCEPT !.manifest = {blobs}]
            <6>1. d \in Directory
              BY <4>2 DEF Directory, Types
            <6> QED
              BY <5>3, <6>1 DEF WriteManifest
          <5> QED
            BY <3>1, <5>1, <5>2, <5>3
        <4> QED
          BY <4>1, <4>3 DEF Types
      <3>2. CASE Prune
        <4>1. PICK b \in Buckets :
                 \/ dirs' = [dirs EXCEPT ![b].manifest = {}]
                 \/ \E k \in Keys : dirs' = [dirs EXCEPT ![b].objects[k] = None]
          BY <3>2 DEF Prune, Present
        <4>2. dirs[b] \in Directory
          BY DEF Types
        <4>3. /\ [dirs[b] EXCEPT !.manifest = {}] \in Directory
              /\ \A k \in Keys : [dirs[b] EXCEPT !.objects[k] = None] \in Directory
          BY <4>2 DEF Directory, Objects
        <4> QED
          BY <4>1, <4>3 DEF Types
      <3> QED
        BY <1>9, <3>1, <3>2
    <2>3. /\ pc \in Exporting \cup {"prune"}
          /\ pc' = "next" => pc = "write"
      BY <1>9 DEF ClearObject, WriteObject, WriteManifest, Prune, Exporting
    <2> QED
      BY <2>1, <2>2, <2>3 DEF Types, AtWork, Places, Exporting, Loading
  <1>10. CASE WriteLock
    BY <1>10 DEF WriteLock, Types, AtWork, Places, Exporting, Loading, list, bounds, history
  <1>11. CASE ReadManifest
    <2>1. dirs[bucket].manifest \subseteq Objects
      BY <1>11, StoreFacts DEF ReadManifest, AtWork, Loading
    <2>2. blobs' \in Objects /\ left' \subseteq Keys
      BY <1>11, <2>1 DEF ReadManifest, Types, Present
    <2>3. \/ pc' = "verify" /\ exit' = exit
          \/ pc' = "done" /\ exit' = "error"
      BY <1>11 DEF ReadManifest
    <2> QED
      BY <1>11, <2>2, <2>3
      DEF ReadManifest, Types, AtWork, Places, Exporting, Loading, list, bounds, history
  <1>12. CASE VerifyObject
    <2>1. dirs[bucket].objects \in Objects
      BY <1>12, StoreFacts DEF VerifyObject, AtWork, Loading
    <2>2. blobs' \in Objects
      BY <1>12, <2>1 DEF VerifyObject, Types, Objects
    <2>3. left' \subseteq Keys
      BY <1>12 DEF VerifyObject, Types
    <2>4. \/ pc' = "verify" /\ exit' = exit
          \/ pc' = "done" /\ exit' = "error"
      BY <1>12 DEF VerifyObject
    <2> QED
      BY <1>12, <2>2, <2>3, <2>4
      DEF VerifyObject, Types, AtWork, Places, Exporting, Loading, list, bounds, history
  <1>13. CASE Verified
    BY <1>13 DEF Verified, Types, AtWork, Places, Exporting, Loading, list, bounds, history
  <1>14. CASE Upload
    <2>1. bucket \in Buckets
      BY <1>14 DEF Upload, AtWork, Loading
    <2>2. Min(left) \in Keys /\ left' \subseteq Keys
      BY <1>14, MinIsIn DEF Upload, Types
    <2>3. [project[bucket] EXCEPT !.objects[Min(left)] = blobs[Min(left)]] \in Bucket
      BY <2>1, <2>2 DEF Types, Bucket, Objects
    <2>4. project' \in [Buckets -> Bucket]
      BY <1>14, <2>1, <2>3 DEF Upload, Types
    <2>5. \/ pc' = "upload" /\ exit' = exit
          \/ pc' = "done" /\ exit' = "error"
      BY <1>14 DEF Upload
    <2> QED
      BY <1>14, <2>2, <2>4, <2>5
      DEF Upload, Types, AtWork, Places, Exporting, Loading, list, bounds
  <1>15. CASE Uploaded
    BY <1>15 DEF Uploaded, Types, AtWork, Places, Exporting, Loading, list, bounds, history
  <1>16. CASE Stop
    BY <1>16 DEF Stop, Types, AtWork, Places, Exporting, Loading, list, bounds, history
  <1>17. ASSUME NEW b \in Buckets, NEW k \in Keys, NEW c \in Contents \cup {None}, Store(b, k, c)
         PROVE  Types' /\ AtWork'
    <2>1. [project[b] EXCEPT !.objects[k] = c] \in Bucket
      BY DEF Types, Bucket, Objects
    <2>2. project' \in [Buckets -> Bucket]
      BY <1>17, <2>1 DEF Store, Types
    <2>3. past' \in [Buckets -> [Keys -> SUBSET (Contents \cup {None})]]
      BY <1>17 DEF Store, Types
    <2> QED
      BY <1>17, <2>2, <2>3
      DEF Store, CanChange, Types, AtWork, Places, Exporting, Loading, list
  <1>18. ASSUME NEW b \in Buckets, NEW k \in Keys, NEW c \in Contents \cup {None}, Edit(b, k, c)
         PROVE  Types' /\ AtWork'
    <2>1. [dirs[b] EXCEPT !.objects[k] = c] \in Directory
      BY DEF Types, Directory, Objects
    <2>2. dirs' \in [Buckets -> Directory]
      BY <1>18, <2>1 DEF Edit, Types
    <2> QED
      BY <1>18, <2>2
      DEF Edit, CanChange, Types, AtWork, Places, Exporting, Loading, list, history
  <1>19. ASSUME NEW b \in Buckets, NEW live \in Migrations(b), Migrate(b, live)
         PROVE  Types' /\ AtWork'
    <2>1. live \in Bucket
      BY MigrationFacts
    <2>2. project' \in [Buckets -> Bucket]
      BY <1>19, <2>1 DEF Migrate, Types
    <2> QED
      BY <1>19, <2>2
      DEF Migrate, CanChange, Types, AtWork, Places, Exporting, Loading, list
  <1>20. CASE RunAgain
    BY <1>20, <1>e, InputsAssumption DEF RunAgain, Types, AtWork, Places, Exporting, Loading
  <1>21. CASE Terminated \/ UNCHANGED vars
    BY <1>21 DEF Terminated, vars, list, bounds, history, Types, AtWork
  <1> QED
    BY <1>1, <1>2, <1>3, <1>4, <1>5, <1>6, <1>7, <1>8, <1>9, <1>10, <1>11, <1>12, <1>13,
       <1>14, <1>15, <1>16, <1>17, <1>18, <1>19, <1>20, <1>21 DEF Next

-----------------------------------------------------------------------------
(* Nothing but recorded contents. *)

Genuine == RecordsAreGenuine /\ BlobsAreGenuine /\ UploadsAreGenuine

LEMMA InitGenuine ==
    Init => Genuine
  <1> SUFFICES ASSUME Init PROVE Genuine
    OBVIOUS
  <1>1. PICK s \in Situations :
           /\ project = s.project /\ dirs = s.dirs
           /\ past = [b \in Buckets |-> [k \in Keys |->
                 {s.project[b].objects[k]} \cup {m[k] : m \in s.dirs[b].manifest}]]
    BY DEF Init
  <1>2. RecordsAreGenuine /\ UploadsAreGenuine
    BY <1>1 DEF RecordsAreGenuine, UploadsAreGenuine
  <1>3. pc = "gate"
    BY DEF Init
  <1> QED
    BY <1>2, <1>3 DEF Genuine, BlobsAreGenuine, Holding

LEMMA GenuineStep ==
    ASSUME Types, AtWork, Genuine, [Next]_vars
    PROVE  Genuine'
  <1> USE NameFacts
  <1> USE DEF Goto, End, Genuine
  \* Nothing is read or written.
  <1>1. CASE /\ UNCHANGED <<project, dirs, past>>
             /\ \/ pc' \notin Holding
                \/ pc \in Holding /\ UNCHANGED <<bucket, blobs>>
    BY <1>1 DEF RecordsAreGenuine, BlobsAreGenuine, UploadsAreGenuine
  <1>2. CASE \/ Gate \/ NextBucket \/ NoBucketLeft \/ GetSettings \/ Downloaded \/ Cleared
             \/ WriteLock \/ Verified \/ Uploaded \/ Stop \/ RunAgain
             \/ Terminated \/ UNCHANGED vars
    BY <1>1, <1>2
    DEF Gate, NextBucket, NoBucketLeft, GetSettings, Downloaded, Cleared, WriteLock,
        Verified, Uploaded, Stop, RunAgain, Terminated, vars, history, Holding
  <1>3. CASE ListPage
    BY <1>3 DEF ListPage, Empty, history, RecordsAreGenuine, BlobsAreGenuine, UploadsAreGenuine
  <1>4. CASE Download
    <2>1. UNCHANGED <<project, dirs, past, bucket>> /\ pc = "download"
      BY <1>4 DEF Download, history
    <2>2. bucket \in Buckets /\ Stored = project[bucket].objects
      BY <2>1 DEF AtWork, Exporting, Stored
    <2>3. blobs' \in Objects /\ \A k \in Keys : blobs'[k] \in {blobs[k], Stored[k]}
      <3>1. blobs \in Objects /\ Stored \in Objects
        BY <2>2, StoreFacts DEF Types
      <3> QED
        BY <1>4, <3>1 DEF Download, Objects
    <2> QED
      BY <2>1, <2>2, <2>3
      DEF RecordsAreGenuine, BlobsAreGenuine, UploadsAreGenuine, Holding
  <1>5. CASE ClearObject \/ WriteObject \/ Prune
    <2>1. /\ UNCHANGED <<project, past, bucket, blobs>>
          /\ pc' = pc
      BY <1>5 DEF ClearObject, WriteObject, Prune, history
    <2>2. ASSUME NEW b \in Buckets
          PROVE  dirs'[b].manifest \subseteq dirs[b].manifest
      BY <1>5, StoreFacts DEF ClearObject, WriteObject, Prune, Types, Directory
    <2> QED
      BY <2>1, <2>2 DEF RecordsAreGenuine, BlobsAreGenuine, UploadsAreGenuine
  <1>6. CASE WriteManifest
    <2>1. UNCHANGED <<project, past>> /\ pc = "write" /\ pc' = "next"
      BY <1>6 DEF WriteManifest, history
    <2>2. ASSUME NEW b \in Buckets
          PROVE  dirs'[b].manifest \subseteq
                    dirs[b].manifest \cup (IF b = bucket THEN {blobs} ELSE {})
      BY <1>6 DEF WriteManifest, Types, Directory
    <2> QED
      BY <2>1, <2>2 DEF RecordsAreGenuine, BlobsAreGenuine, UploadsAreGenuine, Holding
  <1>7. CASE ReadManifest
    <2>1. /\ UNCHANGED <<project, dirs, past, bucket>> /\ bucket \in Buckets
          /\ pc' \in Holding => blobs' \in dirs[bucket].manifest
      BY <1>7 DEF ReadManifest, history, AtWork, Loading, Holding
    <2> QED
      BY <2>1 DEF RecordsAreGenuine, BlobsAreGenuine, UploadsAreGenuine
  <1>8. CASE VerifyObject
    <2>1. blobs' = blobs
      <3>1. ASSUME Matches(Min(left))
            PROVE  [blobs EXCEPT ![Min(left)] = dirs[bucket].objects[Min(left)]] = blobs
        BY <3>1 DEF Matches, Types, Objects
      <3> QED
        BY <1>8, <3>1 DEF VerifyObject
    <2> QED
      BY <1>1, <1>8, <2>1 DEF VerifyObject, history, Holding
  <1>9. CASE Upload
    <2>1. UNCHANGED <<dirs, past, bucket, blobs>> /\ pc = "upload" /\ bucket \in Buckets
      BY <1>9 DEF Upload, AtWork, Loading
    <2>2. ASSUME NEW b \in Buckets, NEW k \in Keys
          PROVE  \/ project'[b].objects[k] = project[b].objects[k]
                 \/ b = bucket /\ project'[b].objects[k] = blobs[k]
      BY <1>9, StoreFacts DEF Upload, Types, Bucket, Objects
    <2> QED
      BY <2>1, <2>2 DEF RecordsAreGenuine, BlobsAreGenuine, UploadsAreGenuine, Holding
  <1>10. ASSUME NEW b \in Buckets, NEW k \in Keys, NEW c \in Contents \cup {None}, Store(b, k, c)
         PROVE  Genuine'
    <2>1. UNCHANGED <<dirs, pc, bucket, blobs>> /\ (pc \in Holding => bucket \in Buckets)
      BY <1>10 DEF Store, AtWork, Holding, Exporting, Loading
    <2>2. ASSUME NEW bb \in Buckets, NEW kk \in Keys
          PROVE  past[bb][kk] \subseteq past'[bb][kk]
      BY <1>10 DEF Store, Types
    <2>3. ASSUME NEW bb \in Buckets, NEW kk \in Keys
          PROVE  \/ project'[bb].objects[kk] = project[bb].objects[kk]
                 \/ project'[bb].objects[kk] \in past'[bb][kk]
      BY <1>10, StoreFacts DEF Store, Types, Bucket, Objects
    <2> QED
      BY <2>1, <2>2, <2>3 DEF RecordsAreGenuine, BlobsAreGenuine, UploadsAreGenuine
  <1>11. ASSUME NEW b \in Buckets, NEW k \in Keys, NEW c \in Contents \cup {None}, Edit(b, k, c)
         PROVE  Genuine'
    <2>1. UNCHANGED <<project, past, pc, bucket, blobs>>
      BY <1>11 DEF Edit, history
    <2>2. ASSUME NEW bb \in Buckets
          PROVE  dirs'[bb].manifest = dirs[bb].manifest
      BY <1>11 DEF Edit, Types, Directory
    <2> QED
      BY <2>1, <2>2 DEF RecordsAreGenuine, BlobsAreGenuine, UploadsAreGenuine
  <1>12. ASSUME NEW b \in Buckets, NEW live \in Migrations(b), Migrate(b, live)
         PROVE  Genuine'
    <2>1. UNCHANGED <<dirs, past, pc, bucket, blobs>>
      BY <1>12 DEF Migrate
    <2>2. ASSUME NEW bb \in Buckets, NEW kk \in Keys
          PROVE  project'[bb].objects[kk] \in {project[bb].objects[kk], None}
      BY <1>12, MigrationFacts DEF Migrate, Types, Empty
    <2> QED
      BY <2>1, <2>2 DEF RecordsAreGenuine, BlobsAreGenuine, UploadsAreGenuine
  <1> QED
    BY <1>2, <1>3, <1>4, <1>5, <1>6, <1>7, <1>8, <1>9, <1>10, <1>11, <1>12 DEF Next

-----------------------------------------------------------------------------
(* A load that ends well has delivered. *)

Delivering == DeliveredSoFar /\ LoadDelivers

LEMMA InitDelivering ==
    Init => Delivering
  BY DEF Init, Delivering, DeliveredSoFar, LoadDelivers, Loading

\* Of a bucket whose manifest stays, what was delivered stays delivered.
LEMMA StaysDelivered ==
    ASSUME NEW b, Delivered(b), dirs'[b].manifest = dirs[b].manifest,
           project'[b].objects = project[b].objects
    PROVE  Delivered(b)'
  BY DEF Delivered

LEMMA DeliveringStep ==
    ASSUME Types, AtWork, AtWork', Delivering, [Next]_vars
    PROVE  Delivering'
  <1> USE NameFacts
  <1> USE DEF Goto, End, Delivering
  \* Of exports, of loads that write nothing and of disturbed loads nothing is said.
  <1>1. CASE ~(request'.command = "load" /\ ~request'.dryRun /\ quiet')
    BY <1>1 DEF DeliveredSoFar, LoadDelivers
  \* A command that has not ended well delivers nothing yet.
  <1>2. ASSUME exit' # "ok", DeliveredSoFar'
        PROVE  Delivering'
    BY <1>2 DEF LoadDelivers
  <1>3. CASE GetSettings \/ ListPage \/ Download \/ Downloaded \/ ClearObject \/ Cleared
             \/ WriteObject \/ WriteManifest \/ Prune \/ WriteLock
    <2>1. request' = request /\ pc \in Exporting \cup {"prune"}
      BY <1>3 DEF GetSettings, ListPage, Download, Downloaded, ClearObject, Cleared,
                  WriteObject, WriteManifest, Prune, WriteLock, Exporting
    <2> QED
      BY <1>1, <2>1 DEF AtWork
  <1>4. CASE Gate \/ RunAgain \/ Stop
    BY <1>2, <1>4 DEF Gate, Selected, RunAgain, Stop, DeliveredSoFar, Loading, AtWork
  <1>5. CASE NextBucket
    <2>1. SUFFICES ASSUME request.command = "load", ~request.dryRun, quiet
                   PROVE  Delivering'
      BY <1>1, <1>5 DEF NextBucket, history
    <2>2. /\ pc = "next" /\ pc' = "read" /\ exit' = exit
          /\ todo' = todo \ {bucket'}
          /\ UNCHANGED <<request, project, dirs>>
      BY <1>5, <2>1 DEF NextBucket
    <2>3. \A b \in request.selected \ todo : Delivered(b)
      BY <2>1, <2>2 DEF DeliveredSoFar
    <2>4. ASSUME NEW b \in request'.selected \ todo', b # bucket'
          PROVE  Delivered(b)'
      BY <2>2, <2>3, <2>4 DEF Delivered
    <2>5. exit' # "ok"
      BY <2>2 DEF AtWork
    <2> QED
      BY <1>2, <2>2, <2>4, <2>5 DEF DeliveredSoFar
  <1>6. CASE NoBucketLeft
    <2>1. SUFFICES ASSUME request.command = "load", ~request.dryRun, quiet
                   PROVE  Delivering'
      BY <1>1, <1>6 DEF NoBucketLeft, history
    <2>2. \A b \in request.selected : Delivered(b)
      BY <1>6, <2>1 DEF NoBucketLeft, DeliveredSoFar
    <2>3. UNCHANGED <<request, project, dirs>> /\ pc' = "done"
      BY <1>6, <2>1 DEF NoBucketLeft
    <2> QED
      BY <2>2, <2>3 DEF LoadDelivers, DeliveredSoFar, Loading, Delivered
  <1>7. CASE ReadManifest
    <2>1. SUFFICES ASSUME request.command = "load", ~request.dryRun, quiet
                   PROVE  Delivering'
      BY <1>1, <1>7 DEF ReadManifest, history
    <2>2. /\ UNCHANGED <<request, project, dirs, todo, bucket>> /\ pc = "read"
          /\ \/ pc' = "verify" /\ exit' = exit /\ blobs' \in dirs[bucket].manifest
             \/ pc' = "done" /\ exit' = "error"
      BY <1>7 DEF ReadManifest
    <2>3. ASSUME NEW b \in request'.selected \ todo', b # bucket'
          PROVE  Delivered(b)'
      BY <2>1, <2>2, <2>3 DEF DeliveredSoFar, Loading, Delivered
    <2>4. exit' # "ok"
      BY <2>2 DEF AtWork
    <2> QED
      BY <1>2, <2>2, <2>3, <2>4 DEF DeliveredSoFar, Loading
  <1>8. CASE VerifyObject
    <2>1. SUFFICES ASSUME request.command = "load", ~request.dryRun, quiet
                   PROVE  Delivering'
      BY <1>1, <1>8 DEF VerifyObject, history
    <2>2. blobs' = blobs
      <3>1. ASSUME Matches(Min(left))
            PROVE  [blobs EXCEPT ![Min(left)] = dirs[bucket].objects[Min(left)]] = blobs
        BY <3>1 DEF Matches, Types, Objects
      <3> QED
        BY <1>8, <3>1 DEF VerifyObject
    <2>3. /\ UNCHANGED <<request, project, dirs, todo, bucket>> /\ pc = "verify"
          /\ \/ pc' = "verify" /\ exit' = exit
             \/ pc' = "done" /\ exit' = "error"
      BY <1>8 DEF VerifyObject
    <2>4. ASSUME NEW b \in request'.selected \ todo', b # bucket'
          PROVE  Delivered(b)'
      BY <2>1, <2>3, <2>4 DEF DeliveredSoFar, Loading, Delivered
    <2>5. exit' # "ok"
      BY <2>3 DEF AtWork
    <2> QED
      BY <1>2, <2>1, <2>2, <2>3, <2>4, <2>5 DEF DeliveredSoFar, Loading
  <1>9. CASE Verified
    <2>1. SUFFICES ASSUME request.command = "load", ~request.dryRun, quiet
                   PROVE  Delivering'
      BY <1>1, <1>9 DEF Verified, history
    <2>2. /\ UNCHANGED <<request, project, dirs, todo, bucket, blobs>> /\ pc = "verify"
          /\ left' = Present(blobs)
          /\ \/ pc' = "upload" /\ exit' = exit
             \/ pc' = "done" /\ exit' = "error"
      BY <1>9, <2>1 DEF Verified
    <2>3. ASSUME NEW b \in request'.selected \ todo', b # bucket'
          PROVE  Delivered(b)'
      BY <2>1, <2>2, <2>3 DEF DeliveredSoFar, Loading, Delivered
    <2>4. exit' # "ok"
      BY <2>2 DEF AtWork
    <2> QED
      BY <1>2, <2>1, <2>2, <2>3, <2>4 DEF DeliveredSoFar, Loading, Present
  <1>10. CASE Upload
    <2>1. SUFFICES ASSUME request.command = "load", ~request.dryRun, quiet
                   PROVE  Delivering'
      BY <1>1, <1>10 DEF Upload
    <2>2. CASE exit' = "error" /\ pc' = "done"
      BY <1>2, <2>2 DEF DeliveredSoFar, Loading
    <2>3. CASE /\ project' = [project EXCEPT ![bucket].objects[Min(left)] = blobs[Min(left)]]
               /\ left' = left \ {Min(left)} /\ pc' = "upload" /\ exit' = exit
      <3>1. /\ UNCHANGED <<request, dirs, todo, bucket, blobs>> /\ pc = "upload"
            /\ bucket \in Buckets
        BY <1>10 DEF Upload, AtWork, Loading
      <3>2. ASSUME NEW b \in request'.selected \ todo', b # bucket'
            PROVE  Delivered(b)'
        <4>1. Delivered(b)
          BY <2>1, <3>1, <3>2 DEF DeliveredSoFar, Loading
        <4>2. project'[b] = project[b]
          BY <2>3, <3>1, <3>2 DEF Types
        <4> QED
          BY <3>1, <4>1, <4>2, StaysDelivered
      <3>3. ASSUME NEW k \in Present(blobs) \ left'
            PROVE  project'[bucket].objects[k] = blobs[k]
        <4>1. k \in Keys
          BY DEF Present
        <4>2. project[bucket] \in Bucket /\ project[bucket].objects \in Objects
          BY <3>1, StoreFacts DEF Types
        <4>3. k \notin left => project[bucket].objects[k] = blobs[k]
          BY <2>1, <3>1, <3>3 DEF DeliveredSoFar
        <4>4. k \in left => k = Min(left)
          BY <2>3, <3>3
        <4>5. project'[bucket].objects = [project[bucket].objects EXCEPT ![Min(left)] = blobs[Min(left)]]
          BY <2>3, <3>1, <4>2 DEF Types, Bucket
        <4> QED
          BY <4>1, <4>2, <4>3, <4>4, <4>5 DEF Objects
      <3>4. exit' # "ok"
        BY <2>3, <3>1 DEF AtWork
      <3>5. blobs \in dirs[bucket].manifest
        BY <2>1, <3>1 DEF DeliveredSoFar
      <3>6. \A k \in Present(blobs)' \ left' : project'[bucket'].objects[k] = blobs'[k]
        BY <3>1, <3>3 DEF Present
      <3> QED
        BY <1>2, <2>3, <3>1, <3>2, <3>4, <3>5, <3>6 DEF DeliveredSoFar, Loading
    <2> QED
      BY <1>10, <2>2, <2>3 DEF Upload
  <1>11. CASE Uploaded
    <2>1. SUFFICES ASSUME request.command = "load", ~request.dryRun, quiet
                   PROVE  Delivering'
      BY <1>1, <1>11 DEF Uploaded, history
    <2>2. /\ UNCHANGED <<request, project, dirs, todo>> /\ pc = "upload" /\ left = {}
          /\ pc' = "next" /\ exit' = exit
      BY <1>11 DEF Uploaded
    <2>3. Delivered(bucket)
      BY <2>1, <2>2 DEF DeliveredSoFar, Delivered
    <2>4. ASSUME NEW b \in request'.selected \ todo'
          PROVE  Delivered(b)'
      BY <2>1, <2>2, <2>3 DEF DeliveredSoFar, Loading, Delivered
    <2>5. exit' # "ok"
      BY <2>2 DEF AtWork
    <2> QED
      BY <1>2, <2>2, <2>4, <2>5 DEF DeliveredSoFar, Loading
  <1>12. ASSUME NEW b \in Buckets, NEW k \in Keys, NEW c \in Contents \cup {None}, Store(b, k, c)
         PROVE  Delivering'
    BY <1>1, <1>12 DEF Store
  <1>13. ASSUME NEW b \in Buckets, NEW live \in Migrations(b), Migrate(b, live)
         PROVE  Delivering'
    BY <1>1, <1>13 DEF Migrate
  <1>14. ASSUME NEW b \in Buckets, NEW k \in Keys, NEW c \in Contents \cup {None}, Edit(b, k, c)
         PROVE  Delivering'
    <2>1. UNCHANGED <<request, project, pc, todo, bucket, left, blobs, exit, quiet>>
      BY <1>14 DEF Edit, history
    <2>2. ASSUME NEW bb \in Buckets
          PROVE  dirs'[bb].manifest = dirs[bb].manifest
      BY <1>14 DEF Edit, Types, Directory
    <2>3. \A bb \in Buckets : Delivered(bb) => Delivered(bb)'
      BY <2>1, <2>2 DEF Delivered
    <2>4. pc \in Loading => bucket \in Buckets
      BY DEF AtWork
    <2>5. pc # "done" /\ exit' # "ok"
      BY <1>14, <2>1 DEF Edit, CanChange, AtWork
    <2>6. DeliveredSoFar'
      BY <2>1, <2>2, <2>3, <2>4 DEF DeliveredSoFar, Loading, Present
    <2> QED
      BY <1>2, <2>5, <2>6
  <1>15. CASE Terminated \/ UNCHANGED vars
    <2>1. UNCHANGED <<request, project, dirs, pc, todo, bucket, left, blobs, exit, quiet>>
      BY <1>15 DEF Terminated, vars, history
    <2> QED
      BY <2>1 DEF DeliveredSoFar, LoadDelivers, Delivered, Present
  <1> QED
    BY <1>3, <1>4, <1>5, <1>6, <1>7, <1>8, <1>9, <1>10, <1>11, <1>12, <1>13, <1>14, <1>15 DEF Next

-----------------------------------------------------------------------------
(* The theorems. *)

\* The invariant holds of every command of load_buckets and export_buckets,
\* wherever it stops and whatever others do meanwhile.
THEOREM Invariance == Spec => []IInv
  <1>1. Init => IInv
    BY InitTypes, InitGenuine, InitDelivering DEF IInv, Genuine, Delivering
  <1>2. IInv /\ [Next]_vars => IInv'
    BY TypesStep, GenuineStep, DeliveringStep DEF IInv, Genuine, Delivering
  <1> QED
    BY <1>1, <1>2, PTL DEF Spec

\* load_buckets uploads only what the hashes of the manifest vouch for, and
\* export_buckets records only what it downloaded: whatever is in a bucket the
\* application stored there, or the folder was given to record.
THEOREM NothingForged == Spec => []UploadsAreGenuine
  <1>1. IInv => UploadsAreGenuine
    BY DEF IInv
  <1> QED
    BY Invariance, <1>1, PTL

\* A load of buckets that ends well, also one that repeats what another left
\* half done, has put each object of the manifests in its bucket.
THEOREM LoadsDeliver == Spec => []LoadDelivers
  <1>1. IInv => LoadDelivers
    BY DEF IInv
  <1> QED
    BY Invariance, <1>1, PTL

-----------------------------------------------------------------------------
(* The other variables. *)

\* The bytes of a bucket are at least those of each of its objects.
LEMMA BytesFacts ==
    ASSUME NEW o \in Objects
    PROVE  Bytes(o) \in Nat /\ \A k \in Present(o) : Size[o[k]] <= Bytes(o)
  <1> DEFINE S == Present(o)
             w == [k \in S |-> Size[o[k]]]
             P(iter) == iter = [s \in SUBSET S |->
                                   IF s = {} THEN 0
                                   ELSE Size[o[CHOOSE x \in s : TRUE]] + iter[s \ {CHOOSE x \in s : TRUE}]]
  <1>1. IsFiniteSet(S)
    BY NamesAssumption, FS_Subset DEF Present
  <1>2. \A k \in S : w[k] = Size[o[k]] /\ w[k] \in Nat
    BY NamesAssumption DEF Present, Objects
  <1>3. Bytes(o) = (CHOOSE iter : P(iter))[S]
    BY DEF Bytes, MapThenSumSet, MapThenFoldSet
  <1>4. ASSUME NEW iter PROVE P(iter) <=> IsSums(iter, w, SUBSET S)
    <2>1. \A s \in SUBSET S : s # {} => w[Pick(s)] = Size[o[Pick(s)]]
      BY <1>2 DEF Pick
    <2> HIDE DEF w, S
    <2> QED
      BY <2>1 DEF IsSums, Pick
  <1> DEFINE sums == CHOOSE iter : P(iter)
  <1> HIDE DEF w, S, P
  <1>5. P(sums)
    BY <1>1, <1>4, SumsExist
  <1>6. IsSums(sums, w, SUBSET S) /\ Bytes(o) = sums[S]
    BY <1>3, <1>4, <1>5
  <1> HIDE DEF sums
  <1>7. sums[S] \in Nat /\ \A k \in S : w[k] <= sums[S]
    BY <1>1, <1>2, <1>6, SumsBound
  <1> QED
    BY <1>2, <1>6, <1>7 DEF S

\* Folders are listed in their order, each once.
LEMMA FoldersInOrder ==
    ASSUME NEW page
    PROVE  /\ Ascending(page \cap Folders) \in Seq(Folders)
           /\ Range(Ascending(page \cap Folders)) = page \cap Folders
  <1>1. page \cap Folders \subseteq Nat /\ IsFiniteSet(page \cap Folders)
    BY NamesAssumption, FS_Subset
  <1>2. /\ Ascending(page \cap Folders) \in Seq(page \cap Folders)
        /\ Range(Ascending(page \cap Folders)) = page \cap Folders
    BY <1>1, AscendingIsSorted
  <1> QED
    BY <1>2, SeqMonotonic

Details ==
    /\ lock \in [Buckets -> SUBSET LockEntry] /\ entries \in [Buckets -> SUBSET LockEntry]
    /\ bucket \in Buckets \cup {0} /\ limit \in Nat
    /\ folder \in Folders \cup {Root} /\ queue \in Seq(Folders) /\ offset \in Nat
    /\ runs \in 1..MaxRuns /\ changes \in 0..MaxChanges
    /\ steady \subseteq Keys /\ removed \in BOOLEAN /\ rejected \in BOOLEAN

LEMMA InitDetails == Init => Details
  <1> SUFFICES ASSUME Init PROVE Details
    OBVIOUS
  <1>1. lock \in [Buckets -> SUBSET LockEntry]
    BY InputsAssumption DEF Init, Situation
  <1>2. runs \in 1..MaxRuns /\ changes \in 0..MaxChanges
    BY BoundsAssumption DEF Init
  <1>3. entries \in [Buckets -> SUBSET LockEntry]
    BY DEF Init, NoEntries
  <1>4. queue \in Seq(Folders) /\ folder = Root
    BY EmptySeq DEF Init
  <1>5. steady \subseteq Keys /\ removed \in BOOLEAN /\ rejected \in BOOLEAN
    BY DEF Init
  <1>6. bucket = 0 /\ limit = 0 /\ offset = 0
    BY DEF Init
  <1> QED
    BY <1>1, <1>2, <1>3, <1>4, <1>5, <1>6 DEF Details

\* One request of the listing goes on in a folder, the same or one that waits.
LEMMA ListPageDetails ==
    ASSUME Details, ListPage
    PROVE  folder' \in Folders \cup {Root} /\ queue' \in Seq(Folders) /\ offset' \in Nat
  <1> DEFINE page == Page(folder, offset)
             waiting == queue \o Ascending(page \cap Folders)
  <1>1. waiting \in Seq(Folders)
    BY FoldersInOrder, ConcatProperties DEF Details
  <1>2. CASE ~IsLast(page)
    <2>1. Cardinality(page) \in Nat
      <3>1. InFolder(folder) \subseteq Keys \cup Folders
        BY DEF InFolder, Present
      <3>2. page \in SUBSET (Keys \cup Folders)
        BY <3>1 DEF Page
      <3>3. IsFiniteSet(Keys \cup Folders)
        BY NamesAssumption, FS_Union
      <3> QED
        BY <3>2, <3>3, FS_Subset, FS_CardinalityType
    <2>2. /\ offset' = offset + Cardinality(page)
          /\ queue' = waiting /\ folder' = folder
      BY <1>2 DEF ListPage
    <2> HIDE DEF page, waiting
    <2> QED
      BY <1>1, <2>1, <2>2 DEF Details
  <1>3. CASE IsLast(page) /\ waiting # <<>>
    <2>1. offset' = 0 /\ folder' = Last(waiting) /\ queue' = Front(waiting)
      BY <1>3 DEF ListPage
    <2> HIDE DEF page, waiting
    <2>2. /\ Len(waiting) \in Nat \ {0} /\ DOMAIN waiting = 1..Len(waiting)
          /\ waiting[Len(waiting)] \in Folders
      BY <1>1, <1>3, EmptySeq, LenProperties
    <2>3. Front(waiting) \in Seq(Folders)
      BY <1>1, <2>2, SubSeqProperties DEF Front
    <2> QED
      BY <2>1, <2>2, <2>3 DEF Last
  <1>4. CASE IsLast(page) /\ waiting = <<>>
    BY <1>4 DEF ListPage, Details
  <1> QED
    BY <1>2, <1>3, <1>4

LEMMA DetailsStep ==
    ASSUME Types, AtWork, Details, [Next]_vars
    PROVE  Details'
  <1> USE NameFacts
  <1>1. CASE \/ Gate \/ NoBucketLeft \/ Download \/ Downloaded \/ ClearObject \/ Cleared
             \/ WriteObject \/ Prune \/ ReadManifest \/ VerifyObject \/ Verified
             \/ Uploaded \/ Stop \/ Terminated \/ UNCHANGED vars
    <2>1. UNCHANGED <<lock, entries, bucket, limit, list, runs, changes, steady, removed, rejected>>
      BY <1>1 DEF Gate, NoBucketLeft, Download, Downloaded, ClearObject, Cleared, WriteObject,
         Prune, ReadManifest, VerifyObject, Verified, Uploaded, Stop, Terminated, vars,
         bounds, history
    <2> QED
      BY <2>1 DEF Details, list
  <1>2. CASE NextBucket
    <2>1. bucket' \in todo
      BY <1>2, MinIsIn DEF NextBucket
    <2> QED
      BY <1>2, <2>1 DEF NextBucket, Details, Types, list, bounds, history
  <1>3. CASE GetSettings
    <2>1. bucket \in Buckets
      BY <1>3 DEF GetSettings, AtWork, Exporting
    <2>2. project[bucket].limit \in Nat /\ request.prefix \in Folders \cup {Root}
      BY <2>1 DEF Types, Bucket, Request
    <2>3. Present(Stored) \subseteq Keys
      BY DEF Present
    <2>4. queue' \in Seq(Folders) /\ offset' \in Nat /\ removed' \in BOOLEAN
      BY <1>3, EmptySeq DEF GetSettings
    <2> QED
      BY <1>3, <2>2, <2>3, <2>4 DEF GetSettings, Details, bounds
  <1>4. CASE ListPage
    BY <1>4, ListPageDetails DEF ListPage, Details, bounds, history
  <1>5. CASE WriteManifest
    <2>1. Bytes(blobs) \in Nat
      BY BytesFacts DEF Types
    <2>2. [limit |-> limit, bytes |-> Bytes(blobs)] \in LockEntry
      BY <2>1 DEF Details, LockEntry
    <2>3. entries' \in [Buckets -> SUBSET LockEntry]
      BY <1>5, <2>2 DEF WriteManifest, Details
    <2> QED
      BY <1>5, <2>3 DEF WriteManifest, Details, list, bounds, history
  <1>6. CASE WriteLock
    BY <1>6 DEF WriteLock, Details, list, bounds, history
  <1>7. CASE Upload
    <2>1. rejected' \in BOOLEAN
      <3>1. bucket \in Buckets
        BY <1>7 DEF Upload, AtWork, Loading
      <3> QED
        BY <1>7, <3>1, StoreFacts DEF Upload, Details
    <2> QED
      BY <1>7, <2>1 DEF Upload, Details, list, bounds
  <1>8. ASSUME NEW b \in Buckets, NEW k \in Keys, NEW c \in Contents \cup {None},
               Store(b, k, c) \/ Edit(b, k, c)
        PROVE  Details'
    <2>1. changes' \in 0..MaxChanges
      BY <1>8, BoundsAssumption DEF Store, Edit, CanChange, Details
    <2>2. steady' \subseteq Keys /\ removed' \in BOOLEAN /\ rejected' \in BOOLEAN
      BY <1>8 DEF Store, Edit, Details, history
    <2> QED
      BY <1>8, <2>1, <2>2 DEF Store, Edit, Details, list, history
  <1>9. ASSUME NEW b \in Buckets, NEW live \in Migrations(b), Migrate(b, live)
        PROVE  Details'
    <2>1. changes' \in 0..MaxChanges
      BY <1>9, BoundsAssumption DEF Migrate, CanChange, Details
    <2>2. steady' \subseteq Keys /\ removed' \in BOOLEAN
      BY <1>9 DEF Migrate, Details
    <2> QED
      BY <1>9, <2>1, <2>2 DEF Migrate, Details, list
  <1>10. CASE RunAgain
    <2>1. runs' \in 1..MaxRuns
      BY <1>10, BoundsAssumption DEF RunAgain, Details
    <2>2. entries' \in [Buckets -> SUBSET LockEntry]
      BY <1>10 DEF RunAgain, NoEntries
    <2>3. queue' \in Seq(Folders) /\ folder' = Root
      BY <1>10, EmptySeq DEF RunAgain
    <2>4. steady' \subseteq Keys /\ removed' \in BOOLEAN /\ rejected' \in BOOLEAN
      BY <1>10 DEF RunAgain
    <2>5. UNCHANGED <<lock, changes>> /\ bucket' = 0 /\ limit' = 0 /\ offset' = 0
      BY <1>10 DEF RunAgain
    <2> QED
      BY <2>1, <2>2, <2>3, <2>4, <2>5 DEF Details
  <1> QED
    BY <1>1, <1>2, <1>3, <1>4, <1>5, <1>6, <1>7, <1>8, <1>9, <1>10 DEF Next

LEMMA DetailsInvariant == Spec => []Details
  <1>1. IInv /\ Details /\ [Next]_vars => Details'
    BY DetailsStep DEF IInv
  <1> QED
    BY InitDetails, <1>1, Invariance, PTL DEF Spec

\* The variables keep their types in every command and whatever others do: the
\* listing goes on in folders, what is locked are numbers of bytes.
THEOREM TypeCorrect == Spec => []TypeOK
  <1>1. IInv /\ Details => TypeOK
    BY DEF IInv, Types, Details, TypeOK, Places, Exporting, Loading
  <1> QED
    BY <1>1, Invariance, DetailsInvariant, PTL

-----------------------------------------------------------------------------
(* No upload is too large unforeseen. *)

\* Once the gate is passed, unforced and undisturbed, every bucket takes what the
\* lock says it should hold, and what is left to upload is of the manifest.
Sized ==
    /\ quiet /\ ~request.force /\ pc \notin {"gate", "done"} =>
          \A b \in Buckets : \A l \in lock[b] : l.bytes <= project[b].limit
    /\ pc = "upload" => left \subseteq Present(blobs)
    /\ rejected => pc = "done"
    /\ SizesAreForeseen

LEMMA InitSized == Init => Sized
  BY DEF Init, Sized, SizesAreForeseen

LEMMA SizedStep ==
    ASSUME IInv, Details, Sized, [Next]_vars
    PROVE  Sized'
  <1> USE NameFacts
  <1> USE DEF Goto, End
  <1>t. Types /\ AtWork
    BY DEF IInv
  \* Nothing is rejected, and the limits stay.
  <1>0. ASSUME UNCHANGED <<request, lock, rejected>>, pc \notin {"gate", "done"},
               quiet' => quiet, pc' # "done" => pc' # "gate",
               pc' = "upload" => left' \subseteq Present(blobs)',
               quiet' => \A b \in Buckets : project'[b].limit = project[b].limit
        PROVE  Sized'
    BY <1>0 DEF Sized, SizesAreForeseen
  <1>1. CASE Gate
    <2>1. /\ UNCHANGED <<request, project, dirs, lock, bucket, quiet, rejected>>
          /\ ~rejected /\ pc' \in {"next", "done"}
          /\ pc' = "next" /\ ~request.force => \E live \in SUBSET Buckets : ~Drifts(live)
      BY <1>1, <1>t DEF Gate, history, Sized, Selected
    <2>2. ASSUME NEW live \in SUBSET Buckets, ~Drifts(live), NEW b \in Buckets, NEW l \in lock[b]
          PROVE  l.bytes <= project[b].limit
      <3>1. ~(project[b].limit < l.bytes)
        BY <2>2 DEF Drifts
      <3>2. project[b].limit \in Nat /\ l.bytes \in Nat
        BY <1>t DEF Types, Bucket, Details, LockEntry
      <3> QED
        BY <3>1, <3>2
    <2> QED
      BY <2>1, <2>2 DEF Sized, SizesAreForeseen
  <1>2. CASE \/ NextBucket \/ NoBucketLeft \/ GetSettings \/ ListPage \/ Download \/ Downloaded
             \/ ClearObject \/ Cleared \/ WriteObject \/ WriteManifest \/ Prune
             \/ ReadManifest \/ VerifyObject \/ Uploaded
    <2>1. /\ UNCHANGED <<request, project, lock, quiet, rejected>> /\ pc \notin {"gate", "done"}
          /\ pc' \notin {"gate", "upload"}
      BY <1>2 DEF NextBucket, NoBucketLeft, GetSettings, ListPage, Download, Downloaded,
         ClearObject, Cleared, WriteObject, WriteManifest, Prune, ReadManifest, VerifyObject,
         Uploaded, history
    <2> QED
      BY <1>0, <2>1
  <1>3. CASE Verified
    <2>1. /\ UNCHANGED <<request, project, lock, quiet, rejected, blobs>> /\ pc = "verify"
          /\ pc' # "gate" /\ left' = Present(blobs)
      BY <1>3 DEF Verified, history
    <2>2. Present(blobs)' = Present(blobs)
      BY <2>1 DEF Present
    <2> QED
      BY <1>0, <2>1, <2>2
  <1>4. CASE Upload
    <2>1. /\ bucket \in Buckets /\ pc = "upload" /\ Min(left) \in left
          /\ UNCHANGED <<request, lock, dirs, bucket, quiet, blobs>>
      BY <1>4, <1>t, MinIsIn DEF Upload, AtWork, Loading
    <2>2. CASE Fits(Min(left))
      <3>1. /\ project' = [project EXCEPT ![bucket].objects[Min(left)] = blobs[Min(left)]]
            /\ left' \subseteq left /\ pc' = "upload" /\ rejected' = rejected
        BY <1>4, <2>2 DEF Upload
      <3>2. \A b \in Buckets : project'[b].limit = project[b].limit
        BY <1>t, <2>1, <3>1 DEF Types, Bucket
      <3>3. left' \subseteq Present(blobs)'
        BY <2>1, <3>1 DEF Sized, Present
      <3> QED
        BY <1>0, <2>1, <3>1, <3>2, <3>3
    <2>3. CASE ~Fits(Min(left))
      <3>1. pc' = "done" /\ rejected' = project[bucket].exists /\ UNCHANGED <<project, left>>
        BY <1>4, <2>3 DEF Upload
      <3>2. ASSUME rejected', quiet, ~request.force, lock[bucket] # {}
            PROVE  \E m \in dirs[bucket].manifest, l \in lock[bucket] : Bytes(m) # l.bytes
        <4>1. blobs \in dirs[bucket].manifest
          BY <1>t, <2>1, <3>2 DEF IInv, DeliveredSoFar, AtWork, Loading
        <4>2. PICK l \in lock[bucket] : TRUE
          BY <3>2
        <4>3. l.bytes <= project[bucket].limit /\ l.bytes \in Nat /\ project[bucket].limit \in Nat
          BY <1>t, <2>1, <3>2 DEF Sized, Details, LockEntry, Types, Bucket
        <4>4. /\ ~(Size[blobs[Min(left)]] <= project[bucket].limit)
              /\ Min(left) \in Present(blobs)
          BY <2>1, <2>3, <3>1, <3>2 DEF Fits, Sized
        <4>5. /\ Bytes(blobs) \in Nat /\ Size[blobs[Min(left)]] <= Bytes(blobs)
              /\ Size[blobs[Min(left)]] \in Nat
          BY <1>t, <4>4, BytesFacts, NamesAssumption DEF Types, Objects, Present
        <4>6. Bytes(blobs) # l.bytes
          BY <4>3, <4>4, <4>5
        <4> QED
          BY <4>1, <4>6
      <3> QED
        BY <2>1, <3>1, <3>2 DEF Sized, SizesAreForeseen
    <2> QED
      BY <2>2, <2>3
  <1>5. CASE WriteLock \/ Stop
    <2>1. /\ UNCHANGED <<rejected>> /\ pc # "done" /\ pc' = "done"
      BY <1>5 DEF WriteLock, Stop, history
    <2> QED
      BY <2>1 DEF Sized, SizesAreForeseen
  <1>6. ASSUME NEW b \in Buckets, NEW k \in Keys, NEW c \in Contents \cup {None},
               Store(b, k, c) \/ Edit(b, k, c)
        PROVE  Sized'
    <2>1. /\ UNCHANGED <<request, lock, pc, left, blobs, rejected>> /\ pc # "done"
          /\ quiet' => quiet /\ project' = project
      BY <1>6 DEF Store, Edit, CanChange, history
    <2> QED
      BY <2>1 DEF Sized, SizesAreForeseen, Present
  <1>7. ASSUME NEW b \in Buckets, NEW live \in Migrations(b), Migrate(b, live)
        PROVE  Sized'
    <2>1. /\ UNCHANGED <<request, lock, pc, left, blobs, rejected>> /\ pc # "done" /\ ~quiet'
      BY <1>7 DEF Migrate, CanChange
    <2> QED
      BY <2>1 DEF Sized, SizesAreForeseen, Present
  <1>8. CASE RunAgain
    BY <1>8 DEF RunAgain, Sized, SizesAreForeseen
  <1>9. CASE Terminated \/ UNCHANGED vars
    BY <1>9 DEF Terminated, vars, history, Sized, SizesAreForeseen, Present
  <1> QED
    BY <1>1, <1>2, <1>3, <1>4, <1>5, <1>6, <1>7, <1>8, <1>9 DEF Next

\* Where the lock is about the manifest that is loaded, the gate stops a load whose
\* objects the bucket would not take, before a row is written: none is rejected
\* for its size later, unless somebody changes the project or forces the load.
THEOREM GateForeseesSizes == Spec => []SizesAreForeseen
  <1>1. Spec => []Sized
    BY InitSized, SizedStep, Invariance, DetailsInvariant, PTL DEF Spec
  <1>2. Sized => SizesAreForeseen
    BY DEF Sized
  <1> QED
    BY <1>1, <1>2, PTL

-----------------------------------------------------------------------------
(* The listing. *)

\* The objects that the listing owes.
Awaited == {k \in steady \ Placeholders : request.prefix \in {Root, FolderOf[k]}}

\* It has one already, or has still to come to it in the folder being listed, in a
\* folder that waits, or in one that is still to be met.
Expected(k) ==
    \/ k \in Present(found)
    \/ folder = FolderOf[k] /\ Rank(InFolder(folder), k) >= offset
    \/ FolderOf[k] \in Range(queue)
    \/ FolderOf[k] \in Folders /\ folder = Root /\ Rank(InFolder(Root), FolderOf[k]) >= offset

Listing ==
    /\ pc = "list" => steady \subseteq Present(Stored)
    /\ pc = "list" /\ ~removed => \A k \in Awaited : Expected(k)
    /\ ListingIsComplete

\* What the service lists of a folder are finitely many numbers.
LEMMA ListedFacts ==
    ASSUME NEW f \in Folders \cup {Root}
    PROVE  /\ InFolder(f) \subseteq Nat /\ IsFiniteSet(InFolder(f))
           /\ \A k \in Present(Stored) :
                 /\ FolderOf[k] \in Folders \cup {Root}
                 /\ FolderOf[k] = f => k \in InFolder(f)
                 /\ f = Root /\ FolderOf[k] \in Folders => FolderOf[k] \in InFolder(f)
                 /\ k \notin Folders
  <1>1. InFolder(f) \in SUBSET (Keys \cup Folders) /\ IsFiniteSet(Keys \cup Folders)
    BY NamesAssumption, FS_Union DEF InFolder, Present
  <1>2. IsFiniteSet(InFolder(f)) /\ InFolder(f) \subseteq Nat
    BY <1>1, FS_Subset, NamesAssumption
  <1>3. ASSUME NEW k \in Present(Stored)
        PROVE  /\ FolderOf[k] \in Folders \cup {Root} /\ k \notin Folders
               /\ f = Root /\ FolderOf[k] \in Folders => FolderOf[k] \in InFolder(f)
    BY NamesAssumption DEF Present, InFolder, Under
  <1> QED
    BY <1>2, <1>3 DEF InFolder

\* A page holds whatever comes next, or there is more than a page of it.
LEMMA PageFacts ==
    ASSUME NEW f \in Folders \cup {Root}, NEW from \in Nat
    PROVE  LET page == Page(f, from)
           IN  /\ page \subseteq InFolder(f) /\ Cardinality(page) \in Nat
               /\ \A e \in InFolder(f) : Rank(InFolder(f), e) >= from =>
                     \/ e \in page
                     \/ ~IsLast(page) /\ Rank(InFolder(f), e) >= from + Cardinality(page)
  <1> DEFINE S == InFolder(f)
             page == Page(f, from)
  <1>1. S \subseteq Nat /\ IsFiniteSet(S) /\ PageSize \in Nat \ {0}
    BY ListedFacts, NamesAssumption
  <1>2. page = {x \in S : Rank(S, x) \in from..(from + PageSize - 1)}
    BY DEF Page
  <1> HIDE DEF page, S
  <1>3. /\ Cardinality(page) \in 0..PageSize
        /\ Cardinality(page) < PageSize => \A x \in S : Rank(S, x) >= from => x \in page
    BY <1>1, <1>2, Window
  <1>4. ASSUME NEW e \in S, Rank(S, e) >= from, e \notin page
        PROVE  ~IsLast(page) /\ Rank(S, e) >= from + Cardinality(page)
    <2>1. ~(Cardinality(page) < PageSize)
      BY <1>3, <1>4
    <2>2. Rank(S, e) \in Nat
      BY <1>1, RanksGrow
    <2>3. Rank(S, e) > from + PageSize - 1
      BY <1>1, <1>2, <1>4, <2>2
    <2> QED
      BY <1>1, <1>3, <2>1, <2>2, <2>3 DEF IsLast
  <1> QED
    BY <1>2, <1>3, <1>4 DEF page, S

LEMMA GetSettingsListing == ASSUME IInv, Details, GetSettings PROVE Listing'
  <1>1. /\ UNCHANGED <<request, project, bucket>> /\ pc' \in {"list", "done"}
        /\ folder' = request.prefix /\ offset' = 0 /\ steady' = Present(Stored)
    BY DEF GetSettings, Goto, End
  <1>2. Stored' = Stored /\ Present(Stored)' = Present(Stored) /\ \A f : InFolder(f)' = InFolder(f)
    BY <1>1 DEF Stored, InFolder, Under, Present
  <1>3. ASSUME NEW k \in Awaited' PROVE Expected(k)'
    <2>1. k \in Present(Stored) /\ request.prefix \in {Root, FolderOf[k]}
      BY <1>1 DEF Awaited
    <2>2. FolderOf[k] \in Folders \cup {Root} /\ Root \in Folders \cup {Root}
      BY <2>1, ListedFacts
    <2>3. \A f \in Folders \cup {Root} : \A e : Rank(InFolder(f), e) >= 0
      BY ListedFacts, RanksGrow
    <2>4. CASE request.prefix = FolderOf[k]
      BY <1>1, <1>2, <2>2, <2>3, <2>4 DEF Expected
    <2>5. CASE request.prefix = Root /\ FolderOf[k] \in Folders
      BY <1>1, <1>2, <2>2, <2>3, <2>5 DEF Expected
    <2> QED
      BY <2>1, <2>2, <2>4, <2>5
  <1> QED
    BY <1>1, <1>2, <1>3 DEF Listing, ListingIsComplete

\* One request: what it brings is found, what it does not is still to come.
LEMMA ListPageListing == ASSUME IInv, Details, Listing, ListPage PROVE Listing'
  <1> DEFINE page == Page(folder, offset)
             waiting == queue \o Ascending(page \cap Folders)
  <1>1. /\ UNCHANGED <<request, project, bucket, steady, removed>> /\ pc = "list"
        /\ found' = [k \in Keys |-> IF k \in page \ Placeholders THEN Stored[k] ELSE found[k]]
        /\ pc' \in {"list", "download"}
        /\ ~IsLast(page) =>
              /\ offset' = offset + Cardinality(page) /\ queue' = waiting
              /\ folder' = folder /\ pc' = "list"
        /\ IsLast(page) /\ waiting # <<>> =>
              /\ offset' = 0 /\ folder' = Last(waiting) /\ queue' = Front(waiting) /\ pc' = "list"
        /\ IsLast(page) /\ waiting = <<>> => pc' = "download"
    BY DEF ListPage, Goto, history
  <1>2. Stored' = Stored /\ Present(Stored)' = Present(Stored) /\ \A f : InFolder(f)' = InFolder(f)
    BY <1>1 DEF Stored, InFolder, Under, Present
  <1>3. /\ folder \in Folders \cup {Root} /\ offset \in Nat /\ queue \in Seq(Folders)
        /\ found \in Objects /\ Stored \in Objects
    <2>1. bucket \in Buckets
      BY <1>1, NameFacts DEF IInv, AtWork, Exporting
    <2> QED
      BY <2>1, StoreFacts DEF Details, IInv, Types, Stored
  <1>4. /\ page \subseteq InFolder(folder) /\ Cardinality(page) \in Nat
        /\ \A e \in InFolder(folder) : Rank(InFolder(folder), e) >= offset =>
              \/ e \in page
              \/ ~IsLast(page) /\ Rank(InFolder(folder), e) >= offset + Cardinality(page)
    BY <1>3, PageFacts
  <1>5. waiting \in Seq(Folders) /\ Range(waiting) = Range(queue) \cup (page \cap Folders)
    <2>1. /\ Ascending(page \cap Folders) \in Seq(Folders)
          /\ Range(Ascending(page \cap Folders)) = page \cap Folders
      BY FoldersInOrder
    <2> HIDE DEF page
    <2>2. \A s, t \in Seq(Folders) : s \o t \in Seq(Folders) /\ Range(s \o t) = Range(s) \cup Range(t)
      BY RangeConcatenation, ConcatProperties
    <2> QED
      BY <1>3, <2>1, <2>2
  <1> HIDE DEF page, waiting
  <1>7. ASSUME NEW k \in Present(Stored) \ Placeholders, k \in Present(found) \/ k \in page
        PROVE  k \in Present(found)'
    BY <1>1, <1>7 DEF Present
  <1>8. ASSUME NEW k \in Awaited, Expected(k)
        PROVE  \/ k \in Present(found)'
               \/ IsLast(page) /\ FolderOf[k] \in Range(waiting)
               \/ ~IsLast(page) /\ Expected(k)'
    <2>1. k \in Present(Stored) \ Placeholders
      BY <1>1 DEF Listing, Awaited
    <2>2. /\ FolderOf[k] = folder => k \in InFolder(folder)
          /\ folder = Root /\ FolderOf[k] \in Folders => FolderOf[k] \in InFolder(folder)
      BY <1>3, <2>1, ListedFacts
    <2>3. CASE k \in Present(found)
      BY <1>7, <2>1, <2>3
    <2>4. CASE folder = FolderOf[k] /\ Rank(InFolder(folder), k) >= offset
      <3>1. k \in page \/ (~IsLast(page) /\ Rank(InFolder(folder), k) >= offset + Cardinality(page))
        BY <1>4, <2>2, <2>4
      <3> QED
        BY <1>1, <1>2, <1>7, <2>1, <2>4, <3>1 DEF Expected
    <2>5. CASE FolderOf[k] \in Range(queue)
      BY <1>1, <1>5, <2>5 DEF Expected
    <2>6. CASE FolderOf[k] \in Folders /\ folder = Root /\ Rank(InFolder(Root), FolderOf[k]) >= offset
      <3>1. \/ FolderOf[k] \in page
            \/ ~IsLast(page) /\ Rank(InFolder(Root), FolderOf[k]) >= offset + Cardinality(page)
        BY <1>4, <2>2, <2>6
      <3> QED
        BY <1>1, <1>2, <1>5, <2>6, <3>1 DEF Expected
    <2> QED
      BY <1>8, <2>3, <2>4, <2>5, <2>6 DEF Expected
  <1>9. ASSUME NEW k \in Awaited, ~removed
        PROVE  /\ pc' = "list" => Expected(k)'
               /\ pc' = "download" => k \in Present(found)'
    <2>1. Expected(k)
      BY <1>1, <1>9 DEF Listing
    <2>2. CASE k \in Present(found)'
      BY <2>2 DEF Expected
    <2>3. CASE ~IsLast(page) /\ Expected(k)'
      BY <1>1, <2>3
    <2>4. CASE IsLast(page) /\ FolderOf[k] \in Range(waiting)
      <3>1. waiting # <<>> /\ Len(waiting) \in Nat \ {0} /\ DOMAIN waiting = 1..Len(waiting)
        <4>1. waiting # <<>>
          BY <2>4 DEF Range
        <4> QED
          BY <1>5, <4>1, EmptySeq, LenProperties
      <3>2. /\ pc' = "list" /\ offset' = 0
            /\ folder' = waiting[Len(waiting)] /\ queue' = SubSeq(waiting, 1, Len(waiting) - 1)
        BY <1>1, <2>4, <3>1 DEF Last, Front
      <3>3. PICK i \in 1..Len(waiting) : waiting[i] = FolderOf[k]
        BY <2>4, <3>1 DEF Range
      <3>4. CASE i = Len(waiting)
        <4>1. folder' = FolderOf[k] /\ folder' \in Folders \cup {Root}
          BY <1>5, <3>1, <3>2, <3>3, <3>4
        <4>2. Rank(InFolder(FolderOf[k]), k) >= 0
          BY <4>1, ListedFacts, RanksGrow
        <4> QED
          BY <1>2, <3>2, <4>1, <4>2 DEF Expected
      <3>5. CASE i # Len(waiting)
        <4>1. i \in 1..(Len(waiting) - 1) /\ Len(waiting) - 1 \in Nat
          <5>1. \A n \in Nat : \A j \in 1..n : j # n => j \in 1..(n - 1) /\ n - 1 \in Nat
            OBVIOUS
          <5> QED
            BY <3>1, <3>3, <3>5, <5>1, Zenon
        <4>2. DOMAIN queue' = 1..(Len(waiting) - 1) /\ queue'[i] = waiting[i]
          BY <1>5, <3>1, <3>2, <4>1, SubSeqProperties
        <4> QED
          BY <3>2, <3>3, <4>1, <4>2 DEF Expected, Range
      <3> QED
        BY <3>4, <3>5
    <2> QED
      BY <1>8, <2>1, <2>2, <2>3, <2>4
  <1>10. Awaited' = Awaited
    BY <1>1 DEF Awaited
  <1> QED
    BY <1>1, <1>2, <1>9, <1>10 DEF Listing, ListingIsComplete, Awaited\* Others may add to the bucket: what was to come still is, at the same place or later.

LEMMA GrowthListing ==
    ASSUME IInv, Details, Listing,
           UNCHANGED <<request, pc, bucket, list>>, pc # "download" \/ removed' = removed,
           pc = "list" => bucket \in Buckets /\ steady' \subseteq Present(Stored)',
           removed \/ pc # "list" => removed' \/ pc # "list",
           steady' \subseteq steady,
           pc = "list" /\ ~removed' => Present(Stored) \subseteq Present(Stored)'
    PROVE  Listing'
  <1>1. CASE pc = "list" /\ ~removed'
    <2>1. Present(Stored) \subseteq Present(Stored)' /\ Present(Stored)' \subseteq Keys
      BY <1>1 DEF Present
    <2>2. ASSUME NEW f \in Folders \cup {Root}
          PROVE  /\ InFolder(f) \subseteq InFolder(f)'
                 /\ InFolder(f)' \subseteq Nat /\ IsFiniteSet(InFolder(f)')
      <3>1. InFolder(f) \subseteq InFolder(f)'
        BY <2>1 DEF InFolder, Under
      <3>2. InFolder(f)' \in SUBSET (Keys \cup Folders) /\ IsFiniteSet(Keys \cup Folders)
        BY <2>1, NamesAssumption, FS_Union DEF InFolder
      <3> QED
        BY <3>1, <3>2, FS_Subset, NamesAssumption
    <2>3. ASSUME NEW f \in Folders \cup {Root}, NEW e
          PROVE  /\ Rank(InFolder(f)', e) \in Nat /\ Rank(InFolder(f), e) \in Nat
                 /\ Rank(InFolder(f), e) <= Rank(InFolder(f)', e)
      BY <2>2, RanksGrow
    <2>4. ASSUME NEW k \in Awaited, Expected(k) PROVE Expected(k)'
      <3>1. folder \in Folders \cup {Root} /\ Root \in Folders \cup {Root} /\ offset \in Nat
        BY DEF Details
      <3>2. /\ found' = found /\ folder' = folder /\ queue' = queue /\ offset' = offset
            /\ Present(found)' = Present(found)
        BY DEF list, Present
      <3>3. ASSUME NEW f \in Folders \cup {Root}, NEW e, Rank(InFolder(f), e) >= offset
            PROVE  Rank(InFolder(f)', e) >= offset
        BY <2>3, <3>1, <3>3
      <3> QED
        BY <2>4, <3>1, <3>2, <3>3 DEF Expected
    <2>5. Awaited' \subseteq Awaited /\ \A k \in Awaited : Expected(k)
      BY <1>1 DEF Awaited, Listing
    <2> QED
      BY <1>1, <2>4, <2>5 DEF Listing, ListingIsComplete
  <1>2. CASE pc = "list" /\ removed'
    BY <1>2 DEF Listing, ListingIsComplete
  <1>3. CASE pc # "list"
    BY <1>3 DEF Listing, ListingIsComplete, list, Present
  <1> QED
    BY <1>1, <1>2, <1>3

LEMMA ListingStep ==
    ASSUME IInv, Details, Listing, [Next]_vars
    PROVE  Listing'
  <1> USE DEF Goto, End
  <1>t. Types /\ AtWork
    BY DEF IInv
  \* The listing is over or has not begun.
  <1>0. ASSUME \/ pc' \notin {"list", "download"}
               \/ pc = "download" /\ UNCHANGED <<pc, request, found, steady, removed>>
        PROVE  Listing'
    <2>1. CASE pc' \notin {"list", "download"}
      BY <2>1 DEF Listing, ListingIsComplete
    <2>2. CASE pc = "download" /\ UNCHANGED <<pc, request, found, steady, removed>>
      BY <2>2 DEF Listing, ListingIsComplete, Present
    <2> QED
      BY <1>0, <2>1, <2>2
  <1>1. CASE \/ Gate \/ NextBucket \/ NoBucketLeft \/ Downloaded
             \/ ClearObject \/ Cleared \/ WriteObject \/ WriteManifest \/ Prune \/ WriteLock
             \/ ReadManifest \/ VerifyObject \/ Verified \/ Upload \/ Uploaded \/ Stop \/ RunAgain
    <2>1. pc' \notin {"list", "download"}
      BY <1>1 DEF Gate, NextBucket, NoBucketLeft, Downloaded, ClearObject, Cleared, WriteObject,
         WriteManifest, Prune, WriteLock, ReadManifest, VerifyObject, Verified, Upload, Uploaded,
         Stop, RunAgain
    <2> QED
      BY <1>0, <2>1
  <1>2. CASE Download
    <2>1. pc' = "done" \/ (pc = "download" /\ UNCHANGED <<pc, request, found, steady, removed>>)
      BY <1>2 DEF Download, list, history
    <2> QED
      BY <1>0, <2>1
  <1>3. CASE GetSettings
    BY <1>3, GetSettingsListing
  <1>4. CASE ListPage
    BY <1>4, ListPageListing
  <1>b. pc = "list" => bucket \in Buckets /\ steady \subseteq Present(Stored)
    BY <1>t, NameFacts DEF AtWork, Exporting, Listing
  <1>5. ASSUME NEW b \in Buckets, NEW k \in Keys, NEW c \in Contents \cup {None}, Store(b, k, c)
        PROVE  Listing'
    <2>1. /\ UNCHANGED <<request, pc, bucket, list>>
          /\ project' = [project EXCEPT ![b].objects[k] = c]
          /\ steady' = IF c = None /\ b = bucket THEN steady \ {k} ELSE steady
          /\ removed' = (removed \/ (pc = "list" /\ b = bucket /\ c = None))
      BY <1>5 DEF Store
    <2>2. ASSUME pc = "list"
          PROVE  \A j \in Keys : Stored'[j] = IF b = bucket /\ j = k THEN c ELSE Stored[j]
      BY <1>b, <1>t, <2>1, <2>2, StoreFacts DEF Stored, Types, Bucket, Objects
    <2>3. pc = "list" => steady' \subseteq Present(Stored)'
      BY <1>b, <2>1, <2>2 DEF Present
    <2>4. pc = "list" /\ ~removed' => Present(Stored) \subseteq Present(Stored)'
      BY <2>1, <2>2 DEF Present
    <2>5. removed \/ pc # "list" => removed' \/ pc # "list"
      BY <2>1
    <2>6. steady' \subseteq steady /\ (pc # "download" \/ removed' = removed)
      BY <2>1 DEF Details
    <2> QED
      BY <1>b, <2>1, <2>3, <2>4, <2>5, <2>6, GrowthListing
  <1>6. ASSUME NEW b \in Buckets, NEW live \in Migrations(b), Migrate(b, live)
        PROVE  Listing'
    <2>1. /\ UNCHANGED <<request, pc, bucket, list>>
          /\ project' = [project EXCEPT ![b] = live]
          /\ steady' = IF b = bucket THEN steady \cap Present(live.objects) ELSE steady
          /\ removed' = (removed \/ (pc = "list" /\ b = bucket
                            /\ ~(Present(Stored) \subseteq Present(live.objects))))
      BY <1>6 DEF Migrate
    <2>2. ASSUME pc = "list"
          PROVE  Stored' = IF b = bucket THEN live.objects ELSE Stored
      BY <1>b, <1>t, <2>1, <2>2 DEF Stored, Types
    <2>3. pc = "list" => steady' \subseteq Present(Stored)'
      BY <1>b, <2>1, <2>2 DEF Present
    <2>4. pc = "list" /\ ~removed' => Present(Stored) \subseteq Present(Stored)'
      BY <2>1, <2>2 DEF Present
    <2>5. removed \/ pc # "list" => removed' \/ pc # "list"
      BY <2>1
    <2>6. steady' \subseteq steady /\ (pc # "download" \/ removed' = removed)
      BY <2>1 DEF Details
    <2> QED
      BY <1>b, <2>1, <2>3, <2>4, <2>5, <2>6, GrowthListing
  <1>7. ASSUME NEW b \in Buckets, NEW k \in Keys, NEW c \in Contents \cup {None}, Edit(b, k, c)
        PROVE  Listing'
    <2>1. UNCHANGED <<request, pc, bucket, list, project, steady, removed>>
      BY <1>7 DEF Edit, history
    <2>2. Present(Stored)' = Present(Stored)
      BY <2>1 DEF Present, Stored
    <2> QED
      BY <1>b, <2>1, <2>2, GrowthListing
  <1>8. CASE Terminated \/ UNCHANGED vars
    <2>1. UNCHANGED <<request, pc, bucket, list, project, steady, removed>>
      BY <1>8 DEF Terminated, vars, history
    <2>2. Present(Stored)' = Present(Stored)
      BY <2>1 DEF Present, Stored
    <2> QED
      BY <1>b, <2>1, <2>2, GrowthListing
  <1> QED
    BY <1>1, <1>2, <1>3, <1>4, <1>5, <1>6, <1>7, <1>8 DEF Next

\* Paging through a bucket that the application only adds to leaves no gap, for any
\* size of a page, any folders and any additions between two pages.
THEOREM ListingMissesNothing == Spec => []ListingIsComplete
  <1>1. Init => Listing
    BY DEF Init, Listing, ListingIsComplete
  <1>2. IInv /\ Details /\ Listing /\ [Next]_vars => Listing'
    BY ListingStep
  <1>3. Listing => ListingIsComplete
    BY DEF Listing
  <1> QED
    BY <1>1, <1>2, <1>3, Invariance, DetailsInvariant, PTL DEF Spec
=============================================================================
