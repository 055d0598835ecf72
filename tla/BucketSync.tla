----------------------------- MODULE BucketSync -----------------------------
(***************************************************************************)
(* storage.rs and cmd/buckets.rs: an export lists the objects of a bucket  *)
(* page by page, downloads them and rewrites the bucket's directory; a     *)
(* load checks the files against the manifest and uploads them.  Both pass *)
(* the comparison of bucket settings with the lock (classify_buckets).     *)
(* Beside them the application uses the bucket and somebody edits files.   *)
(*                                                                         *)
(* A content stands for its bytes and their hash.  Folders are one level   *)
(* deep, and keys that are no plain path, which both commands refuse, are  *)
(* left out.  What happens to tables in between is in SeedFolder and       *)
(* LoadTxn.                                                                *)
(***************************************************************************)
EXTENDS OrderedSets, FiniteSetsExt, SequencesExt

CONSTANTS
    Buckets,       \* numbered in the order of the configuration
    Keys,          \* the keys of objects, numbered in their order
    Folders,       \* key prefixes, numbered with the keys
    FolderOf,      \* where an object is: a folder or Root
    Placeholders,  \* the keys called .emptyFolderPlaceholder
    SeedLike,      \* keys with the extension of a seed file
    Contents,
    Size,
    PageSize,      \* LIST_PAGE
    MaxObject,     \* max_object_bytes
    Situations,    \* the projects, folders and locks to start from
    Requests,      \* the commands to consider
    MaxRuns,       \* bound: commands
    MaxChanges     \* bound: changes by others

Root == 0
None == 0

\* What is stored under each key, if anything.
Objects == [Keys -> Contents \cup {None}]
Empty == [k \in Keys |-> None]
Present(o) == {k \in Keys : o[k] # None}
Bytes(o) == MapThenSumSet(LAMBDA k : Size[o[k]], Present(o))

\* A bucket with its limit for the size of an object.
Bucket == [exists : BOOLEAN, limit : Nat, objects : Objects]

\* The directory of a bucket; a manifest says which contents belong there.
Directory == [objects : Objects, manifest : SUBSET Objects]

\* What a lock says of a bucket: the limit at that time, the bytes exported.
LockEntry == [limit : Nat, bytes : Nat]

Situation ==
    [project : [Buckets -> Bucket], dirs : [Buckets -> Directory],
     lock : [Buckets -> SUBSET LockEntry]]

Request ==
    [command : {"export", "load"}, selected : SUBSET Buckets,
     prefix : Folders \cup {Root}, dryRun : BOOLEAN, force : BOOLEAN]

ASSUME NamesAssumption ==
    /\ Buckets \subseteq Nat /\ Keys \subseteq Nat \ {Root} /\ Folders \subseteq Nat \ {Root}
    /\ IsFiniteSet(Keys) /\ IsFiniteSet(Folders)
    /\ Keys \cap Folders = {}
    /\ FolderOf \in [Keys -> Folders \cup {Root}]
    /\ Contents \subseteq Nat \ {None} /\ Size \in [Contents -> Nat]
    /\ PageSize \in Nat \ {0}

ASSUME BoundsAssumption == MaxRuns \in Nat \ {0} /\ MaxChanges \in Nat

ASSUME InputsAssumption == Situations \subseteq Situation /\ Requests \subseteq Request

VARIABLES
    request,  \* the command (input)
    project,  \* the buckets of the live project
    dirs,     \* the bucket directories of the seed folder
    lock,     \* what graine.lock says of buckets
    pc,
    todo,     \* the selected buckets still to do
    bucket,   \* the one being done
    limit,    \* its limit, as it was asked for
    folder,   \* the folder being listed
    queue,    \* folders still to list
    offset,
    found,    \* the objects listed
    left,     \* the keys still to do
    blobs,    \* the contents downloaded, or to upload
    entries,  \* what is to be locked of the buckets done
    exit,
    runs, changes,
    past,     \* (history) what the application ever stored, or the folder recorded
    steady,   \* (history) the keys that are there since the listing began
    removed,  \* (history) whether something was removed since then
    quiet,    \* (history) whether others left the project alone since the command began
    rejected  \* (history) whether an upload was too large for the bucket

list == <<folder, queue, offset, found>>
history == <<past, steady, removed, quiet, rejected>>
bounds == <<runs, changes>>
vars == <<request, project, dirs, lock, pc, todo, bucket, limit, list, left, blobs,
          entries, exit, bounds, history>>

NoEntries == [b \in Buckets |-> {}]

Init ==
    /\ \E s \in Situations :
        /\ project = s.project /\ dirs = s.dirs /\ lock = s.lock
        /\ past = [b \in Buckets |-> [k \in Keys |->
              {s.project[b].objects[k]} \cup {m[k] : m \in s.dirs[b].manifest}]]
    /\ request \in Requests
    /\ pc = "gate" /\ todo = {} /\ bucket = 0 /\ limit = 0
    /\ folder = Root /\ queue = <<>> /\ offset = 0 /\ found = Empty
    /\ left = {} /\ blobs = Empty /\ entries = NoEntries
    /\ exit = "none" /\ runs = 1 /\ changes = 0
    /\ steady = {} /\ removed = FALSE /\ quiet = TRUE /\ rejected = FALSE

\* The command goes on in another place; whatever is not named stays.
Goto(place) == pc' = place /\ exit' = exit
End(how) == pc' = "done" /\ exit' = how

\* select_buckets: none with --no-buckets.
Selected == request.selected

-----------------------------------------------------------------------------
(* The comparison with the lock. *)

\* Mutated form: only whether a bucket exists is looked at.
Drifts_MissingOnly(live) == \E b \in Buckets : lock[b] # {} /\ b \notin live

\* classify_buckets: the breaking drifts, where the settings of the buckets in
\* live could be had.  The limit for one object is compared with all bytes.
Drifts(live) ==
    \E b \in Buckets : \E l \in lock[b] :
        b \notin live \/ project[b].limit < l.bytes

\* live_bucket_settings takes a request that fails for a bucket that is missing.
Gate ==
    /\ pc = "gate"
    /\ \E live \in SUBSET {b \in Selected : project[b].exists} :
        IF Drifts(live) /\ ~request.force THEN End("drift") ELSE Goto("next")
    /\ todo' = Selected
    /\ UNCHANGED <<request, project, dirs, lock, bucket, limit, list, left, blobs,
                   entries, bounds, history>>

NextBucket ==
    /\ pc = "next" /\ todo # {}
    /\ bucket' = Min(todo)
    /\ todo' = todo \ {bucket'}
    /\ Goto(IF request.command = "export" THEN "settings" ELSE "read")
    /\ UNCHANGED <<request, project, dirs, lock, limit, list, left, blobs,
                   entries, bounds, history>>

NoBucketLeft ==
    /\ pc = "next" /\ todo = {}
    /\ IF request.command = "export" THEN Goto("prune") ELSE End("ok")
    /\ UNCHANGED <<request, project, dirs, lock, todo, bucket, limit, list, left, blobs,
                   entries, bounds, history>>

-----------------------------------------------------------------------------
(* export_bucket: listing and downloading. *)

Stored == project[bucket].objects

GetSettings ==
    /\ pc = "settings"
    /\ IF project[bucket].exists THEN Goto("list") ELSE End("error")
    /\ limit' = project[bucket].limit
    /\ folder' = request.prefix /\ queue' = <<>> /\ offset' = 0 /\ found' = Empty
    /\ steady' = Present(Stored) /\ removed' = FALSE
    /\ UNCHANGED <<request, project, dirs, lock, todo, bucket, left, blobs, entries,
                   bounds, past, quiet, rejected>>

\* What the service lists of a folder (external): its objects and the folders in
\* it, by name.
Under(f) == {k \in Present(Stored) : f \in {Root, FolderOf[k]}}
InFolder(f) ==
    {k \in Present(Stored) : FolderOf[k] = f}
      \cup {g \in Folders : f = Root /\ Under(g) # {}}
Page(f, from) ==
    {e \in InFolder(f) : Rank(InFolder(f), e) \in from..(from + PageSize - 1)}

\* Mutated form: entries that are passed over do not count.
IsLast_Kept(page) == Cardinality(page \ Placeholders) < PageSize

\* Whether a page is the last one.
IsLast(page) == Cardinality(page) < PageSize

\* list_objects: one request.
ListPage ==
    /\ pc = "list"
    /\ LET page == Page(folder, offset)
           waiting == queue \o Ascending(page \cap Folders)
       IN  /\ found' = [k \in Keys |-> IF k \in page \ Placeholders THEN Stored[k] ELSE found[k]]
           /\ IF ~IsLast(page) THEN
                  /\ offset' = offset + Cardinality(page)
                  /\ queue' = waiting
                  /\ UNCHANGED <<folder, left>> /\ Goto("list")
              ELSE IF waiting # <<>> THEN
                  /\ offset' = 0
                  /\ folder' = Last(waiting) /\ queue' = Front(waiting)
                  /\ UNCHANGED left /\ Goto("list")
              ELSE
                  /\ left' = Present(found')
                  /\ UNCHANGED <<folder, queue, offset>> /\ Goto("download")
    /\ blobs' = Empty
    /\ UNCHANGED <<request, project, dirs, lock, todo, bucket, limit, entries,
                   bounds, history>>

\* Too large by the listing, or gone since.
Download ==
    /\ pc = "download" /\ left # {}
    /\ LET k == Min(left)
       IN  IF Size[found[k]] > MaxObject \/ Stored[k] = None \/ ~project[bucket].exists
           THEN End("error") /\ UNCHANGED <<left, blobs>>
           ELSE /\ blobs' = [blobs EXCEPT ![k] = Stored[k]]
                /\ left' = left \ {k}
                /\ Goto("download")
    /\ UNCHANGED <<request, project, dirs, lock, todo, bucket, limit, list, entries,
                   bounds, history>>

-----------------------------------------------------------------------------
(* export_buckets: rewriting the directory. *)

Downloaded ==
    /\ pc = "download" /\ left = {}
    /\ Goto("clear")
    /\ UNCHANGED <<request, project, dirs, lock, todo, bucket, limit, list, left, blobs,
                   entries, bounds, history>>

\* remove_dir_all, in no particular order.
ClearObject ==
    /\ pc = "clear"
    /\ \E k \in Present(dirs[bucket].objects) :
        dirs' = [dirs EXCEPT ![bucket].objects[k] = None]
    /\ UNCHANGED <<request, project, lock, pc, todo, bucket, limit, list, left, blobs,
                   entries, exit, bounds, history>>

Cleared ==
    /\ pc = "clear" /\ Present(dirs[bucket].objects) = {}
    /\ left' = Present(blobs)
    /\ Goto("write")
    /\ UNCHANGED <<request, project, dirs, lock, todo, bucket, limit, list, blobs,
                   entries, bounds, history>>

WriteObject ==
    /\ pc = "write" /\ left # {}
    /\ dirs' = [dirs EXCEPT ![bucket].objects[Min(left)] = blobs[Min(left)]]
    /\ left' = left \ {Min(left)}
    /\ UNCHANGED <<request, project, lock, pc, todo, bucket, limit, list, blobs,
                   entries, exit, bounds, history>>

WriteManifest ==
    /\ pc = "write" /\ left = {}
    /\ dirs' = [dirs EXCEPT ![bucket].manifest = {blobs}]
    /\ entries' = [entries EXCEPT ![bucket] = {[limit |-> limit, bytes |-> Bytes(blobs)]}]
    /\ Goto("next")
    /\ UNCHANGED <<request, project, lock, todo, bucket, limit, list, left, blobs,
                   bounds, history>>

\* prune_stale: manifests and objects look like seed files that no table wrote.
Prune ==
    /\ pc = "prune"
    /\ \E b \in Buckets :
        \/ /\ dirs[b].manifest # {}
           /\ dirs' = [dirs EXCEPT ![b].manifest = {}]
        \/ \E k \in Present(dirs[b].objects) \cap SeedLike :
              dirs' = [dirs EXCEPT ![b].objects[k] = None]
    /\ UNCHANGED <<request, project, lock, pc, todo, bucket, limit, list, left, blobs,
                   entries, exit, bounds, history>>

\* Lock::build: the buckets that were not exported are not in the new lock.
WriteLock ==
    /\ pc = "prune"
    /\ \A b \in Buckets :
        dirs[b].manifest = {} /\ Present(dirs[b].objects) \cap SeedLike = {}
    /\ lock' = entries
    /\ End("ok")
    /\ UNCHANGED <<request, project, dirs, todo, bucket, limit, list, left, blobs,
                   entries, bounds, history>>

-----------------------------------------------------------------------------
(* load_buckets. *)

ReadManifest ==
    /\ pc = "read"
    /\ IF dirs[bucket].manifest = {}
       THEN End("error") /\ UNCHANGED <<left, blobs>>
       ELSE /\ blobs' \in dirs[bucket].manifest
            /\ left' = Present(blobs')
            /\ Goto("verify")
    /\ UNCHANGED <<request, project, dirs, lock, todo, bucket, limit, list, entries,
                   bounds, history>>

\* Mutated form: a file of the right size will do.
Matches_Size(k) ==
    LET c == dirs[bucket].objects[k] IN c # None /\ Size[c] = Size[blobs[k]]

\* The file has the hash that the manifest records.
Matches(k) == dirs[bucket].objects[k] = blobs[k]

\* The file is read and its hash compared; what was read is uploaded later.
VerifyObject ==
    /\ pc = "verify" /\ left # {}
    /\ LET k == Min(left)
       IN  IF Matches(k)
           THEN /\ blobs' = [blobs EXCEPT ![k] = dirs[bucket].objects[k]]
                /\ left' = left \ {k}
                /\ Goto("verify")
           ELSE End("error") /\ UNCHANGED <<left, blobs>>
    /\ UNCHANGED <<request, project, dirs, lock, todo, bucket, limit, list, entries,
                   bounds, history>>

Verified ==
    /\ pc = "verify" /\ left = {}
    /\ IF request.dryRun THEN Goto("next")
       ELSE IF project[bucket].exists THEN Goto("upload") ELSE End("error")
    /\ left' = Present(blobs)
    /\ UNCHANGED <<request, project, dirs, lock, todo, bucket, limit, list, blobs,
                   entries, bounds, history>>

Fits(k) == project[bucket].exists /\ Size[blobs[k]] <= project[bucket].limit

\* Mutated form: the answer of the service is not looked at.
Upload_Unchecked ==
    /\ pc = "upload" /\ left # {}
    /\ LET k == Min(left)
       IN  /\ IF Fits(k)
              THEN project' = [project EXCEPT ![bucket].objects[k] = blobs[k]]
              ELSE UNCHANGED project
           /\ left' = left \ {k} /\ Goto("upload")
    /\ UNCHANGED <<request, dirs, lock, todo, bucket, limit, list, blobs, entries,
                   bounds, history>>

\* One object, in place of any other at that key.
Upload ==
    /\ pc = "upload" /\ left # {}
    /\ LET k == Min(left)
       IN  IF Fits(k)
           THEN /\ project' = [project EXCEPT ![bucket].objects[k] = blobs[k]]
                /\ left' = left \ {k} /\ Goto("upload")
                /\ UNCHANGED rejected
           ELSE /\ End("error")
                /\ rejected' = project[bucket].exists
                /\ UNCHANGED <<project, left>>
    /\ UNCHANGED <<request, dirs, lock, todo, bucket, limit, list, blobs, entries,
                   bounds, past, steady, removed, quiet>>

Uploaded ==
    /\ pc = "upload" /\ left = {}
    /\ Goto("next")
    /\ UNCHANGED <<request, project, dirs, lock, todo, bucket, limit, list, left, blobs,
                   entries, bounds, history>>

-----------------------------------------------------------------------------
(* Everything else (external). *)

\* A request is not answered, or the process dies.
Stop ==
    /\ pc # "done"
    /\ End("error")
    /\ UNCHANGED <<request, project, dirs, lock, todo, bucket, limit, list, left, blobs,
                   entries, bounds, history>>

CanChange == pc # "done" /\ changes < MaxChanges /\ changes' = changes + 1

\* The application stores or removes an object.
Store(b, k, c) ==
    /\ CanChange
    /\ project[b].exists /\ project[b].objects[k] # c
    /\ project' = [project EXCEPT ![b].objects[k] = c]
    /\ past' = [past EXCEPT ![b][k] = @ \cup {c}]
    /\ steady' = IF c = None /\ b = bucket THEN steady \ {k} ELSE steady
    /\ removed' = (removed \/ (pc = "list" /\ b = bucket /\ c = None))
    /\ quiet' = FALSE
    /\ UNCHANGED <<request, dirs, lock, pc, todo, bucket, limit, list, left, blobs,
                   entries, exit, runs, rejected>>

\* A migration changes or drops a bucket.
Migrate(b, live) ==
    /\ CanChange
    /\ project' = [project EXCEPT ![b] = live]
    /\ steady' = IF b = bucket THEN steady \cap Present(live.objects) ELSE steady
    /\ removed' = (removed \/ (pc = "list" /\ b = bucket /\ ~(Present(Stored) \subseteq Present(live.objects))))
    /\ quiet' = FALSE
    /\ UNCHANGED <<request, dirs, lock, pc, todo, bucket, limit, list, left, blobs,
                   entries, exit, runs, past, rejected>>

\* A file in the seed folder is edited or deleted.
Edit(b, k, c) ==
    /\ CanChange
    /\ dirs[b].objects[k] # c
    /\ dirs' = [dirs EXCEPT ![b].objects[k] = c]
    /\ UNCHANGED <<request, project, lock, pc, todo, bucket, limit, list, left, blobs,
                   entries, exit, runs, history>>

\* The next command.
RunAgain ==
    /\ pc = "done" /\ runs < MaxRuns
    /\ runs' = runs + 1
    /\ request' \in Requests
    /\ pc' = "gate" /\ todo' = {} /\ bucket' = 0 /\ limit' = 0
    /\ folder' = Root /\ queue' = <<>> /\ offset' = 0 /\ found' = Empty
    /\ left' = {} /\ blobs' = Empty /\ entries' = NoEntries
    /\ exit' = "none"
    /\ steady' = {} /\ removed' = FALSE /\ quiet' = TRUE /\ rejected' = FALSE
    /\ UNCHANGED <<project, dirs, lock, changes, past>>

Terminated == pc = "done" /\ runs = MaxRuns /\ UNCHANGED vars

\* What a migration may make of a bucket.
Migrations(b) ==
    {[exists |-> FALSE, limit |-> 0, objects |-> Empty]}
      \cup {[project[b] EXCEPT !.limit = n] : n \in {Size[c] : c \in Contents} \cup {0}}

Next ==
    \/ Gate \/ NextBucket \/ NoBucketLeft
    \/ GetSettings \/ ListPage \/ Download \/ Downloaded
    \/ ClearObject \/ Cleared \/ WriteObject \/ WriteManifest \/ Prune \/ WriteLock
    \/ ReadManifest \/ VerifyObject \/ Verified \/ Upload \/ Uploaded
    \/ Stop
    \/ \E b \in Buckets, k \in Keys, c \in Contents \cup {None} : Store(b, k, c) \/ Edit(b, k, c)
    \/ \E b \in Buckets : \E live \in Migrations(b) : Migrate(b, live)
    \/ RunAgain \/ Terminated

Spec == Init /\ [][Next]_vars

-----------------------------------------------------------------------------
(* Properties. *)

TypeOK ==
    /\ request \in Request
    /\ project \in [Buckets -> Bucket] /\ dirs \in [Buckets -> Directory]
    /\ lock \in [Buckets -> SUBSET LockEntry] /\ entries \in [Buckets -> SUBSET LockEntry]
    /\ pc \in {"gate", "next", "settings", "list", "download", "clear", "write", "prune",
               "read", "verify", "upload", "done"}
    /\ todo \subseteq request.selected /\ bucket \in Buckets \cup {0} /\ limit \in Nat
    /\ folder \in Folders \cup {Root} /\ queue \in Seq(Folders) /\ offset \in Nat
    /\ found \in Objects /\ left \subseteq Keys /\ blobs \in Objects
    /\ exit \in {"none", "ok", "drift", "error"}
    /\ runs \in 1..MaxRuns /\ changes \in 0..MaxChanges
    /\ past \in [Buckets -> [Keys -> SUBSET (Contents \cup {None})]]
    /\ steady \subseteq Keys
    /\ removed \in BOOLEAN /\ quiet \in BOOLEAN /\ rejected \in BOOLEAN

\* Paging through a bucket that the application adds to misses no object that is
\* there all the time: pages may overlap, and may have entries that are passed
\* over, but no gap.  Where something is removed between two pages the next
\* offset skips an entry.
ListingIsComplete ==
    pc = "download" /\ ~removed =>
        {k \in steady \ Placeholders : request.prefix \in {Root, FolderOf[k]}} \subseteq Present(found)

\* What a load puts into a bucket is what the application once had there, or
\* what the folder was given to record: no edited file and no half rewritten
\* directory of an export that stopped gets past the hashes.
UploadsAreGenuine ==
    \A b \in Buckets, k \in Keys :
        project[b].objects[k] \in past[b][k] \cup {None}

\* A load that ends well, the first or one that repeats what another left
\* half done, leaves each object of the manifests in its bucket.
LoadDelivers ==
    exit = "ok" /\ request.command = "load" /\ ~request.dryRun /\ quiet =>
        \A b \in request.selected : \E m \in dirs[b].manifest :
            \A k \in Present(m) : project[b].objects[k] = m[k]

\* If the lock is about the manifest in the folder, and nobody changes the
\* project meanwhile, no upload is rejected for its size: the gate has stopped
\* the load before its rows were committed, unless it was told not to.
SizesAreForeseen ==
    rejected /\ quiet /\ ~request.force =>
        \/ lock[bucket] = {}
        \/ \E m \in dirs[bucket].manifest, l \in lock[bucket] : Bytes(m) # l.bytes

=============================================================================
