--------------------------- MODULE MongoLoadProofs ---------------------------
(***************************************************************************)
(* Proofs about MongoLoad for any jobs, validators and ids, any size of    *)
(* the sample, and any number of loads and of cuts: a load that is cut     *)
(* short leaves a prefix of itself, and one that ends well has brought the *)
(* documents of the source.                                                *)
(*                                                                         *)
(* The first rests on the documents of a load having different _ids: rows  *)
(* are checked for that (validate_rows) when they are read, and values of  *)
(* one column that differ become BSON values that differ.                  *)
(***************************************************************************)
EXTENDS MongoLoad, OrderedSetsProofs

Loading == {"open", "write", "failed", "loaded"}

Indexed(s) == \E n \in Nat : DOMAIN s = 1..n

\* An exported collection has its ids in each line.
Recorded ==
    at \notin {"start", "unexported"} => \A c \in Collections :
        /\ "_id" \in DOMAIN lock[c] /\ Indexed(files[c])
        /\ \A i \in DOMAIN files[c] : "_id" \in DOMAIN files[c][i] /\ files[c][i]["_id"] # Null

\* Rows that were read have ids of one kind, each once.
Keyed(rows) ==
    /\ Indexed(rows)
    /\ \A i \in DOMAIN rows : "_id" \in DOMAIN rows[i] /\ rows[i]["_id"] # Null
    /\ \A i, k \in DOMAIN rows :
          /\ rows[i]["_id"][1] = rows[k]["_id"][1]
          /\ i # k => rows[i]["_id"][2] # rows[k]["_id"][2]

Planned == at \in Loading => \A c \in Collections : Keyed(plan[c].rows)

Convertible(docs) == \A i \in DOMAIN docs : Error \notin Range(docs[i])

\* How far the collection is that is being written.
First(c, n) == {Documents(c)[i] : i \in 1..n}
Written(c, n) == DocsAt(c) = After(job.modes[c], HadBefore(c), First(c, n))
Rest(c, n) ==
    /\ left \in Seq(Range(Documents(c)))
    /\ Len(left) = Len(Documents(c)) - n
    /\ \A i \in 1..Len(left) : left[i] = Documents(c)[n + i]

Writing ==
    /\ at \in Loading => now \in Nat
    /\ at = "open" /\ now \in Collections =>
          /\ DocsAt(now) \subseteq HadBefore(now)
          /\ job.modes[now] # "truncate_first" => DocsAt(now) = HadBefore(now)
    /\ at = "write" =>
          /\ now \in Collections /\ Convertible(Documents(now))
          /\ \E n \in 0..Len(Documents(now)) : Written(now, n) /\ Rest(now, n)

IInv == /\ IsJob(job) /\ Recorded /\ Planned /\ Writing /\ PrefixLoaded

-----------------------------------------------------------------------------
(* The columns and the lines of a collection. *)

\* Every collection has a column for its ids.
LEMMA IdIsColumn ==
    ASSUME NEW rules, NEW c, NEW docs
    PROVE  "_id" \in DOMAIN Introspect(rules, c, docs)
  BY DEF Introspect, FromValidator, FromProfile, WithId

\* What is read in the order of ids are documents of the collection.
LEMMA SortedDocuments ==
    ASSUME NEW docs
    PROVE  /\ Indexed(FindSorted(docs))
           /\ \A i \in DOMAIN FindSorted(docs) : FindSorted(docs)[i] \in docs
  <1> DEFINE Place(d) == SelectInSeq(Ids, LAMBDA id : id = d["_id"])
             S == {Place(d) : d \in docs}
  <1>1. Len(Ids) \in Nat
    BY IdsAssumption, LenProperties
  <1>2. ASSUME NEW d PROVE Place(d) \in 0..Len(Ids)
    <2> DEFINE I == {i \in 1..Len(Ids) : Ids[i] = d["_id"]}
    <2>1. Place(d) = IF I # {} THEN Min(I) ELSE 0
      BY DEF SelectInSeq
    <2>2. I # {} => Min(I) \in I
      <3>1. I \subseteq Nat
        BY <1>1
      <3> HIDE DEF I
      <3> QED
        BY <3>1, LeastExists DEF Min
    <2> QED
      BY <1>1, <2>1, <2>2
  <1> HIDE DEF Place
  <1>3. S \subseteq Nat /\ IsFiniteSet(S)
    <2>1. S \in SUBSET (0..Len(Ids)) /\ 0..Len(Ids) \in SUBSET Nat
      BY <1>1, <1>2
    <2>2. IsFiniteSet(0..Len(Ids))
      <3>1. 0 \in Int /\ Len(Ids) \in Int
        BY <1>1
      <3> QED
        BY <3>1, FS_Interval
    <2> HIDE DEF S
    <2> QED
      BY <2>1, <2>2, FS_Subset
  <1>4. /\ Ascending(S) \in Seq(S) /\ Range(Ascending(S)) = S
    BY <1>3, AscendingIsSorted
  <1>5. FindSorted(docs) =
          [i \in DOMAIN Ascending(S) |-> CHOOSE d \in docs : Place(d) = Ascending(S)[i]]
    BY DEF FindSorted, Place
  <1> HIDE DEF S
  <1>6. DOMAIN Ascending(S) = 1..Len(Ascending(S)) /\ Len(Ascending(S)) \in Nat
    BY <1>4, LenProperties
  <1>7. ASSUME NEW i \in DOMAIN Ascending(S)
        PROVE  \E d \in docs : Place(d) = Ascending(S)[i]
    BY <1>4 DEF S, Range
  <1> QED
    BY <1>5, <1>6, <1>7 DEF Indexed

\* A value that is there is written as one.
LEMMA EncodedIsThere ==
    ASSUME NEW class, NEW v, v[1] \notin Nulls, ToValue(class, v) # Error
    PROVE  Encode(ToValue(class, v)) # Null
  <1>1. Kind(class) # "Null"
    BY DEF Kind
  <1>2. ToValue(class, v) = <<Kind(class), v[2]>> \/ ToValue(class, v) = <<"Json", v>>
    BY DEF ToValue
  <1>3. ASSUME NEW k, NEW x, k # "Null" PROVE Encode(<<k, x>>) # Null
    BY <1>3 DEF Encode, Unrolled, ToText, Null
  <1> QED
    BY <1>1, <1>2, <1>3

\* What an export writes has an id in every line.
LEMMA ExportRecords ==
    ASSUME IsJob(job), Export
    PROVE  Recorded'
  <1>1. /\ lock' = [c \in Collections |-> Columns(c)]
        /\ files' = [c \in Collections |-> [i \in DOMAIN Rows(c) |->
                        [f \in DOMAIN Columns(c) |-> Encode(Rows(c)[i][f])]]]
        /\ Collections' = Collections /\ Exportable
    BY DEF Export, Collections
  <1>2. ASSUME NEW c \in Collections
        PROVE  /\ "_id" \in DOMAIN lock'[c] /\ Indexed(files'[c])
               /\ \A i \in DOMAIN files'[c] :
                     "_id" \in DOMAIN files'[c][i] /\ files'[c][i]["_id"] # Null
    <2> DEFINE docs == FindSorted(job.source[c])
    <2>1. "_id" \in DOMAIN Columns(c)
      BY IdIsColumn DEF Columns
    <2>2. DOMAIN files'[c] = DOMAIN docs /\ DOMAIN Rows(c) = DOMAIN docs /\ Indexed(docs)
      BY <1>1, SortedDocuments DEF Rows
    <2>3. ASSUME NEW i \in DOMAIN docs
          PROVE  "_id" \in DOMAIN files'[c][i] /\ files'[c][i]["_id"] # Null
      <3> DEFINE v == docs[i]["_id"]
                 class == Columns(c)["_id"].class
      <3>1. docs[i] \in job.source[c]
        BY SortedDocuments
      <3>2. "_id" \in DOMAIN docs[i] /\ v[1] \notin Nulls
        <4>1. job.source[c] \in Range(job.source)
          BY DEF Collections, Range
        <4>2. "_id" \in DOMAIN docs[i] /\ v \in ToSet(Ids)
          BY <3>1, <4>1 DEF IsJob
        <4> QED
          BY <4>2, IdsAssumption
      <3>3. Rows(c)[i] = DocumentToRow(docs[i], Columns(c))
        BY DEF Rows
      <3>4. "_id" \in DOMAIN Rows(c)[i] /\ Rows(c)[i]["_id"] = ToValue(class, v)
        BY <2>1, <3>2, <3>3 DEF DocumentToRow
      <3>5. ToValue(class, v) # Error
        BY <1>1, <2>2, <3>4 DEF Exportable, Range
      <3>6. Encode(ToValue(class, v)) # Null
        BY <3>2, <3>5, EncodedIsThere
      <3>7. files'[c][i] = [f \in DOMAIN Columns(c) |-> Encode(Rows(c)[i][f])]
        BY <1>1, <2>2
      <3> QED
        BY <2>1, <3>4, <3>6, <3>7
    <2> QED
      BY <1>1, <2>1, <2>2, <2>3 DEF Indexed
  <1> QED
    BY <1>1, <1>2 DEF Recorded

-----------------------------------------------------------------------------
(* Reading rows, and documents from them. *)

LEMMA DecodedKind ==
    ASSUME NEW class, NEW cell, cell # Null, Decode(class, cell) # Error
    PROVE  /\ Decode(class, cell)[1] = Kind(class) /\ Kind(class) # "Null"
           /\ Decode(class, cell) # Null
  <1>1. Kind(class) # "Null" /\ Kind("Json") = "Json"
    BY DEF Kind
  <1>2. PICK text : Decode(class, cell) = <<Kind(class), text>>
    BY <1>1 DEF Decode
  <1>3. <<Kind(class), text>>[1] = Kind(class)
    OBVIOUS
  <1>4. Null[1] = "Null"
    BY DEF Null
  <1> QED
    BY <1>1, <1>2, <1>3, <1>4

\* Rows that were read are keyed by their ids.
LEMMA ReadRowsAreKeyed ==
    ASSUME NEW columns, NEW file, "_id" \in DOMAIN columns, Indexed(file),
           \A i \in DOMAIN file : "_id" \in DOMAIN file[i] /\ file[i]["_id"] # Null,
           ReadRows(columns, file) # Error
    PROVE  Keyed(ReadRows(columns, file))
  <1> DEFINE rows == [i \in DOMAIN file |-> DecodeRow(columns, file[i])]
             class == columns["_id"].class
  <1>1. PICK n \in Nat : DOMAIN file = 1..n
    BY DEF Indexed
  <1>2. /\ ReadRows(columns, file) = rows
        /\ ~Contains(rows, Error)
        /\ ~ \E i, k \in DOMAIN rows : i < k /\ rows[i]["_id"][2] = rows[k]["_id"][2]
    BY DEF ReadRows
  <1>3. DOMAIN rows = 1..n /\ Len(rows) = n
    BY <1>1
  <1>4. ASSUME NEW i \in DOMAIN rows
        PROVE  /\ "_id" \in DOMAIN rows[i] /\ rows[i]["_id"] # Null
               /\ rows[i]["_id"][1] = Kind(class)
    <2>1. rows[i] # Error /\ rows[i] = DecodeRow(columns, file[i])
      BY <1>2, <1>3 DEF Contains
    <2>2. /\ \A f \in DOMAIN file[i] : Decode(columns[f].class, file[i][f]) # Error
          /\ rows[i] = [f \in DOMAIN columns |->
                IF f \in DOMAIN file[i] THEN Decode(columns[f].class, file[i][f]) ELSE Null]
      BY <2>1 DEF DecodeRow
    <2>3. rows[i]["_id"] = Decode(class, file[i]["_id"])
      BY <1>1, <1>3, <2>2
    <2> QED
      BY <1>1, <1>3, <2>2, <2>3, DecodedKind
  <1>5. ASSUME NEW i \in DOMAIN rows, NEW k \in DOMAIN rows, i # k
        PROVE  rows[i]["_id"][2] # rows[k]["_id"][2]
    <2>1. i < k \/ k < i
      BY <1>3, <1>5
    <2> QED
      BY <1>2, <2>1
  <1> HIDE DEF rows, class
  <1> QED
    BY <1>2, <1>3, <1>4, <1>5 DEF Keyed, Indexed

\* Values of a kind that differ are BSON values that differ.
LEMMA FromValueIsInjective ==
    ASSUME NEW class, NEW v, NEW w, v[1] = w[1], v[2] # w[2],
           FromValue(class, v) # Error, FromValue(class, w) # Error
    PROVE  FromValue(class, v) # FromValue(class, w)
  <1>1. CASE v[1] = "Json"
    BY <1>1 DEF FromValue
  <1>2. CASE v[1] # "Json"
    <2>1. \E type : FromValue(class, v) = <<type, v[2]>>
      BY <1>2 DEF FromValue
    <2>2. \E type : FromValue(class, w) = <<type, w[2]>>
      BY <1>2 DEF FromValue
    <2> QED
      BY <2>1, <2>2
  <1> QED
    BY <1>1, <1>2

\* So the documents of a load have an _id each, and none has it twice.
LEMMA DocumentsDiffer ==
    ASSUME NEW c, Keyed(plan[c].rows)
    PROVE  /\ Indexed(Documents(c)) /\ Len(Documents(c)) \in Nat
           /\ DOMAIN Documents(c) = 1..Len(Documents(c))
           /\ Convertible(Documents(c)) =>
                 \A i, k \in DOMAIN Documents(c) :
                     i # k => Documents(c)[i]["_id"] # Documents(c)[k]["_id"]
  <1> DEFINE rows == plan[c].rows
             class == plan[c].columns["_id"].class
  <1>1. PICK n \in Nat : DOMAIN rows = 1..n
    BY DEF Keyed, Indexed
  <1>2. DOMAIN Documents(c) = 1..n /\ Len(Documents(c)) = n
    BY <1>1 DEF Documents
  <1>3. ASSUME NEW i \in DOMAIN rows
        PROVE  /\ "_id" \in DOMAIN Documents(c)[i]
               /\ Documents(c)[i]["_id"] = FromValue(class, rows[i]["_id"])
    <2>1. "_id" \in DOMAIN rows[i] /\ rows[i]["_id"] # Null
      BY DEF Keyed
    <2> QED
      BY <2>1 DEF Documents, RowToDocument
  <1>4. ASSUME Convertible(Documents(c)), NEW i \in DOMAIN rows, NEW k \in DOMAIN rows, i # k
        PROVE  Documents(c)[i]["_id"] # Documents(c)[k]["_id"]
    <2>1. rows[i]["_id"][1] = rows[k]["_id"][1] /\ rows[i]["_id"][2] # rows[k]["_id"][2]
      BY <1>4 DEF Keyed
    <2>2. Documents(c)[i]["_id"] # Error /\ Documents(c)[k]["_id"] # Error
      BY <1>1, <1>2, <1>3, <1>4 DEF Convertible, Range
    <2> QED
      BY <1>3, <2>1, <2>2, FromValueIsInjective
  <1> QED
    BY <1>1, <1>2, <1>4 DEF Indexed

-----------------------------------------------------------------------------
(* Writing documents. *)

\* One more document of the load, with an _id that none of them had.
LEMMA PlacedIsAfter ==
    ASSUME NEW mode \in Modes, NEW had, NEW new, NEW doc,
           doc["_id"] \notin IdsOf(new),
           mode \in {"insert", "truncate_first"} =>
              \A d \in After(mode, had, new) : d["_id"] # doc["_id"]
    PROVE  Placed(mode, After(mode, had, new), doc) = After(mode, had, new \cup {doc})
  <1> DEFINE docs == After(mode, had, new)
  <1>1. IdsOf(new \cup {doc}) = IdsOf(new) \cup {doc["_id"]}
    BY DEF IdsOf
  <1>2. CASE mode = "upsert"
    <2>1. docs = {d \in had : d["_id"] \notin IdsOf(new)} \cup new
      BY <1>2 DEF After
    <2>2. After(mode, had, new \cup {doc}) =
            {d \in had : d["_id"] \notin IdsOf(new) \cup {doc["_id"]}} \cup (new \cup {doc})
      BY <1>1, <1>2 DEF After
    <2>3. \A d \in new : d["_id"] # doc["_id"]
      BY DEF IdsOf
    <2>4. Placed(mode, docs, doc) = (docs \ {d \in docs : d["_id"] = doc["_id"]}) \cup {doc}
      BY <1>2 DEF Placed
    <2> QED
      BY <2>1, <2>2, <2>3, <2>4
  <1>3. CASE mode = "skip_existing"
    <2>1. docs = had \cup {d \in new : d["_id"] \notin IdsOf(had)}
      BY <1>3 DEF After
    <2>2. After(mode, had, new \cup {doc}) =
            had \cup {d \in new \cup {doc} : d["_id"] \notin IdsOf(had)}
      BY <1>3 DEF After
    <2>3. (\E d \in docs : d["_id"] = doc["_id"]) <=> doc["_id"] \in IdsOf(had)
      BY <2>1 DEF IdsOf
    <2>4. Placed(mode, docs, doc) =
            IF \E d \in docs : d["_id"] = doc["_id"] THEN docs ELSE docs \cup {doc}
      BY <1>3 DEF Placed
    <2> QED
      BY <2>1, <2>2, <2>3, <2>4
  <1>4. CASE mode = "truncate_first"
    BY <1>4 DEF After, Placed
  <1>5. CASE mode = "insert"
    <2>1. docs = {d \in had : d["_id"] \notin IdsOf(new)} \cup new
      BY <1>5 DEF After
    <2>2. After(mode, had, new \cup {doc}) =
            {d \in had : d["_id"] \notin IdsOf(new) \cup {doc["_id"]}} \cup (new \cup {doc})
      BY <1>1, <1>5 DEF After
    <2>3. Placed(mode, docs, doc) = docs \cup {doc}
      BY <1>5 DEF Placed
    <2> QED
      BY <1>5, <2>1, <2>2, <2>3
  <1> QED
    BY <1>2, <1>3, <1>4, <1>5 DEF Modes

\* Before the first, a collection is as it was, or emptied.
LEMMA NothingYet ==
    ASSUME NEW mode, NEW had
    PROVE  After(mode, had, {}) = IF mode = "truncate_first" THEN {} ELSE had
  BY DEF After, IdsOf

\* What PrefixLoaded says of a collection.
Foretold(c) ==
    /\ c < now => Written(c, Len(Documents(c)))
    /\ c > now => DocsAt(c) = HadBefore(c)
    /\ c = now => \/ job.modes[c] = "truncate_first" /\ DocsAt(c) \subseteq HadBefore(c)
                  \/ \E n \in 0..Len(Documents(c)) : Written(c, n)

LEMMA PrefixIsForetold ==
    IsJob(job) /\ (at \in Loading => now \in Nat) =>
        (PrefixLoaded <=> (at \in Loading => \A c \in Collections : Foretold(c)))
  <1> SUFFICES ASSUME IsJob(job), at \in Loading, now \in Nat
               PROVE  PrefixLoaded <=> \A c \in Collections : Foretold(c)
    BY DEF PrefixLoaded, Loading
  <1> DEFINE Said(c) ==
        CASE c < now -> DocsAt(c) = After(job.modes[c], HadBefore(c), First(c, Len(Documents(c))))
          [] c > now -> DocsAt(c) = HadBefore(c)
          [] OTHER   -> \/ job.modes[c] = "truncate_first" /\ DocsAt(c) \subseteq HadBefore(c)
                        \/ \E n \in 0..Len(Documents(c)) :
                              DocsAt(c) = After(job.modes[c], HadBefore(c), First(c, n))
  <1>1. PrefixLoaded <=> \A c \in Collections : Said(c)
    BY DEF PrefixLoaded, Loading, First
  <1>2. ASSUME NEW c \in Collections PROVE Said(c) <=> Foretold(c)
    <2>1. c \in Nat
      BY LenProperties DEF IsJob, Collections
    <2>2. CASE c < now
      BY <2>1, <2>2 DEF Foretold, Written
    <2>3. CASE c > now
      BY <2>1, <2>3 DEF Foretold, Written
    <2>4. CASE c = now
      BY <2>1, <2>4 DEF Foretold, Written
    <2> QED
      BY <2>1, <2>2, <2>3, <2>4
  <1> HIDE DEF Said
  <1> QED
    BY <1>1, <1>2

LEMMA PrefixIsForetoldNext ==
    ASSUME IsJob(job)', at' \in Loading => now' \in Nat,
           at' \in Loading => \A c \in Collections' : Foretold(c)'
    PROVE  PrefixLoaded'
  <1>1. (IsJob(job) /\ (at \in Loading => now \in Nat) =>
           (PrefixLoaded <=> (at \in Loading => \A c \in Collections : Foretold(c))))'
    BY PrefixIsForetold, PTL
  <1> QED
    BY <1>1

\* The plan and what was there before stay during a load.
LEMMA SamePlan ==
    ASSUME UNCHANGED <<job, plan, before>>
    PROVE  /\ Collections' = Collections
           /\ \A c : Documents(c)' = Documents(c) /\ HadBefore(c)' = HadBefore(c)
           /\ \A c, n : First(c, n)' = First(c, n)
  BY DEF Collections, Documents, HadBefore, First

LEMMA BeginStep ==
    ASSUME IInv, Begin
    PROVE  IInv'
  <1>1. /\ at = "exported" /\ at' = "open" /\ now' = 1 /\ before' = db /\ db' = db
        /\ UNCHANGED <<job, lock, files>> /\ Collections' = Collections
        /\ \A c \in Collections : Readable(c)
        /\ plan' = [c \in Collections |-> [columns |-> TargetColumns(c),
                                           rows    |-> ReadRows(TargetColumns(c), files[c])]]
    BY DEF Begin, Collections
  <1>2. IsJob(job)' /\ Recorded'
    BY <1>1 DEF IInv, Recorded
  <1>3. Planned'
    <2>1. ASSUME NEW c \in Collections PROVE Keyed(plan'[c].rows)
      <3>1. "_id" \in DOMAIN TargetColumns(c)
        BY <1>1, IdIsColumn DEF TargetColumns, IInv, Recorded
      <3>2. Keyed(ReadRows(TargetColumns(c), files[c]))
        BY <1>1, <3>1, ReadRowsAreKeyed DEF Readable, IInv, Recorded
      <3> QED
        BY <1>1, <3>2
    <2> QED
      BY <1>1, <2>1 DEF Planned, Keyed, Indexed
  <1>4. \A c : DocsAt(c)' = HadBefore(c)'
    BY <1>1 DEF DocsAt, HadBefore
  <1>5. Writing'
    BY <1>1, <1>4 DEF Writing
  <1>6. Collections' \subseteq Nat \ {0}
    BY <1>1, LenProperties DEF IInv, IsJob, Collections
  <1>7. ASSUME NEW c \in Collections PROVE Foretold(c)'
    <2>1. Written(c, 0)' \/ job.modes[c] = "truncate_first"
      <3>1. First(c, 0)' = {}
        BY DEF First
      <3> QED
        BY <1>1, <1>4, <3>1, NothingYet DEF Written
    <2>2. Len(Documents(c))' \in Nat
      <3>1. PICK n \in Nat : DOMAIN plan'[c].rows = 1..n
        BY <1>1, <1>3 DEF Planned, Loading, Keyed, Indexed
      <3> QED
        BY <3>1 DEF Documents
    <2> QED
      BY <1>1, <1>4, <1>6, <2>1, <2>2 DEF Foretold
  <1>8. PrefixLoaded'
    BY <1>1, <1>2, <1>7, PrefixIsForetoldNext
  <1> QED
    BY <1>2, <1>3, <1>5, <1>8 DEF IInv

\* A collection to be emptied has one document less; the others stay.
LEMMA DeleteStep ==
    ASSUME IInv, Delete
    PROVE  IInv'
  <1>1. /\ at = "open" /\ at' = "open" /\ now \in Collections /\ now' = now
        /\ UNCHANGED <<job, lock, files, plan, before>>
    BY DEF Delete
  <1>2. /\ job.modes[now] = "truncate_first"
        /\ DocsAt(now)' \subseteq DocsAt(now)
        /\ \A c : c # now => DocsAt(c)' = DocsAt(c)
    <2>1. PICK c \in ToEmpty : \E doc \in DocsAt(c) : db' = [db EXCEPT ![c] = @ \ {doc}]
      BY DEF Delete
    <2>2. c = now /\ job.modes[now] = "truncate_first"
      BY <2>1 DEF ToEmpty
    <2>3. PICK doc \in DocsAt(now) : db' = [db EXCEPT ![now] = @ \ {doc}]
      BY <2>1, <2>2
    <2>4. now \in DOMAIN db
      BY <2>3 DEF DocsAt
    <2>5. DocsAt(now) = db[now] /\ DocsAt(now)' = db[now] \ {doc}
      BY <1>1, <2>3, <2>4 DEF DocsAt
    <2>6. ASSUME NEW d, d # now PROVE DocsAt(d)' = DocsAt(d)
      BY <2>3, <2>6 DEF DocsAt
    <2> QED
      BY <2>2, <2>5, <2>6
  <1>3. IsJob(job)' /\ Recorded' /\ Planned'
    BY <1>1 DEF IInv, Recorded, Planned, Loading, Collections
  <1>4. /\ now \in Nat /\ DocsAt(now) \subseteq HadBefore(now)
        /\ \A c \in Collections : Foretold(c)
    BY <1>1, PrefixIsForetold DEF IInv, Writing, Loading
  <1>5. Writing'
    BY <1>1, <1>2, <1>4, SamePlan DEF Writing
  <1>6. ASSUME NEW c \in Collections PROVE Foretold(c)'
    <2>1. CASE c = now
      BY <1>1, <1>2, <1>4, <2>1, SamePlan DEF Foretold
    <2>2. CASE c # now
      BY <1>1, <1>2, <1>4, <2>2, SamePlan DEF Foretold, Written
    <2> QED
      BY <2>1, <2>2
  <1>7. PrefixLoaded'
    BY <1>1, <1>3, <1>4, <1>6, SamePlan, PrefixIsForetoldNext
  <1> QED
    BY <1>3, <1>5, <1>7 DEF IInv

\* None of a collection is written yet, and one to be emptied is empty.
LEMMA OpenStep ==
    ASSUME IInv, Open
    PROVE  IInv'
  <1>1. /\ at = "open" /\ at' \in {"write", "failed"} /\ now \in Collections /\ now' = now
        /\ UNCHANGED <<job, lock, files, plan, before, db>>
        /\ at' = "write" => left' = Documents(now) /\ Convertible(Documents(now))
    BY DEF Open, Convertible
  <1>2. IsJob(job)' /\ Recorded' /\ Planned'
    BY <1>1 DEF IInv, Recorded, Planned, Loading, Collections
  <1>3. /\ now \in Nat
        /\ DocsAt(now) = IF job.modes[now] = "truncate_first" THEN {} ELSE HadBefore(now)
        /\ \A c \in Collections : Foretold(c)
    <2>1. job.modes[now] = "truncate_first" => DocsAt(now) = {}
      BY DEF Open, ToEmpty
    <2> QED
      BY <1>1, <2>1, PrefixIsForetold DEF IInv, Writing, Loading
  <1>4. \A c : DocsAt(c)' = DocsAt(c)
    BY <1>1 DEF DocsAt
  <1>5. Written(now, 0)'
    <2>1. First(now, 0)' = {}
      BY DEF First
    <2> QED
      BY <1>1, <1>3, <1>4, <2>1, SamePlan, NothingYet DEF Written
  <1>6. Len(Documents(now)) \in Nat /\ Documents(now) \in Seq(Range(Documents(now)))
    <2>1. /\ Len(Documents(now)) \in Nat /\ DOMAIN Documents(now) = 1..Len(Documents(now))
      BY <1>1, DocumentsDiffer DEF IInv, Planned, Loading
    <2>2. Documents(now) = [i \in DOMAIN Documents(now) |-> Documents(now)[i]]
      BY DEF Documents
    <2> HIDE DEF Documents
    <2> QED
      BY <2>1, <2>2 DEF Range
  <1>7. Writing'
    <2>1. at' = "write" => Rest(now, 0)'
      BY <1>1, <1>6, SamePlan DEF Rest
    <2> QED
      BY <1>1, <1>3, <1>5, <1>6, <2>1, SamePlan DEF Writing, Convertible
  <1>8. ASSUME NEW c \in Collections PROVE Foretold(c)'
    <2>1. CASE c = now
      BY <1>1, <1>3, <1>5, <1>6, <2>1, SamePlan DEF Foretold
    <2>2. CASE c # now
      BY <1>1, <1>3, <1>4, <2>2, SamePlan DEF Foretold, Written
    <2> QED
      BY <2>1, <2>2
  <1>9. PrefixLoaded'
    BY <1>1, <1>2, <1>3, <1>8, SamePlan, PrefixIsForetoldNext
  <1> QED
    BY <1>2, <1>7, <1>9 DEF IInv

\* One more document is there, or the load ends where it is.
LEMMA WriteDocStep ==
    ASSUME IInv, WriteDoc
    PROVE  IInv'
  <1>1. /\ at = "write" /\ at' \in {"write", "failed"} /\ left # <<>> /\ now' = now
        /\ UNCHANGED <<job, lock, files, plan, before>>
    BY DEF WriteDoc
  <1>2. IsJob(job)' /\ Recorded' /\ Planned'
    BY <1>1 DEF IInv, Recorded, Planned, Loading, Collections
  <1>3. /\ now \in Nat /\ now \in Collections /\ Convertible(Documents(now))
        /\ \A c \in Collections : Foretold(c)
    BY <1>1, PrefixIsForetold DEF IInv, Writing, Loading
  <1> DEFINE docs == Documents(now)
             all == Len(docs)
             doc == Head(left)
  <1>4. /\ all \in Nat /\ DOMAIN docs = 1..all
        /\ \A i, k \in DOMAIN docs : i # k => docs[i]["_id"] # docs[k]["_id"]
    BY <1>1, <1>3, DocumentsDiffer DEF IInv, Planned, Loading
  <1>5. PICK n \in 0..all : Written(now, n) /\ Rest(now, n)
    BY <1>1 DEF IInv, Writing
  <1> HIDE DEF docs, all, doc
  <1>6. /\ left \in Seq(Range(docs)) /\ Len(left) = all - n /\ Len(left) \in Nat \ {0}
        /\ \A i \in 1..Len(left) : left[i] = docs[n + i]
    BY <1>1, <1>5, EmptySeq, LenProperties DEF Rest, docs, all
  <1>7. n + 1 \in 1..all /\ doc = docs[n + 1]
    <2>1. doc = left[1]
      BY <1>1, <1>6 DEF doc
    <2> QED
      BY <1>4, <1>6, <2>1
  <1>8. CASE Skipped(now, doc) \/ Accepts(now, doc)
    <2>1. /\ db' = [c \in DOMAIN db \cup {now} |->
                     IF c = now THEN Placed(job.modes[now], DocsAt(now), doc) ELSE db[c]]
          /\ left' = Tail(left) /\ at' = "write"
      BY <1>8 DEF WriteDoc, doc
    <2>2. /\ DocsAt(now)' = Placed(job.modes[now], DocsAt(now), doc)
          /\ \A c : c # now => DocsAt(c)' = DocsAt(c)
      BY <1>1, <2>1 DEF DocsAt
    <2>3. Written(now, n + 1)'
      <3> DEFINE mode == job.modes[now]
                 had == HadBefore(now)
                 new == First(now, n)
      <3>1. DocsAt(now) = After(mode, had, new)
        BY <1>5 DEF Written
      <3>2. mode \in Modes
        BY <1>3, ElementOfSeq, LenProperties DEF IInv, IsJob, Collections
      <3>3. doc["_id"] \notin IdsOf(new)
        <4>1. \A i \in 1..n : docs[i]["_id"] # doc["_id"]
          BY <1>4, <1>7
        <4> QED
          BY <4>1 DEF IdsOf, First, docs
      <3>4. mode \in {"insert", "truncate_first"} => \A d \in After(mode, had, new) : d["_id"] # doc["_id"]
        BY <1>8, <3>1 DEF Skipped, Accepts
      <3>5. First(now, n + 1) = new \cup {doc}
        <4>1. 1..(n + 1) = 1..n \cup {n + 1}
          OBVIOUS
        <4> QED
          BY <1>7, <4>1 DEF First, docs
      <3> HIDE DEF mode, had, new
      <3>6. DocsAt(now)' = After(mode, had, First(now, n + 1))
        BY <2>2, <3>1, <3>2, <3>3, <3>4, <3>5, PlacedIsAfter DEF mode
      <3> QED
        BY <1>1, <3>6, SamePlan DEF Written, mode, had
    <2>4. Rest(now, n + 1)'
      <3>1. /\ Tail(left) \in Seq(Range(docs)) /\ Len(Tail(left)) = Len(left) - 1
            /\ \A i \in 1..Len(Tail(left)) : Tail(left)[i] = left[i + 1]
        BY <1>1, <1>6
      <3>2. ASSUME NEW i \in 1..Len(Tail(left)) PROVE Tail(left)[i] = docs[(n + 1) + i]
        <4>1. i + 1 \in 1..Len(left) /\ n + (i + 1) = (n + 1) + i
          BY <1>6, <3>1
        <4> QED
          BY <1>6, <3>1, <4>1
      <3>3. Len(Tail(left)) = all - (n + 1)
        BY <1>4, <1>6, <3>1
      <3> QED
        BY <1>1, <2>1, <3>1, <3>2, <3>3, SamePlan DEF Rest, docs, all
    <2>5. n + 1 \in 0..all
      BY <1>4, <1>7
    <2>6. Writing'
      BY <1>1, <1>3, <2>1, <2>3, <2>4, <2>5, SamePlan DEF Writing, Convertible, docs, all
    <2>7. ASSUME NEW c \in Collections PROVE Foretold(c)'
      <3>1. CASE c = now
        BY <1>1, <1>3, <2>3, <2>5, <3>1, SamePlan DEF Foretold, docs, all
      <3>2. CASE c # now
        BY <1>1, <1>3, <2>2, <3>2, SamePlan DEF Foretold, Written
      <3> QED
        BY <3>1, <3>2
    <2>8. PrefixLoaded'
      BY <1>1, <1>2, <1>3, <2>7, SamePlan, PrefixIsForetoldNext
    <2> QED
      BY <1>2, <2>6, <2>8 DEF IInv
  <1>9. CASE ~(Skipped(now, doc) \/ Accepts(now, doc))
    <2>1. at' = "failed" /\ db' = db
      BY <1>9 DEF WriteDoc, doc
    <2>2. \A c : DocsAt(c)' = DocsAt(c)
      BY <2>1 DEF DocsAt
    <2>3. \A c \in Collections : Foretold(c)'
      BY <1>1, <1>3, <2>2, SamePlan DEF Foretold, Written
    <2>4. PrefixLoaded'
      BY <1>1, <1>2, <1>3, <2>3, SamePlan, PrefixIsForetoldNext
    <2> QED
      BY <1>1, <1>2, <1>3, <2>1, <2>4 DEF IInv, Writing
  <1> QED
    BY <1>8, <1>9

\* The next collection is as it was before the load.
LEMMA CloseStep ==
    ASSUME IInv, Close
    PROVE  IInv'
  <1>1. /\ at = "write" /\ left = <<>> /\ now' = now + 1 /\ at' \in {"open", "loaded"}
        /\ UNCHANGED <<job, lock, files, plan, before, db>>
    BY DEF Close
  <1>2. IsJob(job)' /\ Recorded' /\ Planned'
    BY <1>1 DEF IInv, Recorded, Planned, Loading, Collections
  <1>3. /\ now \in Nat /\ now \in Collections
        /\ \A c \in Collections : Foretold(c)
        /\ Collections \subseteq Nat /\ Len(Documents(now)) \in Nat
    BY <1>1, PrefixIsForetold, LenProperties, DocumentsDiffer
    DEF IInv, Writing, Planned, Loading, IsJob, Collections
  <1>4. Written(now, Len(Documents(now)))
    <2>1. PICK n \in 0..Len(Documents(now)) : Written(now, n) /\ Rest(now, n)
      BY <1>1 DEF IInv, Writing
    <2>2. Len(left) = Len(Documents(now)) - n /\ Len(left) = 0
      BY <1>1, <2>1 DEF Rest
    <2> QED
      BY <1>3, <2>1, <2>2
  <1>5. \A c : DocsAt(c)' = DocsAt(c)
    BY <1>1 DEF DocsAt
  <1>6. ASSUME NEW c \in Collections PROVE Foretold(c)'
    <2>1. CASE c < now
      BY <1>1, <1>3, <1>5, <2>1, SamePlan DEF Foretold, Written
    <2>2. CASE c = now
      BY <1>1, <1>3, <1>4, <1>5, <2>2, SamePlan DEF Foretold, Written
    <2>3. CASE c > now
      <3>1. DocsAt(c)' = HadBefore(c)'
        BY <1>3, <1>5, <2>3, <1>1, SamePlan DEF Foretold
      <3>2. Written(c, 0)' \/ job.modes[c]' = "truncate_first"
        <4>1. First(c, 0)' = {}
          BY DEF First
        <4> QED
          BY <3>1, <4>1, NothingYet DEF Written
      <3>3. Len(Documents(c))' \in Nat
        BY <1>1, SamePlan, DocumentsDiffer DEF IInv, Planned, Loading
      <3> QED
        BY <1>1, <1>3, <2>3, <3>1, <3>2, <3>3 DEF Foretold
    <2> QED
      BY <1>3, <2>1, <2>2, <2>3
  <1>7. Writing'
    <2>1. now + 1 \in Collections => DocsAt(now + 1) = HadBefore(now + 1)
      BY <1>3 DEF Foretold
    <2> QED
      BY <1>1, <1>3, <1>5, <2>1, SamePlan DEF Writing
  <1>8. PrefixLoaded'
    <2>1. now' \in Nat
      BY <1>1, <1>3
    <2> QED
      BY <1>2, <1>6, <2>1, SamePlan, <1>1, PrefixIsForetoldNext
  <1> QED
    BY <1>2, <1>7, <1>8 DEF IInv

\* A load goes no further, whatever ends it.
LEMMA SameIsForetold ==
    ASSUME IsJob(job), Writing, PrefixLoaded,
           at \in Loading, UNCHANGED <<job, plan, before, db, now>>
    PROVE  PrefixLoaded'
  <1>1. /\ now \in Nat /\ \A c \in Collections : Foretold(c)
    BY PrefixIsForetold DEF Writing
  <1>2. \A c : DocsAt(c)' = DocsAt(c)
    BY DEF DocsAt
  <1>3. \A c \in Collections : Foretold(c)'
    BY <1>1, <1>2, SamePlan DEF Foretold, Written
  <1> QED
    BY <1>1, <1>3, SamePlan, PrefixIsForetoldNext

LEMMA LoadInvariance == Spec => []IInv
  <1>1. Init => IInv
    BY JobsAssumption DEF Init, IInv, Recorded, Planned, Writing, Loading, PrefixLoaded
  <1>2. IInv /\ [Next]_vars => IInv'
    <2> SUFFICES ASSUME IInv, [Next]_vars PROVE IInv'
      OBVIOUS
    <2>1. CASE Export
      <3>1. IsJob(job)' /\ Recorded' /\ at' = "exported"
        BY <2>1, ExportRecords DEF IInv, Export
      <3> QED
        BY <3>1 DEF IInv, Planned, Writing, Loading, PrefixLoaded
    <2>2. CASE FailExport
      BY <2>2 DEF FailExport, IInv, Recorded, Planned, Writing, Loading, PrefixLoaded
    <2>3. CASE Refuse \/ Rerun
      <3>1. /\ at' \in {"refused", "exported"} /\ at \notin {"start", "unexported"}
            /\ UNCHANGED <<job, lock, files>>
        BY <2>3 DEF Refuse, Rerun
      <3> QED
        BY <3>1 DEF IInv, Recorded, Planned, Writing, Loading, PrefixLoaded, Collections
    <2>4. CASE Begin
      BY <2>4, BeginStep
    <2>5. CASE Delete \/ Open
      BY <2>5, DeleteStep, OpenStep
    <2>6. CASE WriteDoc
      BY <2>6, WriteDocStep
    <2>7. CASE Close
      BY <2>7, CloseStep
    <2>8. CASE Interrupt
      <3>1. /\ at \in {"open", "write"} /\ at' = "failed"
            /\ UNCHANGED <<job, lock, files, plan, before, db, now>>
        BY <2>8 DEF Interrupt
      <3>2. PrefixLoaded'
        BY <3>1, SameIsForetold DEF IInv, Loading
      <3> QED
        BY <3>1, <3>2 DEF IInv, Recorded, Planned, Writing, Loading, Collections
    <2>9. CASE UNCHANGED vars
      <3>1. PrefixLoaded'
        <4>1. CASE at \in Loading
          BY <2>9, <4>1, SameIsForetold DEF IInv, vars
        <4>2. CASE at \notin Loading
          BY <2>9, <4>2 DEF PrefixLoaded, Loading, vars
        <4> QED
          BY <4>1, <4>2
      <3>2. Writing'
        <4>1. \A c : DocsAt(c)' = DocsAt(c)
          BY <2>9 DEF vars, DocsAt
        <4>2. at' = at /\ now' = now /\ left' = left /\ UNCHANGED <<job, plan, before>>
          BY <2>9 DEF vars
        <4>3. \A c, n : (Written(c, n) => Written(c, n)') /\ (Rest(c, n) => Rest(c, n)')
          BY <4>1, <4>2, SamePlan DEF Written, Rest
        <4> QED
          BY <4>1, <4>2, <4>3, SamePlan DEF IInv, Writing, Convertible
      <3> QED
        BY <2>9, <3>1, <3>2 DEF vars, IInv, Recorded, Planned, Loading, Collections
    <2> QED
      BY <2>1, <2>2, <2>3, <2>4, <2>5, <2>6, <2>7, <2>8, <2>9 DEF Next
  <1> QED
    BY <1>1, <1>2, PTL DEF Spec

\* Without a transaction a load that is cut short leaves a prefix of itself: for any
\* collections, documents, validators and modes, and any number of loads and cuts.
THEOREM CutLoadsLeaveAPrefix == Spec => []PrefixLoaded
  <1>1. IInv => PrefixLoaded
    BY DEF IInv
  <1> QED
    BY <1>1, LoadInvariance, PTL

-----------------------------------------------------------------------------
(* What a column carries. *)

Scalar(v) ==
    /\ v = <<v[1], v[2]>>
    /\ v[1] = "string" => v[2] \in Words
    /\ v[1] = "bool" => v[2] \in {"true", "false"}
    /\ v[1] \in Binaries => v[2] \in Octets

\* Through a column that keeps its type, a value of the source comes out as it is
\* to be stored, if it comes out at all.
LEMMA RoundTrip ==
    ASSUME NEW class, NEW v, Scalar(v), v[1] \notin Nulls, Keeps(class, v),
           ToValue(class, v) # Error, Decode(class, Encode(ToValue(class, v))) # Error,
           FromValue(class, Decode(class, Encode(ToValue(class, v)))) # Error
    PROVE  FromValue(class, Decode(class, Encode(ToValue(class, v)))) = Stored(class, v)
  <1> DEFINE type == v[1]
             text == v[2]
  <1>1. CASE class = "Json"
    <2>1. ToValue(class, v) = <<"Json", v>>
      BY <1>1 DEF ToValue, Predicted
    <2>2. Encode(<<"Json", v>>) = CASE v[1] = "bool"   -> <<"string", v[2]>>
                                    [] v[1] = "string" -> <<"string", Quoted(v[2])>>
                                    [] OTHER           -> <<"nested", Canonical(v)>>
      BY DEF Encode, Unrolled, Null
    <2>3. \A cell : cell[1] # "Null" =>
             Decode(class, cell) = <<"Json", IF cell[1] = "nested" THEN cell[2] ELSE JsonOf(cell[2])>>
      <3>1. Null[1] = "Null"
        BY DEF Null
      <3> QED
        BY <1>1, <3>1 DEF Decode
    <2>4. FromValue(class, Decode(class, Encode(ToValue(class, v)))) =
             IF v[1] = "bool" THEN JsonOf(v[2])
             ELSE IF v[1] = "string" THEN JsonOf(Quoted(v[2])) ELSE Canonical(v)
      BY <2>1, <2>2, <2>3 DEF FromValue
    <2>5. v[1] = "bool" => JsonOf(v[2]) = <<"bool", v[2]>>
      BY DEF Scalar, JsonOf, Whole, Numbers
    <2>6. v[1] = "string" => JsonOf(Quoted(v[2])) = <<"string", v[2]>>
      <3>1. SUFFICES ASSUME NEW w \in Words PROVE JsonOf(Quoted(w)) = <<"string", w>>
        BY DEF Scalar
      <3>2. /\ Quoted(w) \notin {"true", "false"} /\ Quoted(w) # "5000000000"
            /\ Quoted(w) \notin Whole /\ Quoted(w) \notin Numbers
        BY QuotingAssumption DEF Numbers, Whole
      <3>3. (CHOOSE x \in Words : Quoted(w) = Quoted(x)) = w
        BY QuotingAssumption
      <3> QED
        BY <3>2, <3>3 DEF JsonOf
    <2> QED
      BY <1>1, <2>4, <2>5, <2>6 DEF Scalar, Stored, Canonical
  <1>u. CASE class = "Uuid" /\ type \in Binaries
    <2>1. ToValue(class, v) = <<"Uuid", text>> /\ text \in DOMAIN UuidText
      BY <1>u DEF ToValue, Predicted, Kind, Null, Nulls
    <2>2. Encode(<<"Uuid", text>>) = <<"string", UuidText[text]>>
      BY DEF Encode, ToText
    <2>3. Decode(class, <<"string", UuidText[text]>>) = <<"Uuid", text>>
      <3>1. <<"string", UuidText[text]>> # Null
        BY DEF Null
      <3>2. \A bytes \in DOMAIN UuidText : UuidText[bytes] = UuidText[text] => bytes = text
        BY <2>1 DEF UuidText
      <3>3. Parsed(class, UuidText[text]) = text
        BY <1>u, <2>1, <3>2 DEF Parsed
      <3>4. Kind(class) = "Uuid"
        BY <1>u DEF Kind
      <3>5. Decode(class, <<"string", UuidText[text]>>) # Error
        BY <2>1, <2>2
      <3> QED
        BY <1>u, <3>1, <3>3, <3>4, <3>5 DEF Decode
    <2>4. FromValue(class, <<"Uuid", text>>) = <<"uuid", text>>
      BY <1>u DEF FromValue, BsonType
    <2> QED
      BY <1>u, <2>1, <2>2, <2>3, <2>4 DEF Stored
  <1>2. ASSUME class \notin {"Json", "Uuid"}, type \in Predicted(class),
               class \in {Classify(type), "Enum", "Bytes"}
        PROVE  FromValue(class, Decode(class, Encode(ToValue(class, v)))) = Stored(class, v)
    <2>1. ToValue(class, v) = <<Kind(class), text>>
      BY <1>2 DEF ToValue
    <2> DEFINE cell == Encode(<<Kind(class), text>>)
    <2>2. /\ cell[2] = text /\ cell[1] \notin {"nested", "Null"}
          /\ cell[1] = "bool" => class = "Bool"
          /\ cell[1] = "number" => class # "Bool"
      <3>1. CASE class = "Bool"
        <4>1. Kind(class) = "Bool"
          BY <3>1 DEF Kind
        <4> QED
          BY <3>1, <4>1 DEF Encode
      <3>2. CASE class # "Bool"
        <4>1. Kind(class) \notin {"Bool", "Json", "Null", "Uuid"}
          BY <1>2, <3>2 DEF Kind
        <4>2. \A k : k \notin {"Bool", "Json", "Null", "Uuid"} => Encode(<<k, text>>) \in {<<"number", text>>, <<"string", text>>}
          BY DEF Encode, ToText
        <4> QED
          BY <3>2, <4>1, <4>2
      <3> QED
        BY <3>1, <3>2
    <2> HIDE DEF cell
    <2>3. Decode(class, cell) = <<Kind(class), text>>
      <3>1. cell # Null
        <4>1. Null[1] = "Null"
          BY DEF Null
        <4> QED
          BY <2>2, <4>1
      <3>2. ~(cell[1] = "bool" /\ class \in {"Int32", "Int64", "Float", "Decimal"})
        BY <2>2
      <3>3. ~(cell \in {<<"number", "0">>, <<"number", "1">>} /\ class = "Bool")
        BY <2>2
      <3>4. Decode(class, cell) # Error
        BY <2>1 DEF cell
      <3>5. Parsed(class, text) = text
        <4>1. class = "Bytes" => text \in Octets
          BY <1>2 DEF Predicted, Scalar
        <4>2. Octets \cap Digits = {}
          BY DEF Octets, UuidText, Digits, Hex
        <4> QED
          BY <1>2, <4>1, <4>2 DEF Parsed
      <3> QED
        BY <1>2, <2>2, <3>1, <3>2, <3>3, <3>4, <3>5 DEF Decode
    <2>4. FromValue(class, <<Kind(class), text>>) # Error
      BY <2>1, <2>3 DEF cell
    <2>5. FromValue(class, <<Kind(class), text>>) = Stored(class, v)
      <3>1. CASE class \in {"Int32", "Int64"}
        <4>1. Kind(class) = "Int" /\ type = (IF class = "Int32" THEN "int" ELSE "long")
          BY <1>2, <3>1 DEF Kind, Classify, Predicted
        <4> QED
          BY <2>4, <3>1, <4>1 DEF FromValue, Stored, Scalar
      <3>2. CASE class \in {"objectId", "timestamp", "regex"}
        <4>1. Kind(class) = "Raw" /\ type = class
          BY <3>2, <1>2 DEF Kind, Predicted
        <4> QED
          BY <2>4, <3>2, <4>1 DEF FromValue, Stored, Scalar
      <3>b. CASE class = "Bytes"
        BY <3>b DEF FromValue, Kind, BsonType, Stored
      <3>3. CASE class \notin {"Int32", "Int64", "objectId", "timestamp", "regex", "Bytes"}
        <4>1. /\ Kind(class) \notin {"Json", "Int"}
              /\ type = BsonType(Kind(class))
          BY <1>2, <3>3 DEF Kind, Predicted, Classify, BsonType
        <4> QED
          BY <1>2, <3>3, <4>1 DEF FromValue, Stored, Scalar
      <3> QED
        BY <3>1, <3>2, <3>3, <3>b
    <2> QED
      BY <2>1, <2>3, <2>5 DEF cell
  <1> QED
    BY <1>1, <1>2, <1>u DEF Keeps, Predicted

\* Nothing comes out where nothing was.
LEMMA NothingStays ==
    ASSUME NEW class
    PROVE  /\ Encode(Null) = Null /\ Decode(class, Null) = Null
           /\ \A v : v[1] \in Nulls => ToValue(class, v) = Null
  BY DEF Encode, Decode, ToValue, Null

-----------------------------------------------------------------------------
(* The documents of a load. *)

\* What the rest of a command works from: the export's lines, and rows read from them.
Exported ==
    at \notin {"start", "unexported"} =>
        /\ Exportable
        /\ lock = [c \in Collections |-> Columns(c)]
        /\ files = [c \in Collections |-> [i \in DOMAIN Rows(c) |->
                      [f \in DOMAIN Columns(c) |-> Encode(Rows(c)[i][f])]]]

Read ==
    at \in Loading => \A c \in Collections :
        /\ plan[c].rows = ReadRows(plan[c].columns, files[c])
        /\ plan[c].rows # Error

\* Collections that are done were converted, at the end all of them.
Converted ==
    /\ at \in Loading => \A c \in Collections : c < now => Convertible(Documents(c))
    /\ at = "loaded" => \A c \in Collections : c < now

\* In the order of ids are all documents of a collection.
LEMMA AllSorted ==
    ASSUME NEW docs, \A d, e \in docs : d["_id"] \in ToSet(Ids) /\ (d["_id"] = e["_id"] => d = e)
    PROVE  {FindSorted(docs)[i] : i \in DOMAIN FindSorted(docs)} = docs
  <1> DEFINE Place(d) == SelectInSeq(Ids, LAMBDA id : id = d["_id"])
             S == {Place(d) : d \in docs}
  <1>1. ASSUME NEW d \in docs PROVE Place(d) \in 1..Len(Ids) /\ Ids[Place(d)] = d["_id"]
    <2> DEFINE I == {i \in 1..Len(Ids) : Ids[i] = d["_id"]}
    <2>1. Place(d) = IF I # {} THEN Min(I) ELSE 0
      BY DEF SelectInSeq
    <2>2. I # {} /\ I \subseteq Nat
      BY IdsAssumption, LenProperties DEF ToSet
    <2>3. Min(I) \in I
      <3> HIDE DEF I
      <3> QED
        BY <2>2, LeastExists DEF Min
    <2> QED
      BY <2>1, <2>2, <2>3
  <1> HIDE DEF Place
  <1>2. S \subseteq Nat /\ IsFiniteSet(S)
    <2>1. S \in SUBSET (1..Len(Ids)) /\ 1..Len(Ids) \in SUBSET Nat /\ Len(Ids) \in Int
      BY <1>1, IdsAssumption, LenProperties
    <2>2. IsFiniteSet(1..Len(Ids))
      BY <2>1, FS_Interval
    <2> HIDE DEF S
    <2> QED
      BY <2>1, <2>2, FS_Subset
  <1>3. Range(Ascending(S)) = S
    BY <1>2, AscendingIsSorted
  <1>4. FindSorted(docs) =
          [i \in DOMAIN Ascending(S) |-> CHOOSE d \in docs : Place(d) = Ascending(S)[i]]
    BY DEF FindSorted, Place
  <1>5. ASSUME NEW d \in docs
        PROVE  \E i \in DOMAIN Ascending(S) : FindSorted(docs)[i] = d
    <2>1. PICK i \in DOMAIN Ascending(S) : Ascending(S)[i] = Place(d)
      BY <1>3 DEF Range
    <2>2. \A e \in docs : Place(e) = Place(d) => e = d
      BY <1>1
    <2> QED
      BY <1>4, <2>1, <2>2
  <1> HIDE DEF S
  <1>6. DOMAIN FindSorted(docs) = DOMAIN Ascending(S)
    BY <1>4
  <1>7. \A i \in DOMAIN FindSorted(docs) : FindSorted(docs)[i] \in docs
    BY SortedDocuments
  <1> QED
    BY <1>5, <1>6, <1>7

\* Each document of the source comes out as it was meant.
LEMMA DocumentsAreMeant ==
    ASSUME IsJob(job), Exported, Read, at \in Loading,
           NEW c \in Collections, Alike(c), Convertible(Documents(c))
    PROVE  /\ DOMAIN Documents(c) = DOMAIN FindSorted(job.source[c])
           /\ \A i \in DOMAIN Documents(c) :
                 Documents(c)[i] = Meant(c, FindSorted(job.source[c])[i])
  <1> DEFINE docs == FindSorted(job.source[c])
             cols == plan[c].columns
             rows == plan[c].rows
  <1>1. /\ Exportable /\ lock = [d \in Collections |-> Columns(d)]
        /\ files = [d \in Collections |-> [i \in DOMAIN Rows(d) |->
                      [f \in DOMAIN Columns(d) |-> Encode(Rows(d)[i][f])]]]
        /\ rows = ReadRows(cols, files[c]) /\ rows # Error
    BY DEF Exported, Read, Loading
  <1>2. DOMAIN Rows(c) = DOMAIN docs /\ DOMAIN files[c] = DOMAIN docs /\ lock[c] = Columns(c)
    BY <1>1 DEF Rows
  <1>3. /\ rows = [i \in DOMAIN files[c] |-> DecodeRow(cols, files[c][i])]
        /\ ~Contains(rows, Error)
    BY <1>1 DEF ReadRows
  <1>4. DOMAIN rows = DOMAIN docs /\ DOMAIN Documents(c) = DOMAIN docs
    BY <1>2, <1>3 DEF Documents
  <1>5. ASSUME NEW i \in DOMAIN docs
        PROVE  Documents(c)[i] = Meant(c, docs[i])
    <2> DEFINE doc == docs[i]
               line == files[c][i]
               row == rows[i]
               known == DOMAIN lock[c]
    <2>1. /\ line = [f \in known |-> Encode(Rows(c)[i][f])] /\ DOMAIN line = known
          /\ \A f \in known : Rows(c)[i][f] =
                IF f \in DOMAIN doc THEN ToValue(lock[c][f].class, doc[f]) ELSE Null
      BY <1>1, <1>2 DEF Rows, DocumentToRow
    <2>2. row # Error /\ row = DecodeRow(cols, line)
      <3>1. PICK n \in Nat : DOMAIN docs = 1..n
        BY SortedDocuments DEF Indexed
      <3>2. Len(rows) = n
        BY <1>3, <1>4, <3>1
      <3> QED
        BY <1>2, <1>3, <1>4, <3>1, <3>2 DEF Contains
    <2>3. /\ known \subseteq DOMAIN cols
          /\ \A f \in known : Decode(cols[f].class, line[f]) # Error
          /\ row = [f \in DOMAIN cols |->
                      IF f \in known THEN Decode(cols[f].class, line[f]) ELSE Null]
      BY <2>1, <2>2 DEF DecodeRow
    <2>4. \A f \in known : cols[f].class = lock[c][f].class
      BY DEF Alike
    <2>5. Documents(c)[i] = [f \in {f \in DOMAIN row : row[f] # Null} |-> FromValue(cols[f].class, row[f])]
      BY <1>4 DEF Documents, RowToDocument
    <2>6. doc \in job.source[c] /\ \A f \in DOMAIN doc : Scalar(doc[f])
      <3>1. doc \in job.source[c] /\ job.source[c] \in Range(job.source)
        BY SortedDocuments DEF Collections, Range
      <3>2. \A f \in DOMAIN doc : doc[f] \in Range(doc)
        BY DEF Range
      <3> QED
        BY <3>1, <3>2 DEF IsJob, Scalar
    <2> DEFINE there == {f \in DOMAIN doc \cap known : doc[f][1] \notin Nulls}
    <2>7. Meant(c, doc) = [f \in there |-> Stored(lock[c][f].class, doc[f])]
      BY DEF Meant
    <2>8. ASSUME NEW f \in known, f \notin there
          PROVE  row[f] = Null
      <3>1. Rows(c)[i][f] = Null
        BY <2>1, <2>8, NothingStays
      <3> QED
        BY <2>1, <2>3, <3>1, NothingStays
    <2>9. ASSUME NEW f \in there
          PROVE  row[f] # Null /\ FromValue(cols[f].class, row[f]) = Stored(cols[f].class, doc[f])
      <3> DEFINE class == cols[f].class
                 v == doc[f]
      <3>1. /\ Rows(c)[i][f] = ToValue(class, v) /\ line[f] = Encode(ToValue(class, v))
            /\ row[f] = Decode(class, line[f]) /\ row[f] # Error /\ f \in DOMAIN row
        BY <2>1, <2>3, <2>4
      <3>2. ToValue(class, v) # Error
        <4>1. f \in DOMAIN Rows(c)[i]
          BY <1>2 DEF Rows, DocumentToRow
        <4> QED
          BY <1>1, <1>2, <3>1, <4>1 DEF Exportable, Range
      <3>3. line[f] # Null
        BY <3>1, <3>2, EncodedIsThere
      <3>4. row[f] # Null
        BY <3>1, <3>3, DecodedKind
      <3>5. Keeps(class, v)
        <4>1. f \in DOMAIN Meant(c, doc)
          BY <2>7
        <4> QED
          BY <2>4, <2>6, <4>1 DEF Alike
      <3>6. FromValue(class, row[f]) # Error
        <4>1. f \in DOMAIN Documents(c)[i] /\ Documents(c)[i][f] = FromValue(class, row[f])
          BY <2>5, <3>1, <3>4
        <4> QED
          BY <1>4, <4>1 DEF Convertible, Range
      <3> QED
        BY <2>6, <3>1, <3>2, <3>4, <3>5, <3>6, RoundTrip
    <2> HIDE DEF doc, line, row, known, there
    <2>10. {f \in DOMAIN row : row[f] # Null} = there
      BY <2>3, <2>8, <2>9 DEF there
    <2>11. there \subseteq known
      BY DEF there
    <2> QED
      BY <2>4, <2>5, <2>7, <2>9, <2>10, <2>11 DEF doc
  <1> QED
    BY <1>4, <1>5

LEMMA ArrivingStep ==
    ASSUME IInv, Exported, Read, Converted, [Next]_vars
    PROVE  Exported' /\ Read' /\ Converted'
  <1> USE DEF Loading
  <1>s. \A c : job' = job => Columns(c)' = Columns(c) /\ Rows(c)' = Rows(c) /\ Collections' = Collections
    BY DEF Columns, Rows, Collections
  <1>e. job' = job => Exportable' = Exportable
    BY <1>s DEF Exportable
  \* The files stay once they are written, the plan once it is made.
  <1>f. ASSUME UNCHANGED <<job, lock, files>>, at \notin {"start", "unexported"}
        PROVE  Exported'
    BY <1>f, <1>s, <1>e DEF Exported
  <1>p. ASSUME UNCHANGED <<job, files, plan>>, at \in Loading
        PROVE  Read' /\ \A c : Convertible(Documents(c))' <=> Convertible(Documents(c))
    BY <1>p DEF Read, Convertible, Documents, Collections
  <1>1. CASE Export
    <2>1. at' = "exported" /\ job' = job
      BY <1>1 DEF Export
    <2>2. Exported'
      BY <1>1, <2>1, <1>s, <1>e DEF Export, Exported
    <2> QED
      BY <2>1, <2>2 DEF Read, Converted
  <1>2. CASE FailExport
    BY <1>2 DEF FailExport, Exported, Read, Converted
  <1>3. CASE Refuse \/ Rerun
    <2>1. /\ at' \in {"refused", "exported"} /\ at \notin {"start", "unexported"}
          /\ UNCHANGED <<job, lock, files>>
      BY <1>3 DEF Refuse, Rerun
    <2> QED
      BY <2>1, <1>f DEF Read, Converted
  <1>4. CASE Begin
    <2>1. /\ at = "exported" /\ at' = "open" /\ UNCHANGED <<job, lock, files>> /\ now' = 1
          /\ \A c \in Collections : Readable(c)
          /\ plan' = [c \in Collections |-> [columns |-> TargetColumns(c),
                                             rows    |-> ReadRows(TargetColumns(c), files[c])]]
          /\ Collections' = Collections /\ Collections \subseteq Nat \ {0}
      BY <1>4, LenProperties DEF Begin, Collections, IInv, IsJob
    <2>2. Read'
      BY <2>1 DEF Read, Readable
    <2>3. Converted'
      BY <2>1 DEF Converted
    <2> QED
      BY <2>1, <2>2, <2>3, <1>f
  <1>5. CASE Delete \/ Open \/ WriteDoc \/ Interrupt
    <2>1. /\ at \in {"open", "write"} /\ at' \in {"open", "write", "failed"} /\ now' = now
          /\ UNCHANGED <<job, lock, files, plan>> /\ Collections' = Collections
      BY <1>5 DEF Delete, Open, WriteDoc, Interrupt, Collections
    <2> QED
      BY <2>1, <1>f, <1>p DEF Converted
  <1>6. CASE Close
    <2>1. /\ at = "write" /\ at' = (IF now + 1 \in Collections THEN "open" ELSE "loaded")
          /\ now' = now + 1
          /\ UNCHANGED <<job, lock, files, plan>> /\ Collections' = Collections
      BY <1>6 DEF Close, Collections
    <2>2. PICK n \in Nat : Collections = 1..n
      BY LenProperties DEF Collections, IInv, IsJob
    <2>3. now \in 1..n /\ Convertible(Documents(now))
      BY <2>1, <2>2 DEF IInv, Writing
    <2>4. \A c \in Collections : c < now + 1 => c < now \/ c = now
      BY <2>2, <2>3
    <2>5. now + 1 \notin Collections => \A c \in Collections : c < now + 1
      BY <2>2, <2>3
    <2> QED
      BY <2>1, <2>3, <2>4, <2>5, <1>f, <1>p DEF Converted
  <1>7. CASE UNCHANGED vars
    <2>1. UNCHANGED <<job, at, lock, files, plan, now>> /\ Collections' = Collections
      BY <1>7 DEF vars, Collections
    <2>2. CASE at \in Loading
      BY <2>1, <2>2, <1>f, <1>p DEF Converted
    <2>3. CASE at \notin Loading
      BY <2>1, <2>3, <1>s, <1>e DEF Exported, Read, Converted
    <2> QED
      BY <2>2, <2>3
  <1> QED
    BY <1>1, <1>2, <1>3, <1>4, <1>5, <1>6, <1>7 DEF Next

LEMMA ArrivingInvariance == Spec => [](Exported /\ Read /\ Converted)
  <1>1. Init => Exported /\ Read /\ Converted
    BY DEF Init, Exported, Read, Converted, Loading
  <1>2. IInv /\ Exported /\ Read /\ Converted /\ [Next]_vars => Exported' /\ Read' /\ Converted'
    BY ArrivingStep
  <1> QED
    BY <1>1, <1>2, LoadInvariance, PTL DEF Spec

\* The documents of the source as the lock file knows them.
Brought(c) == {Meant(c, doc) : doc \in job.source[c]}

\* When a load ended well these are the documents of the plan, so each has an _id
\* of its own even where ids have changed: rows with the same would be refused.
LEMMA BroughtAtTheEnd ==
    ASSUME IInv, Exported, Read, Converted, at = "loaded", NEW c \in Collections, Alike(c)
    PROVE  /\ First(c, Len(Documents(c))) = Brought(c)
           /\ \A d, e \in Brought(c) : d["_id"] = e["_id"] => d = e
  <1> DEFINE docs == FindSorted(job.source[c])
  <1>1. at \in Loading /\ Convertible(Documents(c))
    BY DEF Converted, Loading
  <1>2. /\ DOMAIN Documents(c) = DOMAIN docs
        /\ \A i \in DOMAIN docs : Documents(c)[i] = Meant(c, docs[i])
    BY <1>1, DocumentsAreMeant DEF IInv
  <1>3. {docs[i] : i \in DOMAIN docs} = job.source[c]
    <2>1. job.source[c] \in Range(job.source)
      BY DEF Collections, Range
    <2>2. \A d, e \in job.source[c] :
             d["_id"] \in ToSet(Ids) /\ (d["_id"] = e["_id"] => d = e)
      BY <2>1 DEF IInv, IsJob
    <2> QED
      BY <2>2, AllSorted
  <1>4. /\ DOMAIN Documents(c) = 1..Len(Documents(c))
        /\ \A i, k \in DOMAIN Documents(c) :
              i # k => Documents(c)[i]["_id"] # Documents(c)[k]["_id"]
    BY <1>1, DocumentsDiffer DEF IInv, Planned
  <1> HIDE DEF docs
  <1>5. First(c, Len(Documents(c))) = {Documents(c)[i] : i \in DOMAIN Documents(c)}
    BY <1>4 DEF First
  <1>6. {Documents(c)[i] : i \in DOMAIN Documents(c)} = Brought(c)
    BY <1>2, <1>3 DEF Brought
  <1> QED
    BY <1>4, <1>5, <1>6

\* A load that ended well has put every document of the source into the target with
\* its fields and types, wherever columns keep the types of values, but for the
\* subtypes of binary data and the order of keys in a field: for any documents,
\* any strings in them and any earlier state of the target.
THEOREM SourceArrives == Spec => []DocumentsArrive
  <1>1. IInv /\ Exported /\ Read /\ Converted => DocumentsArrive
    <2> SUFFICES ASSUME IInv, Exported, Read, Converted, at = "loaded",
                        NEW c \in Collections, Alike(c)
                 PROVE  DocsAt(c) = After(job.modes[c], HadBefore(c), Brought(c))
      BY DEF DocumentsArrive, Brought
    <2>1. c < now /\ at \in Loading
      BY DEF Converted, Loading
    <2>2. Written(c, Len(Documents(c)))
      BY <2>1, PrefixIsForetold DEF IInv, Writing, Foretold
    <2> QED
      BY <2>2, BroughtAtTheEnd DEF Written
  <1> QED
    BY <1>1, LoadInvariance, ArrivingInvariance, PTL

-----------------------------------------------------------------------------
(* Loads that are run again. *)

\* The columns that the first load gives a collection.
FirstColumns(c) ==
    IF c \in DOMAIN job.target THEN Introspect(job.targetRules, c, job.target[c]) ELSE lock[c]

\* The target is as it was until a load has begun, and what one load could read is
\* described by the columns that the target had then.
Described ==
    /\ runs \in Nat
    /\ at \in {"start", "unexported"} => runs = 0
    /\ at \in Loading => runs > 0
    /\ DOMAIN job.target \subseteq DOMAIN db
    /\ runs = 0 => db = job.target
    /\ runs > 0 => Permitted /\ \A c \in Collections : ReadRows(FirstColumns(c), files[c]) # Error
    /\ at = "refused" => ~(Permitted /\ \A c \in Collections : Readable(c))

LEMMA DescribedStep ==
    ASSUME Described, [Next]_vars
    PROVE  Described'
  <1> USE DEF Loading
  <1>s. ASSUME UNCHANGED <<job, lock, files>>
        PROVE  /\ Permitted' = Permitted /\ Collections' = Collections
               /\ \A c : FirstColumns(c)' = FirstColumns(c)
    BY <1>s DEF Permitted, Collections, FirstColumns
  <1>1. CASE Export \/ FailExport
    <2>1. /\ at = "start" /\ at' \in {"exported", "unexported"} /\ UNCHANGED <<job, db, runs>>
      BY <1>1 DEF Export, FailExport
    <2> QED
      BY <2>1 DEF Described
  <1>2. CASE Begin
    <2>1. /\ at = "exported" /\ at' = "open" /\ runs' = runs + 1 /\ UNCHANGED <<job, lock, files, db>>
          /\ Permitted /\ \A c \in Collections : Readable(c)
      BY <1>2 DEF Begin
    <2>2. \A c \in Collections : ReadRows(FirstColumns(c), files[c]) # Error
      <3>1. CASE runs = 0
        BY <2>1, <3>1 DEF Described, Readable, TargetColumns, FirstColumns
      <3>2. CASE runs > 0
        BY <3>2 DEF Described
      <3> QED
        BY <3>1, <3>2 DEF Described
    <2> QED
      BY <2>1, <2>2, <1>s DEF Described
  <1>3. CASE Refuse
    <2>1. /\ at = "exported" /\ at' = "refused" /\ UNCHANGED <<job, lock, files, db, runs>>
          /\ ~(Permitted /\ \A c \in Collections : Readable(c))
      BY <1>3 DEF Refuse
    <2>2. \A c : Readable(c)' = Readable(c)
      BY <2>1 DEF Readable, TargetColumns
    <2> QED
      BY <2>1, <2>2, <1>s DEF Described
  <1>4. CASE Delete \/ Open \/ WriteDoc
    <2>1. /\ at \in {"open", "write"} /\ at' \in {"open", "write", "failed"}
          /\ UNCHANGED <<job, lock, files, runs>>
      BY <1>4 DEF Delete, Open, WriteDoc
    <2>2. DOMAIN db \subseteq DOMAIN db'
      BY <1>4 DEF Delete, Open, WriteDoc
    <2> QED
      BY <2>1, <2>2, <1>s DEF Described
  <1>5. CASE Close \/ Interrupt \/ Rerun
    <2>1. /\ at \in Loading /\ at' \in Loading \cup {"exported"}
          /\ UNCHANGED <<job, lock, files, db, runs>>
      BY <1>5 DEF Close, Interrupt, Rerun
    <2> QED
      BY <2>1, <1>s DEF Described
  <1>6. CASE UNCHANGED vars
    <2>1. UNCHANGED <<job, at, lock, files, db, runs>>
      BY <1>6 DEF vars
    <2>2. \A c : Readable(c)' = Readable(c)
      BY <2>1 DEF Readable, TargetColumns
    <2> QED
      BY <2>1, <2>2, <1>s DEF Described
  <1> QED
    BY <1>1, <1>2, <1>3, <1>4, <1>5, <1>6 DEF Next

LEMMA DescribedInvariance == Spec => []Described
  <1>1. Init => Described
    BY DEF Init, Described, Loading
  <1>2. Described /\ [Next]_vars => Described'
    BY DescribedStep
  <1> QED
    BY <1>1, <1>2, PTL DEF Spec

\* What one load could read another refuses only because of a collection without a
\* validator that is not as it was at first: a collection with a validator is
\* described by it whatever it holds, one that is still missing by the lock file.
THEOREM RefusalsComeFromProfiles == Spec => []RefusedForProfiles
  <1>1. IInv /\ Described => RefusedForProfiles
    <2> SUFFICES ASSUME IInv, Described, at = "refused", runs > 0
                 PROVE  \E c \in DOMAIN db \ DOMAIN job.targetRules :
                          ~Readable(c) /\ (c \in DOMAIN job.target => db[c] # job.target[c])
      BY DEF RefusedForProfiles
    <2>1. PICK c \in Collections : ~Readable(c)
      BY DEF Described
    <2>2. TargetColumns(c) # FirstColumns(c)
      BY <2>1 DEF Described, Readable
    <2>3. /\ DOMAIN job.target \subseteq DOMAIN db
          /\ DOMAIN job.targetRules \subseteq DOMAIN job.target
      BY DEF Described, IInv, IsJob
    <2>4. c \in DOMAIN db
      BY <2>2, <2>3 DEF TargetColumns, FirstColumns
    <2>5. c \notin DOMAIN job.targetRules
      BY <2>2, <2>3 DEF TargetColumns, FirstColumns, Introspect
    <2>6. c \in DOMAIN job.target => db[c] # job.target[c]
      BY <2>2, <2>4 DEF TargetColumns, FirstColumns
    <2> QED
      BY <2>1, <2>4, <2>5, <2>6
  <1> QED
    BY <1>1, LoadInvariance, DescribedInvariance, PTL

\* A state of a collection from which loading the documents of the source gives
\* what loading them at first gave.
Repeats(c, docs) ==
    /\ job.modes[c] = "upsert" =>
          {d \in docs : d["_id"] \notin IdsOf(Brought(c))} =
          {d \in HadAtFirst(c) : d["_id"] \notin IdsOf(Brought(c))}
    /\ job.modes[c] = "skip_existing" =>
          /\ HadAtFirst(c) \subseteq docs
          /\ docs \subseteq HadAtFirst(c) \cup {d \in Brought(c) : d["_id"] \notin IdsOf(HadAtFirst(c))}

Repeatable ==
    /\ alike \subseteq Collections
    /\ at \notin {"start", "unexported"} => \A c \in alike : Repeats(c, DocsAt(c))
    /\ at \in Loading => \A c \in alike : Alike(c) /\ Repeats(c, HadBefore(c))

\* One more of these documents does not matter.
LEMMA PlacedRepeats ==
    ASSUME NEW c, NEW docs, NEW doc \in Brought(c), Repeats(c, docs)
    PROVE  Repeats(c, Placed(job.modes[c], docs, doc))
  <1>1. doc["_id"] \in IdsOf(Brought(c))
    BY DEF IdsOf
  <1>2. CASE job.modes[c] = "upsert"
    BY <1>1, <1>2 DEF Repeats, Placed
  <1>3. CASE job.modes[c] = "skip_existing"
    <2>1. HadAtFirst(c) \subseteq docs
      BY <1>3 DEF Repeats
    <2>2. \A d \in HadAtFirst(c) : d["_id"] = doc["_id"] => {d2 \in docs : d2["_id"] = doc["_id"]} # {}
      BY <2>1
    <2>3. /\ docs \subseteq Placed("skip_existing", docs, doc)
          /\ Placed("skip_existing", docs, doc) \subseteq
                docs \cup {d \in {doc} : d["_id"] \notin IdsOf(HadAtFirst(c))}
      BY <2>2 DEF Placed, IdsOf
    <2> QED
      BY <1>3, <2>1, <2>3 DEF Repeats
  <1> QED
    BY <1>2, <1>3 DEF Repeats

LEMMA SameAfterwards ==
    ASSUME NEW c, NEW docs, Repeats(c, docs), job.modes[c] \in Modes \ {"insert"},
           \A d, e \in Brought(c) : d["_id"] = e["_id"] => d = e
    PROVE  After(job.modes[c], docs, Brought(c)) = After(job.modes[c], HadAtFirst(c), Brought(c))
  <1>1. CASE job.modes[c] = "truncate_first"
    BY <1>1 DEF After
  <1>2. CASE job.modes[c] = "upsert"
    BY <1>2 DEF After, Repeats
  <1>3. CASE job.modes[c] = "skip_existing"
    <2> DEFINE had == HadAtFirst(c)
               new == Brought(c)
    <2>1. had \subseteq docs /\ docs \subseteq had \cup {d \in new : d["_id"] \notin IdsOf(had)}
      BY <1>3 DEF Repeats
    <2> HIDE DEF had, new
    <2>2. IdsOf(had) \subseteq IdsOf(docs)
      BY <2>1 DEF IdsOf
    <2>3. ASSUME NEW d \in new, d["_id"] \notin IdsOf(had), d["_id"] \in IdsOf(docs)
          PROVE  d \in docs
      <3>1. PICK e \in docs : e["_id"] = d["_id"]
        BY <2>3 DEF IdsOf
      <3>2. e \notin had
        BY <2>3, <3>1 DEF IdsOf
      <3>3. e \in new
        BY <2>1, <3>2
      <3> QED
        BY <3>1, <3>3 DEF new
    <2>4. docs \cup {d \in new : d["_id"] \notin IdsOf(docs)} =
          had \cup {d \in new : d["_id"] \notin IdsOf(had)}
      BY <2>1, <2>2, <2>3
    <2> QED
      BY <1>3, <2>4 DEF After, had, new
  <1> QED
    BY <1>1, <1>2, <1>3 DEF Modes

LEMMA SameRepeats ==
    ASSUME UNCHANGED <<job, lock>>
    PROVE  /\ Collections' = Collections
           /\ \A c : Repeats(c, DocsAt(c))' <=> Repeats(c, DocsAt(c)')
           /\ \A c : Repeats(c, HadBefore(c))' <=> Repeats(c, HadBefore(c)')
  <1>1. \A c : Brought(c)' = Brought(c)
    BY DEF Brought, Meant
  <1>2. \A c : HadAtFirst(c)' = HadAtFirst(c)
    BY DEF HadAtFirst
  <1> QED
    BY <1>1, <1>2 DEF Repeats, Collections

LEMMA RepeatableStep ==
    ASSUME IInv, Exported, Read, Described, Repeatable, [Next]_vars
    PROVE  Repeatable'
  <1> USE DEF Loading
  <1>1. CASE Export
    <2>1. /\ at = "start" /\ at' = "exported" /\ UNCHANGED <<job, db, alike>> /\ db = job.target
      BY <1>1 DEF Export, Described
    <2>2. \A c : DocsAt(c)' = HadAtFirst(c)'
      BY <2>1 DEF DocsAt, HadAtFirst
    <2>3. \A c : Repeats(c, DocsAt(c))'
      BY <2>2 DEF Repeats
    <2> QED
      BY <2>1, <2>3 DEF Repeatable, Collections
  <1>2. CASE FailExport
    BY <1>2 DEF FailExport, Repeatable, Collections
  <1>3. CASE Refuse \/ Rerun
    <2>1. /\ at \notin {"start", "unexported"} /\ at' \in {"exported", "refused"}
          /\ UNCHANGED <<job, lock, db, alike>>
      BY <1>3 DEF Refuse, Rerun
    <2>2. \A c : DocsAt(c)' = DocsAt(c)
      BY <2>1 DEF DocsAt
    <2> QED
      BY <2>1, <2>2, SameRepeats DEF Repeatable
  <1>4. CASE Begin
    <2>1. /\ at = "exported" /\ at' = "open" /\ before' = db /\ UNCHANGED <<job, lock, db>>
          /\ alike' = {c \in alike : Alike(c)'}
      BY <1>4 DEF Begin
    <2>2. \A c : DocsAt(c)' = DocsAt(c) /\ HadBefore(c)' = DocsAt(c)
      BY <2>1 DEF DocsAt, HadBefore
    <2>3. \A c \in alike : Repeats(c, DocsAt(c))
      BY <2>1 DEF Repeatable
    <2>4. \A c \in alike' : c \in alike /\ Alike(c)'
      BY <2>1
    <2> QED
      BY <2>1, <2>2, <2>3, <2>4, SameRepeats DEF Repeatable
  <1>s. ASSUME at \in Loading, at' \in Loading, UNCHANGED <<job, lock, plan, before, alike>>,
               \A c \in alike : Repeats(c, DocsAt(c)')
        PROVE  Repeatable'
    <2>1. \A c : HadBefore(c)' = HadBefore(c) /\ Alike(c)' = Alike(c)
      BY <1>s DEF HadBefore, Alike, Meant
    <2> QED
      BY <1>s, <2>1, SameRepeats DEF Repeatable
  <1>5. CASE Delete
    <2>1. /\ at = "open" /\ at' = "open" /\ UNCHANGED <<job, lock, plan, before, alike>>
      BY <1>5 DEF Delete
    <2>2. PICK e \in ToEmpty : \E doc \in DocsAt(e) : db' = [db EXCEPT ![e] = @ \ {doc}]
      BY <1>5 DEF Delete
    <2>3. ASSUME NEW c \in alike PROVE Repeats(c, DocsAt(c)')
      <3>1. Repeats(c, DocsAt(c))
        BY <2>1 DEF Repeatable
      <3>2. CASE job.modes[c] = "truncate_first"
        BY <3>2 DEF Repeats
      <3>3. CASE job.modes[c] # "truncate_first"
        <4>1. c # e
          BY <3>3 DEF ToEmpty
        <4>2. DocsAt(c)' = DocsAt(c)
          BY <2>2, <4>1 DEF DocsAt
        <4> QED
          BY <3>1, <4>2
      <3> QED
        BY <3>2, <3>3
    <2> QED
      BY <2>1, <2>3, <1>s
  <1>6. CASE WriteDoc
    <2> DEFINE doc == Head(left)
    <2>1. /\ at = "write" /\ at' \in {"write", "failed"} /\ UNCHANGED <<job, lock, plan, before, alike>>
          /\ left # <<>>
          /\ \/ db' = [c \in DOMAIN db \cup {now} |->
                         IF c = now THEN Placed(job.modes[now], DocsAt(now), doc) ELSE db[c]]
             \/ db' = db
      BY <1>6 DEF WriteDoc
    <2>2. ASSUME NEW c \in alike PROVE Repeats(c, DocsAt(c)')
      <3>1. Repeats(c, DocsAt(c)) /\ Alike(c)
        BY <2>1 DEF Repeatable
      <3>2. DocsAt(c)' = DocsAt(c) \/ (c = now /\ DocsAt(c)' = Placed(job.modes[c], DocsAt(c), doc))
        BY <2>1 DEF DocsAt
      <3>3. ASSUME c = now PROVE doc \in Brought(c)
        <4>1. /\ c \in Collections /\ Convertible(Documents(c))
              /\ left \in Seq(Range(Documents(c)))
          BY <2>1, <3>3 DEF IInv, Writing, Rest
        <4>2. doc \in Range(Documents(c))
          BY <2>1, <4>1
        <4>3. PICK i \in DOMAIN Documents(c) : doc = Documents(c)[i]
          BY <4>2 DEF Range
        <4>4. doc = Meant(c, FindSorted(job.source[c])[i]) /\ i \in DOMAIN FindSorted(job.source[c])
          BY <2>1, <3>1, <4>1, <4>3, DocumentsAreMeant DEF IInv
        <4> QED
          BY <4>4, SortedDocuments DEF Brought
      <3> HIDE DEF doc
      <3> QED
        BY <3>1, <3>2, <3>3, PlacedRepeats
    <2> QED
      BY <2>1, <2>2, <1>s
  <1>7. CASE Open \/ Close \/ Interrupt
    <2>1. /\ at \in {"open", "write"} /\ at' \in {"open", "write", "loaded", "failed"}
          /\ UNCHANGED <<job, lock, plan, before, alike, db>>
      BY <1>7 DEF Open, Close, Interrupt
    <2>2. \A c : DocsAt(c)' = DocsAt(c)
      BY <2>1 DEF DocsAt
    <2> QED
      BY <2>1, <2>2, <1>s DEF Repeatable
  <1>8. CASE UNCHANGED vars
    <2>1. UNCHANGED <<job, at, lock, plan, before, alike, db>>
      BY <1>8 DEF vars
    <2>2. \A c : DocsAt(c)' = DocsAt(c) /\ HadBefore(c)' = HadBefore(c) /\ Alike(c)' = Alike(c)
      BY <2>1 DEF DocsAt, HadBefore, Alike, Meant
    <2> QED
      BY <2>1, <2>2, SameRepeats DEF Repeatable
  <1> QED
    BY <1>1, <1>2, <1>3, <1>4, <1>5, <1>6, <1>7, <1>8 DEF Next

\* A load that is run again, after it was cut short or after it ended, gives what
\* one load would have given: for any number of loads and cuts, and in every mode
\* but insert, wherever each was planned as the export had it.
THEOREM SecondLoadConverges == Spec => []RerunConverges
  <1>1. Init => Repeatable
    BY DEF Init, Repeatable, Loading, Collections
  <1>2. IInv /\ Exported /\ Read /\ Described /\ Repeatable /\ [Next]_vars => Repeatable'
    BY RepeatableStep
  <1>3. IInv /\ Exported /\ Read /\ Converted /\ Repeatable /\ DocumentsArrive => RerunConverges
    <2> SUFFICES ASSUME IInv, Exported, Read, Converted, Repeatable, DocumentsArrive, at = "loaded",
                        NEW c \in alike, job.modes[c] # "insert"
                 PROVE  DocsAt(c) = After(job.modes[c], HadAtFirst(c), Brought(c))
      BY DEF RerunConverges, Brought
    <2>1. c \in Collections /\ Alike(c) /\ Repeats(c, HadBefore(c))
      BY DEF Repeatable, Loading
    <2>2. DocsAt(c) = After(job.modes[c], HadBefore(c), Brought(c))
      BY <2>1 DEF DocumentsArrive, Brought
    <2>3. job.modes[c] \in Modes
      BY <2>1, ElementOfSeq, LenProperties DEF IInv, IsJob, Collections
    <2>4. \A d, e \in Brought(c) : d["_id"] = e["_id"] => d = e
      BY <2>1, BroughtAtTheEnd
    <2> QED
      BY <2>1, <2>2, <2>3, <2>4, SameAfterwards
  <1> QED
    BY <1>1, <1>2, <1>3, LoadInvariance, ArrivingInvariance, DescribedInvariance,
       SourceArrives, PTL DEF Spec
=============================================================================
