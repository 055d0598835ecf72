-------------------------- MODULE DriftGateProofs ---------------------------
(***************************************************************************)
(* Proofs about DriftGate for any tables, columns, schemas and seed data:  *)
(* the gate foresees every rejection but the ones named in Unforeseen, no  *)
(* loss goes unasked, and a standing answer stands.                        *)
(*                                                                         *)
(* The argument rests on what passing each stage of the gate leaves true   *)
(* until the command ends (Passed) and on how the acceptances in the lock, *)
(* in its copies and in the user's mind are related (Standing).            *)
(***************************************************************************)
EXTENDS DriftGate, WellFoundedInduction, TLAPS

Records ==
    /\ lockFile = [schema |-> lockFile.schema, accepted |-> lockFile.accepted]
    /\ reread = [schema |-> reread.schema, accepted |-> reread.accepted]
    /\ reread.schema \in {job.locked, job.live, job.later}
    /\ reread.accepted \subseteq Tables
    /\ rebuilt = [schema |-> rebuilt.schema, accepted |-> rebuilt.accepted]

Past(stages) == pc \in stages \/ exit \in {"refused", "rejected", "loaded"}

Passed ==
    /\ Past({"gate", "ask", "persist", "load"}) =>
          Configured \subseteq DOMAIN live.tables \cup DOMAIN lock.schema.tables
    /\ Past({"ask", "persist", "load"}) => report = Drifts /\ (Hard(report) => job.force)
    /\ Past({"persist", "load"}) => Questions = {} \/ Hard(report)
    /\ pc \in {"ask", "persist"} => ~Hard(report)
    /\ pc \in {"read", "gate"} => report = {} /\ answered = {} /\ remember = {}
    /\ pc # "done" => exit = "none"
    /\ remember # {} => ~job.yes
    /\ pc = "persist" => remember # {}
    /\ answered \subseteq {d \in report : d.severity = "confirm" /\ d.table \in Tables}
    /\ exit = "rejected" => \A t \in Configured : ~Refused(t)

\* l keeps every standing acceptance of the tables it knows.
Keeps(l) == standing \cap DOMAIN l.schema.tables \subseteq l.accepted

Standing ==
    /\ Keeps(lockFile)
    /\ relocked \in {"no", "reading"} => standing \subseteq lockFile.accepted
    /\ relocked = "reading" => Keeps(rebuilt) /\ rebuilt.accepted \subseteq lockFile.accepted
    /\ pc \in {"gate", "ask"} => Keeps(lock)
    /\ pc = "persist" =>
          /\ Keeps(reread)
          /\ relocked \in {"no", "reading"} => reread = lockFile

Relocked ==
    /\ relocked = "reading" => rebuilt.schema \in {job.live, job.later}
    /\ relocked = "yes" =>
          /\ lockFile.schema \in {job.live, job.later}
          /\ pc = "persist" => reread.schema \in {job.live, job.later}

IInv == job \in Jobs /\ TypeOK /\ Records /\ Passed /\ Standing /\ Relocked

-----------------------------------------------------------------------------
(* What a question is about. *)

LEMMA DriftFields ==
    \A d, s, t, c, w : d = Drift(s, t, c, w) =>
        d.severity = s /\ d.table = t /\ d.column = c /\ d.what = w
BY DEF Drift

LEMMA LossSeverity ==
    \A d, t, c, w : d.severity = "confirm" =>
        d # Drift("benign", t, c, w) /\ d # Drift("breaking", t, c, w)
BY DEF Drift

\* A drift of t, found by comparing its two definitions.
Compared(locked, new, t) ==
    ClassChanged(locked, new, t)
      \cup ColumnsDropped(t, locked.tables[t], new.tables[t])
      \cup ColumnsAdded(t, locked.tables[t], new.tables[t])
      \cup NullabilityChanged(t, locked.tables[t], new.tables[t])
      \cup BecameGenerated(t, locked.tables[t], new.tables[t])
      \cup KeysChanged(t, locked.tables[t], new.tables[t])
      \cup ForeignKeysChanged(t, locked.tables[t], new.tables[t])

LEMMA ClassifyParts ==
    ASSUME NEW locked, NEW new, NEW creatable, NEW d
    PROVE  d \in Classify(locked, new, creatable) <=>
              \/ d \in TableDrifts(locked, new, creatable)
              \/ d \in EnumsChanged(locked, new, creatable)
              \/ \E t \in BothHave(locked, new) : d \in Compared(locked, new, t)
BY DEF Classify, Compared

LEMMA ComparedTable ==
    ASSUME NEW locked, NEW new, NEW t, NEW d \in Compared(locked, new, t)
    PROVE  d.table = t
<1>1. CASE d \in ClassChanged(locked, new, t)
  BY <1>1, DriftFields DEF ClassChanged
<1>2. CASE d \in ColumnsDropped(t, locked.tables[t], new.tables[t])
  <2>1. PICK c : d = Drift("confirm", t, c, "column dropped")
    BY <1>2 DEF ColumnsDropped
  <2> QED BY <2>1 DEF Drift
<1>7. CASE d \in ColumnsAdded(t, locked.tables[t], new.tables[t])
  <2>1. \E c, s : d = Drift(s, t, c, "column added")
    BY <1>7 DEF ColumnsAdded
  <2>2. PICK c, s : d = Drift(s, t, c, "column added")
    BY <2>1
  <2> QED BY <2>2 DEF Drift
<1>3. CASE d \in NullabilityChanged(t, locked.tables[t], new.tables[t])
  BY <1>3, DriftFields DEF NullabilityChanged
<1>4. CASE d \in BecameGenerated(t, locked.tables[t], new.tables[t])
  BY <1>4, DriftFields DEF BecameGenerated
<1>5. CASE d \in KeysChanged(t, locked.tables[t], new.tables[t])
  <2>1. \E s, w : d = Drift(s, t, Whole, w)
    BY <1>5 DEF KeysChanged
  <2> QED BY <2>1, DriftFields
<1>6. CASE d \in ForeignKeysChanged(t, locked.tables[t], new.tables[t])
  <2>1. \E s, w : d = Drift(s, t, Whole, w)
    BY <1>6 DEF ForeignKeysChanged
  <2> QED BY <2>1, DriftFields
<1> QED BY <1>1, <1>2, <1>3, <1>4, <1>5, <1>6, <1>7 DEF Compared

\* A loss that is asked about is in a table of the lock.
LEMMA LossInLockedTable ==
    ASSUME NEW locked, NEW new, NEW creatable,
           NEW d \in Classify(locked, new, creatable), d.severity = "confirm"
    PROVE  d.table \in DOMAIN locked.tables
<1>1. CASE d \in TableDrifts(locked, new, creatable)
  <2>1. CASE d \in {Drift("benign", t, Whole, "table added") :
                      t \in DOMAIN new.tables \ DOMAIN locked.tables}
    BY <2>1, LossSeverity
  <2>2. CASE d \in {Drift(IF creatable THEN "benign" ELSE "confirm", t, Whole, "table dropped") :
                      t \in DOMAIN locked.tables \ DOMAIN new.tables}
    <3>1. PICK t \in DOMAIN locked.tables \ DOMAIN new.tables :
             d = Drift(IF creatable THEN "benign" ELSE "confirm", t, Whole, "table dropped")
      BY <2>2
    <3>2. d.table = t
      BY <3>1 DEF Drift
    <3> QED BY <3>2
  <2> QED BY <1>1, <2>1, <2>2 DEF TableDrifts
<1>2. CASE d \in EnumsChanged(locked, new, creatable)
  BY <1>2, LossSeverity DEF EnumsChanged
<1>3. CASE \E t \in BothHave(locked, new) : d \in Compared(locked, new, t)
  BY <1>3, ComparedTable DEF BothHave
<1> QED BY <1>1, <1>2, <1>3, ClassifyParts

\* The question itself is one of the drifts that are left.
LEMMA QuestionsAreLosses ==
    ASSUME job \in Jobs, lock.schema \in {job.locked, job.live, job.later}, report = Drifts
    PROVE  \A d \in Questions :
             /\ d \in report /\ d.severity = "confirm" /\ d \notin answered
             /\ d.table \in DOMAIN lock.schema.tables /\ d.table \in Tables
             /\ d.table \notin lock.accepted
<1> SUFFICES ASSUME NEW d \in Questions
             PROVE  /\ d \in report /\ d.severity = "confirm" /\ d \notin answered
                    /\ d.table \in DOMAIN lock.schema.tables /\ d.table \in Tables
                    /\ d.table \notin lock.accepted
  OBVIOUS
<1>1. d \in report /\ d.severity = "confirm" /\ d.table \notin lock.accepted /\ d \notin answered
  BY DEF Questions
<1>2. d \in Classify(lock.schema, live, job.creatable)
  BY <1>1 DEF Drifts
<1>3. d.table \in DOMAIN lock.schema.tables
  BY <1>1, <1>2, LossInLockedTable
<1>4. DOMAIN lock.schema.tables \subseteq Tables
  BY JobsAssumption DEF WellFormed
<1> QED BY <1>1, <1>3, <1>4
-----------------------------------------------------------------------------
(* The invariant holds initially and every step preserves it. *)

LEMMA InitInvariant == Init => IInv
<1> SUFFICES ASSUME Init PROVE IInv
  OBVIOUS
<1> USE DEF Init
<1>1. job \in Jobs /\ job.accepted \subseteq Tables
  BY JobsAssumption
<1>2. TypeOK /\ Records
  BY <1>1 DEF TypeOK, Records
<1>3. Passed
  BY DEF Passed, Past
<1>4. Standing /\ Relocked
  BY DEF Standing, Keeps, Relocked
<1> QED BY <1>1, <1>2, <1>3, <1>4 DEF IInv

\* The drifts, and how bad they are, do not change during a command.
LEMMA SameDrifts ==
    ASSUME UNCHANGED <<job, live, lock>>
    PROVE  /\ Drifts' = Drifts /\ Configured' = Configured
           /\ Hard(Drifts)' <=> Hard(Drifts)
           /\ \A t : Refused(t)' <=> Refused(t)
<1>1. \A t : Policy(t)' = Policy(t)
  BY DEF Policy
<1>2. Drifts' = Drifts
  BY <1>1 DEF Drifts
<1>3. Hard(Drifts)' <=> Hard(Drifts)
  BY <1>1, <1>2 DEF Hard
<1>4. Configured' = Configured
  BY DEF Configured
<1>5. \A t : Refused(t)' <=> Refused(t)
  BY DEF Refused, Target, Description, SeedValues
<1> QED BY <1>2, <1>3, <1>4, <1>5

LEMMA ForceStep ==
    ASSUME ForcePast
    PROVE  /\ pc = "gate" /\ pc' = "load" /\ report' = Drifts /\ job.force /\ Hard(Drifts)
           /\ UNCHANGED <<job, live, runs, lockFile, lock, answered, remember, reread, exit,
                          rebuilt, relocked, standing>>
<1>1. /\ pc = "gate" /\ pc' = "load" /\ report' = Drifts /\ job.force /\ Hard(Drifts)
      /\ UNCHANGED <<world, lockFile, lock, answered, remember, reread, exit, told>>
  BY DEF ForcePast
<1>2. UNCHANGED <<job, live, runs, lockFile, lock, answered, remember, reread, exit,
                  rebuilt, relocked, standing>>
  BY <1>1 DEF world, told
<1> QED BY <1>1, <1>2

LEMMA JobIsKept ==
    ASSUME IInv, [Next]_vars
    PROVE  job' = job /\ job \in Jobs
<1>1. job \in Jobs
  BY DEF IInv
<1>2. CASE Unknown \/ Abort \/ Decline \/ Refuse \/ Reject \/ Load
  BY <1>1, <1>2 DEF Unknown, Abort, Decline, Refuse, Reject, Load, world
<1>3. CASE ReadLock \/ Warn \/ AgreeOnce \/ AgreeAlways
  BY <1>1, <1>3 DEF ReadLock, Warn, AgreeOnce, AgreeAlways, world
<1>6. CASE ForcePast
  BY <1>1, <1>6, ForceStep
<1>4. CASE PersistRead \/ PersistWrite \/ NothingToRemember \/ RelockRead \/ RelockWrite \/ RunAgain
  BY <1>1, <1>4 DEF PersistRead, PersistWrite, NothingToRemember, RelockRead, RelockWrite,
                    RunAgain, world
<1>5. CASE UNCHANGED vars
  BY <1>1, <1>5 DEF vars
<1> QED BY <1>1, <1>2, <1>3, <1>4, <1>5, <1>6 DEF Next, Terminated

LEMMA TypesAreKept ==
    ASSUME IInv, [Next]_vars
    PROVE  TypeOK' /\ Records'
<1> USE DEF TypeOK, Records
<1>1. /\ job' = job /\ job \in Jobs /\ TypeOK /\ Records
      /\ DOMAIN job.live.tables \subseteq Tables /\ DOMAIN job.later.tables \subseteq Tables
  BY JobIsKept, JobsAssumption DEF IInv, WellFormed
<1> USE <1>1
<1>2. CASE Unknown \/ Abort \/ Decline \/ Refuse \/ Reject \/ Load
  BY <1>2 DEF Unknown, Abort, Decline, Refuse, Reject, Load, End, world, gate, told
<1>3. CASE ReadLock
  BY <1>3 DEF ReadLock, world, told
<1>4. CASE ForcePast \/ Warn
  <2>1. pc = "gate" => answered = {} /\ remember = {}
    BY DEF IInv, Passed
  <2>2. CASE ForcePast
    BY <2>1, <2>2, ForceStep
  <2>3. CASE Warn
    <3>1. pc = "gate" /\ UNCHANGED <<job, live, lockFile, lock, answered, remember, reread, exit,
                                    rebuilt, relocked, standing>> /\ pc' = "ask"
      BY <2>3 DEF Warn, world, told
    <3> QED BY <2>1, <3>1
  <2> QED BY <1>4, <2>2, <2>3
<1>5. CASE AgreeOnce
  <2>1. PICK d \in Questions : answered' = answered \cup {d}
    BY <1>5 DEF AgreeOnce
  <2>2. d \in report
    BY <1>5, QuestionsAreLosses DEF AgreeOnce, IInv, Passed, Past
  <2> QED BY <1>5, <2>1, <2>2 DEF AgreeOnce, world, told
<1>6. CASE AgreeAlways
  <2>1. PICK d \in Questions : answered' = answered \cup {d} /\ remember' = remember \cup {d.table}
    BY <1>6 DEF AgreeAlways
  <2>2. d \in report
    BY <1>6, QuestionsAreLosses DEF AgreeAlways, IInv, Passed, Past
  <2> QED BY <1>6, <2>1, <2>2 DEF AgreeAlways, world, told
<1>7. CASE PersistRead
  BY <1>7 DEF PersistRead, world, told
<1>8. CASE PersistWrite
  <2>1. remember \subseteq Tables
    BY DEF IInv, Passed
  <2> QED BY <1>8, <2>1 DEF PersistWrite, world, gate
<1>9. CASE NothingToRemember
  BY <1>9 DEF NothingToRemember, world, gate, told
<1>10. CASE RelockRead \/ RelockWrite
  BY <1>10 DEF RelockRead, RelockWrite, world, gate
<1>11. CASE RunAgain
  BY <1>11 DEF RunAgain, told
<1>12. CASE UNCHANGED vars
  BY <1>12 DEF vars
<1> QED
  BY <1>2, <1>3, <1>4, <1>5, <1>6, <1>7, <1>8, <1>9, <1>10, <1>11, <1>12 DEF Next, Terminated

LEMMA PassedIsKept ==
    ASSUME IInv, [Next]_vars
    PROVE  Passed'
<1> USE DEF Passed, Past
<1>1. /\ job' = job /\ job \in Jobs /\ TypeOK /\ Passed
  BY JobIsKept DEF IInv
<1>2. CASE Unknown \/ Abort \/ Decline
  BY <1>1, <1>2 DEF Unknown, Abort, Decline, End, world, gate, told
<1>3. CASE Refuse \/ Reject \/ Load
  <2>1. /\ pc = "load" /\ pc' = "done" /\ exit' \in {"refused", "rejected", "loaded"}
        /\ UNCHANGED <<job, live, lock, report, answered, remember>>
        /\ exit' = "rejected" => \A t \in Configured : ~Refused(t)
    BY <1>3 DEF Refuse, Reject, Load, End, world, gate
  <2>2. Drifts' = Drifts /\ Configured' = Configured /\ Questions' = Questions
        /\ (Hard(report)' <=> Hard(report)) /\ \A t : Refused(t)' <=> Refused(t)
    BY <1>1, <2>1, SameDrifts DEF Questions
  <2> QED BY <1>1, <2>1, <2>2
<1>4. CASE ReadLock
  <2>1. Configured' \subseteq DOMAIN live'.tables \cup DOMAIN lock'.schema.tables
    BY <1>4 DEF ReadLock, world, Configured
  <2> QED BY <1>1, <1>4, <2>1 DEF ReadLock
<1>5. CASE ForcePast
  <2>1. Drifts' = Drifts /\ Configured' = Configured /\ (Hard(report)' <=> Hard(Drifts))
    BY <1>5, ForceStep, SameDrifts
  <2> QED BY <1>1, <1>5, <2>1, ForceStep
<1>6. CASE Warn
  <2>1. /\ pc = "gate" /\ pc' = "ask" /\ report' = Drifts /\ ~Hard(Drifts)
        /\ UNCHANGED <<job, live, lock, answered, remember, exit>>
    BY <1>6 DEF Warn, world
  <2>2. Drifts' = Drifts /\ Configured' = Configured /\ (Hard(report)' <=> Hard(Drifts))
    BY <2>1, SameDrifts
  <2> QED BY <1>1, <2>1, <2>2
<1>7. CASE AgreeOnce \/ AgreeAlways
  <2>1. /\ pc = "ask" /\ pc' = "ask"
        /\ UNCHANGED <<job, live, lock, report, exit>>
        /\ \E d \in Questions : answered' = answered \cup {d}
        /\ remember' = remember \/ ~job.yes
    BY <1>7 DEF AgreeOnce, AgreeAlways, Asked, world
  <2>2. PICK d \in Questions : answered' = answered \cup {d}
    BY <2>1
  <2>3. d \in report /\ d.severity = "confirm" /\ d.table \in Tables
    BY <1>1, <2>1, QuestionsAreLosses DEF TypeOK
  <2>4. Drifts' = Drifts /\ Configured' = Configured /\ (Hard(report)' <=> Hard(report))
    BY <1>1, <2>1, SameDrifts
  <2> QED BY <1>1, <2>1, <2>2, <2>3, <2>4
<1>8. CASE PersistRead \/ PersistWrite \/ NothingToRemember
  <2>1. /\ pc \in {"ask", "persist"} /\ pc' \in {"persist", "load"}
        /\ pc = "ask" => Questions = {}
        /\ pc' = "persist" => remember # {}
        /\ UNCHANGED <<job, live, lock, report, answered, remember, exit>>
    BY <1>8 DEF PersistRead, PersistWrite, NothingToRemember, world, gate
  <2>2. Drifts' = Drifts /\ Configured' = Configured /\ Questions' = Questions
        /\ (Hard(report)' <=> Hard(report))
    BY <1>1, <2>1, SameDrifts DEF Questions
  <2> QED BY <1>1, <2>1, <2>2
<1>9. CASE RelockRead \/ RelockWrite \/ UNCHANGED vars
  <2>1. UNCHANGED <<job, live, pc, lock, report, answered, remember, exit>>
    BY <1>9 DEF RelockRead, RelockWrite, world, gate, vars
  <2>2. Drifts' = Drifts /\ Configured' = Configured /\ Questions' = Questions
        /\ (Hard(report)' <=> Hard(report)) /\ \A t : Refused(t)' <=> Refused(t)
    <3>1. Drifts' = Drifts /\ Configured' = Configured /\ \A t : Refused(t)' <=> Refused(t)
      BY <2>1, SameDrifts
    <3>2. Questions' = Questions /\ (Hard(report)' <=> Hard(report))
      BY <2>1 DEF Questions, Hard, Policy
    <3> QED BY <3>1, <3>2
  <2> QED BY <1>1, <2>1, <2>2
<1>10. CASE RunAgain
  BY <1>1, <1>10 DEF RunAgain
<1> QED
  BY <1>2, <1>3, <1>4, <1>5, <1>6, <1>7, <1>8, <1>9, <1>10 DEF Next, Terminated

LEMMA StandingIsKept ==
    ASSUME IInv, [Next]_vars
    PROVE  Standing' /\ Relocked'
<1> USE DEF Standing, Keeps, Relocked
<1>1. /\ job' = job /\ TypeOK /\ Records /\ Standing /\ Relocked
  BY JobIsKept DEF IInv
<1>2. CASE Unknown \/ Abort \/ Decline \/ Refuse \/ Reject \/ Load
  BY <1>1, <1>2 DEF Unknown, Abort, Decline, Refuse, Reject, Load, End, world, gate, told
<1>3. CASE ReadLock
  BY <1>1, <1>3 DEF ReadLock, world, told
<1>4. CASE ForcePast
  BY <1>1, <1>4, ForceStep
<1>5. CASE Warn \/ AgreeOnce \/ AgreeAlways
  <2>1. /\ pc' = "ask" /\ pc \in {"gate", "ask"}
        /\ UNCHANGED <<lockFile, lock, reread, rebuilt, relocked, standing>>
    BY <1>5 DEF Warn, AgreeOnce, AgreeAlways, world, told
  <2> QED BY <1>1, <2>1
<1>6. CASE PersistRead
  BY <1>1, <1>6 DEF PersistRead, world, told
<1>7. CASE PersistWrite
  BY <1>1, <1>7 DEF PersistWrite, world, gate, Records
<1>8. CASE NothingToRemember
  BY <1>1, <1>8 DEF NothingToRemember, world, gate, told
<1>9. CASE RelockRead
  BY <1>1, <1>9 DEF RelockRead, world, gate, TypeOK
<1>12. CASE RelockWrite
  BY <1>1, <1>12 DEF RelockWrite, world, gate, TypeOK
<1>10. CASE RunAgain
  BY <1>1, <1>10 DEF RunAgain, told
<1>11. CASE UNCHANGED vars
  BY <1>1, <1>11 DEF vars
<1> QED
  BY <1>2, <1>3, <1>4, <1>5, <1>6, <1>7, <1>8, <1>9, <1>10, <1>11, <1>12 DEF Next, Terminated

\* IInv is an inductive invariant.
THEOREM Invariance == Spec => []IInv
<1>1. IInv /\ [Next]_vars => IInv'
  BY JobIsKept, TypesAreKept, PassedIsKept, StandingIsKept DEF IInv
<1> QED BY InitInvariant, <1>1, PTL DEF Spec

\* The lock, the report and the answers have their types: what is agreed to
\* was reported, and what is remembered was agreed to.
THEOREM TypeCorrect == Spec => []TypeOK
<1>1. IInv => TypeOK
  BY DEF IInv
<1> QED BY Invariance, <1>1, PTL

-----------------------------------------------------------------------------
(* Losses and acceptances. *)

\* Another process's relock is not undone by an answer written back.
THEOREM RelocksSurvive == Spec => []RelockSurvives
<1>1. IInv => RelockSurvives
  BY DEF IInv, Relocked, RelockSurvives
<1> QED BY Invariance, <1>1, PTL

\* A table left out of a load that succeeds was agreed to, accepted, ignored
\* or forced.
THEOREM LossesAreAgreed == Spec => []LossIsAgreed
<1>1. ASSUME IInv PROVE LossIsAgreed
  <2> SUFFICES ASSUME exit = "loaded", NEW t \in Configured,
                      ~Loads(t), ~job.force, Policy(t) # "ignore"
               PROVE  /\ Policy(t) # "abort"
                      /\ \/ t \in lock.accepted
                         \/ Drift("confirm", t, Whole, "table dropped") \in answered
    BY DEF LossIsAgreed
  <2> DEFINE d == Drift("confirm", t, Whole, "table dropped")
  <2>1. /\ t \in DOMAIN lock.schema.tables \ DOMAIN live.tables /\ ~job.creatable
        /\ report = Drifts /\ ~Hard(report) /\ Questions = {}
    BY <1>1 DEF IInv, Passed, Past, Loads
  <2>2. d.table = t /\ d.severity = "confirm"
    BY DEF Drift
  <2>3. d \in Classify(lock.schema, live, job.creatable)
    BY <2>1 DEF Classify, TableDrifts
  <2>4. d \in report
    BY <2>1, <2>2, <2>3 DEF Drifts
  <2>5. Policy(t) # "abort"
    BY <2>1, <2>2, <2>4 DEF Hard
  <2>6. t \in lock.accepted \/ d \in answered
    BY <2>1, <2>2, <2>4 DEF Questions
  <2> QED BY <2>5, <2>6
<1> QED BY Invariance, <1>1, PTL

\* A standing acceptance is written when every question was agreed to.
THEOREM AnswersAreRemembered == Spec => RememberedAfterAll
<1> DEFINE Step ==
        ~(lockFile'.accepted \subseteq lockFile.accepted) =>
            /\ Questions = {} /\ ~job.yes
            /\ lockFile'.accepted \subseteq reread.accepted \cup {d.table : d \in answered}
<1>1. ASSUME IInv, [Next]_vars PROVE Step
  <2>1. TypeOK /\ Records /\ Passed /\ Standing
    BY <1>1 DEF IInv
  <2>2. CASE PersistWrite
    <3>1. lockFile'.accepted = reread.accepted \cup remember /\ pc = "persist"
      BY <2>1, <2>2 DEF PersistWrite, Records
    <3>2. remember \subseteq {d.table : d \in answered}
      BY <2>1 DEF TypeOK
    <3>3. Questions = {}
      BY <2>1, <3>1 DEF Passed, Past
    <3>4. ~job.yes
      BY <2>1, <3>1 DEF Passed
    <3> QED BY <3>1, <3>2, <3>3, <3>4
  <2>3. CASE ~PersistWrite
    <3>1. lockFile'.accepted \subseteq lockFile.accepted
      <4>1. CASE RelockRead
        BY <4>1 DEF RelockRead
      <4>5. CASE RelockWrite
        BY <2>1, <4>5 DEF RelockWrite, Standing
      <4>2. CASE Unknown \/ ReadLock \/ Abort \/ Warn \/ AgreeOnce \/ AgreeAlways \/ Decline
        BY <4>2 DEF Unknown, ReadLock, Abort, Warn, AgreeOnce, AgreeAlways, Decline
      <4>3. CASE \/ PersistRead \/ NothingToRemember \/ Refuse \/ Reject \/ Load \/ RunAgain
                \/ UNCHANGED vars
        BY <4>3 DEF PersistRead, NothingToRemember, Refuse, Reject, Load, RunAgain, vars
      <4>4. CASE ForcePast
        BY <4>4, ForceStep
      <4> QED BY <1>1, <2>3, <4>1, <4>2, <4>3, <4>4, <4>5 DEF Next, Terminated
    <3> QED BY <3>1
  <2> QED BY <2>2, <2>3
<1>2. [][Step]_vars => RememberedAfterAll
  BY PTL DEF RememberedAfterAll
<1> QED BY Invariance, <1>1, <1>2, PTL DEF Spec

\* A table with a standing answer is not asked about, in any run.
THEOREM NobodyIsAskedAgain == Spec => NotAskedAgain
<1> DEFINE Step == \A d \in answered' \ answered : d.table \notin standing
<1>1. ASSUME IInv, [Next]_vars PROVE Step
  <2>1. /\ job \in Jobs /\ TypeOK /\ Passed /\ Standing
    BY <1>1 DEF IInv
  <2>2. CASE AgreeOnce \/ AgreeAlways
    <3>1. pc = "ask" /\ \E d \in Questions : answered' = answered \cup {d}
      BY <2>2 DEF AgreeOnce, AgreeAlways
    <3>2. PICK d \in Questions : answered' = answered \cup {d}
      BY <3>1
    <3>3. d.table \in DOMAIN lock.schema.tables /\ d.table \notin lock.accepted
      BY <2>1, <3>1, QuestionsAreLosses DEF TypeOK, Passed, Past
    <3>4. Keeps(lock)
      BY <2>1, <3>1 DEF Standing
    <3> QED BY <3>2, <3>3, <3>4 DEF Keeps
  <2>3. CASE ~(AgreeOnce \/ AgreeAlways)
    <3>1. answered' \subseteq answered
      <4>1. CASE \/ RelockRead \/ RelockWrite \/ Unknown \/ ReadLock \/ Abort \/ Warn
                \/ Decline
        BY <4>1 DEF RelockRead, RelockWrite, Unknown, ReadLock, Abort, Warn, Decline, gate
      <4>2. CASE \/ PersistRead \/ PersistWrite \/ NothingToRemember \/ Refuse \/ Reject \/ Load
                \/ RunAgain \/ UNCHANGED vars
        BY <4>2 DEF PersistRead, PersistWrite, NothingToRemember, Refuse, Reject, Load,
                    RunAgain, vars, gate
      <4>3. CASE ForcePast
        BY <4>3, ForceStep
      <4> QED BY <1>1, <2>3, <4>1, <4>2, <4>3 DEF Next, Terminated
    <3> QED BY <3>1
  <2> QED BY <2>2, <2>3
<1>2. [][Step]_vars => NotAskedAgain
  BY PTL DEF NotAskedAgain
<1> QED BY Invariance, <1>1, <1>2, PTL DEF Spec

-----------------------------------------------------------------------------
(* Widening: what a class holds, a class that it widens to holds, but for  *)
(* whole numbers as decimals.                                              *)

IntToDecimal(a, b) ==
    \/ a.kind = "int" /\ b.kind = "decimal"
    \/ a.kind = "array" /\ b.kind = "array" /\ a.of.kind = "int" /\ b.of.kind = "decimal"

LEMMA ScalarFields ==
    \A a \in ScalarClass :
        /\ a.kind \in {"int", "float", "decimal", "text", "json", "time", "timestamp", "enum",
                       "other", "bool", "bytes", "uuid", "date", "interval"}
        /\ a.kind \in {"int", "float"} => a.bits \in Nat
        /\ a.kind = "decimal" => a.precision \in Nat /\ a.scale \in Nat
        /\ a.kind = "text" => a.max_len \in Nat
BY DEF ScalarClass

LEMMA ScalarIsNoArray == \A a \in ScalarClass : a.kind # "array"
BY DEF ScalarClass

LEMMA ValueFields ==
    \A v \in Value :
        /\ v.len \in Nat
        /\ v.form = "uuid" => v.len = 36
        /\ v.form = "number" => v.bits \in Nat /\ v.int \in Nat /\ v.frac \in Nat
BY DEF Value, ScalarValue

LEMMA NumbersWiden ==
    ASSUME NEW a \in ScalarClass, NEW b \in ScalarClass, WidensNumber(a, b),
           ~(a.kind = "int" /\ b.kind = "decimal"),
           NEW v \in Value, NEW from, NEW to, HoldsScalar(a, from, v)
    PROVE  HoldsScalar(b, to, v)
<1>1. v.form = "number" => v.bits \in Nat /\ v.int \in Nat /\ v.frac \in Nat
  BY ValueFields
<1>2. CASE a.kind = "int" /\ b.kind = "int" /\ a.bits <= b.bits
  BY <1>1, <1>2, ScalarFields DEF HoldsScalar
<1>3. CASE b.kind = "float"
  BY <1>1, <1>3, ScalarFields DEF HoldsScalar, WidensNumber
<1>4. CASE a.kind = "decimal" /\ b.kind = "decimal"
  BY <1>1, <1>4, ScalarFields DEF HoldsScalar, WidensNumber, None
<1> QED BY <1>2, <1>3, <1>4 DEF WidensNumber

LEMMA TextsWiden ==
    ASSUME NEW a \in ScalarClass, NEW b \in ScalarClass, WidensText(a, b),
           NEW v \in Value, NEW from, NEW to, HoldsScalar(a, from, v)
    PROVE  HoldsScalar(b, to, v)
<1>1. v.len \in Nat /\ (v.form = "uuid" => v.len = 36)
  BY ValueFields
<1>2. CASE b.max_len = None
  BY <1>2 DEF HoldsScalar, WidensText
<1>3. CASE a.kind = "text" /\ a.max_len # None /\ a.max_len <= b.max_len
  BY <1>1, <1>3, ScalarFields DEF HoldsScalar, WidensText, None
<1>4. CASE a.kind = "uuid" /\ b.max_len >= 36
  BY <1>1, <1>4, ScalarFields DEF HoldsScalar, WidensText, None
<1> QED BY <1>2, <1>3, <1>4 DEF WidensText

\* The labels only matter where the two classes are one and the same enum.
LEMMA ScalarsWiden ==
    ASSUME NEW a \in ScalarClass, NEW b \in ScalarClass, WidensScalar(a, b),
           ~(a.kind = "int" /\ b.kind = "decimal"),
           NEW v \in Value, NEW from, NEW to, HoldsScalar(a, from, v),
           a = b /\ a.kind = "enum" => from \subseteq to
    PROVE  HoldsScalar(b, to, v)
<1>1. CASE a = b
  BY <1>1 DEF HoldsScalar
<1>2. CASE WidensNumber(a, b)
  BY <1>2, NumbersWiden
<1>3. CASE WidensText(a, b)
  BY <1>3, TextsWiden
<1>4. CASE ~(a = b \/ WidensNumber(a, b) \/ WidensText(a, b))
  <2>1. \/ a.kind = b.kind /\ a.kind \in {"json", "timestamp"}
        \/ a.kind = "date" /\ b.kind = "timestamp"
    BY <1>4 DEF WidensScalar
  <2> QED BY <2>1 DEF HoldsScalar
<1> QED BY <1>1, <1>2, <1>3, <1>4

LEMMA ClassFields ==
    ASSUME NEW a \in TypeClass
    PROVE  /\ a \in ScalarClass \/ (a.kind = "array" /\ a.of \in ScalarClass)
           /\ a \in ScalarClass => a.kind # "array"
<1>1. CASE a \in ScalarClass
  BY <1>1, ScalarIsNoArray
<1>2. CASE a \in [kind : {"array"}, of : ScalarClass]
  BY <1>2, ScalarIsNoArray
<1> QED BY <1>1, <1>2 DEF TypeClass

LEMMA WideningHolds ==
    ASSUME NEW a \in TypeClass, NEW b \in TypeClass, Widens(a, b), ~IntToDecimal(a, b),
           NEW v \in Value, NEW from, NEW to, Holds(a, from, v),
           a = b => from \subseteq to,
           a.kind = "array" /\ b.kind = "array" /\ a.of = b.of => a = b
    PROVE  Holds(b, to, v)
<1>1. CASE a.kind = "array" /\ b.kind = "array"
  <2>1. a.of \in ScalarClass /\ b.of \in ScalarClass
    BY <1>1, ClassFields
  <2>2. v.form = "array" /\ HoldsScalar(a.of, from, v.element) /\ v.element \in Value
    BY <1>1 DEF Holds, Value, ScalarValue
  <2>3. WidensScalar(a.of, b.of) /\ ~(a.of.kind = "int" /\ b.of.kind = "decimal")
    BY <1>1 DEF Widens, IntToDecimal
  <2>4. HoldsScalar(b.of, to, v.element)
    BY <1>1, <2>1, <2>2, <2>3, ScalarsWiden
  <2> QED BY <1>1, <2>2, <2>4 DEF Holds
<1>2. CASE a.kind # "array" /\ b.kind # "array"
  <2>1. a \in ScalarClass /\ b \in ScalarClass /\ WidensScalar(a, b)
    BY <1>2, ClassFields DEF Widens
  <2> QED BY <1>2, <2>1, ScalarsWiden DEF Holds, IntToDecimal
<1>3. CASE a.kind = "array" /\ b.kind # "array"
  <2>1. WidensScalar(a, b) /\ a # b
    BY <1>3 DEF Widens
  <2>2. WidensText(a, b)
    BY <1>3, <2>1 DEF WidensScalar, WidensNumber
  <2> QED BY <1>3, <2>2 DEF WidensText, Holds, HoldsScalar
<1>4. CASE a.kind # "array" /\ b.kind = "array"
  BY <1>4 DEF Widens, WidensScalar, WidensNumber, WidensText
<1> QED BY <1>1, <1>2, <1>3, <1>4

-----------------------------------------------------------------------------
(* What the gate lets pass. *)

LEMMA BreakingIsIgnored ==
    ASSUME report = Drifts, ~Hard(report),
           NEW d \in Classify(lock.schema, live, job.creatable), d.severity = "breaking"
    PROVE  Policy(d.table) = "ignore"
BY DEF Drifts, Hard

\* The labels that a class had are there still, if nothing was ignored.
LEMMA LabelsAreKept ==
    ASSUME report = Drifts, ~Hard(report), NEW a \in TypeClass,
           \A e \in TypeNames : UsesEnum(a, e) =>
               /\ e \in DOMAIN lock.schema.enums /\ e \in DOMAIN live.enums
               /\ Policy(EnumOwner(lock.schema, e)) # "ignore"
    PROVE  LabelsOf(lock.schema, a) \subseteq LabelsOf(live, a)
<1> DEFINE s == IF a.kind = "array" THEN a.of ELSE a
<1>1. s \in ScalarClass
  BY ClassFields
<1>2. CASE s.kind = "enum"
  <2>1. s.name \in TypeNames /\ UsesEnum(a, s.name)
    BY <1>1, <1>2, ClassFields DEF ScalarClass, UsesEnum
  <2> DEFINE e == s.name
             d == Drift("breaking", EnumOwner(lock.schema, e), Whole, "label removed")
  <2>2. SUFFICES ASSUME ~(lock.schema.enums[e] \subseteq live.enums[e]) PROVE FALSE
    BY <1>2 DEF LabelsOf
  <2>3. LiveLabels(lock.schema, live, e) = {live.enums[e]} /\ e \in DOMAIN lock.schema.enums
    BY <2>1 DEF LiveLabels
  <2>4. d \in EnumsChanged(lock.schema, live, job.creatable)
    BY <2>2, <2>3 DEF EnumsChanged
  <2>5. d.severity = "breaking" /\ d.table = EnumOwner(lock.schema, e)
    BY DEF Drift
  <2> QED BY <2>1, <2>4, <2>5, ClassifyParts, BreakingIsIgnored
<1>3. CASE s.kind # "enum"
  BY <1>3 DEF LabelsOf
<1> QED BY <1>2, <1>3

\* A change of class is breaking unless it widens, keeps the labels, or can be
\* checked value by value.
LEMMA ClassChangesPass ==
    ASSUME report = Drifts, ~Hard(report),
           NEW t \in BothHave(lock.schema, live), Policy(t) # "ignore",
           NEW c \in DOMAIN lock.schema.tables[t].columns \cap DOMAIN live.tables[t].columns
    PROVE  LET a == lock.schema.tables[t].columns[c].class
               b == live.tables[t].columns[c].class
           IN  \/ Widens(a, b) \/ SameEnum(lock.schema, live, a, b)
               \/ (a.kind = "text" /\ b.kind = "text")
<1> DEFINE a == lock.schema.tables[t].columns[c].class
           b == live.tables[t].columns[c].class
           d == Drift(ClassSeverity(a, b), t, c, "type")
<1> SUFFICES ASSUME ~Widens(a, b), ~SameEnum(lock.schema, live, a, b),
                    ~(a.kind = "text" /\ b.kind = "text")
             PROVE  FALSE
  OBVIOUS
<1>1. a # b
  BY DEF Widens, WidensScalar
<1>2. ClassSeverity(a, b) = "breaking"
  BY DEF ClassSeverity
<1>3. d \in ClassChanged(lock.schema, live, t)
  BY <1>1 DEF ClassChanged
<1>4. d.severity = "breaking" /\ d.table = t
  BY <1>2 DEF Drift
<1>5. d \in Classify(lock.schema, live, job.creatable)
  BY <1>3, ClassifyParts DEF Compared
<1> QED BY <1>4, <1>5, BreakingIsIgnored

\* A value of the seed files that the database does not store, in a table the
\* load writes, is one of the unforeseen cases.
LEMMA RejectionIsUnforeseen ==
    ASSUME IInv, exit = "rejected", ~job.force, lock.schema = job.locked,
           NEW t \in Configured, Policy(t) # "ignore",
           NEW c \in Writable(Target(t)), NEW v \in SeedValues(t, c), Rejects(t, c, v)
    PROVE  Unforeseen(t, c, v)
<1> DEFINE was == lock.schema.tables[t].columns[c].class
           is == Target(t).columns[c].class
<1>1. /\ job \in Jobs /\ live \in {job.live, job.later}
      /\ report = Drifts /\ ~Hard(report) /\ ~Refused(t)
      /\ t \in DOMAIN live.tables \cup DOMAIN lock.schema.tables
  BY DEF IInv, Passed, Past, TypeOK
<1>2. /\ WellFormed(lock.schema) /\ WellFormed(live) /\ Exported(lock.schema, job.seed)
      /\ t \in DOMAIN lock.schema.tables
  BY <1>1, JobsAssumption DEF Configured, Exported
<1>3. ~Invalid(Target(t).columns[c], v) /\ DOMAIN job.seed[t] \subseteq Writable(Target(t))
  BY <1>1 DEF Refused
<1>4. CASE v = SeedNull
  <2>1. Target(t).columns[c].nullable \/ Target(t).columns[c].has_default
    BY <1>3, <1>4 DEF Invalid
  <2>2. ~Target(t).columns[c].nullable
    BY <1>4 DEF Rejects
  <2> QED BY <1>4, <2>1, <2>2, Zenon DEF Unforeseen
<1>5. CASE v # SeedNull
  <2>1. c \in DOMAIN job.seed[t] /\ v \in job.seed[t][c]
    BY <1>5 DEF SeedValues
  <2>2. /\ c \in Writable(lock.schema.tables[t])
        /\ v \in Value /\ Holds(was, LabelsOf(lock.schema, was), v)
    BY <1>2, <1>5, <2>1 DEF Exported
  <2>3. ~Holds(is, LabelsOf(Description(t), is), v)
    BY <1>5 DEF Rejects
  <2>4. t \in DOMAIN live.tables /\ Description(t) = live
    BY <2>2, <2>3 DEF Description, Target
  <2>5. /\ is = live.tables[t].columns[c].class
        /\ c \in DOMAIN lock.schema.tables[t].columns \cap DOMAIN live.tables[t].columns
    BY <2>2, <2>4 DEF Target, Writable
  <2>6. was \in TypeClass /\ is \in TypeClass
    BY <1>2, <2>4, <2>5 DEF WellFormed, Column
  <2> SUFFICES ASSUME ~Unforeseen(t, c, v) PROVE FALSE
    OBVIOUS
  <2>7. /\ ~IntToDecimal(was, is)
        /\ \A e \in TypeNames :
              UsesEnum(was, e) => Policy(EnumOwner(lock.schema, e)) # "ignore"
    BY DEF Unforeseen, IntToDecimal
  <2>8. was = is => LabelsOf(lock.schema, was) \subseteq LabelsOf(live, is)
    <3> SUFFICES ASSUME was = is PROVE LabelsOf(lock.schema, was) \subseteq LabelsOf(live, is)
      OBVIOUS
    <3>1. \A e \in TypeNames :
            UsesEnum(was, e) => e \in DOMAIN lock.schema.enums /\ e \in DOMAIN live.enums
      BY <1>2, <2>4, <2>5 DEF WellFormed
    <3> QED BY <1>1, <2>6, <2>7, <3>1, LabelsAreKept
  <2>9. CASE Widens(was, is)
    <3>1. was.kind = "array" /\ is.kind = "array" /\ was.of = is.of => was = is
      BY <2>6, ScalarIsNoArray DEF TypeClass
    <3>2. /\ Widens(was, is) /\ ~IntToDecimal(was, is) /\ v \in Value
          /\ Holds(was, LabelsOf(lock.schema, was), v) /\ ~Holds(is, LabelsOf(live, is), v)
      BY <2>2, <2>3, <2>4, <2>7, <2>9
    <3> HIDE DEF was, is
    <3> QED BY <2>6, <2>8, <3>1, <3>2, WideningHolds
  <2>10. CASE SameEnum(lock.schema, live, was, is)
    BY <2>2, <2>3, <2>4, <2>10 DEF SameEnum, Holds, HoldsScalar, LabelsOf
  <2>11. CASE was.kind = "text" /\ is.kind = "text"
    <3>1. is \in ScalarClass /\ is.max_len \in Nat /\ v.len \in Nat
      BY <2>2, <2>6, <2>11, ClassFields, ScalarFields, ValueFields
    <3>2. is.max_len = None \/ v.len <= is.max_len
      BY <1>3, <1>5, <2>11, <3>1 DEF Invalid, None
    <3> QED BY <2>3, <2>11, <3>2 DEF Holds, HoldsScalar
  <2> QED BY <1>1, <1>2, <2>4, <2>5, <2>9, <2>10, <2>11, ClassChangesPass DEF BothHave
<1> QED BY <1>4, <1>5

\* If the gate was passed without --force under the lock the files were written
\* with, the database rejects no value but in the cases named.
THEOREM RejectionsAreForeseen == Spec => []GateForeseesRejections
<1>1. IInv => GateForeseesRejections
  BY RejectionIsUnforeseen DEF GateForeseesRejections
<1> QED BY Invariance, <1>1, PTL

-----------------------------------------------------------------------------
(* Silence.  What the comparison does not speak of: defaults, the names of   *)
(* enums, enums that only the database has, and a column that is generated   *)
(* no longer.                                                                *)

SameTable(locked, new, t) ==
    LET l == locked.tables[t]
        v == new.tables[t]
    IN  /\ DOMAIN l.columns = DOMAIN v.columns
        /\ l.primary_key = v.primary_key /\ l.unique = v.unique
        /\ l.foreign_keys = v.foreign_keys
        /\ \A c \in DOMAIN v.columns :
             /\ l.columns[c].class = v.columns[c].class
                  \/ SameEnum(locked, new, l.columns[c].class, v.columns[c].class)
             /\ l.columns[c].nullable <=> v.columns[c].nullable
             /\ v.columns[c].generated => l.columns[c].generated

\* An enum has its labels, or another has them, or nobody needs it.
SameLabels(locked, new, creatable, e) ==
    IF e \in DOMAIN new.enums THEN new.enums[e] = locked.enums[e]
    ELSE \/ creatable \/ EnumUsers(locked, e) = {}
         \/ \E f \in DOMAIN new.enums : new.enums[f] = locked.enums[e]

Alike(locked, new, creatable) ==
    /\ DOMAIN locked.tables = DOMAIN new.tables
    /\ \A t \in DOMAIN new.tables : SameTable(locked, new, t)
    /\ \A e \in DOMAIN locked.enums : SameLabels(locked, new, creatable, e)

LEMMA SameTableIsSilent ==
    ASSUME NEW locked, NEW new, NEW t
    PROVE  Compared(locked, new, t) = {} <=> SameTable(locked, new, t)
<1> DEFINE l == locked.tables[t]
           v == new.tables[t]
<1>1. /\ ColumnsDropped(t, l, v) = {} <=> DOMAIN l.columns \subseteq DOMAIN v.columns
      /\ ColumnsAdded(t, l, v) = {} <=> DOMAIN v.columns \subseteq DOMAIN l.columns
  BY DEF ColumnsDropped, ColumnsAdded
<1>2. /\ KeysChanged(t, l, v) = {} <=> l.primary_key = v.primary_key /\ l.unique = v.unique
      /\ ForeignKeysChanged(t, l, v) = {} <=> l.foreign_keys = v.foreign_keys
  <2>1. l.unique = v.unique <=> l.unique \subseteq v.unique /\ v.unique \subseteq l.unique
    OBVIOUS
  <2> QED BY <2>1 DEF KeysChanged, ForeignKeysChanged
<1>3. ClassChanged(locked, new, t) = {} <=>
        \A c \in DOMAIN l.columns \cap DOMAIN v.columns :
           \/ l.columns[c].class = v.columns[c].class
           \/ SameEnum(locked, new, l.columns[c].class, v.columns[c].class)
  BY Zenon DEF ClassChanged
<1>4. NullabilityChanged(t, l, v) = {} <=>
        \A c \in DOMAIN l.columns \cap DOMAIN v.columns :
           l.columns[c].nullable <=> v.columns[c].nullable
  BY Zenon DEF NullabilityChanged
<1>5. BecameGenerated(t, l, v) = {} <=>
        \A c \in DOMAIN l.columns \cap DOMAIN v.columns :
           v.columns[c].generated => l.columns[c].generated
  BY Zenon DEF BecameGenerated
<1>6. Compared(locked, new, t) = {} <=>
        /\ ColumnsDropped(t, l, v) = {} /\ ColumnsAdded(t, l, v) = {}
        /\ KeysChanged(t, l, v) = {} /\ ForeignKeysChanged(t, l, v) = {}
        /\ ClassChanged(locked, new, t) = {} /\ NullabilityChanged(t, l, v) = {}
        /\ BecameGenerated(t, l, v) = {}
  BY DEF Compared
<1>7. DOMAIN l.columns = DOMAIN v.columns <=>
        DOMAIN l.columns \subseteq DOMAIN v.columns /\ DOMAIN v.columns \subseteq DOMAIN l.columns
  OBVIOUS
<1>8. DOMAIN l.columns = DOMAIN v.columns => DOMAIN l.columns \cap DOMAIN v.columns = DOMAIN v.columns
  OBVIOUS
<1> QED BY <1>1, <1>2, <1>3, <1>4, <1>5, <1>6, <1>7, <1>8, Zenon DEF SameTable

LEMMA SameLabelsAreSilent ==
    ASSUME NEW locked, NEW new, NEW creatable
    PROVE  EnumsChanged(locked, new, creatable) = {} <=>
              \A e \in DOMAIN locked.enums : SameLabels(locked, new, creatable, e)
<1> DEFINE Gone(e) == /\ LiveLabels(locked, new, e) = {}
                      /\ EnumUsers(locked, e) # {} /\ ~creatable
           Less(e) == \E s \in LiveLabels(locked, new, e) : ~(locked.enums[e] \subseteq s)
           More(e) == \E s \in LiveLabels(locked, new, e) : ~(s \subseteq locked.enums[e])
<1>1. EnumsChanged(locked, new, creatable) = {} <=>
        \A e \in DOMAIN locked.enums : ~Gone(e) /\ ~Less(e) /\ ~More(e)
  <2>1. EnumsChanged(locked, new, creatable) = {} =>
          \A e \in DOMAIN locked.enums : ~Gone(e) /\ ~Less(e) /\ ~More(e)
    BY DEF EnumsChanged
  <2>2. (\A e \in DOMAIN locked.enums : ~Gone(e) /\ ~Less(e) /\ ~More(e)) =>
          EnumsChanged(locked, new, creatable) = {}
    BY DEF EnumsChanged
  <2> QED BY <2>1, <2>2
<1>2. ASSUME NEW e \in DOMAIN locked.enums
      PROVE  ~Gone(e) /\ ~Less(e) /\ ~More(e) <=> SameLabels(locked, new, creatable, e)
  <2>1. CASE e \in DOMAIN new.enums
    <3>1. LiveLabels(locked, new, e) = {new.enums[e]}
      BY <2>1 DEF LiveLabels
    <3>2. new.enums[e] = locked.enums[e] <=>
            new.enums[e] \subseteq locked.enums[e] /\ locked.enums[e] \subseteq new.enums[e]
      OBVIOUS
    <3>3. LiveLabels(locked, new, e) # {}
      BY <3>1
    <3> QED BY <2>1, <3>1, <3>2, <3>3 DEF SameLabels
  <2>2. CASE e \notin DOMAIN new.enums
    <3>1. LiveLabels(locked, new, e) =
            {new.enums[f] : f \in {g \in DOMAIN new.enums : new.enums[g] = locked.enums[e]}}
      BY <2>2 DEF LiveLabels
    <3>2. \A s \in LiveLabels(locked, new, e) : s = locked.enums[e]
      BY <3>1
    <3>3. ~Less(e) /\ ~More(e)
      BY <3>2
    <3>4. LiveLabels(locked, new, e) = {} <=>
            ~ \E f \in DOMAIN new.enums : new.enums[f] = locked.enums[e]
      BY <3>1
    <3> QED BY <2>2, <3>3, <3>4, Zenon DEF SameLabels
  <2> QED BY <2>1, <2>2
<1> QED
  <2> HIDE DEF Gone, Less, More
  <2> QED BY <1>1, <1>2

\* Nothing is reported of two schemas exactly if they are alike: what a drift
\* could break, tables, columns, their classes and nullability, keys and labels,
\* is the same in both.
THEOREM QuietMeansAlike ==
    \A locked, new, creatable :
        Classify(locked, new, creatable) = {} <=> Alike(locked, new, creatable)
<1> SUFFICES ASSUME NEW locked, NEW new, NEW creatable
             PROVE  Classify(locked, new, creatable) = {} <=> Alike(locked, new, creatable)
  OBVIOUS
<1>1. TableDrifts(locked, new, creatable) = {} <=> DOMAIN locked.tables = DOMAIN new.tables
  BY DEF TableDrifts
<1>2. Classify(locked, new, creatable) = {} <=>
        /\ TableDrifts(locked, new, creatable) = {}
        /\ EnumsChanged(locked, new, creatable) = {}
        /\ \A t \in BothHave(locked, new) : Compared(locked, new, t) = {}
  <2>1. ASSUME Classify(locked, new, creatable) = {}
        PROVE  /\ TableDrifts(locked, new, creatable) = {}
               /\ EnumsChanged(locked, new, creatable) = {}
               /\ \A t \in BothHave(locked, new) : Compared(locked, new, t) = {}
    <3>1. \A d : d \notin TableDrifts(locked, new, creatable)
      BY <2>1, ClassifyParts
    <3>2. \A d : d \notin EnumsChanged(locked, new, creatable)
      BY <2>1, ClassifyParts
    <3>3. \A t \in BothHave(locked, new) : \A d : d \notin Compared(locked, new, t)
      BY <2>1, ClassifyParts
    <3> QED BY <3>1, <3>2, <3>3
  <2>2. ASSUME TableDrifts(locked, new, creatable) = {},
               EnumsChanged(locked, new, creatable) = {},
               \A t \in BothHave(locked, new) : Compared(locked, new, t) = {}
        PROVE  Classify(locked, new, creatable) = {}
    <3>1. \A d : d \notin Classify(locked, new, creatable)
      BY <2>2, ClassifyParts
    <3> QED BY <3>1
  <2> QED BY <2>1, <2>2
<1>3. DOMAIN locked.tables = DOMAIN new.tables => BothHave(locked, new) = DOMAIN new.tables
  BY DEF BothHave
<1> QED BY <1>1, <1>2, <1>3, SameTableIsSilent, SameLabelsAreSilent DEF Alike

\* So a lock that was just rebuilt silences the gate: until the live schema moves
\* on, a run reports nothing, asks nothing and needs no --force.
THEOREM FreshLocksAreQuiet ==
    Spec => [](lock.schema = live => Drifts = {} /\ ~Hard(Drifts))
<1>1. Alike(live, live, job.creatable)
  BY DEF Alike, SameTable, SameLabels
<1>2. lock.schema = live => Classify(lock.schema, live, job.creatable) = {}
  BY <1>1, QuietMeansAlike
<1>3. lock.schema = live => Drifts = {} /\ ~Hard(Drifts)
  BY <1>2 DEF Drifts, Hard
<1> QED BY <1>3, PTL

LEMMA LeastTable ==
    ASSUME NEW S, S \subseteq Nat, S # {}
    PROVE  \E n \in S : \A m \in S : n <= m
<1>1. PICK n \in S : \A m \in S : ~ (<<m, n>> \in OpToRel(<, Nat))
  BY WFMin, NatLessThanWellFounded
<1>2. \A m \in S : n <= m
  <2> SUFFICES ASSUME NEW m \in S PROVE n <= m
    OBVIOUS
  <2>1. <<m, n>> \in Nat \X Nat /\ <<m, n>>[1] = m /\ <<m, n>>[2] = n
    OBVIOUS
  <2>2. ~(m < n)
    BY <1>1, <2>1 DEF OpToRel
  <2>. QED  BY <2>1, <2>2
<1>. QED  BY <1>2

\* A drift is about a table of either schema, or about none.
LEMMA DriftTables ==
    ASSUME NEW locked, NEW new, NEW creatable,
           WellFormed(locked), WellFormed(new), NEW d \in Classify(locked, new, creatable)
    PROVE  d.table \in Tables \cup {Whole}
<1>1. DOMAIN locked.tables \subseteq Tables /\ DOMAIN new.tables \subseteq Tables
  BY DEF WellFormed
<1>2. CASE d \in TableDrifts(locked, new, creatable)
  <2>1. PICK t \in DOMAIN locked.tables \cup DOMAIN new.tables :
          \E s, w : d = Drift(s, t, Whole, w)
    BY <1>2 DEF TableDrifts
  <2> QED BY <1>1, <2>1, DriftFields
<1>3. CASE d \in EnumsChanged(locked, new, creatable)
  <2>1. PICK e : \E s, w : d = Drift(s, EnumOwner(locked, e), Whole, w)
    BY <1>3 DEF EnumsChanged
  <2>2. d.table = EnumOwner(locked, e)
    BY <2>1, DriftFields
  <2>3. EnumUsers(locked, e) \subseteq Tables
    BY <1>1 DEF EnumUsers
  <2>4. ASSUME EnumUsers(locked, e) # {} PROVE EnumOwner(locked, e) \in EnumUsers(locked, e)
    <3>1. \E t \in EnumUsers(locked, e) : \A u \in EnumUsers(locked, e) : t <= u
      BY <2>3, <2>4, NamesAssumption, LeastTable
    <3> QED BY <2>4, <3>1 DEF EnumOwner
  <2> QED BY <2>2, <2>3, <2>4 DEF EnumOwner
<1>4. ASSUME NEW t \in BothHave(locked, new), d \in Compared(locked, new, t)
      PROVE  d.table \in Tables
  BY <1>1, <1>4, ComparedTable DEF BothHave
<1> QED BY <1>2, <1>3, <1>4, ClassifyParts

\* No table's drift is ignored, and none is found.
FoundNothing == report = {} /\ \A t \in Tables : Policy(t) # "ignore"

\* If the gate found nothing under the lock the files were written with, the
\* database stores every value of them.  The one thing it may reject is the null
\* of a column that had no values in the files, because it was generated, and
\* is not generated any more, nor nullable.
THEOREM QuietLoadsAreStored ==
    Spec => [](exit = "rejected" /\ FoundNothing /\ lock.schema = job.locked =>
                 \A t \in Configured : \A c \in Writable(Target(t)) :
                    \A v \in SeedValues(t, c) :
                       Rejects(t, c, v) =>
                          /\ v = SeedNull /\ Target(t).columns[c].has_default
                          /\ lock.schema.tables[t].columns[c].generated)
<1>1. ASSUME IInv, exit = "rejected", FoundNothing, lock.schema = job.locked,
             NEW t \in Configured, NEW c \in Writable(Target(t)), NEW v \in SeedValues(t, c),
             Rejects(t, c, v)
      PROVE  /\ v = SeedNull /\ Target(t).columns[c].has_default
             /\ lock.schema.tables[t].columns[c].generated
  <2> DEFINE was == lock.schema.tables[t].columns[c]
             is == live.tables[t].columns[c]
  <2>1. /\ job \in Jobs /\ live \in {job.live, job.later} /\ report = Drifts /\ ~Refused(t)
    BY <1>1 DEF IInv, Passed, Past, TypeOK
  <2>2. /\ WellFormed(lock.schema) /\ WellFormed(live) /\ Exported(lock.schema, job.seed)
        /\ t \in DOMAIN lock.schema.tables
    BY <1>1, <2>1, JobsAssumption DEF Configured, Exported
  <2>3. Alike(lock.schema, live, job.creatable)
    <3>1. \A d \in Classify(lock.schema, live, job.creatable) : d.table \in Tables \cup {Whole}
      BY <2>2, DriftTables
    <3>2. \A d \in Classify(lock.schema, live, job.creatable) : Policy(d.table) # "ignore"
      BY <1>1, <3>1 DEF FoundNothing, Policy
    <3>3. Classify(lock.schema, live, job.creatable) = {}
      BY <1>1, <2>1, <3>2 DEF FoundNothing, Drifts
    <3> QED BY <3>3, QuietMeansAlike
  <2>4. /\ t \in DOMAIN live.tables /\ SameTable(lock.schema, live, t)
        /\ Target(t) = live.tables[t] /\ Description(t) = live
    BY <2>2, <2>3 DEF Alike, Target, Description
  <2>5. /\ c \in DOMAIN live.tables[t].columns /\ c \in DOMAIN lock.schema.tables[t].columns
        /\ ~is.generated /\ (was.nullable <=> is.nullable)
        /\ was.class = is.class \/ SameEnum(lock.schema, live, was.class, is.class)
    BY <1>1, <2>4 DEF SameTable, Writable
  <2>6. v = SeedNull => is.has_default /\ ~is.nullable
    BY <1>1, <2>1, <2>4 DEF Refused, Invalid, Rejects
  <2>7. SUFFICES ASSUME ~(v = SeedNull /\ was.generated) PROVE FALSE
    BY <2>4, <2>6
  <2>8. v = SeedNull /\ c \notin DOMAIN job.seed[t] => was.generated
    BY <2>2, <2>5 DEF Exported, Writable
  <2>9. c \in DOMAIN job.seed[t] /\ v \in job.seed[t][c] /\ c \in Writable(lock.schema.tables[t])
    BY <2>2, <2>7, <2>8 DEF SeedValues, Exported
  <2>10. v # SeedNull /\ v \in Value /\ Holds(was.class, LabelsOf(lock.schema, was.class), v)
    <3>1. \/ v = SeedNull /\ was.nullable
          \/ v \in Value /\ Holds(was.class, LabelsOf(lock.schema, was.class), v)
      BY <2>2, <2>9 DEF Exported
    <3>2. v \in Value /\ Holds(was.class, LabelsOf(lock.schema, was.class), v)
      BY <2>5, <2>6, <3>1
    <3>3. "len" \in DOMAIN v
      BY <3>2 DEF Value, ScalarValue
    <3>4. "len" \notin DOMAIN SeedNull
      BY DEF SeedNull
    <3> QED BY <3>2, <3>3, <3>4
  <2>11. ~Holds(is.class, LabelsOf(live, is.class), v)
    BY <1>1, <2>4, <2>10 DEF Rejects
  <2>12. CASE was.class = is.class
    <3>1. was.class \in TypeClass
      BY <2>2, <2>5 DEF WellFormed, Column
    <3>2. \A e \in TypeNames : UsesEnum(was.class, e) =>
             live.enums[e] = lock.schema.enums[e]
      BY <2>2, <2>3, <2>4, <2>5, <2>12 DEF WellFormed, Alike, SameLabels
    <3>3. LabelsOf(lock.schema, was.class) = LabelsOf(live, is.class)
      <4> DEFINE s == IF was.class.kind = "array" THEN was.class.of ELSE was.class
      <4>1. s.kind = "enum" => s.name \in TypeNames /\ UsesEnum(was.class, s.name)
        BY <3>1, ClassFields DEF ScalarClass, UsesEnum
      <4>2. s.kind = "enum" => live.enums[s.name] = lock.schema.enums[s.name]
        BY <3>2, <4>1
      <4>3. /\ LabelsOf(lock.schema, was.class) =
                 IF s.kind = "enum" THEN lock.schema.enums[s.name] ELSE {}
            /\ LabelsOf(live, was.class) = IF s.kind = "enum" THEN live.enums[s.name] ELSE {}
        BY DEF LabelsOf
      <4> HIDE DEF s
      <4>4. LabelsOf(lock.schema, was.class) = LabelsOf(live, was.class)
        BY <4>2, <4>3
      <4> HIDE DEF was, is
      <4> QED BY <2>12, <4>4
    <3> HIDE DEF was, is
    <3> QED BY <2>10, <2>11, <2>12, <3>3
  <2>13. CASE SameEnum(lock.schema, live, was.class, is.class)
    BY <2>10, <2>11, <2>13 DEF SameEnum, Holds, HoldsScalar, LabelsOf
  <2> QED BY <2>5, <2>12, <2>13
<1>2. IInv =>
        (exit = "rejected" /\ FoundNothing /\ lock.schema = job.locked =>
           \A t \in Configured : \A c \in Writable(Target(t)) :
              \A v \in SeedValues(t, c) :
                 Rejects(t, c, v) =>
                    /\ v = SeedNull /\ Target(t).columns[c].has_default
                    /\ lock.schema.tables[t].columns[c].generated)
  BY <1>1
<1> QED BY <1>2, Invariance, PTL
-----------------------------------------------------------------------------
(* Widening is a preorder: column by column, migrations that only widened    *)
(* are judged together as each was alone, however long ago the lock is.      *)

LEMMA ScalarsCompose ==
    ASSUME NEW a \in ScalarClass, NEW b \in TypeClass, NEW c \in TypeClass,
           WidensScalar(a, b), WidensScalar(b, c)
    PROVE  WidensScalar(a, c)
<1>1. CASE WidensNumber(a, b)
  <2>1. b \in ScalarClass /\ b.kind \in {"int", "float", "decimal"}
    BY <1>1, ScalarFields DEF WidensNumber, TypeClass
  <2>2. b = c \/ WidensNumber(b, c) \/ (c.kind = "text" /\ c.max_len = None)
    BY <2>1, ScalarFields DEF WidensScalar, WidensText
  <2>3. ASSUME WidensNumber(b, c) PROVE WidensNumber(a, c)
    <3>1. c \in ScalarClass /\ c.kind \in {"int", "float", "decimal"}
      BY <2>3, ScalarFields DEF WidensNumber, TypeClass
    <3> QED BY <1>1, <2>1, <2>3, <3>1, ScalarFields DEF WidensNumber, None
  <2> QED BY <1>1, <2>2, <2>3 DEF WidensScalar, WidensText
<1>2. CASE WidensText(a, b)
  <2>1. b \in ScalarClass /\ b.kind = "text" /\ b.max_len \in Nat
    BY <1>2, ScalarFields DEF WidensText, TypeClass
  <2>2. b = c \/ WidensText(b, c)
    BY <2>1 DEF WidensScalar, WidensNumber
  <2>3. ASSUME WidensText(b, c) PROVE WidensText(a, c)
    <3>1. c \in ScalarClass /\ c.kind = "text" /\ c.max_len \in Nat
      BY <2>3, ScalarFields DEF WidensText, TypeClass
    <3> QED BY <1>2, <2>1, <2>3, <3>1, ScalarFields DEF WidensText, None
  <2> QED BY <1>2, <2>2, <2>3 DEF WidensScalar
<1>3. CASE a.kind = "json" /\ b.kind = "json"
  BY <1>3 DEF WidensScalar, WidensNumber, WidensText
<1>4. CASE a.kind = "date" /\ b.kind = "timestamp"
  BY <1>4 DEF WidensScalar, WidensNumber, WidensText
<1>5. CASE a.kind = "timestamp" /\ b.kind = "timestamp" /\ ~a.flag /\ b.flag
  BY <1>5 DEF WidensScalar, WidensNumber, WidensText
<1> QED BY <1>1, <1>2, <1>3, <1>4, <1>5 DEF WidensScalar

\* A class widens to itself, and to what a wider class widens to: several changes
\* of a column that a relock after each would have found harmless are harmless to
\* a lock that is as many migrations behind.
THEOREM WideningComposes ==
    /\ \A a \in TypeClass : Widens(a, a)
    /\ \A a, b, c \in TypeClass : Widens(a, b) /\ Widens(b, c) => Widens(a, c)
<1>1. ASSUME NEW a \in TypeClass PROVE Widens(a, a)
  BY DEF Widens, WidensScalar
<1>2. ASSUME NEW a \in TypeClass, NEW b \in TypeClass, NEW c \in TypeClass,
             Widens(a, b), Widens(b, c)
      PROVE  Widens(a, c)
  <2>1. CASE a.kind # "array"
    <3>1. a \in ScalarClass /\ WidensScalar(a, b)
      BY <1>2, <2>1 DEF TypeClass, Widens
    <3>2. CASE b.kind # "array"
      BY <1>2, <2>1, <3>1, <3>2, ScalarsCompose DEF Widens
    <3>3. CASE b.kind = "array"
      BY <2>1, <3>1, <3>3 DEF WidensScalar, WidensNumber, WidensText
    <3> QED BY <3>2, <3>3
  <2>2. CASE a.kind = "array" /\ b.kind = "array"
    <3>1. /\ a.of \in ScalarClass /\ b.of \in ScalarClass /\ WidensScalar(a.of, b.of)
      BY <1>2, <2>2, ScalarIsNoArray DEF TypeClass, Widens
    <3>2. CASE c.kind = "array"
      <4>1. c.of \in ScalarClass /\ WidensScalar(b.of, c.of)
        BY <1>2, <2>2, <3>2, ScalarIsNoArray DEF TypeClass, Widens
      <4> QED BY <2>2, <3>1, <3>2, <4>1, ScalarsCompose DEF Widens, TypeClass
    <3>3. CASE c.kind # "array"
      <4>1. c.kind = "text" /\ c.max_len = None
        BY <1>2, <2>2, <3>3 DEF Widens, WidensScalar, WidensNumber, WidensText
      <4> QED BY <3>3, <4>1 DEF Widens, WidensScalar, WidensText
    <3> QED BY <3>2, <3>3
  <2>3. CASE a.kind = "array" /\ b.kind # "array"
    <3>1. b.kind = "text" /\ b.max_len = None
      BY <1>2, <2>3 DEF Widens, WidensScalar, WidensNumber, WidensText
    <3>2. WidensScalar(b, c)
      BY <1>2, <2>3 DEF Widens
    <3>3. c.kind = "text" /\ c.max_len = None
      BY <3>1, <3>2, ScalarFields DEF WidensScalar, WidensNumber, WidensText, TypeClass, None
    <3> QED BY <3>3 DEF Widens, WidensScalar, WidensText
  <2> QED BY <2>1, <2>2, <2>3
<1> QED BY <1>1, <1>2
=============================================================================
